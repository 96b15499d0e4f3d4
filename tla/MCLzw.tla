-------------------------------- MODULE MCLzw --------------------------------
(* Bytes of one bit are compressed into bytes of two.                        *)
EXTENDS Lzw

CONSTANTS MaxIn, MaxDamaged

UpTo(S, n) == UNION {[1 .. k -> S] : k \in 1 .. n}

\* All of its beginnings: the last ones use up the table, and one place more.
LongInput == <<0, 1, 0, 0, 1, 0, 0, 0, 0, 1, 1, 1, 1, 0, 0, 1, 1, 1, 0, 1, 1, 0, 1, 1, 1, 0,
               1>>

MCInputs  == UpTo(0 .. 1, MaxIn)
             \cup {SubSeq(LongInput, 1, k) : k \in MaxIn + 1 .. Len(LongInput)}
MCAgain   == UpTo(0 .. 1, 3)
\* The last one is long enough for more codes than the table holds.
MCDamaged == UpTo(0 .. 3, MaxDamaged) \cup {[k \in 1 .. 30 |-> 0]}
=============================================================================
