------------------------------- MODULE Q3Msg -------------------------------
(***************************************************************************)
(* quake3/code/qcommon/msg.c: how Quake III writes its messages bit by bit.*)
(* lmpc reads and writes numbers and strings with these functions, and a   *)
(* game has written every recording with MSG_WriteDeltaEntity and          *)
(* MSG_WriteDeltaPlayerstate.  A message is a sequence of bits; that eight *)
(* bits at a time go through a Huffman code is left out.  A float is the   *)
(* set of its bits, an integer an integer.                                 *)
(***************************************************************************)
EXTENDS Binblock

CONSTANTS StringChars,   \* MAX_STRING_CHARS, 1024
          BigChars       \* BIG_INFO_STRING, 8192
ASSUME CharsAssumption == StringChars \in Nat /\ BigChars \in Nat /\ StringChars < BigChars

Width(bits) == IF bits < 0 THEN -bits ELSE bits
Negative(w) == -(2^(w - 2)) - 2^(w - 2)     \* -2^(w-1), which 2^31 would not fit
MSG_ReadBits(b, p, bits) ==
  LET w == Width(bits)
      S == {i \in 0 .. w - 1 : b[p + i] = 1}
  IN  [v |-> IF w - 1 \in S /\ (bits < 0 \/ w = 32) THEN FromBits(S \ {w - 1}) + Negative(w)
             ELSE FromBits(S), p |-> p + w]
BitOf(a, i) == IF i = 31 THEN IF a < 0 THEN 1 ELSE 0 ELSE (a \div 2^i) % 2
MSG_WriteBits(a, bits) == [i \in 1 .. Width(bits) |-> BitOf(a, i - 1)]

MSG_ReadByte(b, p)  == MSG_ReadBits(b, p, 8)
MSG_ReadShort(b, p) == MSG_ReadBits(b, p, -16)
MSG_ReadLong(b, p)  == MSG_ReadBits(b, p, 32)
MSG_WriteByte(a)    == MSG_WriteBits(a, 8)
MSG_WriteShort(a)   == MSG_WriteBits(a, 16)
MSG_WriteLong(a)    == MSG_WriteBits(a, 32)
MSG_WriteData(seq)  == FlattenSeq([i \in DOMAIN seq |-> MSG_WriteByte(seq[i])])

\* A string ends with a NUL or when the buffer is full: then the NUL stays unread.
Percent == 37
Dot     == 46
ReadChars(b, p, max, Kept(_)) ==
  LET Char(k) == MSG_ReadByte(b, p + 8 * (k - 1)).v
      last    == Least(1 .. max, LAMBDA k : k = max \/ Char(k) = 0)
  IN  [v |-> [k \in 1 .. last - 1 |-> Kept(Char(k))],
       p |-> p + 8 * (IF last = max THEN max - 1 ELSE last)]
MSG_ReadString(b, p) ==
  ReadChars(b, p, StringChars, LAMBDA c : IF c = Percent \/ c > 127 THEN Dot ELSE c)
MSG_ReadBigString(b, p) ==
  ReadChars(b, p, BigChars, LAMBDA c : IF c = Percent THEN Dot ELSE c)
\* A string that is too long is written as an empty one.
WriteChars(s, max) ==
  IF Len(s) >= max THEN MSG_WriteData(<<0>>)
  ELSE MSG_WriteData([i \in DOMAIN s |-> IF s[i] > 127 THEN Dot ELSE s[i]] \o <<0>>)
MSG_WriteString(s)    == WriteChars(s, StringChars)
MSG_WriteBigString(s) == WriteChars(s, BigChars)

GENTITYNUM_BITS == 10
FLOAT_INT_BITS  == 13
FLOAT_INT_BIAS  == 4096
MAX_GENTITIES   == 1024
entityStateFields ==
  <<32, 0, 0, 0, 0, 0, 0, 0, 0, 10, 0, 8, 8, 8, 8, 10, 8, 19, 10, 8, 8, 0, 32, 8, 0, 0, 0, 24,
    16, 8, 10, 8, 8, 0, 0, 0, 8, 0, 32, 32, 32, 0, 0, 0, 0, 32, 0, 0, 0, 32, 16>>
playerStateFields ==
  <<32, 0, 0, 8, 0, 0, 0, 0, -16, 0, 0, 8, -16, 16, 8, 4, 8, 8, 8, 16, 10, 4, 16, 10, 16, 16,
    16, 8, -8, 8, 8, 8, 8, 8, 8, 16, 16, 12, 8, 8, 8, 5, 0, 0, 0, 0, 10, 16>>

(***************************************************************************)
(* Floats that are small integers are sent as such.                        *)
(***************************************************************************)
Exponent(S) == FromBits({i - 23 : i \in S \cap (23 .. 30)}) - 127
IsSmallInt(S) ==
  LET e == Exponent(S)
  IN  \/ S \subseteq {31}
      \/ e \in 0 .. 11 /\ S \cap (0 .. 22 - e) = {}
      \/ e = 12 /\ S \cap (0 .. 22) = {} /\ 31 \in S
IntOf(S) ==
  LET e == Exponent(S)
      a == 2^e + FromBits({i - (23 - e) : i \in S \cap (23 - e .. 22)})
  IN  IF S \subseteq {31} THEN 0 ELSE IF 31 \in S THEN -a ELSE a
FloatOf(a) ==
  LET abs == IF a < 0 THEN -a ELSE a
      e   == Least(0 .. 12, LAMBDA k : abs < 2^(k + 1))
  IN  IF a = 0 THEN {}
      ELSE {i + (23 - e) : i \in Bits(abs - 2^e, 12)} \cup {23 + i : i \in Bits(e + 127, 8)}
           \cup (IF a < 0 THEN {31} ELSE {})
FloatBits(S) == [i \in 1 .. 32 |-> IF i - 1 \in S THEN 1 ELSE 0]
WriteFloat(S) ==
  IF IsSmallInt(S) THEN <<0>> \o MSG_WriteBits(IntOf(S) + FLOAT_INT_BIAS, FLOAT_INT_BITS)
  ELSE <<1>> \o FloatBits(S)
ReadFloat(b, p) ==
  IF b[p] = 0
  THEN LET g == MSG_ReadBits(b, p + 1, FLOAT_INT_BITS)
       IN  [v |-> FloatOf(g.v - FLOAT_INT_BIAS), p |-> g.p]
  ELSE [v |-> {i \in 0 .. 31 : b[p + 1 + i] = 1}, p |-> p + 33]

\* The bits for a changed field of an entity, which has a bit for 0, and of a player.
IsZero(bits, a) == IF bits = 0 THEN a \subseteq {31} ELSE a = 0
PlayerField(bits, a) == IF bits = 0 THEN WriteFloat(a) ELSE MSG_WriteBits(a, bits)
EntityField(bits, a) == IF IsZero(bits, a) THEN <<0>> ELSE <<1>> \o PlayerField(bits, a)

(***************************************************************************)
(* What the game sends when the fields of the set changed are other than   *)
(* they were: to[i] is the new value.                                      *)
(***************************************************************************)
LastOf(S) == IF S = {} THEN 0 ELSE CHOOSE i \in S : \A j \in S : j <= i
ChangeBits(changed, to, fields, Field(_, _)) ==
  FlattenSeq([i \in 1 .. LastOf(changed) |->
    IF i \in changed THEN <<1>> \o Field(fields[i], to[i]) ELSE <<0>>])
MSG_RemoveEntity(number) == MSG_WriteBits(number, GENTITYNUM_BITS) \o <<1>>
MSG_WriteDeltaEntity(number, changed, to, force) ==
  IF changed = {}
  THEN IF force THEN MSG_WriteBits(number, GENTITYNUM_BITS) \o <<0, 0>> ELSE <<>>
  ELSE MSG_WriteBits(number, GENTITYNUM_BITS) \o <<0, 1>> \o MSG_WriteByte(LastOf(changed))
       \o ChangeBits(changed, to, entityStateFields, EntityField)

\* The four arrays: arrays[a] maps the indices that have changed to the values.
ArrayNames == <<"stats", "persistants", "ammos", "powerups">>
ArrayBits(a, values) ==
  IF DOMAIN values = {} THEN <<0>>
  ELSE <<1>> \o MSG_WriteShort(FromBits(DOMAIN values))
       \o FlattenSeq([k \in 1 .. 16 |->
            IF k - 1 \notin DOMAIN values THEN <<>>
            ELSE IF a = "powerups" THEN MSG_WriteLong(values[k - 1])
            ELSE MSG_WriteShort(values[k - 1])])
MSG_WriteDeltaPlayerstate(changed, to, arrays) ==
  MSG_WriteByte(LastOf(changed)) \o ChangeBits(changed, to, playerStateFields, PlayerField)
  \o (IF \A a \in DOMAIN arrays : DOMAIN arrays[a] = {} THEN <<0>>
      ELSE <<1>> \o FlattenSeq([k \in 1 .. 4 |-> ArrayBits(ArrayNames[k], arrays[ArrayNames[k]])]))
=============================================================================
