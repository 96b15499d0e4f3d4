------------------------------ MODULE Binblock ------------------------------
(***************************************************************************)
(* The numbers and strings of a binary block: binblock.c, and the writers  *)
(* there that every message without a peculiarity goes through.            *)
(*                                                                         *)
(* A block is a sequence of bytes.  An integer is an integer; a coordinate,*)
(* an angle or a volume is the number it is a fixed fraction of, the       *)
(* fractions being exact in a float but for those of H_TIMEOFS and H_BLEND;*)
(* a float is its four bytes.  Text is abstracted to symbols: one byte     *)
(* other than 0 stands for a whole string, or for a part of one.           *)
(***************************************************************************)
EXTENDS Integers, FiniteSetsExt, SequencesExt

CONSTANT StringMax   \* bound of get_next_string, 0x7FF
ASSUME StringMaxAssumption == StringMax \in Nat \ {0}

Byte == 0 .. 255
Bits(n, w) == {i \in 0 .. w - 1 : (n \div 2^i) % 2 = 1}
FromBits(S) == SumSet({2^i : i \in S})
Ascending(S) == SelectSeq([i \in 1 .. 40 |-> i - 1], LAMBDA i : i \in S)   \* of small numbers
Least(S, P(_)) == CHOOSE i \in S : P(i) /\ \A j \in S : j < i => ~ P(j)

signed(a, w) == IF a >= 2^(w - 1) THEN a - 2^w ELSE a

get_next_unsigned_char(b, p) == b[p]
get_next_signed_char(b, p) == signed(b[p], 8)
get_next_short(b, p) == b[p] + get_next_signed_char(b, p + 1) * 256
get_next_long(b, p) ==
  b[p] + b[p + 1] * 256 + b[p + 2] * 65536 + get_next_signed_char(b, p + 3) * 16777216
get_next_float(b, p) == SubSeq(b, p, p + 3)

put_unsigned_char(a) == <<a % 256>>
put_signed_char(a) == <<a % 256>>
put_short(a) == put_unsigned_char(a) \o put_signed_char(a \div 256)
put_long(a) == put_short(a % 65536) \o put_short(a \div 65536)
put_float(a) == a

\* Characters up to the NUL, at most StringMax; then one more byte is skipped.
get_next_string(b, p) ==
  LET q == Least(p .. p + StringMax, LAMBDA i : i = p + StringMax \/ b[i] = 0)
  IN  [v |-> SubSeq(b, p, q - 1), p |-> q + 1]
put_string(a) == Append(a, 0)

(***************************************************************************)
(* A float that was read from a byte by a division and is written by a     *)
(* multiplication that truncates.  d * 2^e brings the quotient between     *)
(* 2^23 and 2^24; it was rounded down when the rest is less than a half.   *)
(***************************************************************************)
Truncated(a, d, e) ==
  LET power(k) == FoldLeft(LAMBDA x, i : (2 * x) % d, 1, [i \in 1 .. k |-> i])
      rest == (a * power(e)) % d
  IN  IF a # 0 /\ rest # 0 /\ 2 * rest < d THEN a - 1 ELSE a

WriteTimeofs(a) ==
  put_unsigned_char(Truncated(a, 1000,
    33 - Least(0 .. 8, LAMBDA j : a * 64 < 125 * 2^j)))
\* Mutant: a blend is written as if it had been divided by 256 times 2^k.
WriteBlendTruncated(a) == put_unsigned_char(IF a > 0 THEN a - 1 ELSE 0)
WriteBlend(a) ==
  put_unsigned_char(Truncated(a, 255,
    IF a \in {0, 255} THEN 23 ELSE 24 + Least(0 .. 8, LAMBDA j : a * 2^(j + 1) >= 255)))

\* Directions outside of the table become its first entry.
NumVertexNormals == 162
ReadDir(b, p) == IF b[p] >= NumVertexNormals THEN 0 ELSE b[p]

ByteKinds  == {"byte", "vol", "att", "timeofs", "blend"}
CharKinds  == {"char", "angle", "vel", "offset", "bytefloat"}
ShortKinds == {"short", "coord", "angle16"}

\* Values read one after the other.
Nothing(p) == [v |-> <<>>, p |-> p]
Another(a, g) == [a EXCEPT !.v = Append(@, g.v), !.p = g.p]

\* The Read... functions: a value of kind k at p, and the place after it.
ReadKind(k, b, p) ==
  CASE k \in ByteKinds  -> [v |-> get_next_unsigned_char(b, p), p |-> p + 1]
    [] k \in CharKinds  -> [v |-> get_next_signed_char(b, p), p |-> p + 1]
    [] k \in ShortKinds -> [v |-> get_next_short(b, p), p |-> p + 2]
    [] k = "long"   -> [v |-> get_next_long(b, p), p |-> p + 4]
    [] k = "float"  -> [v |-> get_next_float(b, p), p |-> p + 4]
    [] k = "string" -> get_next_string(b, p)
    [] k = "dir"    -> [v |-> ReadDir(b, p), p |-> p + 1]
    [] k = "ushort" -> [v |-> get_next_short(b, p) % 65536, p |-> p + 2]
    [] k = "bits8"  -> [v |-> Bits(b[p], 8), p |-> p + 1]
    [] k = "bits16" -> [v |-> Bits(b[p] + 256 * b[p + 1], 16), p |-> p + 2]
    [] k = "bits32" -> [v |-> UNION {{8 * i + j : j \in Bits(b[p + i], 8)} : i \in 0 .. 3},
                        p |-> p + 4]

BitByte(S, i) == FromBits({j \in 0 .. 7 : 8 * i + j \in S})

\* do_simple_argument_write_bin: what a hint makes of a value.
WriteHint(h, a) ==
  CASE h \in {"byte", "vol", "att", "dir"} -> put_unsigned_char(a)
    [] h \in CharKinds  -> put_signed_char(a)
    [] h \in ShortKinds \cup {"ushort"} -> put_short(a)
    [] h = "long"    -> put_long(a)
    [] h = "SB"      -> IF a < 256 THEN put_unsigned_char(a) ELSE put_short(a)
    [] h = "LSB"     -> IF a < 256 THEN put_unsigned_char(a)
                        ELSE IF a < 32768 THEN put_short(a) ELSE put_long(a)
    [] h = "float"   -> put_float(a)
    [] h = "string"  -> put_string(a)
    [] h = "timeofs" -> WriteTimeofs(a)
    [] h = "blend"   -> WriteBlend(a)
    [] h = "bits8"   -> <<BitByte(a, 0)>>
    [] h = "bits16"  -> <<BitByte(a, 0), BitByte(a, 1)>>
    [] h = "bits32"  -> [i \in 1 .. 4 |-> BitByte(a, i - 1)]

\* do_simple_arguments_write_bin: a command's values one after the other.  The
\* element of a string list that has no next one is followed by one more NUL.
WriteArguments(c) ==
  IF c.h = "strings"
  THEN FlattenSeq([i \in DOMAIN c.v |-> put_string(c.v[i])])
       \o (IF c.v = <<>> THEN <<>> ELSE <<0>>)
  ELSE FlattenSeq([i \in DOMAIN c.v |-> WriteHint(c.h, c.v[i])])

(***************************************************************************)
(* do_simple_message_write_bin_unicast: the id, the client it is for when  *)
(* it follows a unicast node (Quake II), and the commands in their order.  *)
(* A message is [type, id, down]; a command of it is [n, h, v]: its token, *)
(* the hint of its values and the values.                                  *)
(***************************************************************************)
MaskUnicast == 128
WriteDown(down) == FlattenSeq([i \in DOMAIN down |-> WriteArguments(down[i])])
WriteId(id, unicast) ==
  IF unicast = <<>> THEN <<id>> ELSE <<id + MaskUnicast>> \o put_unsigned_char(unicast[1])
do_simple_message_write_bin_unicast(m, unicast) ==
  WriteId(m.id, unicast) \o WriteDown(m.down)
do_simple_message_write_bin(m) == do_simple_message_write_bin_unicast(m, <<>>)
\* What a writer writes that does not come to its end: it calls syserror, or it
\* looks for what is below a node that is not there.
Aborted == <<-1>>
\* The id of an unknown message is an argument of it.  Its data are taken for
\* granted; an id that is the last byte of its block has none.
do_unknown_message_write_bin(m) == IF Len(m.down) < 2 THEN Aborted ELSE WriteDown(m.down)
=============================================================================
