--------------------------- MODULE InplaceProofs ---------------------------
(***************************************************************************)
(* Theorems about ActionInplaceDEM and ActionInplaceDM2 in Lmpc: whatever  *)
(* is repaired in whatever recording, the file stays a recording.          *)
(***************************************************************************)
EXTENDS LmpcProofs

-----------------------------------------------------------------------------
(***************************************************************************)
(* The inductive invariant.  S is the set of the places where the blocks of*)
(* a file b begin, and of the one where the file ends; kind is ikind and o *)
(* the recording it was.                                                   *)
(***************************************************************************)
HeadOf(kind) == IF kind = "dem" THEN 16 ELSE 4
\* The place behind the block at x.
BlockEnd(kind, b, x) ==
  IF get_next_long(b, x) = -1 THEN x + 4 ELSE x + HeadOf(kind) + get_next_long(b, x)
FirstPlace(o) == Len(o.track) + 1
BlockAt(kind, b, x) == SubSeq(b, x, BlockEnd(kind, b, x) - 1)
\* A block, or the end block of a DM2 file.
IsBlockAt(kind, b, x) ==
  \/ get_next_long(b, x) \in Nat
  \/ get_next_long(b, x) = -1 /\ kind = "dm2" /\ x + 4 = Len(b) + 1
\* The blocks follow each other from the first to the end, no more than there were.
Divides(kind, o, b, S) ==
  /\ S \in SUBSET (FirstPlace(o) .. Len(b) + 1)
  /\ {FirstPlace(o), Len(b) + 1} \subseteq S
  /\ Cardinality(S) <= Len(o.blocks) + 2
  /\ \A x \in S \ {Len(b) + 1} :
       /\ IsBlockAt(kind, b, x) /\ BlockEnd(kind, b, x) \in S
       /\ \A y \in S : x < y => BlockEnd(kind, b, x) <= y
\* The only empty block in front of a place is the one behind which it is, if between.
NoneEmpty(kind, b, S, place, between) ==
  /\ kind = "dem" => ~ between
  /\ kind = "dm2" =>
       /\ \A y \in S : y < place /\ get_next_long(b, y) = 0 => between /\ y + 4 = place
       /\ between => place - 4 \in S /\ get_next_long(b, place - 4) = 0
\* The texts of the blocks from a place on have their ends.
TextsAhead(kind, b, S, place) ==
  kind = "dm2" =>
    \A x \in S : place <= x /\ x <= Len(b) => TextsEnd(BlockAt(kind, b, x))

\* b is a recording in which everything in front of place has been repaired.
SoundWith(kind, o, b, place, between, S) ==
  /\ Divides(kind, o, b, S) /\ place \in S
  /\ NoneEmpty(kind, b, S, place, between)
  /\ TextsAhead(kind, b, S, place)
Sound(kind, o, b, place, between) == \E S : SoundWith(kind, o, b, place, between, S)

\* buf is the block in front of place n, but for what was repaired behind its size.
SameSize(b, x, buf) == \A k \in 1 .. 4 : buf[k] = b[x + (k - 1)]
InHandWith(kind, o, b, buf, n, between, S) ==
  /\ Divides(kind, o, b, S)
  /\ n \in S /\ n - Len(buf) \in S /\ n - Len(buf) < n
  /\ BlockEnd(kind, b, n - Len(buf)) = n
  /\ NoneEmpty(kind, b, S, n - Len(buf), between)
  /\ TextsAhead(kind, b, S, n)
  /\ SameSize(b, n - Len(buf), buf)
InHand(kind, o, b, buf, n, between) == \E S : InHandWith(kind, o, b, buf, n, between, S)

\* The file b with buf written in front of place n.
WithBlock(b, buf, n) == SubSeq(b, 1, n - Len(buf)) \o buf \o SubSeq(b, n + 1, Len(b))
Written == IF changed THEN WithBlock(bytes, buffer, at) ELSE bytes

RecordingInv ==
  IF iphase = "off" THEN bytes = <<>> /\ at = 0 /\ ikind = "dm2"
  ELSE \E r \in Repairable : ikind = r.ikind /\ original = r.original
FileTypeInv ==
  /\ iphase \in {"off", "block", "search", "fields", "merge", "write", "done", "lost"}
  /\ bytes \in Seq(Byte) /\ at \in 0 .. Len(bytes)
  /\ changed \in BOOLEAN /\ lastwasbetweenblock \in BOOLEAN
  /\ iphase # "off" => Len(bytes) = Len(OriginalBytes)
BetweenInv ==
  iphase \in {"block", "done"} =>
    /\ Sound(ikind, original, bytes, at + 1, lastwasbetweenblock)
    /\ iphase = "done" => at = Len(bytes)
InHandInv ==
  iphase \in {"search", "fields", "merge"} =>
    /\ buffer \in Seq(Byte)
    /\ InHand(ikind, original, bytes, buffer, at + 1, iphase = "merge" \/ lastwasbetweenblock)
    /\ iphase # "search" => ikind = "dm2"
    /\ iphase = "merge" => ~ lastwasbetweenblock
SearchInv ==
  iphase = "search" =>
    /\ bufferbase \in HeadBytes + 1 .. Len(buffer) + 2
    /\ ikind = "dm2" => TextsEnd(buffer)
WriteInv ==
  iphase = "write" =>
    /\ buffer \in Seq(Byte) /\ Len(buffer) <= at
    /\ Sound(ikind, original, Written, at + 1, lastwasbetweenblock)
InplaceInv == RecordingInv /\ FileTypeInv /\ BetweenInv /\ InHandInv /\ SearchInv /\ WriteInv

-----------------------------------------------------------------------------
(* Sizes of blocks. *)

LEMMA BytesAre == \A x : x \in Byte <=> x \in Nat /\ x <= 255
  BY SMT DEF Byte

LEMMA SignedIs ==
  ASSUME NEW a \in Nat PROVE signed(a, 8) = IF a >= 128 THEN a - 256 ELSE a
<1>1. 2^8 = 256 /\ 2^(8 - 1) = 128
  OBVIOUS
<1> QED
  BY <1>1 DEF signed

LEMMA LongIsInt ==
  ASSUME NEW b, NEW x \in Nat, \A k \in 0 .. 3 : b[x + k] \in Byte
  PROVE  get_next_long(b, x) \in Int
<1>1. b[x] \in Nat /\ b[x + 1] \in Nat /\ b[x + 2] \in Nat /\ b[x + 3] \in Nat
  <2>1. b[x + 0] \in Byte /\ x + 0 = x /\ b[x + 1] \in Byte /\ b[x + 2] \in Byte /\ b[x + 3] \in Byte
    OBVIOUS
  <2> QED
    BY <2>1, BytesAre
<1>2. signed(b[x + 3], 8) \in Int
  BY <1>1, SignedIs
<1> QED
  BY <1>1, <1>2, SMT DEF get_next_long, get_next_signed_char

LEMMA SameLong ==
  ASSUME NEW b, NEW c, NEW x \in Nat, NEW y \in Nat, \A k \in 0 .. 3 : b[x + k] = c[y + k]
  PROVE  get_next_long(b, x) = get_next_long(c, y)
<1>1. b[x] = c[y] /\ b[x + 1] = c[y + 1] /\ b[x + 2] = c[y + 2] /\ b[x + 3] = c[y + 3]
  <2>1. b[x + 0] = c[y + 0] /\ x + 0 = x /\ y + 0 = y
    OBVIOUS
  <2> QED
    BY <2>1
<1> QED
  BY <1>1, SMT DEF get_next_long, get_next_signed_char

LEMMA LongOfBytes ==
  ASSUME NEW a \in Nat, NEW b \in Nat, NEW c \in Nat, NEW d \in Nat
  PROVE  get_next_long(<<a, b, c, d>>, 1) = a + b * 256 + c * 65536 + signed(d, 8) * 16777216
  BY SMT DEF get_next_long, get_next_signed_char

LEMMA PairsAre ==
  ASSUME NEW a \in Byte, NEW b \in Byte, NEW c \in Byte, NEW d \in Byte
  PROVE  /\ (<<a>> \o <<b>>) \o (<<c>> \o <<d>>) = <<a, b, c, d>>
         /\ <<a, b, c, d>> \in Seq(Byte) /\ Len(<<a, b, c, d>>) = 4
<1>1. \A x \in Byte : <<x>> \in Seq(Byte) /\ Len(<<x>>) = 1 /\ <<x>>[1] = x
  OBVIOUS
<1>2. /\ <<a, b, c, d>> \in Seq(Byte) /\ Len(<<a, b, c, d>>) = 4
      /\ <<a, b, c, d>>[1] = a /\ <<a, b, c, d>>[2] = b /\ <<a, b, c, d>>[3] = c /\ <<a, b, c, d>>[4] = d
  OBVIOUS
<1>3. ASSUME NEW x \in Byte, NEW y \in Byte
      PROVE  /\ <<x>> \o <<y>> \in Seq(Byte) /\ Len(<<x>> \o <<y>>) = 2
             /\ (<<x>> \o <<y>>)[1] = x /\ (<<x>> \o <<y>>)[2] = y
  <2>1. /\ <<x>> \o <<y>> \in Seq(Byte) /\ Len(<<x>> \o <<y>>) = Len(<<x>>) + Len(<<y>>)
        /\ \A i \in 1 .. Len(<<x>>) + Len(<<y>>) :
             (<<x>> \o <<y>>)[i] = IF i <= Len(<<x>>) THEN <<x>>[i] ELSE <<y>>[i - Len(<<x>>)]
    BY <1>1, ConcatProperties
  <2> QED
    BY <1>1, <2>1
<1> DEFINE s == <<a>> \o <<b>>
           t == <<c>> \o <<d>>
<1>4. s \in Seq(Byte) /\ Len(s) = 2 /\ s[1] = a /\ s[2] = b
  BY <1>3
<1>5. t \in Seq(Byte) /\ Len(t) = 2 /\ t[1] = c /\ t[2] = d
  BY <1>3
<1> HIDE DEF s, t
<1>6. /\ s \o t \in Seq(Byte) /\ Len(s \o t) = Len(s) + Len(t)
      /\ \A i \in 1 .. Len(s) + Len(t) : (s \o t)[i] = IF i <= Len(s) THEN s[i] ELSE t[i - Len(s)]
  BY <1>4, <1>5, ConcatProperties
<1>7. /\ s \o t \in Seq(Byte) /\ Len(s \o t) = 4
      /\ (s \o t)[1] = a /\ (s \o t)[2] = b /\ (s \o t)[3] = c /\ (s \o t)[4] = d
  BY <1>4, <1>5, <1>6
<1>8. s \o t = <<a, b, c, d>>
  <2>1. \A i \in 1 .. 4 : (s \o t)[i] = <<a, b, c, d>>[i]
    BY <1>2, <1>7
  <2> QED
    BY <1>2, <1>7, <2>1, SeqEqual
<1> QED
  BY <1>2, <1>8 DEF s, t

\* What put_long writes, get_next_long reads.
LEMMA LongOfPut ==
  ASSUME NEW n \in Nat, n <= LongMax
  PROVE  /\ put_long(n) \in Seq(Byte) /\ Len(put_long(n)) = 4
         /\ get_next_long(put_long(n), 1) = n
<1> DEFINE l == n % 65536
           h == n \div 65536
           l1 == l % 256
           l2 == l \div 256
           h1 == h % 256
           h2 == h \div 256
<1>1. l \in Nat /\ h \in Nat /\ l < 65536 /\ n = h * 65536 + l
  BY DivModOf, SMT
<1>2. h < 32768
  <2> HIDE DEF l, h
  <2> QED
    BY <1>1, SMT DEF LongMax
<1>3. put_long(n) = (<<l1>> \o <<l2 % 256>>) \o (<<h1>> \o <<h2 % 256>>)
  BY SMT DEF put_long, put_short, put_unsigned_char, put_signed_char
<1> HIDE DEF l, h
<1>4. l1 \in Nat /\ l2 \in Nat /\ l1 < 256 /\ l = l2 * 256 + l1
  BY <1>1, DivModOf, SMT
<1>5. h1 \in Nat /\ h2 \in Nat /\ h1 < 256 /\ h = h2 * 256 + h1
  BY <1>1, DivModOf, SMT
<1> HIDE DEF l1, l2, h1, h2
<1>6. l2 < 256 /\ h2 < 128
  BY <1>1, <1>2, <1>4, <1>5, SMT
<1>7. l2 % 256 = l2 /\ h2 % 256 = h2
  BY <1>4, <1>5, <1>6, SMT
<1>8. l1 \in Byte /\ l2 \in Byte /\ h1 \in Byte /\ h2 \in Byte
  BY <1>4, <1>5, <1>6, BytesAre, SMT
<1>9. /\ put_long(n) = <<l1, l2, h1, h2>> /\ put_long(n) \in Seq(Byte) /\ Len(put_long(n)) = 4
  <2>1. put_long(n) = (<<l1>> \o <<l2>>) \o (<<h1>> \o <<h2>>)
    BY <1>3, <1>7, Zenon
  <2>2. /\ (<<l1>> \o <<l2>>) \o (<<h1>> \o <<h2>>) = <<l1, l2, h1, h2>>
        /\ <<l1, l2, h1, h2>> \in Seq(Byte) /\ Len(<<l1, l2, h1, h2>>) = 4
    BY <1>8, PairsAre
  <2> QED
    BY <2>1, <2>2, Zenon
<1>10. get_next_long(put_long(n), 1) = l1 + l2 * 256 + h1 * 65536 + signed(h2, 8) * 16777216
  BY <1>4, <1>5, <1>9, LongOfBytes, SMT
<1>11. signed(h2, 8) = h2
  BY <1>5, <1>6, SignedIs
<1>12. l1 + l2 * 256 + h1 * 65536 + h2 * 16777216 = n
  BY <1>1, <1>4, <1>5, SMT
<1> QED
  BY <1>9, <1>10, <1>11, <1>12, SMT

LEMMA LongOfEnd == get_next_long(<<255, 255, 255, 255>>, 1) = -1
<1>1. signed(255, 8) = -1
  BY SignedIs
<1> QED
  BY <1>1, LongOfBytes, SMT

-----------------------------------------------------------------------------
(* What is written back. *)

LEMMA WithBlockIs ==
  ASSUME NEW b \in Seq(Byte), NEW buf \in Seq(Byte), NEW n \in Nat, n <= Len(b), Len(buf) <= n
  PROVE  /\ WithBlock(b, buf, n) \in Seq(Byte) /\ Len(WithBlock(b, buf, n)) = Len(b)
         /\ \A k \in 1 .. Len(b) :
              WithBlock(b, buf, n)[k] = IF n - Len(buf) < k /\ k <= n
                                        THEN buf[k - (n - Len(buf))] ELSE b[k]
<1> DEFINE m == n - Len(buf)
           s == SubSeq(b, 1, m)
           t == SubSeq(b, n + 1, Len(b))
<1>1. m \in Nat /\ m <= Len(b) /\ Len(b) \in Nat /\ Len(buf) \in Nat /\ m + Len(buf) = n
  OBVIOUS
<1> HIDE DEF m
<1>2. /\ s \in Seq(Byte) /\ Len(s) = m /\ \A k \in 1 .. m : s[k] = b[k]
  <2>1. \A k \in 1 .. m : b[k] \in Byte
    BY <1>1
  <2>2. /\ SubSeq(b, 1, m) \in Seq(Byte) /\ Len(SubSeq(b, 1, m)) = IF 1 <= m THEN m - 1 + 1 ELSE 0
        /\ \A k \in 1 .. m - 1 + 1 : SubSeq(b, 1, m)[k] = b[1 + k - 1]
    BY <1>1, <2>1, SubSeqProperties
  <2> QED
    BY <1>1, <2>2
<1>3. /\ t \in Seq(Byte) /\ Len(t) = Len(b) - n /\ \A k \in 1 .. Len(b) - n : t[k] = b[k + n]
  <2>1. \A k \in n + 1 .. Len(b) : b[k] \in Byte
    BY <1>1
  <2>2. /\ SubSeq(b, n + 1, Len(b)) \in Seq(Byte)
        /\ Len(SubSeq(b, n + 1, Len(b))) = IF n + 1 <= Len(b) THEN Len(b) - (n + 1) + 1 ELSE 0
        /\ \A k \in 1 .. Len(b) - (n + 1) + 1 : SubSeq(b, n + 1, Len(b))[k] = b[(n + 1) + k - 1]
    BY <1>1, <2>1, SubSeqProperties
  <2> QED
    BY <1>1, <2>2
<1> HIDE DEF s, t
<1>4. /\ s \o buf \in Seq(Byte) /\ Len(s \o buf) = n
      /\ \A k \in 1 .. n : (s \o buf)[k] = IF k <= m THEN b[k] ELSE buf[k - m]
  <2>1. /\ s \o buf \in Seq(Byte) /\ Len(s \o buf) = Len(s) + Len(buf)
        /\ \A k \in 1 .. Len(s) + Len(buf) :
             (s \o buf)[k] = IF k <= Len(s) THEN s[k] ELSE buf[k - Len(s)]
    BY <1>2, ConcatProperties
  <2> QED
    BY <1>1, <1>2, <2>1
<1> DEFINE u == s \o buf
<1> HIDE DEF u
<1>5. /\ u \o t \in Seq(Byte) /\ Len(u \o t) = Len(b)
      /\ \A k \in 1 .. Len(b) : (u \o t)[k] = IF k <= n THEN u[k] ELSE t[k - n]
  <2>1. u \in Seq(Byte) /\ Len(u) = n
    BY <1>4 DEF u
  <2>2. /\ u \o t \in Seq(Byte) /\ Len(u \o t) = Len(u) + Len(t)
        /\ \A k \in 1 .. Len(u) + Len(t) : (u \o t)[k] = IF k <= Len(u) THEN u[k] ELSE t[k - Len(u)]
    BY <1>3, <2>1, ConcatProperties
  <2>3. n + (Len(b) - n) = Len(b)
    BY <1>1
  <2> QED
    BY <1>3, <2>1, <2>2, <2>3
<1>6. WithBlock(b, buf, n) = u \o t
  BY DEF WithBlock, s, t, u, m
<1>7. \A k \in 1 .. Len(b) : (u \o t)[k] = IF m < k /\ k <= n THEN buf[k - m] ELSE b[k]
  <2>1. \A k \in 1 .. n : u[k] = IF k <= m THEN b[k] ELSE buf[k - m]
    BY <1>4 DEF u
  <2>2. \A k \in 1 .. Len(b) : k > n => t[k - n] = b[k]
    BY <1>1, <1>3
  <2> QED
    BY <1>1, <1>5, <2>1, <2>2
<1> QED
  BY <1>5, <1>6, <1>7, Zenon DEF m

-----------------------------------------------------------------------------
(* The places of a file, before and after a block is written back.         *)

LEMMA PlacesIn ==
  ASSUME NEW kind, NEW o, Len(o.track) \in Nat, NEW b \in Seq(Byte), NEW S,
         Divides(kind, o, b, S), NEW x \in S
  PROVE  /\ x \in Nat /\ x > 0 /\ x <= Len(b) + 1
         /\ x # Len(b) + 1 =>
              /\ x <= Len(b) /\ get_next_long(b, x) \in Int /\ get_next_long(b, x) >= -1
              /\ BlockEnd(kind, b, x) \in S /\ BlockEnd(kind, b, x) \in Nat
              /\ x + 4 <= BlockEnd(kind, b, x) /\ BlockEnd(kind, b, x) <= Len(b) + 1
<1>1. \A y \in S : y \in Nat /\ y > 0 /\ y <= Len(b) + 1
  BY DEF Divides, FirstPlace
<1>2. ASSUME x # Len(b) + 1
      PROVE  /\ IsBlockAt(kind, b, x) /\ BlockEnd(kind, b, x) \in S
  BY <1>2 DEF Divides
<1>3. ASSUME x # Len(b) + 1
      PROVE  get_next_long(b, x) \in Int /\ get_next_long(b, x) >= -1
  BY <1>2, <1>3, SMT DEF IsBlockAt
<1>4. HeadOf(kind) \in Nat /\ HeadOf(kind) >= 4
  BY DEF HeadOf
<1>5. ASSUME x # Len(b) + 1 PROVE x + 4 <= BlockEnd(kind, b, x)
  <2> DEFINE g == get_next_long(b, x)
  <2>1. g \in Int /\ g >= -1 /\ x \in Nat
    BY <1>1, <1>3, <1>5
  <2>2. BlockEnd(kind, b, x) = IF g = -1 THEN x + 4 ELSE x + HeadOf(kind) + g
    BY DEF BlockEnd
  <2> HIDE DEF g
  <2> QED
    BY <1>4, <2>1, <2>2
<1> QED
  BY <1>1, <1>2, <1>3, <1>5

\* c is b with the block at h, in front of n, changed behind its size.
Changed(b, c, h, n) ==
  /\ c \in Seq(Byte) /\ Len(c) = Len(b)
  /\ \A k \in 1 .. Len(b) : k < h + 4 \/ n <= k => c[k] = b[k]

LEMMA ChangedSizes ==
  ASSUME NEW kind, NEW o, Len(o.track) \in Nat, NEW b \in Seq(Byte), NEW S,
         Divides(kind, o, b, S), NEW n \in S, NEW h \in S, h < n, BlockEnd(kind, b, h) = n,
         NEW c, Changed(b, c, h, n), NEW x \in S, x # Len(b) + 1
  PROVE  /\ get_next_long(c, x) = get_next_long(b, x)
         /\ BlockEnd(kind, c, x) = BlockEnd(kind, b, x)
<1>1. /\ x \in Nat /\ x > 0 /\ x + 4 <= BlockEnd(kind, b, x) /\ BlockEnd(kind, b, x) <= Len(b) + 1
      /\ BlockEnd(kind, b, x) \in Nat
  BY PlacesIn
<1>2. h \in Nat /\ h > 0 /\ n \in Nat /\ h # Len(b) + 1
  <2>1. h \in Nat /\ h > 0
    BY PlacesIn
  <2>2. n \in Nat /\ n <= Len(b) + 1
    BY PlacesIn
  <2> QED
    BY <2>1, <2>2
<1>3. x < h => BlockEnd(kind, b, x) <= h
  BY DEF Divides
<1>4. h < x => n <= x
  BY <1>2 DEF Divides
<1>5. \A k \in 0 .. 3 : x + k \in 1 .. Len(b) /\ (x + k < h + 4 \/ n <= x + k)
  BY <1>1, <1>2, <1>3, <1>4
<1>6. \A k \in 0 .. 3 : c[x + k] = b[x + k]
  BY <1>5 DEF Changed
<1>7. get_next_long(c, x) = get_next_long(b, x)
  BY <1>1, <1>6, SameLong
<1> QED
  BY <1>7, Zenon DEF BlockEnd

LEMMA ChangedDivides ==
  ASSUME NEW kind, NEW o, Len(o.track) \in Nat, NEW b \in Seq(Byte), NEW S,
         Divides(kind, o, b, S), NEW n \in S, NEW h \in S, h < n, BlockEnd(kind, b, h) = n,
         NEW c, Changed(b, c, h, n)
  PROVE  /\ Divides(kind, o, c, S)
         /\ \A place \in S : \A between :
              NoneEmpty(kind, b, S, place, between) => NoneEmpty(kind, c, S, place, between)
         /\ TextsAhead(kind, b, S, n) => TextsAhead(kind, c, S, n)
<1>1. Len(c) = Len(b) /\ c \in Seq(Byte)
  BY Zenon DEF Changed
<1>2. \A x \in S : x # Len(b) + 1 => /\ get_next_long(c, x) = get_next_long(b, x)
                                     /\ BlockEnd(kind, c, x) = BlockEnd(kind, b, x)
  <2> SUFFICES ASSUME NEW x \in S, x # Len(b) + 1
               PROVE  /\ get_next_long(c, x) = get_next_long(b, x)
                      /\ BlockEnd(kind, c, x) = BlockEnd(kind, b, x)
    BY Zenon
  <2> QED
    BY ChangedSizes
<1>3. \A x \in S : /\ x \in Nat /\ x > 0 /\ x <= Len(b) + 1
                   /\ x # Len(b) + 1 => x <= Len(b) /\ BlockEnd(kind, b, x) \in Nat
                                        /\ BlockEnd(kind, b, x) <= Len(b) + 1
  BY PlacesIn
<1>4. Divides(kind, o, c, S)
  <2>1. ASSUME NEW x \in S \ {Len(b) + 1}
        PROVE  /\ IsBlockAt(kind, c, x) /\ BlockEnd(kind, c, x) \in S
               /\ \A y \in S : x < y => BlockEnd(kind, c, x) <= y
    <3>1. /\ IsBlockAt(kind, b, x) /\ BlockEnd(kind, b, x) \in S
          /\ \A y \in S : x < y => BlockEnd(kind, b, x) <= y
      BY Zenon DEF Divides
    <3>2. IsBlockAt(kind, c, x)
      BY <1>1, <1>2, <3>1, Zenon DEF IsBlockAt
    <3> QED
      BY <1>2, <3>1, <3>2, Zenon
  <2> QED
    BY <1>1, <2>1, Zenon DEF Divides
<1>5. ASSUME NEW place \in S, NEW between, NoneEmpty(kind, b, S, place, between)
      PROVE  NoneEmpty(kind, c, S, place, between)
  <2>1. \A y \in S : y < place => get_next_long(c, y) = get_next_long(b, y)
    <3>1. \A y \in S : y < place => y # Len(b) + 1
      BY <1>3
    <3> QED
      BY <1>2, <3>1, Zenon
  <2>2. place - 4 \in S => get_next_long(c, place - 4) = get_next_long(b, place - 4)
    <3>1. place - 4 < place
      BY <1>3
    <3> QED
      BY <2>1, <3>1
  <2> QED
    BY <1>5, <2>1, <2>2, Zenon DEF NoneEmpty
<1>6. ASSUME TextsAhead(kind, b, S, n) PROVE TextsAhead(kind, c, S, n)
  <2>1. ASSUME NEW x \in S, n <= x, x <= Len(b)
        PROVE  BlockAt(kind, c, x) = BlockAt(kind, b, x)
    <3>1. x # Len(b) + 1 /\ x \in Nat /\ n \in Nat /\ x > 0
      BY <1>3, <2>1
    <3> DEFINE e == BlockEnd(kind, b, x) - 1
    <3>2. e \in Int /\ e <= Len(b) /\ BlockEnd(kind, c, x) - 1 = e
      BY <1>2, <1>3, <3>1
    <3> HIDE DEF e
    <3>3. \A k \in x .. e : k \in 1 .. Len(b) /\ c[k] = b[k] /\ b[k] \in Byte
      <4>1. \A k \in x .. e : k \in 1 .. Len(b) /\ n <= k
        BY <2>1, <3>1, <3>2
      <4> QED
        BY <4>1 DEF Changed
    <3>4. SubSeq(c, x, e) = SubSeq(b, x, e)
      BY <3>1, <3>2, <3>3
    <3> QED
      BY <3>2, <3>4 DEF e, BlockAt
  <2> QED
    BY <1>1, <1>6, <2>1, Zenon DEF TextsAhead
<1> QED
  BY <1>4, <1>5, <1>6

\* c is b but for what is in front of n.
SameFrom(b, c, n) ==
  c \in Seq(Byte) /\ Len(c) = Len(b) /\ \A k \in 1 .. Len(b) : n <= k => c[k] = b[k]

LEMMA SameAhead ==
  ASSUME NEW kind, NEW o, Len(o.track) \in Nat, NEW b \in Seq(Byte), NEW S,
         Divides(kind, o, b, S), NEW n \in S, NEW c, SameFrom(b, c, n),
         NEW x \in S, n <= x, x <= Len(b)
  PROVE  /\ get_next_long(c, x) = get_next_long(b, x)
         /\ BlockEnd(kind, c, x) = BlockEnd(kind, b, x)
         /\ BlockAt(kind, c, x) = BlockAt(kind, b, x)
<1>1. /\ x \in Nat /\ x > 0 /\ x + 4 <= BlockEnd(kind, b, x)
      /\ BlockEnd(kind, b, x) <= Len(b) + 1 /\ BlockEnd(kind, b, x) \in Nat
  <2>1. x \in Nat
    BY PlacesIn
  <2>2. x # Len(b) + 1
    BY <2>1
  <2> QED
    BY <2>2, PlacesIn
<1>2. n \in Nat
  BY PlacesIn
<1>3. \A k \in x .. BlockEnd(kind, b, x) - 1 : k \in 1 .. Len(b) /\ c[k] = b[k]
  <2>1. \A k \in x .. BlockEnd(kind, b, x) - 1 : k \in 1 .. Len(b) /\ n <= k
    BY <1>1, <1>2
  <2> QED
    BY <2>1 DEF SameFrom
<1>4. \A k \in 0 .. 3 : c[x + k] = b[x + k]
  <2>1. \A k \in 0 .. 3 : x + k \in x .. BlockEnd(kind, b, x) - 1
    BY <1>1
  <2> QED
    BY <1>3, <2>1
<1>5. get_next_long(c, x) = get_next_long(b, x)
  BY <1>1, <1>4, SameLong
<1>6. BlockEnd(kind, c, x) = BlockEnd(kind, b, x)
  BY <1>5, Zenon DEF BlockEnd
<1> DEFINE e == BlockEnd(kind, b, x) - 1
<1>7. e \in Int /\ BlockEnd(kind, c, x) - 1 = e
  BY <1>1, <1>6
<1> HIDE DEF e
<1>8. SubSeq(c, x, e) = SubSeq(b, x, e)
  <2>1. \A k \in x .. e : c[k] = b[k] /\ b[k] \in Byte
    BY <1>3 DEF e
  <2> QED
    BY <1>1, <1>7, <2>1
<1> QED
  BY <1>5, <1>6, <1>7, <1>8 DEF e, BlockAt

LEMMA SmallerIsNoMore ==
  ASSUME NEW kind, NEW o, Len(o.track) \in Nat, NEW b \in Seq(Byte), NEW S,
         Divides(kind, o, b, S), NEW h, Len(o.blocks) \in Nat
  PROVE  Cardinality(S \ {h}) <= Len(o.blocks) + 2
<1>1. IsFiniteSet(FirstPlace(o) .. Len(b) + 1)
  <2>1. FirstPlace(o) \in Int /\ Len(b) + 1 \in Int
    BY DEF FirstPlace
  <2> QED
    BY <2>1, FS_Interval
<1>2. IsFiniteSet(S)
  BY <1>1, FS_Subset, Zenon DEF Divides
<1>3. S \ {h} \in SUBSET S
  OBVIOUS
<1>4. Cardinality(S \ {h}) <= Cardinality(S) /\ IsFiniteSet(S \ {h})
  BY <1>2, <1>3, FS_Subset
<1>5. Cardinality(S) \in Nat /\ Cardinality(S \ {h}) \in Nat
  BY <1>2, <1>4, FS_CardinalityType
<1>6. Cardinality(S) <= Len(o.blocks) + 2
  BY DEF Divides
<1> QED
  BY <1>4, <1>5, <1>6

\* The block at h, in front of n, and the empty one before it have become one block.
Joined(b, c, h, n) ==
  /\ c \in Seq(Byte) /\ Len(c) = Len(b)
  /\ \A k \in 1 .. Len(b) : k < h - 4 \/ n <= k => c[k] = b[k]
  /\ get_next_long(c, h - 4) = get_next_long(b, h) + 4

LEMMA JoinedIsSound ==
  ASSUME NEW o, Len(o.track) \in Nat, Len(o.blocks) \in Nat, NEW b \in Seq(Byte), NEW S,
         Divides("dm2", o, b, S), NEW n \in S, NEW h \in S, h < n, BlockEnd("dm2", b, h) = n,
         get_next_long(b, h) # -1, NoneEmpty("dm2", b, S, h, TRUE), TextsAhead("dm2", b, S, n),
         NEW c, Joined(b, c, h, n)
  PROVE  SoundWith("dm2", o, c, n, FALSE, S \ {h})
<1> DEFINE g == get_next_long(b, h)
           a == h - 4
<1>1. h \in Nat /\ n \in Nat /\ n <= Len(b) + 1 /\ h # Len(b) + 1 /\ h <= Len(b)
  <2>1. h \in Nat /\ (h # Len(b) + 1 => h <= Len(b))
    BY PlacesIn
  <2>2. n \in Nat /\ n <= Len(b) + 1
    BY PlacesIn
  <2> QED
    BY <2>1, <2>2
<1>2. g \in Nat /\ h + 4 + g = n
  <2>1. g \in Int /\ g >= -1
    BY <1>1, PlacesIn
  <2> QED
    BY <2>1 DEF BlockEnd, HeadOf
<1>3. a \in S /\ get_next_long(b, a) = 0 /\ \A y \in S : y < h /\ get_next_long(b, y) = 0 => y + 4 = h
  BY Zenon DEF NoneEmpty, a
<1> HIDE DEF a
<1>9. a + 4 = h
  BY <1>1 DEF a
<1>4. a \in Nat /\ a > 0 /\ a < h /\ a # Len(b) + 1
  <2>1. a \in Nat /\ a > 0
    BY <1>3, PlacesIn
  <2> QED
    BY <1>1, <1>9, <2>1
<1>5. BlockEnd("dm2", b, a) = h
  BY <1>3, <1>4, <1>1, <1>9 DEF BlockEnd, HeadOf
<1>6. get_next_long(c, a) = g + 4 /\ Len(c) = Len(b) /\ c \in Seq(Byte)
      /\ \A k \in 1 .. Len(b) : k < a \/ n <= k => c[k] = b[k]
  BY DEF Joined, a, g
<1> HIDE DEF g
<1>7. BlockEnd("dm2", c, a) = n
  <2>1. g + 4 # -1
    BY <1>2
  <2>2. BlockEnd("dm2", c, a) = a + 4 + (g + 4)
    BY <1>6, <2>1 DEF BlockEnd, HeadOf
  <2> QED
    BY <1>1, <1>2, <1>9, <2>2
<1>8. \A y \in S : y \in Nat /\ y > 0 /\ y <= Len(b) + 1
  BY PlacesIn
<1>10. \A y \in S : y # h => y < a \/ y = a \/ n <= y
  <2>1. \A y \in S : a < y => h <= y
    BY <1>3, <1>4, <1>5 DEF Divides
  <2>2. \A y \in S : h < y => n <= y
    BY <1>1 DEF Divides
  <2> QED
    BY <1>1, <1>4, <1>8, <2>1, <2>2
<1>11. ASSUME NEW x \in S, x < a
       PROVE  /\ get_next_long(c, x) = get_next_long(b, x) /\ BlockEnd("dm2", b, x) <= a
              /\ BlockEnd("dm2", c, x) = BlockEnd("dm2", b, x)
  <2>1. x # Len(b) + 1 /\ x \in Nat /\ x > 0
    BY <1>4, <1>8, <1>11, <1>1
  <2>2. BlockEnd("dm2", b, x) <= a
    BY <1>3, <1>11, <2>1 DEF Divides
  <2>3. x + 4 <= BlockEnd("dm2", b, x) /\ BlockEnd("dm2", b, x) \in Nat
    BY <2>1, PlacesIn
  <2>4. \A k \in 0 .. 3 : x + k \in 1 .. Len(b) /\ x + k < a
    BY <1>1, <1>4, <2>1, <2>2, <2>3
  <2>5. \A k \in 0 .. 3 : c[x + k] = b[x + k]
    BY <1>6, <2>4
  <2>6. get_next_long(c, x) = get_next_long(b, x)
    BY <2>1, <2>5, SameLong
  <2> QED
    BY <2>2, <2>6, Zenon DEF BlockEnd
<1>12. ASSUME NEW x \in S, n <= x, x <= Len(b)
       PROVE  /\ get_next_long(c, x) = get_next_long(b, x)
              /\ BlockEnd("dm2", c, x) = BlockEnd("dm2", b, x)
              /\ BlockAt("dm2", c, x) = BlockAt("dm2", b, x)
  <2>1. SameFrom(b, c, n)
    BY <1>6 DEF SameFrom
  <2> QED
    BY <1>12, <2>1, SameAhead
<1>13. Divides("dm2", o, c, S \ {h})
  <2>1. S \ {h} \in SUBSET (FirstPlace(o) .. Len(c) + 1)
    BY <1>6 DEF Divides
  <2>2. {FirstPlace(o), Len(c) + 1} \subseteq S \ {h}
    <3>1. {FirstPlace(o), Len(b) + 1} \subseteq S /\ FirstPlace(o) <= a /\ FirstPlace(o) \in Nat
      BY <1>3 DEF Divides, FirstPlace
    <3> QED
      BY <1>1, <1>4, <1>6, <3>1
  <2>3. Cardinality(S \ {h}) <= Len(o.blocks) + 2
    BY SmallerIsNoMore
  <2>4. ASSUME NEW x \in S, x # h, x # Len(b) + 1
        PROVE  /\ IsBlockAt("dm2", c, x) /\ BlockEnd("dm2", c, x) \in S /\ BlockEnd("dm2", c, x) # h
               /\ \A y \in S \ {h} : x < y => BlockEnd("dm2", c, x) <= y
    <3>1. /\ IsBlockAt("dm2", b, x) /\ BlockEnd("dm2", b, x) \in S
          /\ \A y \in S : x < y => BlockEnd("dm2", b, x) <= y
      BY <2>4, Zenon DEF Divides
    <3>2. CASE x = a
      <4>1. IsBlockAt("dm2", c, x)
        <5>1. g + 4 \in Nat
          BY <1>2
        <5> QED
          BY <1>6, <3>2, <5>1, Zenon DEF IsBlockAt
      <4>2. \A y \in S \ {h} : a < y => n <= y
        BY <1>4, <1>8, <1>10
      <4> QED
        BY <1>1, <1>7, <3>2, <4>1, <4>2
    <3>3. CASE x < a
      <4>1. BlockEnd("dm2", b, x) # h
        BY <1>1, <1>4, <1>11, <3>1, <3>3, <1>8
      <4> QED
        BY <1>6, <1>11, <3>1, <3>3, <4>1, Zenon DEF IsBlockAt
    <3>4. CASE n <= x
      <4>1. x <= Len(b)
        BY <1>8, <2>4
      <4>2. BlockEnd("dm2", b, x) # h
        <5>1. x + 4 <= BlockEnd("dm2", b, x) /\ BlockEnd("dm2", b, x) \in Nat
          BY <2>4, PlacesIn
        <5> QED
          BY <1>1, <1>8, <3>4, <5>1
      <4> QED
        BY <1>6, <1>12, <3>1, <3>4, <4>1, <4>2, Zenon DEF IsBlockAt
    <3> QED
      BY <1>10, <2>4, <3>2, <3>3, <3>4
  <2>5. \A x \in (S \ {h}) \ {Len(c) + 1} :
          /\ IsBlockAt("dm2", c, x) /\ BlockEnd("dm2", c, x) \in S \ {h}
          /\ \A y \in S \ {h} : x < y => BlockEnd("dm2", c, x) <= y
    BY <1>6, <2>4
  <2> QED
    BY <2>1, <2>2, <2>3, <2>5, Zenon DEF Divides
<1>14. NoneEmpty("dm2", c, S \ {h}, n, FALSE)
  <2>1. ASSUME NEW y \in S \ {h}, y < n, get_next_long(c, y) = 0 PROVE FALSE
    <3>1. y < a \/ y = a
      BY <1>1, <1>8, <1>10, <2>1
    <3>2. CASE y = a
      BY <1>2, <1>6, <2>1, <3>2
    <3>3. CASE y < a
      <4>1. y + 4 = h
        <5>1. y < h
          BY <1>1, <1>4, <1>8, <3>3
        <5> QED
          BY <1>3, <1>11, <2>1, <3>3, <5>1
      <4> QED
        BY <1>9, <1>4, <1>8, <3>3, <4>1
    <3> QED
      BY <3>1, <3>2, <3>3
  <2> QED
    BY <2>1, Zenon DEF NoneEmpty
<1>15. TextsAhead("dm2", c, S \ {h}, n)
  <2>1. \A x \in S \ {h} : n <= x /\ x <= Len(c)
          => TextsEnd(BlockAt("dm2", c, x))
    BY <1>6, <1>12, Zenon DEF TextsAhead
  <2> QED
    BY <2>1, Zenon DEF TextsAhead
<1>16. n \in S \ {h}
  BY <1>1
<1> QED
  BY <1>13, <1>14, <1>15, <1>16, Zenon DEF SoundWith

-----------------------------------------------------------------------------
(* What a step of the action finds, and what all of them leave alone. *)

LEMMA RecordingIs ==
  ASSUME InplaceInv, iphase # "off"
  PROVE  /\ ikind \in {"dem", "dm2"}
         /\ Len(original.track) \in Nat /\ Len(original.blocks) \in Nat
         /\ bytes \in Seq(Byte) /\ Len(bytes) \in Nat /\ Len(bytes) <= LongMax
         /\ Len(bytes) = Len(OriginalBytes) /\ at \in Nat /\ at <= Len(bytes)
<1>1. PICK r \in Repairable : ikind = r.ikind /\ original = r.original
  BY Zenon DEF InplaceInv, RecordingInv
<1>2. /\ ikind \in {"dem", "dm2"} /\ Len(OriginalBytes) <= LongMax
      /\ original \in [track : Seq(Byte), blocks : Seq(Seq(Seq(Byte))),
                       end : {<<>>} \cup (IF ikind = "dm2" THEN {<<255, 255, 255, 255>>} ELSE {})]
  <2>1. IsRepairable(r.ikind, r.original)
    BY RepairableAssumption, Zenon
  <2>2. IsRepairable(ikind, original)
    BY <1>1, <2>1, Zenon
  <2> QED
    BY <2>2, Zenon DEF IsRepairable, OriginalBytes
<1>3. original.track \in Seq(Byte) /\ original.blocks \in Seq(Seq(Seq(Byte)))
  BY <1>2
<1>4. Len(original.track) \in Nat /\ Len(original.blocks) \in Nat
  BY <1>3, LenProperties
<1>5. bytes \in Seq(Byte) /\ at \in 0 .. Len(bytes) /\ Len(bytes) = Len(OriginalBytes)
  BY Zenon DEF InplaceInv, FileTypeInv
<1>6. Len(bytes) \in Nat
  BY <1>5, LenProperties
<1>7. at \in Nat /\ at <= Len(bytes)
  BY <1>5, <1>6
<1> QED
  BY <1>2, <1>4, <1>5, <1>6, <1>7, Zenon

\* The recording stays what it was, and the file as long.
LEMMA RecordingStays ==
  ASSUME InplaceInv, iphase # "off", iphase' # "off", UNCHANGED <<ikind, original>>
  PROVE  /\ RecordingInv'
         /\ Len(bytes') = Len(bytes) => Len(bytes') = Len(OriginalBytes')
<1>1. RecordingInv'
  BY Zenon DEF InplaceInv, RecordingInv
<1>2. Len(bytes) = Len(OriginalBytes)
  BY RecordingIs
<1>3. OriginalBytes' = OriginalBytes
  BY Zenon DEF OriginalBytes
<1> QED
  BY <1>1, <1>2, <1>3, Zenon

\* The block in hand, written back, changes the file behind its size only.
LEMMA BlockInHand ==
  ASSUME NEW kind, NEW o, Len(o.track) \in Nat, NEW b \in Seq(Byte), NEW buf \in Seq(Byte),
         NEW m \in Nat, m <= Len(b), NEW between, NEW S, InHandWith(kind, o, b, buf, m + 1, between, S)
  PROVE  /\ Changed(b, WithBlock(b, buf, m), (m + 1) - Len(buf), m + 1)
         /\ Len(buf) <= m /\ Len(buf) >= 4 /\ (m + 1) - Len(buf) \in Nat /\ Len(buf) \in Nat
         /\ get_next_long(buf, 1) = get_next_long(b, (m + 1) - Len(buf))
<1> DEFINE h == (m + 1) - Len(buf)
<1>1. h \in S /\ m + 1 \in S /\ h < m + 1 /\ BlockEnd(kind, b, h) = m + 1 /\ SameSize(b, h, buf)
      /\ Divides(kind, o, b, S)
  BY Zenon DEF InHandWith
<1>2. Len(buf) \in Nat /\ Len(b) \in Nat /\ h + Len(buf) = m + 1
  BY LenProperties
<1> HIDE DEF h
<1>3. h \in Nat /\ h > 0 /\ h + 4 <= m + 1
  <2>1. h \in Nat /\ h > 0
    BY <1>1, PlacesIn
  <2>2. h # Len(b) + 1
    BY <1>1, <1>2, <2>1
  <2>3. h + 4 <= BlockEnd(kind, b, h)
    BY <1>1, <2>2, PlacesIn
  <2> QED
    BY <1>1, <2>1, <2>3
<1>4. Len(buf) <= m /\ Len(buf) >= 4
  BY <1>2, <1>3
<1> DEFINE c == WithBlock(b, buf, m)
<1>5. /\ c \in Seq(Byte) /\ Len(c) = Len(b)
      /\ \A k \in 1 .. Len(b) : c[k] = IF m - Len(buf) < k /\ k <= m THEN buf[k - (m - Len(buf))] ELSE b[k]
  BY <1>4, WithBlockIs
<1> HIDE DEF c
<1>6. \A k \in 1 .. Len(b) : k < h + 4 \/ m + 1 <= k => c[k] = b[k]
  <2> SUFFICES ASSUME NEW k \in 1 .. Len(b), k < h + 4 \/ m + 1 <= k PROVE c[k] = b[k]
    BY Zenon
  <2>1. CASE k < h \/ m + 1 <= k
    <3>1. ~ (m - Len(buf) < k /\ k <= m)
      BY <1>2, <1>3, <2>1
    <3> QED
      BY <1>5, <3>1, Zenon
  <2>2. CASE h <= k /\ k < h + 4
    <3> DEFINE j == k - h + 1
    <3>1. j \in 1 .. 4 /\ h + (j - 1) = k /\ k - (m - Len(buf)) = j /\ m - Len(buf) < k /\ k <= m
      BY <1>2, <1>3, <2>2
    <3> HIDE DEF j
    <3>2. c[k] = buf[j]
      BY <1>5, <3>1, Zenon
    <3>3. buf[j] = b[h + (j - 1)]
      BY <1>1, <3>1, Zenon DEF SameSize
    <3> QED
      BY <3>1, <3>2, <3>3
  <2> QED
    BY <1>3, <2>1, <2>2
<1>7. get_next_long(buf, 1) = get_next_long(b, h)
  <2>1. \A k \in 0 .. 3 : buf[1 + k] = b[h + k]
    <3> SUFFICES ASSUME NEW k \in 0 .. 3 PROVE buf[1 + k] = b[h + k]
      OBVIOUS
    <3>1. 1 + k \in 1 .. 4 /\ h + ((1 + k) - 1) = h + k
      BY <1>3
    <3>2. buf[1 + k] = b[h + ((1 + k) - 1)]
      BY <1>1, <3>1, Zenon DEF SameSize
    <3> QED
      BY <3>1, <3>2
  <2> QED
    BY <1>3, <2>1, SameLong
<1> QED
  BY <1>2, <1>3, <1>4, <1>5, <1>6, <1>7, Zenon DEF Changed, c, h

LEMMA ReadBlockStep ==
  ASSUME InplaceInv, ReadBlock PROVE InplaceInv'
<1>1. /\ iphase = "block" /\ at < Len(bytes) /\ iphase' = "search" /\ bufferbase' = HeadBytes + 1
      /\ changed' = FALSE /\ UNCHANGED <<ikind, original, bytes, lastwasbetweenblock>>
  BY Zenon DEF ReadBlock
<1>2. PICK size \in {get_next_long(bytes, at + 1)} :
        \E end \in {at + (IF size = -1 THEN 4 ELSE HeadBytes + size)} :
          buffer' = SubSeq(bytes, at + 1, end) /\ at' = end
  BY Zenon DEF ReadBlock
<1>3. /\ ikind \in {"dem", "dm2"} /\ Len(original.track) \in Nat
      /\ bytes \in Seq(Byte) /\ Len(bytes) \in Nat /\ at \in Nat
  BY <1>1, RecordingIs
<1>4. PICK S : SoundWith(ikind, original, bytes, at + 1, lastwasbetweenblock, S)
  BY <1>1, Zenon DEF InplaceInv, BetweenInv, Sound
<1> DEFINE x == at + 1
           e == BlockEnd(ikind, bytes, x)
<1>5. /\ Divides(ikind, original, bytes, S) /\ x \in S
      /\ NoneEmpty(ikind, bytes, S, x, lastwasbetweenblock)
      /\ TextsAhead(ikind, bytes, S, x)
  BY <1>4, Zenon DEF SoundWith
<1>6. x \in Nat /\ x > 0 /\ x <= Len(bytes) /\ x # Len(bytes) + 1 /\ at = x - 1
  BY <1>1, <1>3
<1> HIDE DEF x
<1>7. e \in S /\ e \in Nat /\ x + 4 <= e /\ e <= Len(bytes) + 1
  BY <1>3, <1>5, <1>6, PlacesIn
<1>8. size = get_next_long(bytes, x) /\ size \in Int /\ HeadBytes = HeadOf(ikind)
      /\ HeadBytes \in Nat
  <2>1. size = get_next_long(bytes, x)
    BY <1>2 DEF x
  <2>2. get_next_long(bytes, x) \in Int
    BY <1>3, <1>5, <1>6, PlacesIn
  <2> QED
    BY <2>1, <2>2 DEF HeadBytes, HeadOf
<1>9. at' = e - 1 /\ buffer' = SubSeq(bytes, x, e - 1)
  <2>1. e - 1 = at + (IF size = -1 THEN 4 ELSE HeadBytes + size)
    BY <1>6, <1>8 DEF BlockEnd
  <2> QED
    BY <1>2, <2>1 DEF x
<1> HIDE DEF e
<1>10. /\ buffer' \in Seq(Byte) /\ Len(buffer') = e - x
       /\ \A k \in 1 .. e - x : buffer'[k] = bytes[x + k - 1]
  <2>1. \A k \in x .. e - 1 : bytes[k] \in Byte
    BY <1>3, <1>6, <1>7
  <2>2. e - 1 \in Int /\ e - 1 - x + 1 = e - x /\ x <= e - 1
    BY <1>6, <1>7
  <2> DEFINE m == e - 1
  <2>3. m \in Int /\ m - x + 1 = e - x /\ x <= m /\ \A k \in x .. m : bytes[k] \in Byte
    BY <2>1, <2>2
  <2>4. buffer' = SubSeq(bytes, x, m)
    BY <1>9
  <2> HIDE DEF m
  <2>5. /\ SubSeq(bytes, x, m) \in Seq(Byte)
        /\ Len(SubSeq(bytes, x, m)) = IF x <= m THEN m - x + 1 ELSE 0
        /\ \A k \in 1 .. m - x + 1 : SubSeq(bytes, x, m)[k] = bytes[x + k - 1]
    BY <1>6, <2>3, SubSeqProperties
  <2> QED
    BY <2>3, <2>4, <2>5
<1>11. at' + 1 = e /\ (at' + 1) - Len(buffer') = x /\ at' \in 0 .. Len(bytes)
  BY <1>6, <1>7, <1>9, <1>10
<1>12. InHandWith(ikind, original, bytes, buffer', at' + 1, lastwasbetweenblock, S)
  <2>1. SameSize(bytes, x, buffer')
    <3>1. \A k \in 1 .. 4 : k \in 1 .. e - x /\ x + k - 1 = x + (k - 1)
      BY <1>6, <1>7
    <3> QED
      BY <1>10, <3>1 DEF SameSize
  <2>2. TextsAhead(ikind, bytes, S, e)
    <3>1. \A y \in S : e <= y => x <= y
      <4>1. \A y \in S : y \in Nat
        BY <1>3, <1>5, PlacesIn
      <4> QED
        BY <1>6, <1>7, <4>1
    <3> QED
      BY <1>5, <3>1, Zenon DEF TextsAhead
  <2>3. x < e
    BY <1>6, <1>7
  <2> QED
    BY <1>5, <1>7, <1>11, <2>1, <2>2, <2>3, Zenon DEF InHandWith, e
<1>13. RecordingInv' /\ Len(bytes') = Len(OriginalBytes')
  BY <1>1, RecordingStays
<1>14. FileTypeInv'
  <2>1. changed' \in BOOLEAN /\ lastwasbetweenblock' \in BOOLEAN
    BY <1>1, Zenon DEF InplaceInv, FileTypeInv
  <2> QED
    BY <1>1, <1>3, <1>11, <1>13, <2>1, Zenon DEF FileTypeInv
<1>15. InHandInv'
  <2>1. lastwasbetweenblock \in BOOLEAN
    BY Zenon DEF InplaceInv, FileTypeInv
  <2>2. (iphase' = "merge" \/ lastwasbetweenblock') = lastwasbetweenblock
    BY <1>1, <2>1
  <2>3. InHand(ikind, original, bytes, buffer', at' + 1, lastwasbetweenblock)
    BY <1>12, Zenon DEF InHand
  <2>4. InHand(ikind, original, bytes, buffer', at' + 1, iphase' = "merge" \/ lastwasbetweenblock')
    BY <2>2, <2>3
  <2> QED
    BY <1>1, <1>10, <2>4, Zenon DEF InHandInv
<1>16. SearchInv'
  <2>1. bufferbase' \in HeadBytes' + 1 .. Len(buffer') + 2
    <3>1. HeadBytes' = HeadBytes
      BY <1>1, Zenon DEF HeadBytes
    <3>2. HeadBytes + 1 <= (e - x) + 2
      <4>1. CASE size = -1
        <5>1. IsBlockAt(ikind, bytes, x)
          BY <1>5, <1>6 DEF Divides
        <5>2. ikind = "dm2"
          BY <1>8, <4>1, <5>1 DEF IsBlockAt
        <5> QED
          BY <1>6, <1>7, <5>2 DEF HeadBytes
      <4>2. CASE size # -1
        <5>1. size >= -1
          BY <1>3, <1>5, <1>6, <1>8, PlacesIn
        <5>2. e = x + HeadBytes + size
          BY <1>8, <4>2, Zenon DEF e, BlockEnd
        <5>3. x \in Nat /\ size \in Int /\ HeadBytes \in Nat
          BY <1>6, <1>8, Zenon
        <5> QED
          BY <5>1, <5>2, <5>3
      <4> QED
        BY <4>1, <4>2, Zenon
    <3>3. HeadBytes + 1 \in Int /\ Len(buffer') + 2 \in Int
      BY <1>6, <1>7, <1>8, <1>10
    <3> QED
      BY <1>1, <1>6, <1>7, <1>8, <1>10, <3>1, <3>2, <3>3
  <2>2. ikind' = "dm2" => TextsEnd(buffer')
    <3>1. buffer' = BlockAt(ikind, bytes, x)
      BY <1>9 DEF e, BlockAt
    <3>2. ikind = "dm2" => TextsEnd(BlockAt(ikind, bytes, x))
      <4>1. x <= x
        BY <1>6
      <4> QED
        BY <1>5, <1>6, <4>1, Zenon DEF TextsAhead
    <3> QED
      BY <1>1, <3>1, <3>2, Zenon
  <2> QED
    BY <1>1, <2>1, <2>2, Zenon DEF SearchInv
<1>17. BetweenInv' /\ WriteInv'
  BY <1>1, Zenon DEF BetweenInv, WriteInv
<1> QED
  BY <1>13, <1>14, <1>15, <1>16, <1>17, Zenon DEF InplaceInv

\* The block in hand is done, and nothing is looked for at the start of it.
LEMMA WrittenIsSound ==
  ASSUME NEW kind, NEW o, Len(o.track) \in Nat, NEW b \in Seq(Byte), NEW buf \in Seq(Byte),
         NEW m \in Nat, m <= Len(b), NEW between, NEW S, InHandWith(kind, o, b, buf, m + 1, between, S),
         NEW after, NoneEmpty(kind, b, S, m + 1, after)
  PROVE  /\ Sound(kind, o, b, m + 1, after)
         /\ Sound(kind, o, WithBlock(b, buf, m), m + 1, after)
<1> DEFINE h == (m + 1) - Len(buf)
           n == m + 1
           c == WithBlock(b, buf, m)
<1>1. Divides(kind, o, b, S) /\ n \in S /\ h \in S /\ h < n /\ BlockEnd(kind, b, h) = n /\ TextsAhead(kind, b, S, n)
  BY Zenon DEF InHandWith
<1>2. Changed(b, c, h, n)
  BY BlockInHand, Zenon
<1>3. NoneEmpty(kind, b, S, n, after)
  OBVIOUS
<1> HIDE DEF h, n, c
<1>4. /\ Divides(kind, o, c, S) /\ TextsAhead(kind, c, S, n)
      /\ NoneEmpty(kind, c, S, n, after)
  BY <1>1, <1>2, <1>3, ChangedDivides
<1>5. Sound(kind, o, b, n, after) /\ Sound(kind, o, c, n, after)
  BY <1>1, <1>3, <1>4, Zenon DEF Sound, SoundWith
<1> QED
  BY <1>5 DEF n, c

\* A DEM file has no empty blocks to merge.
LEMMA SearchDemEnds ==
  ASSUME InplaceInv, iphase = "search", ikind = "dem", iphase' = "write",
         UNCHANGED <<ikind, original, bytes, at, search, lastwasbetweenblock>>
  PROVE  InplaceInv'
<1>1. /\ Len(original.track) \in Nat /\ bytes \in Seq(Byte) /\ at \in Nat /\ at <= Len(bytes)
  BY RecordingIs
<1>2. PICK S : InHandWith(ikind, original, bytes, buffer, at + 1, iphase = "merge" \/ lastwasbetweenblock, S)
  BY Zenon DEF InplaceInv, InHandInv, InHand
<1>3. buffer \in Seq(Byte) /\ lastwasbetweenblock \in BOOLEAN
  BY Zenon DEF InplaceInv, InHandInv, FileTypeInv
<1>4. NoneEmpty(ikind, bytes, S, at + 1, lastwasbetweenblock)
  <2>1. ~ lastwasbetweenblock
    BY <1>2, Zenon DEF InHandWith, NoneEmpty
  <2> QED
    BY <2>1, Zenon DEF NoneEmpty
<1>5. /\ Sound(ikind, original, bytes, at + 1, lastwasbetweenblock)
      /\ Sound(ikind, original, WithBlock(bytes, buffer, at), at + 1, lastwasbetweenblock)
  BY <1>1, <1>2, <1>3, <1>4, WrittenIsSound
<1>6. Len(buffer) <= at
  BY <1>1, <1>2, <1>3, BlockInHand
<1>7. RecordingInv' /\ Len(bytes') = Len(OriginalBytes')
  BY RecordingStays
<1>8. FileTypeInv'
  BY <1>7, Zenon DEF InplaceInv, FileTypeInv, search
<1>9. WriteInv'
  <2>1. Sound(ikind, original, Written, at + 1, lastwasbetweenblock)
    BY <1>5, Zenon DEF Written
  <2>2. Written' = Written
    BY Zenon DEF Written, search
  <2> QED
    BY <1>3, <1>6, <2>1, <2>2, Zenon DEF WriteInv, search
<1>10. BetweenInv' /\ InHandInv' /\ SearchInv'
  BY Zenon DEF BetweenInv, InHandInv, SearchInv
<1> QED
  BY <1>7, <1>8, <1>9, <1>10, Zenon DEF InplaceInv

LEMMA SearchEndsStep ==
  ASSUME InplaceInv, SearchEnds PROVE InplaceInv'
<1>1. /\ iphase = "search" /\ iphase' = (IF ikind = "dem" THEN "write" ELSE "fields")
      /\ UNCHANGED <<ikind, original, bytes, at, search, lastwasbetweenblock>>
  BY Zenon DEF SearchEnds
<1>2. CASE ikind = "dem"
  BY <1>1, <1>2, SearchDemEnds, Zenon
<1>3. CASE ikind # "dem"
  <2>1. iphase' = "fields" /\ ikind = "dm2"
    BY <1>1, <1>3, RecordingIs
  <2>2. RecordingInv' /\ Len(bytes') = Len(OriginalBytes')
    BY <1>1, <2>1, RecordingStays
  <2>3. FileTypeInv'
    BY <1>1, <2>1, <2>2, Zenon DEF InplaceInv, FileTypeInv, search
  <2>4. InHandInv'
    BY <1>1, <2>1, Zenon DEF InplaceInv, InHandInv, search
  <2>5. BetweenInv' /\ WriteInv' /\ SearchInv'
    BY <2>1, Zenon DEF BetweenInv, WriteInv, SearchInv
  <2> QED
    BY <2>2, <2>3, <2>4, <2>5, Zenon DEF InplaceInv
<1> QED
  BY <1>2, <1>3

\* What the bytes of a block's messages become does not touch its size.
LEMMA StillInHand ==
  ASSUME NEW kind, NEW o, NEW b, NEW buf, NEW c, NEW n, NEW between,
         InHand(kind, o, b, buf, n, between), Len(c) = Len(buf), \A k \in 1 .. 4 : c[k] = buf[k]
  PROVE  InHand(kind, o, b, c, n, between)
<1>1. PICK S : InHandWith(kind, o, b, buf, n, between, S)
  BY Zenon DEF InHand
<1>2. SameSize(b, n - Len(buf), c)
  BY <1>1, Zenon DEF InHandWith, SameSize
<1>3. InHandWith(kind, o, b, c, n, between, S)
  BY <1>1, <1>2, Zenon DEF InHandWith
<1> QED
  BY <1>3, Zenon DEF InHand

-----------------------------------------------------------------------------
(* What is looked for. *)

LEMMA FoundAre ==
  ASSUME NEW b \in Seq(Byte), NEW base \in Nat, NEW pat, Len(pat) \in Nat, pat \in Seq(Byte),
         NEW i \in memmem(b, base, pat), base > 0, Len(pat) > 0
  PROVE  /\ i \in Nat /\ base <= i /\ i + Len(pat) <= Len(b) + 1
         /\ \A k \in 1 .. Len(pat) : b[i + (k - 1)] = pat[k]
<1> DEFINE n == Len(pat)
<1>1. i \in base .. Len(b) - n + 1 /\ SubSeq(b, i, i + n - 1) = pat
  BY DEF memmem
<1>2. Len(b) \in Nat /\ n \in Nat /\ n > 0 /\ n = Len(pat)
  BY LenProperties
<1> HIDE DEF n
<1>3. i \in Nat /\ base <= i /\ i + n <= Len(b) + 1 /\ i + n - 1 \in Int
  BY <1>1, <1>2
<1>4. \A k \in i .. i + n - 1 : b[k] \in Byte
  <2>1. \A k \in i .. i + n - 1 : k \in 1 .. Len(b)
    BY <1>2, <1>3
  <2> QED
    BY <2>1
<1> DEFINE e == i + n - 1
<1>5. e \in Int /\ e - i + 1 = n /\ SubSeq(b, i, e) = pat /\ \A k \in i .. e : b[k] \in Byte
  BY <1>1, <1>2, <1>3, <1>4
<1> HIDE DEF e
<1>6. \A k \in 1 .. n : b[i + (k - 1)] = pat[k]
  <2>1. \A k \in 1 .. e - i + 1 : SubSeq(b, i, e)[k] = b[i + k - 1]
    BY <1>3, <1>5, SubSeqProperties
  <2>2. \A k \in 1 .. n : i + k - 1 = i + (k - 1)
    BY <1>2, <1>3
  <2> QED
    BY <1>5, <2>1, <2>2
<1> QED
  BY <1>3, <1>6 DEF n

LEMMA FoundIf ==
  ASSUME NEW b \in Seq(Byte), NEW base \in Nat, NEW pat \in Seq(Byte),
         NEW i \in Nat, base > 0, Len(pat) > 0, base <= i, i + Len(pat) <= Len(b) + 1,
         \A k \in 1 .. Len(pat) : b[i + (k - 1)] = pat[k]
  PROVE  i \in memmem(b, base, pat)
<1> DEFINE n == Len(pat)
<1>1. Len(b) \in Nat /\ n \in Nat /\ n > 0 /\ n = Len(pat) /\ i + n <= Len(b) + 1 /\ pat \in Seq(Byte)
  BY LenProperties
<1>2. \A k \in 1 .. n : b[i + (k - 1)] = pat[k]
  OBVIOUS
<1> HIDE DEF n
<1> DEFINE e == i + n - 1
<1>3. e \in Int /\ i <= e /\ e - i + 1 = n /\ i \in base .. Len(b) - n + 1
  BY <1>1
<1>4. \A k \in i .. e : b[k] \in Byte
  <2>1. \A k \in i .. e : k \in 1 .. Len(b)
    BY <1>1
  <2> QED
    BY <2>1
<1> DEFINE s == SubSeq(b, i, e)
<1>5. s = SubSeq(b, i, i + n - 1)
  OBVIOUS
<1> HIDE DEF e
<1>6. /\ SubSeq(b, i, e) \in Seq(Byte) /\ Len(SubSeq(b, i, e)) = IF i <= e THEN e - i + 1 ELSE 0
      /\ \A k \in 1 .. e - i + 1 : SubSeq(b, i, e)[k] = b[i + k - 1]
  BY <1>3, <1>4, SubSeqProperties
<1>7. s \in Seq(Byte) /\ Len(s) = n /\ \A k \in 1 .. n : s[k] = b[i + (k - 1)]
  <2>1. \A k \in 1 .. n : i + k - 1 = i + (k - 1)
    BY <1>1
  <2> QED
    BY <1>3, <1>6, <2>1
<1> HIDE DEF s
<1>8. s = pat
  <2>1. \A k \in 1 .. n : s[k] = pat[k]
    BY <1>2, <1>7
  <2> QED
    BY <1>1, <1>7, <2>1, SeqEqual
<1> QED
  BY <1>3, <1>5, <1>8 DEF memmem, n

\* The first place that is found is one of those found.
LEMMA FirstIsFound ==
  ASSUME NEW b, NEW base \in Nat, NEW pat, Len(b) \in Nat, Len(pat) \in Nat, memmem(b, base, pat) # {}
  PROVE  Min(memmem(b, base, pat)) \in memmem(b, base, pat)
<1> DEFINE M == memmem(b, base, pat)
<1>1. M \in SUBSET Nat
  BY DEF memmem
<1> HIDE DEF M
<1>2. PICK n \in M : \A k \in 0 .. n - 1 : k \notin M
  BY <1>1, LeastNumber DEF M
<1>3. \A y \in M : n <= y
  BY <1>1, <1>2
<1>4. \E x \in M : \A y \in M : x <= y
  BY <1>3
<1>5. Min(M) \in M
  BY <1>4, Zenon DEF Min
<1> QED
  BY <1>5 DEF M

LEMMA NopsAre ==
  ASSUME NEW b \in Seq(Byte), NEW i, NEW j, NEW nop \in Byte
  PROVE  /\ Nops(b, i, j, nop) \in Seq(Byte) /\ Len(Nops(b, i, j, nop)) = Len(b)
         /\ \A k \in 1 .. Len(b) : Nops(b, i, j, nop)[k] = IF k \in i .. j THEN nop ELSE b[k]
<1>1. DOMAIN b = 1 .. Len(b) /\ Len(b) \in Nat /\ \A k \in 1 .. Len(b) : b[k] \in Byte
  BY LenProperties, ElementOfSeq
<1> DEFINE f == [k \in 1 .. Len(b) |-> IF k \in i .. j THEN nop ELSE b[k]]
<1>2. Nops(b, i, j, nop) = f
  BY <1>1, Zenon DEF Nops
<1>3. f \in [1 .. Len(b) -> Byte] /\ \A k \in 1 .. Len(b) : f[k] = IF k \in i .. j THEN nop ELSE b[k]
  BY <1>1, Zenon
<1> HIDE DEF f
<1>4. f \in Seq(Byte) /\ Len(f) = Len(b)
  <2>1. f \in Seq(Byte)
    BY <1>1, <1>3, IsASeq
  <2>2. DOMAIN f = 1 .. Len(b)
    BY <1>3
  <2> QED
    BY <1>1, <2>1, <2>2, LenProperties
<1> QED
  BY <1>2, <1>3, <1>4, Zenon

\* The characters of text, and those of them that a repair does not write.
TextSymbols == {Reconnect, CmdConfigstrings, CmdBaselines, Record, Precache, PrecacheAlone, Restarted, Rest}
FoundSymbols == {Reconnect, CmdConfigstrings, CmdBaselines, Record, Precache, Restarted, Rest}

LEMMA SymbolsAre ==
  /\ \A x \in TextSymbols : x \in 17 .. 254
  /\ \A x \in FoundSymbols : x # PrecacheAlone
<1> DEFINE Symbols == <<Reconnect, CmdConfigstrings, CmdBaselines, Record, Precache, PrecacheAlone,
                        Restarted, Rest>>
<1>1. IsInjective(Symbols) /\ \A i \in DOMAIN Symbols : Symbols[i] \in 17 .. 254
  BY SymbolsAssumption, Zenon
<1>2. /\ DOMAIN Symbols = 1 .. 8
      /\ Symbols[1] = Reconnect /\ Symbols[2] = CmdConfigstrings /\ Symbols[3] = CmdBaselines
      /\ Symbols[4] = Record /\ Symbols[5] = Precache /\ Symbols[6] = PrecacheAlone
      /\ Symbols[7] = Restarted /\ Symbols[8] = Rest
  OBVIOUS
<1> HIDE DEF Symbols
<1>3. \A i \in 1 .. 8 : i # 6 => Symbols[i] # Symbols[6]
  BY <1>1, <1>2 DEF IsInjective
<1>4. \A i \in 1 .. 8 : Symbols[i] \in 17 .. 254
  BY <1>1, <1>2
<1> QED
  BY <1>2, <1>3, <1>4 DEF TextSymbols, FoundSymbols

LEMMA SymbolsAreBytes ==
  \A x \in TextSymbols : x \in Byte /\ x > 16 /\ x < 255
<1> SUFFICES ASSUME NEW x \in TextSymbols PROVE x \in Byte /\ x > 16 /\ x < 255
  BY Zenon
<1>1. x \in 17 .. 254
  BY SymbolsAre, Zenon
<1> QED
  BY <1>1, BytesAre

LEMMA OneByte ==
  ASSUME NEW x \in Byte PROVE <<x>> \in Seq(Byte) /\ Len(<<x>>) = 1 /\ <<x>>[1] = x
  OBVIOUS

LEMMA TextIs ==
  ASSUME NEW s \in Byte, Rest \in Byte, NEW n \in Nat, n > 0
  PROVE  /\ Text(s, n) \in Seq(Byte) /\ Len(Text(s, n)) = n
         /\ \A k \in 1 .. n : Text(s, n)[k] = IF k = 1 THEN s ELSE Rest
<1> DEFINE m == n - 1
           f == [i \in 1 .. m |-> Rest]
           t == <<s>>
<1>1. m \in Nat /\ m + 1 = n
  OBVIOUS
<1>2. Text(s, n) = t \o f
  BY Zenon DEF Text
<1> HIDE DEF m
<1>3. f \in Seq(Byte) /\ Len(f) = m /\ \A k \in 1 .. m : f[k] = Rest
  <2>1. f \in Seq(Byte)
    BY <1>1, IsASeq
  <2>2. DOMAIN f = 1 .. m
    OBVIOUS
  <2> QED
    BY <1>1, <2>1, <2>2, LenProperties
<1>4. t \in Seq(Byte) /\ Len(t) = 1 /\ t[1] = s
  BY OneByte
<1> HIDE DEF f, t
<1>5. /\ t \o f \in Seq(Byte) /\ Len(t \o f) = Len(t) + Len(f)
      /\ \A k \in 1 .. Len(t) + Len(f) : (t \o f)[k] = IF k <= Len(t) THEN t[k] ELSE f[k - Len(t)]
  BY <1>3, <1>4, ConcatProperties
<1> QED
  BY <1>1, <1>2, <1>3, <1>4, <1>5

\* A command's pattern: its code x and the text, and the NUL at the end.
IsCodeText(t, x, s, n) ==
  /\ t \in Seq(Byte) /\ Len(t) = n + 1
  /\ \A k \in 1 .. n + 1 : t[k] = IF k = 1 THEN x ELSE IF k = 2 THEN s ELSE Rest
IsCodeTextEnd(t, x, s, n) ==
  /\ t \in Seq(Byte) /\ Len(t) = n + 2
  /\ \A k \in 1 .. n + 2 : t[k] = IF k = 1 THEN x ELSE IF k = 2 THEN s
                                  ELSE IF k = n + 2 THEN 0 ELSE Rest

LEMMA CodeAndText ==
  ASSUME NEW x \in Byte, NEW s \in Byte, Rest \in Byte, NEW n \in Nat, n > 0
  PROVE  IsCodeText(<<x>> \o Text(s, n), x, s, n)
<1> DEFINE t == <<x>>
           u == Text(s, n)
<1>1. t \in Seq(Byte) /\ Len(t) = 1 /\ t[1] = x
  BY OneByte
<1>2. u \in Seq(Byte) /\ Len(u) = n /\ \A k \in 1 .. n : u[k] = IF k = 1 THEN s ELSE Rest
  BY TextIs
<1> HIDE DEF t, u
<1>3. /\ t \o u \in Seq(Byte) /\ Len(t \o u) = Len(t) + Len(u)
      /\ \A k \in 1 .. Len(t) + Len(u) : (t \o u)[k] = IF k <= Len(t) THEN t[k] ELSE u[k - Len(t)]
  BY <1>1, <1>2, ConcatProperties
<1>4. /\ t \o u \in Seq(Byte) /\ Len(t \o u) = n + 1
      /\ \A k \in 1 .. n + 1 : (t \o u)[k] = IF k = 1 THEN x ELSE IF k = 2 THEN s ELSE Rest
  BY <1>1, <1>2, <1>3
<1> QED
  BY <1>4, Zenon DEF t, u, IsCodeText

LEMMA CodeTextEnd ==
  ASSUME NEW x \in Byte, NEW s \in Byte, Rest \in Byte, NEW n \in Nat, n > 0
  PROVE  IsCodeTextEnd(<<x>> \o Text(s, n) \o <<0>>, x, s, n)
<1> DEFINE t == <<x>> \o Text(s, n)
           u == <<0>>
<1>1. /\ t \in Seq(Byte) /\ Len(t) = n + 1
      /\ \A k \in 1 .. n + 1 : t[k] = IF k = 1 THEN x ELSE IF k = 2 THEN s ELSE Rest
  <2>1. IsCodeText(t, x, s, n)
    BY CodeAndText
  <2> QED
    BY <2>1, Zenon DEF IsCodeText
<1>2. u \in Seq(Byte) /\ Len(u) = 1 /\ u[1] = 0
  <2>1. 0 \in Byte
    BY BytesAre
  <2> QED
    BY <2>1, OneByte
<1> HIDE DEF t, u
<1>3. /\ t \o u \in Seq(Byte) /\ Len(t \o u) = Len(t) + Len(u)
      /\ \A k \in 1 .. Len(t) + Len(u) : (t \o u)[k] = IF k <= Len(t) THEN t[k] ELSE u[k - Len(t)]
  BY <1>1, <1>2, ConcatProperties
<1>4. /\ t \o u \in Seq(Byte) /\ Len(t \o u) = n + 2
      /\ \A k \in 1 .. n + 2 : (t \o u)[k] =
              IF k = 1 THEN x ELSE IF k = 2 THEN s ELSE IF k = n + 2 THEN 0 ELSE Rest
  BY <1>1, <1>2, <1>3
<1> QED
  BY <1>4, Zenon DEF t, u, IsCodeTextEnd

LEMMA FixMultiIs ==
  FixMultiString \in Seq(Byte) /\ Len(FixMultiString) = 12
<1>1. 9 \in Byte /\ Reconnect \in Byte /\ Rest \in Byte
  BY BytesAre, SymbolsAreBytes DEF TextSymbols
<1>2. 10 \in Nat /\ 10 > 0 /\ 10 + 2 = 12
  OBVIOUS
<1>3. IsCodeTextEnd(FixMultiString, 9, Reconnect, 10)
  BY <1>1, <1>2, CodeTextEnd, Zenon DEF FixMultiString
<1> QED
  BY <1>2, <1>3 DEF IsCodeTextEnd

\* Every "reconnect" of a DEM block becomes nops behind what was looked at.
LEMMA SearchDEMStep ==
  ASSUME InplaceInv, SearchDEM PROVE InplaceInv'
<1>1. /\ iphase = "search" /\ ikind = "dem" /\ bufferbase <= Len(buffer)
      /\ UNCHANGED <<ikind, original, bytes, at, lastwasbetweenblock>>
  BY Zenon DEF SearchDEM
<1> DEFINE found == memmem(buffer, bufferbase, FixMultiString)
           i == Min(found)
           n == Len(FixMultiString)
<1>2. \/ found = {} /\ iphase' = "write" /\ UNCHANGED search
      \/ /\ found # {} /\ buffer' = Nops(buffer, i, i + n - 1, c_nop)
         /\ bufferbase' = bufferbase + n + 1 /\ changed' = TRUE /\ UNCHANGED iphase
  BY Zenon DEF SearchDEM
<1>3. /\ buffer \in Seq(Byte)
      /\ InHand(ikind, original, bytes, buffer, at + 1, iphase = "merge" \/ lastwasbetweenblock)
      /\ bufferbase \in HeadBytes + 1 .. Len(buffer) + 2
      /\ lastwasbetweenblock \in BOOLEAN
  BY <1>1, Zenon DEF InplaceInv, InHandInv, SearchInv, FileTypeInv
<1>4. CASE found = {} /\ iphase' = "write" /\ UNCHANGED search
  BY <1>1, <1>4, SearchDemEnds
<1>5. CASE /\ found # {} /\ buffer' = Nops(buffer, i, i + n - 1, c_nop)
           /\ bufferbase' = bufferbase + n + 1 /\ changed' = TRUE /\ UNCHANGED iphase
  <2>1. Len(buffer) \in Nat /\ bufferbase \in Nat /\ bufferbase >= 17 /\ n = 12
    <3>1. HeadBytes = 16
      BY <1>1 DEF HeadBytes
    <3>2. Len(buffer) \in Nat
      BY <1>3, LenProperties
    <3> QED
      BY <1>3, <3>1, <3>2, FixMultiIs
  <2>2. i \in found
    BY <1>5, <2>1, FirstIsFound
  <2>3. i \in Nat /\ bufferbase <= i /\ i + n <= Len(buffer) + 1
    <3>1. FixMultiString \in Seq(Byte) /\ Len(FixMultiString) \in Nat /\ Len(FixMultiString) > 0 /\ bufferbase > 0
      BY <2>1, FixMultiIs
    <3> QED
      BY <1>3, <2>1, <2>2, <3>1, FoundAre
  <2> HIDE DEF i, n, found
  <2>4. /\ buffer' \in Seq(Byte) /\ Len(buffer') = Len(buffer)
        /\ \A k \in 1 .. Len(buffer) : buffer'[k] = IF k \in i .. i + n - 1 THEN c_nop ELSE buffer[k]
    <3>1. c_nop \in Byte
      BY BytesAre DEF c_nop
    <3> QED
      BY <1>3, <1>5, <3>1, NopsAre
  <2>5. \A k \in 1 .. 4 : buffer'[k] = buffer[k]
    <3>1. \A k \in 1 .. 4 : k \in 1 .. Len(buffer) /\ k \notin i .. i + n - 1
      BY <2>1, <2>3
    <3> QED
      BY <2>4, <3>1
  <2>6. InHand(ikind, original, bytes, buffer', at + 1, iphase = "merge" \/ lastwasbetweenblock)
    BY <1>3, <2>4, <2>5, StillInHand
  <2>7. RecordingInv' /\ Len(bytes') = Len(OriginalBytes')
    BY <1>1, <1>5, RecordingStays
  <2>8. FileTypeInv'
    BY <1>1, <1>5, <2>7, Zenon DEF InplaceInv, FileTypeInv
  <2>9. InHandInv'
    <3>1. InHand(ikind', original', bytes', buffer', at' + 1, iphase' = "merge" \/ lastwasbetweenblock')
      BY <1>1, <1>5, <2>6, Zenon
    <3> QED
      BY <1>1, <1>5, <2>4, <3>1, Zenon DEF InHandInv
  <2>10. SearchInv'
    <3>1. bufferbase' \in HeadBytes + 1 .. Len(buffer') + 2
      BY <1>1, <1>5, <2>1, <2>3, <2>4 DEF HeadBytes
    <3>2. HeadBytes' = HeadBytes
      BY <1>1, Zenon DEF HeadBytes
    <3>3. ikind' # "dm2"
      BY <1>1
    <3> QED
      BY <3>1, <3>2, <3>3, Zenon DEF SearchInv
  <2>11. BetweenInv' /\ WriteInv'
    BY <1>1, <1>5, Zenon DEF BetweenInv, WriteInv
  <2> QED
    BY <2>7, <2>8, <2>9, <2>10, <2>11, Zenon DEF InplaceInv
<1> QED
  BY <1>2, <1>4, <1>5

LEMMA PutAt ==
  ASSUME NEW b \in Seq(Byte), NEW i \in 1 .. Len(b), NEW x \in Byte
  PROVE  /\ [b EXCEPT ![i] = x] \in Seq(Byte) /\ Len([b EXCEPT ![i] = x]) = Len(b)
         /\ \A k \in 1 .. Len(b) : k # i => [b EXCEPT ![i] = x][k] = b[k]
  BY ExceptSeq, LenProperties

\* What the start of a block becomes is of the same length and size.
LEMMA FirstRepairedIs ==
  ASSUME buffer \in Seq(Byte), Len(buffer) >= 4 + SizeOf(buffer), SizeOf(buffer) \in Int
  PROVE  /\ FirstRepaired \in Seq(Byte) /\ Len(FirstRepaired) = Len(buffer)
         /\ \A k \in 1 .. 4 : FirstRepaired[k] = buffer[k]
<1> DEFINE size == SizeOf(buffer)
<1>1. Len(buffer) \in Nat /\ 5 \in Nat /\ DM2_nop \in Byte /\ 1 \in Byte
  <2>1. Len(buffer) \in Nat
    BY LenProperties, Zenon
  <2>2. 5 \in Nat /\ 6 \in Nat /\ 6 <= 255 /\ 1 \in Nat /\ 1 <= 255
    OBVIOUS
  <2>3. 6 \in Byte /\ 1 \in Byte
    BY <2>2, BytesAre, Zenon
  <2> QED
    BY <2>1, <2>2, <2>3, Zenon DEF DM2_nop
<1> HIDE DEF size
<1>2. CASE FirstIsReconnect
  <2>1. FirstRepaired = [buffer EXCEPT ![5] = DM2_nop]
    BY <1>2, Zenon DEF FirstRepaired
  <2>2. 5 \in 1 .. Len(buffer) /\ \A k \in 1 .. 4 : k \in 1 .. Len(buffer) /\ k # 5
    <3>1. SizeOf(buffer) > 4
      BY <1>2 DEF FirstIsReconnect
    <3> QED
      BY <1>1, <3>1
  <2> QED
    BY <1>1, <2>1, <2>2, PutAt
<1>3. CASE ~ FirstIsReconnect /\ FirstIsNetwork
  <2>1. FirstRepaired = [buffer EXCEPT ![14] = 1]
    BY <1>3, Zenon DEF FirstRepaired
  <2>2. 14 \in 1 .. Len(buffer) /\ \A k \in 1 .. 4 : k \in 1 .. Len(buffer) /\ k # 14
    <3>1. SizeOf(buffer) > 13
      BY <1>3 DEF FirstIsNetwork
    <3> QED
      BY <1>1, <3>1
  <2> QED
    BY <1>1, <2>1, <2>2, PutAt
<1>4. CASE ~ FirstIsReconnect /\ ~ FirstIsNetwork
  BY <1>4, Zenon DEF FirstRepaired
<1> QED
  BY <1>2, <1>3, <1>4

\* A block is as long as its size tells; an end block is not longer.
LEMMA SizeInHand ==
  ASSUME NEW o, Len(o.track) \in Nat, NEW b \in Seq(Byte), NEW buf \in Seq(Byte),
         NEW m \in Nat, m <= Len(b), NEW between, NEW S, InHandWith("dm2", o, b, buf, m + 1, between, S)
  PROVE  /\ SizeOf(buf) = get_next_long(b, (m + 1) - Len(buf))
         /\ SizeOf(buf) \in Int /\ SizeOf(buf) >= -1
         /\ Len(buf) = (IF SizeOf(buf) = -1 THEN 4 ELSE 4 + SizeOf(buf))
         /\ SizeOf(buf) = -1 => m = Len(b)
<1> DEFINE h == (m + 1) - Len(buf)
<1>1. h \in S /\ h < m + 1 /\ BlockEnd("dm2", b, h) = m + 1 /\ Divides("dm2", o, b, S)
  BY Zenon DEF InHandWith
<1>2. SizeOf(buf) = get_next_long(b, h) /\ h \in Nat /\ Len(buf) \in Nat /\ Len(b) \in Nat
  BY BlockInHand, LenProperties DEF SizeOf
<1>3. h + Len(buf) = m + 1
  BY <1>2
<1> HIDE DEF h
<1>4. h # Len(b) + 1
  BY <1>1, <1>2
<1>5. get_next_long(b, h) \in Int /\ get_next_long(b, h) >= -1
  BY <1>1, <1>4, PlacesIn
<1>6. BlockEnd("dm2", b, h) = IF get_next_long(b, h) = -1 THEN h + 4 ELSE h + 4 + get_next_long(b, h)
  BY DEF BlockEnd, HeadOf
<1>7. get_next_long(b, h) = -1 => h + 4 = Len(b) + 1
  <2>1. IsBlockAt("dm2", b, h)
    BY <1>1, <1>4, Zenon DEF Divides
  <2> QED
    BY <2>1 DEF IsBlockAt
<1>8. Len(buf) = (IF SizeOf(buf) = -1 THEN 4 ELSE 4 + SizeOf(buf))
  <2>1. CASE SizeOf(buf) = -1
    <3>1. m + 1 = h + 4
      BY <1>1, <1>2, <1>6, <2>1
    <3>2. Len(buf) = 4
      <4>1. h \in Nat /\ Len(buf) \in Nat
        BY <1>2
      <4>2. h + Len(buf) = h + 4
        BY <1>3, <3>1, Zenon
      <4> DEFINE l == Len(buf)
      <4>3. h \in Nat /\ l \in Nat /\ h + l = h + 4
        BY <4>1, <4>2
      <4> HIDE DEF l
      <4>4. l = 4
        BY <4>3
      <4> QED
        BY <4>4 DEF l
    <3> QED
      BY <2>1, <3>2, Zenon
  <2>2. CASE SizeOf(buf) # -1
    <3>1. m + 1 = h + 4 + SizeOf(buf)
      BY <1>1, <1>2, <1>6, <2>2
    <3> QED
      BY <1>2, <1>3, <1>5, <2>2, <3>1
  <2> QED
    BY <2>1, <2>2
<1>9. SizeOf(buf) = -1 => m = Len(b)
  BY <1>1, <1>2, <1>3, <1>6, <1>7
<1> QED
  BY <1>2, <1>5, <1>8, <1>9 DEF h

\* What is in front of the next block: nothing empty, or the block in hand if that is.
LEMMA EmptyInHand ==
  ASSUME NEW o, Len(o.track) \in Nat, NEW b \in Seq(Byte), NEW buf \in Seq(Byte),
         NEW m \in Nat, m <= Len(b), NEW between, ~ between, NEW S,
         InHandWith("dm2", o, b, buf, m + 1, between, S)
  PROVE  NoneEmpty("dm2", b, S, m + 1, SizeOf(buf) = 0)
<1> DEFINE h == (m + 1) - Len(buf)
           n == m + 1
<1>1. /\ h \in S /\ h < n /\ BlockEnd("dm2", b, h) = n /\ Divides("dm2", o, b, S)
      /\ NoneEmpty("dm2", b, S, h, between) /\ n \in S
  BY Zenon DEF InHandWith
<1>2. SizeOf(buf) = get_next_long(b, h) /\ h \in Nat
  <2>1. get_next_long(buf, 1) = get_next_long(b, h) /\ h \in Nat
    BY BlockInHand, SMT
  <2> QED
    BY <2>1, Zenon DEF SizeOf
<1>3. n \in Nat
  OBVIOUS
<1>4. SizeOf(buf) = 0 => h + 4 = n
  BY <1>1, <1>2, <1>3 DEF BlockEnd, HeadOf
<1> HIDE DEF h, n
<1>5. \A y \in S : y \in Nat /\ y <= Len(b) + 1 /\ Len(b) \in Nat
  <2>1. \A y \in S : y \in Nat /\ y <= Len(b) + 1
    BY <1>1, PlacesIn
  <2> QED
    BY <2>1, LenProperties
<1>6. \A y \in S : h < y => n <= y
  <2>1. h # Len(b) + 1
    BY <1>1, <1>3, <1>5
  <2> QED
    BY <1>1, <2>1, Zenon DEF Divides
<1>7. ASSUME NEW y \in S, y < n, get_next_long(b, y) = 0 PROVE SizeOf(buf) = 0 /\ y + 4 = n
  <2>1. ~ (y < h)
    BY <1>1, <1>7, Zenon DEF NoneEmpty
  <2>2. y = h
    BY <1>2, <1>3, <1>5, <1>6, <1>7, <2>1
  <2> QED
    BY <1>2, <1>4, <1>7, <2>2
<1>8. SizeOf(buf) = 0 => n - 4 \in S /\ get_next_long(b, n - 4) = 0
  <2>1. SizeOf(buf) = 0 => n - 4 = h
    BY <1>2, <1>3, <1>4
  <2> QED
    BY <1>1, <1>2, <2>1
<1> QED
  BY <1>7, <1>8, Zenon DEF NoneEmpty, n

LEMMA FieldsStep ==
  ASSUME InplaceInv, Fields PROVE InplaceInv'
<1>1. /\ iphase = "fields" /\ buffer' = FirstRepaired
      /\ changed' = (changed \/ FirstIsReconnect \/ FirstIsNetwork)
      /\ iphase' = (IF lastwasbetweenblock THEN "merge" ELSE "write")
      /\ lastwasbetweenblock' = (~ lastwasbetweenblock /\ SizeOf(buffer) = 0)
      /\ UNCHANGED <<ikind, original, bytes, at, bufferbase>>
  BY Zenon DEF Fields
<1>2. /\ Len(original.track) \in Nat /\ bytes \in Seq(Byte) /\ at \in Nat /\ at <= Len(bytes)
  BY <1>1, RecordingIs
<1>3. /\ buffer \in Seq(Byte) /\ lastwasbetweenblock \in BOOLEAN /\ ikind = "dm2"
      /\ InHand(ikind, original, bytes, buffer, at + 1, iphase = "merge" \/ lastwasbetweenblock)
  BY <1>1, Zenon DEF InplaceInv, InHandInv, FileTypeInv
<1>4. InHand("dm2", original, bytes, buffer, at + 1, lastwasbetweenblock)
  <2>1. (iphase = "merge" \/ lastwasbetweenblock) = lastwasbetweenblock
    BY <1>1, <1>3
  <2> QED
    BY <1>3, <2>1
<1>5. PICK S : InHandWith("dm2", original, bytes, buffer, at + 1, lastwasbetweenblock, S)
  BY <1>4, Zenon DEF InHand
<1>6. /\ SizeOf(buffer) \in Int /\ SizeOf(buffer) >= -1
      /\ Len(buffer) = (IF SizeOf(buffer) = -1 THEN 4 ELSE 4 + SizeOf(buffer))
  BY <1>2, <1>3, <1>5, SizeInHand
<1>7. /\ buffer' \in Seq(Byte) /\ Len(buffer') = Len(buffer)
      /\ \A k \in 1 .. 4 : buffer'[k] = buffer[k]
  <2>1. Len(buffer) >= 4 + SizeOf(buffer)
    BY <1>6
  <2> QED
    BY <1>1, <1>3, <1>6, <2>1, FirstRepairedIs
<1>8. InHand("dm2", original, bytes, buffer', at + 1, lastwasbetweenblock)
  BY <1>4, <1>7, StillInHand
<1>9. RecordingInv' /\ Len(bytes') = Len(OriginalBytes')
  BY <1>1, RecordingStays
<1>10. iphase' \in {"merge", "write"} /\ lastwasbetweenblock' \in BOOLEAN /\ changed' \in BOOLEAN
  BY <1>1 DEF FirstIsReconnect, FirstIsNetwork
<1>11. FileTypeInv'
  BY <1>1, <1>9, <1>10, Zenon DEF InplaceInv, FileTypeInv
<1>12. CASE lastwasbetweenblock
  <2>1. iphase' = "merge" /\ ~ lastwasbetweenblock'
    BY <1>1, <1>12
  <2>2. InHand(ikind', original', bytes', buffer', at' + 1, iphase' = "merge" \/ lastwasbetweenblock')
    <3>1. (iphase' = "merge" \/ lastwasbetweenblock') = lastwasbetweenblock
      BY <1>12, <2>1, <1>3
    <3> QED
      BY <1>1, <1>3, <1>8, <3>1
  <2>3. InHandInv'
    BY <1>1, <1>3, <1>7, <2>1, <2>2, Zenon DEF InHandInv
  <2>4. BetweenInv' /\ WriteInv' /\ SearchInv'
    BY <2>1, Zenon DEF BetweenInv, WriteInv, SearchInv
  <2> QED
    BY <1>9, <1>11, <2>3, <2>4, Zenon DEF InplaceInv
<1>13. CASE ~ lastwasbetweenblock
  <2>1. iphase' = "write" /\ lastwasbetweenblock' = (SizeOf(buffer) = 0) /\ lastwasbetweenblock = FALSE
    BY <1>1, <1>3, <1>13
  <2>2. PICK R : InHandWith("dm2", original, bytes, buffer', at + 1, lastwasbetweenblock, R)
    BY <1>8, <2>1, Zenon DEF InHand
  <2>3. SizeOf(buffer') = SizeOf(buffer)
    <3>1. \A k \in 0 .. 3 : buffer'[1 + k] = buffer[1 + k]
      <4>1. \A k \in 0 .. 3 : 1 + k \in 1 .. 4
        OBVIOUS
      <4> QED
        BY <1>7, <4>1
    <3> QED
      BY <3>1, SameLong DEF SizeOf
  <2>4. NoneEmpty("dm2", bytes, R, at + 1, SizeOf(buffer) = 0)
    BY <1>2, <1>7, <1>13, <2>2, <2>3, EmptyInHand
  <2>5. /\ Sound("dm2", original, bytes, at + 1, SizeOf(buffer) = 0)
        /\ Sound("dm2", original, WithBlock(bytes, buffer', at), at + 1, SizeOf(buffer) = 0)
    BY <1>2, <1>7, <2>2, <2>4, WrittenIsSound
  <2>6. Sound(ikind', original', Written', at' + 1, lastwasbetweenblock')
    <3>1. Written' = IF changed' THEN WithBlock(bytes, buffer', at) ELSE bytes
      BY <1>1, Zenon DEF Written
    <3>2. Sound("dm2", original, Written', at + 1, SizeOf(buffer) = 0)
      BY <2>5, <3>1, Zenon
    <3> QED
      BY <1>1, <1>3, <2>1, <3>2
  <2>7. Len(buffer') <= at
    BY <1>2, <1>7, <2>2, BlockInHand
  <2>8. WriteInv'
    BY <1>1, <1>7, <2>6, <2>7, Zenon DEF WriteInv
  <2>9. BetweenInv' /\ InHandInv' /\ SearchInv'
    BY <2>1, Zenon DEF BetweenInv, InHandInv, SearchInv
  <2> QED
    BY <1>9, <1>11, <2>8, <2>9, Zenon DEF InplaceInv
<1> QED
  BY <1>12, <1>13

LEMMA MergeStep ==
  ASSUME InplaceInv, Merge PROVE InplaceInv'
<1> DEFINE Four == [i \in 1 .. 4 |-> DM2_nop]
           size == SizeOf(buffer)
           tail == SubSeq(buffer, 5, Len(buffer))
           h == (at + 1) - Len(buffer)
           n == at + 1
<1>1. /\ iphase = "merge" /\ size # -1 /\ buffer' = put_long(size + 4) \o Four \o tail
      /\ changed' = TRUE /\ iphase' = "write"
      /\ UNCHANGED <<ikind, original, bytes, at, bufferbase, lastwasbetweenblock>>
  BY Zenon DEF Merge
<1>2. /\ Len(original.track) \in Nat /\ Len(original.blocks) \in Nat /\ bytes \in Seq(Byte)
      /\ at \in Nat /\ at <= Len(bytes) /\ Len(bytes) <= LongMax /\ Len(bytes) \in Nat
  BY <1>1, RecordingIs
<1>3. /\ buffer \in Seq(Byte) /\ ikind = "dm2" /\ ~ lastwasbetweenblock
      /\ InHand(ikind, original, bytes, buffer, at + 1, iphase = "merge" \/ lastwasbetweenblock)
  BY <1>1, Zenon DEF InplaceInv, InHandInv
<1>4. InHand("dm2", original, bytes, buffer, at + 1, TRUE)
  <2>1. (iphase = "merge" \/ lastwasbetweenblock) = TRUE
    BY <1>1
  <2> QED
    BY <1>3, <2>1
<1>5. PICK S : InHandWith("dm2", original, bytes, buffer, at + 1, TRUE, S)
  BY <1>4, Zenon DEF InHand
<1>6. PICK between : between = TRUE /\ InHandWith("dm2", original, bytes, buffer, at + 1, between, S)
  BY <1>5, Zenon
<1>7. /\ size = get_next_long(bytes, h) /\ size \in Int /\ size >= -1
      /\ Len(buffer) = (IF size = -1 THEN 4 ELSE 4 + size)
  BY <1>2, <1>3, <1>6, SizeInHand
<1>8. Len(buffer) <= at /\ Len(buffer) >= 4 /\ h \in Nat /\ Len(buffer) \in Nat
  BY <1>2, <1>3, <1>6, BlockInHand
<1>9. /\ Divides("dm2", original, bytes, S) /\ n \in S /\ h \in S /\ h < n
      /\ BlockEnd("dm2", bytes, h) = n /\ NoneEmpty("dm2", bytes, S, h, TRUE)
      /\ TextsAhead("dm2", bytes, S, n)
  BY <1>5, Zenon DEF InHandWith
<1>10. n \in Nat /\ at = n - 1 /\ h + Len(buffer) = n
  BY <1>2, <1>8
<1>11. h - 4 \in Nat /\ h - 4 > 0
  <2>1. h - 4 \in S
    BY <1>9, Zenon DEF NoneEmpty
  <2> QED
    BY <1>2, <1>9, <2>1, PlacesIn
<1> HIDE DEF h, n, size
<1>12. size \in Nat /\ Len(buffer) = 4 + size
  BY <1>1, <1>7
<1>13. size + 4 \in Nat /\ size + 4 <= LongMax
  <2>1. size + 4 <= at
    BY <1>8, <1>12
  <2>2. at <= LongMax /\ LongMax \in Nat
    <3>1. LongMax \in Nat
      BY SMT DEF LongMax
    <3> QED
      BY <1>2, <3>1
  <2> QED
    BY <1>2, <1>12, <2>1, <2>2
<1> DEFINE put == put_long(size + 4)
           s   == put \o Four
<1>14. put \in Seq(Byte) /\ Len(put) = 4 /\ get_next_long(put, 1) = size + 4
  BY <1>13, LongOfPut, SMT
<1>15. Four \in Seq(Byte) /\ Len(Four) = 4
  <2>1. \A i \in 1 .. 4 : DM2_nop \in Byte
    BY BytesAre DEF DM2_nop
  <2>2. Four \in Seq(Byte)
    BY <2>1, IsASeq
  <2>3. DOMAIN Four = 1 .. 4
    OBVIOUS
  <2> QED
    BY <2>2, <2>3, LenProperties
<1>16. tail \in Seq(Byte) /\ Len(tail) = size
  <2> DEFINE l == Len(buffer)
  <2>1. l \in Nat /\ l = 4 + size /\ \A k \in 5 .. l : buffer[k] \in Byte
    BY <1>3, <1>12
  <2> HIDE DEF l
  <2>2. SubSeq(buffer, 5, l) \in Seq(Byte) /\ Len(SubSeq(buffer, 5, l)) = IF 5 <= l THEN l - 5 + 1 ELSE 0
    BY <2>1, SubSeqProperties
  <2> QED
    BY <1>12, <2>1, <2>2 DEF l
<1> HIDE DEF put, Four, tail
<1>17. s \in Seq(Byte) /\ Len(s) = 8 /\ \A k \in 1 .. 4 : s[k] = put[k]
  <2>1. /\ put \o Four \in Seq(Byte) /\ Len(put \o Four) = Len(put) + Len(Four)
        /\ \A k \in 1 .. Len(put) + Len(Four) :
             (put \o Four)[k] = IF k <= Len(put) THEN put[k] ELSE Four[k - Len(put)]
    BY <1>14, <1>15, ConcatProperties
  <2> QED
    BY <1>14, <1>15, <2>1
<1> HIDE DEF s
<1>18. /\ buffer' \in Seq(Byte) /\ Len(buffer') = Len(buffer) + 4
       /\ \A k \in 1 .. 4 : buffer'[k] = put[k]
  <2>1. /\ s \o tail \in Seq(Byte) /\ Len(s \o tail) = Len(s) + Len(tail)
        /\ \A k \in 1 .. Len(s) + Len(tail) :
             (s \o tail)[k] = IF k <= Len(s) THEN s[k] ELSE tail[k - Len(s)]
    BY <1>16, <1>17, ConcatProperties
  <2>2. buffer' = s \o tail
    BY <1>1, Zenon DEF s, put, Four, tail
  <2> QED
    BY <1>12, <1>16, <1>17, <2>1, <2>2
<1> DEFINE c == WithBlock(bytes, buffer', at)
           a == h - 4
<1>19. a \in Nat /\ a > 0 /\ a + 4 = h /\ at - Len(buffer') = a - 1 /\ Len(buffer') <= at
  BY <1>8, <1>10, <1>11, <1>18
<1>20. /\ c \in Seq(Byte) /\ Len(c) = Len(bytes)
       /\ \A k \in 1 .. Len(bytes) :
            c[k] = IF at - Len(buffer') < k /\ k <= at THEN buffer'[k - (at - Len(buffer'))] ELSE bytes[k]
  BY <1>2, <1>18, <1>19, WithBlockIs
<1> HIDE DEF c, a
<1>21. \A k \in 1 .. Len(bytes) : k < a \/ n <= k => c[k] = bytes[k]
  <2> SUFFICES ASSUME NEW k \in 1 .. Len(bytes), k < a \/ n <= k PROVE c[k] = bytes[k]
    BY Zenon
  <2>1. ~ (at - Len(buffer') < k /\ k <= at)
    BY <1>2, <1>10, <1>19
  <2> QED
    BY <1>20, <2>1, Zenon
<1>22. get_next_long(c, a) = size + 4
  <2>1. \A k \in 0 .. 3 : c[a + k] = put[1 + k]
    <3> SUFFICES ASSUME NEW k \in 0 .. 3 PROVE c[a + k] = put[1 + k]
      OBVIOUS
    <3>1. /\ a + k \in 1 .. Len(bytes) /\ at - Len(buffer') < a + k /\ a + k <= at
          /\ (a + k) - (at - Len(buffer')) = 1 + k /\ 1 + k \in 1 .. 4
      BY <1>2, <1>8, <1>10, <1>19
    <3>2. c[a + k] = buffer'[(a + k) - (at - Len(buffer'))]
      BY <1>20, <3>1, Zenon
    <3> QED
      BY <1>18, <3>1, <3>2
  <2>2. get_next_long(c, a) = get_next_long(put, 1)
    BY <1>19, <2>1, SameLong
  <2> QED
    BY <1>14, <2>2
<1>23. Joined(bytes, c, h, n)
  <2>1. a = h - 4
    BY DEF a
  <2> QED
    BY <1>7, <1>20, <1>21, <1>22, <2>1 DEF Joined
<1>24. SoundWith("dm2", original, c, n, FALSE, S \ {h})
  <2>1. get_next_long(bytes, h) # -1
    BY <1>1, <1>7
  <2> QED
    BY <1>2, <1>9, <1>23, <2>1, JoinedIsSound
<1>25. RecordingInv' /\ Len(bytes') = Len(OriginalBytes')
  BY <1>1, RecordingStays
<1>26. FileTypeInv'
  BY <1>1, <1>25, Zenon DEF InplaceInv, FileTypeInv
<1>27. WriteInv'
  <2>1. lastwasbetweenblock' = FALSE
    <3>1. lastwasbetweenblock \in BOOLEAN
      BY Zenon DEF InplaceInv, FileTypeInv
    <3> QED
      BY <1>1, <1>3, <3>1
  <2>2. Sound("dm2", original, c, n, FALSE)
    BY <1>24, Zenon DEF Sound
  <2>3. Written' = c
    BY <1>1, Zenon DEF Written, c
  <2>4. Sound(ikind', original', Written', at' + 1, lastwasbetweenblock')
    BY <1>1, <1>3, <2>1, <2>2, <2>3 DEF n
  <2> QED
    BY <1>1, <1>18, <1>19, <2>4, Zenon DEF WriteInv
<1>28. BetweenInv' /\ InHandInv' /\ SearchInv'
  BY <1>1, Zenon DEF BetweenInv, InHandInv, SearchInv
<1> QED
  BY <1>25, <1>26, <1>27, <1>28, Zenon DEF InplaceInv

\* At the end the file is as long as it was, whatever is in its last bytes.
LEMMA MergeEndStep ==
  ASSUME InplaceInv, MergeEnd PROVE InplaceInv'
<1> DEFINE nops == [i \in 1 .. 3 |-> DM2_nop]
           put == put_long(3)
           m == at - 8
           front == SubSeq(bytes, 1, m)
           last == <<Last(bytes)>>
<1>1. /\ iphase = "merge" /\ SizeOf(buffer) = -1 /\ bytes' = front \o put \o nops \o last
      /\ iphase' = "lost" /\ UNCHANGED <<ikind, original, at, search, lastwasbetweenblock>>
  BY Zenon DEF MergeEnd
<1>2. /\ Len(original.track) \in Nat /\ bytes \in Seq(Byte)
      /\ at \in Nat /\ at <= Len(bytes) /\ Len(bytes) \in Nat
  BY <1>1, RecordingIs
<1>3. /\ buffer \in Seq(Byte) /\ ikind = "dm2"
      /\ InHand(ikind, original, bytes, buffer, at + 1, iphase = "merge" \/ lastwasbetweenblock)
  BY <1>1, Zenon DEF InplaceInv, InHandInv
<1>4. InHand("dm2", original, bytes, buffer, at + 1, TRUE)
  <2>1. (iphase = "merge" \/ lastwasbetweenblock) = TRUE
    BY <1>1
  <2> QED
    BY <1>3, <2>1
<1>5. PICK S : InHandWith("dm2", original, bytes, buffer, at + 1, TRUE, S)
  BY <1>4, Zenon DEF InHand
<1>6. PICK between : between = TRUE /\ InHandWith("dm2", original, bytes, buffer, at + 1, between, S)
  BY <1>5, Zenon
<1>7. Len(buffer) = 4 /\ at = Len(bytes)
  BY <1>1, <1>2, <1>3, <1>6, SizeInHand
<1>8. at >= 8
  <2> DEFINE h == (at + 1) - Len(buffer)
  <2>1. /\ Divides("dm2", original, bytes, S) /\ h - 4 \in S
    <3>1. NoneEmpty("dm2", bytes, S, h, TRUE) /\ Divides("dm2", original, bytes, S)
      BY <1>5, Zenon DEF InHandWith
    <3> QED
      BY <3>1, Zenon DEF NoneEmpty
  <2>2. h - 4 > 0
    BY <1>2, <2>1, PlacesIn
  <2> QED
    BY <1>2, <1>7, <2>2
<1>9. m \in Nat /\ m <= Len(bytes) /\ m + 8 = Len(bytes)
  BY <1>2, <1>7, <1>8
<1> HIDE DEF m
<1>10. front \in Seq(Byte) /\ Len(front) = m
  <2>1. \A k \in 1 .. m : bytes[k] \in Byte
    BY <1>2, <1>9
  <2>2. SubSeq(bytes, 1, m) \in Seq(Byte) /\ Len(SubSeq(bytes, 1, m)) = IF 1 <= m THEN m - 1 + 1 ELSE 0
    BY <1>9, <2>1, SubSeqProperties
  <2> QED
    BY <1>9, <2>2
<1>11. put \in Seq(Byte) /\ Len(put) = 4
  <2>1. 3 \in Nat /\ 3 <= LongMax
    BY SMT DEF LongMax
  <2> QED
    BY <2>1, LongOfPut, Zenon
<1>12. nops \in Seq(Byte) /\ Len(nops) = 3
  <2>1. \A i \in 1 .. 3 : DM2_nop \in Byte
    BY BytesAre DEF DM2_nop
  <2>2. nops \in Seq(Byte)
    BY <2>1, IsASeq
  <2>3. DOMAIN nops = 1 .. 3
    OBVIOUS
  <2> QED
    BY <2>2, <2>3, LenProperties
<1>13. last \in Seq(Byte) /\ Len(last) = 1
  <2>1. Last(bytes) \in Byte
    BY <1>2, <1>7, <1>8 DEF Last
  <2> QED
    BY <2>1, OneByte
<1> HIDE DEF front, put, nops, last
<1>14. front \o put \in Seq(Byte) /\ Len(front \o put) = m + 4
  <2>1. front \o put \in Seq(Byte) /\ Len(front \o put) = Len(front) + Len(put)
    BY <1>10, <1>11, ConcatProperties
  <2> QED
    BY <1>10, <1>11, <2>1
<1> DEFINE s == front \o put
           t == s \o nops
<1>15. s \in Seq(Byte) /\ Len(s) = m + 4
  BY <1>14
<1> HIDE DEF s
<1>16. t \in Seq(Byte) /\ Len(t) = m + 7
  <2>1. s \o nops \in Seq(Byte) /\ Len(s \o nops) = Len(s) + Len(nops)
    BY <1>12, <1>15, ConcatProperties
  <2> QED
    BY <1>9, <1>12, <1>15, <2>1
<1> HIDE DEF t
<1>17. t \o last \in Seq(Byte) /\ Len(t \o last) = m + 8
  <2>1. t \o last \in Seq(Byte) /\ Len(t \o last) = Len(t) + Len(last)
    BY <1>13, <1>16, ConcatProperties
  <2> QED
    BY <1>9, <1>13, <1>16, <2>1
<1>18. bytes' \in Seq(Byte) /\ Len(bytes') = Len(bytes)
  BY <1>1, <1>9, <1>17 DEF s, t
<1>19. RecordingInv' /\ Len(bytes') = Len(OriginalBytes')
  BY <1>1, <1>18, RecordingStays
<1>20. FileTypeInv'
  <2>1. at' \in 0 .. Len(bytes')
    BY <1>1, <1>2, <1>18
  <2> QED
    BY <1>1, <1>18, <1>19, <2>1, Zenon DEF InplaceInv, FileTypeInv, search
<1>21. BetweenInv' /\ InHandInv' /\ SearchInv' /\ WriteInv'
  BY <1>1, Zenon DEF BetweenInv, InHandInv, SearchInv, WriteInv
<1> QED
  BY <1>19, <1>20, <1>21, Zenon DEF InplaceInv

LEMMA WriteBackStep ==
  ASSUME InplaceInv, WriteBack PROVE InplaceInv'
<1>1. /\ iphase = "write" /\ bytes' = Written /\ iphase' = "block"
      /\ UNCHANGED <<ikind, original, at, search, lastwasbetweenblock>>
  BY Zenon DEF WriteBack, Written, WithBlock
<1>2. bytes \in Seq(Byte) /\ at \in Nat /\ at <= Len(bytes) /\ Len(bytes) \in Nat
  BY <1>1, RecordingIs
<1>3. /\ buffer \in Seq(Byte) /\ Len(buffer) <= at
      /\ Sound(ikind, original, Written, at + 1, lastwasbetweenblock)
  BY <1>1, Zenon DEF InplaceInv, WriteInv
<1>4. bytes' \in Seq(Byte) /\ Len(bytes') = Len(bytes)
  <2>1. CASE changed
    <3>1. WithBlock(bytes, buffer, at) \in Seq(Byte) /\ Len(WithBlock(bytes, buffer, at)) = Len(bytes)
      BY <1>2, <1>3, WithBlockIs
    <3> QED
      BY <1>1, <2>1, <3>1, Zenon DEF Written
  <2>2. CASE ~ changed
    BY <1>1, <1>2, <2>2, Zenon DEF Written
  <2> QED
    BY <2>1, <2>2
<1>5. RecordingInv' /\ Len(bytes') = Len(OriginalBytes')
  BY <1>1, <1>4, RecordingStays
<1>6. FileTypeInv'
  <2>1. at' \in 0 .. Len(bytes')
    BY <1>1, <1>2, <1>4
  <2> QED
    BY <1>1, <1>4, <1>5, <2>1, Zenon DEF InplaceInv, FileTypeInv, search
<1>7. BetweenInv'
  BY <1>1, <1>3, Zenon DEF BetweenInv
<1>8. InHandInv' /\ SearchInv' /\ WriteInv'
  BY <1>1, Zenon DEF InHandInv, SearchInv, WriteInv
<1> QED
  BY <1>5, <1>6, <1>7, <1>8, Zenon DEF InplaceInv

LEMMA CloseStep ==
  ASSUME InplaceInv, Close PROVE InplaceInv'
<1>1. /\ iphase = "block" /\ at = Len(bytes) /\ iphase' = "done"
      /\ UNCHANGED <<ikind, original, bytes, at, search, lastwasbetweenblock>>
  BY Zenon DEF Close
<1>2. RecordingInv' /\ Len(bytes') = Len(OriginalBytes')
  BY <1>1, RecordingStays
<1>3. FileTypeInv'
  BY <1>1, <1>2, Zenon DEF InplaceInv, FileTypeInv, search
<1>4. BetweenInv'
  BY <1>1, Zenon DEF InplaceInv, BetweenInv
<1>5. InHandInv' /\ SearchInv' /\ WriteInv'
  BY <1>1, Zenon DEF InHandInv, SearchInv, WriteInv
<1> QED
  BY <1>2, <1>3, <1>4, <1>5, Zenon DEF InplaceInv

-----------------------------------------------------------------------------
(* What is done at the places that are found. *)

\* What the commands that are repaired have in common.  No nop, and not what takes
\* the place of "precache ", is part of one; a NUL is at the end of one or not in it.
IsRepairOf(pat, do) ==
  /\ pat \in Seq(Byte) /\ Len(pat) \in Nat /\ Len(pat) >= 4
  /\ do \in {"whole", "string", "argument", "last"}
  /\ do # "last" =>
       \A k \in 1 .. Len(pat) : pat[k] # DM2_nop /\ pat[k] # PrecacheAlone
  /\ do \in {"string", "argument"} => pat[1] = 11 /\ \A k \in 1 .. Len(pat) : pat[k] # 0
  /\ do = "argument" => Len(pat) = 10 /\ \A k \in 3 .. 10 : pat[k] = Rest
  /\ do = "whole" => /\ Len(pat) = 12 \/ (Len(pat) = 4 /\ pat[1] = 16)
                     /\ \A k \in 1 .. Len(pat) : pat[k] = 0 => k = Len(pat)
  /\ do = "last" => pat[Len(pat)] = 8
IsRepair(r) == IsRepairOf(r.pat, r.do)

LEMMA SymbolIs ==
  ASSUME NEW s \in FoundSymbols
  PROVE  /\ s \in Byte /\ s \in Nat /\ s > 16 /\ s < 255 /\ s # PrecacheAlone /\ Rest \in Byte
         /\ Rest \in Nat /\ Rest > 16 /\ Rest < 255 /\ Rest # PrecacheAlone
         /\ PrecacheAlone \in Byte /\ PrecacheAlone \in Nat /\ PrecacheAlone > 16 /\ PrecacheAlone < 255
<1>1. /\ s \in Byte /\ s > 16 /\ s < 255 /\ Rest \in Byte /\ Rest > 16 /\ Rest < 255
      /\ PrecacheAlone \in Byte /\ PrecacheAlone > 16 /\ PrecacheAlone < 255
  <2>1. s \in TextSymbols /\ Rest \in TextSymbols /\ PrecacheAlone \in TextSymbols
    BY Zenon DEF TextSymbols, FoundSymbols
  <2> QED
    BY <2>1, SymbolsAreBytes, Zenon
<1>2. s # PrecacheAlone /\ Rest # PrecacheAlone
  <2>1. Rest \in FoundSymbols
    BY Zenon DEF FoundSymbols
  <2> QED
    BY <2>1, SymbolsAre, Zenon
<1>3. s \in Nat /\ Rest \in Nat /\ PrecacheAlone \in Nat
  BY <1>1, BytesAre, Zenon
<1> QED
  BY <1>1, <1>2, <1>3, Zenon

\* A stufftext message that begins with n characters of text s.
StuffText(s, n) == <<11>> \o Text(s, n)

LEMMA StringRepair ==
  ASSUME NEW r, NEW s \in {CmdConfigstrings, CmdBaselines, Record, Precache}, NEW n \in Nat, n >= 3,
         r.pat = StuffText(s, n), r.do \in {"string", "argument"}, r.do = "argument" => n = 9
  PROVE  IsRepair(r)
<1> DEFINE t == <<11>> \o Text(s, n)
<1>1. /\ s \in Byte /\ s \in Nat /\ s > 16 /\ s # PrecacheAlone /\ Rest \in Byte
      /\ Rest \in Nat /\ Rest > 16 /\ Rest # PrecacheAlone /\ PrecacheAlone \in Nat /\ PrecacheAlone > 16
  BY SymbolIs DEF FoundSymbols
<1>2. IsCodeText(t, 11, s, n)
  <2>1. 11 \in Byte /\ n > 0
    BY BytesAre
  <2> QED
    BY <1>1, <2>1, CodeAndText
<1> HIDE DEF t
<1>3. /\ t \in Seq(Byte) /\ Len(t) = n + 1
      /\ \A k \in 1 .. n + 1 : t[k] = IF k = 1 THEN 11 ELSE IF k = 2 THEN s ELSE Rest
  BY <1>2, Zenon DEF IsCodeText
<1>4. Len(t) \in Nat /\ Len(t) >= 4
  BY <1>3
<1>5. \A k \in 1 .. Len(t) : t[k] # DM2_nop /\ t[k] # PrecacheAlone /\ t[k] # 0
  BY <1>1, <1>3 DEF DM2_nop
<1>6. t[1] = 11 /\ (n = 9 => Len(t) = 10 /\ \A k \in 3 .. 10 : t[k] = Rest)
  BY <1>3
<1>7. r.pat = t
  BY DEF t, StuffText
<1>8. r.do \in {"string", "argument"} /\ (r.do = "argument" => n = 9)
  OBVIOUS
<1> QED
  <2>1. ASSUME NEW do \in {"string", "argument"}, do = "argument" => n = 9 PROVE IsRepairOf(t, do)
    BY <1>3, <1>4, <1>5, <1>6, <2>1 DEF IsRepairOf
  <2> QED
    BY <1>7, <1>8, <2>1, Zenon DEF IsRepair

LEMMA RepairsAre == \A r \in Range(Repairs) : IsRepair(r)
<1>1. ASSUME NEW r, r = [pat |-> FM_reconnect, do |-> "whole"] PROVE IsRepair(r)
  <2>1. /\ Reconnect \in Byte /\ Reconnect \in Nat /\ Reconnect > 16 /\ Reconnect # PrecacheAlone /\ Rest \in Byte
        /\ Rest \in Nat /\ Rest > 16 /\ Rest # PrecacheAlone /\ PrecacheAlone \in Nat /\ PrecacheAlone > 16
    BY SymbolIs DEF FoundSymbols
  <2>2. IsCodeTextEnd(FM_reconnect, 11, Reconnect, 10)
    <3>1. 11 \in Byte /\ 10 \in Nat /\ 10 > 0
      BY BytesAre
    <3> QED
      BY <2>1, <3>1, CodeTextEnd, Zenon DEF FM_reconnect
  <2>3. /\ FM_reconnect \in Seq(Byte) /\ Len(FM_reconnect) = 12
        /\ \A k \in 1 .. 12 : FM_reconnect[k] = IF k = 1 THEN 11 ELSE IF k = 2 THEN Reconnect
                                                ELSE IF k = 12 THEN 0 ELSE Rest
    BY <2>2 DEF IsCodeTextEnd
  <2>4. \A k \in 1 .. 12 : /\ FM_reconnect[k] # DM2_nop /\ FM_reconnect[k] # PrecacheAlone
                           /\ FM_reconnect[k] = 0 => k = 12
    BY <2>1, <2>3 DEF DM2_nop
  <2>5. IsRepairOf(FM_reconnect, "whole")
    BY <2>3, <2>4 DEF IsRepairOf
  <2>6. r.pat = FM_reconnect /\ r.do = "whole"
    BY <1>1
  <2> QED
    BY <2>5, <2>6, Zenon DEF IsRepair
<1>2. ASSUME NEW r, r = [pat |-> FM_configstrings, do |-> "string"] PROVE IsRepair(r)
  <2>1. r.pat = StuffText(CmdConfigstrings, 18) /\ r.do = "string"
    BY <1>2 DEF FM_configstrings, StuffText
  <2>2. 18 \in Nat /\ 18 >= 3
    OBVIOUS
  <2> QED
    BY <2>1, <2>2, StringRepair
<1>3. ASSUME NEW r, r = [pat |-> FM_baselines, do |-> "string"] PROVE IsRepair(r)
  <2>1. r.pat = StuffText(CmdBaselines, 14) /\ r.do = "string"
    BY <1>3 DEF FM_baselines, StuffText
  <2>2. 14 \in Nat /\ 14 >= 3
    OBVIOUS
  <2> QED
    BY <2>1, <2>2, StringRepair
<1>4. ASSUME NEW r, r = [pat |-> FM_record, do |-> "string"] PROVE IsRepair(r)
  <2>1. r.pat = StuffText(Record, 7) /\ r.do = "string"
    BY <1>4 DEF FM_record, StuffText
  <2>2. 7 \in Nat /\ 7 >= 3
    OBVIOUS
  <2> QED
    BY <2>1, <2>2, StringRepair
<1>5. ASSUME NEW r, r = [pat |-> FM_download, do |-> "whole"] PROVE IsRepair(r)
  <2>1. PrecacheAlone \in Nat /\ PrecacheAlone > 16 /\ PrecacheAlone < 255
    BY SymbolIs DEF FoundSymbols
  <2>2. 16 \in Byte /\ 255 \in Byte /\ 0 \in Byte
    BY BytesAre
  <2>3. /\ FM_download \in Seq(Byte) /\ Len(FM_download) = 4 /\ FM_download[1] = 16
        /\ FM_download[2] = 255 /\ FM_download[3] = 255 /\ FM_download[4] = 0
    BY <2>2 DEF FM_download
  <2>4. \A k \in 1 .. 4 : /\ FM_download[k] # DM2_nop /\ FM_download[k] # PrecacheAlone
                          /\ FM_download[k] = 0 => k = 4
    BY <2>1, <2>3 DEF DM2_nop
  <2>5. IsRepairOf(FM_download, "whole")
    BY <2>3, <2>4 DEF IsRepairOf
  <2>6. r.pat = FM_download /\ r.do = "whole"
    BY <1>5
  <2> QED
    BY <2>5, <2>6, Zenon DEF IsRepair
<1>6. ASSUME NEW r, r = [pat |-> FM_precache, do |-> "argument"] PROVE IsRepair(r)
  <2>1. r.pat = StuffText(Precache, 9) /\ r.do = "argument"
    BY <1>6 DEF FM_precache, StuffText
  <2>2. 9 \in Nat /\ 9 >= 3
    OBVIOUS
  <2> QED
    BY <2>1, <2>2, StringRepair
<1>7. ASSUME NEW r, r = [pat |-> FM_reconnect_m, do |-> "last"] PROVE IsRepair(r)
  <2> DEFINE x == <<10, 2>>
             t == Text(Restarted, 17)
             y == <<0, 8>>
             s == x \o t
  <2>1. Restarted \in Byte /\ Rest \in Byte /\ 10 \in Byte /\ 2 \in Byte /\ 0 \in Byte /\ 8 \in Byte
    BY SymbolIs, BytesAre DEF FoundSymbols
  <2>2. x \in Seq(Byte) /\ Len(x) = 2 /\ y \in Seq(Byte) /\ Len(y) = 2 /\ y[2] = 8
    BY <2>1
  <2>3. t \in Seq(Byte) /\ Len(t) = 17
    <3> DEFINE n == 17
    <3>1. n \in Nat /\ n > 0
      OBVIOUS
    <3> HIDE DEF n
    <3>2. Text(Restarted, n) \in Seq(Byte) /\ Len(Text(Restarted, n)) = n
      BY <2>1, <3>1, TextIs
    <3> QED
      BY <3>2 DEF n
  <2>4. FM_reconnect_m = s \o y
    BY DEF FM_reconnect_m
  <2> HIDE DEF x, t, y
  <2>5. s \in Seq(Byte) /\ Len(s) = 19
    <3>1. x \o t \in Seq(Byte) /\ Len(x \o t) = Len(x) + Len(t)
      BY <2>2, <2>3, ConcatProperties
    <3> QED
      BY <2>2, <2>3, <3>1
  <2> HIDE DEF s
  <2>6. s \o y \in Seq(Byte) /\ Len(s \o y) = 21 /\ (s \o y)[21] = 8
    <3>1. /\ s \o y \in Seq(Byte) /\ Len(s \o y) = Len(s) + Len(y)
          /\ \A k \in 1 .. Len(s) + Len(y) : (s \o y)[k] = IF k <= Len(s) THEN s[k] ELSE y[k - Len(s)]
      BY <2>2, <2>5, ConcatProperties
    <3> QED
      BY <2>2, <2>5, <3>1
  <2>7. r.pat = s \o y /\ r.do = "last"
    BY <1>7, <2>4
  <2> DEFINE u == s \o y
  <2>8. u \in Seq(Byte) /\ Len(u) = 21 /\ u[21] = 8 /\ r.pat = u
    BY <2>6, <2>7
  <2> HIDE DEF u
  <2>9. IsRepairOf(u, "last")
    BY <2>8 DEF IsRepairOf
  <2> QED
    BY <2>7, <2>8, <2>9, Zenon DEF IsRepair
<1>8. ASSUME NEW r \in Range(Repairs)
      PROVE  \/ r = [pat |-> FM_reconnect, do |-> "whole"]
             \/ r = [pat |-> FM_configstrings, do |-> "string"]
             \/ r = [pat |-> FM_baselines, do |-> "string"]
             \/ r = [pat |-> FM_record, do |-> "string"]
             \/ r = [pat |-> FM_download, do |-> "whole"]
             \/ r = [pat |-> FM_precache, do |-> "argument"]
             \/ r = [pat |-> FM_reconnect_m, do |-> "last"]
  <2>1. PICK k \in DOMAIN Repairs : r = Repairs[k]
    BY Zenon DEF Range
  <2>2. k \in 1 .. 7
    BY DEF Repairs
  <2> QED
    BY <2>1, <2>2 DEF Repairs
<1> QED
  BY <1>1, <1>2, <1>3, <1>4, <1>5, <1>6, <1>7, <1>8, Zenon

LEMMA StringEndIs ==
  ASSUME NEW b \in Seq(Byte), NEW i \in Nat, NEW z \in i .. Len(b), b[z] = 0
  PROVE  StringEnd(b, i) \in Nat /\ i <= StringEnd(b, i) /\ StringEnd(b, i) <= Len(b)
<1> DEFINE Z == {y \in i .. Len(b) : b[y] = 0}
<1>1. Len(b) \in Nat
  BY LenProperties
<1>2. Z \in SUBSET Nat /\ Z # {}
  BY <1>1
<1>3. \A y : y \in Z <=> y \in i .. Len(b) /\ b[y] = 0
  OBVIOUS
<1> HIDE DEF Z
<1>4. PICK m \in Z : \A k \in 0 .. m - 1 : k \notin Z
  BY <1>2, LeastNumber
<1>5. m \in i .. Len(b) /\ b[m] = 0
  BY <1>3
<1>6. \A j \in i .. Len(b) : j < m => ~ (b[j] = 0)
  <2> SUFFICES ASSUME NEW j \in i .. Len(b), j < m, b[j] = 0 PROVE FALSE
    BY Zenon
  <2>1. j \in Z
    BY <1>3
  <2>2. j \in 0 .. m - 1
    BY <1>1, <1>5
  <2> QED
    BY <1>4, <2>1, <2>2
<1>7. \E x \in i .. Len(b) : b[x] = 0 /\ \A j \in i .. Len(b) : j < x => ~ (b[j] = 0)
  BY <1>5, <1>6
<1>8. StringEnd(b, i) \in i .. Len(b)
  BY <1>7, Zenon DEF StringEnd, Least
<1> QED
  BY <1>1, <1>8

\* Nothing new is found, and the end of each text that is still found is still there.
NothingNew(b, c) ==
  \A q \in Range(Repairs) : q.do # "last" => memmem(c, 5, q.pat) \subseteq memmem(b, 5, q.pat)
IsEndOf(b, j, z) ==
  /\ z \in Nat /\ j < z /\ z <= Len(b) /\ b[z] = 0
  /\ \A q \in Range(Repairs) : q.do # "last" => memmem(b, 5, q.pat) \cap (j + 1 .. z) = {}
EndsStay(b, c) ==
  \A q \in Range(Repairs) : q.do \in {"string", "argument"} =>
    \A j \in memmem(c, 5, q.pat) : \A z : IsEndOf(b, j, z) => c[z] = 0

LEMMA TextsStillEnd ==
  ASSUME NEW b \in Seq(Byte), NEW c \in Seq(Byte), Len(c) = Len(b), TextsEnd(b),
         NothingNew(b, c), EndsStay(b, c)
  PROVE  TextsEnd(c)
<1> SUFFICES ASSUME NEW r \in Range(Repairs), r.do \in {"string", "argument"}, NEW i \in memmem(c, 5, r.pat)
             PROVE  \E z \in i + (IF r.do = "argument" THEN Len(r.pat) + 1 ELSE 1) .. Len(c) :
                      /\ c[z] = 0
                      /\ \A q \in Range(Repairs) : q.do # "last" => memmem(c, 5, q.pat) \cap (i + 1 .. z) = {}
  BY Zenon DEF TextsEnd
<1>1. r.do # "last"
  OBVIOUS
<1>2. i \in memmem(b, 5, r.pat)
  BY <1>1, Zenon DEF NothingNew
<1> DEFINE d == IF r.do = "argument" THEN Len(r.pat) + 1 ELSE 1
<1>3. PICK z \in i + d .. Len(b) :
        /\ b[z] = 0
        /\ \A q \in Range(Repairs) : q.do # "last" => memmem(b, 5, q.pat) \cap (i + 1 .. z) = {}
  BY <1>2, Zenon DEF TextsEnd
<1>4. IsRepair(r)
  BY RepairsAre
<1>5. Len(r.pat) \in Nat
  BY <1>4, Zenon DEF IsRepair, IsRepairOf
<1>6. i \in Nat /\ Len(b) \in Nat
  <2>1. i \in 5 .. Len(b) - Len(r.pat) + 1
    BY <1>2 DEF memmem
  <2>2. Len(b) \in Nat
    BY LenProperties
  <2> QED
    BY <1>5, <2>1, <2>2
<1>7. d \in Nat /\ d >= 1
  BY <1>5
<1> HIDE DEF d
<1>8. IsEndOf(b, i, z)
  <2>1. z \in Nat /\ i < z /\ z <= Len(b)
    BY <1>3, <1>6, <1>7
  <2> QED
    BY <1>3, <2>1, Zenon DEF IsEndOf
<1>9. c[z] = 0
  BY <1>8, Zenon DEF EndsStay
<1>10. \A q \in Range(Repairs) : q.do # "last" => memmem(c, 5, q.pat) \cap (i + 1 .. z) = {}
  BY <1>3, Zenon DEF NothingNew
<1> QED
  BY <1>3, <1>9, <1>10, Zenon DEF d

\* A command that is found in c is in b as well, if c is b where the command is.
LEMMA FoundBefore ==
  ASSUME NEW b \in Seq(Byte), NEW c \in Seq(Byte), Len(c) = Len(b),
         NEW q, IsRepair(q), NEW j \in memmem(c, 5, q.pat)
  PROVE  /\ j \in Nat /\ 5 <= j /\ j + Len(q.pat) <= Len(b) + 1 /\ Len(q.pat) \in Nat
         /\ \A k \in 1 .. Len(q.pat) : c[j + (k - 1)] = q.pat[k]
         /\ (\A k \in j .. j + (Len(q.pat) - 1) : c[k] = b[k]) => j \in memmem(b, 5, q.pat)
<1>1. q.pat \in Seq(Byte) /\ Len(q.pat) \in Nat /\ Len(q.pat) > 0 /\ 5 \in Nat /\ 5 > 0
  <2>1. q.pat \in Seq(Byte) /\ Len(q.pat) \in Nat /\ Len(q.pat) >= 4
    BY Zenon DEF IsRepair, IsRepairOf
  <2> QED
    BY <2>1
<1>2. /\ j \in Nat /\ 5 <= j /\ j + Len(q.pat) <= Len(c) + 1
      /\ \A k \in 1 .. Len(q.pat) : c[j + (k - 1)] = q.pat[k]
  BY <1>1, FoundAre
<1>3. ASSUME \A k \in j .. j + (Len(q.pat) - 1) : c[k] = b[k] PROVE j \in memmem(b, 5, q.pat)
  <2>1. \A k \in 1 .. Len(q.pat) : j + (k - 1) \in j .. j + (Len(q.pat) - 1)
    BY <1>1, <1>2
  <2>2. \A k \in 1 .. Len(q.pat) : b[j + (k - 1)] = q.pat[k]
    BY <1>2, <1>3, <2>1
  <2> QED
    BY <1>1, <1>2, <2>2, FoundIf
<1> QED
  BY <1>1, <1>2, <1>3

LEMMA TextFound ==
  ASSUME NEW c \in Seq(Byte), NEW q \in Range(Repairs), q.do \in {"string", "argument"},
         NEW j \in memmem(c, 5, q.pat)
  PROVE  j \in Nat /\ 5 <= j /\ j + 4 <= Len(c) + 1 /\ c[j] = 11 /\ c[j + 1] # PrecacheAlone
<1>1. IsRepair(q)
  BY RepairsAre
<1> DEFINE n == Len(q.pat)
<1>2. /\ n \in Nat /\ q.pat[1] = 11 /\ n >= 4
      /\ \A k \in 1 .. n : q.pat[k] # PrecacheAlone
  BY <1>1 DEF IsRepair, IsRepairOf
<1>3. /\ j \in Nat /\ 5 <= j /\ j + n <= Len(c) + 1
      /\ \A k \in 1 .. n : c[j + (k - 1)] = q.pat[k]
  <2>1. q.pat \in Seq(Byte)
    BY <1>1, Zenon DEF IsRepair, IsRepairOf
  <2>2. 5 \in Nat /\ 5 > 0 /\ n > 0
    BY <1>2
  <2> QED
    BY <1>2, <2>1, <2>2, FoundAre
<1> HIDE DEF n
<1>4. 1 \in 1 .. n /\ 2 \in 1 .. n /\ j + (1 - 1) = j /\ j + (2 - 1) = j + 1
  BY <1>2, <1>3
<1>5. c[j] = q.pat[1] /\ c[j + 1] = q.pat[2] /\ q.pat[2] # PrecacheAlone
  <2>1. c[j + (1 - 1)] = q.pat[1] /\ c[j + (2 - 1)] = q.pat[2]
    BY <1>3, <1>4, Zenon
  <2> QED
    BY <1>2, <1>4, <2>1
<1>6. j + 4 <= Len(c) + 1
  <2>1. Len(c) \in Nat
    BY LenProperties
  <2> QED
    BY <1>2, <1>3, <2>1
<1> QED
  BY <1>2, <1>3, <1>5, <1>6

\* A command and its text become nops, or something that is no end.
LEMMA NopsKeepTexts ==
  ASSUME NEW b \in Seq(Byte), TextsEnd(b), NEW i \in Nat, NEW e \in Nat,
         \/ \E r \in Range(Repairs) : r.do # "last" /\ i \in memmem(b, 5, r.pat)
         \/ \A k \in i .. e : b[k] # 0
  PROVE  TextsEnd(Nops(b, i, e, DM2_nop))
<1> DEFINE c == Nops(b, i, e, DM2_nop)
<1>1. /\ c \in Seq(Byte) /\ Len(c) = Len(b)
      /\ \A k \in 1 .. Len(b) : c[k] = IF k \in i .. e THEN DM2_nop ELSE b[k]
  <2>1. DM2_nop \in Byte
    BY BytesAre DEF DM2_nop
  <2> QED
    BY <2>1, NopsAre
<1> HIDE DEF c
<1>2. Len(b) \in Nat
  BY LenProperties
<1>3. NothingNew(b, c)
  <2> SUFFICES ASSUME NEW q \in Range(Repairs), q.do # "last", NEW j \in memmem(c, 5, q.pat)
               PROVE  j \in memmem(b, 5, q.pat)
    BY Zenon DEF NothingNew
  <2>1. IsRepair(q)
    BY RepairsAre
  <2> DEFINE n == Len(q.pat)
  <2>2. /\ j \in Nat /\ 5 <= j /\ j + n <= Len(b) + 1 /\ n \in Nat
        /\ \A k \in 1 .. n : c[j + (k - 1)] = q.pat[k]
        /\ (\A k \in j .. j + (n - 1) : c[k] = b[k]) => j \in memmem(b, 5, q.pat)
    BY <1>1, <2>1, FoundBefore
  <2>3. \A k \in 1 .. n : q.pat[k] # DM2_nop
    BY <2>1, Zenon DEF IsRepair, IsRepairOf
  <2> HIDE DEF n
  <2>4. ASSUME NEW k \in j .. j + (n - 1) PROVE c[k] = b[k]
    <3> DEFINE l == k - j + 1
    <3>1. l \in 1 .. n /\ j + (l - 1) = k /\ k \in 1 .. Len(b)
      <4>1. j \in Nat /\ 5 <= j /\ j + n <= Len(b) + 1 /\ n \in Nat
        BY <2>2
      <4> QED
        BY <1>2, <4>1
    <3> HIDE DEF l
    <3>2. c[k] # DM2_nop
      BY <2>2, <2>3, <3>1
    <3> QED
      BY <1>1, <3>1, <3>2, Zenon
  <2> QED
    BY <2>2, <2>4, Zenon
<1>4. EndsStay(b, c)
  <2> SUFFICES ASSUME NEW q \in Range(Repairs), q.do \in {"string", "argument"},
                      NEW j \in memmem(c, 5, q.pat), NEW z, IsEndOf(b, j, z), c[z] # 0
               PROVE  FALSE
    BY Zenon DEF EndsStay
  <2>3. j \in Nat /\ 5 <= j /\ j + 4 <= Len(b) + 1 /\ c[j] = 11
    BY <1>1, TextFound
  <2>4. z \in Nat /\ j < z /\ z <= Len(b) /\ b[z] = 0
    BY Zenon DEF IsEndOf
  <2>5. z \in i .. e
    BY <1>1, <1>2, <2>3, <2>4
  <2>6. PICK r \in Range(Repairs) : r.do # "last" /\ i \in memmem(b, 5, r.pat)
    BY <2>4, <2>5, Zenon
  <2>7. i \notin j + 1 .. z
    BY <2>6, Zenon DEF IsEndOf
  <2>8. j \in i .. e /\ j \in 1 .. Len(b)
    BY <1>2, <2>3, <2>4, <2>5, <2>7
  <2>9. c[j] = DM2_nop
    BY <1>1, <2>8, Zenon
  <2> QED
    BY <2>3, <2>9 DEF DM2_nop
<1> QED
  BY <1>1, <1>3, <1>4, TextsStillEnd DEF c

\* Of "precache " the first character and the one behind it, and the argument's text.
Alone(b, i, e) ==
  [Nops(b, i + 11, e, DM2_nop) EXCEPT ![i + 1] = PrecacheAlone, ![i + 10] = 0]

LEMMA AloneIs ==
  ASSUME NEW b \in Seq(Byte), NEW i \in Nat, i > 0, NEW e \in Nat, i + 10 <= Len(b)
  PROVE  /\ Alone(b, i, e) \in Seq(Byte) /\ Len(Alone(b, i, e)) = Len(b)
         /\ \A k \in 1 .. Len(b) :
              Alone(b, i, e)[k] = IF k = i + 10 THEN 0 ELSE IF k = i + 1 THEN PrecacheAlone
                                  ELSE IF k \in i + 11 .. e THEN DM2_nop ELSE b[k]
<1> DEFINE f == Nops(b, i + 11, e, DM2_nop)
           g == [f EXCEPT ![i + 1] = PrecacheAlone]
           c == [g EXCEPT ![i + 10] = 0]
<1>1. /\ f \in Seq(Byte) /\ Len(f) = Len(b)
      /\ \A k \in 1 .. Len(b) : f[k] = IF k \in i + 11 .. e THEN DM2_nop ELSE b[k]
  <2>1. DM2_nop \in Byte
    BY BytesAre DEF DM2_nop
  <2> QED
    BY <2>1, NopsAre
<1>2. i + 1 \in 1 .. Len(b) /\ i + 10 \in 1 .. Len(b) /\ i + 1 # i + 10 /\ Len(b) \in Nat
  BY LenProperties
<1>3. PrecacheAlone \in Byte /\ 0 \in Byte
  <2>1. PrecacheAlone \in Byte
    BY SymbolsAreBytes, Zenon DEF TextSymbols
  <2>2. 0 \in Nat /\ 0 <= 255
    OBVIOUS
  <2> QED
    BY <2>1, <2>2, BytesAre, Zenon
<1>4. Alone(b, i, e) = c
  BY Zenon DEF Alone
<1> HIDE DEF f
<1>5. g \in Seq(Byte) /\ Len(g) = Len(b) /\ \A k \in 1 .. Len(b) : k # i + 1 => g[k] = f[k]
  BY <1>1, <1>2, <1>3, PutAt
<1>6. g[i + 1] = PrecacheAlone
  BY <1>1, <1>2
<1> HIDE DEF g
<1>7. c \in Seq(Byte) /\ Len(c) = Len(b) /\ \A k \in 1 .. Len(b) : k # i + 10 => c[k] = g[k]
  BY <1>2, <1>3, <1>5, PutAt
<1>8. c[i + 10] = 0
  BY <1>2, <1>5
<1> HIDE DEF c
<1>9. \A k \in 1 .. Len(b) :
        c[k] = IF k = i + 10 THEN 0 ELSE IF k = i + 1 THEN PrecacheAlone
               ELSE IF k \in i + 11 .. e THEN DM2_nop ELSE b[k]
  BY <1>1, <1>5, <1>6, <1>7, <1>8, Zenon
<1> QED
  BY <1>4, <1>7, <1>9, Zenon

LEMMA AloneKeepsTexts ==
  ASSUME NEW b \in Seq(Byte), TextsEnd(b), NEW r \in Range(Repairs), r.do = "argument",
         NEW i \in memmem(b, 5, r.pat), NEW e \in Nat
  PROVE  TextsEnd(Alone(b, i, e))
<1> DEFINE c == Alone(b, i, e)
<1>1. IsRepair(r)
  BY RepairsAre
<1>2. /\ r.pat \in Seq(Byte) /\ Len(r.pat) = 10 /\ \A k \in 3 .. 10 : r.pat[k] = Rest
      /\ \A k \in 1 .. 10 : r.pat[k] # 0
  BY <1>1 DEF IsRepair, IsRepairOf
<1>3. /\ i \in Nat /\ 5 <= i /\ i + 10 <= Len(b) + 1
      /\ \A k \in 1 .. 10 : b[i + (k - 1)] = r.pat[k]
  <2>1. 5 \in Nat /\ 5 > 0 /\ Len(r.pat) \in Nat /\ Len(r.pat) > 0 /\ r.pat \in Seq(Byte)
    BY <1>2
  <2>2. /\ i \in Nat /\ 5 <= i /\ i + Len(r.pat) <= Len(b) + 1
        /\ \A k \in 1 .. Len(r.pat) : b[i + (k - 1)] = r.pat[k]
    BY <2>1, FoundAre
  <2> QED
    BY <1>2, <2>2
<1>11. i \in Nat /\ 5 <= i
  BY <1>3
<1>4. i + 10 <= Len(b) /\ Len(b) \in Nat
  <2>1. PICK z \in i + (IF r.do = "argument" THEN Len(r.pat) + 1 ELSE 1) .. Len(b) : b[z] = 0
    BY Zenon DEF TextsEnd
  <2>2. z \in i + 11 .. Len(b) /\ Len(b) \in Nat
    BY <1>2, <2>1, LenProperties
  <2> QED
    BY <1>11, <2>2
<1>5. \A k \in i + 2 .. i + 9 : b[k] = Rest
  <2> SUFFICES ASSUME NEW k \in i + 2 .. i + 9 PROVE b[k] = Rest
    OBVIOUS
  <2> DEFINE l == (k - i) + 1
  <2>1. l \in 3 .. 10 /\ l \in 1 .. 10 /\ i + (l - 1) = k
    BY <1>11
  <2> HIDE DEF l
  <2>2. b[i + (l - 1)] = r.pat[l] /\ r.pat[l] = Rest
    BY <1>2, <1>3, <2>1, Zenon
  <2> QED
    BY <2>1, <2>2
<1>6. b[i + 1] # 0
  <2>1. 2 \in 1 .. 10 /\ i + (2 - 1) = i + 1
    BY <1>3
  <2>2. b[i + (2 - 1)] = r.pat[2] /\ r.pat[2] # 0
    BY <1>2, <1>3, <2>1, Zenon
  <2> QED
    BY <2>1, <2>2
<1>7. /\ c \in Seq(Byte) /\ Len(c) = Len(b)
      /\ \A k \in 1 .. Len(b) :
           c[k] = IF k = i + 10 THEN 0 ELSE IF k = i + 1 THEN PrecacheAlone
                  ELSE IF k \in i + 11 .. e THEN DM2_nop ELSE b[k]
  <2>1. i > 0
    BY <1>11
  <2> HIDE DEF c
  <2>2. /\ Alone(b, i, e) \in Seq(Byte) /\ Len(Alone(b, i, e)) = Len(b)
        /\ \A k \in 1 .. Len(b) :
              Alone(b, i, e)[k] = IF k = i + 10 THEN 0 ELSE IF k = i + 1 THEN PrecacheAlone
                                  ELSE IF k \in i + 11 .. e THEN DM2_nop ELSE b[k]
    BY <1>11, <1>4, <2>1, AloneIs
  <2> QED
    BY <2>2, Zenon DEF c
<1>8. Rest > 16 /\ PrecacheAlone > 16 /\ Rest \in Nat /\ PrecacheAlone \in Nat
  BY SymbolIs DEF FoundSymbols
<1> HIDE DEF c
<1>9. NothingNew(b, c)
  <2> SUFFICES ASSUME NEW q \in Range(Repairs), q.do # "last", NEW j \in memmem(c, 5, q.pat)
               PROVE  j \in memmem(b, 5, q.pat)
    BY Zenon DEF NothingNew
  <2>1. IsRepair(q)
    BY RepairsAre
  <2> DEFINE n == Len(q.pat)
             pat == q.pat
  <2>2. /\ j \in Nat /\ 5 <= j /\ j + n <= Len(b) + 1 /\ n \in Nat
        /\ \A k \in 1 .. n : c[j + (k - 1)] = pat[k]
        /\ (\A k \in j .. j + (n - 1) : c[k] = b[k]) => j \in memmem(b, 5, q.pat)
    BY <1>7, <2>1, FoundBefore
  <2>3. /\ \A k \in 1 .. n : pat[k] # DM2_nop /\ pat[k] # PrecacheAlone
        /\ q.do \in {"string", "argument"} => \A k \in 1 .. n : pat[k] # 0
        /\ q.do = "whole" => /\ n = 12 \/ (n = 4 /\ pat[1] = 16)
                             /\ \A k \in 1 .. n : pat[k] = 0 => k = n
        /\ q.do \in {"whole", "string", "argument"}
    BY <2>1 DEF IsRepair, IsRepairOf
  <2> HIDE DEF n, pat
  <2>4. j \in Nat /\ 5 <= j /\ j + n <= Len(b) + 1 /\ n \in Nat
    BY <2>2
  <2>5. ASSUME NEW k \in j .. j + (n - 1)
        PROVE  /\ k \in 1 .. Len(b) /\ (k - j) + 1 \in 1 .. n /\ c[k] = pat[(k - j) + 1]
    <3> DEFINE l == (k - j) + 1
    <3>1. l \in 1 .. n /\ j + (l - 1) = k /\ k \in 1 .. Len(b)
      BY <1>4, <2>4
    <3> HIDE DEF l
    <3>2. c[k] = pat[l]
      BY <2>2, <3>1
    <3> QED
      BY <3>1, <3>2 DEF l
  <2>6. \A k \in j .. j + (n - 1) : k # i + 1 /\ k \notin i + 11 .. e
    <3> SUFFICES ASSUME NEW k \in j .. j + (n - 1) PROVE k # i + 1 /\ k \notin i + 11 .. e
      BY Zenon
    <3>1. c[k] # DM2_nop /\ c[k] # PrecacheAlone
      BY <2>3, <2>5
    <3>2. i + 1 # i + 10 /\ (k \in i + 11 .. e => k # i + 10 /\ k # i + 1)
      BY <1>3
    <3> QED
      BY <1>7, <2>5, <3>1, <3>2, Zenon
  <2>7. \A k \in j .. j + (n - 1) : k # i + 10
    <3> SUFFICES ASSUME i + 10 \in j .. j + (n - 1) PROVE FALSE
      BY Zenon
    <3> DEFINE l == ((i + 10) - j) + 1
    <3>1. l \in 1 .. n /\ c[i + 10] = pat[l]
      BY <2>5
    <3>2. pat[l] = 0
      <4>1. i + 10 \in 1 .. Len(b)
        BY <1>3, <1>4
      <4> QED
        BY <1>7, <3>1, <4>1, Zenon
    <3> HIDE DEF l
    <3>3. q.do = "whole" /\ l = n /\ (n = 12 \/ (n = 4 /\ pat[1] = 16))
      BY <2>3, <3>1, <3>2, Zenon
    <3>4. (i + 10) - j = n - 1
      <4>1. ((i + 10) - j) + 1 = n
        BY <3>3, Zenon DEF l
      <4>2. i \in Nat /\ j \in Nat /\ n \in Nat
        BY <1>3, <2>4, Zenon
      <4> QED
        BY <4>1, <4>2
    <3>5. CASE n = 12
      <4>1. i + 1 \in j .. j + (n - 1)
        BY <1>3, <2>4, <3>4, <3>5
      <4> QED
        BY <2>6, <4>1
    <3>6. CASE n = 4 /\ pat[1] = 16
      <4>1. j = i + 7 /\ j \in j .. j + (n - 1) /\ (j - j) + 1 = 1
        BY <1>3, <2>4, <3>4, <3>6
      <4>2. c[j] = 16 /\ j \in 1 .. Len(b)
        BY <2>5, <3>6, <4>1
      <4>3. b[j] = Rest
        <5>1. j \in i + 2 .. i + 9
          BY <1>3, <4>1
        <5> QED
          BY <1>5, <5>1
      <4>4. j # i + 10 /\ j # i + 1 /\ j \notin i + 11 .. e
        BY <1>3, <4>1
      <4>5. c[j] = b[j]
        BY <1>7, <4>2, <4>4, Zenon
      <4> QED
        BY <1>8, <4>2, <4>3, <4>5
    <3> QED
      BY <3>3, <3>5, <3>6
  <2>8. \A k \in j .. j + (n - 1) : c[k] = b[k]
    BY <1>7, <2>5, <2>6, <2>7, Zenon
  <2> QED
    BY <2>2, <2>8
<1>10. EndsStay(b, c)
  <2> SUFFICES ASSUME NEW q \in Range(Repairs), q.do \in {"string", "argument"},
                      NEW j \in memmem(c, 5, q.pat), NEW z, IsEndOf(b, j, z), c[z] # 0
               PROVE  FALSE
    BY Zenon DEF EndsStay
  <2>1. j \in Nat /\ 5 <= j /\ j + 4 <= Len(b) + 1 /\ c[j] = 11 /\ c[j + 1] # PrecacheAlone
    BY <1>7, TextFound
  <2>2. z \in Nat /\ j < z /\ z <= Len(b) /\ b[z] = 0
    BY Zenon DEF IsEndOf
  <2>3. z \in 1 .. Len(b) /\ j \in 1 .. Len(b)
    BY <1>4, <2>1, <2>2
  <2>4. z \in i + 11 .. e
    <3>1. z # i + 1
      BY <1>6, <2>2
    <3> QED
      BY <1>7, <2>2, <2>3, <3>1, Zenon
  <2>5. i \notin j + 1 .. z
    <3>1. r.do # "last"
      OBVIOUS
    <3> QED
      BY <3>1, Zenon DEF IsEndOf
  <2>6. j \in Nat /\ i <= j /\ j <= e
    BY <1>3, <2>1, <2>2, <2>4, <2>5
  <2>7. j # i
    <3>1. i + 1 \in 1 .. Len(b) /\ i + 1 # i + 10
      BY <1>3, <1>4
    <3>2. c[i + 1] = PrecacheAlone
      BY <1>7, <3>1, Zenon
    <3> QED
      BY <2>1, <3>2
  <2>8. j # i + 1
    <3>1. i + 1 # i + 10
      BY <1>3
    <3>2. j = i + 1 => c[j] = PrecacheAlone
      BY <1>7, <2>3, <3>1, Zenon
    <3> QED
      BY <1>8, <2>1, <3>2
  <2>9. j # i + 10
    <3>1. j = i + 10 => c[j] = 0
      BY <1>7, <2>3, Zenon
    <3> QED
      BY <2>1, <3>1
  <2>10. j \notin i + 2 .. i + 9
    <3> SUFFICES ASSUME j \in i + 2 .. i + 9 PROVE FALSE
      OBVIOUS
    <3>1. j # i + 10 /\ j # i + 1 /\ j \notin i + 11 .. e
      BY <1>3
    <3>2. c[j] = b[j]
      BY <1>7, <2>3, <3>1, Zenon
    <3> QED
      BY <1>5, <1>8, <2>1, <3>2
  <2>11. j \in i + 11 .. e /\ j # i + 1 /\ j # i + 10
    BY <1>3, <2>6, <2>7, <2>8, <2>9, <2>10
  <2>12. c[j] = DM2_nop
    BY <1>7, <2>3, <2>11, Zenon
  <2> QED
    BY <2>1, <2>12 DEF DM2_nop
<1> QED
  BY <1>7, <1>9, <1>10, TextsStillEnd DEF c

\* A block is as long as it was, with its size, and its texts have their ends.
RepairedOf(b, c) ==
  /\ c \in Seq(Byte) /\ Len(c) = Len(b)
  /\ \A k \in 1 .. 4 : c[k] = b[k]
  /\ TextsEnd(c)

LEMMA NopsRepaired ==
  ASSUME NEW b \in Seq(Byte), TextsEnd(b), NEW i \in Nat, i >= 5, NEW e \in Nat, Len(b) >= 4,
         \/ \E r \in Range(Repairs) : r.do # "last" /\ i \in memmem(b, 5, r.pat)
         \/ \A k \in i .. e : b[k] # 0
  PROVE  RepairedOf(b, Nops(b, i, e, DM2_nop))
<1> DEFINE c == Nops(b, i, e, DM2_nop)
<1>1. TextsEnd(c)
  BY NopsKeepTexts
<1>2. /\ c \in Seq(Byte) /\ Len(c) = Len(b)
      /\ \A k \in 1 .. Len(b) : c[k] = IF k \in i .. e THEN DM2_nop ELSE b[k]
  <2>1. DM2_nop \in Byte
    BY BytesAre DEF DM2_nop
  <2> QED
    BY <2>1, NopsAre
<1> HIDE DEF c
<1>3. \A k \in 1 .. 4 : c[k] = b[k]
  <2>1. \A k \in 1 .. 4 : k \in 1 .. Len(b) /\ k \notin i .. e
    BY LenProperties
  <2> QED
    BY <1>2, <2>1
<1> QED
  BY <1>1, <1>2, <1>3, Zenon DEF RepairedOf, c

LEMMA RepairedIs ==
  ASSUME NEW b \in Seq(Byte), TextsEnd(b), Len(b) >= 4, NEW r \in Range(Repairs),
         NEW i \in memmem(b, 5, r.pat)
  PROVE  /\ RepairedOf(b, Repaired(b, i, r).b)
         /\ Repaired(b, i, r).l \in Nat /\ i + Repaired(b, i, r).l <= Len(b) + 1
<1> DEFINE n == Len(r.pat)
           g == Repaired(b, i, r)
<1>1. IsRepair(r)
  BY RepairsAre
<1>2. /\ n \in Nat /\ n >= 4 /\ r.pat \in Seq(Byte) /\ r.do \in {"whole", "string", "argument", "last"}
  BY <1>1, Zenon DEF IsRepair, IsRepairOf
<1>3. i \in Nat /\ 5 <= i /\ i + n <= Len(b) + 1 /\ \A k \in 1 .. n : b[i + (k - 1)] = r.pat[k]
  <2>1. 5 \in Nat /\ 5 > 0 /\ n > 0
    BY <1>2
  <2> QED
    BY <1>2, <2>1, FoundAre
<1>4. i \in Nat /\ i >= 5 /\ i + n <= Len(b) + 1 /\ Len(b) \in Nat /\ Len(b) >= 4
  BY <1>3, LenProperties
<1>5. r.do # "last" => \E q \in Range(Repairs) : q.do # "last" /\ i \in memmem(b, 5, q.pat)
  BY Zenon
<1>6. CASE r.do = "whole"
  <2> DEFINE e == i + n - 1
  <2>1. g = [b |-> Nops(b, i, e, DM2_nop), l |-> n]
    BY <1>6 DEF Repaired
  <2>2. e \in Nat /\ r.do # "last"
    BY <1>2, <1>4, <1>6
  <2>3. g.b = Nops(b, i, e, DM2_nop) /\ g.l = n
    BY <2>1
  <2> HIDE DEF e, g, n
  <2>4. RepairedOf(b, Nops(b, i, e, DM2_nop))
    BY <1>4, <1>5, <2>2, NopsRepaired
  <2> QED
    BY <1>2, <1>4, <2>3, <2>4 DEF g
<1>7. CASE r.do = "string"
  <2> DEFINE e == StringEnd(b, i)
  <2>1. g = [b |-> Nops(b, i, e, DM2_nop), l |-> e - i + 1]
    BY <1>7 DEF Repaired
  <2>2. e \in Nat /\ i <= e /\ e <= Len(b)
    <3>1. PICK z \in i + (IF r.do = "argument" THEN Len(r.pat) + 1 ELSE 1) .. Len(b) : b[z] = 0
      BY <1>7, Zenon DEF TextsEnd
    <3>2. z \in i + 1 .. Len(b)
      BY <1>7, <3>1
    <3>3. z \in i .. Len(b)
      BY <1>4, <3>2
    <3> QED
      BY <1>4, <3>1, <3>3, StringEndIs
  <2>3. g.b = Nops(b, i, e, DM2_nop) /\ g.l = e - i + 1 /\ r.do # "last"
    BY <1>7, <2>1
  <2> HIDE DEF e, g, n
  <2>4. RepairedOf(b, Nops(b, i, e, DM2_nop))
    BY <1>4, <1>5, <2>2, <2>3, NopsRepaired
  <2>5. e - i + 1 \in Nat /\ i + (e - i + 1) <= Len(b) + 1
    BY <1>4, <2>2
  <2> QED
    BY <2>3, <2>4, <2>5 DEF g
<1>8. CASE r.do = "argument"
  <2> DEFINE e == StringEnd(b, i + n + 1)
  <2>1. g = [b |-> [Nops(b, i + n + 1, e, DM2_nop) EXCEPT ![i + 1] = PrecacheAlone, ![i + n] = 0],
             l |-> e - (i + n + 1) + 1]
    BY <1>8 DEF Repaired
  <2>2. n = 10
    BY <1>1, <1>8 DEF IsRepair, IsRepairOf
  <2>3. e \in Nat /\ i + 11 <= e /\ e <= Len(b)
    <3>1. PICK z \in i + (IF r.do = "argument" THEN Len(r.pat) + 1 ELSE 1) .. Len(b) : b[z] = 0
      BY <1>8, Zenon DEF TextsEnd
    <3>2. z \in i + 11 .. Len(b) /\ i + n + 1 = i + 11
      BY <1>4, <1>8, <2>2, <3>1
    <3> DEFINE j == i + 11
    <3>3. j \in Nat /\ z \in j .. Len(b) /\ e = StringEnd(b, j)
      BY <1>4, <3>2
    <3> HIDE DEF j, e
    <3>4. e \in Nat /\ j <= e /\ e <= Len(b)
      BY <3>1, <3>3, StringEndIs
    <3> QED
      BY <3>4 DEF j
  <2> HIDE DEF e, g, n
  <2>4. g.b = Alone(b, i, e) /\ g.l = e - (i + 11) + 1
    <3>1. i + n + 1 = i + 11 /\ i + n = i + 10
      BY <1>4, <2>2
    <3>2. g = [b |-> [Nops(b, i + 11, e, DM2_nop) EXCEPT ![i + 1] = PrecacheAlone, ![i + 10] = 0],
               l |-> e - (i + 11) + 1]
      BY <2>1, <3>1
    <3> QED
      BY <3>2 DEF Alone
  <2>5. /\ Alone(b, i, e) \in Seq(Byte) /\ Len(Alone(b, i, e)) = Len(b)
        /\ \A k \in 1 .. Len(b) :
              Alone(b, i, e)[k] = IF k = i + 10 THEN 0 ELSE IF k = i + 1 THEN PrecacheAlone
                                  ELSE IF k \in i + 11 .. e THEN DM2_nop ELSE b[k]
    <3>1. i > 0 /\ i + 10 <= Len(b)
      BY <1>4, <2>3
    <3> QED
      BY <1>4, <2>3, <3>1, AloneIs
  <2>6. TextsEnd(Alone(b, i, e))
    BY <1>8, <2>3, AloneKeepsTexts
  <2>7. \A k \in 1 .. 4 : Alone(b, i, e)[k] = b[k]
    <3>1. \A k \in 1 .. 4 : k \in 1 .. Len(b) /\ k # i + 10 /\ k # i + 1 /\ k \notin i + 11 .. e
      BY <1>4
    <3> QED
      BY <2>5, <3>1, Zenon
  <2>8. e - (i + 11) + 1 \in Nat /\ i + (e - (i + 11) + 1) <= Len(b) + 1
    BY <1>4, <2>3
  <2>9. RepairedOf(b, Alone(b, i, e))
    BY <2>5, <2>6, <2>7, Zenon DEF RepairedOf
  <2> QED
    BY <2>4, <2>8, <2>9 DEF g
<1>9. CASE r.do = "last"
  <2> DEFINE e == i + n - 1
  <2>1. g = [b |-> Nops(b, e, e, DM2_nop), l |-> n]
    BY <1>9 DEF Repaired
  <2>2. e \in Nat /\ e >= 5 /\ n \in 1 .. n /\ e = i + (n - 1)
    BY <1>2, <1>4
  <2>3. b[e] # 0
    <3>1. r.pat[n] = 8
      BY <1>1, <1>9 DEF IsRepair, IsRepairOf
    <3>2. b[i + (n - 1)] = r.pat[n]
      BY <1>3, <2>2, Zenon
    <3> QED
      BY <2>2, <3>1, <3>2
  <2>4. g.b = Nops(b, e, e, DM2_nop) /\ g.l = n
    BY <2>1
  <2> HIDE DEF e, g, n
  <2>5. \A k \in e .. e : b[k] # 0
    <3>1. \A k \in e .. e : k = e
      BY <2>2
    <3> QED
      BY <2>3, <3>1
  <2>6. RepairedOf(b, Nops(b, e, e, DM2_nop))
    BY <1>4, <2>2, <2>5, NopsRepaired
  <2> QED
    BY <1>2, <1>4, <2>4, <2>6 DEF g
<1> QED
  BY <1>2, <1>6, <1>7, <1>8, <1>9

-----------------------------------------------------------------------------
(* Once through the commands. *)

\* What is between two commands: buf is the block, base where the search goes on.
Searching(buf, from, s) ==
  /\ s.changed \in BOOLEAN
  /\ s.base \in Nat /\ s.base >= from /\ s.base <= Len(buf) + 1
  /\ RepairedOf(buf, s.b)

LEMMA RepairNextIs ==
  ASSUME NEW buf \in Seq(Byte), Len(buf) >= 4, NEW from \in Nat, from >= 5, NEW s,
         Searching(buf, from, s), NEW r \in Range(Repairs)
  PROVE  Searching(buf, from, RepairNext(s, r))
<1> DEFINE found == memmem(s.b, s.base, r.pat)
           i == Min(found)
           g == Repaired(s.b, i, r)
<1>1. /\ s.base \in Nat /\ s.base >= from /\ s.base <= Len(buf) + 1
      /\ s.b \in Seq(Byte) /\ Len(s.b) = Len(buf) /\ TextsEnd(s.b)
      /\ \A k \in 1 .. 4 : s.b[k] = buf[k]
  BY Zenon DEF Searching, RepairedOf
<1>2. Len(buf) \in Nat
  BY LenProperties
<1>3. CASE found = {}
  BY <1>3, Zenon DEF RepairNext, RepairFirst
<1>4. CASE found # {}
  <2>1. RepairNext(s, r) = [b |-> g.b, base |-> s.base + g.l, changed |-> TRUE]
    BY <1>4, Zenon DEF RepairNext, RepairFirst, Repairing
  <2>2. IsRepair(r)
    BY RepairsAre
  <2>3. Len(r.pat) \in Nat /\ r.pat \in Seq(Byte) /\ Len(r.pat) >= 4
    BY <2>2, Zenon DEF IsRepair, IsRepairOf
  <2>4. i \in found
    BY <1>1, <1>2, <1>4, <2>3, FirstIsFound
  <2>5. i \in Nat /\ s.base <= i
    <3>1. s.base > 0 /\ Len(r.pat) > 0
      BY <1>1, <2>3
    <3> QED
      BY <1>1, <2>3, <2>4, <3>1, FoundAre
  <2>6. i \in memmem(s.b, 5, r.pat)
    <3>1. i \in s.base .. Len(s.b) - Len(r.pat) + 1 /\ SubSeq(s.b, i, i + Len(r.pat) - 1) = r.pat
      BY <2>4 DEF memmem
    <3>2. i \in 5 .. Len(s.b) - Len(r.pat) + 1
      <4> DEFINE top == Len(s.b) - Len(r.pat) + 1
      <4>1. top \in Int
        BY <1>1, <1>2, <2>3
      <4>2. i \in s.base .. top
        BY <3>1, Zenon
      <4> HIDE DEF top, i
      <4>3. s.base \in Nat /\ s.base >= 5
        BY <1>1
      <4>4. i \in 5 .. top
        BY <4>1, <4>2, <4>3
      <4> QED
        BY <4>4 DEF top
    <3> QED
      BY <3>1, <3>2, Zenon DEF memmem
  <2> HIDE DEF i, found
  <2>7. /\ RepairedOf(s.b, g.b) /\ g.l \in Nat /\ i + g.l <= Len(s.b) + 1
    <3>1. Len(s.b) >= 4
      BY <1>1
    <3> QED
      BY <1>1, <2>6, <3>1, RepairedIs
  <2> HIDE DEF g
  <2>8. RepairedOf(buf, g.b)
    BY <1>1, <2>7, Zenon DEF RepairedOf
  <2>9. /\ s.base + g.l \in Nat /\ s.base + g.l >= from /\ s.base + g.l <= Len(buf) + 1
    <3> DEFINE l == g.l
               base == s.base
    <3>1. l \in Nat /\ i + l <= Len(buf) + 1
      BY <1>1, <2>7, Zenon
    <3>2. base \in Nat /\ base >= from /\ base <= i
      BY <1>1, <2>5, Zenon
    <3> HIDE DEF l, base
    <3>3. base + l \in Nat /\ base + l >= from /\ base + l <= Len(buf) + 1
      BY <1>2, <2>5, <3>1, <3>2
    <3> QED
      BY <3>3 DEF l, base
  <2> DEFINE t == [b |-> g.b, base |-> s.base + g.l, changed |-> TRUE]
  <2>10. t.b = g.b /\ t.base = s.base + g.l /\ t.changed \in BOOLEAN
    OBVIOUS
  <2> HIDE DEF t
  <2>11. Searching(buf, from, t)
    BY <2>8, <2>9, <2>10, Zenon DEF Searching
  <2> QED
    BY <2>1, <2>11 DEF t
<1> QED
  BY <1>3, <1>4

IsAfterRepairs(after, s, n) ==
  after = [k \in 0 .. n |-> IF k = 0 THEN s ELSE RepairNext(after[k - 1], Repairs[k])]

LEMMA AfterRepairsExists ==
  ASSUME NEW n \in Nat, NEW s PROVE \E f : IsAfterRepairs(f, s, n)
<1> DEFINE Without == {m \in 0 .. n : ~ \E f : IsAfterRepairs(f, s, m)}
<1> SUFFICES ASSUME n \in Without PROVE FALSE
  OBVIOUS
<1>1. PICK m \in Without : \A k \in 0 .. m - 1 : k \notin Without
  <2>1. Without \in SUBSET Nat
    OBVIOUS
  <2> HIDE DEF Without
  <2> QED
    BY <2>1, LeastNumber
<1>2. CASE m = 0
  <2> DEFINE f == [k \in 0 .. 0 |-> s]
  <2>1. \A k \in 0 .. 0 : k = 0
    OBVIOUS
  <2>2. f = [k \in 0 .. 0 |-> IF k = 0 THEN s ELSE RepairNext(f[k - 1], Repairs[k])]
    BY <2>1
  <2>3. IsAfterRepairs(f, s, 0)
    BY <2>2, Zenon DEF IsAfterRepairs
  <2> QED
    BY <1>2, <2>3
<1>3. CASE m # 0
  <2>1. m - 1 \in 0 .. m - 1 /\ m - 1 \in 0 .. n /\ m \in Nat
    BY <1>3
  <2>2. PICK f : IsAfterRepairs(f, s, m - 1)
    BY <1>1, <2>1
  <2>3. f = [k \in 0 .. m - 1 |-> IF k = 0 THEN s ELSE RepairNext(f[k - 1], Repairs[k])]
    BY <2>2, Zenon DEF IsAfterRepairs
  <2> DEFINE h == [k \in 0 .. m |-> IF k = 0 THEN s ELSE RepairNext(f[k - 1], Repairs[k])]
  <2>4. ASSUME NEW k \in 0 .. m - 1 PROVE h[k] = f[k]
    <3>1. f[k] = IF k = 0 THEN s ELSE RepairNext(f[k - 1], Repairs[k])
      BY <2>3, Zenon
    <3>2. k \in 0 .. m
      BY <2>1
    <3> QED
      BY <3>1, <3>2, Zenon
  <2>5. ASSUME NEW k \in 0 .. m, k # 0 PROVE f[k - 1] = h[k - 1]
    <3>1. k - 1 \in 0 .. m - 1
      BY <2>1, <2>5
    <3> QED
      BY <2>4, <3>1
  <2>6. h = [k \in 0 .. m |-> IF k = 0 THEN s ELSE RepairNext(f[k - 1], Repairs[k])]
    OBVIOUS
  <2> HIDE DEF h
  <2>7. h = [k \in 0 .. m |-> IF k = 0 THEN s ELSE RepairNext(h[k - 1], Repairs[k])]
    BY <2>5, <2>6
  <2> QED
    BY <2>7 DEF IsAfterRepairs
<1> QED
  BY <1>2, <1>3

LEMMA SearchedOnceIs ==
  ASSUME NEW buf \in Seq(Byte), Len(buf) >= 4, NEW from \in Nat, from >= 5, NEW s,
         Searching(buf, from, s)
  PROVE  Searching(buf, from, SearchedOnce(s))
<1> DEFINE after == CHOOSE f : f = [k \in 0 .. Len(Repairs) |->
                                      IF k = 0 THEN s ELSE RepairNext(f[k - 1], Repairs[k])]
<1>1. SearchedOnce(s) = after[Len(Repairs)]
  BY DEF SearchedOnce
<1>2. Len(Repairs) = 7 /\ DOMAIN Repairs = 1 .. 7
  BY DEF Repairs
<1>3. \E f : f = [k \in 0 .. Len(Repairs) |-> IF k = 0 THEN s ELSE RepairNext(f[k - 1], Repairs[k])]
  <2>1. Len(Repairs) \in Nat
    BY <1>2
  <2>2. \E f : IsAfterRepairs(f, s, Len(Repairs))
    BY <2>1, AfterRepairsExists
  <2> QED
    BY <2>2, Zenon DEF IsAfterRepairs
<1>4. after = [k \in 0 .. Len(Repairs) |-> IF k = 0 THEN s ELSE RepairNext(after[k - 1], Repairs[k])]
  BY <1>3, Zenon
<1> HIDE DEF after
<1>5. \A k \in 0 .. 7 : after[k] = IF k = 0 THEN s ELSE RepairNext(after[k - 1], Repairs[k])
  BY <1>2, <1>4
<1> DEFINE Wrong == {k \in 0 .. 7 : ~ Searching(buf, from, after[k])}
<1>6. ASSUME Wrong # {} PROVE FALSE
  <2>1. PICK k \in Wrong : \A j \in 0 .. k - 1 : j \notin Wrong
    <3>1. Wrong \in SUBSET Nat
      OBVIOUS
    <3> HIDE DEF Wrong
    <3> QED
      BY <1>6, <3>1, LeastNumber
  <2>2. k # 0
    BY <1>5
  <2>3. k - 1 \in 0 .. k - 1 /\ k - 1 \in 0 .. 7 /\ k \in 1 .. 7
    BY <2>2
  <2>4. Searching(buf, from, after[k - 1])
    BY <2>1, <2>3
  <2>5. Repairs[k] \in Range(Repairs)
    BY <1>2, <2>3, Zenon DEF Range
  <2>6. Searching(buf, from, RepairNext(after[k - 1], Repairs[k]))
    BY <2>4, <2>5, RepairNextIs
  <2>7. Searching(buf, from, after[k])
    BY <1>5, <2>2, <2>6
  <2> QED
    BY <2>7
<1>7. 7 \in 0 .. 7
  OBVIOUS
<1>8. Searching(buf, from, after[7])
  BY <1>6, <1>7
<1> QED
  BY <1>1, <1>2, <1>8

\* Where commands were repaired the block is looked at again, behind them.
LEMMA SearchDM2Step ==
  ASSUME InplaceInv, SearchDM2 PROVE InplaceInv'
<1> DEFINE s0 == [b |-> buffer, base |-> bufferbase, changed |-> changed]
           s  == SearchedOnce(s0)
<1>1. /\ iphase = "search" /\ ikind = "dm2" /\ bufferbase <= Len(buffer)
      /\ buffer' = s.b /\ changed' = s.changed
      /\ bufferbase' = (IF s.changed THEN s.base + 1 ELSE bufferbase)
      /\ iphase' = (IF s.changed THEN iphase ELSE "fields")
      /\ UNCHANGED <<ikind, original, bytes, at, lastwasbetweenblock>>
  BY Zenon DEF SearchDM2
<1>2. /\ buffer \in Seq(Byte) /\ TextsEnd(buffer)
      /\ InHand(ikind, original, bytes, buffer, at + 1, iphase = "merge" \/ lastwasbetweenblock)
      /\ bufferbase \in HeadBytes + 1 .. Len(buffer) + 2
      /\ lastwasbetweenblock \in BOOLEAN /\ changed \in BOOLEAN
  BY <1>1, Zenon DEF InplaceInv, InHandInv, SearchInv, FileTypeInv
<1>3. HeadBytes = 4 /\ Len(buffer) \in Nat
  BY <1>1, <1>2, LenProperties DEF HeadBytes
<1>4. bufferbase \in Nat /\ bufferbase >= 5 /\ bufferbase <= Len(buffer) + 1 /\ Len(buffer) >= 4
  BY <1>1, <1>2, <1>3
<1>5. Searching(buffer, bufferbase, s0)
  <2>1. s0.b = buffer /\ s0.base = bufferbase /\ s0.changed = changed
    OBVIOUS
  <2>2. bufferbase >= bufferbase
    BY <1>4
  <2> HIDE DEF s0
  <2> QED
    BY <1>2, <1>4, <2>1, <2>2, Zenon DEF Searching, RepairedOf
<1>6. Searching(buffer, bufferbase, s)
  BY <1>2, <1>4, <1>5, SearchedOnceIs
<1> HIDE DEF s, s0
<1>7. /\ s.changed \in BOOLEAN /\ s.base \in Nat /\ s.base >= bufferbase /\ s.base <= Len(buffer) + 1
      /\ buffer' \in Seq(Byte) /\ Len(buffer') = Len(buffer) /\ TextsEnd(buffer')
      /\ \A k \in 1 .. 4 : buffer'[k] = buffer[k]
  BY <1>1, <1>6, Zenon DEF Searching, RepairedOf
<1>8. InHand(ikind, original, bytes, buffer', at + 1, iphase = "merge" \/ lastwasbetweenblock)
  BY <1>2, <1>7, StillInHand
<1>9. iphase' \in {"search", "fields"}
  BY <1>1
<1>10. RecordingInv' /\ Len(bytes') = Len(OriginalBytes')
  BY <1>1, <1>9, RecordingStays
<1>11. FileTypeInv'
  BY <1>1, <1>7, <1>9, <1>10, Zenon DEF InplaceInv, FileTypeInv
<1>12. InHandInv'
  <2>1. (iphase = "merge" \/ lastwasbetweenblock) = (iphase' = "merge" \/ lastwasbetweenblock')
    BY <1>1, <1>2, <1>9
  <2>2. InHand(ikind', original', bytes', buffer', at' + 1, iphase' = "merge" \/ lastwasbetweenblock')
    BY <1>1, <1>8, <2>1
  <2>3. ikind' = "dm2" /\ iphase' # "merge"
    BY <1>1, <1>9
  <2> QED
    BY <1>7, <2>2, <2>3, Zenon DEF InHandInv
<1>13. SearchInv'
  <2>1. HeadBytes' = 4
    BY <1>1, <1>3, Zenon DEF HeadBytes
  <2>2. bufferbase' \in HeadBytes' + 1 .. Len(buffer') + 2
    <3>1. s.base >= 5 /\ s.base + 1 >= 5 /\ s.base + 1 <= Len(buffer) + 2
      BY <1>3, <1>4, <1>7
    <3>2. s.base \in Int /\ Len(buffer') = Len(buffer)
      BY <1>7
    <3>3. bufferbase' = s.base + 1 \/ bufferbase' = bufferbase
      BY <1>1, Zenon
    <3> QED
      BY <1>3, <1>4, <2>1, <3>1, <3>2, <3>3
  <2> QED
    BY <1>7, <2>2, Zenon DEF SearchInv
<1>14. BetweenInv' /\ WriteInv'
  BY <1>9, Zenon DEF BetweenInv, WriteInv
<1> QED
  BY <1>10, <1>11, <1>12, <1>13, <1>14, Zenon DEF InplaceInv

-----------------------------------------------------------------------------
(* The recording before it is repaired. *)

LEMMA PutLongTyped ==
  ASSUME NEW n \in Nat PROVE put_long(n) \in Seq(Byte) /\ Len(put_long(n)) = 4
<1> DEFINE l == n % 65536
           h == n \div 65536
           l1 == l % 256
           l2 == l \div 256
           h1 == h % 256
           h2 == h \div 256
           l3 == l2 % 256
           h3 == h2 % 256
<1>1. l \in Nat /\ h \in Nat
  BY DivModOf, SMT
<1>2. put_long(n) = (<<l1>> \o <<l3>>) \o (<<h1>> \o <<h3>>)
  BY SMT DEF put_long, put_short, put_unsigned_char, put_signed_char
<1> HIDE DEF l, h
<1>3. l1 \in Nat /\ l2 \in Nat /\ l1 < 256
  BY <1>1, DivModOf, SMT
<1>4. h1 \in Nat /\ h2 \in Nat /\ h1 < 256
  BY <1>1, DivModOf, SMT
<1> HIDE DEF l1, l2, h1, h2
<1>5. l3 \in Nat /\ l3 < 256 /\ h3 \in Nat /\ h3 < 256
  BY <1>3, <1>4, SMT
<1> HIDE DEF l3, h3
<1>6. l1 \in Byte /\ l3 \in Byte /\ h1 \in Byte /\ h3 \in Byte
  BY <1>3, <1>4, <1>5, BytesAre, SMT
<1>7. /\ (<<l1>> \o <<l3>>) \o (<<h1>> \o <<h3>>) = <<l1, l3, h1, h3>>
      /\ <<l1, l3, h1, h3>> \in Seq(Byte) /\ Len(<<l1, l3, h1, h3>>) = 4
  BY <1>6, PairsAre
<1> QED
  BY <1>2, <1>7, Zenon

LEMMA FlatOfAll ==
  ASSUME NEW ms \in Seq(Seq(Byte))
  PROVE  FlattenSeq(ms) = Flat(ms, Len(ms)) /\ FlattenSeq(ms) \in Seq(Byte)
<1>1. ms = [i \in 1 .. Len(ms) |-> ms[i]] /\ Len(ms) \in Nat /\ \A i \in 1 .. Len(ms) : ms[i] \in Seq(Byte)
  OBVIOUS
<1>2. FlattenSeq(ms) = Flat(ms, Len(ms))
  BY <1>1, Zenon DEF Flat
<1>3. Flat(ms, Len(ms)) \in Seq(Byte)
  BY <1>1, FlatTyped
<1> QED
  BY <1>2, <1>3

\* The block a recording has for some messages.
LEMMA BlockOfIs ==
  ASSUME NEW kind, NEW ms \in Seq(Seq(Byte))
  PROVE  /\ FlattenSeq(ms) \in Seq(Byte)
         /\ BlockOf(kind, ms) \in Seq(Byte)
         /\ Len(BlockOf(kind, ms)) = HeadOf(kind) + Len(FlattenSeq(ms))
         /\ Len(FlattenSeq(ms)) <= LongMax =>
              get_next_long(BlockOf(kind, ms), 1) = Len(FlattenSeq(ms))
<1> DEFINE g == FlattenSeq(ms)
           s == put_long(Len(g))
           v == IF kind = "dem" THEN ViewAngles ELSE <<>>
<1>1. g \in Seq(Byte)
  BY FlatOfAll
<1>2. BlockOf(kind, ms) = (s \o v) \o g
  BY DEF BlockOf
<1> HIDE DEF g
<1>3. s \in Seq(Byte) /\ Len(s) = 4
  BY <1>1, PutLongTyped
<1>4. v \in Seq(Byte) /\ 4 + Len(v) = HeadOf(kind)
  <2>1. 0 \in Byte
    BY BytesAre
  <2>2. ViewAngles \in Seq(Byte) /\ Len(ViewAngles) = 12
    BY <2>1 DEF ViewAngles
  <2>3. <<>> \in Seq(Byte) /\ Len(<<>>) = 0
    OBVIOUS
  <2>4. CASE kind = "dem"
    <3>1. v = ViewAngles /\ HeadOf(kind) = 16
      BY <2>4, Zenon DEF HeadOf
    <3>2. v \in Seq(Byte) /\ Len(v) = 12
      BY <2>2, <3>1, Zenon
    <3>3. 4 + 12 = 16
      OBVIOUS
    <3> QED
      BY <3>1, <3>2, <3>3, Zenon
  <2>5. CASE kind # "dem"
    <3>1. v = <<>> /\ HeadOf(kind) = 4
      BY <2>5, Zenon DEF HeadOf
    <3> HIDE DEF v
    <3> QED
      BY <2>3, <3>1
  <2> QED
    BY <2>4, <2>5
<1> DEFINE u == s \o v
<1> HIDE DEF v, s
<1>5. /\ u \in Seq(Byte) /\ Len(u) = Len(s) + Len(v)
      /\ \A i \in 1 .. Len(s) + Len(v) : u[i] = IF i <= Len(s) THEN s[i] ELSE v[i - Len(s)]
  BY <1>3, <1>4, ConcatProperties
<1> HIDE DEF u
<1>6. /\ u \o g \in Seq(Byte) /\ Len(u \o g) = Len(u) + Len(g)
      /\ \A i \in 1 .. Len(u) + Len(g) : (u \o g)[i] = IF i <= Len(u) THEN u[i] ELSE g[i - Len(u)]
  <2>1. u \in Seq(Byte)
    BY <1>5
  <2> QED
    BY <1>1, <2>1, ConcatProperties
<1>7. Len(u) = HeadOf(kind) /\ Len(u) >= 4 /\ Len(u) \in Nat
  <2>1. Len(v) \in Nat /\ Len(u) \in Nat
    BY <1>4, <1>5
  <2> QED
    BY <1>3, <1>4, <1>5, <2>1
<1>8. BlockOf(kind, ms) = u \o g
  BY <1>2 DEF u
<1>9. ASSUME Len(g) <= LongMax PROVE get_next_long(u \o g, 1) = Len(g)
  <2>1. get_next_long(s, 1) = Len(g)
    BY <1>1, <1>9, LongOfPut, Zenon, LenProperties DEF s
  <2>2. \A k \in 0 .. 3 : (u \o g)[1 + k] = s[1 + k]
    <3>1. \A k \in 0 .. 3 : 1 + k \in 1 .. Len(s) + Len(v) /\ 1 + k \in 1 .. Len(u) + Len(g)
                            /\ 1 + k <= Len(s) /\ 1 + k <= Len(u)
      <4>1. Len(v) \in Nat /\ Len(g) \in Nat
        BY <1>1, <1>4
      <4> QED
        BY <1>3, <1>7, <4>1
    <3> QED
      BY <1>5, <1>6, <3>1
  <2>3. get_next_long(u \o g, 1) = get_next_long(s, 1)
    <3> DEFINE w == u \o g
               one == 1
    <3>1. one \in Nat /\ \A k \in 0 .. 3 : w[one + k] = s[one + k]
      BY <2>2
    <3> HIDE DEF w, one
    <3>2. get_next_long(w, one) = get_next_long(s, one)
      BY <3>1, SameLong
    <3> QED
      BY <3>2 DEF w, one
  <2> QED
    BY <2>1, <2>3
<1> QED
  BY <1>1, <1>6, <1>7, <1>8, <1>9 DEF g

LEMMA FlatPrefix ==
  ASSUME NEW S, NEW n \in Nat, NEW f, \A i \in 1 .. n : f[i] \in Seq(S), NEW m \in 0 .. n
  PROVE  /\ Len(Flat(f, m)) <= Len(Flat(f, n))
         /\ \A k \in 1 .. Len(Flat(f, m)) : Flat(f, n)[k] = Flat(f, m)[k]
<1> DEFINE s == Flat(f, m)
           Good(j) == Len(s) <= Len(Flat(f, j)) /\ \A k \in 1 .. Len(s) : Flat(f, j)[k] = s[k]
           Wrong == {j \in m .. n : ~ Good(j)}
<1>0. s \in Seq(S)
  <2>1. m \in Nat /\ \A i \in 1 .. m : f[i] \in Seq(S)
    OBVIOUS
  <2> QED
    BY <2>1, FlatTyped
<1>1. Good(m)
  BY <1>0
<1> SUFFICES Good(n)
  OBVIOUS
<1> HIDE DEF Good, s
<1> SUFFICES ASSUME Wrong # {} PROVE FALSE
  OBVIOUS
<1>2. PICK j \in Wrong : \A k \in 0 .. j - 1 : k \notin Wrong
  <2>1. Wrong \in SUBSET Nat
    OBVIOUS
  <2> HIDE DEF Wrong
  <2> QED
    BY <2>1, LeastNumber
<1>3. j # m
  BY <1>1
<1> DEFINE i == j - 1
<1>4. i \in Nat /\ i \in m .. n /\ i \in 0 .. j - 1 /\ i + 1 = j /\ j \in 1 .. n
  BY <1>3
<1>5. Good(i)
  BY <1>2, <1>4
<1>6. /\ Flat(f, j) = Flat(f, i) \o f[j] /\ Flat(f, i) \in Seq(S) /\ f[j] \in Seq(S)
  <2>1. \A k \in 1 .. i + 1 : f[k] \in Seq(S)
    BY <1>4
  <2>2. \A k \in 1 .. i : f[k] \in Seq(S)
    BY <1>4
  <2> HIDE DEF i
  <2>3. Flat(f, i + 1) = Flat(f, i) \o f[i + 1]
    BY <1>4, <2>1, FlatOfMore
  <2>4. Flat(f, i) \in Seq(S)
    BY <1>4, <2>2, FlatTyped
  <2> QED
    BY <1>4, <2>1, <2>3, <2>4
<1> DEFINE a == Flat(f, i)
           b == f[j]
<1> HIDE DEF a, b
<1>7. /\ Len(a \o b) = Len(a) + Len(b) /\ Len(a) \in Nat /\ Len(b) \in Nat
      /\ \A k \in 1 .. Len(a) + Len(b) : (a \o b)[k] = IF k <= Len(a) THEN a[k] ELSE b[k - Len(a)]
  <2>1. a \in Seq(S) /\ b \in Seq(S)
    BY <1>6 DEF a, b
  <2> QED
    BY <2>1, ConcatProperties
<1>8. Flat(f, j) = a \o b
  BY <1>6 DEF a, b
<1>9. Len(s) <= Len(a) /\ Len(s) \in Nat /\ \A k \in 1 .. Len(s) : a[k] = s[k]
  BY <1>0, <1>5 DEF a, Good
<1>10. Good(j)
  <2>1. Len(s) <= Len(a \o b)
    BY <1>7, <1>9
  <2>2. \A k \in 1 .. Len(s) : (a \o b)[k] = s[k]
    BY <1>7, <1>9
  <2> QED
    BY <1>8, <2>1, <2>2 DEF Good
<1> QED
  BY <1>2, <1>10

IsRecording(kind, o) ==
  /\ o.track \in Seq(Byte) /\ o.blocks \in Seq(Seq(Seq(Byte)))
  /\ o.end = <<>> \/ (kind = "dm2" /\ o.end = <<255, 255, 255, 255>>)
  /\ Len(FileOf(kind, o)) <= LongMax
BlocksOf(kind, o) == [i \in DOMAIN o.blocks |-> BlockOf(kind, o.blocks[i])]
\* The place behind block i.
PlaceBehind(kind, o, i) == Len(o.track) + Len(Flat(BlocksOf(kind, o), i)) + 1

LEMMA BlocksTyped ==
  ASSUME NEW kind, NEW o, IsRecording(kind, o)
  PROVE  /\ Len(o.blocks) \in Nat
         /\ \A i \in 1 .. Len(o.blocks) : /\ o.blocks[i] \in Seq(Seq(Byte))
                                          /\ BlocksOf(kind, o)[i] = BlockOf(kind, o.blocks[i])
                                          /\ BlocksOf(kind, o)[i] \in Seq(Byte)
         /\ FileOf(kind, o) = o.track \o Flat(BlocksOf(kind, o), Len(o.blocks)) \o o.end
<1> DEFINE ms == o.blocks
<1>1. ms \in Seq(Seq(Seq(Byte)))
  BY DEF IsRecording
<1>2. BlocksOf(kind, o) = [i \in DOMAIN ms |-> BlockOf(kind, ms[i])]
  BY DEF BlocksOf
<1>3. FileOf(kind, o) = o.track \o FlattenSeq(BlocksOf(kind, o)) \o o.end
  BY DEF FileOf, BlocksOf
<1> HIDE DEF ms
<1>4. Len(ms) \in Nat /\ DOMAIN ms = 1 .. Len(ms) /\ \A i \in 1 .. Len(ms) : ms[i] \in Seq(Seq(Byte))
  BY <1>1
<1>5. \A i \in 1 .. Len(ms) : BlocksOf(kind, o)[i] = BlockOf(kind, ms[i])
  BY <1>2, <1>4, Zenon
<1>6. \A i \in 1 .. Len(ms) : BlockOf(kind, ms[i]) \in Seq(Byte)
  BY <1>4, BlockOfIs
<1>7. BlocksOf(kind, o) = [i \in 1 .. Len(ms) |-> BlocksOf(kind, o)[i]]
  BY <1>2, <1>4, Zenon
<1>8. FlattenSeq(BlocksOf(kind, o)) = Flat(BlocksOf(kind, o), Len(ms))
  BY <1>7, Zenon DEF Flat
<1> QED
  BY <1>3, <1>4, <1>5, <1>6, <1>8, Zenon DEF ms

LEMMA ThreeJoined ==
  ASSUME NEW t \in Seq(Byte), NEW all \in Seq(Byte), NEW e \in Seq(Byte)
  PROVE  /\ (t \o all) \o e \in Seq(Byte)
         /\ Len((t \o all) \o e) = Len(t) + Len(all) + Len(e)
         /\ \A j \in 1 .. Len(all) : ((t \o all) \o e)[Len(t) + j] = all[j]
         /\ \A j \in 1 .. Len(e) : ((t \o all) \o e)[Len(t) + Len(all) + j] = e[j]
<1>1. t \in Seq(Byte) /\ e \in Seq(Byte)
  OBVIOUS
<1>2. all \in Seq(Byte)
  OBVIOUS
<1>4. /\ t \o all \in Seq(Byte) /\ Len(t \o all) = Len(t) + Len(all)
      /\ \A i \in 1 .. Len(t) + Len(all) : (t \o all)[i] = IF i <= Len(t) THEN t[i] ELSE all[i - Len(t)]
  BY <1>1, <1>2, ConcatProperties
<1> DEFINE u == t \o all
<1>5. u \in Seq(Byte) /\ Len(u) = Len(t) + Len(all)
  BY <1>4
<1>6. \A j \in 1 .. Len(all) : u[Len(t) + j] = all[j]
  <2>1. Len(t) \in Nat /\ Len(all) \in Nat
    BY <1>1, <1>2
  <2>2. \A j \in 1 .. Len(all) : /\ Len(t) + j \in 1 .. Len(t) + Len(all) /\ ~ Len(t) + j <= Len(t)
                                 /\ (Len(t) + j) - Len(t) = j
    BY <2>1
  <2> QED
    BY <1>4, <2>2
<1> HIDE DEF u
<1>7. /\ u \o e \in Seq(Byte) /\ Len(u \o e) = Len(u) + Len(e)
      /\ \A i \in 1 .. Len(u) + Len(e) : (u \o e)[i] = IF i <= Len(u) THEN u[i] ELSE e[i - Len(u)]
  <2>1. u \in Seq(Byte)
    BY <1>5
  <2> QED
    BY <1>1, <2>1, ConcatProperties
<1>8. Len(u) \in Nat /\ Len(e) \in Nat /\ Len(t) \in Nat /\ Len(all) \in Nat
  <2>1. u \in Seq(Byte)
    BY <1>5
  <2> QED
    BY <1>1, <1>2, <2>1
<1>9. \A j \in 1 .. Len(all) : (u \o e)[Len(t) + j] = all[j]
  <2>1. \A j \in 1 .. Len(all) : Len(t) + j \in 1 .. Len(u) + Len(e) /\ Len(t) + j <= Len(u)
    BY <1>5, <1>8
  <2> QED
    BY <1>6, <1>7, <2>1
<1>10. \A j \in 1 .. Len(e) : (u \o e)[Len(u) + j] = e[j]
  <2>1. \A j \in 1 .. Len(e) : /\ Len(u) + j \in 1 .. Len(u) + Len(e) /\ ~ Len(u) + j <= Len(u)
                               /\ (Len(u) + j) - Len(u) = j
    BY <1>8
  <2> QED
    BY <1>7, <2>1
<1> QED
  BY <1>5, <1>7, <1>9, <1>10, Zenon DEF u

\* What the file of a recording consists of.
Consists(b, t, all, e) ==
  /\ b \in Seq(Byte) /\ t \in Seq(Byte) /\ all \in Seq(Byte) /\ e \in Seq(Byte)
  /\ Len(b) = Len(t) + Len(all) + Len(e) /\ Len(b) <= LongMax
  /\ \A j \in 1 .. Len(all) : b[Len(t) + j] = all[j]
  /\ \A j \in 1 .. Len(e) : b[Len(t) + Len(all) + j] = e[j]

LEMMA FileIs ==
  ASSUME NEW kind, NEW o, IsRecording(kind, o)
  PROVE  Consists(FileOf(kind, o), o.track, Flat(BlocksOf(kind, o), Len(o.blocks)), o.end)
<1> DEFINE b == FileOf(kind, o)
           t == o.track
           all == Flat(BlocksOf(kind, o), Len(o.blocks))
           e == o.end
<1>1. t \in Seq(Byte) /\ e \in Seq(Byte)
  <2>1. 255 \in Byte
    BY BytesAre
  <2>2. <<255, 255, 255, 255>> \in Seq(Byte) /\ <<>> \in Seq(Byte)
    BY <2>1
  <2> QED
    BY <2>2, Zenon DEF IsRecording
<1>2. all \in Seq(Byte)
  <2> DEFINE n == Len(o.blocks)
             f == BlocksOf(kind, o)
  <2>1. n \in Nat /\ \A i \in 1 .. n : f[i] \in Seq(Byte)
    BY BlocksTyped, Zenon
  <2> HIDE DEF n, f
  <2>2. Flat(f, n) \in Seq(Byte)
    BY <2>1, FlatTyped
  <2> QED
    BY <2>2 DEF n, f
<1>3. b = (t \o all) \o e
  BY BlocksTyped, Zenon
<1> HIDE DEF b, t, all, e
<1>4. /\ (t \o all) \o e \in Seq(Byte)
      /\ Len((t \o all) \o e) = Len(t) + Len(all) + Len(e)
      /\ \A j \in 1 .. Len(all) : ((t \o all) \o e)[Len(t) + j] = all[j]
      /\ \A j \in 1 .. Len(e) : ((t \o all) \o e)[Len(t) + Len(all) + j] = e[j]
  BY <1>1, <1>2, ThreeJoined
<1>5. Len(b) <= LongMax
  BY Zenon DEF IsRecording, b
<1> QED
  BY <1>1, <1>2, <1>3, <1>4, <1>5, Zenon DEF b, t, all, e, Consists

LEMMA PlaceIs ==
  ASSUME NEW kind, NEW o, IsRecording(kind, o), NEW b, b = FileOf(kind, o), NEW i \in 0 .. Len(o.blocks)
  PROVE  /\ PlaceBehind(kind, o, i) \in Nat
         /\ FirstPlace(o) <= PlaceBehind(kind, o, i) /\ PlaceBehind(kind, o, i) <= Len(b) + 1
         /\ PlaceBehind(kind, o, 0) = FirstPlace(o)
         /\ PlaceBehind(kind, o, Len(o.blocks)) = Len(b) + 1 - Len(o.end)
         /\ \A j \in 0 .. i : PlaceBehind(kind, o, j) <= PlaceBehind(kind, o, i)
<1> DEFINE n == Len(o.blocks)
           f == BlocksOf(kind, o)
           t == Len(o.track)
           e == Len(o.end)
<1>1. n \in Nat /\ i \in 0 .. n /\ \A j \in 1 .. n : f[j] \in Seq(Byte)
  BY BlocksTyped, Zenon
<1>2. t \in Nat /\ e \in Nat /\ Flat(f, n) \in Seq(Byte) /\ Len(b) = t + Len(Flat(f, n)) + e
  <2>1. /\ o.track \in Seq(Byte) /\ Flat(f, n) \in Seq(Byte) /\ o.end \in Seq(Byte)
        /\ Len(b) = t + Len(Flat(f, n)) + e
    BY FileIs, Zenon DEF Consists
  <2> QED
    BY <2>1, LenProperties, Zenon
<1>3. \A j \in 0 .. n : PlaceBehind(kind, o, j) = t + Len(Flat(f, j)) + 1
  BY Zenon DEF PlaceBehind
<1>4. FirstPlace(o) = t + 1
  BY Zenon DEF FirstPlace
<1> HIDE DEF n, f, t, e
<1>5. \A k \in 0 .. n : \A j \in 0 .. k :
        /\ Flat(f, k) \in Seq(Byte) /\ Flat(f, j) \in Seq(Byte)
        /\ Len(Flat(f, j)) <= Len(Flat(f, k))
  <2> SUFFICES ASSUME NEW k \in 0 .. n, NEW j \in 0 .. k
               PROVE  /\ Flat(f, k) \in Seq(Byte) /\ Flat(f, j) \in Seq(Byte)
                      /\ Len(Flat(f, j)) <= Len(Flat(f, k))
    OBVIOUS
  <2>1. k \in Nat /\ j \in Nat /\ (\A m \in 1 .. k : f[m] \in Seq(Byte)) /\ (\A m \in 1 .. j : f[m] \in Seq(Byte))
    BY <1>1
  <2>2. Flat(f, k) \in Seq(Byte) /\ Flat(f, j) \in Seq(Byte)
    BY <2>1, FlatTyped
  <2>3. Len(Flat(f, j)) <= Len(Flat(f, k))
    BY <2>1, FlatPrefix
  <2> QED
    BY <2>2, <2>3
<1>6. \A k \in 0 .. n : Len(Flat(f, k)) \in Nat
  <2> SUFFICES ASSUME NEW k \in 0 .. n PROVE Len(Flat(f, k)) \in Nat
    OBVIOUS
  <2>1. Flat(f, k) \in Seq(Byte)
    <3>1. k \in 0 .. k
      BY <1>1
    <3> QED
      BY <1>5, <3>1
  <2> QED
    BY <2>1
<1>7. Len(Flat(f, 0)) = 0
  BY FlatOfNone
<1> DEFINE w(k) == Len(Flat(f, k))
<1>8. /\ \A k \in 0 .. n : w(k) \in Nat /\ PlaceBehind(kind, o, k) = t + w(k) + 1
      /\ \A k \in 0 .. n : \A j \in 0 .. k : w(j) <= w(k)
      /\ w(0) = 0 /\ Len(b) = t + w(n) + e
  BY <1>2, <1>3, <1>5, <1>6, <1>7, Zenon
<1> HIDE DEF w
<1>9. 0 \in 0 .. n /\ n \in 0 .. n /\ i \in 0 .. n /\ i \in 0 .. i /\ i \in 0 .. n
  BY <1>1
<1>10. \A j \in 0 .. i : j \in 0 .. n
  BY <1>1
<1>11. PlaceBehind(kind, o, i) = t + w(i) + 1 /\ w(i) \in Nat /\ w(n) \in Nat /\ w(i) <= w(n)
  BY <1>8, <1>9
<1>12. PlaceBehind(kind, o, 0) = t + 1 /\ PlaceBehind(kind, o, n) = Len(b) + 1 - e
  <2>1. PlaceBehind(kind, o, 0) = t + w(0) + 1 /\ PlaceBehind(kind, o, n) = t + w(n) + 1
    BY <1>8, <1>9
  <2> QED
    BY <1>2, <1>8, <1>11, <2>1
<1>13. ASSUME NEW j \in 0 .. i PROVE PlaceBehind(kind, o, j) <= PlaceBehind(kind, o, i)
  <2>1. PlaceBehind(kind, o, j) = t + w(j) + 1 /\ w(j) \in Nat /\ w(j) <= w(i)
    BY <1>8, <1>9, <1>10
  <2> QED
    BY <1>2, <1>11, <2>1
<1>14. PlaceBehind(kind, o, i) \in Nat /\ FirstPlace(o) <= PlaceBehind(kind, o, i)
       /\ PlaceBehind(kind, o, i) <= Len(b) + 1
  BY <1>2, <1>4, <1>8, <1>11
<1> QED
  BY <1>4, <1>12, <1>13, <1>14, Zenon DEF n, e

\* Block i of a recording, in its file.
LEMMA BlockOfFile ==
  ASSUME NEW kind, NEW o, IsRecording(kind, o), NEW b, b = FileOf(kind, o), NEW i \in 1 .. Len(o.blocks),
         NEW x, x = PlaceBehind(kind, o, i - 1), NEW c, c = BlockOf(kind, o.blocks[i])
  PROVE  /\ x \in Nat /\ x > 0 /\ c \in Seq(Byte)
         /\ PlaceBehind(kind, o, i) = x + Len(c) /\ x + Len(c) <= Len(b) + 1
         /\ \A j \in 1 .. Len(c) : b[x + (j - 1)] = c[j]
<1> DEFINE n == Len(o.blocks)
           f == BlocksOf(kind, o)
           t == o.track
           all == Flat(f, n)
           e == o.end
           m == i - 1
           w == Flat(f, m)
<1>1. n \in Nat /\ (\A j \in 1 .. n : f[j] \in Seq(Byte)) /\ f[i] = c
  BY BlocksTyped, Zenon
<1>2. Consists(b, t, all, e)
  BY FileIs, Zenon
<1>3. x = Len(t) + Len(w) + 1 /\ PlaceBehind(kind, o, i) = Len(t) + Len(Flat(f, i)) + 1
  BY Zenon DEF PlaceBehind
<1>4. m \in Nat /\ m \in 0 .. n /\ m + 1 = i /\ i \in 1 .. n /\ i \in 0 .. n
  BY <1>1
<1> DEFINE u == Flat(f, i)
<1>5. u = w \o c /\ w \in Seq(Byte) /\ c \in Seq(Byte)
  <2>1. (\A j \in 1 .. m + 1 : f[j] \in Seq(Byte)) /\ (\A j \in 1 .. m : f[j] \in Seq(Byte))
    BY <1>1, <1>4
  <2> HIDE DEF m, f, n
  <2>2. Flat(f, m + 1) = Flat(f, m) \o f[m + 1]
    BY <1>4, <2>1, FlatOfMore
  <2>3. Flat(f, m) \in Seq(Byte)
    BY <1>4, <2>1, FlatTyped
  <2>4. f[i] \in Seq(Byte)
    BY <1>1, <1>4
  <2> QED
    BY <1>1, <1>4, <2>2, <2>3, <2>4, Zenon
<1>6. Len(u) <= Len(all) /\ \A k \in 1 .. Len(u) : all[k] = u[k]
  <2> HIDE DEF n, f
  <2>1. Len(Flat(f, i)) <= Len(Flat(f, n)) /\ \A k \in 1 .. Len(Flat(f, i)) : Flat(f, n)[k] = Flat(f, i)[k]
    BY <1>1, <1>4, FlatPrefix
  <2> QED
    BY <2>1, Zenon
<1> HIDE DEF t, all, e, w, u, m, n, f
<1>7. /\ Len(w \o c) = Len(w) + Len(c) /\ Len(w) \in Nat /\ Len(c) \in Nat
      /\ \A k \in 1 .. Len(w) + Len(c) : (w \o c)[k] = IF k <= Len(w) THEN w[k] ELSE c[k - Len(w)]
  BY <1>5, ConcatProperties
<1>8. /\ Len(t) \in Nat /\ Len(all) \in Nat /\ Len(e) \in Nat /\ Len(b) = Len(t) + Len(all) + Len(e)
      /\ \A j \in 1 .. Len(all) : b[Len(t) + j] = all[j]
  BY <1>2, LenProperties, Zenon DEF Consists
<1>9. ASSUME NEW j \in 1 .. Len(c) PROVE b[x + (j - 1)] = c[j]
  <2> DEFINE k == Len(w) + j
  <2>1. k \in 1 .. Len(w) + Len(c) /\ ~ k <= Len(w) /\ k - Len(w) = j /\ x + (j - 1) = Len(t) + k
    <3> QED
      BY <1>3, <1>7, <1>8
  <2> HIDE DEF k
  <2>2. (w \o c)[k] = c[j]
    BY <1>7, <2>1
  <2>3. all[k] = (w \o c)[k] /\ k \in 1 .. Len(all)
    <3>1. u = w \o c /\ Len(w \o c) = Len(w) + Len(c)
      BY <1>5, <1>7
    <3>2. Len(u) = Len(w) + Len(c)
      BY <3>1, Zenon
    <3>3. k \in 1 .. Len(u) /\ k \in 1 .. Len(all)
      BY <1>6, <1>7, <1>8, <2>1, <3>2
    <3> QED
      BY <1>6, <3>1, <3>3, Zenon
  <2> QED
    BY <1>8, <2>1, <2>2, <2>3
<1>10. /\ x \in Nat /\ x > 0
       /\ PlaceBehind(kind, o, i) = x + Len(c) /\ x + Len(c) <= Len(b) + 1
  <2>1. Len(u) = Len(w) + Len(c)
    BY <1>5, <1>7, Zenon
  <2>2. PlaceBehind(kind, o, i) = Len(t) + Len(u) + 1
    BY <1>3 DEF u
  <2>3. Len(t) \in Nat /\ Len(w) \in Nat /\ Len(c) \in Nat /\ Len(all) \in Nat /\ Len(e) \in Nat
    BY <1>7, <1>8, Zenon
  <2>4. x = Len(t) + Len(w) + 1 /\ Len(b) = Len(t) + Len(all) + Len(e) /\ Len(u) <= Len(all)
    BY <1>3, <1>6, <1>8, Zenon
  <2>5. x \in Nat /\ x > 0
    <3>1. Len(t) + Len(w) + 1 \in Nat /\ Len(t) + Len(w) + 1 > 0
      BY <2>3
    <3> QED
      BY <2>4, <3>1, Zenon
  <2>6. Len(t) + Len(u) + 1 = x + Len(c)
    BY <2>1, <2>3, <2>4
  <2>7. Len(t) + Len(u) <= Len(b)
    <3>1. Len(u) \in Nat
      BY <2>1, <2>3
    <3> QED
      BY <2>3, <2>4, <3>1
  <2>8. x + Len(c) <= Len(b) + 1
    <3>1. Len(u) \in Nat /\ Len(b) \in Nat
      BY <2>1, <2>3, <2>4
    <3> QED
      BY <2>3, <2>6, <2>7, <3>1
  <2> QED
    BY <2>2, <2>5, <2>6, <2>8, Zenon
<1> QED
  BY <1>5, <1>9, <1>10, Zenon

\* c is block i of the recording and of its file b, at x.
IsBlockOf(kind, o, b, i, x, c) ==
  /\ IsRecording(kind, o) /\ b = FileOf(kind, o) /\ i \in 1 .. Len(o.blocks)
  /\ x = PlaceBehind(kind, o, i - 1) /\ c = BlockOf(kind, o.blocks[i])

LEMMA BlockReads ==
  ASSUME NEW kind, NEW o, NEW b, NEW i, NEW x, NEW c, IsBlockOf(kind, o, b, i, x, c)
  PROVE  /\ get_next_long(b, x) \in Nat
         /\ BlockEnd(kind, b, x) = PlaceBehind(kind, o, i)
         /\ BlockAt(kind, b, x) = c
<1> DEFINE ms == o.blocks[i]
           g == FlattenSeq(ms)
           h == HeadOf(kind)
           e == PlaceBehind(kind, o, i)
           l == Len(c)
<1>1. /\ x \in Nat /\ x > 0 /\ c \in Seq(Byte) /\ e = x + Len(c) /\ x + Len(c) <= Len(b) + 1
      /\ \A j \in 1 .. Len(c) : b[x + (j - 1)] = c[j]
  <2>1. /\ IsRecording(kind, o) /\ b = FileOf(kind, o) /\ i \in 1 .. Len(o.blocks)
        /\ x = PlaceBehind(kind, o, i - 1) /\ c = BlockOf(kind, o.blocks[i])
    BY Zenon DEF IsBlockOf
  <2> HIDE DEF ms, g, h, l
  <2> QED
    BY <2>1, BlockOfFile
<1>2. ms \in Seq(Seq(Byte))
  BY BlocksTyped, Zenon DEF IsBlockOf
<1>3. /\ g \in Seq(Byte) /\ Len(c) = h + Len(g)
      /\ Len(g) <= LongMax => get_next_long(c, 1) = Len(g)
  <2>1. c = BlockOf(kind, ms)
    BY DEF IsBlockOf
  <2> HIDE DEF ms
  <2>2. /\ FlattenSeq(ms) \in Seq(Byte) /\ Len(BlockOf(kind, ms)) = HeadOf(kind) + Len(FlattenSeq(ms))
        /\ Len(FlattenSeq(ms)) <= LongMax => get_next_long(BlockOf(kind, ms), 1) = Len(FlattenSeq(ms))
    BY <1>2, BlockOfIs
  <2> QED
    BY <2>1, <2>2, Zenon
<1>4. Len(b) <= LongMax /\ b \in Seq(Byte)
  BY FileIs, Zenon DEF Consists, IsBlockOf
<1>5. h \in Nat /\ h >= 4
  BY DEF HeadOf
<1> HIDE DEF g, h, ms, e
<1>6. Len(g) \in Nat /\ Len(b) \in Nat /\ l \in Nat /\ l = h + Len(g) /\ e = x + l /\ e <= Len(b) + 1
  BY <1>1, <1>3, <1>4
<1> HIDE DEF l
<1>7. Len(g) <= LongMax
  <2> DEFINE top == LongMax
  <2>1. Len(b) <= top /\ top \in Nat
    BY <1>4 DEF LongMax
  <2> HIDE DEF top
  <2>2. Len(g) <= top
    BY <1>1, <1>5, <1>6, <2>1
  <2> QED
    BY <2>2 DEF top
<1>8. \A j \in 1 .. l : b[x + (j - 1)] = c[j]
  BY <1>1 DEF l
<1>9. \A k \in 0 .. 3 : b[x + k] = c[1 + k]
  <2>1. \A k \in 0 .. 3 : 1 + k \in 1 .. l /\ x + ((1 + k) - 1) = x + k
    BY <1>1, <1>5, <1>6
  <2> QED
    BY <1>8, <2>1
<1>10. get_next_long(b, x) = Len(g)
  <2> DEFINE one == 1
  <2>1. one \in Nat /\ \A k \in 0 .. 3 : b[x + k] = c[one + k]
    BY <1>9
  <2> HIDE DEF one
  <2>2. get_next_long(b, x) = get_next_long(c, one)
    BY <1>1, <2>1, SameLong
  <2> QED
    BY <1>3, <1>7, <2>2 DEF one
<1>11. BlockEnd(kind, b, x) = e
  <2>1. Len(g) # -1
    BY <1>6
  <2>2. BlockEnd(kind, b, x) = x + h + Len(g)
    BY <1>10, <2>1, Zenon DEF BlockEnd, h
  <2> QED
    BY <1>1, <1>5, <1>6, <2>2
<1>12. SubSeq(b, x, e - 1) = c
  <2> DEFINE y == e - 1
  <2>1. y \in Int /\ y <= Len(b) /\ y - x + 1 = l /\ x <= y + 1
    BY <1>1, <1>6
  <2>2. \A k \in x .. y : b[k] \in Byte
    <3>1. \A k \in x .. y : k \in 1 .. Len(b)
      BY <1>1, <1>6, <2>1
    <3> QED
      BY <1>4, <3>1
  <2> HIDE DEF y
  <2>3. /\ SubSeq(b, x, y) \in Seq(Byte) /\ Len(SubSeq(b, x, y)) = IF x <= y THEN y - x + 1 ELSE 0
        /\ \A k \in 1 .. y - x + 1 : SubSeq(b, x, y)[k] = b[x + k - 1]
    BY <1>1, <2>1, <2>2, SubSeqProperties
  <2> DEFINE s == SubSeq(b, x, y)
  <2>4. s \in Seq(Byte) /\ Len(s) = l
    BY <1>1, <1>6, <2>1, <2>3
  <2>5. \A k \in 1 .. l : s[k] = c[k]
    <3>1. \A k \in 1 .. l : s[k] = b[x + k - 1] /\ x + k - 1 = x + (k - 1)
      BY <1>1, <2>1, <2>3
    <3> QED
      BY <1>8, <3>1
  <2> HIDE DEF s
  <2>6. s = c
    <3>1. Len(s) = Len(c) /\ c \in Seq(Byte) /\ \A k \in 1 .. Len(s) : s[k] = c[k]
      BY <1>1, <2>4, <2>5 DEF l
    <3> QED
      BY <2>4, <3>1, SeqEqual
  <2> QED
    BY <2>6 DEF s, y
<1>13. Len(g) \in Nat
  BY <1>6
<1> QED
  BY <1>10, <1>11, <1>12, <1>13, Zenon DEF BlockAt, e

\* In the bytes of the end nothing is found.
LEMMA EndTextsEnd ==
  ASSUME NEW b, Len(b) = 4 PROVE TextsEnd(b)
<1> SUFFICES ASSUME NEW r \in Range(Repairs) PROVE memmem(b, 5, r.pat) = {}
  BY Zenon DEF TextsEnd
<1>1. Len(r.pat) \in Nat /\ Len(r.pat) >= 4
  BY RepairsAre, Zenon DEF IsRepair, IsRepairOf
<1> DEFINE n == Len(r.pat)
<1>2. memmem(b, 5, r.pat) = {i \in 5 .. 4 - n + 1 : SubSeq(b, i, i + n - 1) = r.pat}
  BY Zenon DEF memmem
<1>3. \A i \in 5 .. 4 - n + 1 : FALSE
  <2>1. n \in Nat /\ n >= 4
    BY <1>1
  <2> HIDE DEF n
  <2> QED
    BY <2>1
<1> QED
  BY <1>2, <1>3, Zenon

\* The places of a recording: behind its track, behind each block and behind its end.
PlacesOf(kind, o) ==
  {PlaceBehind(kind, o, i) : i \in 0 .. Len(o.blocks)} \cup {Len(FileOf(kind, o)) + 1}

IsPlaceOf(kind, o, x) ==
  \/ \E i \in 1 .. Len(o.blocks) : x = PlaceBehind(kind, o, i - 1)
  \/ kind = "dm2" /\ x = PlaceBehind(kind, o, Len(o.blocks)) /\ Len(o.end) = 4
     /\ o.end = <<255, 255, 255, 255>>

LEMMA PlaceBegins ==
  ASSUME NEW kind, NEW o, IsRecording(kind, o),
         NEW x \in PlacesOf(kind, o), x # Len(FileOf(kind, o)) + 1
  PROVE  IsPlaceOf(kind, o, x)
<1> DEFINE n == Len(o.blocks)
           b == FileOf(kind, o)
<1>1. n \in Nat
  BY BlocksTyped
<1>2. PICK j \in 0 .. n : x = PlaceBehind(kind, o, j)
  BY Zenon DEF PlacesOf
<1>3. CASE j # n
  <2>1. j + 1 \in 1 .. n /\ (j + 1) - 1 = j
    <3> HIDE DEF n
    <3> QED
      BY <1>1, <1>3
  <2> QED
    BY <1>2, <2>1, Zenon DEF IsPlaceOf
<1>4. CASE j = n
  <2>1. PlaceBehind(kind, o, n) = Len(b) + 1 - Len(o.end)
    BY <1>2, <1>4, PlaceIs, Zenon
  <2>2. Len(b) \in Nat
    <3>1. b \in Seq(Byte)
      BY FileIs, Zenon DEF Consists
    <3> QED
      BY <3>1, LenProperties, Zenon
  <2>3. Len(o.end) # 0
    <3> HIDE DEF b
    <3> SUFFICES ASSUME Len(o.end) = 0 PROVE FALSE
      OBVIOUS
    <3>1. PlaceBehind(kind, o, n) = Len(b) + 1
      BY <2>1, <2>2
    <3> QED
      BY <1>2, <1>4, <3>1, Zenon DEF b
  <2>4. o.end # <<>>
    <3>1. Len(<<>>) = 0
      OBVIOUS
    <3> QED
      BY <2>3, <3>1, Zenon
  <2>5. kind = "dm2" /\ o.end = <<255, 255, 255, 255>>
    BY <2>4, Zenon DEF IsRecording
  <2>6. Len(<<255, 255, 255, 255>>) = 4
    OBVIOUS
  <2> QED
    BY <1>2, <1>4, <2>5, <2>6, Zenon DEF IsPlaceOf
<1> QED
  BY <1>3, <1>4

\* The end of a DM2 file.
IsFileEnd(kind, o, b, x) ==
  /\ IsRecording(kind, o) /\ b = FileOf(kind, o)
  /\ o.end = <<255, 255, 255, 255>> /\ Len(o.end) = 4
  /\ x = PlaceBehind(kind, o, Len(o.blocks))

LEMMA EndReads ==
  ASSUME NEW kind, NEW o, NEW b, NEW x, IsFileEnd(kind, o, b, x)
  PROVE  /\ x \in Nat /\ x + 4 = Len(b) + 1 /\ get_next_long(b, x) = -1
         /\ BlockEnd(kind, b, x) = x + 4 /\ Len(BlockAt(kind, b, x)) = 4
<1> DEFINE n == Len(o.blocks)
           t == o.track
           all == Flat(BlocksOf(kind, o), n)
           e == o.end
<1>1. Consists(b, t, all, e)
  BY FileIs, Zenon DEF IsFileEnd
<1>2. x = Len(t) + Len(all) + 1
  BY Zenon DEF PlaceBehind, IsFileEnd
<1>3. Len(e) = 4 /\ e = <<255, 255, 255, 255>>
  BY Zenon DEF IsFileEnd
<1> HIDE DEF n, t, all, e
<1>4. /\ Len(t) \in Nat /\ Len(all) \in Nat /\ Len(b) = Len(t) + Len(all) + Len(e) /\ b \in Seq(Byte)
      /\ \A j \in 1 .. Len(e) : b[Len(t) + Len(all) + j] = e[j]
  BY <1>1, LenProperties, Zenon DEF Consists
<1>5. x \in Nat /\ x > 0 /\ x + 4 = Len(b) + 1 /\ Len(b) \in Nat
  BY <1>2, <1>3, <1>4
<1>6. \A k \in 0 .. 3 : b[x + k] = e[1 + k]
  <2>1. \A k \in 0 .. 3 : 1 + k \in 1 .. Len(e) /\ Len(t) + Len(all) + (1 + k) = x + k
    BY <1>2, <1>3, <1>4
  <2> QED
    BY <1>4, <2>1
<1>7. get_next_long(b, x) = -1
  <2> DEFINE one == 1
  <2>1. one \in Nat /\ x \in Nat /\ \A k \in 0 .. 3 : b[x + k] = e[one + k]
    BY <1>5, <1>6
  <2>2. get_next_long(e, one) = -1
    BY <1>3, LongOfEnd, Zenon
  <2> HIDE DEF one
  <2>3. get_next_long(b, x) = get_next_long(e, one)
    BY <2>1, SameLong
  <2> QED
    BY <2>2, <2>3
<1>8. BlockEnd(kind, b, x) = x + 4
  BY <1>7, Zenon DEF BlockEnd
<1>9. Len(SubSeq(b, x, (x + 4) - 1)) = 4
  <2> DEFINE y == (x + 4) - 1
  <2>1. y \in Int /\ y - x + 1 = 4 /\ x <= y /\ y <= Len(b)
    BY <1>5
  <2>2. \A k \in x .. y : b[k] \in Byte
    <3>1. \A k \in x .. y : k \in 1 .. Len(b)
      BY <1>5, <2>1
    <3> QED
      BY <1>4, <3>1
  <2> HIDE DEF y
  <2>3. Len(SubSeq(b, x, y)) = IF x <= y THEN y - x + 1 ELSE 0
    BY <1>5, <2>1, <2>2, SubSeqProperties
  <2> QED
    BY <2>1, <2>3 DEF y
<1>10. BlockAt(kind, b, x) = SubSeq(b, x, (x + 4) - 1)
  BY <1>8, Zenon DEF BlockAt
<1> QED
  BY <1>5, <1>7, <1>8, <1>9, <1>10, Zenon

LEMMA NoMoreThanTheyWere ==
  ASSUME NEW kind, NEW o, IsRecording(kind, o)
  PROVE  Cardinality(PlacesOf(kind, o)) <= Len(o.blocks) + 2
<1> DEFINE n == Len(o.blocks)
           S == PlacesOf(kind, o)
           w(i) == PlaceBehind(kind, o, i)
           z == Len(FileOf(kind, o)) + 1
           m == n + 2
           h == [k \in 1 .. m |-> IF k = m THEN z ELSE w(k - 1)]
<1>1. n \in Nat
  BY BlocksTyped
<1>2. S = {w(i) : i \in 0 .. n} \cup {z}
  BY Zenon DEF PlacesOf
<1> HIDE DEF n, S, w, z
<1>3. m \in Nat /\ m \in 1 .. m /\ \A i \in 0 .. n : i + 1 \in 1 .. m /\ i + 1 # m /\ (i + 1) - 1 = i
  BY <1>1
<1>4. \A k \in 1 .. m : k # m => k - 1 \in 0 .. n
  BY <1>1
<1> HIDE DEF m
<1>5. h \in [1 .. m -> S]
  <2>1. \A k \in 1 .. m : (IF k = m THEN z ELSE w(k - 1)) \in S
    BY <1>2, <1>4
  <2> QED
    BY <2>1, Zenon
<1>6. \A x \in S : \E k \in 1 .. m : h[k] = x
  <2> SUFFICES ASSUME NEW x \in S PROVE \E k \in 1 .. m : h[k] = x
    OBVIOUS
  <2>1. CASE x = z
    BY <1>3, <2>1
  <2>2. CASE x # z
    <3>1. PICK i \in 0 .. n : x = w(i)
      BY <1>2, <2>2
    <3>2. i + 1 \in 1 .. m /\ i + 1 # m /\ (i + 1) - 1 = i
      BY <1>3
    <3>3. h[i + 1] = w((i + 1) - 1)
      BY <3>2
    <3> QED
      BY <3>1, <3>2, <3>3
  <2> QED
    BY <2>1, <2>2
<1>7. ExistsSurjection(1 .. m, S)
  <2> HIDE DEF h
  <2>1. h \in Surjection(1 .. m, S)
    BY <1>5, <1>6, Zenon DEF Surjection
  <2> QED
    BY <2>1, Zenon DEF ExistsSurjection
<1>8. Cardinality(S) <= m
  BY <1>3, <1>7, FS_SurjCardinalityBound
<1> QED
  BY <1>8 DEF m, S, n

LEMMA RecordingDivides ==
  ASSUME NEW kind, NEW o, IsRecording(kind, o)
  PROVE  Divides(kind, o, FileOf(kind, o), PlacesOf(kind, o))
<1> DEFINE b == FileOf(kind, o)
           S == PlacesOf(kind, o)
           n == Len(o.blocks)
           w(i) == PlaceBehind(kind, o, i)
<1>1. n \in Nat /\ b \in Seq(Byte)
  BY BlocksTyped, FileIs, Zenon DEF Consists
<1>2. S = {w(i) : i \in 0 .. n} \cup {Len(b) + 1}
  BY Zenon DEF PlacesOf
<1>3. /\ \A i \in 0 .. n : w(i) \in Nat /\ FirstPlace(o) <= w(i) /\ w(i) <= Len(b) + 1
      /\ \A i \in 0 .. n : \A j \in 0 .. i : w(j) <= w(i)
      /\ w(0) = FirstPlace(o)
  <2>1. ASSUME NEW i \in 0 .. n
        PROVE  /\ w(i) \in Nat /\ FirstPlace(o) <= w(i) /\ w(i) <= Len(b) + 1
               /\ \A j \in 0 .. i : w(j) <= w(i)
               /\ w(0) = FirstPlace(o)
    BY PlaceIs, Zenon
  <2>2. 0 \in 0 .. n
    BY <1>1
  <2> HIDE DEF w, n
  <2> QED
    BY <2>1, <2>2, Zenon
<1>4. ASSUME NEW i \in 1 .. n
      PROVE  /\ get_next_long(b, w(i - 1)) \in Nat
             /\ BlockEnd(kind, b, w(i - 1)) = w(i)
  <2> DEFINE x == w(i - 1)
             c == BlockOf(kind, o.blocks[i])
  <2>1. IsBlockOf(kind, o, b, i, x, c)
    BY Zenon DEF IsBlockOf
  <2> HIDE DEF x, c, b
  <2>2. get_next_long(b, x) \in Nat /\ BlockEnd(kind, b, x) = PlaceBehind(kind, o, i)
    BY <2>1, BlockReads
  <2> QED
    BY <2>2, Zenon DEF x
<1>5. ASSUME NEW x \in S, x # Len(b) + 1 PROVE IsPlaceOf(kind, o, x)
  BY <1>5, PlaceBegins, Zenon
<1>6. ASSUME o.end = <<255, 255, 255, 255>>, Len(o.end) = 4
      PROVE  /\ w(n) \in Nat /\ w(n) + 4 = Len(b) + 1 /\ get_next_long(b, w(n)) = -1
             /\ BlockEnd(kind, b, w(n)) = w(n) + 4
  <2> DEFINE x == w(n)
  <2>1. IsFileEnd(kind, o, b, x)
    BY <1>6, Zenon DEF IsFileEnd
  <2> HIDE DEF x, b
  <2>2. /\ x \in Nat /\ x + 4 = Len(b) + 1 /\ get_next_long(b, x) = -1
        /\ BlockEnd(kind, b, x) = x + 4
    BY <2>1, EndReads
  <2> QED
    BY <2>2, Zenon DEF x
<1>7. Cardinality(S) <= n + 2
  BY NoMoreThanTheyWere
<1>8. FirstPlace(o) \in Int
  <2>1. o.track \in Seq(Byte)
    BY FileIs, Zenon DEF Consists
  <2> DEFINE t == o.track
  <2>2. Len(t) \in Nat
    BY <2>1
  <2> HIDE DEF t
  <2>3. FirstPlace(o) = Len(t) + 1
    BY DEF FirstPlace, t
  <2> QED
    BY <2>2, <2>3
<1>9. ASSUME NEW x \in S, x # Len(b) + 1
      PROVE  (\E i \in 1 .. n : x = w(i - 1))
             \/ (kind = "dm2" /\ x = w(n) /\ Len(o.end) = 4 /\ o.end = <<255, 255, 255, 255>>)
  BY <1>5, <1>9, Zenon DEF IsPlaceOf
<1> HIDE DEF b, S, n, w
<1>10. Len(b) \in Nat
  BY <1>1
<1>11. \A x \in S : x \in Nat /\ FirstPlace(o) <= x /\ x <= Len(b) + 1
  <2>1. FirstPlace(o) <= Len(b) + 1
    <3>1. 0 \in 0 .. n
      BY <1>1
    <3> QED
      BY <1>3, <3>1
  <2> SUFFICES ASSUME NEW x \in S PROVE x \in Nat /\ FirstPlace(o) <= x /\ x <= Len(b) + 1
    OBVIOUS
  <2>2. CASE x = Len(b) + 1
    BY <1>10, <2>1, <2>2
  <2>3. CASE x # Len(b) + 1
    <3>1. PICK i \in 0 .. n : x = w(i)
      BY <1>2, <2>3
    <3> QED
      BY <1>3, <3>1
  <2> QED
    BY <2>2, <2>3
<1>12. ASSUME NEW x \in S, x # Len(b) + 1
       PROVE  /\ IsBlockAt(kind, b, x) /\ BlockEnd(kind, b, x) \in S
              /\ \A y \in S : x < y => BlockEnd(kind, b, x) <= y
  <2>1. CASE \E i \in 1 .. n : x = w(i - 1)
    <3>1. PICK i \in 1 .. n : x = w(i - 1)
      BY <2>1
    <3> DEFINE m == i - 1
    <3>2. get_next_long(b, x) \in Nat /\ BlockEnd(kind, b, x) = w(i)
      BY <1>4, <3>1
    <3>3. i \in 0 .. n /\ m \in 0 .. n /\ w(i) \in S /\ x = w(m)
      BY <1>1, <1>2, <3>1
    <3>4. ASSUME NEW y \in S, x < y PROVE w(i) <= y
      <4>1. CASE y = Len(b) + 1
        BY <1>3, <3>3, <4>1
      <4>2. CASE y # Len(b) + 1
        <5>1. PICK j \in 0 .. n : y = w(j)
          BY <1>2, <4>2
        <5>2. j \in 0 .. m => w(j) <= w(m)
          BY <1>3, <3>3
        <5>3. j \in 0 .. m => FALSE
          <6>1. w(j) \in Nat /\ w(m) \in Nat
            BY <1>3, <3>3
          <6> HIDE DEF m
          <6> QED
            BY <3>3, <3>4, <5>1, <5>2, <6>1
        <5>4. i \in 0 .. j
          BY <1>1, <5>3
        <5> QED
          BY <1>3, <5>1, <5>4
      <4> QED
        BY <4>1, <4>2
    <3> QED
      BY <3>2, <3>3, <3>4, Zenon DEF IsBlockAt
  <2>2. CASE kind = "dm2" /\ x = w(n) /\ Len(o.end) = 4 /\ o.end = <<255, 255, 255, 255>>
    <3>1. /\ x \in Nat /\ x + 4 = Len(b) + 1 /\ get_next_long(b, x) = -1
          /\ BlockEnd(kind, b, x) = x + 4
      BY <1>6, <2>2, Zenon
    <3>2. Len(b) + 1 \in S
      BY <1>2
    <3>3. IsBlockAt(kind, b, x)
      BY <2>2, <3>1, Zenon DEF IsBlockAt
    <3>4. ASSUME NEW y \in S, x < y PROVE Len(b) + 1 <= y
      <4>1. CASE y = Len(b) + 1
        BY <1>10, <4>1
      <4>2. CASE y # Len(b) + 1
        <5>1. PICK j \in 0 .. n : y = w(j)
          BY <1>2, <4>2
        <5>2. n \in 0 .. n /\ j \in 0 .. n
          BY <1>1
        <5>3. w(j) <= w(n) /\ w(j) \in Nat /\ w(n) \in Nat
          BY <1>3, <5>2
        <5> QED
          BY <2>2, <3>4, <5>1, <5>3
      <4> QED
        BY <4>1, <4>2
    <3>5. BlockEnd(kind, b, x) = Len(b) + 1
      BY <3>1, Zenon
    <3> QED
      BY <3>2, <3>3, <3>4, <3>5, Zenon
  <2> QED
    BY <1>9, <1>12, <2>1, <2>2, Zenon
<1>13. S \in SUBSET (FirstPlace(o) .. Len(b) + 1)
  BY <1>8, <1>10, <1>11
<1>14. {FirstPlace(o), Len(b) + 1} \subseteq S
  <2>1. 0 \in 0 .. n
    BY <1>1
  <2> QED
    BY <1>2, <1>3, <2>1
<1>15. Divides(kind, o, b, S)
  BY <1>7, <1>12, <1>13, <1>14, Zenon DEF Divides, n
<1> QED
  BY <1>15 DEF b, S

LEMMA RecordingTexts ==
  ASSUME NEW o, IsRecording("dm2", o),
         \A i \in DOMAIN o.blocks : TextsEnd(BlockOf("dm2", o.blocks[i])),
         NEW x \in PlacesOf("dm2", o), x # Len(FileOf("dm2", o)) + 1
  PROVE  TextsEnd(BlockAt("dm2", FileOf("dm2", o), x))
<1> DEFINE b == FileOf("dm2", o)
<1>1. IsPlaceOf("dm2", o, x)
  BY PlaceBegins
<1>2. CASE \E i \in 1 .. Len(o.blocks) : x = PlaceBehind("dm2", o, i - 1)
  <2>1. PICK i \in 1 .. Len(o.blocks) : x = PlaceBehind("dm2", o, i - 1)
    BY <1>2
  <2> DEFINE c == BlockOf("dm2", o.blocks[i])
             kind == "dm2"
  <2>2. IsBlockOf(kind, o, b, i, x, c)
    BY <2>1, Zenon DEF IsBlockOf
  <2> HIDE DEF c, b, kind
  <2>3. BlockAt(kind, b, x) = c
    BY <2>2, BlockReads
  <2>4. TextsEnd(c)
    <3>1. o.blocks \in Seq(Seq(Seq(Byte)))
      BY Zenon DEF IsRecording
    <3> DEFINE bs == o.blocks
    <3>2. DOMAIN bs = 1 .. Len(bs)
      <4> HIDE DEF bs
      <4>1. bs \in Seq(Seq(Seq(Byte)))
        BY <3>1 DEF bs
      <4> QED
        BY <4>1
    <3> QED
      BY <3>2, Zenon DEF c
  <2> QED
    BY <2>3, <2>4, Zenon DEF b, kind
<1>3. CASE x = PlaceBehind("dm2", o, Len(o.blocks)) /\ Len(o.end) = 4 /\ o.end = <<255, 255, 255, 255>>
  <2> DEFINE kind == "dm2"
  <2>1. IsFileEnd(kind, o, b, x)
    BY <1>3, Zenon DEF IsFileEnd
  <2> HIDE DEF b, kind
  <2>2. Len(BlockAt(kind, b, x)) = 4
    BY <2>1, EndReads
  <2>3. TextsEnd(BlockAt(kind, b, x))
    BY <2>2, EndTextsEnd
  <2> QED
    BY <2>3 DEF b, kind
<1> QED
  BY <1>1, <1>2, <1>3, Zenon DEF IsPlaceOf

LEMMA RepairableIs ==
  ASSUME NEW r \in Repairable
  PROVE  /\ IsRecording(r.ikind, r.original)
         /\ r.ikind \in {"dem", "dm2"}
         /\ r.ikind = "dm2" => \A i \in DOMAIN r.original.blocks :
                                 TextsEnd(BlockOf("dm2", r.original.blocks[i]))
<1> DEFINE kind == r.ikind
           o == r.original
           ends == {<<>>} \cup (IF kind = "dm2" THEN {<<255, 255, 255, 255>>} ELSE {})
<1>1. /\ kind \in {"dem", "dm2"} /\ Len(FileOf(kind, o)) <= LongMax
      /\ o \in [track : Seq(Byte), blocks : Seq(Seq(Seq(Byte))), end : ends]
      /\ kind = "dm2" => \A i \in DOMAIN o.blocks : TextsEnd(BlockOf("dm2", o.blocks[i]))
  <2>1. IsRepairable(kind, o)
    BY RepairableAssumption, Zenon
  <2> HIDE DEF kind, o
  <2> QED
    BY <2>1, Zenon DEF IsRepairable
<1> HIDE DEF ends, kind, o
<1>2. o.track \in Seq(Byte) /\ o.blocks \in Seq(Seq(Seq(Byte))) /\ o.end \in ends
  BY <1>1
<1>3. o.end = <<>> \/ (kind = "dm2" /\ o.end = <<255, 255, 255, 255>>)
  BY <1>2, Zenon DEF ends
<1>4. IsRecording(kind, o)
  BY <1>1, <1>2, <1>3, Zenon DEF IsRecording
<1> QED
  BY <1>1, <1>4, Zenon DEF kind, o

\* A recording is sound before anything has been repaired.
LEMMA RecordingIsSound ==
  ASSUME NEW r \in Repairable, NEW kind, kind = r.ikind, NEW o, o = r.original,
         NEW between, between = FALSE
  PROVE  /\ FileOf(kind, o) \in Seq(Byte)
         /\ Len(o.track) \in Nat /\ Len(o.track) <= Len(FileOf(kind, o))
         /\ Sound(kind, o, FileOf(kind, o), Len(o.track) + 1, between)
<1> DEFINE b == FileOf(kind, o)
           S == PlacesOf(kind, o)
           place == Len(o.track) + 1
<1>1. /\ IsRecording(kind, o)
      /\ kind = "dm2" => \A i \in DOMAIN o.blocks : TextsEnd(BlockOf("dm2", o.blocks[i]))
  BY RepairableIs, Zenon
<1>2. Divides(kind, o, b, S) /\ b \in Seq(Byte) /\ o.track \in Seq(Byte)
  BY <1>1, RecordingDivides, FileIs, Zenon DEF Consists
<1>3. Len(o.track) \in Nat
  BY <1>2, LenProperties, Zenon
<1>4. place \in S /\ \A x \in S : place <= x /\ x <= Len(b) + 1
  <2>1. S \in SUBSET (place .. Len(b) + 1) /\ place \in S
    BY <1>2, Zenon DEF Divides, FirstPlace
  <2> HIDE DEF S, b, place
  <2> QED
    BY <2>1
<1>5. Len(o.track) <= Len(b)
  <2> DEFINE t == Len(o.track)
  <2>1. t \in Nat /\ t + 1 <= Len(b) + 1 /\ Len(b) \in Nat
    BY <1>2, <1>3, <1>4, LenProperties, Zenon
  <2> HIDE DEF t, b
  <2>2. t <= Len(b)
    BY <2>1
  <2> QED
    BY <2>2 DEF t
<1>6. NoneEmpty(kind, b, S, place, between)
  <2>1. ASSUME NEW y \in S, y < place PROVE FALSE
    <3>1. place <= y /\ place \in Nat /\ y \in Nat
      <4>1. S \in SUBSET (place .. Len(b) + 1)
        BY <1>2, Zenon DEF Divides, FirstPlace
      <4>2. place \in Nat
        BY <1>3
      <4> HIDE DEF S, b, place
      <4> QED
        BY <4>1, <4>2
    <3> HIDE DEF S, b, place
    <3> QED
      BY <2>1, <3>1
  <2>2. ~ between
    OBVIOUS
  <2> HIDE DEF S, b, place
  <2> QED
    BY <2>1, <2>2, Zenon DEF NoneEmpty
<1>7. TextsAhead(kind, b, S, place)
  <2>1. ASSUME kind = "dm2", NEW x \in S, x <= Len(b) PROVE TextsEnd(BlockAt(kind, b, x))
    <3>1. x # Len(b) + 1
      <4>1. Len(b) \in Nat
        BY <1>2, LenProperties, Zenon
      <4> HIDE DEF b
      <4> QED
        BY <2>1, <4>1
    <3> QED
      BY <1>1, <2>1, <3>1, RecordingTexts, Zenon
  <2> HIDE DEF S, b, place
  <2> QED
    BY <2>1, Zenon DEF TextsAhead
<1>8. SoundWith(kind, o, b, place, between, S)
  <2> HIDE DEF S, b, place
  <2> QED
    BY <1>2, <1>4, <1>6, <1>7, Zenon DEF SoundWith
<1> QED
  BY <1>2, <1>3, <1>5, <1>8, Zenon DEF Sound

-----------------------------------------------------------------------------
(* The invariant is one. *)

LEMMA NothingIs == FileOf("dm2", [track |-> <<>>, blocks |-> <<>>, end |-> <<>>]) = <<>>
<1> DEFINE o == [track |-> <<>>, blocks |-> <<>>, end |-> <<>>]
           f == [i \in DOMAIN o.blocks |-> BlockOf("dm2", o.blocks[i])]
<1>1. o.track = <<>> /\ o.blocks = <<>> /\ o.end = <<>>
  OBVIOUS
<1>2. FileOf("dm2", o) = <<>> \o FlattenSeq(f) \o <<>>
  BY <1>1, Zenon DEF FileOf
<1> HIDE DEF o
<1>3. f = [i \in 1 .. 0 |-> f[i]]
  BY <1>1
<1>4. FlattenSeq(f) = <<>>
  <2> HIDE DEF f
  <2>1. FlattenSeq(f) = Flat(f, 0)
    BY <1>3, Zenon DEF Flat
  <2> QED
    BY <2>1, FlatOfNone
<1>5. <<>> \o <<>> = <<>>
  OBVIOUS
<1> QED
  BY <1>2, <1>4, <1>5, Zenon DEF o

LEMMA InitInplace == Init => InplaceInv
<1> SUFFICES ASSUME Init PROVE InplaceInv
  OBVIOUS
<1>1. /\ InplaceInit
      /\ \/ InplaceIdle
         \/ \E r \in Repairable : ikind = r.ikind /\ original = r.original /\ iphase = "block"
  BY Zenon DEF Init
<1>2. /\ bytes = FileOf(ikind, original) /\ at = Len(original.track)
      /\ changed = FALSE /\ lastwasbetweenblock = FALSE
  BY <1>1, Zenon DEF InplaceInit, OriginalBytes
<1>3. changed \in BOOLEAN /\ lastwasbetweenblock \in BOOLEAN /\ Len(bytes) = Len(OriginalBytes)
  BY <1>2, Zenon DEF OriginalBytes
<1>4. CASE InplaceIdle
  <2>1. /\ iphase = "off" /\ ikind = "dm2" /\ original = [track |-> <<>>, blocks |-> <<>>, end |-> <<>>]
    BY <1>4, Zenon DEF InplaceIdle
  <2>2. bytes = <<>>
    BY <1>2, <2>1, NothingIs, Zenon
  <2>3. original.track = <<>>
    BY <2>1
  <2>4. at = 0 /\ Len(bytes) = 0 /\ bytes \in Seq(Byte)
    BY <1>2, <2>2, <2>3
  <2>5. at \in 0 .. Len(bytes)
    BY <2>4
  <2>6. RecordingInv
    BY <2>1, <2>2, <2>4, Zenon DEF RecordingInv
  <2>7. FileTypeInv
    BY <1>3, <2>1, <2>4, <2>5, Zenon DEF FileTypeInv
  <2>8. /\ iphase \notin {"block", "done"} /\ iphase \notin {"search", "fields", "merge"}
        /\ iphase # "search" /\ iphase # "write"
    BY <2>1
  <2>9. BetweenInv /\ InHandInv /\ SearchInv /\ WriteInv
    BY <2>8, Zenon DEF BetweenInv, InHandInv, SearchInv, WriteInv
  <2> QED
    BY <2>6, <2>7, <2>9, Zenon DEF InplaceInv
<1>5. CASE \E r \in Repairable : ikind = r.ikind /\ original = r.original /\ iphase = "block"
  <2>1. PICK r \in Repairable : ikind = r.ikind /\ original = r.original /\ iphase = "block"
    BY <1>5, Zenon
  <2>2. PICK between : between = FALSE
    OBVIOUS
  <2>3. /\ bytes \in Seq(Byte) /\ Len(original.track) \in Nat /\ Len(original.track) <= Len(bytes)
        /\ Sound(ikind, original, bytes, Len(original.track) + 1, between)
    BY <1>2, <2>1, <2>2, RecordingIsSound, Zenon
  <2>4. at \in 0 .. Len(bytes)
    <3>1. Len(bytes) \in Nat /\ at \in Nat /\ at <= Len(bytes)
      BY <1>2, <2>3, LenProperties, Zenon
    <3> QED
      BY <3>1
  <2>5. RecordingInv
    <3>1. iphase # "off"
      BY <2>1
    <3> QED
      BY <2>1, <3>1, Zenon DEF RecordingInv
  <2>6. FileTypeInv
    BY <1>3, <2>1, <2>3, <2>4, Zenon DEF FileTypeInv
  <2>7. BetweenInv
    <3>1. iphase # "done"
      BY <2>1
    <3> QED
      BY <1>2, <2>2, <2>3, <3>1, Zenon DEF BetweenInv
  <2>8. iphase \notin {"search", "fields", "merge"} /\ iphase # "search" /\ iphase # "write"
    BY <2>1
  <2> QED
    BY <2>5, <2>6, <2>7, <2>8, Zenon DEF InplaceInv, InHandInv, SearchInv, WriteInv
<1> QED
  BY <1>1, <1>4, <1>5, Zenon

LEMMA OtherInplaceSteps ==
  ASSUME InplaceInv, UNCHANGED ivars
  PROVE  InplaceInv'
<1>1. /\ ikind' = ikind /\ original' = original /\ bytes' = bytes /\ iphase' = iphase /\ at' = at
      /\ buffer' = buffer /\ bufferbase' = bufferbase /\ changed' = changed
      /\ lastwasbetweenblock' = lastwasbetweenblock
  BY DEF ivars, search
<1>2. OriginalBytes' = OriginalBytes /\ Written' = Written /\ HeadBytes' = HeadBytes
  BY <1>1, Zenon DEF OriginalBytes, Written, HeadBytes
<1>3. RecordingInv' /\ FileTypeInv' /\ BetweenInv'
  BY <1>1, <1>2, Zenon DEF InplaceInv, RecordingInv, FileTypeInv, BetweenInv
<1>4. InHandInv' /\ SearchInv' /\ WriteInv'
  BY <1>1, <1>2, Zenon DEF InplaceInv, InHandInv, SearchInv, WriteInv
<1> QED
  BY <1>3, <1>4, Zenon DEF InplaceInv

LEMMA NextInplace == InplaceInv /\ [Next]_mvars => InplaceInv'
<1> SUFFICES ASSUME InplaceInv, [Next]_mvars PROVE InplaceInv'
  OBVIOUS
<1>1. CASE ReadBlock
  BY <1>1, ReadBlockStep
<1>2. CASE SearchDEM
  BY <1>2, SearchDEMStep
<1>3. CASE SearchDM2
  BY <1>3, SearchDM2Step
<1>4. CASE SearchEnds
  BY <1>4, SearchEndsStep
<1>5. CASE Fields
  BY <1>5, FieldsStep
<1>6. CASE Merge
  BY <1>6, MergeStep
<1>7. CASE MergeEnd
  BY <1>7, MergeEndStep
<1>8. CASE WriteBack
  BY <1>8, WriteBackStep
<1>9. CASE Close
  BY <1>9, CloseStep
<1>10. CASE acConvert
  <2>1. UNCHANGED ivars
    BY <1>10, Zenon DEF acConvert
  <2> QED
    BY <2>1, OtherInplaceSteps
<1>11. CASE UNCHANGED mvars
  <2>1. UNCHANGED ivars
    BY <1>11 DEF mvars
  <2> QED
    BY <2>1, OtherInplaceSteps
<1> QED
  BY <1>1, <1>2, <1>3, <1>4, <1>5, <1>6, <1>7, <1>8, <1>9, <1>10, <1>11, Zenon
     DEF Next, acInplace, ActionInplace, Ended

\* Whatever recording is repaired, the invariant holds at every step.
THEOREM InplaceInvariant == Spec => []InplaceInv
<1>1. Init => InplaceInv
  BY InitInplace
<1>2. InplaceInv /\ [Next]_mvars => InplaceInv'
  BY NextInplace
<1> QED
  BY <1>1, <1>2, PTL DEF Spec

\* Every variable has its type, and a search begins behind the head of a block and not
\* beyond its end.
THEOREM LmpcTypeCorrect == Spec => []LmpcTypeOK
<1>1. LmpTypeOK /\ InplaceInv => LmpcTypeOK
  <2> SUFFICES ASSUME LmpTypeOK, InplaceInv PROVE LmpcTypeOK
    OBVIOUS
  <2>1. ikind \in {"dem", "dm2"}
    <3>1. CASE iphase = "off"
      BY <3>1, Zenon DEF InplaceInv, RecordingInv
    <3>2. CASE iphase # "off"
      BY <3>2, RecordingIs
    <3> QED
      BY <3>1, <3>2
  <2>2. /\ iphase \in {"off", "block", "search", "fields", "merge", "write", "done", "lost"}
        /\ bytes \in Seq(Byte) /\ at \in 0 .. Len(bytes)
        /\ changed \in BOOLEAN /\ lastwasbetweenblock \in BOOLEAN
        /\ iphase = "search" => bufferbase \in HeadBytes + 1 .. Len(buffer) + 2
    BY Zenon DEF InplaceInv, FileTypeInv, SearchInv
  <2>3. \A b \in Range(bytes) : b \in Byte
    BY <2>2 DEF Range
  <2> QED
    BY <2>1, <2>2, <2>3, Zenon DEF LmpcTypeOK
<1> QED
  BY <1>1, ConvertTypeCorrect, InplaceInvariant, PTL

-----------------------------------------------------------------------------
(* The blocks of the repaired file. *)

Before(S, x) == {y \in S : y < x}
\* After k blocks a reader is at one of the places, has passed k of them or is at the end,
\* and the only empty block is in front of it there.
Followed(S, k, x, list) ==
  /\ x \in S /\ list \in Seq(Seq(Byte))
  /\ x = Len(bytes) + 1 \/ k <= Cardinality(Before(S, x))
  /\ ikind = "dm2" => \A i \in 1 .. Len(list) : list[i] = <<>> => i = Len(list) /\ x = Len(bytes) + 1
At(x, list) == [p |-> x, list |-> list]
IsFollowed(S, k, s) == \E x, list : s = At(x, list) /\ Followed(S, k, x, list)
\* An empty block is in front of the end.
EmptyAtEnd(S) ==
  ikind = "dm2" => \A y \in S : y < Len(bytes) + 1 /\ get_next_long(bytes, y) = 0 => y + 4 = Len(bytes) + 1

LEMMA PassedMore ==
  ASSUME NEW S, IsFiniteSet(S), S \in SUBSET Nat, NEW x \in S, NEW y \in S, x < y
  PROVE  /\ Cardinality(Before(S, x)) \in Nat /\ Cardinality(Before(S, y)) \in Nat
         /\ Cardinality(Before(S, x)) + 1 <= Cardinality(Before(S, y))
         /\ Cardinality(Before(S, y)) + 1 <= Cardinality(S)
<1> DEFINE bx == Before(S, x)
           by == Before(S, y)
<1>1. /\ bx \subseteq S /\ by \subseteq S /\ x \notin bx /\ y \notin by
      /\ bx \cup {x} \subseteq by /\ by \cup {y} \subseteq S
  <2>1. \A z \in S : z \in Nat
    OBVIOUS
  <2>2. \A z : (z \in bx <=> z \in S /\ z < x) /\ (z \in by <=> z \in S /\ z < y)
    BY Zenon DEF Before
  <2> HIDE DEF bx, by
  <2>3. x \notin bx /\ y \notin by
    BY <2>1, <2>2
  <2>4. ASSUME NEW z \in bx PROVE z \in by
    <3>1. z \in S /\ z < x
      BY <2>2, Zenon
    <3>2. z < y
      BY <2>1, <3>1
    <3> QED
      BY <2>2, <3>1, <3>2, Zenon
  <2>5. x \in by
    BY <2>2
  <2> QED
    BY <2>2, <2>3, <2>4, <2>5, Zenon
<1> HIDE DEF bx, by
<1>2. IsFiniteSet(bx) /\ IsFiniteSet(by)
  BY <1>1, FS_Subset
<1>3. Cardinality(bx) \in Nat /\ Cardinality(by) \in Nat
  BY <1>2, FS_CardinalityType
<1>4. Cardinality(bx \cup {x}) = Cardinality(bx) + 1 /\ Cardinality(by \cup {y}) = Cardinality(by) + 1
  BY <1>1, <1>2, FS_AddElement
<1>5. Cardinality(bx \cup {x}) <= Cardinality(by)
  BY <1>1, <1>2, FS_Subset
<1>6. Cardinality(by \cup {y}) <= Cardinality(S)
  BY <1>1, FS_Subset
<1>7. Cardinality(bx) + 1 <= Cardinality(by) /\ Cardinality(by) + 1 <= Cardinality(S)
  BY <1>4, <1>5, <1>6
<1> QED
  BY <1>3, <1>7 DEF bx, by

\* What a reader finds at a place that is not the end.
Found(x) ==
  LET size == get_next_long(bytes, x) IN SubSeq(bytes, x + HeadOf(ikind), (x + HeadOf(ikind) + size) - 1)

LEMMA BlockBehindIs ==
  ASSUME NEW S, Divides(ikind, original, bytes, S), bytes \in Seq(Byte), Len(original.track) \in Nat,
         NEW x \in S, x # Len(bytes) + 1, NEW list
  PROVE  IF get_next_long(bytes, x) = -1
         THEN BlockBehind(At(x, list)) = At(BlockEnd(ikind, bytes, x), list)
         ELSE BlockBehind(At(x, list)) = At(BlockEnd(ikind, bytes, x), Append(list, Found(x)))
<1> DEFINE s == At(x, list)
           g == get_next_long(bytes, x)
           h == HeadOf(ikind)
           n == Len(bytes)
           e == BlockEnd(ikind, bytes, x)
<1>1. /\ x \in Nat /\ x > 0 /\ g \in Int /\ g >= -1
      /\ x + 4 <= e /\ e <= n + 1 /\ e \in Nat
  BY PlacesIn
<1>2. s.p = x /\ s.list = list /\ s = [p |-> x, list |-> list]
  BY DEF At
<1>3. e = IF g = -1 THEN x + 4 ELSE x + h + g
  BY Zenon DEF BlockEnd
<1>4. HeadBytes = h /\ h \in Nat /\ h >= 4
  BY DEF HeadBytes, HeadOf
<1>5. n \in Nat
  BY LenProperties
<1>6. BlockBehind(s) = IF s.p + 3 <= n THEN NextBlock(s, get_next_long(bytes, s.p)) ELSE s
  BY Zenon DEF BlockBehind
<1>7. NextBlock(s, g) = IF g = -1 THEN [s EXCEPT !.p = @ + 4]
                        ELSE IF g \notin 0 .. n + 1 - s.p - HeadBytes THEN s
                        ELSE [p |-> s.p + HeadBytes + g,
                              list |-> Append(s.list, SubSeq(bytes, s.p + HeadBytes, s.p + HeadBytes + g - 1))]
  BY Zenon DEF NextBlock
<1> HIDE DEF s, g, h, n, e
<1>8. x + 3 <= n
  BY <1>1, <1>5
<1>9. BlockBehind(s) = NextBlock(s, g)
  <2>1. s.p + 3 <= n
    BY <1>2, <1>8, Zenon
  <2> QED
    BY <1>2, <1>6, <2>1, Zenon DEF g
<1>10. CASE g = -1
  <2>1. NextBlock(s, g) = [s EXCEPT !.p = @ + 4]
    BY <1>7, <1>10, Zenon
  <2>2. [s EXCEPT !.p = @ + 4] = [p |-> x + 4, list |-> list]
    BY <1>2
  <2>3. e = x + 4
    BY <1>3, <1>10, Zenon
  <2> QED
    BY <1>9, <1>10, <2>1, <2>2, <2>3, Zenon DEF At, s, e, g
<1>11. CASE g # -1
  <2>1. e = x + h + g /\ g \in Nat
    BY <1>1, <1>3, <1>11
  <2>2. g \in 0 .. n + 1 - x - h
    BY <1>1, <1>4, <1>5, <2>1
  <2>3. x + h + g - 1 = (x + h + g) - 1
    BY <1>1, <1>4, <2>1
  <2>4. NextBlock(s, g) = [p |-> x + h + g, list |-> Append(list, SubSeq(bytes, x + h, x + h + g - 1))]
    BY <1>2, <1>4, <1>7, <1>11, <2>2, Zenon
  <2>5. NextBlock(s, g) = At(e, Append(list, Found(x)))
    BY <2>1, <2>3, <2>4, Zenon DEF At, Found, h, g
  <2> QED
    BY <1>9, <1>11, <2>5, Zenon DEF s, e, g
<1> QED
  BY <1>10, <1>11

LEMMA FollowedNext ==
  ASSUME NEW S, Divides(ikind, original, bytes, S), bytes \in Seq(Byte), Len(original.track) \in Nat,
         ikind \in {"dem", "dm2"}, EmptyAtEnd(S), NEW k \in Nat, NEW s, IsFollowed(S, k, s)
  PROVE  IsFollowed(S, k + 1, BlockBehind(s))
<1>1. PICK x, list : s = At(x, list) /\ Followed(S, k, x, list)
  BY Zenon DEF IsFollowed
<1> DEFINE g == get_next_long(bytes, x)
           h == HeadOf(ikind)
           n == Len(bytes)
           e == BlockEnd(ikind, bytes, x)
<1>2. /\ x \in S /\ list \in Seq(Seq(Byte))
      /\ x = n + 1 \/ k <= Cardinality(Before(S, x))
      /\ ikind = "dm2" => \A i \in 1 .. Len(list) : list[i] = <<>> => i = Len(list) /\ x = n + 1
  BY <1>1, Zenon DEF Followed
<1>3. n \in Nat
  BY LenProperties
<1>4. CASE x = n + 1
  <2>1. ~ s.p + 3 <= n
    <3>1. s.p = n + 1
      BY <1>1, <1>4 DEF At
    <3> HIDE DEF n
    <3> QED
      BY <1>3, <3>1
  <2>2. BlockBehind(s) = s
    BY <2>1, Zenon DEF BlockBehind
  <2>3. Followed(S, k + 1, x, list)
    BY <1>2, <1>4, Zenon DEF Followed
  <2> QED
    BY <1>1, <2>2, <2>3, Zenon DEF IsFollowed
<1>5. CASE x # n + 1
  <2>1. /\ x \in Nat /\ x > 0 /\ g \in Int /\ g >= -1
        /\ e \in S /\ x + 4 <= e /\ e <= n + 1 /\ e \in Nat
    BY <1>2, <1>5, PlacesIn
  <2>2. IF g = -1 THEN BlockBehind(s) = At(e, list) ELSE BlockBehind(s) = At(e, Append(list, Found(x)))
    BY <1>1, <1>2, <1>5, BlockBehindIs, Zenon
  <2>3. e = IF g = -1 THEN x + 4 ELSE x + h + g
    BY Zenon DEF BlockEnd
  <2>4. h \in Nat /\ h >= 4 /\ (ikind = "dm2" => h = 4)
    BY DEF HeadOf
  <2>5. ikind = "dm2" /\ g = 0 => x + 4 = n + 1
    <3>1. x < n + 1
      <4> HIDE DEF n, e, g
      <4> QED
        BY <1>3, <2>1
    <3> QED
      BY <1>2, <3>1, Zenon DEF EmptyAtEnd
  <2>6. e = n + 1 \/ k + 1 <= Cardinality(Before(S, e))
    <3>1. S \in SUBSET Nat /\ IsFiniteSet(S)
      <4>1. S \in SUBSET (FirstPlace(original) .. n + 1)
        BY Zenon DEF Divides, FirstPlace
      <4> DEFINE a == FirstPlace(original)
      <4>2. a \in Nat /\ n + 1 \in Int
        BY <1>3 DEF FirstPlace
      <4> HIDE DEF a, n
      <4>3. IsFiniteSet(a .. n + 1)
        BY <4>2, FS_Interval
      <4>4. S \in SUBSET (a .. n + 1)
        BY <4>1 DEF a
      <4>5. IsFiniteSet(S)
        BY <4>3, <4>4, FS_Subset
      <4>6. \A z \in a .. n + 1 : z \in Nat
        BY <4>2
      <4> QED
        BY <4>4, <4>5, <4>6
    <3>2. x < e
      BY <2>1
    <3> HIDE DEF e
    <3>3. /\ Cardinality(Before(S, x)) \in Nat /\ Cardinality(Before(S, e)) \in Nat
          /\ Cardinality(Before(S, x)) + 1 <= Cardinality(Before(S, e))
      BY <1>2, <2>1, <3>1, <3>2, PassedMore
    <3> QED
      BY <1>2, <1>5, <3>3
  <2> HIDE DEF g, h, n, e
  <2>7. \A i \in 1 .. Len(list) : ikind = "dm2" => list[i] # <<>>
    BY <1>2, <1>5, Zenon
  <2>8. CASE g = -1
    <3>1. Followed(S, k + 1, e, list)
      BY <1>2, <2>1, <2>6, <2>7, Zenon DEF Followed, n
    <3> QED
      BY <2>2, <2>8, <3>1, Zenon DEF IsFollowed
  <2>9. CASE g # -1
    <3> DEFINE b == Found(x)
               y == (x + h + g) - 1
               l == Append(list, b)
    <3>1. g \in Nat /\ e = x + h + g
      BY <2>1, <2>3, <2>9
    <3>2. y \in Int /\ y - (x + h) + 1 = g /\ y <= n
      BY <1>3, <2>1, <2>4, <3>1
    <3>3. b = SubSeq(bytes, x + h, y)
      BY Zenon DEF Found, g, h
    <3> HIDE DEF y, b
    <3>4. \A j \in x + h .. y : bytes[j] \in Byte
      <4>1. \A j \in x + h .. y : j \in 1 .. n
        BY <1>3, <2>1, <2>4, <3>2
      <4> QED
        BY <4>1 DEF n
    <3>5. b \in Seq(Byte) /\ Len(b) = IF x + h <= y THEN y - (x + h) + 1 ELSE 0
      <4> DEFINE z == x + h
      <4>1. z \in Int /\ \A j \in z .. y : bytes[j] \in Byte
        BY <2>1, <2>4, <3>4
      <4> HIDE DEF z
      <4>2. SubSeq(bytes, z, y) \in Seq(Byte) /\ Len(SubSeq(bytes, z, y)) = IF z <= y THEN y - z + 1 ELSE 0
        BY <3>2, <4>1, SubSeqProperties
      <4> QED
        BY <3>3, <4>2 DEF z
    <3>6. Len(b) = g
      BY <2>1, <2>4, <3>1, <3>2, <3>5
    <3>7. b = <<>> => g = 0
      BY <3>6
    <3>8. b = <<>> /\ ikind = "dm2" => e = n + 1
      BY <1>3, <2>1, <2>4, <2>5, <3>1, <3>7
    <3>9. /\ l \in Seq(Seq(Byte)) /\ Len(l) = Len(list) + 1 /\ Len(list) \in Nat
          /\ \A i \in 1 .. Len(list) : l[i] = list[i]
          /\ l[Len(list) + 1] = b
      BY <1>2, <3>5, AppendProperties, LenProperties
    <3> HIDE DEF l
    <3>10. ASSUME NEW i \in 1 .. Len(l), ikind = "dm2", l[i] = <<>>
           PROVE  i = Len(l) /\ e = n + 1
      <4>1. CASE i \in 1 .. Len(list)
        BY <2>7, <3>9, <3>10, <4>1
      <4>2. CASE i \notin 1 .. Len(list)
        <5>1. i = Len(list) + 1
          BY <3>9, <4>2
        <5>2. b = <<>>
          BY <3>9, <3>10, <5>1
        <5> QED
          BY <3>8, <3>9, <3>10, <5>1, <5>2
      <4> QED
        BY <4>1, <4>2
    <3>11. Followed(S, k + 1, e, l)
      BY <2>1, <2>6, <3>9, <3>10, Zenon DEF Followed, n
    <3> QED
      BY <2>2, <2>9, <3>11, Zenon DEF IsFollowed, l, b
  <2> QED
    BY <2>8, <2>9
<1> QED
  BY <1>4, <1>5

IsAfterBlocks(after, s, n) ==
  after = [k \in 0 .. n |-> IF k = 0 THEN s ELSE BlockBehind(after[k - 1])]

LEMMA AfterBlocksExists ==
  ASSUME NEW n \in Nat, NEW s PROVE \E f : IsAfterBlocks(f, s, n)
<1> DEFINE Without == {m \in 0 .. n : ~ \E f : IsAfterBlocks(f, s, m)}
<1> SUFFICES ASSUME n \in Without PROVE FALSE
  OBVIOUS
<1>1. PICK m \in Without : \A k \in 0 .. m - 1 : k \notin Without
  <2>1. Without \in SUBSET Nat
    OBVIOUS
  <2> HIDE DEF Without
  <2> QED
    BY <2>1, LeastNumber
<1>2. CASE m = 0
  <2> DEFINE f == [k \in 0 .. 0 |-> s]
  <2>1. \A k \in 0 .. 0 : k = 0
    OBVIOUS
  <2>2. f = [k \in 0 .. 0 |-> IF k = 0 THEN s ELSE BlockBehind(f[k - 1])]
    BY <2>1
  <2>3. IsAfterBlocks(f, s, 0)
    BY <2>2, Zenon DEF IsAfterBlocks
  <2> QED
    BY <1>2, <2>3
<1>3. CASE m # 0
  <2>1. m - 1 \in 0 .. m - 1 /\ m - 1 \in 0 .. n /\ m \in Nat
    BY <1>3
  <2>2. PICK f : IsAfterBlocks(f, s, m - 1)
    BY <1>1, <2>1
  <2>3. f = [k \in 0 .. m - 1 |-> IF k = 0 THEN s ELSE BlockBehind(f[k - 1])]
    BY <2>2, Zenon DEF IsAfterBlocks
  <2> DEFINE h == [k \in 0 .. m |-> IF k = 0 THEN s ELSE BlockBehind(f[k - 1])]
  <2>4. ASSUME NEW k \in 0 .. m - 1 PROVE h[k] = f[k]
    <3>1. f[k] = IF k = 0 THEN s ELSE BlockBehind(f[k - 1])
      BY <2>3, Zenon
    <3>2. k \in 0 .. m
      BY <2>1
    <3> QED
      BY <3>1, <3>2, Zenon
  <2>5. ASSUME NEW k \in 0 .. m, k # 0 PROVE f[k - 1] = h[k - 1]
    <3>1. k - 1 \in 0 .. m - 1
      BY <2>1, <2>5
    <3> QED
      BY <2>4, <3>1
  <2>6. h = [k \in 0 .. m |-> IF k = 0 THEN s ELSE BlockBehind(f[k - 1])]
    OBVIOUS
  <2> HIDE DEF h
  <2>7. h = [k \in 0 .. m |-> IF k = 0 THEN s ELSE BlockBehind(h[k - 1])]
    BY <2>5, <2>6
  <2> QED
    BY <2>7 DEF IsAfterBlocks
<1> QED
  BY <1>2, <1>3

LEMMA BlocksNowAre ==
  ASSUME NEW S, Divides(ikind, original, bytes, S), bytes \in Seq(Byte), Len(original.track) \in Nat,
         ikind \in {"dem", "dm2"}, EmptyAtEnd(S), Len(Blocks) \in Nat
  PROVE  IsFollowed(S, Len(Blocks) + 1, BlocksNow)
<1> DEFINE n == Len(Blocks) + 1
           s == [p |-> Len(original.track) + 1, list |-> <<>>]
           after == CHOOSE f : f = [k \in 0 .. n |-> IF k = 0 THEN s ELSE BlockBehind(f[k - 1])]
<1>1. BlocksNow = after[n]
  BY DEF BlocksNow
<1>2. n \in Nat
  OBVIOUS
<1> HIDE DEF n
<1>3. \E f : f = [k \in 0 .. n |-> IF k = 0 THEN s ELSE BlockBehind(f[k - 1])]
  <2> HIDE DEF s
  <2>1. \E f : IsAfterBlocks(f, s, n)
    BY <1>2, AfterBlocksExists
  <2> QED
    BY <2>1, Zenon DEF IsAfterBlocks
<1>4. after = [k \in 0 .. n |-> IF k = 0 THEN s ELSE BlockBehind(after[k - 1])]
  BY <1>3, Zenon
<1> HIDE DEF after
<1>5. \A k \in 0 .. n : after[k] = IF k = 0 THEN s ELSE BlockBehind(after[k - 1])
  BY <1>4, Zenon
<1>6. IsFollowed(S, 0, s)
  <2> DEFINE x == Len(original.track) + 1
  <2>1. s = At(x, <<>>)
    BY Zenon DEF At
  <2>2. x \in S /\ S \in SUBSET (x .. Len(bytes) + 1)
    BY Zenon DEF Divides, FirstPlace
  <2>3. <<>> \in Seq(Seq(Byte)) /\ \A i \in 1 .. Len(<<>>) : FALSE
    OBVIOUS
  <2>4. 0 <= Cardinality(Before(S, x))
    <3>1. x \in Nat /\ Len(bytes) \in Nat
      BY LenProperties
    <3> HIDE DEF x
    <3>2. \A y \in S : ~ y < x
      BY <2>2, <3>1
    <3>3. Before(S, x) = {}
      BY <3>2, Zenon DEF Before
    <3> QED
      BY <3>3, FS_EmptySet
  <2> HIDE DEF s, x
  <2>5. Followed(S, 0, x, <<>>)
    BY <2>2, <2>3, <2>4, Zenon DEF Followed
  <2> QED
    BY <2>1, <2>5, Zenon DEF IsFollowed
<1> HIDE DEF s
<1> DEFINE Wrong == {k \in 0 .. n : ~ IsFollowed(S, k, after[k])}
<1>7. ASSUME Wrong # {} PROVE FALSE
  <2>1. PICK k \in Wrong : \A j \in 0 .. k - 1 : j \notin Wrong
    <3>1. Wrong \in SUBSET Nat
      OBVIOUS
    <3> HIDE DEF Wrong
    <3> QED
      BY <1>7, <3>1, LeastNumber
  <2>2. 0 \in 0 .. n
    BY <1>2
  <2>3. k # 0
    BY <1>5, <1>6, <2>2
  <2> DEFINE j == k - 1
  <2>4. j \in 0 .. k - 1 /\ j \in 0 .. n /\ j \in Nat /\ k = j + 1 /\ k \in 0 .. n
    BY <1>2, <2>3
  <2>5. IsFollowed(S, j, after[j])
    BY <2>1, <2>4
  <2>6. after[k] = BlockBehind(after[j])
    BY <1>5, <2>3, <2>4
  <2> HIDE DEF j, Wrong
  <2>7. IsFollowed(S, j + 1, BlockBehind(after[j]))
    BY <2>4, <2>5, FollowedNext
  <2>8. IsFollowed(S, k, after[k])
    BY <2>4, <2>6, <2>7, Zenon
  <2> QED
    BY <2>8, Zenon DEF Wrong
<1>8. n \in 0 .. n
  BY <1>2
<1>9. IsFollowed(S, n, after[n])
  BY <1>7, <1>8
<1> QED
  BY <1>1, <1>9, Zenon DEF n

LEMMA DoneIsRecording ==
  ASSUME InplaceInv PROVE StillARecording
<1> SUFFICES ASSUME iphase = "done"
             PROVE  /\ BlocksNow.p = Len(bytes) + 1 /\ Len(bytes) = Len(OriginalBytes)
                    /\ ikind = "dm2" => \A i \in 1 .. Len(BlocksNow.list) - 1 : BlocksNow.list[i] # <<>>
  BY Zenon DEF StillARecording, InplaceDone
<1>1. iphase # "off" /\ iphase \in {"block", "done"}
  OBVIOUS
<1>2. /\ ikind \in {"dem", "dm2"}
      /\ Len(original.track) \in Nat /\ Len(Blocks) \in Nat
      /\ bytes \in Seq(Byte) /\ Len(bytes) \in Nat /\ Len(bytes) = Len(OriginalBytes)
  BY <1>1, RecordingIs DEF Blocks
<1>3. Sound(ikind, original, bytes, Len(bytes) + 1, lastwasbetweenblock)
  BY <1>1, Zenon DEF InplaceInv, BetweenInv
<1>4. PICK S : SoundWith(ikind, original, bytes, Len(bytes) + 1, lastwasbetweenblock, S)
  BY <1>3, Zenon DEF Sound
<1>5. /\ Divides(ikind, original, bytes, S) /\ EmptyAtEnd(S)
  BY <1>4, Zenon DEF SoundWith, NoneEmpty, EmptyAtEnd
<1>6. IsFollowed(S, Len(Blocks) + 1, BlocksNow)
  BY <1>2, <1>5, BlocksNowAre
<1>7. PICK x, list : BlocksNow = At(x, list) /\ Followed(S, Len(Blocks) + 1, x, list)
  BY <1>6, Zenon DEF IsFollowed
<1> DEFINE n == Len(Blocks)
           z == Len(bytes) + 1
<1>8. /\ x \in S /\ list \in Seq(Seq(Byte)) /\ (x = z \/ n + 1 <= Cardinality(Before(S, x)))
      /\ ikind = "dm2" => \A i \in 1 .. Len(list) : list[i] = <<>> => i = Len(list)
  BY <1>7, Zenon DEF Followed
<1>9. /\ S \in SUBSET (FirstPlace(original) .. z) /\ z \in S /\ Cardinality(S) <= n + 2
  BY <1>5, Zenon DEF Divides, Blocks
<1>10. x = z
  <2> SUFFICES ASSUME x # z PROVE FALSE
    OBVIOUS
  <2> DEFINE a == FirstPlace(original)
  <2>1. a \in Nat /\ z \in Nat /\ n \in Nat
    BY <1>2 DEF FirstPlace
  <2>2. S \in SUBSET (a .. z) /\ z \in S /\ Cardinality(S) <= n + 2 /\ x \in S /\ x # z
        /\ n + 1 <= Cardinality(Before(S, x))
    BY <1>8, <1>9
  <2> HIDE DEF a, z, n
  <2>3. IsFiniteSet(S)
    <3>1. IsFiniteSet(a .. z)
      BY <2>1, FS_Interval
    <3> QED
      BY <2>2, <3>1, FS_Subset
  <2>4. S \in SUBSET Nat /\ x < z
    BY <2>1, <2>2
  <2>5. /\ Cardinality(Before(S, x)) \in Nat /\ Cardinality(Before(S, z)) \in Nat
        /\ Cardinality(Before(S, x)) + 1 <= Cardinality(Before(S, z))
        /\ Cardinality(Before(S, z)) + 1 <= Cardinality(S)
    BY <2>2, <2>3, <2>4, PassedMore
  <2>6. Cardinality(S) \in Nat
    BY <2>3, FS_CardinalityType
  <2> QED
    BY <2>1, <2>2, <2>5, <2>6
<1>11. BlocksNow.p = z /\ BlocksNow.list = list
  BY <1>7, <1>10 DEF At
<1>12. ASSUME ikind = "dm2", NEW i \in 1 .. Len(list) - 1 PROVE list[i] # <<>>
  <2>1. Len(list) \in Nat
    BY <1>8, LenProperties
  <2>2. i \in 1 .. Len(list) /\ i # Len(list)
    BY <1>12, <2>1
  <2> QED
    BY <1>8, <1>12, <2>2, Zenon
<1> QED
  BY <1>2, <1>11, <1>12, Zenon

\* A repaired recording is as long as it was, made of blocks that follow each other to its
\* end, and no empty block is left in front of another: an empty block is made one with the
\* next, and what is repaired never crosses the end of a block.
THEOREM StaysARecording == Spec => []StillARecording
<1>1. InplaceInv => StillARecording
  BY DoneIsRecording
<1> QED
  BY <1>1, InplaceInvariant, PTL

-----------------------------------------------------------------------------
(* The repair comes to an end. *)

StepsLeft == [search |-> 5, fields |-> 4, merge |-> 3, write |-> 2, block |-> 1, done |-> 0,
              lost |-> 0, off |-> 0]
\* A step reads on in the file, or ends a part of what is done with a block, or lets the
\* search go on in the block.
Advances ==
  /\ Len(bytes') = Len(bytes)
  /\ \/ at < at'
     \/ at' = at /\ StepsLeft[iphase'] < StepsLeft[iphase]
     \/ /\ at' = at /\ iphase = "search" /\ iphase' = "search"
        /\ Len(buffer') = Len(buffer) /\ bufferbase < bufferbase'

LEMMA ReadBlockAdvances ==
  ASSUME InplaceInv, ReadBlock PROVE at < at'
<1>1. iphase = "block" /\ iphase' = "search"
  BY Zenon DEF ReadBlock
<1>2. PICK size \in {get_next_long(bytes, at + 1)} :
        \E end \in {at + (IF size = -1 THEN 4 ELSE HeadBytes + size)} :
          buffer' = SubSeq(bytes, at + 1, end) /\ at' = end
  BY Zenon DEF ReadBlock
<1>3. buffer' = SubSeq(bytes, at + 1, at')
  BY <1>2
<1>4. /\ bytes \in Seq(Byte) /\ at \in Nat /\ at <= Len(bytes)
  BY <1>1, RecordingIs
<1>5. InplaceInv'
  BY ReadBlockStep
<1>6. /\ at' \in 0 .. Len(bytes') /\ bytes' = bytes
      /\ InHand(ikind', original', bytes', buffer', at' + 1, iphase' = "merge" \/ lastwasbetweenblock')
      /\ buffer' \in Seq(Byte)
  BY <1>1, <1>5, Zenon DEF InplaceInv, FileTypeInv, InHandInv, ReadBlock
<1>7. (at' + 1) - Len(buffer') < at' + 1
  BY <1>6, Zenon DEF InHand, InHandWith
<1>8. at' \in Nat /\ at' <= Len(bytes)
  BY <1>4, <1>6, LenProperties
<1>9. at' <= at => Len(buffer') = 0
  <2> DEFINE x == at + 1
             m == at'
  <2>1. x \in Nat /\ x > 0 /\ m \in Int /\ (at' <= at => ~ x <= m)
        /\ \A k \in x .. m : bytes[k] \in Byte
    BY <1>4, <1>8
  <2>2. buffer' = SubSeq(bytes, x, m)
    BY <1>3
  <2> HIDE DEF x, m
  <2>3. Len(buffer') = IF x <= m THEN m - x + 1 ELSE 0
    BY <1>4, <2>1, <2>2, SubSeqProperties
  <2> QED
    BY <2>1, <2>3
<1>10. Len(buffer') # 0
  <2>1. Len(buffer') \in Nat
    BY <1>6, LenProperties
  <2> QED
    BY <1>7, <1>8, <2>1
<1> QED
  BY <1>4, <1>8, <1>9, <1>10

LEMMA SearchAdvances ==
  ASSUME InplaceInv, SearchDEM \/ SearchDM2, iphase' = "search"
  PROVE  bufferbase < bufferbase' /\ Len(buffer') = Len(buffer)
<1>1. iphase = "search" /\ bufferbase <= Len(buffer)
  BY Zenon DEF SearchDEM, SearchDM2
<1>2. /\ buffer \in Seq(Byte) /\ Len(buffer) \in Nat
      /\ bufferbase \in HeadBytes + 1 .. Len(buffer) + 2
      /\ ikind = "dm2" => TextsEnd(buffer)
      /\ changed \in BOOLEAN
  BY <1>1, LenProperties, Zenon DEF InplaceInv, InHandInv, SearchInv, FileTypeInv
<1>3. bufferbase \in Nat /\ bufferbase >= 5
  BY <1>2 DEF HeadBytes
<1>4. CASE SearchDEM
  <2> DEFINE found == memmem(buffer, bufferbase, FixMultiString)
             i == Min(found)
             n == Len(FixMultiString)
  <2>1. buffer' = Nops(buffer, i, i + n - 1, c_nop) /\ bufferbase' = bufferbase + n + 1
    BY <1>1, <1>4 DEF SearchDEM
  <2>2. DOMAIN buffer' = DOMAIN buffer
    BY <2>1 DEF Nops
  <2>3. n = 12
    BY FixMultiIs
  <2>4. c_nop \in Byte
    BY BytesAre DEF c_nop
  <2> HIDE DEF i, n
  <2>5. Len(buffer') = Len(buffer)
    BY <1>2, <2>1, <2>4, NopsAre
  <2> QED
    BY <1>3, <2>1, <2>3, <2>5
<1>5. CASE SearchDM2
  <2> DEFINE s0 == [b |-> buffer, base |-> bufferbase, changed |-> changed]
             s  == SearchedOnce(s0)
  <2>1. /\ ikind = "dm2" /\ buffer' = s.b
        /\ bufferbase' = (IF s.changed THEN s.base + 1 ELSE bufferbase)
        /\ iphase' = (IF s.changed THEN iphase ELSE "fields")
    BY <1>5, Zenon DEF SearchDM2
  <2>2. s.changed /\ bufferbase' = s.base + 1
    BY <2>1, Zenon
  <2>3. bufferbase >= bufferbase /\ bufferbase <= Len(buffer) + 1 /\ Len(buffer) >= 4
    BY <1>1, <1>2, <1>3
  <2>4. Searching(buffer, bufferbase, s0)
    <3>1. s0.b = buffer /\ s0.base = bufferbase /\ s0.changed = changed
      OBVIOUS
    <3> HIDE DEF s0
    <3> QED
      BY <1>2, <1>3, <2>1, <2>3, <3>1, Zenon DEF Searching, RepairedOf
  <2>5. Searching(buffer, bufferbase, s)
    BY <1>2, <1>3, <2>3, <2>4, SearchedOnceIs
  <2> HIDE DEF s
  <2>6. s.base \in Nat /\ s.base >= bufferbase /\ Len(s.b) = Len(buffer)
    BY <2>5, Zenon DEF Searching, RepairedOf
  <2>7. bufferbase < s.base + 1
    BY <1>3, <2>6
  <2> QED
    BY <2>1, <2>2, <2>6, <2>7, Zenon
<1> QED
  BY <1>4, <1>5

\* The file keeps its length, and each step reads on in it, is the next part of what is done
\* with the block or takes the search on in the block: no loop is entered again where it
\* was.  As the two places are bounded (LmpcTypeCorrect), a repair is a finite number of steps.
THEOREM RepairAdvances == Spec => [][Advances]_ivars
<1>1. InplaceInv /\ InplaceInv' /\ [Next]_mvars => [Advances]_ivars
  <2> SUFFICES ASSUME InplaceInv, InplaceInv', ActionInplace PROVE Advances
    BY Zenon DEF Next, acConvert, acInplace, Ended, mvars
  <2>1. /\ iphase \in {"block", "search", "fields", "merge", "write"}
        /\ iphase' \in {"block", "search", "fields", "merge", "write", "done", "lost"}
        /\ UNCHANGED <<ikind, original>>
    BY DEF ActionInplace, ReadBlock, SearchDEM, SearchDM2, SearchEnds, Fields, Merge, MergeEnd,
           WriteBack, Close
  <2>2. Len(bytes') = Len(bytes)
    <3>1. OriginalBytes' = OriginalBytes
      BY <2>1, Zenon DEF OriginalBytes
    <3>2. iphase # "off" /\ iphase' # "off"
      BY <2>1
    <3> QED
      BY <3>1, <3>2, Zenon DEF InplaceInv, FileTypeInv
  <2>3. CASE ReadBlock
    BY <2>2, <2>3, ReadBlockAdvances, Zenon DEF Advances
  <2>4. CASE SearchDEM \/ SearchDM2
    <3>1. at' = at /\ iphase = "search" /\ iphase' \in {"search", "fields", "write"}
      BY <2>1, <2>4 DEF SearchDEM, SearchDM2
    <3>2. CASE iphase' = "search"
      BY <2>2, <2>4, <3>1, <3>2, SearchAdvances, Zenon DEF Advances
    <3>3. CASE iphase' # "search"
      <4>1. StepsLeft[iphase'] < StepsLeft[iphase]
        BY <3>1, <3>3 DEF StepsLeft
      <4> QED
        BY <2>2, <3>1, <4>1, Zenon DEF Advances
    <3> QED
      BY <3>2, <3>3
  <2>5. CASE SearchEnds \/ Fields \/ Merge \/ MergeEnd \/ WriteBack \/ Close
    <3>1. /\ at' = at
          /\ \/ iphase = "search" /\ iphase' \in {"fields", "write"}
             \/ iphase = "fields" /\ iphase' \in {"merge", "write"}
             \/ iphase = "merge" /\ iphase' \in {"write", "lost"}
             \/ iphase = "write" /\ iphase' = "block"
             \/ iphase = "block" /\ iphase' = "done"
      <4>1. CASE SearchEnds
        BY <4>1 DEF SearchEnds
      <4>2. CASE Fields
        BY <4>2 DEF Fields
      <4>3. CASE Merge \/ MergeEnd
        BY <4>3 DEF Merge, MergeEnd
      <4>4. CASE WriteBack \/ Close
        BY <4>4 DEF WriteBack, Close
      <4> QED
        BY <2>5, <4>1, <4>2, <4>3, <4>4
    <3>2. StepsLeft[iphase'] < StepsLeft[iphase]
      BY <3>1 DEF StepsLeft
    <3> QED
      BY <2>2, <3>1, <3>2, Zenon DEF Advances
  <2> QED
    BY <2>3, <2>4, <2>5, Zenon DEF ActionInplace
<1> QED
  BY <1>1, InplaceInvariant, PTL DEF Spec
=============================================================================
