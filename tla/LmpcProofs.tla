----------------------------- MODULE LmpcProofs -----------------------------
(***************************************************************************)
(* Theorems about ActionConvert in Lmpc: for every LMP file and every      *)
(* choice of options, the output holds the tics asked for behind a header  *)
(* that reads as the one asked for.                                        *)
(***************************************************************************)
EXTENDS Lmpc, Powers, SequenceTheorems

-----------------------------------------------------------------------------
(***************************************************************************)
(* The inductive invariant.                                                *)
(***************************************************************************)
Input == li[1]

\* The games an LMP may be of, and is written as.
GameSets == {{g} : g \in Games} \cup {NewDoom}

\* All actions work on one file with one choice of options.
FileInv ==
  lphase # "off" => \E c \in Conversions : lfile = c.lfile /\ opt = c.opt
\* What was read is an LMP of one of its games.
ReadInv ==
  lphase \in {"options", "tics", "copy", "end", "done"} =>
    \E games \in GameSets :
      /\ IsLmp(lfile.bytes, LayoutOf(games))
      /\ li = <<LmpIn(lfile.bytes, games, LayoutOf(games))>>

\* The first n of the tics asked for.
Asked       == [n \in 1 .. Input.stics |-> TicAsked(n)]
Flat(f, n)  == FlattenSeq([i \in 1 .. n |-> f[i]])
Distinct    == opt.pause => OneToggle

\* The header of b reads as the one asked for.
WantedLayout   == LayoutOf(o_game(Input))
WantedSize     == HeaderSize(WantedLayout)
HeaderReads(b) ==
  /\ [n \in FieldNames |-> FieldOf(b, WantedLayout, n)] = Kept(Wanted(Input))
  /\ [s \in PlayersIn(b, WantedLayout) |-> ClassOf(b, WantedLayout, s)] = Input.players
\* What was written up to wpos is a header and whole tics.
HeadInv ==
  lphase \in {"tics", "copy", "end"} =>
    /\ ~ Impossible(Input)
    /\ made \in Seq(Byte) /\ wpos \in WantedSize .. Len(made)
    /\ \E c \in Nat : wpos = WantedSize + c * TicSize(Input)
    /\ HasPlaces(Wanted(Input)) => HeaderReads(made)

\* Until the header is written, nothing is.
StartInv ==
  lphase \in {"off", "open", "options", "aborted"} =>
    made = <<>> /\ stic = 1 /\ p = 0 /\ ~ currentpause /\ ~ newpause

\* The tics among the first n that press pause.
Pressed(n) == {k \in 1 .. n : Use(TicAt(lfile.bytes, Input, k)) = 129}
IsOdd(S)   == Cardinality(S) % 2 = 1
\* p tics of the multi tic in hand are done; currentpause is what held before the
\* multi tic, newpause what holds after it.
PauseInv ==
  lphase = "tics" =>
    /\ stic > 1 => p > 0
    /\ \E m \in Nat : stic - 1 = m * PlayerNum(Input) + p
    /\ IF ~ opt.pause THEN ~ currentpause /\ ~ newpause
       ELSE OneToggle => /\ currentpause <=> IsOdd(Pressed(stic - 1 - p))
                         /\ newpause <=> IsOdd(Pressed(stic - 1))

\* Behind the header are the tics asked for, as far as they are written.
Body(n) == SubSeq(made, WantedSize + 1, wpos) = Flat(Asked, n)
TicsInv ==
  /\ lphase = "tics" => /\ NewTics /\ wpos = Len(made)
                        /\ Distinct => Body(stic - 1)
  /\ lphase = "copy" => NewFile(Input) /\ ~ NewTics /\ wpos = Len(made) /\ wpos = WantedSize
  /\ lphase = "end"  => /\ wpos \in {Len(made), Len(made) - 1}
                        /\ Distinct => Body(Input.stics)
                        /\ ~ NewFile(Input) => wpos < Len(made) /\ Last(made) = Last(lfile.bytes)

DoneInv == (LmpDone => made \in Seq(Byte)) /\ TicsAsAsked /\ HeaderAsAsked
ConvertInv ==
  FileInv /\ ReadInv /\ StartInv /\ HeadInv /\ PauseInv /\ TicsInv /\ DoneInv /\ LmpTypeOK

\* End of the invariant
-----------------------------------------------------------------------------
(* FlattenSeq. *)

IsFlat(g, f, n) ==
  g = [i \in 1 .. n |-> IF i = 1 THEN f[i] ELSE g[i - 1] \o f[i]]

LEMMA FlatExists ==
  ASSUME NEW n \in Nat, NEW f PROVE \E g : IsFlat(g, f, n)
<1> DEFINE Without == {m \in 0 .. n : ~ \E g : IsFlat(g, f, m)}
<1> SUFFICES ASSUME n \in Without PROVE FALSE
  OBVIOUS
<1>1. PICK m \in Without : \A k \in 0 .. m - 1 : k \notin Without
  <2>1. Without \in SUBSET Nat
    OBVIOUS
  <2> HIDE DEF Without
  <2> QED
    BY <2>1, LeastNumber
<1>2. CASE m = 0
  <2> DEFINE g == [i \in 1 .. 0 |-> f[i]]
  <2>1. IsFlat(g, f, 0)
    BY DEF IsFlat
  <2> QED
    BY <1>2, <2>1
<1>3. CASE m # 0
  <2>1. m - 1 \in 0 .. m - 1 /\ m - 1 \in 0 .. n /\ m \in Nat
    BY <1>3
  <2>2. PICK g : IsFlat(g, f, m - 1)
    BY <1>1, <2>1
  <2>3. g = [i \in 1 .. m - 1 |-> IF i = 1 THEN f[i] ELSE g[i - 1] \o f[i]]
    BY <2>2 DEF IsFlat
  <2> DEFINE h == [i \in 1 .. m |-> IF i = 1 THEN f[i] ELSE g[i - 1] \o f[i]]
  <2>4. ASSUME NEW i \in 1 .. m - 1 PROVE h[i] = g[i]
    <3>1. g[i] = IF i = 1 THEN f[i] ELSE g[i - 1] \o f[i]
      BY <2>3
    <3>2. i \in 1 .. m
      BY <2>1
    <3> QED
      BY <3>1, <3>2
  <2>5. ASSUME NEW i \in 1 .. m, i # 1 PROVE g[i - 1] = h[i - 1]
    <3>1. i - 1 \in 1 .. m - 1
      BY <2>1, <2>5
    <3> QED
      BY <2>4, <3>1
  <2>6. h = [i \in 1 .. m |-> IF i = 1 THEN f[i] ELSE g[i - 1] \o f[i]]
    OBVIOUS
  <2> HIDE DEF h
  <2>7. h = [i \in 1 .. m |-> IF i = 1 THEN f[i] ELSE h[i - 1] \o f[i]]
    BY <2>5, <2>6
  <2> QED
    BY <2>7 DEF IsFlat
<1> QED
  BY <1>2, <1>3

LEMMA FlatUnique ==
  ASSUME NEW n \in Nat, NEW m \in Nat, n <= m, NEW f, NEW e, NEW g, NEW h,
         IsFlat(g, f, n), IsFlat(h, e, m), \A i \in 1 .. n : f[i] = e[i]
  PROVE  \A i \in 1 .. n : g[i] = h[i]
<1> DEFINE Differ == {i \in 1 .. n : g[i] # h[i]}
<1> SUFFICES ASSUME Differ # {} PROVE FALSE
  OBVIOUS
<1>1. PICK i \in Differ : \A k \in 0 .. i - 1 : k \notin Differ
  <2>1. Differ \in SUBSET Nat
    OBVIOUS
  <2> HIDE DEF Differ
  <2> QED
    BY <2>1, LeastNumber
<1>2. /\ g[i] = IF i = 1 THEN f[i] ELSE g[i - 1] \o f[i]
      /\ h[i] = IF i = 1 THEN e[i] ELSE h[i - 1] \o e[i]
  <2>1. i \in 1 .. n /\ i \in 1 .. m
    OBVIOUS
  <2>2. g = [k \in 1 .. n |-> IF k = 1 THEN f[k] ELSE g[k - 1] \o f[k]]
    BY DEF IsFlat
  <2>3. h = [k \in 1 .. m |-> IF k = 1 THEN e[k] ELSE h[k - 1] \o e[k]]
    BY DEF IsFlat
  <2>4. g[i] = IF i = 1 THEN f[i] ELSE g[i - 1] \o f[i]
    BY <2>1, <2>2
  <2>5. h[i] = IF i = 1 THEN e[i] ELSE h[i - 1] \o e[i]
    BY <2>1, <2>3
  <2> QED
    BY <2>4, <2>5
<1>3. CASE i = 1
  BY <1>2, <1>3
<1>4. CASE i # 1
  <2>1. i - 1 \in 1 .. n /\ i - 1 \in 0 .. i - 1
    BY <1>4
  <2>2. g[i - 1] = h[i - 1]
    BY <1>1, <2>1
  <2> QED
    BY <1>2, <1>4, <2>2
<1> QED
  BY <1>3, <1>4

LEMMA FlatIs ==
  ASSUME NEW f, Len(f) \in Nat, Len(f) # 0
  PROVE  \E g : IsFlat(g, f, Len(f)) /\ FlattenSeq(f) = g[Len(f)]
<1> DEFINE g == CHOOSE h : h = [i \in 1 .. Len(f) |-> IF i = 1 THEN f[i] ELSE h[i - 1] \o f[i]]
<1>1. FlattenSeq(f) = g[Len(f)]
  BY DEF FlattenSeq
<1>2. \E h : h = [i \in 1 .. Len(f) |-> IF i = 1 THEN f[i] ELSE h[i - 1] \o f[i]]
  BY FlatExists DEF IsFlat
<1>3. g = [i \in 1 .. Len(f) |-> IF i = 1 THEN f[i] ELSE g[i - 1] \o f[i]]
  BY <1>2, Zenon
<1> HIDE DEF g
<1> QED
  BY <1>1, <1>3, Zenon DEF IsFlat

LEMMA FlatOfNone ==
  ASSUME NEW f PROVE Flat(f, 0) = <<>>
<1>1. [i \in 1 .. 0 |-> f[i]] = <<>>
  OBVIOUS
<1> QED
  BY <1>1 DEF Flat, FlattenSeq

LEMMA FlatOfMore ==
  ASSUME NEW S, NEW n \in Nat, NEW f, \A i \in 1 .. n + 1 : f[i] \in Seq(S)
  PROVE  Flat(f, n + 1) = Flat(f, n) \o f[n + 1]
<1> DEFINE a == [i \in 1 .. n + 1 |-> f[i]]
           b == [i \in 1 .. n |-> f[i]]
<1>1. /\ Len(a) = n + 1 /\ Len(b) = n /\ n + 1 \in 1 .. n + 1
      /\ \A i \in 1 .. n : a[i] = f[i] /\ b[i] = f[i]
      /\ a[n + 1] = f[n + 1] /\ f[n + 1] \in Seq(S)
  OBVIOUS
<1> HIDE DEF a, b
<1>2. PICK g : IsFlat(g, a, n + 1) /\ FlattenSeq(a) = g[n + 1]
  <2>1. Len(a) \in Nat /\ Len(a) # 0
    BY <1>1
  <2> QED
    BY <1>1, <2>1, FlatIs
<1>3. g[n + 1] = IF n + 1 = 1 THEN a[n + 1] ELSE g[(n + 1) - 1] \o a[n + 1]
  <2>1. g = [i \in 1 .. n + 1 |-> IF i = 1 THEN a[i] ELSE g[i - 1] \o a[i]]
    BY <1>2 DEF IsFlat
  <2> QED
    BY <1>1, <2>1
<1>4. CASE n = 0
  <2>1. Flat(f, n) = <<>>
    BY <1>4, FlatOfNone
  <2>2. Flat(f, n + 1) = f[n + 1]
    BY <1>1, <1>2, <1>3, <1>4 DEF Flat, a
  <2> QED
    BY <1>1, <2>1, <2>2, ConcatEmptySeq
<1>5. CASE n # 0
  <2>1. PICK h : IsFlat(h, b, n) /\ FlattenSeq(b) = h[n]
    <3>1. Len(b) \in Nat /\ Len(b) # 0
      BY <1>1, <1>5
    <3> QED
      BY <1>1, <3>1, FlatIs
  <2>2. \A i \in 1 .. n : h[i] = g[i]
    <3>1. n <= n + 1 /\ n + 1 \in Nat /\ \A i \in 1 .. n : b[i] = a[i]
      BY <1>1
    <3> QED
      BY <1>2, <2>1, <3>1, FlatUnique
  <2>3. n \in 1 .. n /\ n + 1 # 1 /\ (n + 1) - 1 = n
    BY <1>5
  <2>4. FlattenSeq(a) = h[n] \o f[n + 1]
    BY <1>1, <1>2, <1>3, <2>2, <2>3
  <2> QED
    BY <2>1, <2>4 DEF Flat, a, b
<1> QED
  BY <1>4, <1>5

LEMMA FlatTyped ==
  ASSUME NEW S, NEW n \in Nat, NEW f, \A i \in 1 .. n : f[i] \in Seq(S)
  PROVE  Flat(f, n) \in Seq(S)
<1> DEFINE Wrong == {m \in 0 .. n : Flat(f, m) \notin Seq(S)}
<1> SUFFICES ASSUME Wrong # {} PROVE FALSE
  OBVIOUS
<1>1. PICK m \in Wrong : \A k \in 0 .. m - 1 : k \notin Wrong
  <2>1. Wrong \in SUBSET Nat
    OBVIOUS
  <2> HIDE DEF Wrong
  <2> QED
    BY <2>1, LeastNumber
<1>2. CASE m = 0
  <2>1. Flat(f, 0) \in Seq(S)
    <3>1. <<>> \in Seq(S)
      OBVIOUS
    <3> QED
      BY <3>1, FlatOfNone, Zenon
  <2> QED
    BY <1>2, <2>1
<1>3. CASE m # 0
  <2>1. /\ m - 1 \in 0 .. m - 1 /\ m - 1 \in 0 .. n /\ m - 1 \in Nat /\ (m - 1) + 1 = m
        /\ \A i \in 1 .. (m - 1) + 1 : f[i] \in Seq(S)
    BY <1>3
  <2>2. Flat(f, (m - 1) + 1) = Flat(f, m - 1) \o f[(m - 1) + 1]
    BY <2>1, FlatOfMore
  <2>3. Flat(f, m - 1) \in Seq(S) /\ f[m] \in Seq(S)
    BY <1>1, <2>1
  <2>4. Flat(f, m - 1) \o f[m] \in Seq(S)
    BY <2>3, ConcatProperties
  <2> QED
    BY <2>1, <2>2, <2>4
<1> QED
  BY <1>2, <1>3

\* Pieces of one length.
LEMMA FlatOfEqual ==
  ASSUME NEW S, NEW n \in Nat, NEW l \in Nat, NEW f,
         \A i \in 1 .. n : f[i] \in Seq(S) /\ Len(f[i]) = l
  PROVE  /\ Len(Flat(f, n)) = n * l
         /\ \A i \in 1 .. n : \A j \in 1 .. l : Flat(f, n)[(i - 1) * l + j] = f[i][j]
<1> DEFINE Good(m) == /\ Len(Flat(f, m)) = m * l
                      /\ \A i \in 1 .. m : \A j \in 1 .. l : Flat(f, m)[(i - 1) * l + j] = f[i][j]
           Wrong == {m \in 0 .. n : ~ Good(m)}
<1> SUFFICES Good(n)
  OBVIOUS
<1> HIDE DEF Good
<1> SUFFICES ASSUME Wrong # {} PROVE FALSE
  OBVIOUS
<1>1. PICK m \in Wrong : \A k \in 0 .. m - 1 : k \notin Wrong
  <2>1. Wrong \in SUBSET Nat
    OBVIOUS
  <2> HIDE DEF Wrong
  <2> QED
    BY <2>1, LeastNumber
<1>2. CASE m = 0
  <2>1. Len(<<>>) = 0 * l
    OBVIOUS
  <2>2. Flat(f, 0) = <<>>
    BY FlatOfNone
  <2>3. Good(0)
    BY <2>1, <2>2 DEF Good
  <2> QED
    BY <1>2, <2>3
<1>3. CASE m # 0
  <2> DEFINE k == m - 1
             s == Flat(f, k)
             t == f[m]
  <2>1. k \in 0 .. m - 1 /\ k \in 0 .. n /\ k \in Nat /\ k + 1 = m /\ m \in 1 .. n
        /\ \A i \in 1 .. k + 1 : f[i] \in Seq(S)
    BY <1>3
  <2>2. Flat(f, m) = s \o t
    <3>1. Flat(f, k + 1) = Flat(f, k) \o f[k + 1]
      <4> HIDE DEF k
      <4> QED
        BY <2>1, FlatOfMore
    <3> QED
      BY <2>1, <3>1
  <2>3. Good(k)
    BY <1>1, <2>1
  <2>4. s \in Seq(S) /\ t \in Seq(S) /\ Len(t) = l
    <3>1. \A i \in 1 .. k : f[i] \in Seq(S)
      BY <2>1
    <3>2. Flat(f, k) \in Seq(S)
      <4> HIDE DEF k
      <4> QED
        BY <2>1, <3>1, FlatTyped
    <3> QED
      BY <2>1, <3>2
  <2>5. Len(s) = k * l /\ k * l \in Nat
    BY <2>1, <2>3 DEF Good
  <2>6. /\ Len(s \o t) = Len(s) + Len(t)
        /\ \A i \in 1 .. Len(s) + Len(t) : (s \o t)[i] = IF i <= Len(s) THEN s[i] ELSE t[i - Len(s)]
    <3> HIDE DEF s, t
    <3> QED
      BY <2>4, ConcatProperties
  <2>7. m * l = k * l + l
    <3> HIDE DEF k
    <3>1. (k + 1) * l = k * l + l
      BY <2>1
    <3> QED
      BY <2>1, <3>1
  <2> HIDE DEF s, t
  <2>8. ASSUME NEW i \in 1 .. m, NEW j \in 1 .. l
        PROVE  (s \o t)[(i - 1) * l + j] = f[i][j]
    <3>1. CASE i = m
      <4>1. (i - 1) * l + j = Len(s) + j
        BY <2>5, <3>1
      <4>2. Len(s) + j \in 1 .. Len(s) + Len(t) /\ ~(Len(s) + j <= Len(s)) /\ (Len(s) + j) - Len(s) = j
        BY <2>4, <2>5
      <4> QED
        BY <2>6, <3>1, <4>1, <4>2 DEF t
    <3>2. CASE i # m
      <4>1. i \in 1 .. k
        BY <2>1, <3>2
      <4>2. Flat(f, k)[(i - 1) * l + j] = f[i][j]
        BY <2>3, <4>1 DEF Good
      <4>3. (i - 1) * l + j \in 1 .. Len(s)
        <5>1. i - 1 \in Nat /\ (i - 1) * l \in Nat
          <6> DEFINE q == i - 1
          <6>1. q \in Nat
            BY <4>1
          <6> HIDE DEF q
          <6>2. q * l \in Nat
            BY <6>1
          <6> QED
            BY <6>1, <6>2 DEF q
        <5>2. (i - 1) * l + l <= k * l
          <6> DEFINE d == k - i
          <6>1. d \in Nat /\ k = (i - 1) + 1 + d
            BY <2>1, <4>1
          <6> HIDE DEF d, k
          <6>2. ((i - 1) + 1 + d) * l = (i - 1) * l + l + d * l /\ d * l \in Nat
            BY <5>1, <6>1
          <6> QED
            BY <5>1, <6>1, <6>2
        <5> DEFINE v == (i - 1) * l
        <5>3. v \in Nat /\ v + l <= Len(s)
          BY <2>5, <5>1, <5>2
        <5> HIDE DEF v
        <5>4. v + j \in 1 .. Len(s)
          BY <2>5, <5>3
        <5> QED
          BY <5>4 DEF v
      <4>4. (i - 1) * l + j \in 1 .. Len(s) + Len(t) /\ (i - 1) * l + j <= Len(s)
        BY <2>4, <2>5, <4>3
      <4> QED
        BY <2>6, <4>2, <4>4 DEF s
    <3> QED
      BY <3>1, <3>2
  <2>9. Good(m)
    <3>1. Len(s \o t) = m * l
      BY <2>4, <2>5, <2>6, <2>7
    <3> QED
      BY <2>2, <2>8, <3>1, Zenon DEF Good
  <2> QED
    BY <2>9
<1> QED
  BY <1>2, <1>3

\* The n pieces of length l, one after the other, are t.
Pieces(f, n, l, S) == \A i \in 1 .. n : f[i] \in Seq(S) /\ Len(f[i]) = l
IsJoined(t, f, n, l) ==
  /\ Len(t) = n * l
  /\ \A i \in 1 .. n : \A j \in 1 .. l : t[(i - 1) * l + j] = f[i][j]

LEMMA FlatIsJoined ==
  ASSUME NEW S, NEW n \in Nat, NEW l \in Nat, NEW f, Pieces(f, n, l, S)
  PROVE  IsJoined(Flat(f, n), f, n, l)
<1>1. \A i \in 1 .. n : f[i] \in Seq(S) /\ Len(f[i]) = l
  BY DEF Pieces
<1>2. /\ Len(Flat(f, n)) = n * l
      /\ \A i \in 1 .. n : \A j \in 1 .. l : Flat(f, n)[(i - 1) * l + j] = f[i][j]
  BY <1>1, FlatOfEqual
<1> QED
  BY <1>2 DEF IsJoined

\* n pieces of length l that follow each other in s, behind h.
ArePieces(f, n, l, s, h) ==
  /\ h + n * l <= Len(s)
  /\ \A i \in 1 .. n : f[i] = SubSeq(s, h + (i - 1) * l + 1, h + (i - 1) * l + l)

LEMMA FlatOfPieces ==
  ASSUME NEW S, NEW s \in Seq(S), NEW n \in Nat, NEW l \in Nat, NEW h \in Nat,
         NEW f, ArePieces(f, n, l, s, h)
  PROVE  Flat(f, n) = SubSeq(s, h + 1, h + n * l)
<1> DEFINE Good(m) == Flat(f, m) = SubSeq(s, h + 1, h + m * l)
           Wrong == {m \in 0 .. n : ~ Good(m)}
<1> SUFFICES Good(n)
  OBVIOUS
<1> HIDE DEF Good
<1> USE DEF ArePieces
<1> SUFFICES ASSUME Wrong # {} PROVE FALSE
  OBVIOUS
<1>1. PICK m \in Wrong : \A k \in 0 .. m - 1 : k \notin Wrong
  <2>1. Wrong \in SUBSET Nat
    OBVIOUS
  <2> HIDE DEF Wrong
  <2> QED
    BY <2>1, LeastNumber
<1>2. CASE m = 0
  <2>1. Flat(f, 0) = <<>>
    BY FlatOfNone
  <2>2. SubSeq(s, h + 1, h + 0 * l) = <<>>
    <3>1. h + 0 * l = h /\ h + 1 \in Int /\ h \in Int /\ h < h + 1
      OBVIOUS
    <3> QED
      BY <3>1, SubSeqEmpty
  <2>3. Good(0)
    BY <2>1, <2>2 DEF Good
  <2> QED
    BY <1>2, <2>3
<1>3. CASE m # 0
  <2> DEFINE k == m - 1
             v == h + k * l
  <2>1. k \in 0 .. m - 1 /\ k \in 0 .. n /\ k \in Nat /\ k + 1 = m /\ m \in 1 .. n /\ m \in Nat
    BY <1>3
  <2> HIDE DEF k
  <2>2. /\ k * l \in Nat /\ m * l = k * l + l
    <3>1. (k + 1) * l = k * l + l /\ k * l \in Nat
      BY <2>1
    <3> QED
      BY <2>1, <3>1
  <2>3. v \in Nat /\ h <= v /\ v + l = h + m * l
    <3> DEFINE x == k * l
               y == m * l
    <3>1. x \in Nat /\ y = x + l
      BY <2>2
    <3> HIDE DEF x, y
    <3>2. h + x \in Nat /\ h <= h + x /\ (h + x) + l = h + y
      BY <3>1
    <3> QED
      BY <3>2 DEF x, y
  <2>4. v + l <= Len(s)
    <3> DEFINE d == n - m
    <3>1. d \in Nat /\ n = m + d
      BY <2>1
    <3> HIDE DEF d
    <3>2. (m + d) * l = m * l + d * l /\ m * l \in Nat /\ d * l \in Nat
      BY <2>1, <3>1
    <3> QED
      BY <2>3, <3>1, <3>2
  <2>5. f[m] = SubSeq(s, v + 1, v + l)
    <3>1. f[m] = SubSeq(s, h + (m - 1) * l + 1, h + (m - 1) * l + l)
      BY <2>1
    <3> QED
      BY <3>1 DEF k
  <2>6. Flat(f, k) = SubSeq(s, h + 1, v)
    BY <1>1, <2>1 DEF Good
  <2>7. Flat(f, k + 1) = Flat(f, k) \o f[k + 1]
    <3>1. ASSUME NEW i \in 1 .. k + 1 PROVE f[i] \in Seq(S)
      <4> DEFINE q == i - 1
                 d == n - i
                 w == h + q * l
      <4>1. q \in Nat /\ d \in Nat /\ n = (q + 1) + d /\ i \in 1 .. n
        BY <2>1
      <4> HIDE DEF q, d
      <4>2. (q + 1) * l = q * l + l /\ ((q + 1) + d) * l = (q + 1) * l + d * l
            /\ q * l \in Nat /\ d * l \in Nat
        BY <4>1
      <4>3. w \in Nat /\ w + l <= Len(s)
        <5> DEFINE x == q * l
                   y == d * l
                   z == n * l
        <5>1. x \in Nat /\ y \in Nat /\ z = (x + l) + y
          BY <4>1, <4>2
        <5>2. h + z <= Len(s) /\ Len(s) \in Nat
          OBVIOUS
        <5> HIDE DEF x, y, z
        <5>3. h + x \in Nat /\ (h + x) + l <= Len(s)
          BY <5>1, <5>2
        <5> QED
          BY <5>3 DEF x
      <4>4. f[i] = SubSeq(s, w + 1, w + l)
        BY <4>1 DEF q
      <4> HIDE DEF w
      <4>5. SubSeq(s, w + 1, w + l) \in Seq(S)
        <5>1. \A j \in w + 1 .. w + l : s[j] \in S
          BY <4>3
        <5> QED
          BY <4>3, <5>1, SubSeqProperties
      <4> QED
        BY <4>4, <4>5
    <3> QED
      BY <2>1, <3>1, FlatOfMore
  <2> HIDE DEF v
  <2>8. SubSeq(s, h + 1, v) \o SubSeq(s, v + 1, v + l) = SubSeq(s, h + 1, v + l)
    <3>1. h + 1 \in 1 .. Len(s) + 1 /\ v \in (h + 1) - 1 .. Len(s) /\ v + l \in v .. Len(s)
      BY <2>3, <2>4
    <3> QED
      BY <3>1, ConcatAdjacentSubSeq
  <2>9. Good(m)
    BY <2>1, <2>3, <2>5, <2>6, <2>7, <2>8 DEF Good
  <2> QED
    BY <2>9
<1> QED
  BY <1>2, <1>3

-----------------------------------------------------------------------------
(* The games. *)

LEMMA GamesAre ==
  Games = {"DOOM_old", "HERETIC", "HEXEN_old", "HEXEN_new", "DOOM_new", "DOOM2", "STRIFE"}
  BY DEF Games, Layouts

NewFields == <<"versionbyte", "skill", "episode", "map", "multirule", "respawn",
               "fast", "nomonsters", "mainplayer">>
StrifeFields == <<"versionbyte", "skill", "map", "multirule", "respawn", "fast",
                  "nomonsters", "mainplayer">>

LEMMA LayoutIs ==
  ASSUME NEW g \in Games
  PROVE  /\ Layouts[g].fields = IF g = "STRIFE" THEN StrifeFields
                                ELSE IF g \in NewDoom THEN NewFields ELSE OldFields
         /\ Layouts[g].maxplayer = IF g \in {"HEXEN_new", "STRIFE"} THEN 8 ELSE 4
         /\ Layouts[g].ticsize = IF g \in {"DOOM_old"} \cup NewDoom THEN 4 ELSE 6
  BY GamesAre DEF Layouts, NewDoom, NewFields, StrifeFields

LEMMA FieldsAre ==
  /\ FieldNames = {"versionbyte", "skill", "episode", "map", "multirule", "respawn",
                   "fast", "nomonsters", "mainplayer"}
  /\ Len(NewFields) = 9 /\ Len(StrifeFields) = 8 /\ Len(OldFields) = 3
  /\ NewFields \in Seq(FieldNames) /\ StrifeFields \in Seq(FieldNames)
  /\ OldFields \in Seq(FieldNames)
<1>1. Layouts["DOOM_new"].fields = NewFields
  BY GamesAre, LayoutIs DEF NewDoom
<1>2. FieldNames = {NewFields[i] : i \in DOMAIN NewFields}
  BY <1>1 DEF FieldNames, Range
<1>3. DOMAIN NewFields = {1, 2, 3, 4, 5, 6, 7, 8, 9} /\ Len(NewFields) = 9
  BY DEF NewFields
<1>4. FieldNames = {"versionbyte", "skill", "episode", "map", "multirule", "respawn",
                    "fast", "nomonsters", "mainplayer"}
  BY <1>2, <1>3 DEF NewFields
<1>5. Len(StrifeFields) = 8 /\ Len(OldFields) = 3
  BY DEF StrifeFields, OldFields
<1>6. NewFields \in Seq(FieldNames)
  BY <1>4 DEF NewFields
<1>7. StrifeFields \in Seq(FieldNames) /\ OldFields \in Seq(FieldNames)
  BY <1>4 DEF StrifeFields, OldFields
<1> QED
  BY <1>3, <1>4, <1>5, <1>6, <1>7

LEMMA SizesAre ==
  ASSUME NEW g \in Games
  PROVE  /\ Len(Layouts[g].fields) \in 3 .. 9 /\ Layouts[g].maxplayer \in {4, 8}
         /\ Layouts[g].ticsize \in {4, 6} /\ BytesOfPlayer(g) \in {1, 2}
         /\ HeaderSize(g) = Len(Layouts[g].fields) + BytesOfPlayer(g) * Layouts[g].maxplayer
         /\ HeaderSize(g) \in 7 .. 19
<1>1. BytesOfPlayer(g) = IF g \in {"HEXEN_old", "HEXEN_new"} THEN 2 ELSE 1
  BY DEF BytesOfPlayer, Hexen
<1>2. /\ Len(Layouts[g].fields) = IF g = "STRIFE" THEN 8 ELSE IF g \in NewDoom THEN 9 ELSE 3
      /\ Layouts[g].maxplayer = IF g \in {"HEXEN_new", "STRIFE"} THEN 8 ELSE 4
      /\ Layouts[g].ticsize = IF g \in {"DOOM_old"} \cup NewDoom THEN 4 ELSE 6
  BY LayoutIs, FieldsAre
<1>3. HeaderSize(g) = Len(Layouts[g].fields) + BytesOfPlayer(g) * Layouts[g].maxplayer
  BY DEF HeaderSize
<1> QED
  BY <1>1, <1>2, <1>3, GamesAre DEF NewDoom

LEMMA LayoutOfGames ==
  ASSUME NEW games \in GameSets
  PROVE  /\ LayoutOf(games) \in Games /\ LayoutOf(games) \in games
         /\ \A g \in Games : games = {g} => LayoutOf(games) = g
         /\ games = NewDoom => LayoutOf(games) = "DOOM_new"
<1>1. CASE games = NewDoom
  <2>1. LayoutOf(games) = "DOOM_new"
    BY <1>1 DEF LayoutOf, NewDoom
  <2>2. \A g \in Games : games # {g}
    BY <1>1 DEF NewDoom
  <2> QED
    BY <1>1, <2>1, <2>2, GamesAre DEF NewDoom
<1>2. ASSUME NEW g \in Games, games = {g}
      PROVE  LayoutOf(games) = g
  BY <1>2 DEF LayoutOf
<1>3. games # NewDoom => \E g \in Games : games = {g}
  BY DEF GameSets
<1> QED
  BY <1>1, <1>2, <1>3

LEMMA FourAreFinite ==
  ASSUME NEW a, NEW b, NEW c, NEW d PROVE IsFiniteSet({a, b, c, d})
<1>1. IsFiniteSet({} \cup {a})
  BY FS_EmptySet, FS_AddElement
<1>2. IsFiniteSet(({} \cup {a}) \cup {b})
  BY <1>1, FS_AddElement
<1>3. IsFiniteSet((({} \cup {a}) \cup {b}) \cup {c})
  BY <1>2, FS_AddElement
<1>4. IsFiniteSet(((({} \cup {a}) \cup {b}) \cup {c}) \cup {d})
  BY <1>3, FS_AddElement
<1>5. ((({} \cup {a}) \cup {b}) \cup {c}) \cup {d} = {a, b, c, d}
  OBVIOUS
<1> QED
  BY <1>4, <1>5, Zenon

LEMMA OneOrNone ==
  ASSUME NEW games, games \subseteq Games, Cardinality(games) <= 1
  PROVE  games \in GameSets \cup {{}}
<1>1. IsFiniteSet(Games)
  <2>1. IsFiniteSet({"DOOM_old", "HERETIC", "HEXEN_old", "HEXEN_new"})
    BY FourAreFinite, Zenon
  <2>2. IsFiniteSet({"DOOM_new", "DOOM2", "STRIFE", "STRIFE"})
    BY FourAreFinite, Zenon
  <2>3. Games = {"DOOM_old", "HERETIC", "HEXEN_old", "HEXEN_new"}
                  \cup {"DOOM_new", "DOOM2", "STRIFE", "STRIFE"}
    BY GamesAre
  <2> QED
    BY <2>1, <2>2, <2>3, FS_Union
<1>2. IsFiniteSet(games)
  BY <1>1, FS_Subset
<1>3. Cardinality(games) \in Nat
  BY <1>2, FS_CardinalityType
<1>4. CASE Cardinality(games) = 0
  BY <1>2, <1>4, FS_EmptySet
<1>5. CASE Cardinality(games) = 1
  <2>1. \E x : games = {x}
    BY <1>2, <1>5, FS_Singleton
  <2> QED
    BY <2>1 DEF GameSets
<1> QED
  BY <1>3, <1>4, <1>5

LEMMA GuessIsOne ==
  ASSUME NEW b, NEW recent, NEW games, games \subseteq {"DOOM_old", "HERETIC", "HEXEN_old", "HEXEN_new"}
  PROVE  Guess(b, recent, games) \in GameSets \cup {{}}
<1> DEFINE others == games \ {"DOOM_old"}
<1>1. games \subseteq Games /\ others \subseteq Games
  BY GamesAre
<1>2. {"DOOM_old"} \in GameSets /\ {"HEXEN_new"} \in GameSets /\ {"HERETIC"} \in GameSets
  BY GamesAre DEF GameSets
<1>3. CASE Cardinality(games) <= 1
  BY <1>1, <1>3, OneOrNone DEF Guess
<1>4. CASE ~(Cardinality(games) <= 1)
  <2>1. Cardinality(others) = 1 => others \in GameSets \cup {{}}
    <3> HIDE DEF others
    <3>1. CASE Cardinality(others) = 1
      <4>1. Cardinality(others) <= 1
        BY <3>1
      <4> QED
        BY <1>1, <4>1, OneOrNone
    <3> QED
      BY <3>1
  <2> HIDE DEF others
  <2>2. \/ Guess(b, recent, games) = {} \/ Guess(b, recent, games) = {"DOOM_old"}
        \/ Cardinality(others) = 1 /\ Guess(b, recent, games) = others
        \/ Guess(b, recent, games) = {"HEXEN_new"} \/ Guess(b, recent, games) = {"HERETIC"}
    BY <1>4, Zenon DEF Guess, others
  <2> QED
    BY <1>2, <2>1, <2>2
<1> QED
  BY <1>3, <1>4

\* The game that is guessed.
LEMMA TypeIsOne ==
  ASSUME NEW b, NEW recent
  PROVE  LMP_self_determine_type(b, recent) \in GameSets \cup {{}}
<1> DEFINE fits == {g \in Games : Fits(b, g)}
           old  == {g \in fits : /\ g \in {"DOOM_old", "HERETIC"} \cup Hexen
                                 /\ b[2] > 1 => g \notin Hexen
                                 /\ b[3] > 9 \/ 2 \in {b[5], b[7]} => g \in Hexen}
           t == LMP_self_determine_type(b, recent)
<1>1. old \subseteq {"DOOM_old", "HERETIC", "HEXEN_old", "HEXEN_new"}
  BY DEF Hexen
<1>2. Guess(b, recent, old) \in GameSets \cup {{}}
  BY <1>1, GuessIsOne
<1>3. fits \cap {"STRIFE"} \in {{}, {"STRIFE"}}
  OBVIOUS
<1> HIDE DEF old, fits
<1>4. t \in {{}, fits \cap {"STRIFE"}, Guess(b, recent, old), {"DOOM_new"}, {"DOOM2"}, NewDoom}
  BY Zenon DEF LMP_self_determine_type, old, fits
<1>5. {{"STRIFE"}, {"DOOM_new"}, {"DOOM2"}, NewDoom} \subseteq GameSets
  BY GamesAre DEF GameSets
<1> HIDE DEF t
<1>6. t \in GameSets \cup {{}}
  BY <1>2, <1>3, <1>4, <1>5
<1> QED
  BY <1>6 DEF t

\* With -g, or without.
LEMMA SettledIsOne ==
  ASSUME NEW b, NEW games \in GameSets, opt.game \in GamesNamed
  PROVE  Settled(b, GamesMeant(games)) \in GameSets
<1>1. {{g} : g \in Games} \subseteq GameSets /\ NewDoom \in GameSets
  BY DEF GameSets
<1>2. /\ {"DOOM_old"} \in GameSets /\ {"DOOM_new"} \in GameSets /\ {"DOOM2"} \in GameSets
      /\ {"HERETIC"} \in GameSets /\ {"HEXEN_old"} \in GameSets /\ {"HEXEN_new"} \in GameSets
      /\ {"STRIFE"} \in GameSets
  BY <1>1, GamesAre
<1> DEFINE meant == GamesMeant(games)
<1>3. meant \in GameSets \/ meant = {"DOOM_old", "DOOM_new"} \/ meant = Hexen
  <2>1. CASE opt.game = {}
    BY <2>1 DEF GamesMeant
  <2>2. CASE opt.game # {} /\ games \cap opt.game = {}
    <3>1. meant = opt.game
      BY <2>2 DEF GamesMeant
    <3> QED
      BY <1>2, <2>2, <3>1 DEF GamesNamed
  <2>3. CASE opt.game # {} /\ games \cap opt.game # {}
    <3>1. meant = games \cap opt.game
      BY <2>3 DEF GamesMeant
    <3>2. CASE games = NewDoom
      <4>1. opt.game \in {{"DOOM_old", "DOOM_new"}, {"DOOM2"}}
        BY <2>3, <3>2 DEF GamesNamed, NewDoom, Hexen
      <4>2. meant = {"DOOM_new"} \/ meant = {"DOOM2"}
        BY <3>1, <3>2, <4>1 DEF NewDoom
      <4> QED
        BY <1>2, <4>2
    <3>3. ASSUME NEW g \in Games, games = {g} PROVE meant \in GameSets
      <4>1. meant = games
        BY <2>3, <3>1, <3>3
      <4> QED
        BY <4>1
    <3> QED
      BY <3>2, <3>3 DEF GameSets
  <2> QED
    BY <2>1, <2>2, <2>3
<1> HIDE DEF meant
<1>4. Settled(b, meant) \in GameSets
  BY <1>2, <1>3 DEF Settled
<1> QED
  BY <1>4 DEF meant

-----------------------------------------------------------------------------
(* The LMP that was read. *)

HeaderLen(l) == HeaderSize(LayoutOf(l.game))

\* l is what was read from b.
IsRead(l, b) ==
  /\ b \in Seq(Byte)
  /\ l.game \in GameSets /\ l.stics \in Nat /\ TicSize(l) \in {4, 6}
  /\ TicSize(l) = Layouts[LayoutOf(l.game)].ticsize
  /\ HeaderLen(l) \in 7 .. 19
  /\ Len(b) = HeaderLen(l) + l.stics * TicSize(l) + 1
  /\ DOMAIN l.players = PlayersIn(b, LayoutOf(l.game))
  /\ PlayerNum(l) \in 1 .. 8
  /\ \A s \in DOMAIN l.players : l.players[s] = ClassOf(b, LayoutOf(l.game), s)
  /\ l.players = [s \in DOMAIN l.players |-> l.players[s]]
  /\ l.field = [n \in FieldNames |-> FieldOf(b, LayoutOf(l.game), n)]
  /\ DOMAIN l = {"game", "field", "players", "stics"}

LEMMA PlacesAre ==
  ASSUME NEW g \in Games, NEW s \in 0 .. Layouts[g].maxplayer - 1
  PROVE  /\ PlaceOf(g, s) \in 1 .. HeaderSize(g)
         /\ PlaceOf(g, s) + BytesOfPlayer(g) - 1 \in 1 .. HeaderSize(g)
<1> DEFINE f == Len(Layouts[g].fields)
           m == Layouts[g].maxplayer
           x == BytesOfPlayer(g)
<1>1. f \in 3 .. 9 /\ m \in {4, 8} /\ x \in {1, 2} /\ HeaderSize(g) = f + x * m
      /\ PlaceOf(g, s) = f + 1 + x * s /\ s \in 0 .. m - 1
  BY SizesAre DEF PlaceOf
<1> HIDE DEF f, m, x
<1>2. f + 1 + x * s \in 1 .. f + x * m /\ f + 1 + x * s + x - 1 \in 1 .. f + x * m
  <2>1. CASE x = 1
    BY <1>1, <2>1
  <2>2. CASE x = 2
    BY <1>1, <2>2
  <2> QED
    BY <1>1, <2>1, <2>2
<1> QED
  BY <1>1, <1>2 DEF x

LEMMA PlayersAre ==
  ASSUME NEW g \in Games, NEW b, PlayersIn(b, g) # {}
  PROVE  Cardinality(PlayersIn(b, g)) \in 1 .. 8
<1>1. IsFiniteSet(0 .. 7) /\ Cardinality(0 .. 7) = 8
  <2>1. 0 \in Int /\ 7 \in Int /\ ~(0 > 7) /\ 7 - 0 + 1 = 8
    OBVIOUS
  <2>2. IsFiniteSet(0 .. 7) /\ Cardinality(0 .. 7) = IF 0 > 7 THEN 0 ELSE 7 - 0 + 1
    BY <2>1, FS_Interval, Zenon
  <2> QED
    BY <2>1, <2>2
<1>2. PlayersIn(b, g) \subseteq 0 .. 7
  BY SizesAre DEF PlayersIn
<1>3. IsFiniteSet(PlayersIn(b, g)) /\ Cardinality(PlayersIn(b, g)) <= 8
  BY <1>1, <1>2, FS_Subset
<1>4. Cardinality(PlayersIn(b, g)) \in Nat /\ Cardinality(PlayersIn(b, g)) # 0
  BY <1>3, FS_CardinalityType, FS_EmptySet
<1> QED
  BY <1>3, <1>4

LEMMA WholeTics ==
  ASSUME NEW n \in Nat, NEW h \in Nat, h < n, NEW t \in {4, 6}, (n - 1 - h) % t = 0
  PROVE  /\ (n - h - 1) \div t \in Nat
         /\ n = h + ((n - h - 1) \div t) * t + 1
<1> DEFINE v == n - h - 1
<1>1. v \in Nat /\ n - 1 - h = v /\ n = h + v + 1
  OBVIOUS
<1> HIDE DEF v
<1>2. v \div t \in Nat /\ v = (v \div t) * t + (v % t) /\ v % t = 0
  <2>1. v % t = 0
    BY <1>1
  <2>2. CASE t = 4
    BY <1>1, <2>1, <2>2
  <2>3. CASE t = 6
    BY <1>1, <2>1, <2>3
  <2> QED
    BY <2>2, <2>3
<1> DEFINE q == v \div t
           y == q * t
<1>3. q \in Nat /\ v = y
  <2>1. q \in Nat /\ t \in Nat
    BY <1>2
  <2>2. y \in Nat
    <3> HIDE DEF q
    <3> QED
      BY <2>1
  <2>3. v = y + (v % t) /\ v % t = 0
    BY <1>2, Zenon
  <2> HIDE DEF q, y
  <2> QED
    BY <2>1, <2>2, <2>3
<1>4. n = h + y + 1
  <2> HIDE DEF y
  <2> QED
    BY <1>1, <1>3
<1> QED
  BY <1>3, <1>4 DEF v

LEMMA LmpInIsRead ==
  ASSUME NEW b \in Seq(Byte), \A g \in Games : HeaderSize(g) < Len(b),
         NEW games \in GameSets, IsLmp(b, LayoutOf(games))
  PROVE  IsRead(LmpIn(b, games, LayoutOf(games)), b)
<1> DEFINE g == LayoutOf(games)
           l == LmpIn(b, games, g)
<1>1. g \in Games
  BY LayoutOfGames
<1>2. /\ l.game = games /\ l.field = [n \in FieldNames |-> FieldOf(b, g, n)]
      /\ l.players = [s \in PlayersIn(b, g) |-> ClassOf(b, g, s)]
      /\ l.stics = (Len(b) - HeaderSize(g) - 1) \div Layouts[g].ticsize
      /\ DOMAIN l = {"game", "field", "players", "stics"}
  BY DEF LmpIn
<1> HIDE DEF l
<1>3. HeaderLen(l) = HeaderSize(g) /\ TicSize(l) = Layouts[g].ticsize /\ LayoutOf(l.game) = g
  BY <1>2 DEF HeaderLen, TicSize
<1>4. (Len(b) - 1 - HeaderSize(g)) % Layouts[g].ticsize = 0 /\ PlayersIn(b, g) # {}
  BY DEF IsLmp, Fits
<1> HIDE DEF g
<1>5. HeaderSize(g) < Len(b) /\ HeaderSize(g) \in 7 .. 19 /\ Layouts[g].ticsize \in {4, 6}
  BY <1>1, SizesAre
<1>6. /\ l.stics \in Nat /\ Len(b) = HeaderSize(g) + l.stics * Layouts[g].ticsize + 1
  <2> DEFINE h == HeaderSize(g)
             t == Layouts[g].ticsize
             n == Len(b)
  <2>1. n \in Nat /\ h \in Nat /\ h < n /\ t \in {4, 6} /\ (n - 1 - h) % t = 0
    BY <1>4, <1>5
  <2> HIDE DEF h, t, n
  <2>2. (n - h - 1) \div t \in Nat /\ n = h + ((n - h - 1) \div t) * t + 1
    BY <2>1, WholeTics
  <2> QED
    BY <1>2, <2>2, Zenon DEF h, t, n
<1>7. /\ DOMAIN l.players = PlayersIn(b, g)
      /\ \A s \in DOMAIN l.players : l.players[s] = ClassOf(b, g, s)
      /\ l.players = [s \in DOMAIN l.players |-> l.players[s]]
  BY <1>2
<1>8. PlayerNum(l) \in 1 .. 8
  BY <1>1, <1>4, <1>7, PlayersAre DEF PlayerNum
<1>9. IsRead(l, b)
  BY <1>2, <1>3, <1>5, <1>6, <1>7, <1>8 DEF IsRead
<1> QED
  BY <1>9 DEF l, g

LEMMA TicFacts ==
  ASSUME NEW l, NEW b, IsRead(l, b), NEW n \in 1 .. l.stics
  PROVE  /\ TicAt(b, l, n) = SubSeq(b, HeaderLen(l) + (n - 1) * TicSize(l) + 1,
                                       HeaderLen(l) + (n - 1) * TicSize(l) + TicSize(l))
         /\ TicAt(b, l, n) \in Seq(Byte) /\ Len(TicAt(b, l, n)) = TicSize(l)
         /\ Use(TicAt(b, l, n)) \in Byte
<1> DEFINE h == HeaderLen(l)
           t == TicSize(l)
           q == n - 1
           d == l.stics - n
           w == h + q * t
<1>1. /\ b \in Seq(Byte) /\ h \in Nat /\ t \in {4, 6} /\ t \in Nat /\ Len(b) = h + l.stics * t + 1
      /\ q \in Nat /\ d \in Nat /\ l.stics = (q + 1) + d
  <2>1. b \in Seq(Byte) /\ h \in Nat /\ t \in {4, 6} /\ Len(b) = h + l.stics * t + 1
    BY DEF IsRead
  <2>2. l.stics \in Nat
    BY DEF IsRead
  <2>3. q \in Nat /\ d \in Nat /\ l.stics = (q + 1) + d
    BY <2>2
  <2> QED
    BY <2>1, <2>3
<1>2. TicAt(b, l, n) = SubSeq(b, w + 1, w + t)
  BY DEF TicAt, HeaderLen
<1> HIDE DEF q, d, h, t
<1>3. ((q + 1) + d) * t = (q * t + t) + d * t /\ q * t \in Nat /\ d * t \in Nat
  BY <1>1
<1>4. w \in Nat /\ w + t <= Len(b)
  <2> DEFINE x == q * t
             y == d * t
             z == l.stics * t
  <2>1. x \in Nat /\ y \in Nat /\ z = (x + t) + y /\ Len(b) = h + z + 1
    BY <1>1, <1>3
  <2> HIDE DEF x, y, z
  <2>2. h + x \in Nat /\ (h + x) + t <= Len(b)
    BY <1>1, <2>1
  <2> QED
    BY <2>2 DEF x
<1> HIDE DEF w
<1>5. \A j \in w + 1 .. w + t : b[j] \in Byte
  BY <1>1, <1>4
<1>6. SubSeq(b, w + 1, w + t) \in Seq(Byte) /\ Len(SubSeq(b, w + 1, w + t)) = t
  <2>1. w + 1 \in Int /\ w + t \in Int /\ w + 1 <= w + t /\ (w + t) - (w + 1) + 1 = t
    BY <1>1, <1>4
  <2> QED
    BY <1>5, <2>1, SubSeqProperties
<1>7. TicAt(b, l, n)[4] \in Byte
  <2>1. 4 \in 1 .. Len(SubSeq(b, w + 1, w + t))
    BY <1>1, <1>6
  <2> QED
    BY <1>2, <1>6, <2>1, ElementOfSeq
<1>8. TicAt(b, l, n) \in Seq(Byte) /\ Len(TicAt(b, l, n)) = t
  BY <1>2, <1>6
<1>9. TicAt(b, l, n) = SubSeq(b, h + (n - 1) * t + 1, h + (n - 1) * t + t)
  BY <1>2 DEF w, q
<1> QED
  BY <1>7, <1>8, <1>9, Zenon DEF Use, h, t

\* All tics of a file, one after the other.
LEMMA TicsOfFile ==
  ASSUME NEW l, NEW b, IsRead(l, b), NEW f,
         \A n \in 1 .. l.stics : f[n] = TicAt(b, l, n)
  PROVE  Flat(f, l.stics) = SubSeq(b, HeaderLen(l) + 1, Len(b) - 1)
<1> DEFINE h == HeaderLen(l)
           t == TicSize(l)
           N == l.stics
<1>1. b \in Seq(Byte) /\ h \in Nat /\ t \in Nat /\ N \in Nat /\ Len(b) = h + N * t + 1
  <2>1. h \in 7 .. 19 /\ t \in {4, 6}
    BY Zenon DEF IsRead
  <2>2. b \in Seq(Byte) /\ N \in Nat /\ Len(b) = h + N * t + 1
    BY Zenon DEF IsRead
  <2> HIDE DEF h, t
  <2>3. h \in Nat /\ t \in Nat
    BY <2>1
  <2> QED
    BY <2>2, <2>3, Zenon
<1>2. \A i \in 1 .. N : f[i] = SubSeq(b, h + (i - 1) * t + 1, h + (i - 1) * t + t)
  BY TicFacts
<1> HIDE DEF h, t, N
<1>3. N * t \in Nat
  BY <1>1
<1> DEFINE y == N * t
<1>4. h + y <= Len(b) /\ h + y = Len(b) - 1
  <2>1. y \in Nat /\ Len(b) = h + y + 1
    BY <1>1, <1>3
  <2> HIDE DEF y
  <2> QED
    BY <1>1, <2>1
<1>5. Flat(f, N) = SubSeq(b, h + 1, h + N * t)
  <2>1. ArePieces(f, N, t, b, h)
    BY <1>2, <1>4 DEF ArePieces
  <2> QED
    BY <1>1, <2>1, FlatOfPieces
<1> QED
  BY <1>4, <1>5, Zenon DEF h, N

-----------------------------------------------------------------------------
(* Writing. *)

LEMMA TailOfConcat ==
  ASSUME NEW S, NEW s \in Seq(S), NEW t \in Seq(S), NEW a \in 1 .. Len(s) + 1
  PROVE  SubSeq(s \o t, a, Len(s \o t)) = SubSeq(s, a, Len(s)) \o t
<1> DEFINE x == s \o t
           u == SubSeq(x, a, Len(x))
           v == SubSeq(s, a, Len(s))
           w == v \o t
<1>1. /\ x \in Seq(S) /\ Len(x) = Len(s) + Len(t) /\ Len(s) \in Nat /\ Len(t) \in Nat
      /\ \A i \in 1 .. Len(s) + Len(t) : x[i] = IF i <= Len(s) THEN s[i] ELSE t[i - Len(s)]
  BY ConcatProperties
<1> HIDE DEF x
<1>2. /\ u \in Seq(S) /\ Len(u) = Len(s) + Len(t) - a + 1
      /\ \A i \in 1 .. Len(x) - a + 1 : u[i] = x[a + i - 1]
  <2>1. \A i \in a .. Len(x) : x[i] \in S
    BY <1>1
  <2>2. a \in Int /\ Len(x) \in Int
    BY <1>1
  <2>3. /\ u \in Seq(S) /\ Len(u) = IF a <= Len(x) THEN Len(x) - a + 1 ELSE 0
        /\ \A i \in 1 .. Len(x) - a + 1 : u[i] = x[a + i - 1]
    BY <2>1, <2>2, SubSeqProperties
  <2> HIDE DEF u
  <2> QED
    BY <1>1, <2>3
<1>3. /\ v \in Seq(S) /\ Len(v) = Len(s) - a + 1
      /\ \A i \in 1 .. Len(s) - a + 1 : v[i] = s[a + i - 1]
  <2>1. \A i \in a .. Len(s) : s[i] \in S
    OBVIOUS
  <2>2. a \in Int /\ Len(s) \in Int
    OBVIOUS
  <2>3. /\ v \in Seq(S) /\ Len(v) = IF a <= Len(s) THEN Len(s) - a + 1 ELSE 0
        /\ \A i \in 1 .. Len(s) - a + 1 : v[i] = s[a + i - 1]
    BY <2>1, <2>2, SubSeqProperties
  <2> HIDE DEF v
  <2> QED
    BY <1>1, <2>3
<1> HIDE DEF u, v
<1>4. /\ w \in Seq(S) /\ Len(w) = Len(v) + Len(t)
      /\ \A i \in 1 .. Len(v) + Len(t) : w[i] = IF i <= Len(v) THEN v[i] ELSE t[i - Len(v)]
  BY <1>3, ConcatProperties
<1> HIDE DEF w
<1>5. Len(u) = Len(w)
  BY <1>1, <1>2, <1>3, <1>4
<1>6. ASSUME NEW i \in 1 .. Len(u) PROVE u[i] = w[i]
  <2>1. i \in 1 .. Len(x) - a + 1 /\ i \in 1 .. Len(v) + Len(t) /\ a + i - 1 \in 1 .. Len(s) + Len(t)
    BY <1>1, <1>2, <1>3
  <2>2. u[i] = x[a + i - 1]
    BY <1>2, <2>1
  <2>3. CASE i <= Len(v)
    <3>1. a + i - 1 <= Len(s) /\ i \in 1 .. Len(s) - a + 1
      BY <1>1, <1>3, <2>1, <2>3
    <3> QED
      BY <1>1, <1>3, <1>4, <2>1, <2>2, <2>3, <3>1
  <2>4. CASE ~(i <= Len(v))
    <3>1. ~(a + i - 1 <= Len(s)) /\ (a + i - 1) - Len(s) = i - Len(v)
      BY <1>1, <1>3, <2>1, <2>4
    <3>2. x[a + i - 1] = t[(a + i - 1) - Len(s)]
      BY <1>1, <2>1, <3>1
    <3>3. w[i] = t[i - Len(v)]
      BY <1>4, <2>1, <2>4
    <3> QED
      BY <2>2, <3>1, <3>2, <3>3
  <2> QED
    BY <2>3, <2>4
<1>7. u = w
  BY <1>2, <1>4, <1>5, <1>6, SeqEqual
<1> QED
  BY <1>7 DEF u, w, x, v

LEMMA SubSeqTyped ==
  ASSUME NEW S, NEW s \in Seq(S), NEW m \in 1 .. Len(s) + 1, NEW n \in m - 1 .. Len(s)
  PROVE  SubSeq(s, m, n) \in Seq(S) /\ Len(SubSeq(s, m, n)) = n - m + 1
<1>1. m \in Int /\ n \in Int /\ \A i \in m .. n : s[i] \in S
  OBVIOUS
<1>2. SubSeq(s, m, n) \in Seq(S) /\ Len(SubSeq(s, m, n)) = IF m <= n THEN n - m + 1 ELSE 0
  BY <1>1, SubSeqProperties
<1> QED
  BY <1>2

\* Over the last byte, or behind it.
LEMMA WriteAtEnd ==
  ASSUME NEW S, NEW s \in Seq(S), NEW data \in Seq(S), Len(data) > 0,
         NEW pos \in 0 .. Len(s), pos >= Len(s) - 1
  PROVE  WriteAt(s, pos, data) = SubSeq(s, 1, pos) \o data
<1>1. Len(s) \in Nat /\ Len(data) \in Nat /\ pos + Len(data) + 1 > Len(s)
      /\ pos + Len(data) + 1 \in Int /\ Len(s) \in Int
  OBVIOUS
<1>2. SubSeq(s, pos + Len(data) + 1, Len(s)) = <<>>
  BY <1>1, SubSeqEmpty
<1>3. SubSeq(s, 1, pos) \in Seq(S)
  BY SubSeqTyped
<1>4. SubSeq(s, 1, pos) \o data \in Seq(S)
  BY <1>3, ConcatProperties
<1> QED
  BY <1>2, <1>4, ConcatEmptySeq DEF WriteAt

\* At the beginning.
LEMMA WriteAtStart ==
  ASSUME NEW S, NEW s \in Seq(S), NEW data \in Seq(S), Len(data) <= Len(s)
  PROVE  WriteAt(s, 0, data) = data \o SubSeq(s, Len(data) + 1, Len(s))
<1>1. Len(s) \in Nat /\ Len(data) \in Nat
  OBVIOUS
<1>2. SubSeq(s, 1, 0) = <<>>
  BY SubSeqEmpty
<1>3. 0 + Len(data) + 1 = Len(data) + 1
  BY <1>1
<1>4. <<>> \o data = data
  BY ConcatEmptySeq
<1> QED
  BY <1>2, <1>3, <1>4 DEF WriteAt

-----------------------------------------------------------------------------
(* A tic as it is written. *)

LEMMA PauseSavesNothing == ~(SaveBits \subseteq Bits(129, 8))
<1>1. (129 \div 2^1) % 2 = 0
  OBVIOUS
<1>2. 1 \notin Bits(129, 8)
  BY <1>1 DEF Bits
<1> QED
  BY <1>2 DEF SaveBits

\* use of a tic as it is written.
UseAsked(use) ==
  IF \/ opt.pause /\ use = 129
     \/ opt.save /\ SaveBits \subseteq Bits(use, 8)
  THEN 0 ELSE use

LEMMA WrittenUse ==
  ASSUME NEW use \in Byte
  PROVE  /\ IsPause(ClearSave(use)) <=> opt.pause /\ use = 129
         /\ (IF IsPause(ClearSave(use)) THEN 0 ELSE ClearSave(use)) = UseAsked(use)
         /\ UseAsked(use) \in Byte
<1>1. 0 \in Byte /\ 0 # 129
  BY DEF Byte
<1>2. CASE opt.save /\ SaveBits \subseteq Bits(use, 8)
  <2>1. use # 129
    BY <1>2, PauseSavesNothing
  <2>2. ClearSave(use) = 0 /\ UseAsked(use) = 0
    BY <1>2, Zenon DEF ClearSave, UseAsked
  <2>3. ~ IsPause(0)
    BY <1>1, Zenon DEF IsPause
  <2> QED
    BY <1>1, <2>1, <2>2, <2>3, Zenon
<1>3. CASE ~(opt.save /\ SaveBits \subseteq Bits(use, 8))
  <2>1. ClearSave(use) = use
    BY <1>3, Zenon DEF ClearSave
  <2>2. UseAsked(use) = IF opt.pause /\ use = 129 THEN 0 ELSE use
    BY <1>3, Zenon DEF UseAsked
  <2>3. IsPause(use) <=> opt.pause /\ use = 129
    BY Zenon DEF IsPause
  <2> QED
    BY <1>1, <2>1, <2>2, <2>3, Zenon
<1> QED
  BY <1>2, <1>3

LEMMA WrittenTic ==
  ASSUME NEW t \in Seq(Byte), Len(t) \in {4, 6}
  PROVE  /\ [t EXCEPT ![4] = UseAsked(Use(t))] \in Seq(Byte)
         /\ Len([t EXCEPT ![4] = UseAsked(Use(t))]) = Len(t)
         /\ UseAsked(Use(t)) = Use(t) => [t EXCEPT ![4] = UseAsked(Use(t))] = t
<1>1. 4 \in 1 .. Len(t) /\ t[4] \in Byte
  BY ElementOfSeq
<1>2. UseAsked(Use(t)) \in Byte
  BY <1>1, WrittenUse DEF Use
<1> DEFINE u == UseAsked(Use(t))
           s == [t EXCEPT ![4] = u]
<1> HIDE DEF u
<1>3. /\ s \in Seq(Byte) /\ Len(s) = Len(t)
      /\ \A j \in 1 .. Len(t) : s[j] = IF j = 4 THEN u ELSE t[j]
  BY <1>1, <1>2, ExceptSeq DEF u
<1>4. ASSUME u = t[4] PROVE s = t
  <2> HIDE DEF s
  <2>1. \A j \in 1 .. Len(s) : s[j] = t[j]
    BY <1>3, <1>4
  <2> QED
    BY <1>3, <2>1, SeqEqual
<1>5. u = Use(t) => s = t
  BY <1>4 DEF Use
<1> QED
  BY <1>3, <1>5 DEF u

\* The tic asked for, if it is not one of a pause.
TicWritten(n) ==
  [TicAt(lfile.bytes, Input, n) EXCEPT ![4] = UseAsked(Use(TicAt(lfile.bytes, Input, n)))]

LEMMA TicAskedIs ==
  ASSUME NEW n
  PROVE  TicAsked(n) = IF opt.pause /\ IsOdd(TogglesBefore(MultiTic(n))) THEN <<>>
                       ELSE TicWritten(n)
<1> DEFINE t == TicAt(lfile.bytes, Input, n)
           w == [t EXCEPT ![4] = IF \/ opt.pause /\ @ = 129
                                    \/ opt.save /\ SaveBits \subseteq Bits(@, 8)
                                 THEN 0 ELSE @]
<1>1. w = [t EXCEPT ![4] = UseAsked(t[4])]
  BY Zenon DEF UseAsked
<1>2. w = TicWritten(n)
  BY <1>1, Zenon DEF TicWritten, Use
<1>3. TicAsked(n) = IF opt.pause /\ Cardinality(TogglesBefore(MultiTic(n))) % 2 = 1 THEN <<>> ELSE w
  BY Zenon DEF TicAsked, Input
<1> QED
  BY <1>2, <1>3, Zenon DEF IsOdd

LEMMA TicAskedTyped ==
  ASSUME IsRead(Input, lfile.bytes), NEW n \in 1 .. Input.stics
  PROVE  TicAsked(n) \in Seq(Byte)
<1> DEFINE t == TicAt(lfile.bytes, Input, n)
<1>1. t \in Seq(Byte) /\ Len(t) \in {4, 6}
  <2>1. t \in Seq(Byte) /\ Len(t) = TicSize(Input)
    BY TicFacts
  <2> QED
    BY <2>1 DEF IsRead
<1> HIDE DEF t
<1>2. [t EXCEPT ![4] = UseAsked(Use(t))] \in Seq(Byte)
  BY <1>1, WrittenTic
<1>3. TicWritten(n) \in Seq(Byte)
  BY <1>2 DEF t, TicWritten
<1>4. <<>> \in Seq(Byte)
  OBVIOUS
<1> QED
  BY <1>3, <1>4, TicAskedIs

-----------------------------------------------------------------------------
(* The pauses. *)

LEMMA DivBelow ==
  ASSUME NEW v \in Nat, NEW a \in Nat, NEW b \in Nat, b > 0
  PROVE  v \div b < a <=> v < a * b
<1>1. v \div b \in Nat /\ v % b \in Nat /\ v % b < b /\ v = (v \div b) * b + (v % b)
  BY DivModOf
<1> DEFINE q == v \div b
           r == v % b
<1>2. q \in Nat /\ r \in Nat /\ r < b /\ v = q * b + r
  BY <1>1
<1> HIDE DEF q, r
<1>3. ASSUME q < a PROVE v < a * b
  <2> DEFINE d == a - q - 1
  <2>1. d \in Nat /\ a = (q + 1) + d
    BY <1>2, <1>3
  <2> HIDE DEF d
  <2>2. ((q + 1) + d) * b = (q * b + b) + d * b /\ q * b \in Nat /\ d * b \in Nat
    BY <1>2, <2>1
  <2> DEFINE x == q * b
             y == d * b
             z == a * b
  <2>3. x \in Nat /\ y \in Nat /\ z = (x + b) + y /\ v = x + r
    BY <1>2, <2>1, <2>2
  <2> HIDE DEF x, y, z
  <2>4. v < z
    BY <1>2, <2>3
  <2> QED
    BY <2>4 DEF z
<1>4. ASSUME v < a * b PROVE q < a
  BY <1>4, DivLess DEF q
<1> QED
  BY <1>3, <1>4 DEF q

LEMMA MultiTicIs ==
  ASSUME PlayerNum(Input) \in 1 .. 8, NEW n \in Nat, n > 0
  PROVE  /\ MultiTic(n) \in Nat
         /\ \A m \in Nat : MultiTic(n) < m <=> n - 1 < m * PlayerNum(Input)
<1>1. n - 1 \in Nat /\ PlayerNum(Input) \in Nat /\ PlayerNum(Input) > 0
  OBVIOUS
<1>2. (n - 1) \div PlayerNum(Input) \in Nat
  BY <1>1, DivModOf
<1>3. \A m \in Nat : (n - 1) \div PlayerNum(Input) < m <=> n - 1 < m * PlayerNum(Input)
  BY <1>1, DivBelow
<1> QED
  BY <1>2, <1>3 DEF MultiTic, Input

\* The multi tic of the tic after p others.
LEMMA MultiTicOfNext ==
  ASSUME PlayerNum(Input) \in 1 .. 8, NEW n \in Nat, NEW m \in Nat,
         NEW q \in 0 .. PlayerNum(Input) - 1, n = m * PlayerNum(Input) + q + 1
  PROVE  MultiTic(n) = m
<1> DEFINE P == PlayerNum(Input)
           x == m * P
<1>1. P \in Nat /\ P > 0 /\ q \in Nat /\ q < P
  OBVIOUS
<1>2. n - 1 \in Nat /\ n - 1 = m * P + q
  <2>1. x \in Nat /\ n = x + q + 1
    OBVIOUS
  <2> HIDE DEF x
  <2>2. n - 1 \in Nat /\ n - 1 = x + q
    BY <2>1
  <2> QED
    BY <2>2 DEF x
<1> HIDE DEF P
<1>3. (n - 1) \div P = m
  BY <1>1, <1>2, DivModUnique
<1> QED
  BY <1>3 DEF MultiTic, Input, P

LEMMA PressedBefore ==
  ASSUME PlayerNum(Input) \in 1 .. 8, Input.stics \in Nat, NEW m \in Nat,
         m * PlayerNum(Input) <= Input.stics
  PROVE  TogglesBefore(m) = Pressed(m * PlayerNum(Input))
<1> DEFINE x == m * PlayerNum(Input)
           N == Input.stics
<1>1. x \in Nat /\ x <= N /\ N \in Nat
  OBVIOUS
<1>2. \A n \in 1 .. N : n \in Nat /\ n > 0
  OBVIOUS
<1>3. \A n \in 1 .. N : MultiTic(n) \in Nat /\ (MultiTic(n) < m <=> n - 1 < x)
  BY <1>2, MultiTicIs
<1> HIDE DEF x, N
<1>4. \A n \in 1 .. N : MultiTic(n) \in 0 .. m - 1 <=> n \in 1 .. x
  BY <1>1, <1>3
<1>5. \A n \in 1 .. x : n \in 1 .. N
  BY <1>1
<1>6. TogglesBefore(m) = {n \in 1 .. N : /\ MultiTic(n) \in 0 .. m - 1
                                         /\ Use(TicAt(lfile.bytes, Input, n)) = 129}
  BY DEF TogglesBefore, Toggles, N, Input
<1>7. TogglesBefore(m) = {n \in 1 .. x : Use(TicAt(lfile.bytes, Input, n)) = 129}
  BY <1>4, <1>5, <1>6
<1> QED
  BY <1>7 DEF Pressed, x

LEMMA PressedNext ==
  ASSUME NEW n \in Nat
  PROVE  /\ IsFiniteSet(Pressed(n)) /\ Cardinality(Pressed(n)) \in Nat
         /\ Use(TicAt(lfile.bytes, Input, n + 1)) = 129 => (IsOdd(Pressed(n + 1)) <=> ~ IsOdd(Pressed(n)))
         /\ Use(TicAt(lfile.bytes, Input, n + 1)) # 129 => Pressed(n + 1) = Pressed(n)
<1>1. IsFiniteSet(Pressed(n)) /\ Cardinality(Pressed(n)) \in Nat
  <2>1. IsFiniteSet(1 .. n)
    BY PowerIsCount
  <2>2. Pressed(n) \subseteq 1 .. n
    BY DEF Pressed
  <2> QED
    BY <2>1, <2>2, FS_Subset, FS_CardinalityType
<1>2. n + 1 \notin Pressed(n)
  BY DEF Pressed
<1>3. \A k : k \in 1 .. n + 1 <=> k \in 1 .. n \/ k = n + 1
  OBVIOUS
<1>4. ASSUME Use(TicAt(lfile.bytes, Input, n + 1)) # 129 PROVE Pressed(n + 1) = Pressed(n)
  BY <1>3, <1>4 DEF Pressed
<1>5. ASSUME Use(TicAt(lfile.bytes, Input, n + 1)) = 129
      PROVE  IsOdd(Pressed(n + 1)) <=> ~ IsOdd(Pressed(n))
  <2>1. Pressed(n + 1) = Pressed(n) \cup {n + 1}
    BY <1>3, <1>5 DEF Pressed
  <2>2. Cardinality(Pressed(n + 1)) = Cardinality(Pressed(n)) + 1
    BY <1>1, <1>2, <2>1, FS_AddElement
  <2> DEFINE c == Cardinality(Pressed(n))
  <2>3. c \in Nat
    BY <1>1
  <2> HIDE DEF c
  <2>4. (c + 1) % 2 = 1 <=> ~(c % 2 = 1)
    BY <2>3
  <2> QED
    BY <2>2, <2>4 DEF IsOdd, c
<1> QED
  BY <1>1, <1>4, <1>5

LEMMA NonePressed == ~ IsOdd(Pressed(0))
<1>1. Pressed(0) = {}
  BY DEF Pressed
<1>2. Cardinality({}) = 0 /\ 0 % 2 # 1
  BY FS_EmptySet
<1> QED
  BY <1>1, <1>2 DEF IsOdd

LEMMA TwoElements ==
  ASSUME NEW A, IsFiniteSet(A), Cardinality(A) <= 1, NEW a \in A, NEW b \in A
  PROVE  a = b
<1>1. Cardinality(A) \in Nat
  BY FS_CardinalityType
<1>2. CASE Cardinality(A) = 0
  BY <1>2, FS_EmptySet
<1>3. CASE Cardinality(A) = 1
  BY <1>3, FS_Singleton
<1> QED
  BY <1>1, <1>2, <1>3

\* If one player presses pause, no other one has done so in the same multi tic.
LEMMA NoOther ==
  ASSUME PlayerNum(Input) \in 1 .. 8, Input.stics \in Nat, OneToggle,
         NEW n \in Nat, NEW m \in Nat, NEW q \in 0 .. PlayerNum(Input) - 1,
         n = m * PlayerNum(Input) + q + 1, n <= Input.stics,
         Use(TicAt(lfile.bytes, Input, n)) = 129
  PROVE  Pressed(m * PlayerNum(Input) + q) = Pressed(m * PlayerNum(Input))
<1> DEFINE P == PlayerNum(Input)
           x == m * P
           N == Input.stics
<1>1. x \in Nat /\ n = x + q + 1 /\ n \in 1 .. N /\ q \in Nat /\ N \in Nat /\ P \in Nat
  <2>1. x \in Nat /\ n = x + q + 1
    OBVIOUS
  <2> HIDE DEF x
  <2> QED
    BY <2>1
<1>2. MultiTic(n) = m
  BY MultiTicOfNext
<1>3. IsFiniteSet(Toggles(m)) /\ Cardinality(Toggles(m)) <= 1
  <2>1. m \in 0 .. MultiTic(N)
    <3>1. n \in Nat /\ n > 0 /\ N > 0 /\ n - 1 <= N - 1
      BY <1>1
    <3>2. MultiTic(N) \in Nat /\ (MultiTic(N) < m <=> N - 1 < x)
      BY <1>1, <3>1, MultiTicIs
    <3> HIDE DEF x, N
    <3>3. ~(N - 1 < x)
      BY <1>1, <3>1
    <3> QED
      BY <3>2, <3>3
  <2>2. Cardinality(Toggles(m)) <= 1
    BY <2>1 DEF OneToggle, Input
  <2>3. IsFiniteSet(1 .. N)
    BY PowerIsCount
  <2>4. Toggles(m) \subseteq 1 .. N
    BY DEF Toggles, Input
  <2> QED
    BY <2>2, <2>3, <2>4, FS_Subset
<1>4. n \in Toggles(m)
  BY <1>1, <1>2 DEF Toggles, Input
<1>5. ASSUME NEW k \in x + 1 .. x + q PROVE Use(TicAt(lfile.bytes, Input, k)) # 129
  <2>1. k - x - 1 \in 0 .. P - 1 /\ k \in Nat /\ k \in 1 .. N /\ k # n
    <3> HIDE DEF x, P, N
    <3>1. q < P
      BY <1>1 DEF P
    <3> QED
      BY <1>1, <3>1
  <2> DEFINE d == k - x - 1
  <2>2. d \in 0 .. P - 1 /\ k = x + d + 1
    <3>1. k = x + (k - x - 1) + 1
      <4> HIDE DEF x
      <4> QED
        BY <1>1, <2>1
    <3> QED
      BY <2>1, <3>1
  <2> HIDE DEF d
  <2>3. MultiTic(k) = m
    BY <2>1, <2>2, MultiTicOfNext
  <2>4. ASSUME Use(TicAt(lfile.bytes, Input, k)) = 129 PROVE FALSE
    <3>1. k \in Toggles(m)
      BY <2>1, <2>3, <2>4 DEF Toggles, Input
    <3> QED
      BY <1>3, <1>4, <2>1, <3>1, TwoElements
  <2> QED
    BY <2>4
<1>6. Pressed(x + q) = Pressed(x)
  <2> HIDE DEF x
  <2>1. \A k : k \in 1 .. x + q <=> k \in 1 .. x \/ k \in x + 1 .. x + q
    BY <1>1
  <2> QED
    BY <1>5, <2>1 DEF Pressed
<1> QED
  BY <1>6

-----------------------------------------------------------------------------
(* The header, read. *)

\* The place of a field in the header, 0 if it has none.
IndexOf(g, n) == SelectInSeq(Layouts[g].fields, LAMBDA f : f = n)

LEMMA IndexIs ==
  ASSUME NEW g \in Games, NEW n
  PROVE  /\ IndexOf(g, n) \in Nat
         /\ IndexOf(g, n) = 0 <=> n \notin Range(Layouts[g].fields)
         /\ IndexOf(g, n) # 0 => /\ IndexOf(g, n) \in DOMAIN Layouts[g].fields
                                 /\ Layouts[g].fields[IndexOf(g, n)] = n
<1> DEFINE s == Layouts[g].fields
           I == {i \in 1 .. Len(s) : s[i] = n}
<1>1. DOMAIN s = 1 .. Len(s) /\ Len(s) \in Nat
  BY LayoutIs, FieldsAre
<1>2. IndexOf(g, n) = IF I # {} THEN Min(I) ELSE 0
  BY DEF IndexOf, SelectInSeq
<1>3. n \in Range(s) <=> I # {}
  BY <1>1 DEF Range
<1>4. I \in SUBSET Nat /\ 0 \notin I
  OBVIOUS
<1>5. ASSUME I # {} PROVE Min(I) \in I
  <2> HIDE DEF I
  <2>1. PICK i \in I : \A k \in 0 .. i - 1 : k \notin I
    BY <1>4, <1>5, LeastNumber
  <2>2. \A k \in I : i <= k
    BY <1>4, <2>1
  <2> QED
    BY <2>2 DEF Min
<1>6. CASE I = {}
  BY <1>2, <1>3, <1>6
<1>7. CASE I # {}
  <2>1. IndexOf(g, n) \in I
    BY <1>2, <1>5, <1>7
  <2> QED
    BY <1>1, <1>3, <1>4, <1>7, <2>1
<1> QED
  BY <1>6, <1>7

LEMMA FieldOfIs ==
  ASSUME NEW b, NEW g, NEW n
  PROVE  FieldOf(b, g, n) = IF IndexOf(g, n) # 0 THEN b[IndexOf(g, n)]
                            ELSE IF n = "episode" THEN 1
                            ELSE IF n = "versionbyte" /\ g \in Hexen THEN VersionByte[g] ELSE 0
  BY DEF FieldOf, IndexOf

\* Two files with the same header.
SameHeader(b, c, g) == \A j \in 1 .. HeaderSize(g) : b[j] = c[j]

LEMMA SameHeaderReads ==
  ASSUME NEW b, NEW c, NEW g \in Games, SameHeader(b, c, g)
  PROVE  /\ \A n \in FieldNames : FieldOf(b, g, n) = FieldOf(c, g, n)
         /\ PlayersIn(b, g) = PlayersIn(c, g)
         /\ \A s \in PlayersIn(b, g) : ClassOf(b, g, s) = ClassOf(c, g, s)
<1>1. \A j \in 1 .. HeaderSize(g) : b[j] = c[j]
  BY DEF SameHeader
<1>2. ASSUME NEW n \in FieldNames PROVE FieldOf(b, g, n) = FieldOf(c, g, n)
  <2>1. CASE IndexOf(g, n) # 0
    <3>1. IndexOf(g, n) \in 1 .. Len(Layouts[g].fields)
      BY <2>1, IndexIs, LayoutIs, FieldsAre
    <3>2. IndexOf(g, n) \in 1 .. HeaderSize(g)
      <4>1. /\ Len(Layouts[g].fields) \in Nat /\ BytesOfPlayer(g) \in {1, 2}
            /\ Layouts[g].maxplayer \in {4, 8}
            /\ HeaderSize(g) = Len(Layouts[g].fields) + BytesOfPlayer(g) * Layouts[g].maxplayer
        BY SizesAre
      <4>2. BytesOfPlayer(g) * Layouts[g].maxplayer \in Nat
        BY <4>1
      <4>3. Len(Layouts[g].fields) <= HeaderSize(g)
        BY <4>1, <4>2
      <4> QED
        BY <3>1, <4>1, <4>2, <4>3
    <3> QED
      BY <1>1, <2>1, <3>2, FieldOfIs
  <2>2. CASE IndexOf(g, n) = 0
    BY <2>2, FieldOfIs
  <2> QED
    BY <2>1, <2>2
<1>3. \A s \in 0 .. Layouts[g].maxplayer - 1 : b[PlaceOf(g, s)] = c[PlaceOf(g, s)]
  BY <1>1, PlacesAre
<1>4. PlayersIn(b, g) = PlayersIn(c, g)
  BY <1>3 DEF PlayersIn
<1>5. ASSUME NEW s \in PlayersIn(b, g) PROVE ClassOf(b, g, s) = ClassOf(c, g, s)
  <2>1. s \in 0 .. Layouts[g].maxplayer - 1
    BY DEF PlayersIn
  <2>2. CASE g \in Hexen
    <3>1. BytesOfPlayer(g) = 2 /\ PlaceOf(g, s) \in 1 .. HeaderSize(g)
          /\ PlaceOf(g, s) + BytesOfPlayer(g) - 1 \in 1 .. HeaderSize(g)
      BY <2>1, <2>2, PlacesAre DEF BytesOfPlayer
    <3>2. PlaceOf(g, s) + 1 \in 1 .. HeaderSize(g)
      BY <3>1
    <3> QED
      BY <1>1, <2>2, <3>2 DEF ClassOf
  <2>3. CASE g \notin Hexen
    BY <2>3 DEF ClassOf
  <2> QED
    BY <2>2, <2>3
<1> QED
  BY <1>2, <1>4, <1>5

LEMMA HeaderStaysRead ==
  ASSUME NEW b, NEW c, WantedLayout \in Games, SameHeader(b, c, WantedLayout), HeaderReads(b)
  PROVE  HeaderReads(c)
<1> DEFINE g == WantedLayout
<1>1. /\ \A n \in FieldNames : FieldOf(b, g, n) = FieldOf(c, g, n)
      /\ PlayersIn(b, g) = PlayersIn(c, g)
      /\ \A s \in PlayersIn(b, g) : ClassOf(b, g, s) = ClassOf(c, g, s)
  BY SameHeaderReads
<1> HIDE DEF g
<1>2. [n \in FieldNames |-> FieldOf(b, g, n)] = [n \in FieldNames |-> FieldOf(c, g, n)]
  BY <1>1
<1>3. [s \in PlayersIn(b, g) |-> ClassOf(b, g, s)] = [s \in PlayersIn(c, g) |-> ClassOf(c, g, s)]
  BY <1>1
<1>4. /\ [n \in FieldNames |-> FieldOf(b, g, n)] = Kept(Wanted(Input))
      /\ [s \in PlayersIn(b, g) |-> ClassOf(b, g, s)] = Input.players
  BY DEF HeaderReads, g
<1> QED
  BY <1>2, <1>3, <1>4, Zenon DEF HeaderReads, g

-----------------------------------------------------------------------------
(* The game and the header asked for. *)

LEMMA GameWanted ==
  ASSUME IsRead(Input, lfile.bytes), opt \in Options, ~ Impossible(Input)
  PROVE  /\ o_game(Input) \in GameSets
         /\ WantedLayout \in Games
         /\ Layouts[WantedLayout].ticsize = TicSize(Input)
         /\ WantedLayout \in Hexen <=> LayoutOf(Input.game) \in Hexen
         /\ "versionbyte" \notin Range(Layouts[WantedLayout].fields) =>
              Wanted(Input).field["versionbyte"]
                = IF WantedLayout \in Hexen THEN VersionByte[WantedLayout] ELSE 0
<1> DEFINE g == Input.game
<1>1. g \in GameSets /\ TicSize(Input) = Layouts[LayoutOf(g)].ticsize
      /\ Input.field["versionbyte"] = FieldOf(lfile.bytes, LayoutOf(g), "versionbyte")
  BY FieldsAre DEF IsRead
<1>2. /\ {"DOOM_old"} \in GameSets /\ {"DOOM_new"} \in GameSets /\ {"DOOM2"} \in GameSets
      /\ {"HERETIC"} \in GameSets /\ {"HEXEN_old"} \in GameSets /\ {"HEXEN_new"} \in GameSets
      /\ {"STRIFE"} \in GameSets /\ NewDoom \in GameSets
  BY GamesAre DEF GameSets
<1>3. /\ g \in {{"DOOM_old"}, {"DOOM_new"}, {"DOOM2"}, NewDoom, {"HERETIC"}, {"HEXEN_old"},
               {"HEXEN_new"}, {"STRIFE"}}
  BY <1>1, GamesAre DEF GameSets
<1>4. /\ LayoutOf({"DOOM_old"}) = "DOOM_old" /\ LayoutOf({"DOOM_new"}) = "DOOM_new"
      /\ LayoutOf({"DOOM2"}) = "DOOM2" /\ LayoutOf({"HERETIC"}) = "HERETIC"
      /\ LayoutOf({"HEXEN_old"}) = "HEXEN_old" /\ LayoutOf({"HEXEN_new"}) = "HEXEN_new"
      /\ LayoutOf({"STRIFE"}) = "STRIFE" /\ LayoutOf(NewDoom) = "DOOM_new"
  BY <1>2, GamesAre, LayoutOfGames
<1>5. /\ Wanted(Input).field["versionbyte"]
           = IF IsVersionNew(Input) THEN NewVersion(Input) ELSE Input.field["versionbyte"]
  <2>1. Input.field = [n \in FieldNames |-> FieldOf(lfile.bytes, LayoutOf(g), n)]
        /\ "field" \in DOMAIN Input /\ "game" \in DOMAIN Input
    BY DEF IsRead
  <2>2. "versionbyte" \in DOMAIN Input.field /\ "versionbyte" # "mainplayer"
    BY <2>1, FieldsAre
  <2> QED
    BY <2>1, <2>2 DEF Wanted
<1> HIDE DEF g
<1>6. \A h \in Games : "versionbyte" \notin Range(Layouts[h].fields)
                         => h \in {"DOOM_old", "HERETIC", "HEXEN_old", "HEXEN_new"}
  <2>1. "versionbyte" \in Range(NewFields) /\ "versionbyte" \in Range(StrifeFields)
    <3>1. NewFields[1] = "versionbyte" /\ 1 \in DOMAIN NewFields
      BY DEF NewFields
    <3>2. StrifeFields[1] = "versionbyte" /\ 1 \in DOMAIN StrifeFields
      BY DEF StrifeFields
    <3> QED
      BY <3>1, <3>2 DEF Range
  <2> QED
    BY <2>1, GamesAre, LayoutIs DEF NewDoom
<1>7. \A h \in {"DOOM_old", "HERETIC", "HEXEN_old", "HEXEN_new"} : IndexOf(h, "versionbyte") = 0
  <2>1. OldFields[1] # "versionbyte" /\ OldFields[2] # "versionbyte" /\ OldFields[3] # "versionbyte"
        /\ DOMAIN OldFields = {1, 2, 3}
    BY DEF OldFields
  <2>2. "versionbyte" \notin Range(OldFields)
    BY <2>1 DEF Range
  <2>3. \A h \in {"DOOM_old", "HERETIC", "HEXEN_old", "HEXEN_new"} :
          h \in Games /\ Layouts[h].fields = OldFields
    BY GamesAre, LayoutIs DEF NewDoom
  <2> QED
    BY <2>2, <2>3, IndexIs
<1>8. /\ LayoutOf(g) \in {"DOOM_old", "HERETIC"} => Input.field["versionbyte"] = 0
      /\ LayoutOf(g) \in Hexen => Input.field["versionbyte"] = VersionByte[LayoutOf(g)]
  BY <1>1, <1>7, FieldOfIs DEF Hexen
<1>9. /\ Layouts["DOOM_old"].ticsize = 4 /\ Layouts["DOOM_new"].ticsize = 4
      /\ Layouts["HEXEN_old"].ticsize = 6 /\ Layouts["HEXEN_new"].ticsize = 6
  BY GamesAre, LayoutIs DEF NewDoom
<1> DEFINE Good(to) ==
      /\ o_game(Input) \in GameSets /\ to \in Games
      /\ Layouts[to].ticsize = TicSize(Input)
      /\ to \in Hexen <=> LayoutOf(g) \in Hexen
      /\ to \in {"DOOM_old", "HERETIC", "HEXEN_old", "HEXEN_new"} =>
           Wanted(Input).field["versionbyte"] = IF to \in Hexen THEN VersionByte[to] ELSE 0
<1> SUFFICES Good(WantedLayout)
  BY <1>6, Zenon DEF g
<1>10. CASE ~ IsVersionNew(Input)
  <2>1. o_game(Input) = g
    BY <1>10 DEF o_game, g
  <2>2. LayoutOf(g) \in Games
    BY <1>1, LayoutOfGames
  <2>3. Wanted(Input).field["versionbyte"] = Input.field["versionbyte"]
    BY <1>5, <1>10
  <2>4. LayoutOf(g) \in {"DOOM_old", "HERETIC", "HEXEN_old", "HEXEN_new"} =>
           LayoutOf(g) \in {"DOOM_old", "HERETIC"} \/ LayoutOf(g) \in Hexen
    BY DEF Hexen
  <2>5. LayoutOf(g) \in {"DOOM_old", "HERETIC"} => LayoutOf(g) \notin Hexen
    BY DEF Hexen
  <2>6. Good(LayoutOf(g))
    BY <1>1, <1>8, <2>1, <2>2, <2>3, <2>4, <2>5
  <2> QED
    BY <2>1, <2>6, Zenon DEF WantedLayout
<1>11. CASE IsVersionNew(Input)
  <2>1. Wanted(Input).field["versionbyte"] = NewVersion(Input)
    BY <1>5, <1>11
  <2>2. CASE g \subseteq Hexen
    <3>1. NewVersion(Input) \in Range(VersionByte)
      BY <1>11, <2>2, Zenon DEF Impossible, g
    <3>2. PICK h \in Hexen : VersionByte[h] = NewVersion(Input)
      BY <3>1 DEF Range, VersionByte
    <3>3. o_game(Input) = {x \in Hexen : VersionByte[x] = NewVersion(Input)}
      BY <1>11, <2>2, Zenon DEF o_game, g
    <3>4. \A x \in Hexen : VersionByte[x] = VersionByte[h] => x = h
      BY DEF VersionByte, Hexen
    <3>5. o_game(Input) = {h}
      BY <3>2, <3>3, <3>4
    <3>6. LayoutOf(o_game(Input)) = h /\ {h} \in GameSets /\ h \in Games
      BY <1>2, <1>4, <3>5, GamesAre DEF Hexen
    <3>7. LayoutOf(g) \in Hexen
      BY <1>3, <1>4, <2>2 DEF Hexen, NewDoom
    <3>8. Layouts[h].ticsize = Layouts[LayoutOf(g)].ticsize
      BY <1>9, <3>7 DEF Hexen
    <3>9. Good(h)
      BY <1>1, <2>1, <3>2, <3>5, <3>6, <3>7, <3>8
    <3> QED
      BY <3>6, <3>9, Zenon DEF WantedLayout
  <2>3. CASE ~(g \subseteq Hexen) /\ NewVersion(Input) = 0 /\ "DOOM_new" \in g
    <3>1. o_game(Input) = {"DOOM_old"}
      BY <1>11, <2>3, Zenon DEF o_game, g
    <3>2. LayoutOf(g) = "DOOM_new"
      BY <1>3, <1>4, <2>3
    <3>3. "DOOM_new" \notin Hexen /\ "DOOM_old" \notin Hexen /\ "DOOM_old" \in Games
      BY GamesAre DEF Hexen
    <3>4. Good("DOOM_old")
      BY <1>1, <1>2, <1>9, <2>1, <2>3, <3>1, <3>2, <3>3
    <3> QED
      BY <1>4, <3>1, <3>4, Zenon DEF WantedLayout
  <2>4. CASE ~(g \subseteq Hexen) /\ ~(NewVersion(Input) = 0 /\ "DOOM_new" \in g) /\ g = {"DOOM_old"}
    <3>1. o_game(Input) = {"DOOM_new"}
      BY <1>11, <2>4, Zenon DEF o_game, g
    <3>2. LayoutOf(g) = "DOOM_old"
      BY <1>4, <2>4
    <3>3. "DOOM_new" \notin Hexen /\ "DOOM_old" \notin Hexen /\ "DOOM_new" \in Games
      BY GamesAre DEF Hexen
    <3>4. Good("DOOM_new")
      BY <1>1, <1>2, <1>9, <3>1, <3>2, <3>3
    <3> QED
      BY <1>4, <3>1, <3>4, Zenon DEF WantedLayout
  <2>5. CASE ~(g \subseteq Hexen) /\ ~(NewVersion(Input) = 0 /\ "DOOM_new" \in g) /\ g # {"DOOM_old"}
    <3>1. o_game(Input) = g
      BY <1>11, <2>5, Zenon DEF o_game, g
    <3>2. g # {"HERETIC"}
      BY <1>11, Zenon DEF Impossible, g
    <3>3. LayoutOf(g) \in Games /\ LayoutOf(g) \notin {"DOOM_old", "HERETIC", "HEXEN_old", "HEXEN_new"}
      BY <1>3, <1>4, <2>5, <3>2, GamesAre DEF Hexen
    <3>4. Good(LayoutOf(g))
      BY <1>1, <3>1, <3>3
    <3> QED
      BY <3>1, <3>4, Zenon DEF WantedLayout
  <2> QED
    BY <2>2, <2>3, <2>4, <2>5
<1> QED
  BY <1>10, <1>11

\* What the header of a file holds.
LEMMA HeaderTyped ==
  ASSUME IsRead(Input, lfile.bytes)
  PROVE  /\ \A j \in 1 .. HeaderLen(Input) : lfile.bytes[j] \in Byte
         /\ \A n \in FieldNames : Input.field[n] \in Byte
         /\ \A s \in DOMAIN Input.players : Input.players[s] \in Byte
<1> DEFINE b == lfile.bytes
           g == LayoutOf(Input.game)
<1>1. /\ b \in Seq(Byte) /\ Len(b) \in Nat /\ g \in Games /\ HeaderLen(Input) = HeaderSize(g)
      /\ DOMAIN Input.players = PlayersIn(b, g)
      /\ \A s \in DOMAIN Input.players : Input.players[s] = ClassOf(b, g, s)
      /\ Input.field = [n \in FieldNames |-> FieldOf(b, g, n)]
  BY LayoutOfGames DEF IsRead, HeaderLen
<1>2. HeaderSize(g) \in Nat /\ HeaderSize(g) <= Len(b)
  <2> DEFINE x == Input.stics * TicSize(Input)
  <2>1. x \in Nat
    <3>1. Input.stics \in Nat /\ TicSize(Input) \in Nat
      BY DEF IsRead
    <3> QED
      BY <3>1
  <2>2. Len(b) = HeaderSize(g) + x + 1
    BY <1>1, Zenon DEF IsRead
  <2>3. HeaderSize(g) \in Nat
    BY <1>1, SizesAre
  <2> HIDE DEF x
  <2> QED
    BY <1>1, <2>1, <2>2, <2>3
<1> HIDE DEF g
<1>3. \A j \in 1 .. HeaderSize(g) : b[j] \in Byte
  <2>1. \A j \in 1 .. HeaderSize(g) : j \in 1 .. Len(b)
    BY <1>1, <1>2
  <2> QED
    BY <1>1, <2>1, ElementOfSeq
<1>4. 0 \in Byte /\ 1 \in Byte /\ \A h \in Hexen : VersionByte[h] \in Byte
  BY DEF Byte, VersionByte
<1>5. ASSUME NEW n \in FieldNames PROVE Input.field[n] \in Byte
  <2>1. Input.field[n] = FieldOf(b, g, n)
    BY <1>1
  <2>2. CASE IndexOf(g, n) # 0
    <3>1. IndexOf(g, n) \in 1 .. Len(Layouts[g].fields)
      BY <1>1, <2>2, IndexIs, LayoutIs, FieldsAre
    <3>2. Len(Layouts[g].fields) <= HeaderSize(g) /\ Len(Layouts[g].fields) \in Nat
      <4>1. /\ Len(Layouts[g].fields) \in Nat /\ BytesOfPlayer(g) \in {1, 2}
            /\ Layouts[g].maxplayer \in {4, 8}
            /\ HeaderSize(g) = Len(Layouts[g].fields) + BytesOfPlayer(g) * Layouts[g].maxplayer
        BY <1>1, SizesAre
      <4>2. BytesOfPlayer(g) * Layouts[g].maxplayer \in Nat
        BY <4>1
      <4> QED
        BY <4>1, <4>2
    <3>3. IndexOf(g, n) \in 1 .. HeaderSize(g)
      BY <1>2, <3>1, <3>2
    <3> QED
      BY <1>3, <2>1, <2>2, <3>3, FieldOfIs
  <2>3. CASE IndexOf(g, n) = 0
    BY <1>4, <2>1, <2>3, FieldOfIs
  <2> QED
    BY <2>2, <2>3
<1>6. ASSUME NEW s \in PlayersIn(b, g) PROVE ClassOf(b, g, s) \in Byte
  <2>1. s \in 0 .. Layouts[g].maxplayer - 1
    BY DEF PlayersIn
  <2>2. CASE g \in Hexen
    <3>1. BytesOfPlayer(g) = 2 /\ PlaceOf(g, s) \in 1 .. HeaderSize(g)
          /\ PlaceOf(g, s) + BytesOfPlayer(g) - 1 \in 1 .. HeaderSize(g)
      BY <1>1, <2>1, <2>2, PlacesAre DEF BytesOfPlayer
    <3>2. PlaceOf(g, s) + 1 \in 1 .. HeaderSize(g)
      BY <3>1
    <3> QED
      BY <1>3, <2>2, <3>2 DEF ClassOf
  <2>3. CASE g \notin Hexen
    BY <1>4, <2>3 DEF ClassOf
  <2> QED
    BY <2>2, <2>3
<1> QED
  BY <1>1, <1>3, <1>5, <1>6

LEMMA WantedIs ==
  ASSUME IsRead(Input, lfile.bytes), opt \in Options
  PROVE  /\ Wanted(Input).game = o_game(Input) /\ Wanted(Input).players = Input.players
         /\ \A n \in FieldNames : Wanted(Input).field[n] \in Byte
<1> DEFINE l == Wanted(Input)
           u == IF IsVersionNew(Input) THEN NewVersion(Input) ELSE Input.field["versionbyte"]
           v == IF IsViewNew(Input) THEN opt.player[1] ELSE Input.field["mainplayer"]
<1>1. /\ DOMAIN Input = {"game", "field", "players", "stics"}
      /\ Input.field = [n \in FieldNames |-> FieldOf(lfile.bytes, LayoutOf(Input.game), n)]
  BY DEF IsRead
<1>2. l.game = o_game(Input) /\ l.players = Input.players
  BY <1>1 DEF Wanted
<1>3. \A n \in FieldNames : l.field[n] = IF n = "mainplayer" THEN v
                                         ELSE IF n = "versionbyte" THEN u ELSE Input.field[n]
  <2>1. "mainplayer" # "versionbyte"
    OBVIOUS
  <2> QED
    BY <1>1, <2>1 DEF Wanted
<1>4. u \in Byte /\ v \in Byte
  <2>1. \A n \in FieldNames : Input.field[n] \in Byte
    BY HeaderTyped
  <2>2. Input.field["versionbyte"] \in Byte /\ Input.field["mainplayer"] \in Byte
    BY <2>1, FieldsAre
  <2>3. opt.version # <<>> => opt.version[1] \in Byte /\ opt.version[2] \in Byte
    BY DEF Options
  <2>4. opt.player # <<>> => opt.player[1] \in Byte
    BY DEF Options
  <2>5. IsVersionNew(Input) => NewVersion(Input) \in Byte
    BY <2>3 DEF IsVersionNew, NewVersion
  <2>6. IsViewNew(Input) => opt.player[1] \in Byte
    BY <2>4 DEF IsViewNew
  <2> QED
    BY <2>2, <2>5, <2>6
<1> HIDE DEF l, u, v
<1>5. \A n \in FieldNames : l.field[n] \in Byte
  BY <1>3, <1>4, HeaderTyped
<1> QED
  BY <1>2, <1>5 DEF l

\* The bytes of the players in a header.
LEMMA PlayersWritten ==
  ASSUME NEW l, NEW g \in Games, \A s \in DOMAIN l.players : l.players[s] \in Byte
  PROVE  \E t \in Seq(Byte) :
           /\ FlattenSeq([s \in 1 .. Layouts[g].maxplayer |-> PlayerBytes(l, g, s - 1)]) = t
           /\ Len(t) = BytesOfPlayer(g) * Layouts[g].maxplayer
           /\ \A s \in 0 .. Layouts[g].maxplayer - 1 : \A j \in 1 .. BytesOfPlayer(g) :
                t[BytesOfPlayer(g) * s + j] = PlayerBytes(l, g, s)[j]
<1> DEFINE m == Layouts[g].maxplayer
           x == BytesOfPlayer(g)
           f == [s \in 1 .. m |-> PlayerBytes(l, g, s - 1)]
<1>1. m \in {4, 8} /\ x \in {1, 2} /\ m \in Nat /\ x \in Nat
  BY SizesAre
<1>2. \A s : PlayerBytes(l, g, s) \in Seq(Byte) /\ Len(PlayerBytes(l, g, s)) = x
  <2> TAKE s
  <2>1. 0 \in Byte /\ 1 \in Byte
    BY DEF Byte
  <2>2. CASE s \notin DOMAIN l.players
    <3>1. PlayerBytes(l, g, s) = [i \in 1 .. x |-> 0]
      BY <2>2 DEF PlayerBytes
    <3> QED
      BY <1>1, <2>1, <3>1
  <2>3. CASE s \in DOMAIN l.players /\ g \in Hexen
    <3>1. PlayerBytes(l, g, s) = <<1, l.players[s]>> /\ x = 2
      BY <2>3 DEF PlayerBytes, BytesOfPlayer
    <3> QED
      BY <2>1, <2>3, <3>1
  <2>4. CASE s \in DOMAIN l.players /\ g \notin Hexen
    <3>1. PlayerBytes(l, g, s) = <<1>> /\ x = 1
      BY <2>4 DEF PlayerBytes, BytesOfPlayer
    <3> QED
      BY <2>1, <3>1
  <2> QED
    BY <2>2, <2>3, <2>4
<1> HIDE DEF m, x
<1>3. \A s \in 1 .. m : f[s] = PlayerBytes(l, g, s - 1)
  OBVIOUS
<1>4. f = [s \in 1 .. m |-> f[s]]
  OBVIOUS
<1> HIDE DEF f
<1>5. \A s \in 1 .. m : f[s] \in Seq(Byte) /\ Len(f[s]) = x
  BY <1>2, <1>3
<1> DEFINE t == Flat(f, m)
<1>6. /\ Len(t) = m * x
      /\ \A i \in 1 .. m : \A j \in 1 .. x : t[(i - 1) * x + j] = f[i][j]
  <2>1. Pieces(f, m, x, Byte)
    BY <1>5, Zenon DEF Pieces
  <2>2. IsJoined(t, f, m, x)
    BY <1>1, <2>1, FlatIsJoined
  <2> HIDE DEF t
  <2> QED
    BY <2>2, Zenon DEF IsJoined
<1>7. t \in Seq(Byte)
  BY <1>1, <1>5, FlatTyped
<1>8. FlattenSeq(f) = t
  BY <1>4, Zenon DEF Flat
<1> HIDE DEF t
<1>9. Len(t) = x * m
  BY <1>1, <1>6
<1>10. ASSUME NEW s \in 0 .. m - 1, NEW j \in 1 .. x PROVE t[x * s + j] = PlayerBytes(l, g, s)[j]
  <2>1. s + 1 \in 1 .. m /\ (s + 1) - 1 = s
    BY <1>1
  <2>2. t[((s + 1) - 1) * x + j] = f[s + 1][j]
    BY <1>6, <2>1
  <2>3. f[s + 1] = PlayerBytes(l, g, s)
    BY <1>3, <2>1
  <2>4. ((s + 1) - 1) * x + j = x * s + j
    <3>1. s * x = x * s
      BY <1>1
    <3> QED
      BY <2>1, <3>1, Zenon
  <2> QED
    BY <2>2, <2>3, <2>4
<1>11. FlattenSeq([s \in 1 .. m |-> PlayerBytes(l, g, s - 1)]) = t
  BY <1>8 DEF f
<1> WITNESS t \in Seq(Byte)
<1> QED
  BY <1>9, <1>10, <1>11, Zenon DEF m, x

\* The fields of l for which the game g has no place.
FieldsFit(l, g) ==
  "versionbyte" \notin Range(Layouts[g].fields) =>
    l.field["versionbyte"] = IF g \in Hexen THEN VersionByte[g] ELSE 0

\* b is the header of l, a game g.
IsHeaderOf(b, l, g) ==
  /\ b \in Seq(Byte) /\ Len(b) = HeaderSize(g)
  /\ \A i \in DOMAIN Layouts[g].fields : b[i] = l.field[Layouts[g].fields[i]]
  /\ \A s \in 0 .. Layouts[g].maxplayer - 1 : \A j \in 1 .. BytesOfPlayer(g) :
       b[PlaceOf(g, s) + j - 1] = PlayerBytes(l, g, s)[j]

LEMMA HeaderOf ==
  ASSUME NEW l, LayoutOf(l.game) \in Games, \A n \in FieldNames : l.field[n] \in Byte,
         \A s \in DOMAIN l.players : l.players[s] \in Byte
  PROVE  IsHeaderOf(LMP_writeheader(l), l, LayoutOf(l.game))
<1> DEFINE g == LayoutOf(l.game)
           fs == Layouts[g].fields
           m == Layouts[g].maxplayer
           x == BytesOfPlayer(g)
           h == [i \in DOMAIN fs |-> l.field[fs[i]]]
<1>1. PICK t \in Seq(Byte) :
           /\ FlattenSeq([s \in 1 .. m |-> PlayerBytes(l, g, s - 1)]) = t
           /\ Len(t) = x * m
           /\ \A s \in 0 .. m - 1 : \A j \in 1 .. x : t[x * s + j] = PlayerBytes(l, g, s)[j]
  BY PlayersWritten
<1>2. LMP_writeheader(l) = h \o t
  BY <1>1, Zenon DEF LMP_writeheader
<1>3. fs \in Seq(FieldNames) /\ Len(fs) \in Nat /\ HeaderSize(g) = Len(fs) + x * m
      /\ x \in {1, 2} /\ m \in {4, 8}
  <2>1. g \in Games
    OBVIOUS
  <2> HIDE DEF g
  <2>2. fs \in {NewFields, StrifeFields, OldFields}
    BY <2>1, LayoutIs
  <2>3. fs \in Seq(FieldNames)
    BY <2>2, FieldsAre
  <2>4. HeaderSize(g) = Len(fs) + x * m /\ x \in {1, 2} /\ m \in {4, 8}
    BY <2>1, SizesAre
  <2> QED
    BY <2>3, <2>4, LenProperties
<1>4. \A s : PlaceOf(g, s) = Len(fs) + 1 + x * s
  BY DEF PlaceOf
<1> HIDE DEF m, x, fs
<1>5. h \in Seq(Byte) /\ Len(h) = Len(fs) /\ \A i \in DOMAIN fs : h[i] = l.field[fs[i]]
  <2>1. \A i \in DOMAIN fs : fs[i] \in FieldNames
    BY <1>3
  <2>2. \A i \in DOMAIN fs : l.field[fs[i]] \in Byte
    BY <2>1
  <2>3. DOMAIN fs = 1 .. Len(fs)
    BY <1>3
  <2> QED
    BY <1>3, <2>2, <2>3
<1> HIDE DEF h
<1> DEFINE b == h \o t
<1>6. /\ b \in Seq(Byte) /\ Len(b) = Len(h) + Len(t) /\ Len(t) \in Nat
      /\ \A i \in 1 .. Len(h) + Len(t) : b[i] = IF i <= Len(h) THEN h[i] ELSE t[i - Len(h)]
  <2>1. t \in Seq(Byte) /\ h \in Seq(Byte)
    BY <1>5
  <2>2. Len(t) \in Nat
    BY <2>1, LenProperties
  <2> QED
    BY <2>1, <2>2, ConcatProperties
<1> HIDE DEF b
<1>7. Len(b) = HeaderSize(g)
  BY <1>1, <1>3, <1>5, <1>6
<1>8. ASSUME NEW i \in DOMAIN fs PROVE b[i] = l.field[fs[i]]
  <2>1. i \in 1 .. Len(h) + Len(t) /\ i <= Len(h)
    BY <1>3, <1>5, <1>6
  <2> QED
    BY <1>5, <1>6, <2>1
<1>9. ASSUME NEW s \in 0 .. m - 1, NEW j \in 1 .. x
      PROVE  b[PlaceOf(g, s) + j - 1] = PlayerBytes(l, g, s)[j]
  <2>1. x * s + j \in 1 .. x * m
    <3>1. CASE x = 1
      BY <1>3, <3>1
    <3>2. CASE x = 2
      BY <1>3, <3>2
    <3> QED
      BY <1>3, <3>1, <3>2
  <2>2. PlaceOf(g, s) = Len(fs) + 1 + x * s
    BY <1>4
  <2> DEFINE y == x * s
             z == x * m
  <2>3. y \in Nat
    BY <1>3
  <2>4. Len(t) = z /\ y + j \in 1 .. z /\ PlaceOf(g, s) = Len(fs) + 1 + y /\ t[y + j] = PlayerBytes(l, g, s)[j]
    BY <1>1, <2>1, <2>2
  <2> HIDE DEF y, z
  <2>5. PlaceOf(g, s) + j - 1 = Len(h) + (y + j)
    BY <1>3, <1>5, <2>3, <2>4
  <2>6. /\ Len(h) + (y + j) \in 1 .. Len(h) + Len(t) /\ ~(Len(h) + (y + j) <= Len(h))
        /\ (Len(h) + (y + j)) - Len(h) = y + j
    BY <1>3, <1>5, <2>3, <2>4
  <2> QED
    BY <1>6, <2>4, <2>5, <2>6
<1>10. LMP_writeheader(l) = b
  BY <1>2 DEF b
<1> HIDE DEF g
<1>11. IsHeaderOf(b, l, g)
  BY <1>6, <1>7, <1>8, <1>9, Zenon DEF IsHeaderOf, fs, m, x
<1> QED
  BY <1>10, <1>11 DEF g

LEMMA HeaderOfReads ==
  ASSUME NEW l, NEW g \in Games, FieldsFit(l, g), NEW b, IsHeaderOf(b, l, g),
         DOMAIN l.players \subseteq 0 .. Layouts[g].maxplayer - 1,
         g \notin Hexen => \A s \in DOMAIN l.players : l.players[s] = 0
  PROVE  /\ g = LayoutOf(l.game) => [n \in FieldNames |-> FieldOf(b, g, n)] = Kept(l)
         /\ PlayersIn(b, g) = DOMAIN l.players
         /\ \A s \in DOMAIN l.players : ClassOf(b, g, s) = l.players[s]
<1> USE DEF IsHeaderOf
<1>1. g = LayoutOf(l.game) =>
        Kept(l) = [n \in FieldNames |-> IF n \in Range(Layouts[g].fields) \/ n = "versionbyte"
                                       THEN l.field[n] ELSE IF n = "episode" THEN 1 ELSE 0]
  BY Zenon DEF Kept
<1>2. ASSUME NEW n \in FieldNames
      PROVE  FieldOf(b, g, n) = IF n \in Range(Layouts[g].fields) \/ n = "versionbyte"
                                THEN l.field[n] ELSE IF n = "episode" THEN 1 ELSE 0
  <2>1. CASE IndexOf(g, n) # 0
    <3>1. n \in Range(Layouts[g].fields) /\ IndexOf(g, n) \in DOMAIN Layouts[g].fields
          /\ Layouts[g].fields[IndexOf(g, n)] = n
      BY <2>1, IndexIs
    <3>2. b[IndexOf(g, n)] = l.field[n]
      BY <3>1
    <3> QED
      BY <2>1, <3>1, <3>2, FieldOfIs
  <2>2. CASE IndexOf(g, n) = 0
    <3>1. n \notin Range(Layouts[g].fields)
      BY <2>2, IndexIs
    <3>2. CASE n = "versionbyte"
      BY <2>2, <3>1, <3>2, FieldOfIs DEF FieldsFit
    <3>3. CASE n # "versionbyte"
      BY <2>2, <3>1, <3>3, FieldOfIs
    <3> QED
      BY <3>2, <3>3
  <2> QED
    BY <2>1, <2>2
<1>3. \A s \in 0 .. Layouts[g].maxplayer - 1 :
         /\ PlaceOf(g, s) \in 1 .. HeaderSize(g)
         /\ b[PlaceOf(g, s)] = PlayerBytes(l, g, s)[1]
  <2> TAKE s \in 0 .. Layouts[g].maxplayer - 1
  <2>1. PlaceOf(g, s) \in 1 .. HeaderSize(g) /\ BytesOfPlayer(g) \in {1, 2} /\ HeaderSize(g) \in 7 .. 19
    BY PlacesAre, SizesAre
  <2>2. 1 \in 1 .. BytesOfPlayer(g) /\ PlaceOf(g, s) + 1 - 1 = PlaceOf(g, s)
    BY <2>1
  <2>3. b[PlaceOf(g, s) + 1 - 1] = PlayerBytes(l, g, s)[1]
    BY <2>2
  <2> QED
    BY <2>1, <2>2, <2>3
<1>4. \A s \in 0 .. Layouts[g].maxplayer - 1 : PlayerBytes(l, g, s)[1] # 0 <=> s \in DOMAIN l.players
  <2> TAKE s \in 0 .. Layouts[g].maxplayer - 1
  <2>1. CASE s \notin DOMAIN l.players
    <3>1. PlayerBytes(l, g, s) = [i \in 1 .. BytesOfPlayer(g) |-> 0]
      BY <2>1 DEF PlayerBytes
    <3>2. 1 \in 1 .. BytesOfPlayer(g)
      BY SizesAre
    <3> QED
      BY <2>1, <3>1, <3>2
  <2>2. CASE s \in DOMAIN l.players
    <3>1. PlayerBytes(l, g, s) \in {<<1, l.players[s]>>, <<1>>}
      BY <2>2 DEF PlayerBytes
    <3>2. PlayerBytes(l, g, s)[1] = 1
      BY <3>1
    <3> QED
      BY <2>2, <3>2
  <2> QED
    BY <2>1, <2>2
<1>5. PlayersIn(b, g) = DOMAIN l.players
  BY <1>3, <1>4 DEF PlayersIn
<1>6. ASSUME NEW s \in DOMAIN l.players PROVE ClassOf(b, g, s) = l.players[s]
  <2>1. s \in 0 .. Layouts[g].maxplayer - 1
    OBVIOUS
  <2>2. CASE g \in Hexen
    <3>1. BytesOfPlayer(g) = 2 /\ PlayerBytes(l, g, s) = <<1, l.players[s]>>
      BY <2>2 DEF BytesOfPlayer, PlayerBytes
    <3>2. 2 \in 1 .. BytesOfPlayer(g) /\ PlaceOf(g, s) \in 1 .. HeaderSize(g) /\ HeaderSize(g) \in 7 .. 19
      BY <2>1, <3>1, PlacesAre, SizesAre
    <3>3. b[PlaceOf(g, s) + 2 - 1] = PlayerBytes(l, g, s)[2]
      BY <2>1, <3>2
    <3>4. PlaceOf(g, s) + 2 - 1 = PlaceOf(g, s) + 1
      BY <3>2
    <3> QED
      BY <2>2, <3>1, <3>3, <3>4 DEF ClassOf
  <2>3. CASE g \notin Hexen
    BY <2>3 DEF ClassOf
  <2> QED
    BY <2>2, <2>3
<1> QED
  BY <1>1, <1>2, <1>5, <1>6

\* The header that is written.
LEMMA HeaderWritten ==
  ASSUME IsRead(Input, lfile.bytes), opt \in Options, ~ Impossible(Input)
  PROVE  /\ LMP_writeheader(Wanted(Input)) \in Seq(Byte)
         /\ Len(LMP_writeheader(Wanted(Input))) = WantedSize
         /\ HasPlaces(Wanted(Input)) => HeaderReads(LMP_writeheader(Wanted(Input)))
<1> DEFINE l == Wanted(Input)
           g == WantedLayout
           pl == Input.players
<1>1. /\ o_game(Input) \in GameSets /\ g \in Games
      /\ g \in Hexen <=> LayoutOf(Input.game) \in Hexen
  BY GameWanted
<1>2. /\ l.game = o_game(Input) /\ l.players = pl /\ \A n \in FieldNames : l.field[n] \in Byte
      /\ \A s \in DOMAIN pl : pl[s] \in Byte
  BY WantedIs, HeaderTyped
<1>3. FieldsFit(l, g)
  BY GameWanted DEF FieldsFit
<1>4. LayoutOf(l.game) = g
  BY <1>2 DEF WantedLayout
<1>5. /\ DOMAIN pl = PlayersIn(lfile.bytes, LayoutOf(Input.game))
      /\ \A s \in DOMAIN pl : pl[s] = ClassOf(lfile.bytes, LayoutOf(Input.game), s)
      /\ pl = [s \in DOMAIN pl |-> pl[s]]
  BY DEF IsRead
<1> HIDE DEF l, g, pl
<1> DEFINE b == LMP_writeheader(l)
<1>6. IsHeaderOf(b, l, g)
  <2>1. /\ LayoutOf(l.game) \in Games /\ \A n \in FieldNames : l.field[n] \in Byte
        /\ \A s \in DOMAIN l.players : l.players[s] \in Byte
    BY <1>1, <1>2, <1>4
  <2>2. IsHeaderOf(LMP_writeheader(l), l, LayoutOf(l.game))
    BY <2>1, HeaderOf, Zenon
  <2> QED
    BY <1>4, <2>2, Zenon
<1> HIDE DEF b
<1>7. ASSUME HasPlaces(l) PROVE HeaderReads(b)
  <2>1. DOMAIN l.players \subseteq 0 .. Layouts[g].maxplayer - 1
    <3>1. \A s \in DOMAIN l.players : s < Layouts[g].maxplayer
      BY <1>4, <1>7, Zenon DEF HasPlaces
    <3>2. DOMAIN l.players \subseteq Nat
      BY <1>1, <1>2, <1>5, SizesAre, LayoutOfGames DEF PlayersIn
    <3>3. Layouts[g].maxplayer \in Nat
      BY <1>1, SizesAre
    <3> QED
      BY <3>1, <3>2, <3>3
  <2>2. g \notin Hexen => \A s \in DOMAIN l.players : l.players[s] = 0
    BY <1>1, <1>2, <1>5 DEF ClassOf
  <2>3. /\ [n \in FieldNames |-> FieldOf(b, g, n)] = Kept(l)
        /\ PlayersIn(b, g) = DOMAIN l.players
        /\ \A s \in DOMAIN l.players : ClassOf(b, g, s) = l.players[s]
    <3>1. g = LayoutOf(l.game)
      BY <1>4
    <3> QED
      BY <1>1, <1>3, <1>6, <2>1, <2>2, <3>1, HeaderOfReads
  <2>4. [s \in PlayersIn(b, g) |-> ClassOf(b, g, s)] = pl
    <3>1. [s \in PlayersIn(b, g) |-> ClassOf(b, g, s)] = [s \in DOMAIN pl |-> pl[s]]
      BY <1>2, <2>3
    <3> QED
      BY <1>5, <3>1
  <2> QED
    BY <2>3, <2>4, Zenon DEF HeaderReads, l, g, pl
<1>8. b \in Seq(Byte) /\ Len(b) = HeaderSize(g) /\ (HasPlaces(l) => HeaderReads(b))
  BY <1>6, <1>7 DEF IsHeaderOf
<1> QED
  BY <1>8, Zenon DEF WantedSize, b, l, g

-----------------------------------------------------------------------------
(* The steps. *)

LEMMA InputIsRead ==
  ASSUME FileInv, ReadInv, lphase \in {"options", "tics", "copy", "end", "done"}
  PROVE  IsRead(Input, lfile.bytes) /\ opt \in Options
<1>1. PICK c \in Conversions : lfile = c.lfile /\ opt = c.opt
  BY DEF FileInv
<1>2. lfile.bytes \in Seq(Byte) /\ opt \in Options /\ \A g \in Games : HeaderSize(g) < Len(lfile.bytes)
  BY <1>1, ConversionsAssumption
<1>3. PICK games \in GameSets : /\ IsLmp(lfile.bytes, LayoutOf(games))
                                /\ li = <<LmpIn(lfile.bytes, games, LayoutOf(games))>>
  BY DEF ReadInv
<1>4. Input = LmpIn(lfile.bytes, games, LayoutOf(games))
  BY <1>3 DEF Input
<1>5. IsRead(LmpIn(lfile.bytes, games, LayoutOf(games)), lfile.bytes)
  BY <1>2, <1>3, LmpInIsRead
<1> QED
  BY <1>2, <1>4, <1>5

\* What depends on the file and the options only.
LEMMA InputStays ==
  ASSUME UNCHANGED <<lfile, opt, li>>
  PROVE  /\ Input' = Input /\ (Impossible(Input))' = Impossible(Input)
         /\ o_game(Input)' = o_game(Input) /\ Wanted(Input)' = Wanted(Input)
         /\ WantedLayout' = WantedLayout /\ WantedSize' = WantedSize
         /\ NewTics' = NewTics /\ NewFile(Input)' = NewFile(Input)
  BY Zenon DEF Input, Impossible, IsVersionNew, NewVersion, PlayerNum, o_game, Wanted, IsViewNew,
               WantedLayout, WantedSize, NewTics, NewFile

LEMMA TicsStay ==
  ASSUME UNCHANGED <<lfile, opt, li>>
  PROVE  /\ OneToggle' = OneToggle /\ Distinct' = Distinct
         /\ \A n : TicAsked(n)' = TicAsked(n)
         /\ Asked' = Asked
         /\ \A n : Pressed(n)' = Pressed(n)
<1>1. lfile' = lfile /\ opt' = opt /\ li' = li
  OBVIOUS
<1>2. \A n : MultiTic(n)' = MultiTic(n)
  BY <1>1, Zenon DEF MultiTic, PlayerNum
<1>3. \A m : Toggles(m)' = Toggles(m)
  BY <1>1, <1>2, Zenon DEF Toggles
<1>4. OneToggle' = OneToggle
  BY <1>1, <1>2, <1>3, Zenon DEF OneToggle
<1>5. Distinct' = Distinct
  BY <1>1, <1>4, Zenon DEF Distinct
<1>6. \A m : TogglesBefore(m)' = TogglesBefore(m)
  BY <1>3, Zenon DEF TogglesBefore
<1>7. \A n : TicAsked(n)' = TicAsked(n)
  BY <1>1, <1>2, <1>6 DEF TicAsked
<1>8. Asked' = Asked
  BY <1>1, <1>7, Zenon DEF Asked, Input
<1>9. \A n : Pressed(n)' = Pressed(n)
  BY <1>1, Zenon DEF Pressed, Input
<1> QED
  BY <1>4, <1>5, <1>7, <1>8, <1>9, Zenon

LEMMA HeaderStays ==
  ASSUME UNCHANGED <<lfile, opt, li>>
  PROVE  /\ HasPlaces(Wanted(Input))' = HasPlaces(Wanted(Input))
         /\ \A b : HeaderReads(b)' = HeaderReads(b)
  BY InputStays, Zenon DEF HasPlaces, HeaderReads

\* The tic in hand, and whether it is one of a pause.
Tic    == TicAt(lfile.bytes, Input, stic)
Paused == NowPaused(p = PlayerNum(Input))

LEMMA CopyTicIs ==
  ASSUME CopyTic
  PROVE  /\ lphase = "tics" /\ stic <= Input.stics
         /\ p' = IF p = PlayerNum(Input) THEN 1 ELSE p + 1
         /\ currentpause' = Paused
         /\ newpause' = IF IsPause(ClearSave(Use(Tic))) THEN ~ Paused ELSE newpause
         /\ made' = IF Paused THEN made
                    ELSE made \o [Tic EXCEPT ![4] = IF IsPause(ClearSave(Use(Tic))) THEN 0
                                                    ELSE ClearSave(Use(Tic))]
         /\ stic' = stic + 1 /\ wpos' = Len(made')
         /\ UNCHANGED <<lfile, opt, li>> /\ lphase' = lphase /\ lo' = lo
<1>1. PICK first \in {p = PlayerNum(li[1])}, t \in {TicAt(lfile.bytes, li[1], stic)} :
       \E paused \in {NowPaused(first)}, use \in {ClearSave(Use(t))} :
         /\ p' = IF first THEN 1 ELSE p + 1
         /\ currentpause' = paused
         /\ newpause' = IF IsPause(use) THEN ~ paused ELSE newpause
         /\ made' = IF paused THEN made
                    ELSE made \o [t EXCEPT ![4] = IF IsPause(use) THEN 0 ELSE use]
  BY DEF CopyTic
<1>2. first = (p = PlayerNum(Input)) /\ t = Tic
  BY DEF Input, Tic
<1>3. PICK paused \in {NowPaused(first)}, use \in {ClearSave(Use(t))} :
         /\ p' = IF first THEN 1 ELSE p + 1
         /\ currentpause' = paused
         /\ newpause' = IF IsPause(use) THEN ~ paused ELSE newpause
         /\ made' = IF paused THEN made
                    ELSE made \o [t EXCEPT ![4] = IF IsPause(use) THEN 0 ELSE use]
  BY <1>1
<1>4. paused = Paused /\ use = ClearSave(Use(Tic))
  BY <1>2, <1>3 DEF Paused
<1>5. p' = IF p = PlayerNum(Input) THEN 1 ELSE p + 1
  BY <1>2, <1>3, Zenon
<1>6. /\ currentpause' = Paused
      /\ newpause' = IF IsPause(ClearSave(Use(Tic))) THEN ~ Paused ELSE newpause
  BY <1>3, <1>4, Zenon
<1>7. made' = IF Paused THEN made
              ELSE made \o [Tic EXCEPT ![4] = IF IsPause(ClearSave(Use(Tic))) THEN 0
                                              ELSE ClearSave(Use(Tic))]
  BY <1>2, <1>3, <1>4, Zenon
<1>8. /\ lphase = "tics" /\ stic <= Input.stics /\ stic' = stic + 1 /\ wpos' = Len(made')
      /\ UNCHANGED <<lfile, opt, li>> /\ lphase' = lphase /\ lo' = lo
  BY DEF CopyTic, Input
<1> QED
  BY <1>5, <1>6, <1>7, <1>8, Zenon

\* What holds in the loop over the tics.
InTheLoop ==
  /\ IsRead(Input, lfile.bytes) /\ opt \in Options
  /\ stic \in 1 .. Input.stics /\ p \in 0 .. PlayerNum(Input)
  /\ currentpause \in BOOLEAN /\ newpause \in BOOLEAN
  /\ lphase = "tics" /\ PauseInv

LEMMA TicInHand ==
  ASSUME InTheLoop
  PROVE  /\ Tic \in Seq(Byte) /\ Len(Tic) = TicSize(Input) /\ TicSize(Input) \in {4, 6}
         /\ TicWritten(stic) \in Seq(Byte) /\ Len(TicWritten(stic)) = TicSize(Input)
         /\ IsPause(ClearSave(Use(Tic))) <=> opt.pause /\ Use(Tic) = 129
         /\ [Tic EXCEPT ![4] = IF IsPause(ClearSave(Use(Tic))) THEN 0 ELSE ClearSave(Use(Tic))]
              = TicWritten(stic)
<1>1. stic \in 1 .. Input.stics /\ IsRead(Input, lfile.bytes)
  BY DEF InTheLoop
<1>2. /\ Tic \in Seq(Byte) /\ Len(Tic) = TicSize(Input) /\ Use(Tic) \in Byte
  BY <1>1, TicFacts DEF Tic
<1>3. TicSize(Input) \in {4, 6}
  BY <1>1 DEF IsRead
<1>4. TicWritten(stic) = [Tic EXCEPT ![4] = UseAsked(Use(Tic))]
  BY Zenon DEF TicWritten, Tic
<1>5. /\ IsPause(ClearSave(Use(Tic))) <=> opt.pause /\ Use(Tic) = 129
      /\ (IF IsPause(ClearSave(Use(Tic))) THEN 0 ELSE ClearSave(Use(Tic))) = UseAsked(Use(Tic))
  BY <1>2, WrittenUse, Zenon
<1>6. TicWritten(stic) \in Seq(Byte) /\ Len(TicWritten(stic)) = TicSize(Input)
  BY <1>2, <1>3, <1>4, WrittenTic
<1>7. [Tic EXCEPT ![4] = IF IsPause(ClearSave(Use(Tic))) THEN 0 ELSE ClearSave(Use(Tic))]
        = TicWritten(stic)
  BY <1>4, <1>5, Zenon
<1> QED
  BY <1>2, <1>3, <1>5, <1>6, <1>7, Zenon

\* The multi tic in hand.
LEMMA MultiTicInHand ==
  ASSUME InTheLoop
  PROVE  \E m \in Nat :
           /\ stic - 1 = m * PlayerNum(Input) + p
           /\ p < PlayerNum(Input) => /\ MultiTic(stic) = m
                                      /\ TogglesBefore(m) = Pressed(m * PlayerNum(Input))
           /\ p = PlayerNum(Input) => /\ MultiTic(stic) = m + 1
                                      /\ stic - 1 = (m + 1) * PlayerNum(Input)
                                      /\ TogglesBefore(m + 1) = Pressed(stic - 1)
<1> DEFINE P == PlayerNum(Input)
           N == Input.stics
<1>1. P \in 1 .. 8 /\ N \in Nat /\ stic \in 1 .. N /\ p \in 0 .. P
  BY DEF InTheLoop, IsRead
<1>2. PICK m \in Nat : stic - 1 = m * P + p
  BY DEF InTheLoop, PauseInv
<1> DEFINE x == m * P
<1>3. x \in Nat /\ stic - 1 = x + p /\ x <= N
  <2>1. x \in Nat
    BY <1>1
  <2> HIDE DEF P, N
  <2>2. stic - 1 = x + p
    BY <1>2
  <2> HIDE DEF x
  <2> QED
    BY <1>1, <2>1, <2>2
<1>4. ASSUME p < P PROVE MultiTic(stic) = m /\ TogglesBefore(m) = Pressed(x)
  <2>1. stic \in Nat /\ p \in 0 .. P - 1 /\ stic = m * P + p + 1
    <3> HIDE DEF P, N
    <3>1. stic = x + p + 1
      <4> HIDE DEF x
      <4> QED
        BY <1>1, <1>3
    <3> QED
      BY <1>1, <1>4, <3>1 DEF x
  <2>2. MultiTic(stic) = m
    BY <1>1, <2>1, MultiTicOfNext
  <2>3. TogglesBefore(m) = Pressed(x)
    BY <1>1, <1>3, PressedBefore
  <2> QED
    BY <2>2, <2>3
<1>5. ASSUME p = P
      PROVE  /\ MultiTic(stic) = m + 1 /\ stic - 1 = (m + 1) * P
             /\ TogglesBefore(m + 1) = Pressed(stic - 1)
  <2>1. (m + 1) * P = m * P + P
    BY <1>1
  <2>2. stic - 1 = (m + 1) * P
    <3> HIDE DEF P
    <3> QED
      BY <1>2, <1>5, <2>1
  <2>3. stic \in Nat /\ 0 \in 0 .. P - 1 /\ stic = (m + 1) * P + 0 + 1 /\ m + 1 \in Nat
    <3> DEFINE y == (m + 1) * P
    <3> HIDE DEF y, P, N
    <3>1. y = stic - 1
      BY <2>2 DEF y
    <3>2. stic = y + 0 + 1
      BY <1>1, <3>1
    <3> QED
      BY <1>1, <3>2 DEF y
  <2>4. MultiTic(stic) = m + 1
    BY <1>1, <2>3, MultiTicOfNext
  <2>5. (m + 1) * P <= N
    <3> HIDE DEF P, N
    <3> QED
      BY <1>1, <2>2
  <2>6. TogglesBefore(m + 1) = Pressed((m + 1) * P)
    BY <1>1, <2>3, <2>5, PressedBefore
  <2>7. TogglesBefore(m + 1) = Pressed(stic - 1)
    <3> HIDE DEF P, N
    <3> QED
      BY <2>2, <2>6
  <2> QED
    BY <2>2, <2>4, <2>7
<1> QED
  BY <1>2, <1>4, <1>5

\* Whether a pause holds is what the tics before say.
LEMMA PausedAsPressed ==
  ASSUME InTheLoop, Distinct
  PROVE  /\ Paused <=> opt.pause /\ IsOdd(TogglesBefore(MultiTic(stic)))
         /\ p = PlayerNum(Input) /\ opt.pause => (Paused <=> IsOdd(Pressed(stic - 1)))
         /\ p # PlayerNum(Input) /\ opt.pause => (Paused <=> IsOdd(Pressed(stic - 1 - p)))
<1>1. /\ p = PlayerNum(Input) => (Paused <=> newpause)
      /\ p # PlayerNum(Input) => (Paused <=> currentpause)
  BY Zenon DEF Paused, NowPaused
<1>2. CASE ~ opt.pause
  <2>1. ~ currentpause /\ ~ newpause
    BY <1>2, Zenon DEF InTheLoop, PauseInv
  <2> QED
    BY <1>1, <1>2, <2>1, Zenon
<1>3. CASE opt.pause
  <2>1. /\ currentpause <=> IsOdd(Pressed(stic - 1 - p))
        /\ newpause <=> IsOdd(Pressed(stic - 1))
    BY <1>3, Zenon DEF InTheLoop, PauseInv, Distinct
  <2>2. PICK m \in Nat :
           /\ stic - 1 = m * PlayerNum(Input) + p
           /\ p < PlayerNum(Input) => /\ MultiTic(stic) = m
                                      /\ TogglesBefore(m) = Pressed(m * PlayerNum(Input))
           /\ p = PlayerNum(Input) => /\ MultiTic(stic) = m + 1
                                      /\ stic - 1 = (m + 1) * PlayerNum(Input)
                                      /\ TogglesBefore(m + 1) = Pressed(stic - 1)
    BY MultiTicInHand
  <2>3. CASE p = PlayerNum(Input)
    <3>1. TogglesBefore(MultiTic(stic)) = Pressed(stic - 1)
      BY <2>2, <2>3
    <3> QED
      BY <1>1, <1>3, <2>1, <2>3, <3>1, Zenon
  <2>4. CASE p # PlayerNum(Input)
    <3> DEFINE x == m * PlayerNum(Input)
    <3>1. p < PlayerNum(Input) /\ p \in Nat /\ x \in Nat /\ stic \in Nat
      BY <2>4 DEF InTheLoop, IsRead
    <3>2. TogglesBefore(MultiTic(stic)) = Pressed(x) /\ stic - 1 = x + p
      BY <2>2, <3>1
    <3> HIDE DEF x
    <3>3. stic - 1 - p = x
      BY <3>1, <3>2
    <3>4. TogglesBefore(MultiTic(stic)) = Pressed(stic - 1 - p)
      BY <3>2, <3>3, Zenon
    <3> QED
      BY <1>1, <1>3, <2>1, <2>4, <3>4, Zenon
  <2> QED
    BY <2>3, <2>4
<1> QED
  BY <1>2, <1>3

\* What newpause becomes.
LEMMA NextPause ==
  ASSUME InTheLoop, opt.pause, OneToggle, CopyTic
  PROVE  newpause' <=> IsOdd(Pressed(stic))
<1> DEFINE n == stic - 1
           P == PlayerNum(Input)
<1>1. /\ n \in Nat /\ n + 1 = stic /\ P \in 1 .. 8 /\ Input.stics \in Nat /\ stic \in Nat
      /\ stic <= Input.stics /\ p \in 0 .. P
  BY DEF InTheLoop, IsRead
<1>2. Distinct
  BY Zenon DEF Distinct
<1>3. /\ p = P => (Paused <=> IsOdd(Pressed(n)))
      /\ p # P => (Paused <=> IsOdd(Pressed(n - p)))
  BY <1>2, PausedAsPressed, Zenon
<1>4. newpause' = IF Use(Tic) = 129 THEN ~ Paused ELSE newpause
  <2>1. newpause' = IF IsPause(ClearSave(Use(Tic))) THEN ~ Paused ELSE newpause
    BY CopyTicIs, Zenon
  <2>2. IsPause(ClearSave(Use(Tic))) <=> Use(Tic) = 129
    BY TicInHand, Zenon
  <2> QED
    BY <2>1, <2>2, Zenon
<1>5. newpause <=> IsOdd(Pressed(n))
  BY Zenon DEF InTheLoop, PauseInv
<1>6. Tic = TicAt(lfile.bytes, Input, n + 1)
  BY <1>1, Zenon DEF Tic
<1>7. /\ Use(Tic) = 129 => (IsOdd(Pressed(stic)) <=> ~ IsOdd(Pressed(n)))
      /\ Use(Tic) # 129 => Pressed(stic) = Pressed(n)
  <2> HIDE DEF n
  <2>1. /\ Use(Tic) = 129 => (IsOdd(Pressed(n + 1)) <=> ~ IsOdd(Pressed(n)))
        /\ Use(Tic) # 129 => Pressed(n + 1) = Pressed(n)
    BY <1>1, <1>6, PressedNext
  <2> QED
    BY <1>1, <2>1, Zenon
<1> HIDE DEF n
<1>8. CASE Use(Tic) # 129
  BY <1>4, <1>5, <1>7, <1>8, Zenon
<1>9. CASE Use(Tic) = 129
  <2>1. newpause' <=> ~ Paused
    BY <1>4, <1>9, Zenon
  <2>2. Paused <=> IsOdd(Pressed(n))
    <3>1. CASE p = P
      BY <1>3, <3>1, Zenon
    <3>2. CASE p # P
      <4>1. PICK m \in Nat : stic - 1 = m * P + p
        BY Zenon, MultiTicInHand
      <4> DEFINE x == m * P
      <4>2. x \in Nat
        BY <1>1
      <4>3. n = x + p /\ p \in 0 .. P - 1 /\ p \in Nat
        <5>1. n = x + p
          BY <4>1 DEF n
        <5> HIDE DEF x, P
        <5> QED
          BY <1>1, <3>2, <5>1
      <4>4. stic = m * P + p + 1
        <5>1. stic = x + p + 1
          <6> HIDE DEF x, P
          <6> QED
            BY <1>1, <4>2, <4>3
        <5> QED
          BY <5>1
      <4>5. Pressed(m * P + p) = Pressed(m * P)
        <5>1. Use(TicAt(lfile.bytes, Input, stic)) = 129
          BY <1>9 DEF Tic
        <5> QED
          BY <1>1, <4>3, <4>4, <5>1, NoOther
      <4>6. n - p = x
        <5> HIDE DEF x, P
        <5> QED
          BY <4>2, <4>3
      <4>7. Pressed(n) = Pressed(n - p)
        BY <4>3, <4>5, <4>6, Zenon
      <4> QED
        BY <1>3, <3>2, <4>7, Zenon
    <3> QED
      BY <3>1, <3>2
  <2> QED
    BY <1>7, <1>9, <2>1, <2>2, Zenon
<1> QED
  BY <1>8, <1>9

LEMMA CopyTicPause ==
  ASSUME InTheLoop, CopyTic
  PROVE  PauseInv'
<1> DEFINE P == PlayerNum(Input)
<1>1. P \in 1 .. 8 /\ stic \in Nat /\ stic > 0 /\ p \in 0 .. P /\ p \in Nat
  BY DEF InTheLoop, IsRead
<1>2. /\ p' = IF p = P THEN 1 ELSE p + 1
      /\ stic' = stic + 1 /\ currentpause' = Paused /\ UNCHANGED <<lfile, opt, li>>
  BY CopyTicIs, Zenon
<1>3. Input' = Input /\ OneToggle' = OneToggle /\ \A n : Pressed(n)' = Pressed(n)
  BY <1>2, InputStays, TicsStay, Zenon
<1>4. P' = P
  BY <1>3 DEF PlayerNum
<1> HIDE DEF P
<1>5. PICK m \in Nat : /\ stic - 1 = m * P + p
                       /\ p = P => stic - 1 = (m + 1) * P
  BY MultiTicInHand, Zenon DEF P
<1>6. p' > 0 /\ p' \in Nat
  BY <1>1, <1>2
<1>7. \E k \in Nat : stic' - 1 = k * P + p'
  <2>1. CASE p = P
    <3> DEFINE y == (m + 1) * P
    <3>1. stic' - 1 = y + p'
      <4>1. stic - 1 = y /\ p' = 1
        <5>1. stic - 1 = y
          BY <1>5, <2>1
        <5>2. p' = 1
          BY <1>2, <2>1, Zenon
        <5> QED
          BY <5>1, <5>2, Zenon
      <4>2. y \in Nat
        BY <1>1
      <4> HIDE DEF y
      <4> QED
        BY <1>1, <1>2, <4>1, <4>2
    <3>2. m + 1 \in Nat
      OBVIOUS
    <3> QED
      BY <3>1, <3>2
  <2>2. CASE p # P
    <3> DEFINE x == m * P
    <3>1. stic' - 1 = x + p'
      <4>1. stic - 1 = x + p /\ p' = p + 1
        <5>1. stic - 1 = x + p
          BY <1>5, Zenon
        <5>2. p' = p + 1
          BY <1>2, <2>2, Zenon
        <5> QED
          BY <5>1, <5>2, Zenon
      <4>2. x \in Nat
        BY <1>1
      <4> HIDE DEF x
      <4> QED
        BY <1>1, <1>2, <4>1, <4>2
    <3> QED
      BY <3>1
  <2> QED
    BY <2>1, <2>2
<1>8. ASSUME ~ opt.pause PROVE ~ currentpause' /\ ~ newpause'
  <2>1. ~ currentpause /\ ~ newpause
    BY <1>8, Zenon DEF InTheLoop, PauseInv
  <2>2. ~ Paused
    BY <2>1, Zenon DEF Paused, NowPaused
  <2>3. ~ IsPause(ClearSave(Use(Tic)))
    BY <1>8, Zenon DEF IsPause
  <2>4. newpause' = IF IsPause(ClearSave(Use(Tic))) THEN ~ Paused ELSE newpause
    BY CopyTicIs, Zenon
  <2> QED
    BY <1>2, <2>1, <2>2, <2>3, <2>4, Zenon
<1>9. ASSUME opt.pause, OneToggle
      PROVE  /\ currentpause' <=> IsOdd(Pressed(stic' - 1 - p'))
             /\ newpause' <=> IsOdd(Pressed(stic' - 1))
  <2>1. newpause' <=> IsOdd(Pressed(stic))
    BY <1>9, NextPause
  <2>2. stic' - 1 = stic
    BY <1>1, <1>2
  <2>3. Distinct
    BY <1>9, Zenon DEF Distinct
  <2>4. CASE p = P
    <3>1. stic' - 1 - p' = stic - 1
      BY <1>1, <1>2, <2>4
    <3>2. Paused <=> IsOdd(Pressed(stic - 1))
      BY <1>9, <2>3, <2>4, PausedAsPressed, Zenon DEF P
    <3> QED
      BY <1>2, <2>1, <2>2, <3>1, <3>2, Zenon
  <2>5. CASE p # P
    <3>1. stic' - 1 - p' = stic - 1 - p
      BY <1>1, <1>2, <2>5
    <3>2. Paused <=> IsOdd(Pressed(stic - 1 - p))
      BY <1>9, <2>3, <2>5, PausedAsPressed, Zenon DEF P
    <3> QED
      BY <1>2, <2>1, <2>2, <3>1, <3>2, Zenon
  <2> QED
    BY <2>4, <2>5
<1>10. IsOdd(Pressed(stic - 1 - p))' = IsOdd(Pressed(stic' - 1 - p'))
       /\ IsOdd(Pressed(stic - 1))' = IsOdd(Pressed(stic' - 1))
  BY <1>3, Zenon DEF IsOdd
<1>11. opt' = opt
  BY <1>2
<1>12. IF ~ opt.pause THEN ~ currentpause' /\ ~ newpause'
       ELSE OneToggle => /\ currentpause' <=> IsOdd(Pressed(stic' - 1 - p'))
                         /\ newpause' <=> IsOdd(Pressed(stic' - 1))
  BY <1>8, <1>9, Zenon
<1>13. IF ~ opt'.pause THEN ~ currentpause' /\ ~ newpause'
       ELSE OneToggle' => /\ currentpause' <=> IsOdd(Pressed(stic - 1 - p))'
                          /\ newpause' <=> IsOdd(Pressed(stic - 1))'
  BY <1>3, <1>10, <1>11, <1>12, Zenon
<1>14. \E k \in Nat : stic' - 1 = k * PlayerNum(Input)' + p'
  BY <1>4, <1>7, Zenon DEF P
<1> QED
  BY <1>6, <1>13, <1>14, Zenon DEF PauseInv

\* Behind a header of h bytes.
LEMMA BehindHeader ==
  ASSUME NEW S, NEW s \in Seq(S), NEW t \in Seq(S), NEW h \in 0 .. Len(s)
  PROVE  /\ s \o t \in Seq(S) /\ Len(s \o t) = Len(s) + Len(t)
         /\ SubSeq(s \o t, h + 1, Len(s \o t)) = SubSeq(s, h + 1, Len(s)) \o t
         /\ \A j \in 1 .. h : (s \o t)[j] = s[j]
<1>1. /\ s \o t \in Seq(S) /\ Len(s \o t) = Len(s) + Len(t)
      /\ \A i \in 1 .. Len(s) + Len(t) : (s \o t)[i] = IF i <= Len(s) THEN s[i] ELSE t[i - Len(s)]
  BY ConcatProperties
<1>2. Len(s) \in Nat /\ Len(t) \in Nat
  BY LenProperties
<1>3. SubSeq(s \o t, h + 1, Len(s \o t)) = SubSeq(s, h + 1, Len(s)) \o t
  <2>1. h + 1 \in 1 .. Len(s) + 1
    BY <1>2
  <2> QED
    BY <2>1, TailOfConcat
<1>4. ASSUME NEW j \in 1 .. h PROVE (s \o t)[j] = s[j]
  <2>1. j \in 1 .. Len(s) + Len(t) /\ j <= Len(s)
    BY <1>2
  <2> QED
    BY <1>1, <2>1
<1> QED
  BY <1>1, <1>3, <1>4

LEMMA WantedSizeIs ==
  ASSUME IsRead(Input, lfile.bytes), opt \in Options, ~ Impossible(Input)
  PROVE  WantedLayout \in Games /\ WantedSize \in 7 .. 19 /\ WantedSize = HeaderSize(WantedLayout)
<1>1. WantedLayout \in Games
  BY GameWanted
<1>2. HeaderSize(WantedLayout) \in 7 .. 19
  BY <1>1, SizesAre
<1> QED
  BY <1>1, <1>2 DEF WantedSize

\* More of the file was written.
LEMMA MoreWritten ==
  ASSUME IsRead(Input, lfile.bytes), opt \in Options, ~ Impossible(Input), NEW b \in Seq(Byte),
         Len(b) >= WantedSize, NEW t \in Seq(Byte)
  PROVE  /\ b \o t \in Seq(Byte) /\ Len(b \o t) = Len(b) + Len(t)
         /\ SubSeq(b \o t, WantedSize + 1, Len(b \o t)) = SubSeq(b, WantedSize + 1, Len(b)) \o t
         /\ HeaderReads(b) => HeaderReads(b \o t)
<1>1. WantedLayout \in Games /\ WantedSize \in 7 .. 19 /\ WantedSize = HeaderSize(WantedLayout)
  BY WantedSizeIs
<1>2. WantedSize \in 0 .. Len(b)
  BY <1>1, LenProperties
<1>3. /\ b \o t \in Seq(Byte) /\ Len(b \o t) = Len(b) + Len(t)
      /\ SubSeq(b \o t, WantedSize + 1, Len(b \o t)) = SubSeq(b, WantedSize + 1, Len(b)) \o t
      /\ \A j \in 1 .. WantedSize : (b \o t)[j] = b[j]
  BY <1>2, BehindHeader
<1>4. SameHeader(b, b \o t, WantedLayout)
  BY <1>1, <1>3 DEF SameHeader
<1>5. HeaderReads(b) => HeaderReads(b \o t)
  BY <1>1, <1>4, HeaderStaysRead
<1> QED
  BY <1>3, <1>5

LEMMA CopyTicMade ==
  ASSUME InTheLoop, HeadInv, CopyTic, NewTics, wpos = Len(made), Distinct => Body(stic - 1)
  PROVE  /\ made' \in Seq(Byte) /\ Len(made') >= WantedSize
         /\ \E c \in Nat : Len(made') = WantedSize + c * TicSize(Input)
         /\ HeaderReads(made) => HeaderReads(made')
         /\ Distinct => SubSeq(made', WantedSize + 1, Len(made')) = Flat(Asked, stic)
<1>1. /\ IsRead(Input, lfile.bytes) /\ opt \in Options /\ stic \in 1 .. Input.stics
      /\ stic \in Nat /\ stic > 0
  BY DEF InTheLoop, IsRead
<1>2. /\ ~ Impossible(Input) /\ made \in Seq(Byte) /\ Len(made) \in Nat
      /\ \E c \in Nat : Len(made) = WantedSize + c * TicSize(Input)
  BY LenProperties DEF InTheLoop, HeadInv
<1>3. WantedSize \in 7 .. 19 /\ Len(made) >= WantedSize
  <2>1. WantedSize \in 7 .. 19
    BY <1>1, <1>2, WantedSizeIs
  <2>2. wpos \in WantedSize .. Len(made)
    BY DEF InTheLoop, HeadInv
  <2> QED
    BY <1>2, <2>1, <2>2
<1> DEFINE t == TicWritten(stic)
<1>4. t \in Seq(Byte) /\ Len(t) = TicSize(Input) /\ TicSize(Input) \in {4, 6}
  BY TicInHand
<1>5. made' = IF Paused THEN made ELSE made \o t
  <2>1. made' = IF Paused THEN made
                ELSE made \o [Tic EXCEPT ![4] = IF IsPause(ClearSave(Use(Tic))) THEN 0
                                                ELSE ClearSave(Use(Tic))]
    BY CopyTicIs, Zenon
  <2>2. [Tic EXCEPT ![4] = IF IsPause(ClearSave(Use(Tic))) THEN 0 ELSE ClearSave(Use(Tic))] = t
    BY TicInHand, Zenon
  <2> QED
    BY <2>1, <2>2, Zenon
<1> HIDE DEF t
<1>6. /\ made \o t \in Seq(Byte) /\ Len(made \o t) = Len(made) + Len(t)
      /\ SubSeq(made \o t, WantedSize + 1, Len(made \o t)) = SubSeq(made, WantedSize + 1, Len(made)) \o t
      /\ HeaderReads(made) => HeaderReads(made \o t)
  BY <1>1, <1>2, <1>3, <1>4, MoreWritten
<1>7. /\ made' \in Seq(Byte) /\ Len(made') >= WantedSize
      /\ \E c \in Nat : Len(made') = WantedSize + c * TicSize(Input)
      /\ HeaderReads(made) => HeaderReads(made')
  <2>1. CASE Paused
    <3>1. made' = made
      BY <1>5, <2>1, Zenon
    <3> QED
      BY <1>2, <1>3, <3>1
  <2>2. CASE ~ Paused
    <3>1. made' = made \o t
      BY <1>5, <2>2, Zenon
    <3>2. PICK c \in Nat : Len(made) = WantedSize + c * TicSize(Input)
      BY <1>2
    <3> DEFINE x == c * TicSize(Input)
               y == (c + 1) * TicSize(Input)
               k == TicSize(Input)
    <3>3. y = x + k /\ x \in Nat /\ c + 1 \in Nat
      BY <1>4
    <3>4. Len(made) = WantedSize + x /\ Len(made \o t) = Len(made) + k /\ k \in {4, 6}
      BY <1>4, <1>6, <3>2
    <3> HIDE DEF x, y, k
    <3>5. Len(made \o t) = WantedSize + y
      BY <1>3, <3>3, <3>4
    <3>6. Len(made \o t) >= WantedSize
      BY <1>2, <1>3, <3>4
    <3>7. \E d \in Nat : Len(made \o t) = WantedSize + d * TicSize(Input)
      BY <3>3, <3>5 DEF y
    <3> QED
      BY <1>6, <3>1, <3>6, <3>7
  <2> QED
    BY <2>1, <2>2
<1>8. ASSUME Distinct PROVE SubSeq(made', WantedSize + 1, Len(made')) = Flat(Asked, stic)
  <2>1. SubSeq(made, WantedSize + 1, Len(made)) = Flat(Asked, stic - 1)
    BY <1>8 DEF Body
  <2>2. TicAsked(stic) = IF Paused THEN <<>> ELSE t
    <3>1. Paused <=> opt.pause /\ IsOdd(TogglesBefore(MultiTic(stic)))
      BY <1>8, PausedAsPressed, Zenon
    <3>2. TicAsked(stic) = IF opt.pause /\ IsOdd(TogglesBefore(MultiTic(stic))) THEN <<>>
                           ELSE TicWritten(stic)
      BY TicAskedIs, Zenon
    <3> QED
      BY <3>1, <3>2, Zenon DEF t
  <2>3. Flat(Asked, stic) = Flat(Asked, stic - 1) \o TicAsked(stic)
    <3> DEFINE n == stic - 1
    <3>1. n \in Nat /\ n + 1 = stic
      BY <1>1
    <3>2. \A i \in 1 .. stic : Asked[i] = TicAsked(i) /\ TicAsked(i) \in Seq(Byte)
      <4>1. \A i \in 1 .. stic : i \in 1 .. Input.stics
        BY <1>1 DEF IsRead
      <4> QED
        BY <1>1, <4>1, TicAskedTyped DEF Asked
    <3>3. stic \in 1 .. stic
      BY <1>1
    <3> HIDE DEF n
    <3>4. Flat(Asked, n + 1) = Flat(Asked, n) \o Asked[n + 1]
      <4>1. \A i \in 1 .. n + 1 : Asked[i] \in Seq(Byte)
        BY <3>1, <3>2
      <4> QED
        BY <3>1, <4>1, FlatOfMore
    <3>5. Asked[n + 1] = TicAsked(stic)
      BY <3>1, <3>2, <3>3
    <3> QED
      BY <3>1, <3>4, <3>5, Zenon DEF n
  <2>4. CASE Paused
    <3>1. made' = made /\ TicAsked(stic) = <<>>
      BY <1>5, <2>2, <2>4, Zenon
    <3>2. Flat(Asked, stic - 1) \in Seq(Byte)
      <4>1. WantedSize + 1 \in 1 .. Len(made) + 1 /\ Len(made) \in WantedSize + 1 - 1 .. Len(made)
        BY <1>2, <1>3
      <4>2. SubSeq(made, WantedSize + 1, Len(made)) \in Seq(Byte)
        BY <1>2, <4>1, SubSeqTyped
      <4> QED
        BY <2>1, <4>2
    <3>3. Flat(Asked, stic - 1) \o <<>> = Flat(Asked, stic - 1)
      BY <3>2, ConcatEmptySeq
    <3> QED
      BY <2>1, <2>3, <3>1, <3>3, Zenon
  <2>5. CASE ~ Paused
    <3>1. made' = made \o t /\ TicAsked(stic) = t
      BY <1>5, <2>2, <2>5, Zenon
    <3> QED
      BY <1>6, <2>1, <2>3, <3>1, Zenon
  <2> QED
    BY <2>4, <2>5
<1> QED
  BY <1>7, <1>8

LEMMA NotDone == lphase # "done" => DoneInv
  BY Zenon DEF DoneInv, LmpDone, TicsAsAsked, HeaderAsAsked

LEMMA BytesOnly ==
  ASSUME NEW b \in Seq(Byte) PROVE \A x \in Range(b) : x \in Byte
<1>1. DOMAIN b = 1 .. Len(b) /\ \A i \in DOMAIN b : b[i] \in Byte
  OBVIOUS
<1> QED
  BY <1>1 DEF Range

LEMMA FileStays ==
  ASSUME FileInv, ReadInv, UNCHANGED <<lfile, opt, li>>, lphase \in {"options", "tics", "copy", "end"}
  PROVE  FileInv' /\ ReadInv'
<1>1. lfile' = lfile /\ opt' = opt /\ li' = li
  OBVIOUS
<1>2. \E c \in Conversions : lfile = c.lfile /\ opt = c.opt
  BY DEF FileInv
<1>3. \E games \in GameSets : /\ IsLmp(lfile.bytes, LayoutOf(games))
                              /\ li = <<LmpIn(lfile.bytes, games, LayoutOf(games))>>
  BY DEF ReadInv
<1>4. FileInv'
  BY <1>1, <1>2, Zenon DEF FileInv
<1>5. ReadInv'
  BY <1>1, <1>3, Zenon DEF ReadInv
<1> QED
  BY <1>4, <1>5

LEMMA CopyTicStep ==
  ASSUME ConvertInv, CopyTic
  PROVE  ConvertInv'
<1>1. FileInv /\ ReadInv /\ HeadInv /\ PauseInv /\ TicsInv /\ LmpTypeOK
  BY DEF ConvertInv
<1>2. /\ lphase = "tics" /\ stic <= Input.stics /\ lphase' = "tics" /\ UNCHANGED <<lfile, opt, li>>
      /\ stic' = stic + 1 /\ wpos' = Len(made')
  BY CopyTicIs, Zenon
<1>3. p' = IF p = PlayerNum(Input) THEN 1 ELSE p + 1
  BY CopyTicIs, Zenon
<1>4. IsRead(Input, lfile.bytes) /\ opt \in Options
  BY <1>1, <1>2, InputIsRead
<1>5. /\ stic \in 1 .. Input.stics + 1 /\ p \in 0 .. PlayerNum(Input)
      /\ currentpause \in BOOLEAN /\ newpause \in BOOLEAN
  BY <1>1, <1>2 DEF LmpTypeOK, Input
<1>6. Input.stics \in Nat /\ PlayerNum(Input) \in 1 .. 8
  BY <1>4 DEF IsRead
<1>7. InTheLoop
  BY <1>1, <1>2, <1>4, <1>5, <1>6 DEF InTheLoop
<1>8. NewTics /\ wpos = Len(made) /\ (Distinct => Body(stic - 1))
  BY <1>1, <1>2, Zenon DEF TicsInv
<1>9. /\ made' \in Seq(Byte) /\ Len(made') >= WantedSize
      /\ \E c \in Nat : Len(made') = WantedSize + c * TicSize(Input)
      /\ HeaderReads(made) => HeaderReads(made')
      /\ Distinct => SubSeq(made', WantedSize + 1, Len(made')) = Flat(Asked, stic)
  BY <1>1, <1>7, <1>8, CopyTicMade
<1>10. FileInv' /\ ReadInv'
  BY <1>1, <1>2, FileStays
<1>11. PauseInv'
  BY <1>7, CopyTicPause
<1>12. /\ Input' = Input /\ Impossible(Input)' = Impossible(Input) /\ NewTics' = NewTics
       /\ WantedSize' = WantedSize /\ Distinct' = Distinct /\ Asked' = Asked
       /\ HasPlaces(Wanted(Input))' = HasPlaces(Wanted(Input))
       /\ \A b : HeaderReads(b)' = HeaderReads(b)
  BY <1>2, InputStays, TicsStay, HeaderStays, Zenon
<1>13. HeadInv'
  <2>1. ~ Impossible(Input) /\ (HasPlaces(Wanted(Input)) => HeaderReads(made))
    BY <1>1, <1>2, Zenon DEF HeadInv
  <2>2. WantedSize \in Nat /\ Len(made') \in Nat
    BY <1>4, <1>9, <2>1, WantedSizeIs, LenProperties
  <2>3. wpos' \in WantedSize .. Len(made')
    BY <1>2, <1>9, <2>2
  <2>4. \E c \in Nat : wpos' = WantedSize + c * TicSize(Input)
    BY <1>2, <1>9, Zenon
  <2>5. ~ Impossible(Input)' /\ (HasPlaces(Wanted(Input))' => HeaderReads(made)')
    BY <1>9, <1>12, <2>1, Zenon
  <2>6. TicSize(Input)' = TicSize(Input)
    BY <1>12, Zenon DEF TicSize
  <2>7. wpos' \in WantedSize' .. Len(made') /\ \E c \in Nat : wpos' = WantedSize' + c * TicSize(Input)'
    BY <1>12, <2>3, <2>4, <2>6, Zenon
  <2> QED
    BY <1>9, <2>5, <2>7, Zenon DEF HeadInv
<1>14. TicsInv'
  <2>1. stic' - 1 = stic
    BY <1>2, <1>5
  <2>2. Distinct => SubSeq(made', WantedSize + 1, wpos') = Flat(Asked, stic' - 1)
    BY <1>2, <1>9, <2>1, Zenon
  <2>3. Distinct' => Body(stic - 1)'
    BY <1>12, <2>2, Zenon DEF Body, Flat
  <2>4. NewTics' /\ wpos' = Len(made')
    BY <1>2, <1>8, <1>12, Zenon
  <2> QED
    BY <1>2, <2>3, <2>4, Zenon DEF TicsInv
<1>15. LmpTypeOK'
  <2>1. p' \in 0 .. PlayerNum(Input) /\ stic' \in 1 .. Input.stics + 1
    BY <1>2, <1>3, <1>5, <1>6
  <2>2. currentpause' \in BOOLEAN /\ newpause' \in BOOLEAN
    <3>1. /\ currentpause' = Paused
          /\ newpause' = IF IsPause(ClearSave(Use(Tic))) THEN ~ Paused ELSE newpause
      BY CopyTicIs, Zenon
    <3>2. Paused \in BOOLEAN
      BY <1>5, Zenon DEF Paused, NowPaused
    <3> QED
      BY <1>5, <3>1, <3>2
  <2>3. li' = li /\ PlayerNum(li[1])' = PlayerNum(Input)
    BY <1>2, Zenon DEF PlayerNum, Input
  <2>4. \A b \in Range(made') : b \in Byte
    BY <1>9, BytesOnly
  <2>5. stic' \in 1 .. li'[1].stics + 1 /\ p' \in 0 .. PlayerNum(li[1])'
    BY <2>1, <2>3, Zenon DEF Input
  <2> QED
    BY <1>2, <2>2, <2>4, <2>5, Zenon DEF LmpTypeOK
<1>16. StartInv' /\ DoneInv'
  <2>1. lphase' # "done"
    BY <1>2
  <2>2. StartInv'
    BY <1>2, Zenon DEF StartInv
  <2>3. DoneInv'
    BY <2>1, Zenon DEF DoneInv, LmpDone, TicsAsAsked, HeaderAsAsked
  <2> QED
    BY <2>2, <2>3
<1> QED
  BY <1>10, <1>11, <1>13, <1>14, <1>15, <1>16, Zenon DEF ConvertInv

LEMMA ReadHeaderStep ==
  ASSUME ConvertInv, ReadHeader
  PROVE  ConvertInv'
<1>1. FileInv /\ StartInv /\ LmpTypeOK /\ lphase = "open"
  BY DEF ConvertInv, ReadHeader
<1>2. /\ made = <<>> /\ stic = 1 /\ p = 0 /\ ~ currentpause /\ ~ newpause
  BY <1>1, Zenon DEF StartInv
<1>3. /\ lfile' = lfile /\ opt' = opt /\ lo' = lo /\ made' = made /\ wpos' = wpos
      /\ stic' = stic /\ p' = p /\ currentpause' = currentpause /\ newpause' = newpause
  BY DEF ReadHeader, tics
<1>4. PICK c \in Conversions : lfile = c.lfile /\ opt = c.opt
  BY <1>1 DEF FileInv
<1>5. opt.game \in GamesNamed
  BY <1>4, ConversionsAssumption DEF Options
<1> DEFINE games == LMP_self_determine_type(lfile.bytes, lfile.recent)
           settled == Settled(lfile.bytes, GamesMeant(games))
<1>6. PICK l \in {IF games = {} THEN <<>> ELSE LMP_readheader(lfile.bytes, settled)} :
         li' = l /\ lphase' = IF l = <<>> THEN "aborted" ELSE "options"
  BY Zenon DEF ReadHeader
<1>7. games \in GameSets \cup {{}}
  BY TypeIsOne
<1>8. games # {} => settled \in GameSets
  <2>1. ASSUME games # {} PROVE games \in GameSets
    BY <1>7, <2>1
  <2> HIDE DEF games
  <2>2. ASSUME games # {} PROVE settled \in GameSets
    BY <1>5, <2>1, <2>2, SettledIsOne
  <2> QED
    BY <2>2
<1> HIDE DEF games, settled
<1>9. lphase' \in {"aborted", "options"}
  BY <1>6, Zenon
<1>10. ReadInv'
  <2>1. CASE l = <<>>
    <3>1. lphase' = "aborted"
      BY <1>6, <2>1, Zenon
    <3> QED
      BY <3>1, Zenon DEF ReadInv
  <2>2. CASE l # <<>>
    <3>1. games # {} /\ l = LMP_readheader(lfile.bytes, settled)
      BY <1>6, <2>2, Zenon
    <3>2. /\ \E g \in {LayoutOf(settled)} : IsLmp(lfile.bytes, g)
          /\ l = <<LmpIn(lfile.bytes, settled, LayoutOf(settled))>>
      BY <2>2, <3>1, Zenon DEF LMP_readheader
    <3>3. IsLmp(lfile.bytes, LayoutOf(settled)) /\ settled \in GameSets
      BY <1>8, <3>1, <3>2
    <3>4. \E gs \in GameSets : /\ IsLmp(lfile'.bytes, LayoutOf(gs))
                               /\ li' = <<LmpIn(lfile'.bytes, gs, LayoutOf(gs))>>
      BY <1>3, <1>6, <3>2, <3>3, Zenon
    <3> QED
      BY <3>4, Zenon DEF ReadInv
  <2> QED
    BY <2>1, <2>2
<1>11. FileInv' /\ StartInv'
  BY <1>2, <1>3, <1>4, Zenon DEF FileInv, StartInv
<1>12. /\ lphase' # "tics" /\ lphase' # "copy" /\ lphase' # "end" /\ lphase' # "done"
  BY <1>9
<1>13. HeadInv' /\ PauseInv' /\ TicsInv' /\ DoneInv'
  BY <1>12, Zenon DEF HeadInv, PauseInv, TicsInv, DoneInv, LmpDone, TicsAsAsked, HeaderAsAsked
<1>14. LmpTypeOK'
  <2>1. Range(made') = {}
    BY <1>2, <1>3 DEF Range
  <2>2. lphase' \in {"off", "open", "options", "tics", "copy", "end", "done", "aborted"}
    BY <1>9
  <2>3. currentpause' \in BOOLEAN /\ newpause' \in BOOLEAN
    <3>1. currentpause = FALSE /\ newpause = FALSE
      BY <1>1, <1>2, Zenon DEF LmpTypeOK
    <3> QED
      BY <1>3, <3>1, Zenon
  <2>4. \A b \in Range(made') : b \in Byte
    BY <2>1
  <2> QED
    BY <1>12, <2>2, <2>3, <2>4, Zenon DEF LmpTypeOK
<1> QED
  BY <1>10, <1>11, <1>13, <1>14, Zenon DEF ConvertInv

LEMMA RefuseStep ==
  ASSUME ConvertInv, Refuse
  PROVE  ConvertInv'
<1>1. FileInv /\ StartInv /\ LmpTypeOK /\ lphase = "options" /\ lphase' = "aborted"
  BY DEF ConvertInv, Refuse
<1>2. /\ lfile' = lfile /\ opt' = opt /\ made' = made /\ stic' = stic /\ p' = p
      /\ currentpause' = currentpause /\ newpause' = newpause
  BY DEF Refuse, tics
<1>3. /\ made = <<>> /\ stic = 1 /\ p = 0 /\ ~ currentpause /\ ~ newpause
  BY <1>1, Zenon DEF StartInv
<1>4. FileInv' /\ StartInv'
  BY <1>1, <1>2, <1>3, Zenon DEF FileInv, StartInv
<1>5. ReadInv' /\ HeadInv' /\ PauseInv' /\ TicsInv' /\ DoneInv'
  <2>1. lphase' \notin {"options", "tics", "copy", "end", "done"}
    BY <1>1
  <2>2. lphase' # "tics" /\ lphase' # "copy" /\ lphase' # "end" /\ lphase' # "done"
    BY <1>1
  <2> QED
    BY <2>1, <2>2, Zenon DEF ReadInv, HeadInv, PauseInv, TicsInv, DoneInv, LmpDone, TicsAsAsked, HeaderAsAsked
<1>6. LmpTypeOK'
  <2>1. Range(made') = {}
    BY <1>2, <1>3 DEF Range
  <2> QED
    BY <1>1, <1>2, <1>3, <2>1 DEF LmpTypeOK
<1> QED
  BY <1>4, <1>5, <1>6, Zenon DEF ConvertInv

LEMMA EndOfTicsStep ==
  ASSUME ConvertInv, EndOfTics
  PROVE  ConvertInv'
<1>1. FileInv /\ ReadInv /\ HeadInv /\ TicsInv /\ LmpTypeOK
  BY DEF ConvertInv
<1>2. /\ lphase = "tics" /\ lphase' = "end" /\ stic > Input.stics /\ UNCHANGED <<lfile, opt, li>>
      /\ made' = made /\ wpos' = wpos /\ stic' = stic /\ p' = p
      /\ currentpause' = currentpause /\ newpause' = newpause
  BY DEF EndOfTics, tics, Input
<1>3. IsRead(Input, lfile.bytes)
  BY <1>1, <1>2, InputIsRead
<1>4. stic - 1 = Input.stics
  <2>1. stic \in 1 .. Input.stics + 1 /\ Input.stics \in Nat
    BY <1>1, <1>2, <1>3 DEF LmpTypeOK, Input, IsRead
  <2> QED
    BY <1>2, <2>1
<1>5. FileInv' /\ ReadInv'
  BY <1>1, <1>2, FileStays
<1>6. /\ Input' = Input /\ Impossible(Input)' = Impossible(Input) /\ NewTics' = NewTics
      /\ NewFile(Input)' = NewFile(Input) /\ WantedSize' = WantedSize /\ Distinct' = Distinct
      /\ Asked' = Asked /\ HasPlaces(Wanted(Input))' = HasPlaces(Wanted(Input))
      /\ \A b : HeaderReads(b)' = HeaderReads(b)
  BY <1>2, InputStays, TicsStay, HeaderStays, Zenon
<1>7. HeadInv'
  <2>1. TicSize(Input)' = TicSize(Input)
    BY <1>6, Zenon DEF TicSize
  <2>2. /\ ~ Impossible(Input) /\ made \in Seq(Byte) /\ wpos \in WantedSize .. Len(made)
        /\ \E c \in Nat : wpos = WantedSize + c * TicSize(Input)
        /\ HasPlaces(Wanted(Input)) => HeaderReads(made)
    BY <1>1, <1>2, Zenon DEF HeadInv
  <2> QED
    BY <1>2, <1>6, <2>1, <2>2, Zenon DEF HeadInv
<1>8. TicsInv'
  <2>1. NewTics /\ wpos = Len(made) /\ (Distinct => Body(stic - 1))
    BY <1>1, <1>2, Zenon DEF TicsInv
  <2>2. NewFile(Input)'
    BY <1>6, <2>1, Zenon DEF NewFile
  <2>3. Distinct => SubSeq(made, WantedSize + 1, wpos) = Flat(Asked, Input.stics)
    BY <1>4, <2>1, Zenon DEF Body
  <2>4. Distinct' => Body(Input.stics)'
    BY <1>2, <1>6, <2>3, Zenon DEF Body, Flat
  <2>5. wpos' \in {Len(made'), Len(made') - 1}
    BY <1>2, <2>1
  <2>6. lphase' # "tics" /\ lphase' # "copy"
    BY <1>2
  <2> QED
    BY <2>2, <2>4, <2>5, <2>6, Zenon DEF TicsInv
<1>9. LmpTypeOK'
  <2>1. li' = li
    BY <1>2
  <2>2. PlayerNum(li[1])' = PlayerNum(li[1])
    BY <2>1, Zenon DEF PlayerNum
  <2>3. /\ currentpause \in BOOLEAN /\ newpause \in BOOLEAN /\ \A b \in Range(made) : b \in Byte
        /\ wpos \in {Len(made), Len(made) - 1} /\ stic \in 1 .. li[1].stics + 1
        /\ p \in 0 .. PlayerNum(li[1])
    BY <1>1, <1>2 DEF LmpTypeOK
  <2>4. lphase' \in {"off", "open", "options", "tics", "copy", "end", "done", "aborted"}
    BY <1>2
  <2> QED
    BY <1>2, <2>1, <2>2, <2>3, <2>4, Zenon DEF LmpTypeOK
<1>10. StartInv' /\ DoneInv' /\ PauseInv'
  <2>1. lphase' # "done" /\ lphase' # "tics" /\ lphase' \notin {"off", "open", "options", "aborted"}
    BY <1>2
  <2> QED
    BY <2>1, Zenon DEF StartInv, PauseInv, DoneInv, LmpDone, TicsAsAsked, HeaderAsAsked
<1> QED
  BY <1>5, <1>7, <1>8, <1>9, <1>10, Zenon DEF ConvertInv

\* s from a to e, and t from m to n, are the same.
AreSame(s, a, e, t, m, n, S) ==
  /\ s \in Seq(S) /\ t \in Seq(S)
  /\ a \in 1 .. Len(s) + 1 /\ e \in a - 1 .. Len(s)
  /\ m \in 1 .. Len(t) + 1 /\ n \in m - 1 .. Len(t) /\ e - a = n - m
  /\ \A i \in 1 .. e - a + 1 : s[a + i - 1] = t[m + i - 1]
SameParts(s, a, e, t, m, n) == SubSeq(s, a, e) = SubSeq(t, m, n)

LEMMA SubSeqsEqual ==
  ASSUME NEW S, NEW s, NEW t, NEW a, NEW e, NEW m, NEW n, AreSame(s, a, e, t, m, n, S)
  PROVE  SameParts(s, a, e, t, m, n)
<1> USE DEF AreSame
<1>1. Len(s) \in Nat /\ Len(t) \in Nat
  BY LenProperties
<1>2. /\ a \in Int /\ e \in Int /\ m \in Int /\ n \in Int
      /\ e >= a - 1 /\ n >= m - 1 /\ e - a = n - m
      /\ \A i \in a .. e : s[i] \in S
      /\ \A i \in m .. n : t[i] \in S
  BY <1>1
<1> DEFINE u == SubSeq(s, a, e)
           v == SubSeq(t, m, n)
<1>3. /\ u \in Seq(S) /\ Len(u) = IF a <= e THEN e - a + 1 ELSE 0
      /\ \A i \in 1 .. e - a + 1 : u[i] = s[a + i - 1]
  BY <1>2, SubSeqProperties
<1>4. /\ v \in Seq(S) /\ Len(v) = IF m <= n THEN n - m + 1 ELSE 0
      /\ \A i \in 1 .. n - m + 1 : v[i] = t[m + i - 1]
  BY <1>2, SubSeqProperties
<1> HIDE DEF u, v
<1>5. Len(u) = Len(v) /\ Len(u) = e - a + 1 /\ n - m + 1 = e - a + 1
  BY <1>1, <1>2, <1>3, <1>4
<1>6. \A i \in 1 .. Len(u) : u[i] = v[i]
  BY <1>3, <1>4, <1>5
<1>7. u = v
  BY <1>3, <1>4, <1>5, <1>6, SeqEqual
<1> QED
  BY <1>7 DEF u, v, SameParts

\* If neither -r nor -c is given the tics stay as they are.
LEMMA NoNewTics ==
  ASSUME IsRead(Input, lfile.bytes), opt \in Options, ~ NewTics
  PROVE  Flat(Asked, Input.stics) = SubSeq(lfile.bytes, HeaderLen(Input) + 1, Len(lfile.bytes) - 1)
<1>1. ~ opt.pause /\ ~ opt.save
  BY Zenon DEF NewTics
<1>2. ASSUME NEW n \in 1 .. Input.stics PROVE Asked[n] = TicAt(lfile.bytes, Input, n)
  <2> DEFINE t == TicAt(lfile.bytes, Input, n)
  <2>1. t \in Seq(Byte) /\ Len(t) = TicSize(Input) /\ TicSize(Input) \in {4, 6}
    BY TicFacts DEF IsRead
  <2> HIDE DEF t
  <2>2. UseAsked(Use(t)) = Use(t)
    BY <1>1, Zenon DEF UseAsked
  <2>3. [t EXCEPT ![4] = UseAsked(Use(t))] = t
    BY <2>1, <2>2, WrittenTic
  <2>4. TicAsked(n) = TicWritten(n)
    BY <1>1, TicAskedIs, Zenon
  <2>5. TicWritten(n) = [t EXCEPT ![4] = UseAsked(Use(t))]
    BY Zenon DEF TicWritten, t
  <2> QED
    BY <2>3, <2>4, <2>5 DEF Asked, t
<1> QED
  BY <1>2, TicsOfFile

\* The file behind its header.
LEMMA FileLength ==
  ASSUME IsRead(Input, lfile.bytes)
  PROVE  /\ lfile.bytes \in Seq(Byte) /\ Len(lfile.bytes) \in Nat /\ HeaderLen(Input) \in 7 .. 19
         /\ Input.stics * TicSize(Input) \in Nat
         /\ Len(lfile.bytes) - 1 = HeaderLen(Input) + Input.stics * TicSize(Input)
<1> DEFINE x == Input.stics * TicSize(Input)
<1>1. Input.stics \in Nat /\ TicSize(Input) \in {4, 6}
  BY DEF IsRead
<1>2. x \in Nat
  BY <1>1
<1>3. lfile.bytes \in Seq(Byte) /\ Len(lfile.bytes) = HeaderLen(Input) + x + 1 /\ HeaderLen(Input) \in 7 .. 19
  BY Zenon DEF IsRead
<1> HIDE DEF x
<1>4. Len(lfile.bytes) \in Nat /\ Len(lfile.bytes) - 1 = HeaderLen(Input) + x
  BY <1>2, <1>3
<1> QED
  BY <1>2, <1>3, <1>4 DEF x

LEMMA CopyTicsStep ==
  ASSUME ConvertInv, CopyTics
  PROVE  ConvertInv'
<1> DEFINE b == lfile.bytes
           h == HeaderLen(Input)
           t == SubSeq(b, h + 1, Len(b))
<1>1. FileInv /\ ReadInv /\ HeadInv /\ TicsInv /\ LmpTypeOK
  BY DEF ConvertInv
<1>2. /\ lphase = "copy" /\ lphase' = "end" /\ UNCHANGED <<lfile, opt, li>>
      /\ made' = made \o t /\ wpos' = Len(made') - 1 /\ stic' = stic /\ p' = p
      /\ currentpause' = currentpause /\ newpause' = newpause
  BY DEF CopyTics, tics, Input, HeaderLen
<1>3. IsRead(Input, b) /\ opt \in Options
  BY <1>1, <1>2, InputIsRead
<1>4. /\ ~ Impossible(Input) /\ made \in Seq(Byte) /\ (HasPlaces(Wanted(Input)) => HeaderReads(made))
  BY <1>1, <1>2, Zenon DEF HeadInv
<1>5. NewFile(Input) /\ ~ NewTics /\ wpos = Len(made) /\ wpos = WantedSize
  BY <1>1, <1>2, Zenon DEF TicsInv
<1>6. /\ b \in Seq(Byte) /\ Len(b) \in Nat /\ h \in 7 .. 19 /\ Input.stics * TicSize(Input) \in Nat
      /\ Len(b) - 1 = h + Input.stics * TicSize(Input)
  BY <1>3, FileLength
<1>7. WantedSize \in 7 .. 19
  BY <1>3, <1>4, WantedSizeIs
<1> DEFINE x == Input.stics * TicSize(Input)
<1> HIDE DEF h, x, b
<1>8. t \in Seq(Byte) /\ Len(t) = x + 1 /\ \A i \in 1 .. x + 1 : t[i] = b[h + 1 + i - 1]
  <2>1. x \in Nat /\ Len(b) = h + x + 1
    BY <1>6 DEF x
  <2>2. h + 1 \in Int /\ Len(b) \in Int /\ \A i \in h + 1 .. Len(b) : b[i] \in Byte
    BY <1>6
  <2>3. /\ t \in Seq(Byte) /\ Len(t) = IF h + 1 <= Len(b) THEN Len(b) - (h + 1) + 1 ELSE 0
        /\ \A i \in 1 .. Len(b) - (h + 1) + 1 : t[i] = b[h + 1 + i - 1]
    BY <2>2, SubSeqProperties
  <2>4. Len(b) - (h + 1) + 1 = x + 1 /\ h + 1 <= Len(b)
    BY <1>6, <2>1
  <2> HIDE DEF t
  <2> QED
    BY <2>3, <2>4
<1> HIDE DEF t
<1>9. /\ made' \in Seq(Byte) /\ Len(made') = Len(made) + Len(t) /\ (HeaderReads(made) => HeaderReads(made'))
      /\ \A i \in 1 .. Len(made) + Len(t) : made'[i] = IF i <= Len(made) THEN made[i] ELSE t[i - Len(made)]
  <2>1. Len(made) >= WantedSize
    BY <1>5, <1>7
  <2>2. /\ made \o t \in Seq(Byte) /\ Len(made \o t) = Len(made) + Len(t)
        /\ (HeaderReads(made) => HeaderReads(made \o t))
    BY <1>3, <1>4, <1>8, <2>1, MoreWritten DEF b
  <2>3. \A i \in 1 .. Len(made) + Len(t) :
          (made \o t)[i] = IF i <= Len(made) THEN made[i] ELSE t[i - Len(made)]
    BY <1>4, <1>8, ConcatProperties
  <2>4. made' = made \o t
    BY <1>2
  <2> QED
    BY <2>2, <2>3, <2>4
<1>10. /\ Len(made') = WantedSize + x + 1 /\ wpos' = WantedSize + x /\ x \in Nat
       /\ wpos' \in WantedSize .. Len(made')
  <2>1. x \in Nat
    BY <1>6 DEF x
  <2>2. Len(made) = WantedSize
    BY <1>5
  <2>3. Len(made') = WantedSize + x + 1
    BY <1>7, <1>8, <1>9, <2>1, <2>2
  <2> QED
    BY <1>2, <1>7, <2>1, <2>3
<1>11. SubSeq(made', WantedSize + 1, wpos') = Flat(Asked, Input.stics)
  <2>1. Flat(Asked, Input.stics) = SubSeq(b, h + 1, Len(b) - 1)
    BY <1>3, <1>5, NoNewTics DEF b, h
  <2>2. Len(b) - 1 = h + x
    BY <1>6 DEF x
  <2>3. \A i \in 1 .. x : made'[WantedSize + 1 + i - 1] = b[h + 1 + i - 1]
    <3> TAKE i \in 1 .. x
    <3>1. Len(made) = WantedSize /\ i \in 1 .. x + 1
      BY <1>5, <1>10
    <3>2. /\ WantedSize + 1 + i - 1 \in 1 .. Len(made) + Len(t)
          /\ ~(WantedSize + 1 + i - 1 <= Len(made))
          /\ (WantedSize + 1 + i - 1) - Len(made) = i
      BY <1>7, <1>8, <1>10, <3>1
    <3>3. made'[WantedSize + 1 + i - 1] = t[i]
      BY <1>9, <3>2
    <3> QED
      BY <1>8, <3>1, <3>3
  <2> DEFINE y == made'
             a == WantedSize + 1
             e == wpos'
             m == h + 1
             n == Len(b) - 1
  <2>4. /\ y \in Seq(Byte) /\ b \in Seq(Byte) /\ a \in 1 .. Len(y) + 1 /\ e \in a - 1 .. Len(y)
        /\ m \in 1 .. Len(b) + 1 /\ n \in m - 1 .. Len(b) /\ e - a = n - m /\ e - a + 1 = x
    BY <1>6, <1>7, <1>9, <1>10, <2>2
  <2>5. \A i \in 1 .. e - a + 1 : y[a + i - 1] = b[m + i - 1]
    BY <2>3, <2>4
  <2> HIDE DEF y, a, e, m, n
  <2>6. AreSame(y, a, e, b, m, n, Byte)
    BY <2>4, <2>5, Zenon DEF AreSame
  <2>7. SameParts(y, a, e, b, m, n)
    BY <2>6, SubSeqsEqual, ZenonT(30)
  <2> QED
    BY <2>1, <2>7 DEF y, a, e, m, n, SameParts
<1>12. FileInv' /\ ReadInv'
  BY <1>1, <1>2, FileStays
<1>13. /\ Input' = Input /\ Impossible(Input)' = Impossible(Input)
       /\ NewFile(Input)' = NewFile(Input) /\ WantedSize' = WantedSize
       /\ Asked' = Asked /\ HasPlaces(Wanted(Input))' = HasPlaces(Wanted(Input))
       /\ \A c : HeaderReads(c)' = HeaderReads(c)
  BY <1>2, InputStays, TicsStay, HeaderStays, Zenon
<1>14. HeadInv'
  <2>1. TicSize(Input)' = TicSize(Input)
    BY <1>13, Zenon DEF TicSize
  <2>2. \E c \in Nat : wpos' = WantedSize + c * TicSize(Input)
    <3>1. Input.stics \in Nat /\ wpos' = WantedSize + Input.stics * TicSize(Input)
      BY <1>3, <1>10 DEF IsRead, x
    <3> QED
      BY <3>1, Zenon
  <2>3. wpos' \in WantedSize' .. Len(made') /\ \E c \in Nat : wpos' = WantedSize' + c * TicSize(Input)'
    BY <1>10, <1>13, <2>1, <2>2, Zenon
  <2>4. ~ Impossible(Input)' /\ (HasPlaces(Wanted(Input))' => HeaderReads(made)')
    BY <1>4, <1>9, <1>13, Zenon
  <2> QED
    BY <1>9, <2>3, <2>4, Zenon DEF HeadInv
<1>15. TicsInv'
  <2>1. NewFile(Input)'
    BY <1>5, <1>13, Zenon
  <2>2. Body(Input.stics)'
    BY <1>11, <1>13, Zenon DEF Body, Flat
  <2>3. wpos' \in {Len(made'), Len(made') - 1}
    BY <1>2
  <2>4. lphase' # "tics" /\ lphase' # "copy"
    BY <1>2
  <2> QED
    BY <2>1, <2>2, <2>3, <2>4, Zenon DEF TicsInv
<1>16. LmpTypeOK'
  <2>1. li' = li
    BY <1>2
  <2>2. PlayerNum(li[1])' = PlayerNum(li[1])
    BY <2>1, Zenon DEF PlayerNum
  <2>3. /\ currentpause \in BOOLEAN /\ newpause \in BOOLEAN /\ stic \in 1 .. li[1].stics + 1
        /\ p \in 0 .. PlayerNum(li[1])
    BY <1>1, <1>2 DEF LmpTypeOK
  <2>4. lphase' \in {"off", "open", "options", "tics", "copy", "end", "done", "aborted"}
        /\ wpos' \in {Len(made'), Len(made') - 1}
    BY <1>2
  <2>5. \A c \in Range(made') : c \in Byte
    BY <1>9, BytesOnly
  <2> QED
    BY <1>2, <2>1, <2>2, <2>3, <2>4, <2>5, Zenon DEF LmpTypeOK
<1>17. StartInv' /\ DoneInv' /\ PauseInv'
  <2>1. lphase' # "done" /\ lphase' # "tics" /\ lphase' \notin {"off", "open", "options", "aborted"}
    BY <1>2
  <2> QED
    BY <2>1, Zenon DEF StartInv, PauseInv, DoneInv, LmpDone, TicsAsAsked, HeaderAsAsked
<1> QED
  BY <1>12, <1>14, <1>15, <1>16, <1>17, Zenon DEF ConvertInv

\* A header to which nothing is to be changed reads as the one asked for.
LEMMA OldHeader ==
  ASSUME IsRead(Input, lfile.bytes), opt \in Options, ~ Impossible(Input),
         o_game(Input) = Input.game, ~ NewHeader(Input)
  PROVE  HeaderReads(lfile.bytes)
<1> DEFINE b == lfile.bytes
           g == LayoutOf(Input.game)
           l == Wanted(Input)
<1>1. /\ DOMAIN Input = {"game", "field", "players", "stics"}
      /\ Input.field = [n \in FieldNames |-> FieldOf(b, g, n)]
      /\ DOMAIN Input.players = PlayersIn(b, g)
      /\ \A s \in DOMAIN Input.players : Input.players[s] = ClassOf(b, g, s)
      /\ Input.players = [s \in DOMAIN Input.players |-> Input.players[s]]
      /\ g \in Games
  BY LayoutOfGames DEF IsRead
<1>2. WantedLayout = g /\ LayoutOf(l.game) = g
  BY WantedIs DEF WantedLayout
<1>3. ~ IsVersionNew(Input) /\ ~ IsViewNew(Input)
  BY Zenon DEF NewHeader
<1>4. \A n \in FieldNames : l.field[n] = FieldOf(b, g, n)
  <2>1. l.field = [[Input.field EXCEPT !["versionbyte"] = Input.field["versionbyte"]]
                     EXCEPT !["mainplayer"] = Input.field["mainplayer"]]
    BY <1>1, <1>3 DEF Wanted
  <2> QED
    BY <1>1, <2>1
<1> HIDE DEF l, g, b
<1>5. Kept(l) = [n \in FieldNames |-> IF n \in Range(Layouts[g].fields) \/ n = "versionbyte"
                                      THEN l.field[n] ELSE IF n = "episode" THEN 1 ELSE 0]
  BY <1>2, Zenon DEF Kept
<1>6. ASSUME NEW n \in FieldNames
      PROVE  FieldOf(b, g, n) = IF n \in Range(Layouts[g].fields) \/ n = "versionbyte"
                                THEN l.field[n] ELSE IF n = "episode" THEN 1 ELSE 0
  <2>1. CASE IndexOf(g, n) # 0
    <3>1. n \in Range(Layouts[g].fields)
      BY <1>1, <2>1, IndexIs
    <3> QED
      BY <1>4, <3>1
  <2>2. CASE IndexOf(g, n) = 0
    <3>1. n \notin Range(Layouts[g].fields)
      BY <1>1, <2>2, IndexIs
    <3>2. CASE n = "versionbyte"
      BY <1>4, <3>2
    <3>3. CASE n # "versionbyte"
      BY <2>2, <3>1, <3>3, FieldOfIs
    <3> QED
      BY <3>2, <3>3
  <2> QED
    BY <2>1, <2>2
<1>7. [n \in FieldNames |-> FieldOf(b, g, n)] = Kept(l)
  BY <1>5, <1>6
<1>8. [s \in PlayersIn(b, g) |-> ClassOf(b, g, s)] = Input.players
  BY <1>1
<1> QED
  BY <1>2, <1>7, <1>8, Zenon DEF HeaderReads, l, b

\* A header that takes the place of one as long.
LEMMA HeaderReplaced ==
  ASSUME IsRead(Input, lfile.bytes), opt \in Options, ~ Impossible(Input),
         o_game(Input) = Input.game
  PROVE  \E b \in Seq(Byte) :
           /\ WriteAt(lfile.bytes, 0, LMP_writeheader(Wanted(Input))) = b
           /\ Len(b) = Len(lfile.bytes)
           /\ \A j \in WantedSize + 1 .. Len(b) : b[j] = lfile.bytes[j]
           /\ HasPlaces(Wanted(Input)) => HeaderReads(b)
<1> DEFINE b == lfile.bytes
           h == LMP_writeheader(Wanted(Input))
           t == SubSeq(b, Len(h) + 1, Len(b))
           c == h \o t
<1>1. /\ b \in Seq(Byte) /\ Len(b) \in Nat /\ HeaderLen(Input) \in 7 .. 19
      /\ Input.stics * TicSize(Input) \in Nat
      /\ Len(b) - 1 = HeaderLen(Input) + Input.stics * TicSize(Input)
  BY FileLength
<1>2. h \in Seq(Byte) /\ Len(h) = WantedSize /\ (HasPlaces(Wanted(Input)) => HeaderReads(h))
  BY HeaderWritten
<1>3. WantedSize = HeaderLen(Input)
  BY Zenon DEF WantedSize, WantedLayout, HeaderLen
<1> HIDE DEF h, b
<1>4. Len(h) \in 7 .. 19 /\ Len(h) <= Len(b)
  <2> DEFINE x == Input.stics * TicSize(Input)
  <2>1. x \in Nat /\ Len(b) - 1 = HeaderLen(Input) + x
    BY <1>1
  <2> HIDE DEF x
  <2> QED
    BY <1>1, <1>2, <1>3, <2>1
<1>5. WriteAt(b, 0, h) = c
  BY <1>1, <1>2, <1>4, WriteAtStart
<1>6. t \in Seq(Byte) /\ Len(t) = Len(b) - Len(h)
      /\ \A i \in 1 .. Len(b) - Len(h) : t[i] = b[Len(h) + 1 + i - 1]
  <2>1. Len(h) + 1 \in Int /\ Len(b) \in Int /\ \A i \in Len(h) + 1 .. Len(b) : b[i] \in Byte
    BY <1>1, <1>4
  <2>2. /\ t \in Seq(Byte) /\ Len(t) = IF Len(h) + 1 <= Len(b) THEN Len(b) - (Len(h) + 1) + 1 ELSE 0
        /\ \A i \in 1 .. Len(b) - (Len(h) + 1) + 1 : t[i] = b[Len(h) + 1 + i - 1]
    BY <2>1, SubSeqProperties
  <2>3. Len(b) - (Len(h) + 1) + 1 = Len(b) - Len(h)
    BY <1>1, <1>4
  <2> HIDE DEF t
  <2>4. Len(h) + 1 <= Len(b) => Len(t) = Len(b) - Len(h)
    BY <2>2, <2>3, Zenon
  <2>5. ~(Len(h) + 1 <= Len(b)) => Len(t) = 0 /\ Len(b) - Len(h) = 0
    BY <1>1, <1>4, <2>2
  <2>6. \A i \in 1 .. Len(b) - Len(h) : t[i] = b[Len(h) + 1 + i - 1]
    BY <2>2, <2>3, Zenon
  <2> QED
    BY <2>2, <2>4, <2>5, <2>6, Zenon
<1> HIDE DEF t
<1>7. /\ c \in Seq(Byte) /\ Len(c) = Len(h) + Len(t) /\ (HeaderReads(h) => HeaderReads(c))
  <2>1. Len(h) >= WantedSize
    BY <1>2, <1>4
  <2> QED
    BY <1>2, <1>6, <2>1, MoreWritten DEF b
<1>8. \A i \in 1 .. Len(h) + Len(t) : c[i] = IF i <= Len(h) THEN h[i] ELSE t[i - Len(h)]
  BY <1>2, <1>6, ConcatProperties
<1> HIDE DEF c
<1>9. Len(c) = Len(b)
  BY <1>1, <1>4, <1>6, <1>7
<1>10. ASSUME NEW j \in WantedSize + 1 .. Len(c) PROVE c[j] = b[j]
  <2> DEFINE i == j - Len(h)
  <2>1. /\ i \in 1 .. Len(b) - Len(h) /\ Len(h) + 1 + i - 1 = j /\ j \in 1 .. Len(h) + Len(t)
        /\ ~(j <= Len(h))
    BY <1>1, <1>2, <1>4, <1>6, <1>9
  <2>2. c[j] = t[i]
    BY <1>8, <2>1
  <2> HIDE DEF i
  <2>3. t[i] = b[Len(h) + 1 + i - 1]
    BY <1>6, <2>1
  <2> QED
    BY <2>1, <2>2, <2>3
<1>11. HasPlaces(Wanted(Input)) => HeaderReads(c)
  BY <1>2, <1>7
<1>12. \E d \in Seq(Byte) : /\ WriteAt(b, 0, h) = d /\ Len(d) = Len(b)
                            /\ \A j \in WantedSize + 1 .. Len(d) : d[j] = b[j]
                            /\ HasPlaces(Wanted(Input)) => HeaderReads(d)
  BY <1>5, <1>7, <1>9, <1>10, <1>11, Zenon
<1> QED
  BY <1>12, Zenon DEF b, h

\* Files that differ in their first h bytes at most.
SameBehind(b, d, h) ==
  /\ b \in Seq(Byte) /\ d \in Seq(Byte) /\ Len(d) = Len(b) /\ h \in 0 .. Len(b) - 1
  /\ \A j \in h + 1 .. Len(d) : d[j] = b[j]
SameTics(b, d, h) ==
  SubSeq(d, h + 1, Len(d) - 1) = SubSeq(b, h + 1, Len(b) - 1) /\ Last(d) = Last(b)

LEMMA SameTail ==
  ASSUME NEW b, NEW d, NEW h, SameBehind(b, d, h)
  PROVE  SameTics(b, d, h)
<1> USE DEF SameBehind
<1>1. Len(b) \in Nat /\ Len(d) = Len(b) /\ h \in Nat /\ h + 1 <= Len(b)
  BY LenProperties
<1>2. Last(d) = Last(b)
  BY <1>1 DEF Last
<1>3. AreSame(d, h + 1, Len(d) - 1, b, h + 1, Len(b) - 1, Byte)
  <2>1. \A i \in 1 .. Len(d) - 1 - (h + 1) + 1 : d[h + 1 + i - 1] = b[h + 1 + i - 1]
    <3> TAKE i \in 1 .. Len(d) - 1 - (h + 1) + 1
    <3>1. h + 1 + i - 1 \in h + 1 .. Len(d)
      BY <1>1
    <3> QED
      BY <3>1
  <2>2. /\ h + 1 \in 1 .. Len(d) + 1 /\ Len(d) - 1 \in (h + 1) - 1 .. Len(d)
        /\ h + 1 \in 1 .. Len(b) + 1 /\ Len(b) - 1 \in (h + 1) - 1 .. Len(b)
        /\ Len(d) - 1 - (h + 1) = Len(b) - 1 - (h + 1)
    BY <1>1
  <2>3. b \in Seq(Byte) /\ d \in Seq(Byte)
    OBVIOUS
  <2> HIDE DEF SameBehind
  <2> QED
    BY <2>1, <2>2, <2>3, ZenonT(30) DEF AreSame
<1>4. SameParts(d, h + 1, Len(d) - 1, b, h + 1, Len(b) - 1)
  BY <1>3, SubSeqsEqual, ZenonT(30)
<1> QED
  BY <1>2, <1>4 DEF SameTics, SameParts

\* WriteHeader, if there is a new file.
LEMMA NewHeaderStep ==
  ASSUME ConvertInv, WriteHeader, NewFile(Input)
  PROVE  ConvertInv'
<1> DEFINE h == LMP_writeheader(Wanted(Input))
<1>1. FileInv /\ ReadInv /\ StartInv /\ LmpTypeOK /\ lphase = "options" /\ ~ Impossible(Input)
  BY DEF ConvertInv, WriteHeader, Input
<1>2. /\ made' = h /\ wpos' = Len(made') /\ UNCHANGED <<lfile, opt, li>>
      /\ stic' = stic /\ p' = p /\ currentpause' = currentpause /\ newpause' = newpause
      /\ lphase' = IF NewTics THEN "tics" ELSE IF NewFile(Input) THEN "copy" ELSE "end"
  BY DEF WriteHeader, tics, Input
<1>3. lphase' = IF NewTics THEN "tics" ELSE "copy"
  BY <1>2, Zenon
<1>4. IsRead(Input, lfile.bytes) /\ opt \in Options
  BY <1>1, InputIsRead
<1>5. stic = 1 /\ p = 0 /\ ~ currentpause /\ ~ newpause
  BY <1>1, Zenon DEF StartInv
<1>6. h \in Seq(Byte) /\ Len(h) = WantedSize /\ (HasPlaces(Wanted(Input)) => HeaderReads(h))
  BY <1>1, <1>4, HeaderWritten
<1>7. WantedSize \in 7 .. 19
  BY <1>1, <1>4, WantedSizeIs
<1> HIDE DEF h
<1>8. /\ Input' = Input /\ Impossible(Input)' = Impossible(Input) /\ NewTics' = NewTics
      /\ NewFile(Input)' = NewFile(Input) /\ WantedSize' = WantedSize /\ Distinct' = Distinct
      /\ OneToggle' = OneToggle
      /\ Asked' = Asked /\ HasPlaces(Wanted(Input))' = HasPlaces(Wanted(Input))
      /\ \A b : HeaderReads(b)' = HeaderReads(b)
  BY <1>2, InputStays, TicsStay, HeaderStays, Zenon
<1>9. FileInv' /\ ReadInv'
  BY <1>1, <1>2, FileStays
<1>10. StartInv' /\ DoneInv'
  <2>1. lphase' # "done" /\ lphase' \notin {"off", "open", "options", "aborted"} /\ lphase' # "end"
    BY <1>3
  <2> QED
    BY <2>1, Zenon DEF StartInv, DoneInv, LmpDone, TicsAsAsked, HeaderAsAsked
<1>11. HeadInv'
  <2>1. TicSize(Input)' = TicSize(Input) /\ TicSize(Input) \in {4, 6}
    BY <1>4, <1>8 DEF TicSize, IsRead
  <2>2. wpos' = WantedSize + 0 * TicSize(Input) /\ wpos' \in WantedSize .. Len(made')
    BY <1>2, <1>6, <1>7, <2>1
  <2>3. \E c \in Nat : wpos' = WantedSize + c * TicSize(Input)
    BY <2>2
  <2>4. wpos' \in WantedSize' .. Len(made') /\ \E c \in Nat : wpos' = WantedSize' + c * TicSize(Input)'
    BY <1>8, <2>1, <2>2, <2>3, Zenon
  <2>5. ~ Impossible(Input)' /\ (HasPlaces(Wanted(Input))' => HeaderReads(made)')
    BY <1>1, <1>2, <1>6, <1>8, Zenon
  <2>6. made' \in Seq(Byte)
    BY <1>2, <1>6
  <2> QED
    BY <2>4, <2>5, <2>6, Zenon DEF HeadInv
<1>12. PauseInv'
  <2>1. stic' = 1 /\ p' = 0 /\ ~ currentpause' /\ ~ newpause'
    BY <1>2, <1>5, Zenon
  <2>2. ~ (stic' > 1) /\ stic' - 1 - p' = 0 /\ stic' - 1 = 0
    BY <2>1
  <2>3. \E m \in Nat : stic' - 1 = m * PlayerNum(Input') + p'
    <3>1. PlayerNum(Input') \in Nat
      BY <1>4, <1>8 DEF IsRead
    <3>2. stic' - 1 = 0 * PlayerNum(Input') + p'
      BY <2>1, <3>1
    <3> QED
      BY <3>2
  <2>4. ~ IsOdd(Pressed(0)')
    <3>1. \A n : Pressed(n)' = Pressed(n)
      BY <1>2, TicsStay, Zenon
    <3>2. ~ IsOdd(Pressed(0))
      BY NonePressed
    <3> QED
      BY <3>1, <3>2, Zenon
  <2>5. Pressed(stic - 1 - p)' = Pressed(0)' /\ Pressed(stic - 1)' = Pressed(0)'
    BY <2>2, Zenon DEF Pressed
  <2>6. ~ IsOdd(Pressed(stic - 1 - p))' /\ ~ IsOdd(Pressed(stic - 1))'
    BY <2>4, <2>5, Zenon DEF IsOdd
  <2>7. PlayerNum(Input)' = PlayerNum(Input')
    BY Zenon DEF PlayerNum
  <2> QED
    BY <2>1, <2>2, <2>3, <2>6, <2>7, Zenon DEF PauseInv
<1>13. TicsInv'
  <2>1. SubSeq(made', WantedSize + 1, wpos') = <<>>
    <3>1. WantedSize + 1 > wpos' /\ WantedSize + 1 \in Int /\ wpos' \in Int
      BY <1>2, <1>6, <1>7
    <3> QED
      BY <3>1, SubSeqEmpty
  <2>2. Flat(Asked, stic' - 1) = <<>>
    <3>1. stic' - 1 = 0
      BY <1>2, <1>5
    <3> QED
      BY <3>1, FlatOfNone
  <2>3. Body(stic - 1)'
    BY <1>8, <2>1, <2>2, Zenon DEF Body, Flat
  <2>4. wpos' = Len(made') /\ wpos' = WantedSize'
    BY <1>2, <1>6, <1>8, Zenon
  <2>5. lphase' # "end" /\ (lphase' = "tics" => NewTics') /\ (lphase' = "copy" => ~ NewTics')
    <3>1. CASE NewTics
      BY <1>3, <1>8, <3>1
    <3>2. CASE ~ NewTics
      BY <1>3, <1>8, <3>2
    <3> QED
      BY <3>1, <3>2
  <2>6. NewFile(Input)'
    BY <1>8, Zenon
  <2> QED
    BY <2>3, <2>4, <2>5, <2>6, Zenon DEF TicsInv
<1>14. LmpTypeOK'
  <2>1. li' = li /\ PlayerNum(li[1])' = PlayerNum(Input)
    BY <1>2, Zenon DEF PlayerNum, Input
  <2>2. p' \in 0 .. PlayerNum(Input) /\ stic' \in 1 .. Input.stics + 1
    BY <1>2, <1>4, <1>5 DEF IsRead
  <2>3. currentpause' \in BOOLEAN /\ newpause' \in BOOLEAN
    BY <1>1, <1>2, Zenon DEF LmpTypeOK
  <2>4. lphase' \in {"off", "open", "options", "tics", "copy", "end", "done", "aborted"}
    BY <1>3
  <2>5. \A b \in Range(made') : b \in Byte
    BY <1>2, <1>6, BytesOnly
  <2>6. wpos' \in {Len(made'), Len(made') - 1}
    BY <1>2
  <2>7. stic' \in 1 .. li'[1].stics + 1 /\ p' \in 0 .. PlayerNum(li[1])'
    BY <2>1, <2>2, Zenon DEF Input
  <2> QED
    BY <2>3, <2>4, <2>5, <2>6, <2>7, Zenon DEF LmpTypeOK
<1> QED
  BY <1>9, <1>10, <1>11, <1>12, <1>13, <1>14, Zenon DEF ConvertInv

\* What WriteHeader leaves of the input if there is no new file.
LEMMA HeaderOver ==
  ASSUME IsRead(Input, lfile.bytes), opt \in Options, ~ Impossible(Input), ~ NewFile(Input),
         NEW d, d = IF NewHeader(Input) THEN WriteAt(lfile.bytes, 0, LMP_writeheader(Wanted(Input)))
                    ELSE lfile.bytes
  PROVE  /\ SameBehind(lfile.bytes, d, WantedSize)
         /\ HasPlaces(Wanted(Input)) => HeaderReads(d)
<1>1. o_game(Input) = Input.game
  BY Zenon DEF NewFile
<1>2. WantedSize \in 7 .. 19 /\ WantedSize = HeaderLen(Input)
  BY <1>1, WantedSizeIs, Zenon DEF WantedSize, WantedLayout, HeaderLen
<1>3. lfile.bytes \in Seq(Byte) /\ Len(lfile.bytes) \in Nat /\ WantedSize \in 0 .. Len(lfile.bytes) - 1
  <2> DEFINE x == Input.stics * TicSize(Input)
  <2>1. /\ lfile.bytes \in Seq(Byte) /\ Len(lfile.bytes) \in Nat
        /\ x \in Nat /\ Len(lfile.bytes) - 1 = HeaderLen(Input) + x
    BY FileLength
  <2> HIDE DEF x
  <2> QED
    BY <1>2, <2>1
<1>4. CASE NewHeader(Input)
  <2>1. d = WriteAt(lfile.bytes, 0, LMP_writeheader(Wanted(Input)))
    BY <1>4, Zenon
  <2>2. \E b \in Seq(Byte) :
           /\ WriteAt(lfile.bytes, 0, LMP_writeheader(Wanted(Input))) = b
           /\ Len(b) = Len(lfile.bytes)
           /\ \A j \in WantedSize + 1 .. Len(b) : b[j] = lfile.bytes[j]
           /\ HasPlaces(Wanted(Input)) => HeaderReads(b)
    BY <1>1, HeaderReplaced
  <2> QED
    BY <1>3, <2>1, <2>2, Zenon DEF SameBehind
<1>5. CASE ~ NewHeader(Input)
  <2>1. d = lfile.bytes
    BY <1>5, Zenon
  <2>2. HeaderReads(lfile.bytes)
    BY <1>1, <1>5, OldHeader
  <2> QED
    BY <1>3, <2>1, <2>2, Zenon DEF SameBehind
<1> QED
  BY <1>4, <1>5

\* WriteHeader, if the input is changed in place.
LEMMA OldHeaderStep ==
  ASSUME ConvertInv, WriteHeader, ~ NewFile(Input)
  PROVE  ConvertInv'
<1> DEFINE b == lfile.bytes
           x == Input.stics * TicSize(Input)
<1>1. FileInv /\ ReadInv /\ StartInv /\ LmpTypeOK /\ lphase = "options" /\ ~ Impossible(Input)
  BY DEF ConvertInv, WriteHeader, Input
<1>2. /\ made' = IF NewHeader(Input) THEN WriteAt(b, 0, LMP_writeheader(Wanted(Input))) ELSE b
      /\ wpos' = Len(made') - 1 /\ UNCHANGED <<lfile, opt, li>>
      /\ stic' = stic /\ p' = p /\ currentpause' = currentpause /\ newpause' = newpause
      /\ lphase' = IF NewTics THEN "tics" ELSE IF NewFile(Input) THEN "copy" ELSE "end"
  BY DEF WriteHeader, tics, Input
<1>3. ~ NewTics /\ lphase' = "end" /\ o_game(Input) = Input.game
  BY <1>2, Zenon DEF NewFile
<1>4. IsRead(Input, b) /\ opt \in Options
  BY <1>1, InputIsRead
<1>5. stic = 1 /\ p = 0 /\ ~ currentpause /\ ~ newpause
  BY <1>1, Zenon DEF StartInv
<1>6. SameBehind(b, made', WantedSize) /\ (HasPlaces(Wanted(Input)) => HeaderReads(made'))
  BY <1>1, <1>2, <1>4, HeaderOver
<1>7. /\ b \in Seq(Byte) /\ Len(b) \in Nat /\ x \in Nat /\ Len(b) - 1 = HeaderLen(Input) + x
      /\ Input.stics \in Nat
  BY <1>4, FileLength, Zenon DEF IsRead
<1>8. WantedSize \in 7 .. 19 /\ WantedSize = HeaderLen(Input)
  BY <1>1, <1>3, <1>4, WantedSizeIs, Zenon DEF WantedSize, WantedLayout, HeaderLen
<1>9. SameTics(b, made', WantedSize)
  BY <1>6, SameTail
<1>10. made' \in Seq(Byte) /\ Len(made') = Len(b)
  BY <1>6, Zenon DEF SameBehind
<1>11. /\ Input' = Input /\ Impossible(Input)' = Impossible(Input) /\ NewTics' = NewTics
       /\ NewFile(Input)' = NewFile(Input) /\ WantedSize' = WantedSize
       /\ Asked' = Asked /\ HasPlaces(Wanted(Input))' = HasPlaces(Wanted(Input))
       /\ \A c : HeaderReads(c)' = HeaderReads(c)
  BY <1>2, InputStays, TicsStay, HeaderStays, Zenon
<1>12. FileInv' /\ ReadInv'
  BY <1>1, <1>2, FileStays
<1>13. StartInv' /\ DoneInv' /\ PauseInv'
  <2>1. lphase' # "done" /\ lphase' \notin {"off", "open", "options", "aborted"} /\ lphase' # "tics"
    BY <1>3
  <2> QED
    BY <2>1, Zenon DEF StartInv, DoneInv, PauseInv, LmpDone, TicsAsAsked, HeaderAsAsked
<1>14. wpos' = WantedSize + x /\ wpos' \in WantedSize .. Len(made') /\ wpos' < Len(made')
  <2> HIDE DEF x, b
  <2> QED
    BY <1>2, <1>7, <1>8, <1>10
<1>15. HeadInv'
  <2>1. TicSize(Input)' = TicSize(Input)
    BY <1>11, Zenon DEF TicSize
  <2>2. \E c \in Nat : wpos' = WantedSize + c * TicSize(Input)
    BY <1>7, <1>14, Zenon
  <2>3. wpos' \in WantedSize' .. Len(made') /\ \E c \in Nat : wpos' = WantedSize' + c * TicSize(Input)'
    BY <1>11, <1>14, <2>1, <2>2, Zenon
  <2>4. ~ Impossible(Input)' /\ (HasPlaces(Wanted(Input))' => HeaderReads(made)')
    BY <1>1, <1>6, <1>11, Zenon
  <2> QED
    BY <1>10, <2>3, <2>4, Zenon DEF HeadInv
<1>16. TicsInv'
  <2>1. SubSeq(made', WantedSize + 1, Len(made') - 1) = SubSeq(b, WantedSize + 1, Len(b) - 1)
        /\ Last(made') = Last(b)
    BY <1>9, Zenon DEF SameTics
  <2>2. Flat(Asked, Input.stics) = SubSeq(b, WantedSize + 1, Len(b) - 1)
    BY <1>3, <1>4, <1>8, NoNewTics
  <2>3. SubSeq(made', WantedSize + 1, wpos') = Flat(Asked, Input.stics)
    BY <1>2, <2>1, <2>2, Zenon
  <2>4. Body(Input.stics)'
    BY <1>11, <2>3, Zenon DEF Body, Flat
  <2>5. wpos' \in {Len(made'), Len(made') - 1}
    BY <1>2
  <2>6. Last(made') = Last(lfile'.bytes)
    BY <1>2, <2>1, Zenon
  <2>7. lphase' # "tics" /\ lphase' # "copy"
    BY <1>3
  <2> QED
    BY <1>14, <2>4, <2>5, <2>6, <2>7, Zenon DEF TicsInv
<1>17. LmpTypeOK'
  <2>1. li' = li /\ PlayerNum(li[1])' = PlayerNum(Input)
    BY <1>2, Zenon DEF PlayerNum, Input
  <2>2. p' \in 0 .. PlayerNum(Input) /\ stic' \in 1 .. Input.stics + 1
    BY <1>2, <1>4, <1>5 DEF IsRead
  <2>3. currentpause' \in BOOLEAN /\ newpause' \in BOOLEAN
    BY <1>1, <1>2, Zenon DEF LmpTypeOK
  <2>4. lphase' \in {"off", "open", "options", "tics", "copy", "end", "done", "aborted"}
    BY <1>3
  <2>5. \A c \in Range(made') : c \in Byte
    BY <1>10, BytesOnly
  <2>6. wpos' \in {Len(made'), Len(made') - 1}
    BY <1>2
  <2>7. stic' \in 1 .. li'[1].stics + 1 /\ p' \in 0 .. PlayerNum(li[1])'
    BY <2>1, <2>2, Zenon DEF Input
  <2> QED
    BY <2>3, <2>4, <2>5, <2>6, <2>7, Zenon DEF LmpTypeOK
<1> QED
  BY <1>12, <1>13, <1>15, <1>16, <1>17, Zenon DEF ConvertInv

-----------------------------------------------------------------------------
(* The end of the file. *)

LmpEnd == IF NewFile(Input) \/ opt.wt > 0 THEN WT(Input) \o QuitByte ELSE <<Last(lfile.bytes)>>

\* The seconds of waiting are whole tics.
LEMMA WaitTyped ==
  ASSUME IsRead(Input, lfile.bytes), opt \in Options
  PROVE  /\ WT(Input) \o QuitByte \in Seq(Byte)
         /\ \E d \in Nat : Len(WT(Input) \o QuitByte) = d * TicSize(Input) + 1
<1>1. opt.wt \in Nat /\ TicRate \in Nat /\ PlayerNum(Input) \in Nat /\ TicSize(Input) \in {4, 6}
  BY TicRateAssumption DEF Options, IsRead
<1> DEFINE d == opt.wt * TicRate * PlayerNum(Input)
           e == d * TicSize(Input)
<1>2. d \in Nat
  <2>1. opt.wt * TicRate \in Nat
    BY <1>1
  <2> QED
    BY <1>1, <2>1
<1>3. e \in Nat
  <2> HIDE DEF d
  <2> QED
    BY <1>1, <1>2
<1>4. WT(Input) = [i \in 1 .. e |-> 0]
  BY DEF WT
<1> HIDE DEF e
<1>5. WT(Input) \in Seq(Byte) /\ Len(WT(Input)) = e
  <2>1. \A i \in 1 .. e : 0 \in Byte
    BY DEF Byte
  <2> QED
    BY <1>3, <1>4, <2>1
<1>6. QuitByte \in Seq(Byte) /\ Len(QuitByte) = 1
  BY DEF QuitByte, Byte
<1>7. WT(Input) \o QuitByte \in Seq(Byte) /\ Len(WT(Input) \o QuitByte) = e + 1
  <2> DEFINE t == WT(Input)
             q == QuitByte
  <2>1. t \in Seq(Byte) /\ Len(t) = e /\ q \in Seq(Byte) /\ Len(q) = 1
    BY <1>5, <1>6
  <2> HIDE DEF t, q
  <2>2. t \o q \in Seq(Byte) /\ Len(t \o q) = Len(t) + Len(q)
    BY <2>1, ConcatProperties
  <2>3. t \o q \in Seq(Byte) /\ Len(t \o q) = e + 1
    BY <2>1, <2>2
  <2> QED
    BY <2>3 DEF t, q
<1> QED
  BY <1>2, <1>7, Zenon DEF e

LEMMA EndTyped ==
  ASSUME IsRead(Input, lfile.bytes), opt \in Options
  PROVE  LmpEnd \in Seq(Byte) /\ \E d \in Nat : Len(LmpEnd) = d * TicSize(Input) + 1
<1>1. CASE NewFile(Input) \/ opt.wt > 0
  <2>1. LmpEnd = WT(Input) \o QuitByte
    BY <1>1, Zenon DEF LmpEnd
  <2> QED
    BY <2>1, WaitTyped
<1>2. CASE ~ (NewFile(Input) \/ opt.wt > 0)
  <2>1. LmpEnd = <<Last(lfile.bytes)>>
    BY <1>2, Zenon DEF LmpEnd
  <2>2. Last(lfile.bytes) \in Byte
    <3>1. lfile.bytes \in Seq(Byte) /\ Len(lfile.bytes) \in Nat /\ Len(lfile.bytes) > 0
      <4> DEFINE x == Input.stics * TicSize(Input)
      <4>1. /\ lfile.bytes \in Seq(Byte) /\ Len(lfile.bytes) \in Nat /\ HeaderLen(Input) \in 7 .. 19
            /\ x \in Nat /\ Len(lfile.bytes) - 1 = HeaderLen(Input) + x
        BY FileLength
      <4> HIDE DEF x
      <4> QED
        BY <4>1
    <3> QED
      BY <3>1 DEF Last
  <2>3. LmpEnd \in Seq(Byte) /\ Len(LmpEnd) = 1
    BY <2>1, <2>2
  <2>4. TicSize(Input) \in {4, 6}
    BY DEF IsRead
  <2>5. Len(LmpEnd) = 0 * TicSize(Input) + 1
    BY <2>3, <2>4
  <2> QED
    BY <2>3, <2>5
<1> QED
  BY <1>1, <1>2

\* A sequence is what is in front of its last element, and that.
LEMMA AllButLast ==
  ASSUME NEW S, NEW s \in Seq(S), NEW n \in Nat, Len(s) = n + 1
  PROVE  s = SubSeq(s, 1, n) \o <<Last(s)>>
<1> DEFINE u == SubSeq(s, 1, n)
           v == <<Last(s)>>
           w == u \o v
<1>1. /\ u \in Seq(S) /\ Len(u) = n /\ \A i \in 1 .. n : u[i] = s[i]
  <2>1. 1 \in Int /\ n \in Int /\ \A i \in 1 .. n : s[i] \in S
    OBVIOUS
  <2>2. /\ u \in Seq(S) /\ Len(u) = IF 1 <= n THEN n - 1 + 1 ELSE 0
        /\ \A i \in 1 .. n - 1 + 1 : u[i] = s[1 + i - 1]
    BY <2>1, SubSeqProperties
  <2> HIDE DEF u
  <2> QED
    BY <2>2
<1>2. v \in Seq(S) /\ Len(v) = 1 /\ v[1] = s[n + 1]
  BY DEF Last
<1> HIDE DEF u, v
<1>3. /\ w \in Seq(S) /\ Len(w) = Len(u) + Len(v)
      /\ \A i \in 1 .. Len(u) + Len(v) : w[i] = IF i <= Len(u) THEN u[i] ELSE v[i - Len(u)]
  BY <1>1, <1>2, ConcatProperties
<1> HIDE DEF w
<1>4. Len(w) = Len(s)
  BY <1>1, <1>2, <1>3
<1>5. ASSUME NEW i \in 1 .. Len(s) PROVE s[i] = w[i]
  <2>1. i \in 1 .. Len(u) + Len(v)
    BY <1>1, <1>2
  <2>2. CASE i <= n
    BY <1>1, <1>3, <2>1, <2>2
  <2>3. CASE ~ (i <= n)
    <3>1. i = n + 1 /\ i - Len(u) = 1 /\ ~ (i <= Len(u))
      BY <1>1, <2>3
    <3> QED
      BY <1>2, <1>3, <2>1, <3>1
  <2> QED
    BY <2>2, <2>3
<1>6. s = w
  BY <1>3, <1>4, <1>5, SeqEqual
<1> QED
  BY <1>6 DEF w, u, v

\* What is written is what was, up to wpos, and the end.
LEMMA EndWritten ==
  ASSUME ConvertInv, WriteEnd
  PROVE  /\ made' = SubSeq(made, 1, wpos) \o LmpEnd
         /\ SubSeq(made, 1, wpos) \in Seq(Byte) /\ Len(SubSeq(made, 1, wpos)) = wpos
<1>1. FileInv /\ ReadInv /\ HeadInv /\ TicsInv /\ lphase = "end"
  BY DEF ConvertInv, WriteEnd
<1>2. IsRead(Input, lfile.bytes) /\ opt \in Options
  BY <1>1, InputIsRead
<1>3. /\ ~ Impossible(Input) /\ made \in Seq(Byte) /\ wpos \in WantedSize .. Len(made)
      /\ wpos \in {Len(made), Len(made) - 1}
      /\ ~ NewFile(Input) => wpos < Len(made) /\ Last(made) = Last(lfile.bytes)
  BY <1>1, Zenon DEF HeadInv, TicsInv
<1>4. WantedSize \in 7 .. 19
  BY <1>2, <1>3, WantedSizeIs
<1>5. wpos \in 0 .. Len(made) /\ wpos >= Len(made) - 1 /\ Len(made) \in Nat
  BY <1>3, <1>4, LenProperties
<1>6. SubSeq(made, 1, wpos) \in Seq(Byte) /\ Len(SubSeq(made, 1, wpos)) = wpos
  <2>1. 1 \in 1 .. Len(made) + 1 /\ wpos \in 1 - 1 .. Len(made) /\ wpos - 1 + 1 = wpos
    BY <1>5
  <2> QED
    BY <1>3, <2>1, SubSeqTyped
<1>7. made' = IF NewFile(Input) \/ opt.wt > 0
              THEN WriteAt(made, wpos, WT(Input) \o QuitByte) ELSE made
  BY Zenon DEF WriteEnd, Input
<1>8. CASE NewFile(Input) \/ opt.wt > 0
  <2>1. LmpEnd = WT(Input) \o QuitByte /\ made' = WriteAt(made, wpos, LmpEnd)
    BY <1>7, <1>8, Zenon DEF LmpEnd
  <2>2. LmpEnd \in Seq(Byte) /\ Len(LmpEnd) > 0
    <3>1. TicSize(Input) \in {4, 6}
      BY <1>2 DEF IsRead
    <3>2. PICK d \in Nat : Len(LmpEnd) = d * TicSize(Input) + 1
      BY <1>2, EndTyped
    <3> QED
      BY <1>2, <3>1, <3>2, EndTyped
  <2>3. WriteAt(made, wpos, LmpEnd) = SubSeq(made, 1, wpos) \o LmpEnd
    BY <1>3, <1>5, <2>2, WriteAtEnd
  <2> QED
    BY <1>6, <2>1, <2>3
<1>9. CASE ~ (NewFile(Input) \/ opt.wt > 0)
  <2>1. LmpEnd = <<Last(lfile.bytes)>> /\ made' = made /\ ~ NewFile(Input)
    BY <1>7, <1>9, Zenon DEF LmpEnd
  <2>2. LmpEnd = <<Last(made)>> /\ wpos < Len(made)
    BY <1>3, <2>1, Zenon
  <2>3. wpos \in Nat /\ Len(made) = wpos + 1
    BY <1>5, <2>2
  <2>4. made = SubSeq(made, 1, wpos) \o <<Last(made)>>
    BY <1>3, <2>3, AllButLast
  <2> QED
    BY <1>6, <2>1, <2>2, <2>4
<1> QED
  BY <1>8, <1>9

\* Behind the header are the tics asked for and the end.
LEMMA TicsWritten ==
  ASSUME ConvertInv, WriteEnd, Distinct
  PROVE  SubSeq(made', WantedSize + 1, Len(made'))
           = FlattenSeq([n \in 1 .. Input.stics |-> TicAsked(n)]) \o LmpEnd
<1> DEFINE s == SubSeq(made, 1, wpos)
<1>1. FileInv /\ ReadInv /\ HeadInv /\ TicsInv /\ lphase = "end"
  BY DEF ConvertInv, WriteEnd
<1>2. IsRead(Input, lfile.bytes) /\ opt \in Options
  BY <1>1, InputIsRead
<1>3. /\ ~ Impossible(Input) /\ made \in Seq(Byte) /\ wpos \in WantedSize .. Len(made)
      /\ Body(Input.stics)
  BY <1>1, Zenon DEF HeadInv, TicsInv
<1>4. WantedSize \in 7 .. 19
  BY <1>2, <1>3, WantedSizeIs
<1>5. made' = s \o LmpEnd /\ s \in Seq(Byte) /\ Len(s) = wpos /\ LmpEnd \in Seq(Byte)
  BY <1>2, EndWritten, EndTyped
<1>6. \A i \in 1 .. wpos : s[i] = made[i]
  <2>1. 1 \in Int /\ wpos \in Int /\ \A i \in 1 .. wpos : made[i] \in Byte
    BY <1>3, <1>4
  <2>2. wpos - 1 + 1 = wpos /\ \A i \in 1 .. wpos : 1 + i - 1 = i
    BY <2>1
  <2>3. \A i \in 1 .. wpos - 1 + 1 : s[i] = made[1 + i - 1]
    BY <2>1, SubSeqProperties
  <2> HIDE DEF s
  <2> QED
    BY <2>2, <2>3
<1> HIDE DEF s
<1>7. SubSeq(s \o LmpEnd, WantedSize + 1, Len(s \o LmpEnd)) = SubSeq(s, WantedSize + 1, Len(s)) \o LmpEnd
  <2>1. WantedSize \in 0 .. Len(s)
    BY <1>3, <1>4, <1>5
  <2> QED
    BY <1>5, <2>1, BehindHeader
<1>8. SubSeq(s, WantedSize + 1, Len(s)) = SubSeq(made, WantedSize + 1, wpos)
  <2>1. /\ WantedSize + 1 \in 1 .. Len(s) + 1 /\ Len(s) \in (WantedSize + 1) - 1 .. Len(s)
        /\ WantedSize + 1 \in 1 .. Len(made) + 1 /\ wpos \in (WantedSize + 1) - 1 .. Len(made)
        /\ Len(s) - (WantedSize + 1) = wpos - (WantedSize + 1)
    BY <1>3, <1>4, <1>5
  <2>2. \A i \in 1 .. Len(s) - (WantedSize + 1) + 1 :
          s[WantedSize + 1 + i - 1] = made[WantedSize + 1 + i - 1]
    <3> TAKE i \in 1 .. Len(s) - (WantedSize + 1) + 1
    <3>1. WantedSize + 1 + i - 1 \in 1 .. wpos
      BY <1>3, <1>4, <1>5
    <3> QED
      BY <1>6, <3>1
  <2>3. AreSame(s, WantedSize + 1, Len(s), made, WantedSize + 1, wpos, Byte)
    BY <1>3, <1>5, <2>1, <2>2, ZenonT(30) DEF AreSame
  <2>4. SameParts(s, WantedSize + 1, Len(s), made, WantedSize + 1, wpos)
    BY <2>3, SubSeqsEqual, ZenonT(30)
  <2> QED
    BY <2>4, Zenon DEF SameParts
<1>9. SubSeq(made, WantedSize + 1, wpos) = FlattenSeq([n \in 1 .. Input.stics |-> TicAsked(n)])
  <2>1. [i \in 1 .. Input.stics |-> Asked[i]] = [n \in 1 .. Input.stics |-> TicAsked(n)]
    BY DEF Asked
  <2> QED
    BY <1>3, <2>1, Zenon DEF Body, Flat
<1> QED
  BY <1>5, <1>7, <1>8, <1>9, Zenon

\* The header reads as the one asked for, and whole tics are behind it.
LEMMA HeadWritten ==
  ASSUME ConvertInv, WriteEnd, HasPlaces(Wanted(Input))
  PROVE  /\ HeaderReads(made') /\ IsLmp(made', WantedLayout)
<1> DEFINE s == SubSeq(made, 1, wpos)
           ts == TicSize(Input)
<1>1. FileInv /\ ReadInv /\ HeadInv /\ lphase = "end"
  BY DEF ConvertInv, WriteEnd
<1>2. IsRead(Input, lfile.bytes) /\ opt \in Options
  BY <1>1, InputIsRead
<1>3. /\ ~ Impossible(Input) /\ made \in Seq(Byte) /\ wpos \in WantedSize .. Len(made)
      /\ \E c \in Nat : wpos = WantedSize + c * ts
      /\ HeaderReads(made)
  BY <1>1, Zenon DEF HeadInv
<1>4. WantedLayout \in Games /\ WantedSize \in 7 .. 19 /\ WantedSize = HeaderSize(WantedLayout)
  BY <1>2, <1>3, WantedSizeIs
<1>5. /\ made' = s \o LmpEnd /\ s \in Seq(Byte) /\ Len(s) = wpos /\ LmpEnd \in Seq(Byte)
      /\ \E d \in Nat : Len(LmpEnd) = d * ts + 1
  BY <1>2, EndWritten, EndTyped
<1>6. \A i \in 1 .. wpos : s[i] = made[i]
  <2>1. 1 \in Int /\ wpos \in Int /\ \A i \in 1 .. wpos : made[i] \in Byte
    BY <1>3, <1>4
  <2>2. wpos - 1 + 1 = wpos /\ \A i \in 1 .. wpos : 1 + i - 1 = i
    BY <2>1
  <2>3. \A i \in 1 .. wpos - 1 + 1 : s[i] = made[1 + i - 1]
    BY <2>1, SubSeqProperties
  <2> HIDE DEF s
  <2> QED
    BY <2>2, <2>3
<1> HIDE DEF s
<1>7. HeaderReads(s)
  <2>1. SameHeader(made, s, WantedLayout)
    BY <1>3, <1>4, <1>6 DEF SameHeader
  <2> QED
    BY <1>3, <1>4, <2>1, HeaderStaysRead
<1>8. HeaderReads(made') /\ Len(made') = wpos + Len(LmpEnd)
  <2>1. Len(s) >= WantedSize
    BY <1>3, <1>4, <1>5
  <2>2. Len(s \o LmpEnd) = Len(s) + Len(LmpEnd) /\ HeaderReads(s \o LmpEnd)
    BY <1>2, <1>3, <1>5, <1>7, <2>1, MoreWritten
  <2> QED
    BY <1>5, <2>2, Zenon
<1>9. PlayersIn(made', WantedLayout) # {}
  <2>1. [n \in PlayersIn(made', WantedLayout) |-> ClassOf(made', WantedLayout, n)] = Input.players
    BY <1>8, Zenon DEF HeaderReads
  <2>2. PlayersIn(made', WantedLayout) = DOMAIN Input.players
    BY <2>1
  <2>3. DOMAIN Input.players # {}
    <3>1. Cardinality(DOMAIN Input.players) \in 1 .. 8
      BY <1>2 DEF IsRead, PlayerNum
    <3> QED
      BY <3>1, FS_EmptySet
  <2> QED
    BY <2>2, <2>3
<1>10. Fits(made', WantedLayout)
  <2>1. Layouts[WantedLayout].ticsize = ts /\ ts \in {4, 6}
    BY <1>2, <1>3, GameWanted DEF IsRead
  <2>2. PICK c \in Nat : wpos = WantedSize + c * ts
    BY <1>3
  <2>3. PICK d \in Nat : Len(LmpEnd) = d * ts + 1
    BY <1>5
  <2> HIDE DEF ts
  <2>4. (Len(made') - 1 - WantedSize) % ts = 0
    <3>1. CASE ts = 4
      BY <1>4, <1>8, <2>2, <2>3, <3>1
    <3>2. CASE ts = 6
      BY <1>4, <1>8, <2>2, <2>3, <3>2
    <3> QED
      BY <2>1, <3>1, <3>2
  <2> QED
    BY <1>4, <2>1, <2>4, Zenon DEF Fits
<1> QED
  BY <1>8, <1>9, <1>10, Zenon DEF IsLmp

LEMMA WriteEndStep ==
  ASSUME ConvertInv, WriteEnd
  PROVE  ConvertInv'
<1>1. FileInv /\ ReadInv /\ LmpTypeOK /\ lphase = "end"
  BY DEF ConvertInv, WriteEnd
<1>2. lphase' = "done" /\ UNCHANGED <<lfile, opt, li, tics>>
  BY DEF WriteEnd
<1>3. IsRead(Input, lfile.bytes) /\ opt \in Options
  BY <1>1, InputIsRead
<1>4. made' \in Seq(Byte)
  <2>1. /\ made' = SubSeq(made, 1, wpos) \o LmpEnd
        /\ SubSeq(made, 1, wpos) \in Seq(Byte) /\ LmpEnd \in Seq(Byte)
    BY <1>3, EndWritten, EndTyped
  <2> QED
    BY <2>1, ConcatProperties
<1>5. lfile' = lfile /\ opt' = opt /\ li' = li /\ UNCHANGED <<lfile, opt, li>>
      /\ currentpause' = currentpause /\ newpause' = newpause
  BY <1>2 DEF tics
<1>6. /\ Input' = Input /\ o_game(Input)' = o_game(Input) /\ Wanted(Input)' = Wanted(Input)
      /\ NewFile(Input)' = NewFile(Input) /\ WantedSize' = WantedSize
      /\ OneToggle' = OneToggle /\ \A n : TicAsked(n)' = TicAsked(n)
      /\ HasPlaces(Wanted(Input))' = HasPlaces(Wanted(Input))
  BY <1>5, InputStays, TicsStay, HeaderStays, Zenon
<1>7. FileInv' /\ ReadInv'
  BY <1>1, <1>5, FileStays
<1>8. StartInv' /\ HeadInv' /\ PauseInv' /\ TicsInv'
  <2>1. lphase' \notin {"off", "open", "options", "aborted"} /\ lphase' \notin {"tics", "copy", "end"}
        /\ lphase' # "tics" /\ lphase' # "copy" /\ lphase' # "end"
    BY <1>2
  <2> QED
    BY <2>1, Zenon DEF StartInv, HeadInv, PauseInv, TicsInv
<1>9. TicsAsAsked'
  <2>1. ASSUME Distinct
        PROVE  SubSeq(made', HeaderSize(LayoutOf(o_game(Input))) + 1, Len(made'))
                 = FlattenSeq([n \in 1 .. Input.stics |-> TicAsked(n)]) \o LmpEnd
    BY <2>1, TicsWritten, Zenon DEF WantedSize, WantedLayout
  <2>2. LmpEnd' = LmpEnd
    <3>1. WT(Input)' = WT(Input)
      BY <1>5, <1>6, Zenon DEF WT, PlayerNum, TicSize
    <3> QED
      BY <1>5, <1>6, <3>1, Zenon DEF LmpEnd, QuitByte
  <2>3. [n \in 1 .. Input.stics |-> TicAsked(n)]' = [n \in 1 .. Input.stics |-> TicAsked(n)]
    BY <1>6, Zenon
  <2>4. Distinct' = Distinct
    BY <1>5, <1>6, Zenon DEF Distinct
  <2>5. HeaderSize(LayoutOf(o_game(Input)))' = HeaderSize(LayoutOf(o_game(Input)))
    BY <1>6, Zenon
  <2>6. Distinct' =>
           SubSeq(made', HeaderSize(LayoutOf(o_game(Input)))' + 1, Len(made'))
             = FlattenSeq([n \in 1 .. Input.stics |-> TicAsked(n)]') \o LmpEnd'
    BY <2>1, <2>2, <2>3, <2>4, <2>5, Zenon
  <2> QED
    BY <2>6, Zenon DEF TicsAsAsked, Distinct, LmpEnd, Input
<1>10. HeaderAsAsked'
  <2> SUFFICES ASSUME HasPlaces(Wanted(Input))
               PROVE  HeaderAsAsked'
    BY <1>6, Zenon DEF HeaderAsAsked, Input
  <2>1. HeaderReads(made') /\ IsLmp(made', WantedLayout)
    BY HeadWritten
  <2> DEFINE back == LmpIn(made', o_game(Input), WantedLayout)
  <2>2. LMP_readheader(made', o_game(Input)) = <<back>>
    BY <2>1, Zenon DEF LMP_readheader, WantedLayout
  <2>3. /\ back.field = [n \in FieldNames |-> FieldOf(made', WantedLayout, n)]
        /\ back.players = [s \in PlayersIn(made', WantedLayout) |-> ClassOf(made', WantedLayout, s)]
    BY DEF LmpIn
  <2>4. Wanted(Input).players = Input.players
    BY <1>3, WantedIs
  <2>5. back.field = Kept(Wanted(Input)) /\ back.players = Wanted(Input).players
    BY <2>1, <2>3, <2>4, Zenon DEF HeaderReads
  <2>6. <<back>> # <<>> /\ <<back>>[1] = back
    OBVIOUS
  <2> HIDE DEF back
  <2>7. \E l \in {Wanted(Input)}, b \in {LMP_readheader(made', o_game(Input))} :
          b # <<>> /\ b[1].players = l.players /\ b[1].field = Kept(l)
    BY <2>2, <2>5, <2>6, Zenon
  <2>8. \E l \in {Wanted(Input)'}, b \in {LMP_readheader(made', o_game(Input)')} :
          b # <<>> /\ b[1].players = l.players /\ b[1].field = Kept(l)
    BY <1>6, <2>7, Zenon
  <2> QED
    BY <2>8, Zenon DEF HeaderAsAsked, Input
<1>11. DoneInv'
  BY <1>4, <1>9, <1>10, Zenon DEF DoneInv
<1>12. LmpTypeOK'
  <2>1. currentpause' \in BOOLEAN /\ newpause' \in BOOLEAN
    BY <1>1, <1>5, Zenon DEF LmpTypeOK
  <2>2. \A b \in Range(made') : b \in Byte
    BY <1>4, BytesOnly
  <2>3. lphase' \in {"off", "open", "options", "tics", "copy", "end", "done", "aborted"}
        /\ lphase' \notin {"tics", "copy", "end"}
    BY <1>2
  <2> QED
    BY <2>1, <2>2, <2>3, Zenon DEF LmpTypeOK
<1> QED
  BY <1>7, <1>8, <1>11, <1>12, Zenon DEF ConvertInv

-----------------------------------------------------------------------------
(* The invariant is one. *)

LEMMA InitConvert == Init => ConvertInv
<1> SUFFICES ASSUME Init PROVE ConvertInv
  OBVIOUS
<1>1. /\ \/ \E c \in Conversions : lfile = c.lfile /\ opt = c.opt /\ lphase = "open"
         \/ lphase = "off"
      /\ made = <<>> /\ stic = 1 /\ p = 0 /\ currentpause = FALSE /\ newpause = FALSE
  BY Zenon DEF Init, LmpIdle, LmpInit
<1>2. lphase \in {"off", "open"}
  BY <1>1
<1>3. FileInv
  <2>1. CASE lphase = "off"
    BY <2>1, Zenon DEF FileInv
  <2>2. CASE lphase # "off"
    BY <1>1, <2>2, Zenon DEF FileInv
  <2> QED
    BY <2>1, <2>2
<1>4. StartInv
  BY <1>1, Zenon DEF StartInv
<1>5. ReadInv /\ HeadInv /\ PauseInv /\ TicsInv /\ DoneInv
  <2>1. /\ lphase \notin {"options", "tics", "copy", "end", "done"} /\ lphase \notin {"tics", "copy", "end"}
        /\ lphase # "tics" /\ lphase # "copy" /\ lphase # "end" /\ lphase # "done"
    BY <1>2
  <2> QED
    BY <2>1, Zenon DEF ReadInv, HeadInv, PauseInv, TicsInv, DoneInv, LmpDone, TicsAsAsked, HeaderAsAsked
<1>6. LmpTypeOK
  <2>1. Range(made) = {}
    BY <1>1 DEF Range
  <2> QED
    BY <1>1, <1>2, <2>1 DEF LmpTypeOK
<1> QED
  BY <1>3, <1>4, <1>5, <1>6, Zenon DEF ConvertInv

\* Steps that do nothing to an LMP file.
LEMMA OtherSteps ==
  ASSUME ConvertInv, UNCHANGED lvars
  PROVE  ConvertInv'
<1>1. /\ lfile' = lfile /\ opt' = opt /\ lphase' = lphase /\ li' = li /\ made' = made /\ wpos' = wpos
      /\ stic' = stic /\ p' = p /\ currentpause' = currentpause /\ newpause' = newpause
      /\ UNCHANGED <<lfile, opt, li>>
  BY DEF lvars, tics
<1>2. /\ Input' = Input /\ Impossible(Input)' = Impossible(Input) /\ o_game(Input)' = o_game(Input)
      /\ Wanted(Input)' = Wanted(Input) /\ NewTics' = NewTics /\ NewFile(Input)' = NewFile(Input)
      /\ WantedSize' = WantedSize
      /\ OneToggle' = OneToggle /\ Distinct' = Distinct /\ Asked' = Asked
      /\ \A n : TicAsked(n)' = TicAsked(n)
      /\ \A n : Pressed(n)' = Pressed(n)
      /\ HasPlaces(Wanted(Input))' = HasPlaces(Wanted(Input))
      /\ \A b : HeaderReads(b)' = HeaderReads(b)
  BY <1>1, InputStays, TicsStay, HeaderStays, Zenon
<1>3. PlayerNum(li[1])' = PlayerNum(li[1]) /\ TicSize(Input)' = TicSize(Input)
      /\ PlayerNum(Input)' = PlayerNum(Input) /\ WT(Input)' = WT(Input)
  BY <1>1, <1>2, Zenon DEF PlayerNum, TicSize, WT
<1>4. FileInv /\ ReadInv /\ StartInv /\ HeadInv /\ PauseInv /\ TicsInv /\ DoneInv /\ LmpTypeOK
  BY Zenon DEF ConvertInv
<1>5. FileInv' /\ ReadInv' /\ StartInv'
  BY <1>1, <1>4, Zenon DEF FileInv, ReadInv, StartInv
<1>6. HeadInv'
  BY <1>1, <1>2, <1>3, <1>4, Zenon DEF HeadInv
<1>7. PauseInv'
  BY <1>1, <1>2, <1>3, <1>4, Zenon DEF PauseInv, IsOdd, Pressed
<1>8. TicsInv'
  BY <1>1, <1>2, <1>4, Zenon DEF TicsInv, Body, Flat
<1>9. DoneInv'
  <2>1. TicsAsAsked'
    BY <1>1, <1>2, <1>3, <1>4, Zenon DEF DoneInv, TicsAsAsked, LmpDone, Input
  <2>2. HeaderAsAsked'
    BY <1>1, <1>2, <1>4, Zenon DEF DoneInv, HeaderAsAsked, LmpDone, Input
  <2> QED
    BY <1>1, <1>4, <2>1, <2>2, Zenon DEF DoneInv, LmpDone
<1>10. LmpTypeOK'
  BY <1>1, <1>3, <1>4, Zenon DEF LmpTypeOK
<1> QED
  BY <1>5, <1>6, <1>7, <1>8, <1>9, <1>10, Zenon DEF ConvertInv

LEMMA NextConvert == ConvertInv /\ [Next]_mvars => ConvertInv'
<1> SUFFICES ASSUME ConvertInv, [Next]_mvars PROVE ConvertInv'
  OBVIOUS
<1>1. CASE ReadHeader
  BY <1>1, ReadHeaderStep
<1>2. CASE Refuse
  BY <1>2, RefuseStep
<1>3. CASE WriteHeader
  <2>1. CASE NewFile(Input)
    BY <1>3, <2>1, NewHeaderStep
  <2>2. CASE ~ NewFile(Input)
    BY <1>3, <2>2, OldHeaderStep
  <2> QED
    BY <2>1, <2>2
<1>4. CASE CopyTic
  BY <1>4, CopyTicStep
<1>5. CASE EndOfTics
  BY <1>5, EndOfTicsStep
<1>6. CASE CopyTics
  BY <1>6, CopyTicsStep
<1>7. CASE WriteEnd
  BY <1>7, WriteEndStep
<1>8. CASE acInplace
  <2>1. UNCHANGED lvars
    BY <1>8, Zenon DEF acInplace
  <2> QED
    BY <2>1, OtherSteps
<1>9. CASE UNCHANGED mvars
  <2>1. UNCHANGED lvars
    BY <1>9 DEF mvars
  <2> QED
    BY <2>1, OtherSteps
<1> QED
  BY <1>1, <1>2, <1>3, <1>4, <1>5, <1>6, <1>7, <1>8, <1>9, Zenon
     DEF Next, acConvert, ActionConvert, Ended

\* Whatever is asked for of whatever file, the invariant holds at every step.
THEOREM ConvertInvariant == Spec => []ConvertInv
<1>1. Init => ConvertInv
  BY InitConvert
<1>2. ConvertInv /\ [Next]_mvars => ConvertInv'
  BY NextConvert
<1> QED
  BY <1>1, <1>2, PTL DEF Spec

\* Every variable of ActionConvert has its type, and the place in the output is at its
\* end or on its last byte.
THEOREM ConvertTypeCorrect == Spec => []LmpTypeOK
<1>1. ConvertInv => LmpTypeOK
  BY Zenon DEF ConvertInv
<1> QED
  BY <1>1, ConvertInvariant, PTL

\* The tics of the output are those asked for: none of a pause if -r is given, no game
\* saved if -c is, the seconds of -w at the end, and all else as it was.
THEOREM TicsAlwaysAsAsked == Spec => []TicsAsAsked
<1>1. ConvertInv => TicsAsAsked
  BY Zenon DEF ConvertInv, DoneInv
<1> QED
  BY <1>1, ConvertInvariant, PTL

\* The output reads as an LMP of the game, the version and the view asked for, with the
\* players and the other fields of the input.
THEOREM HeaderAlwaysAsAsked == Spec => []HeaderAsAsked
<1>1. ConvertInv => HeaderAsAsked
  BY Zenon DEF ConvertInv, DoneInv
<1> QED
  BY <1>1, ConvertInvariant, PTL
=============================================================================
