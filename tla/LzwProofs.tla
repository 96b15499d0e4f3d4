------------------------------ MODULE LzwProofs ------------------------------
(***************************************************************************)
(* Theorems about Lzw for every width of symbols, bytes and codes.         *)
(***************************************************************************)
EXTENDS Lzw, Powers, SequenceTheorems

LEMMA ConstantFacts ==
  /\ SymBits \in Nat /\ SymBits > 0 /\ StartBits \in Nat /\ StartBits = SymBits + 1
  /\ ByteBits \in Nat /\ ByteBits > 0 /\ ByteBits <= StartBits
  /\ MaxBits \in Nat /\ StartBits <= MaxBits
  /\ BufBits \in Nat /\ BufBits > MaxBits + ByteBits
  /\ First \in Nat /\ First > 0 /\ First = 2^SymBits /\ First < 2^StartBits
  /\ Symbol = 0 .. First - 1
  /\ TableSize \in Nat /\ TableSize = 2^MaxBits /\ First < TableSize
  /\ 2^ByteBits \in Nat /\ 2^ByteBits > 0 /\ Byte = 0 .. 2^ByteBits - 1
<1>1. /\ SymBits \in Nat /\ SymBits > 0 /\ StartBits \in Nat /\ StartBits = SymBits + 1
      /\ ByteBits \in Nat /\ ByteBits > 0 /\ ByteBits <= StartBits
      /\ MaxBits \in Nat /\ StartBits <= MaxBits
      /\ BufBits \in Nat /\ BufBits > MaxBits + ByteBits
  BY BitsAssumption DEF StartBits
<1>2. First = 2^SymBits /\ TableSize = 2^MaxBits
  BY DEF First, TableSize
<1>3. First \in Nat /\ First > 0 /\ 2^StartBits = 2 * First
  BY <1>1, <1>2, PowerPositive, PowerNext
<1>4. TableSize \in Nat /\ 2^StartBits <= TableSize
  BY <1>1, <1>2, PowerPositive, PowerMonotone
<1>5. 2^ByteBits \in Nat /\ 2^ByteBits > 0
  BY <1>1, PowerPositive
<1>6. Symbol = 0 .. First - 1 /\ Byte = 0 .. 2^ByteBits - 1
  BY DEF Symbol, First, Byte
<1>7. First < 2^StartBits /\ First < TableSize
  BY <1>3, <1>4
<1> QED
  BY <1>1, <1>2, <1>3, <1>4, <1>5, <1>6, <1>7

-----------------------------------------------------------------------------
(* What the codes of a table stand for, on either side: code First + k - 1 *)
(* stands for the string of codes[k] followed by syms[k].                  *)

IsStrings(g, n, codes, syms) ==
  /\ DOMAIN g = 0 .. First + n - 1
  /\ \A c \in 0 .. First - 1 : g[c] = <<c>>
  /\ \A k \in 1 .. n : g[First + k - 1] = Append(g[codes[k]], syms[k])

\* The same as one function, in the form of the definitions of Lzw.
IsTable(g, n, codes, syms) ==
  g = [c \in 0 .. First + n - 1 |->
         IF c < First THEN <<c>>
         ELSE Append(g[codes[c - First + 1]], syms[c - First + 1])]

\* Every entry of a table names a code before it.
Earlier(n, codes) == \A k \in 1 .. n : codes[k] \in 0 .. First + k - 2

LEMMA TableIsStrings ==
  ASSUME NEW g, NEW n \in Nat, NEW codes, NEW syms, IsTable(g, n, codes, syms)
  PROVE  IsStrings(g, n, codes, syms)
<1> USE ConstantFacts
<1> DEFINE body(c) == IF c < First THEN <<c>>
                      ELSE Append(g[codes[c - First + 1]], syms[c - First + 1])
<1>1. g = [c \in 0 .. First + n - 1 |-> body(c)]
  BY DEF IsTable
<1>2. DOMAIN g = 0 .. First + n - 1 /\ \A c \in 0 .. First + n - 1 : g[c] = body(c)
  <2> HIDE DEF body
  <2> QED
    BY <1>1
<1>3. ASSUME NEW c \in 0 .. First - 1 PROVE g[c] = <<c>>
  BY <1>2
<1>4. ASSUME NEW k \in 1 .. n PROVE g[First + k - 1] = Append(g[codes[k]], syms[k])
  <2>1. /\ First + k - 1 \in 0 .. First + n - 1 /\ ~(First + k - 1 < First)
        /\ (First + k - 1) - First + 1 = k
    OBVIOUS
  <2> QED
    BY <1>2, <2>1
<1> HIDE DEF body
<1> QED
  BY <1>2, <1>3, <1>4 DEF IsStrings

LEMMA TableExists ==
  ASSUME NEW codes, NEW syms, NEW n \in Nat, Earlier(n, codes)
  PROVE  \E g : IsTable(g, n, codes, syms)
<1> USE ConstantFacts
<1> DEFINE Without == {m \in 0 .. n : ~ \E g : IsTable(g, m, codes, syms)}
<1> SUFFICES ASSUME n \in Without PROVE FALSE
  OBVIOUS
<1>1. PICK m \in Without : \A k \in 0 .. m - 1 : k \notin Without
  <2>1. Without \in SUBSET Nat
    OBVIOUS
  <2> HIDE DEF Without
  <2> QED
    BY <2>1, LeastNumber
<1>2. CASE m = 0
  <2> DEFINE g == [c \in 0 .. First + 0 - 1 |-> <<c>>]
  <2>1. IsTable(g, 0, codes, syms)
    BY DEF IsTable
  <2> QED
    BY <1>2, <2>1
<1>3. CASE m # 0
  <2>1. m - 1 \in 0 .. m - 1 /\ m - 1 \in 0 .. n /\ m \in 1 .. n /\ m - 1 \in Nat
    BY <1>3
  <2>2. PICK g : IsTable(g, m - 1, codes, syms)
    BY <1>1, <2>1
  <2>3. /\ DOMAIN g = 0 .. First + (m - 1) - 1
        /\ \A c \in 0 .. First - 1 : g[c] = <<c>>
        /\ \A k \in 1 .. m - 1 : g[First + k - 1] = Append(g[codes[k]], syms[k])
    <3>1. IsStrings(g, m - 1, codes, syms)
      BY <2>1, <2>2, TableIsStrings
    <3> QED
      BY <3>1 DEF IsStrings
  <2> DEFINE h == [c \in 0 .. First + m - 1 |->
                     IF c < First THEN <<c>>
                     ELSE Append(g[codes[c - First + 1]], syms[c - First + 1])]
  <2>4. ASSUME NEW c \in 0 .. First + (m - 1) - 1 PROVE h[c] = g[c]
    <3>1. CASE c < First
      BY <2>3, <3>1
    <3>2. CASE ~(c < First)
      <4>1. c - First + 1 \in 1 .. m - 1 /\ First + (c - First + 1) - 1 = c
        BY <3>2
      <4> QED
        BY <2>3, <3>2, <4>1
    <3> QED
      BY <3>1, <3>2
  <2>5. ASSUME NEW c \in 0 .. First + m - 1, ~(c < First)
        PROVE  g[codes[c - First + 1]] = h[codes[c - First + 1]]
    <3>1. c - First + 1 \in 1 .. m /\ c - First + 1 \in 1 .. n
      BY <2>5
    <3>2. codes[c - First + 1] \in 0 .. First + (m - 1) - 1
      BY <3>1 DEF Earlier
    <3> QED
      BY <2>4, <3>2
  <2>6. IsTable(h, m, codes, syms)
    <3>1. h = [c \in 0 .. First + m - 1 |->
                 IF c < First THEN <<c>>
                 ELSE Append(h[codes[c - First + 1]], syms[c - First + 1])]
      <4> HIDE DEF h
      <4>1. h = [c \in 0 .. First + m - 1 |->
                     IF c < First THEN <<c>>
                     ELSE Append(g[codes[c - First + 1]], syms[c - First + 1])]
        BY DEF h
      <4> QED
        BY <2>5, <4>1
    <3> HIDE DEF h
    <3> QED
      BY <3>1 DEF IsTable
  <2> QED
    BY <2>6
<1> QED
  BY <1>2, <1>3

\* Two tables with the same beginning agree on its codes.
LEMMA StringsAgree ==
  ASSUME NEW n \in Nat, NEW m \in 0 .. n,
         NEW g, NEW codes, NEW syms, IsStrings(g, n, codes, syms),
         NEW h, NEW codes2, NEW syms2, IsStrings(h, m, codes2, syms2),
         Earlier(m, codes2),
         \A k \in 1 .. m : codes[k] = codes2[k] /\ syms[k] = syms2[k]
  PROVE  \A c \in 0 .. First + m - 1 : g[c] = h[c]
<1> USE ConstantFacts
<1> DEFINE Differ == {c \in 0 .. First + m - 1 : g[c] # h[c]}
<1> SUFFICES ASSUME Differ # {} PROVE FALSE
  OBVIOUS
<1>1. PICK c \in Differ : \A d \in 0 .. c - 1 : d \notin Differ
  <2>1. Differ \in SUBSET Nat
    OBVIOUS
  <2> HIDE DEF Differ
  <2> QED
    BY <2>1, LeastNumber
<1>r. /\ \A b \in 0 .. First - 1 : g[b] = <<b>> /\ h[b] = <<b>>
      /\ \A i \in 1 .. n : g[First + i - 1] = Append(g[codes[i]], syms[i])
      /\ \A i \in 1 .. m : h[First + i - 1] = Append(h[codes2[i]], syms2[i])
  BY DEF IsStrings
<1>2. c >= First
  <2>1. CASE c < First
    <3>1. c \in 0 .. First - 1 /\ g[c] # h[c]
      BY <2>1
    <3> QED
      BY <1>r, <3>1, Zenon
  <2> QED
    BY <2>1
<1> DEFINE k == c - First + 1
<1>3. k \in 1 .. m /\ k \in 1 .. n /\ c = First + k - 1
  BY <1>2
<1>4. codes2[k] \in 0 .. c - 1 /\ codes2[k] \in 0 .. First + m - 1
  BY <1>3 DEF Earlier
<1>5. g[codes2[k]] = h[codes2[k]]
  BY <1>1, <1>4
<1> HIDE DEF k
<1>6. g[c] = Append(g[codes[k]], syms[k]) /\ h[c] = Append(h[codes2[k]], syms2[k])
  BY <1>r, <1>3, Zenon
<1> QED
  BY <1>3, <1>5, <1>6

\* A code stands for one symbol at least.
LEMMA StringsType ==
  ASSUME NEW n \in Nat, NEW g, NEW codes, NEW syms, IsStrings(g, n, codes, syms),
         Earlier(n, codes), \A k \in 1 .. n : syms[k] \in Symbol
  PROVE  \A c \in 0 .. First + n - 1 : g[c] \in Seq(Symbol) /\ Len(g[c]) > 0
<1> USE ConstantFacts
<1> DEFINE Wrong == {c \in 0 .. First + n - 1 : ~(g[c] \in Seq(Symbol) /\ Len(g[c]) > 0)}
<1> SUFFICES ASSUME Wrong # {} PROVE FALSE
  OBVIOUS
<1>1. PICK c \in Wrong : \A d \in 0 .. c - 1 : d \notin Wrong
  <2>1. Wrong \in SUBSET Nat
    OBVIOUS
  <2> HIDE DEF Wrong
  <2> QED
    BY <2>1, LeastNumber
<1>r. /\ \A b \in 0 .. First - 1 : g[b] = <<b>>
      /\ \A i \in 1 .. n : g[First + i - 1] = Append(g[codes[i]], syms[i])
  BY DEF IsStrings
<1>2. CASE c < First
  <2>1. c \in Symbol /\ g[c] = <<c>>
    BY <1>r, <1>2
  <2>2. \A x \in Symbol : <<x>> \in Seq(Symbol) /\ Len(<<x>>) > 0
    OBVIOUS
  <2> QED
    BY <2>1, <2>2, Zenon
<1>3. CASE c >= First
  <2> DEFINE k == c - First + 1
  <2>1. k \in 1 .. n /\ c = First + k - 1
    BY <1>3
  <2>2. codes[k] \in 0 .. c - 1 /\ codes[k] \in 0 .. First + n - 1
    BY <2>1 DEF Earlier
  <2>3. g[codes[k]] \in Seq(Symbol) /\ syms[k] \in Symbol
    BY <1>1, <2>1, <2>2
  <2> HIDE DEF k
  <2>4. g[c] = Append(g[codes[k]], syms[k])
    BY <1>r, <2>1, Zenon
  <2>5. \A s \in Seq(Symbol), x \in Symbol :
          Append(s, x) \in Seq(Symbol) /\ Len(Append(s, x)) > 0
    OBVIOUS
  <2> QED
    BY <2>3, <2>4, <2>5, Zenon
<1> QED
  BY <1>2, <1>3

LEMMA ExpandIsStrings ==
  ASSUME NEW pred, Len(pred) \in Nat, NEW suff, Earlier(Len(pred), pred)
  PROVE  IsStrings(Expand(pred, suff), Len(pred), pred, suff)
<1> DEFINE table(h) == h = [c \in 0 .. DecFree(pred) - 1 |->
                IF c < First THEN <<c>>
                ELSE Append(h[pred[c - First + 1]], suff[c - First + 1])]
           g == CHOOSE h : table(h)
<1>1. ASSUME NEW h PROVE IsTable(h, Len(pred), pred, suff) <=> table(h)
  <2>1. 0 .. DecFree(pred) - 1 = 0 .. First + Len(pred) - 1
    BY ConstantFacts DEF DecFree
  <2> QED
    BY <2>1, Zenon DEF IsTable
<1>2. Expand(pred, suff) = g
  BY DEF Expand
<1>3. \E h : IsTable(h, Len(pred), pred, suff)
  BY TableExists
<1> HIDE DEF table
<1>4. table(g)
  BY <1>1, <1>3, Zenon
<1>5. IsTable(g, Len(pred), pred, suff)
  BY <1>1, <1>4, Zenon
<1> HIDE DEF g
<1> QED
  BY <1>2, <1>5, TableIsStrings

LEMMA PhraseIsStrings ==
  ASSUME NEW dict, Len(dict) \in Nat, NEW codes, NEW syms,
         \A k \in 1 .. Len(dict) : codes[k] = dict[k][1] /\ syms[k] = dict[k][2],
         Earlier(Len(dict), codes)
  PROVE  IsStrings(Phrase(dict), Len(dict), codes, syms)
<1> DEFINE table(h) == h = [c \in 0 .. EncFree(dict) - 1 |->
                IF c < First THEN <<c>>
                ELSE Append(h[dict[c - First + 1][1]], dict[c - First + 1][2])]
           g == CHOOSE h : table(h)
<1>1. ASSUME NEW h PROVE IsTable(h, Len(dict), codes, syms) <=> table(h)
  <2>1. ASSUME NEW c \in 0 .. First + Len(dict) - 1, ~(c < First)
        PROVE  /\ codes[c - First + 1] = dict[c - First + 1][1]
               /\ syms[c - First + 1] = dict[c - First + 1][2]
    <3>1. c - First + 1 \in 1 .. Len(dict)
      BY <2>1, ConstantFacts
    <3> QED
      BY <3>1
  <2> DEFINE byDict(c) == IF c < First THEN <<c>>
                 ELSE Append(h[dict[c - First + 1][1]], dict[c - First + 1][2])
             byCodes(c) == IF c < First THEN <<c>>
                 ELSE Append(h[codes[c - First + 1]], syms[c - First + 1])
  <2>2. ASSUME NEW c \in 0 .. First + Len(dict) - 1 PROVE byDict(c) = byCodes(c)
    BY <2>1
  <2>3. 0 .. EncFree(dict) - 1 = 0 .. First + Len(dict) - 1
    BY ConstantFacts DEF EncFree
  <2>4. /\ IsTable(h, Len(dict), codes, syms)
             <=> h = [c \in 0 .. First + Len(dict) - 1 |-> byCodes(c)]
        /\ table(h) <=> h = [c \in 0 .. First + Len(dict) - 1 |-> byDict(c)]
    BY <2>3, Zenon DEF IsTable
  <2> HIDE DEF byDict, byCodes, table
  <2>5. [c \in 0 .. First + Len(dict) - 1 |-> byCodes(c)]
          = [c \in 0 .. First + Len(dict) - 1 |-> byDict(c)]
    BY <2>2
  <2> QED
    BY <2>4, <2>5, Zenon
<1>2. Phrase(dict) = g
  BY DEF Phrase
<1>3. \E h : IsTable(h, Len(dict), codes, syms)
  BY TableExists
<1> HIDE DEF table
<1>4. table(g)
  BY <1>1, <1>3, Zenon
<1>5. IsTable(g, Len(dict), codes, syms)
  BY <1>1, <1>4, Zenon
<1> HIDE DEF g
<1> QED
  BY <1>2, <1>5, TableIsStrings

-----------------------------------------------------------------------------
(* putcode. *)

StaticsOK ==
  /\ n_bits \in StartBits .. MaxBits
  /\ bits \in Nat /\ buf \in Nat /\ buf < 2^bits /\ buf < 2^BufBits

LEMMA LowBytesType ==
  ASSUME NEW v \in Nat, NEW n \in Nat
  PROVE  LowBytes(v, n) \in Seq(Byte) /\ Len(LowBytes(v, n)) = n
<1>1. ASSUME NEW k \in 1 .. n PROVE (v \div 2^(ByteBits * (k - 1))) % 2^ByteBits \in Byte
  <2>1. ByteBits * (k - 1) \in Nat
    BY ConstantFacts
  <2>2. 2^(ByteBits * (k - 1)) \in Nat /\ 2^(ByteBits * (k - 1)) > 0
    BY <2>1, PowerPositive
  <2>3. v \div 2^(ByteBits * (k - 1)) \in Nat
    BY <2>2, DivModOf
  <2>4. 2^ByteBits \in Nat /\ 2^ByteBits > 0 /\ Byte = 0 .. 2^ByteBits - 1
    BY ConstantFacts
  <2> DEFINE w == v \div 2^(ByteBits * (k - 1))
  <2> HIDE DEF w
  <2>5. w % 2^ByteBits \in Byte
    <3>1. w \in Nat
      BY <2>3 DEF w
    <3> QED
      BY <2>4, <3>1, DivModOf
  <2> QED
    BY <2>5 DEF w
<1>2. LowBytes(v, n) \in [1 .. n -> Byte]
  BY <1>1 DEF LowBytes
<1> QED
  BY <1>2

\* What putcode leaves behind, whether it succeeds or not.
PutCodeOK(e, p) ==
  /\ p.ok \in BOOLEAN
  /\ p.n_bits \in StartBits .. MaxBits
  /\ p.bits \in Nat /\ p.buf \in Nat /\ p.buf < 2^p.bits /\ p.buf < 2^BufBits
  /\ p.out \in Seq(Byte) /\ Len(p.out) <= e.o_buf_size
  /\ p.ok => p.bits < ByteBits /\ EncFree(e.dict) < 2^p.n_bits

LEMMA WidenedFits ==
  ASSUME NEW free \in Nat, free < TableSize, free <= 2^n_bits, StaticsOK
  PROVE  /\ Widened(free) \in StartBits .. MaxBits /\ free < 2^Widened(free)
         /\ n_bits <= Widened(free)
<1>1. n_bits \in Nat /\ StartBits <= n_bits /\ n_bits <= MaxBits
  BY ConstantFacts DEF StaticsOK
<1>2. 2^n_bits \in Nat /\ 2^n_bits > 0 /\ 2^(n_bits + 1) = 2 * 2^n_bits
  BY <1>1, PowerPositive, PowerNext
<1>3. CASE free >= 2^n_bits
  <2>1. Widened(free) = n_bits + 1
    BY <1>3 DEF Widened
  <2>2. free < 2^(n_bits + 1)
    BY <1>2, <1>3
  <2>3. n_bits < MaxBits
    <3>1. 2^n_bits < 2^MaxBits
      BY <1>2, <1>3, ConstantFacts
    <3> QED
      BY <1>1, <3>1, PowerStrict, ConstantFacts
  <2> QED
    BY <1>1, <2>1, <2>2, <2>3, ConstantFacts
<1>4. CASE ~(free >= 2^n_bits)
  <2>1. Widened(free) = n_bits
    BY <1>4 DEF Widened
  <2> QED
    BY <1>1, <1>2, <1>4, <2>1, ConstantFacts
<1> QED
  BY <1>3, <1>4

\* The buffer with a code above its bits.
LEMMA CodeAbove ==
  ASSUME NEW a \in Nat, NEW w \in Nat, NEW x \in Nat, x < 2^a, NEW code \in Nat,
         code < 2^w
  PROVE  x + code * 2^a \in Nat /\ x + code * 2^a < 2^(a + w)
<1>1. 2^a \in Nat /\ 2^w \in Nat /\ 2^(a + w) = 2^a * 2^w
  BY PowerPositive, PowerOfSum
<1>2. (code + 1) * 2^a <= 2^w * 2^a
  BY <1>1
<1>3. (code + 1) * 2^a = code * 2^a + 2^a /\ 2^w * 2^a = 2^a * 2^w /\ code * 2^a \in Nat
  BY <1>1
<1> QED
  BY <1>1, <1>2, <1>3

\* Bytes that are taken from below leave the other bits.
LEMMA BitsLeft ==
  ASSUME NEW v \in Nat, NEW a \in Nat, NEW b \in Nat, v < 2^a, b <= a
  PROVE  v \div 2^b \in Nat /\ v \div 2^b < 2^(a - b) /\ v \div 2^b <= v
<1>1. 2^b \in Nat /\ 2^b > 0 /\ 2^(a - b) \in Nat /\ a - b \in Nat
  BY PowerPositive
<1>2. 2^((a - b) + b) = 2^(a - b) * 2^b /\ (a - b) + b = a
  BY <1>1, PowerOfSum
<1>3. v < 2^(a - b) * 2^b
  BY <1>2
<1> QED
  BY <1>1, <1>3, DivLess, DivModOf

\* putcode with the names its definition gives to what it computes.
LEMMA PutCodeFacts ==
  ASSUME NEW e, NEW code \in Nat,
         e.out \in Seq(Byte), e.o_buf_size \in Nat, Len(e.out) <= e.o_buf_size,
         EncFree(e.dict) \in Nat, EncFree(e.dict) < TableSize,
         EncFree(e.dict) <= 2^n_bits, code < EncFree(e.dict), StaticsOK
  PROVE  PutCodeOK(e, PutCode(e, code))
<1> DEFINE free == EncFree(e.dict)
           room == e.o_buf_size - Len(e.out)
           wide == Widened(free)
           sum  == buf + code * 2^bits
           v    == sum % 2^BufBits
           n    == (bits + wide) \div ByteBits
           fit  == IF n <= room THEN n ELSE room
           p    == PutCode(e, code)
<1>1. wide \in StartBits .. MaxBits /\ free < 2^wide
  BY WidenedFits
<1>2. wide \in Nat /\ bits \in Nat /\ buf \in Nat /\ buf < 2^bits /\ buf < 2^BufBits
      /\ bits + wide \in Nat /\ n_bits \in StartBits .. MaxBits
  BY <1>1, ConstantFacts DEF StaticsOK
<1>3. code < 2^wide
  <2>1. 2^wide \in Nat
    BY <1>2, PowerPositive
  <2> QED
    BY <1>1, <2>1
<1>4. sum \in Nat /\ sum < 2^(bits + wide)
  <2> HIDE DEF wide
  <2> QED
    BY <1>2, <1>3, CodeAbove
<1>5. v \in Nat /\ v < 2^BufBits /\ v < 2^(bits + wide)
  <2> HIDE DEF sum
  <2>1. 2^BufBits \in Nat /\ 2^BufBits > 0 /\ 2^(bits + wide) \in Nat
    BY <1>2, PowerPositive, ConstantFacts
  <2>2. v \in Nat /\ v < 2^BufBits /\ v <= sum
    BY <1>4, <2>1, DivModOf
  <2> QED
    BY <1>4, <2>1, <2>2
<1> HIDE DEF sum, v, wide
<1>6. n \in Nat /\ ByteBits * n <= bits + wide /\ bits + wide < ByteBits * n + ByteBits
  <2>1. ByteBits \in Nat /\ ByteBits > 0
    BY ConstantFacts
  <2>2. /\ n \in Nat /\ (bits + wide) % ByteBits \in Nat
        /\ (bits + wide) % ByteBits < ByteBits
        /\ bits + wide = n * ByteBits + ((bits + wide) % ByteBits)
    BY <1>2, <2>1, DivModOf
  <2>3. n * ByteBits = ByteBits * n
    BY <2>1, <2>2
  <2> HIDE DEF n
  <2> QED
    BY <1>2, <2>1, <2>2, <2>3
<1> HIDE DEF n
<1>7. room \in Nat
  BY DEF room
<1> HIDE DEF room
<1>8. fit \in Nat /\ fit <= n /\ fit <= room /\ (n <= room => fit = n)
  BY <1>6, <1>7
<1> HIDE DEF fit
<1>9. ByteBits * fit \in Nat /\ ByteBits * fit <= bits + wide
  <2>1. ByteBits \in Nat
    BY ConstantFacts
  <2>2. ByteBits * fit <= ByteBits * n /\ ByteBits * fit \in Nat /\ ByteBits * n \in Nat
    BY <1>6, <1>8, <2>1
  <2> QED
    BY <1>2, <1>6, <2>2
<1>10. /\ v \div 2^(ByteBits * fit) \in Nat
       /\ v \div 2^(ByteBits * fit) < 2^((bits + wide) - ByteBits * fit)
       /\ v \div 2^(ByteBits * fit) < 2^BufBits
  <2>1. /\ v \div 2^(ByteBits * fit) \in Nat
        /\ v \div 2^(ByteBits * fit) < 2^((bits + wide) - ByteBits * fit)
        /\ v \div 2^(ByteBits * fit) <= v
    BY <1>2, <1>5, <1>9, BitsLeft
  <2>2. 2^BufBits \in Nat
    BY PowerPositive, ConstantFacts
  <2> QED
    BY <1>5, <2>1, <2>2
<1>11. LowBytes(v, fit) \in Seq(Byte) /\ Len(LowBytes(v, fit)) = fit
  BY <1>5, <1>8, LowBytesType
<1>12. p = IF Full(e)
           THEN [ok |-> FALSE, n_bits |-> n_bits, bits |-> bits, buf |-> buf,
                 out |-> e.out]
           ELSE IF wide > MaxBits
           THEN [ok |-> FALSE, n_bits |-> wide, bits |-> bits, buf |-> buf,
                 out |-> e.out]
           ELSE [ok |-> n <= room /\ code <= free, n_bits |-> wide,
                 bits |-> bits + wide - ByteBits * fit,
                 buf |-> v \div 2^(ByteBits * fit),
                 out |-> e.out \o LowBytes(v, fit)]
  BY Zenon DEF PutCode, v, wide, n, fit, room, sum
<1> HIDE DEF p
<1>13. ASSUME Full(e) PROVE PutCodeOK(e, p)
  <2>1. /\ p.ok = FALSE /\ p.n_bits = n_bits /\ p.bits = bits /\ p.buf = buf
        /\ p.out = e.out
    BY <1>12, <1>13
  <2> QED
    BY <1>2, <2>1 DEF PutCodeOK
<1>14. ASSUME ~Full(e) PROVE PutCodeOK(e, p)
  <2>1. ~(wide > MaxBits)
    BY <1>1, ConstantFacts
  <2>2. /\ p.ok = (n <= room /\ code <= free) /\ p.n_bits = wide
        /\ p.bits = bits + wide - ByteBits * fit
        /\ p.buf = v \div 2^(ByteBits * fit)
        /\ p.out = e.out \o LowBytes(v, fit)
    BY <1>12, <1>14, <2>1
  <2>3. p.out \in Seq(Byte) /\ Len(p.out) = Len(e.out) + fit
    <3> DEFINE low == LowBytes(v, fit)
    <3>1. low \in Seq(Byte) /\ Len(low) = fit /\ p.out = e.out \o low
      BY <1>11, <2>2
    <3> HIDE DEF low
    <3>2. \A s, t \in Seq(Byte) : s \o t \in Seq(Byte) /\ Len(s \o t) = Len(s) + Len(t)
      OBVIOUS
    <3> QED
      BY <3>1, <3>2, Zenon
  <2>4. Len(p.out) <= e.o_buf_size
    BY <1>7, <1>8, <2>3 DEF room
  <2>5. p.bits \in Nat
    BY <1>2, <1>9, <2>2
  <2>6. p.buf \in Nat /\ p.buf < 2^p.bits /\ p.buf < 2^BufBits
    <3>1. bits + wide - ByteBits * fit = (bits + wide) - ByteBits * fit
      BY <1>2, <1>9
    <3> QED
      BY <1>10, <2>2, <3>1, Zenon
  <2>7. ASSUME p.ok PROVE p.bits < ByteBits /\ free < 2^p.n_bits
    <3>1. n <= room
      BY <2>2, <2>7
    <3>2. fit = n
      BY <1>8, <3>1
    <3> QED
      BY <1>1, <1>2, <1>6, <2>2, <3>2, ConstantFacts
  <2>8. p.ok \in BOOLEAN /\ p.n_bits \in StartBits .. MaxBits
    BY <1>1, <2>2
  <2> QED
    BY <2>3, <2>4, <2>5, <2>6, <2>7, <2>8 DEF PutCodeOK
<1> QED
  BY <1>13, <1>14, Zenon DEF p

-----------------------------------------------------------------------------
(* The inductive invariant behind the type invariant and the bounds. *)

EncRecord ==
  [i_buf : Seq(Symbol), o_buf_size : Nat, i_buf_ptr : Nat, ent : Nat,
   dict : Seq(Nat \X Symbol), out : Seq(Byte), pure : BOOLEAN]

\* The call of compress: its table is never full, and every entry names a code
\* before it.
EncOK ==
  /\ enc \in EncRecord
  /\ Len(enc.out) <= enc.o_buf_size
  /\ \A k \in 1 .. Len(enc.dict) : enc.dict[k][1] \in 0 .. First + k - 2
  /\ enc.ent < EncFree(enc.dict) /\ EncFree(enc.dict) < TableSize

DecRecord ==
  [i_buf : Seq(Byte), o_buf_size : Nat, last_code : Nat, i_buf_ptr : Nat,
   n_bits : Nat, bits : Nat, buf : Nat, pred : Seq(Nat),
   suff : Seq(Symbol), out : Seq(Symbol)]

\* The call of decompress.
DecOK ==
  /\ dec \in DecRecord
  /\ Len(dec.suff) = Len(dec.pred)
  /\ Earlier(Len(dec.pred), dec.pred)
  /\ StaysInBuffers

\* Between two codes the decompressor has less than a byte in hand, and its codes
\* are wide enough for its table.
Decoding ==
  /\ dec.n_bits \in StartBits .. MaxBits /\ DecFree(dec.pred) < 2^dec.n_bits
  /\ dec.bits < ByteBits /\ dec.i_buf_ptr <= Len(dec.i_buf)

PhaseOK ==
  /\ pc \in {"idle", "compress", "flush", "packed", "decompress", "returned"}
  /\ stale \in BOOLEAN /\ rc \in Int
  /\ pc = "compress" =>
       enc.i_buf_ptr \in 1 .. Len(enc.i_buf) /\ EncFree(enc.dict) <= 2^n_bits
  /\ pc = "flush" => bits < ByteBits
  /\ pc = "decompress" => Decoding
  /\ pc \notin {"compress", "flush"} /\ ~stale =>
       n_bits = StartBits /\ bits = 0 /\ buf = 0

LzwInv == StaticsOK /\ EncOK /\ DecOK /\ PhaseOK

-----------------------------------------------------------------------------
(* The next code of the decompressor. *)

\* The least number of bytes that is enough, and one at least.
LEMMA BytesForFacts ==
  ASSUME NEW d, d.bits \in Nat, d.n_bits \in StartBits .. MaxBits
  PROVE  /\ BytesFor(d) \in 1 .. MaxBits
         /\ d.bits + ByteBits * BytesFor(d) >= d.n_bits
         /\ BytesFor(d) > 1 => d.bits + ByteBits * (BytesFor(d) - 1) < d.n_bits
<1> DEFINE Enough == {n \in 1 .. MaxBits : d.bits + ByteBits * n >= d.n_bits}
<1>1. ByteBits \in Nat /\ ByteBits > 0 /\ MaxBits \in Nat /\ StartBits \in Nat
      /\ StartBits > 0 /\ StartBits <= MaxBits
  BY ConstantFacts
<1>2. MaxBits \in Enough
  <2>1. 1 * MaxBits <= ByteBits * MaxBits
    BY <1>1
  <2> QED
    BY <1>1, <2>1
<1>3. PICK n \in Enough : \A k \in 0 .. n - 1 : k \notin Enough
  <2>1. Enough \in SUBSET Nat /\ Enough # {}
    BY <1>2
  <2> HIDE DEF Enough
  <2> QED
    BY <2>1, LeastNumber
<1>4. n > 1 => d.bits + ByteBits * (n - 1) < d.n_bits
  <2> SUFFICES ASSUME n > 1 PROVE d.bits + ByteBits * (n - 1) < d.n_bits
    OBVIOUS
  <2>1. n - 1 \notin Enough /\ n - 1 \in 1 .. MaxBits
    <3>1. n \in 1 .. MaxBits /\ n - 1 \in 0 .. n - 1 /\ n - 1 \in 1 .. MaxBits
      BY <1>1
    <3> HIDE DEF Enough
    <3> QED
      BY <1>3, <3>1
  <2>2. ByteBits * (n - 1) \in Nat
    BY <1>1, <2>1
  <2> QED
    BY <1>1, <2>1, <2>2
<1>5. \E m \in 1 .. MaxBits : /\ d.bits + ByteBits * m >= d.n_bits
                              /\ m > 1 => d.bits + ByteBits * (m - 1) < d.n_bits
  BY <1>3, <1>4
<1> QED
  BY <1>5, Zenon DEF BytesFor

\* What follows a value that is summed up step by step.
IsSum(g, n, first, add) ==
  g = [k \in 0 .. n |-> IF k = 0 THEN first ELSE g[k - 1] + add[k]]

LEMMA SumExists ==
  ASSUME NEW n \in Nat, NEW first, NEW add PROVE \E g : IsSum(g, n, first, add)
<1> DEFINE Without == {m \in 0 .. n : ~ \E g : IsSum(g, m, first, add)}
<1> SUFFICES ASSUME n \in Without PROVE FALSE
  OBVIOUS
<1>1. PICK m \in Without : \A k \in 0 .. m - 1 : k \notin Without
  <2>1. Without \in SUBSET Nat
    OBVIOUS
  <2> HIDE DEF Without
  <2> QED
    BY <2>1, LeastNumber
<1>2. CASE m = 0
  <2> DEFINE g == [k \in 0 .. 0 |-> first]
  <2>1. IsSum(g, 0, first, add)
    BY DEF IsSum
  <2> QED
    BY <1>2, <2>1
<1>3. CASE m # 0
  <2>1. m - 1 \in 0 .. m - 1 /\ m - 1 \in 0 .. n /\ m \in Nat
    BY <1>3
  <2>2. PICK g : IsSum(g, m - 1, first, add)
    BY <1>1, <2>1
  <2>3. g = [k \in 0 .. m - 1 |-> IF k = 0 THEN first ELSE g[k - 1] + add[k]]
    BY <2>2 DEF IsSum
  <2> DEFINE h == [k \in 0 .. m |-> IF k = 0 THEN first ELSE g[k - 1] + add[k]]
  <2>4. ASSUME NEW k \in 0 .. m - 1 PROVE h[k] = g[k]
    <3>1. g[k] = IF k = 0 THEN first ELSE g[k - 1] + add[k]
      BY <2>3
    <3>2. k \in 0 .. m
      BY <2>1
    <3> QED
      BY <3>1, <3>2
  <2>5. ASSUME NEW k \in 0 .. m, k # 0 PROVE g[k - 1] = h[k - 1]
    <3>1. k - 1 \in 0 .. m - 1
      BY <2>1, <2>5
    <3> QED
      BY <2>4, <3>1
  <2>6. h = [k \in 0 .. m |-> IF k = 0 THEN first ELSE g[k - 1] + add[k]]
    OBVIOUS
  <2> HIDE DEF h
  <2>7. h = [k \in 0 .. m |-> IF k = 0 THEN first ELSE h[k - 1] + add[k]]
    BY <2>5, <2>6
  <2> QED
    BY <2>7 DEF IsSum
<1> QED
  BY <1>2, <1>3

\* The byte that comes k places after those that were read, or 0.
InputByte(d, k) == IF d.i_buf_ptr + k <= Len(d.i_buf) THEN d.i_buf[d.i_buf_ptr + k]
                                                      ELSE 0

LEMMA FilledFacts ==
  ASSUME NEW d
  PROVE  \E filled : /\ filled[0] = d.buf
                     /\ \A k \in 1 .. MaxBits :
                          filled[k] = filled[k - 1]
                            + InputByte(d, k) * 2^(d.bits + ByteBits * (k - 1))
                     /\ Filled(d) = filled[BytesFor(d)]
<1> DEFINE step(k) == InputByte(d, k) * 2^(d.bits + ByteBits * (k - 1))
           add == [k \in 1 .. MaxBits |-> step(k)]
           table(h) == h = [k \in 0 .. MaxBits |->
                              IF k = 0 THEN d.buf ELSE h[k - 1] + step(k)]
           g == CHOOSE h : table(h)
<1>1. Filled(d) = g[BytesFor(d)]
  BY Zenon DEF Filled, InputByte
<1>2. ASSUME NEW h PROVE IsSum(h, MaxBits, d.buf, add) <=> table(h)
  <2> HIDE DEF step
  <2>1. \A k \in 0 .. MaxBits : k # 0 => add[k] = step(k)
    <3>1. MaxBits \in Nat
      BY ConstantFacts
    <3>2. \A k \in 0 .. MaxBits : k # 0 => k \in 1 .. MaxBits
      BY <3>1
    <3> QED
      BY <3>2
  <2> HIDE DEF add
  <2> DEFINE one(k) == IF k = 0 THEN d.buf ELSE h[k - 1] + add[k]
             two(k) == IF k = 0 THEN d.buf ELSE h[k - 1] + step(k)
  <2>2. ASSUME NEW k \in 0 .. MaxBits PROVE one(k) = two(k)
    BY <2>1, Zenon
  <2>3. /\ IsSum(h, MaxBits, d.buf, add) <=> h = [k \in 0 .. MaxBits |-> one(k)]
        /\ table(h) <=> h = [k \in 0 .. MaxBits |-> two(k)]
    BY Zenon DEF IsSum
  <2> HIDE DEF one, two, table
  <2>4. [k \in 0 .. MaxBits |-> one(k)] = [k \in 0 .. MaxBits |-> two(k)]
    BY <2>2
  <2> QED
    BY <2>3, <2>4, Zenon
<1> HIDE DEF add
<1>3. \E h : table(h)
  <2>1. \E h : IsSum(h, MaxBits, d.buf, add)
    BY ConstantFacts, SumExists
  <2> QED
    BY <1>2, <2>1, Zenon
<1> HIDE DEF step
<1>4. table(g)
  BY <1>3, Zenon
<1> HIDE DEF g
<1>5. g[0] = d.buf /\ \A k \in 1 .. MaxBits : g[k] = g[k - 1] + step(k)
  BY <1>4, ConstantFacts
<1> QED
  BY <1>1, <1>5, Zenon DEF step

LEMMA FilledType ==
  ASSUME NEW d, d.buf \in Nat, d.bits \in Nat, d.i_buf \in Seq(Byte), d.i_buf_ptr \in Nat,
         d.n_bits \in StartBits .. MaxBits
  PROVE  Filled(d) \in Nat
<1>1. PICK filled : /\ filled[0] = d.buf
                    /\ \A k \in 1 .. MaxBits :
                          filled[k] = filled[k - 1]
                            + InputByte(d, k) * 2^(d.bits + ByteBits * (k - 1))
                    /\ Filled(d) = filled[BytesFor(d)]
  BY FilledFacts
<1>2. BytesFor(d) \in 1 .. MaxBits
  BY BytesForFacts
<1> DEFINE Wrong == {k \in 0 .. MaxBits : filled[k] \notin Nat}
<1> SUFFICES ASSUME Wrong # {} PROVE FALSE
  <2>1. BytesFor(d) \in 0 .. MaxBits
    BY <1>2
  <2> QED
    BY <1>1, <2>1
<1>3. PICK k \in Wrong : \A j \in 0 .. k - 1 : j \notin Wrong
  <2>1. Wrong \in SUBSET Nat
    OBVIOUS
  <2> HIDE DEF Wrong
  <2> QED
    BY <2>1, LeastNumber
<1>4. k # 0
  BY <1>1
<1>5. k \in 1 .. MaxBits /\ k - 1 \in 0 .. k - 1 /\ k - 1 \in 0 .. MaxBits
  BY <1>4, ConstantFacts
<1>6. filled[k - 1] \in Nat
  BY <1>3, <1>5
<1>7. InputByte(d, k) \in Nat
  <2>1. CASE d.i_buf_ptr + k <= Len(d.i_buf)
    <3>1. d.i_buf_ptr + k \in 1 .. Len(d.i_buf)
      BY <1>5, <2>1
    <3>2. d.i_buf[d.i_buf_ptr + k] \in Byte
      BY <3>1
    <3> QED
      BY <2>1, <3>2, ConstantFacts DEF InputByte
  <2>2. CASE ~(d.i_buf_ptr + k <= Len(d.i_buf))
    BY <2>2 DEF InputByte
  <2> QED
    BY <2>1, <2>2
<1>8. 2^(d.bits + ByteBits * (k - 1)) \in Nat
  <2>1. d.bits + ByteBits * (k - 1) \in Nat
    BY <1>5, ConstantFacts
  <2> QED
    BY <2>1, PowerPositive
<1>9. InputByte(d, k) * 2^(d.bits + ByteBits * (k - 1)) \in Nat
  BY <1>7, <1>8
<1>10. filled[k] \in Nat
  BY <1>1, <1>5, <1>6, <1>9
<1> QED
  BY <1>3, <1>10

-----------------------------------------------------------------------------
(* The steps of compress. *)

LEMMA InitInv == LzwInit => LzwInv
<1> SUFFICES ASSUME LzwInit PROVE LzwInv
  OBVIOUS
<1>1. /\ pc = "idle" /\ n_bits = StartBits /\ bits = 0 /\ buf = 0 /\ stale = FALSE
      /\ enc = NoEnc /\ dec = NoDec /\ rc = 0
  BY DEF LzwInit
<1>2. 2^0 = 1 /\ 2^BufBits > 0 /\ 2^BufBits \in Nat
  BY ConstantFacts, PowerPositive
<1>3. StaticsOK
  BY <1>1, <1>2, ConstantFacts DEF StaticsOK
<1>4. EncOK
  BY <1>1, ConstantFacts DEF EncOK, EncRecord, NoEnc, EncFree
<1>5. DecOK
  <2>1. dec \in DecRecord
    BY <1>1, ConstantFacts DEF NoDec, DecRecord
  <2>2. /\ Len(dec.suff) = 0 /\ Len(dec.pred) = 0 /\ Len(dec.out) = 0
        /\ dec.o_buf_size = 0 /\ dec.i_buf_ptr = 0 /\ Len(dec.i_buf) = 0
    BY <1>1 DEF NoDec
  <2>3. ByteBits * (0 - 0) < MaxBits + ByteBits
    BY ConstantFacts
  <2>4. StaysInBuffers
    BY <2>2, <2>3, ConstantFacts DEF StaysInBuffers, DecFree
  <2> QED
    BY <2>1, <2>2, <2>4 DEF DecOK, Earlier
<1>6. PhaseOK
  <2>1. 0 \in Int /\ FALSE \in BOOLEAN
    OBVIOUS
  <2> QED
    BY <1>1, <2>1, Zenon DEF PhaseOK
<1> QED
  BY <1>3, <1>4, <1>5, <1>6 DEF LzwInv

LEMMA CompressStep ==
  ASSUME LzwInv, NEW i_buf \in Inputs, NEW size \in Sizes, Compress(i_buf, size)
  PROVE  LzwInv'
<1>1. /\ pc' = "compress" /\ n_bits' = n_bits /\ bits' = bits /\ buf' = buf
      /\ stale' = stale /\ dec' = dec /\ rc' = rc
      /\ enc' = [NoEnc EXCEPT !.i_buf = i_buf, !.o_buf_size = size, !.i_buf_ptr = 1,
                              !.ent = i_buf[1], !.pure = ~stale]
  BY DEF Compress, putcodeVars
<1>2. StaticsOK'
  BY <1>1 DEF StaticsOK, LzwInv
<1>3. i_buf \in Seq(Symbol) /\ i_buf # <<>> /\ size \in Nat
  BY InputsAssumption
<1>4. i_buf[1] \in 0 .. First - 1 /\ 1 \in 1 .. Len(i_buf)
  BY <1>3, ConstantFacts
<1>5. stale \in BOOLEAN
  BY DEF LzwInv, PhaseOK
<1>6. /\ enc'.i_buf = i_buf /\ enc'.o_buf_size = size /\ enc'.i_buf_ptr = 1
      /\ enc'.ent = i_buf[1] /\ enc'.dict = <<>> /\ enc'.out = <<>>
      /\ enc'.pure = ~stale
  BY <1>1 DEF NoEnc
<1>7. EncFree(enc'.dict) = First
  BY <1>6, ConstantFacts DEF EncFree
<1>8. EncOK'
  <2>1. enc' \in EncRecord
    <3>1. i_buf[1] \in Nat
      BY <1>4, ConstantFacts
    <3>2. PICK pure \in BOOLEAN : pure = ~stale
      BY <1>5, Zenon
    <3>3. enc' = [NoEnc EXCEPT !.i_buf = i_buf, !.o_buf_size = size, !.i_buf_ptr = 1,
                              !.ent = i_buf[1], !.pure = pure]
      BY <1>1, <3>2, Zenon
    <3>4. enc' = [i_buf |-> i_buf, o_buf_size |-> size, i_buf_ptr |-> 1,
                  ent |-> i_buf[1], dict |-> <<>>, out |-> <<>>, pure |-> pure]
      BY <3>3 DEF NoEnc
    <3>5. <<>> \in Seq(Nat \X Symbol) /\ <<>> \in Seq(Byte) /\ 1 \in Nat
      OBVIOUS
    <3> QED
      BY <1>3, <3>1, <3>4, <3>5 DEF EncRecord
  <2> QED
    BY <1>3, <1>4, <1>6, <1>7, <2>1, ConstantFacts DEF EncOK
<1>9. DecOK'
  BY <1>1 DEF LzwInv, DecOK, StaysInBuffers
<1>10. First <= 2^n_bits
  <2>1. n_bits \in Nat /\ StartBits <= n_bits
    BY ConstantFacts DEF LzwInv, StaticsOK
  <2>2. 2^StartBits <= 2^n_bits /\ 2^StartBits \in Nat /\ 2^n_bits \in Nat
    BY <2>1, ConstantFacts, PowerMonotone, PowerPositive
  <2> QED
    BY <2>2, ConstantFacts
<1>11. PhaseOK'
  BY <1>1, <1>4, <1>6, <1>7, <1>10 DEF LzwInv, PhaseOK
<1> QED
  BY <1>2, <1>8, <1>9, <1>11 DEF LzwInv

LEMMA FirstFacts == First \in Nat /\ First > 0 /\ Symbol = 0 .. First - 1
BY ConstantFacts

\* Every entry of the table, and every code before one that is free, in one form.
LEMMA EncFacts ==
  ASSUME EncOK
  PROVE  /\ enc.i_buf \in Seq(Symbol) /\ enc.o_buf_size \in Nat /\ enc.i_buf_ptr \in Nat
         /\ enc.ent \in Nat /\ enc.dict \in Seq(Nat \X Symbol)
         /\ enc.out \in Seq(Byte) /\ enc.pure \in BOOLEAN
         /\ Len(enc.i_buf) \in Nat /\ Len(enc.dict) \in Nat /\ Len(enc.out) \in Nat
         /\ EncFree(enc.dict) = First + Len(enc.dict) /\ EncFree(enc.dict) \in Nat
         /\ \A k \in 1 .. Len(enc.dict) :
              /\ enc.dict[k][1] \in Nat /\ enc.dict[k][2] \in Symbol
              /\ enc.dict[k] = <<enc.dict[k][1], enc.dict[k][2]>>
<1>1. /\ enc.i_buf \in Seq(Symbol) /\ enc.o_buf_size \in Nat /\ enc.i_buf_ptr \in Nat
      /\ enc.ent \in Nat /\ enc.dict \in Seq(Nat \X Symbol)
      /\ enc.out \in Seq(Byte) /\ enc.pure \in BOOLEAN
  BY DEF EncOK, EncRecord
<1>2. Len(enc.i_buf) \in Nat /\ Len(enc.dict) \in Nat /\ Len(enc.out) \in Nat
  BY <1>1
<1>3. EncFree(enc.dict) = First + Len(enc.dict) /\ EncFree(enc.dict) \in Nat
  BY <1>2, FirstFacts DEF EncFree
<1>4. ASSUME NEW k \in 1 .. Len(enc.dict)
      PROVE  /\ enc.dict[k][1] \in Nat /\ enc.dict[k][2] \in Symbol
             /\ enc.dict[k] = <<enc.dict[k][1], enc.dict[k][2]>>
  <2>1. enc.dict[k] \in Nat \X Symbol
    BY <1>1
  <2> QED
    BY <2>1
<1> QED
  BY <1>1, <1>2, <1>3, <1>4

LEMMA KnownStep ==
  ASSUME LzwInv, Known PROVE LzwInv'
<1>1. /\ pc = "compress" /\ enc.i_buf_ptr < Len(enc.i_buf)
      /\ pc' = pc /\ n_bits' = n_bits /\ bits' = bits /\ buf' = buf
      /\ stale' = stale /\ dec' = dec /\ rc' = rc
  BY DEF Known, Reading, putcodeVars
<1>2. PICK k \in DOMAIN enc.dict :
        enc' = [enc EXCEPT !.i_buf_ptr = @ + 1, !.ent = First + k - 1]
  BY DEF Known
<1>3. EncOK /\ StaticsOK /\ DecOK /\ PhaseOK
  BY DEF LzwInv
<1> USE <1>3
<1>4. k \in 1 .. Len(enc.dict) /\ Len(enc.dict) \in Nat
      /\ EncFree(enc.dict) = First + Len(enc.dict)
  BY EncFacts
<1>5. First + k - 1 \in Nat /\ First + k - 1 < EncFree(enc.dict)
  <2>1. k \in Nat /\ k >= 1 /\ k <= Len(enc.dict)
    BY <1>4
  <2> QED
    BY <1>4, <2>1, FirstFacts
<1>6. /\ enc'.i_buf = enc.i_buf /\ enc'.o_buf_size = enc.o_buf_size
      /\ enc'.i_buf_ptr = enc.i_buf_ptr + 1 /\ enc'.ent = First + k - 1
      /\ enc'.dict = enc.dict /\ enc'.out = enc.out /\ enc'.pure = enc.pure
  BY <1>2 DEF EncOK, EncRecord
<1>7. EncOK'
  <2>1. enc' \in EncRecord
    <3>1. enc' = [enc EXCEPT !.i_buf_ptr = enc.i_buf_ptr + 1, !.ent = First + k - 1]
      BY <1>2, Zenon
    <3>2. PICK ptr \in Nat : ptr = enc.i_buf_ptr + 1
      BY EncFacts
    <3>3. PICK ent \in Nat : ent = First + k - 1
      BY <1>5
    <3>4. enc' = [enc EXCEPT !.i_buf_ptr = ptr, !.ent = ent]
      BY <3>1, <3>2, <3>3, Zenon
    <3> QED
      BY <3>4 DEF EncOK, EncRecord
  <2> QED
    BY <1>5, <1>6, <2>1 DEF EncOK
<1>8. PhaseOK'
  <2>1. enc'.i_buf_ptr \in 1 .. Len(enc'.i_buf)
    BY <1>1, <1>6 DEF PhaseOK
  <2> QED
    BY <1>1, <1>6, <2>1, Zenon DEF PhaseOK
<1>9. StaticsOK' /\ DecOK'
  BY <1>1 DEF StaticsOK, DecOK, StaysInBuffers
<1> QED
  BY <1>7, <1>8, <1>9 DEF LzwInv

\* The output and the statics after putcode(ent).
LEMMA PutEnt ==
  ASSUME LzwInv, pc = "compress"
  PROVE  PutCodeOK(enc, PutCode(enc, enc.ent))
<1>1. EncOK /\ StaticsOK /\ PhaseOK
  BY DEF LzwInv
<1>2. /\ enc.out \in Seq(Byte) /\ enc.o_buf_size \in Nat /\ enc.ent \in Nat
      /\ EncFree(enc.dict) \in Nat
  BY <1>1, EncFacts
<1>3. /\ Len(enc.out) <= enc.o_buf_size /\ EncFree(enc.dict) < TableSize
      /\ enc.ent < EncFree(enc.dict) /\ EncFree(enc.dict) <= 2^n_bits
  BY <1>1 DEF EncOK, PhaseOK
<1> QED
  BY <1>1, <1>2, <1>3, PutCodeFacts

\* What CompressFails leaves, whatever was written before.
LEMMA FailStep ==
  ASSUME LzwInv, NEW e \in Int, NEW out \in Seq(Byte), Len(out) <= enc.o_buf_size,
         CompressFails(e, out), StaticsOK'
  PROVE  LzwInv'
<1>1. /\ pc' = "returned" /\ rc' = e /\ stale' = TRUE /\ dec' = dec
      /\ enc' = [enc EXCEPT !.out = out]
  BY DEF CompressFails
<1>2. EncOK /\ DecOK
  BY DEF LzwInv
<1>3. EncOK'
  <2>1. enc' \in EncRecord
    BY <1>1, <1>2 DEF EncOK, EncRecord
  <2>2. /\ enc'.o_buf_size = enc.o_buf_size /\ enc'.ent = enc.ent
        /\ enc'.dict = enc.dict /\ enc'.out = out
    BY <1>1, <1>2 DEF EncOK, EncRecord
  <2> QED
    BY <1>2, <2>1, <2>2 DEF EncOK
<1>4. DecOK'
  BY <1>1, <1>2 DEF DecOK, StaysInBuffers
<1>5. PhaseOK'
  BY <1>1, Zenon DEF PhaseOK
<1> QED
  BY <1>3, <1>4, <1>5 DEF LzwInv

LEMMA UnknownStep ==
  ASSUME LzwInv, Unknown PROVE LzwInv'
<1> DEFINE p == PutCode(enc, enc.ent)
<1>1. pc = "compress" /\ enc.i_buf_ptr < Len(enc.i_buf)
  BY DEF Unknown, Reading
<1>2. EncOK /\ StaticsOK /\ DecOK /\ PhaseOK
  BY DEF LzwInv
<1>3. PutCodeOK(enc, p)
  BY <1>1, PutEnt
<1>4. /\ n_bits' = p.n_bits /\ bits' = p.bits /\ buf' = p.buf
      /\ IF ~p.ok THEN CompressFails(-5, p.out)
         ELSE IF EncFree(enc.dict) + 1 >= TableSize
         THEN CompressFails(-2, p.out)
         ELSE /\ enc' = [enc EXCEPT !.i_buf_ptr = @ + 1, !.ent = NextPair[2],
                              !.dict = Append(@, NextPair), !.out = p.out]
              /\ UNCHANGED <<pc, stale, dec, rc>>
  BY Zenon DEF Unknown, Statics
<1> HIDE DEF p
<1>5. StaticsOK'
  BY <1>3, <1>4 DEF StaticsOK, PutCodeOK
<1>6. p.out \in Seq(Byte) /\ Len(p.out) <= enc.o_buf_size
  BY <1>3 DEF PutCodeOK
<1>7. CASE CompressFails(-5, p.out) \/ CompressFails(-2, p.out)
  <2>1. -5 \in Int /\ -2 \in Int
    OBVIOUS
  <2> QED
    BY <1>5, <1>6, <1>7, <2>1, FailStep
<1>8. CASE /\ p.ok /\ ~(EncFree(enc.dict) + 1 >= TableSize)
           /\ enc' = [enc EXCEPT !.i_buf_ptr = @ + 1, !.ent = NextPair[2],
                              !.dict = Append(@, NextPair), !.out = p.out]
           /\ UNCHANGED <<pc, stale, dec, rc>>
  <2> DEFINE sym == enc.i_buf[enc.i_buf_ptr + 1]
  <2>1. enc.i_buf_ptr + 1 \in 1 .. Len(enc.i_buf) /\ enc.i_buf_ptr + 1 \in Nat
    BY <1>1, <1>2, EncFacts
  <2>2. sym \in Symbol /\ enc.ent \in Nat
    BY <1>2, <2>1, EncFacts
  <2>3. sym \in Nat /\ sym < First
    BY <2>2, FirstFacts
  <2>4. NextPair = <<enc.ent, sym>>
    BY DEF NextPair
  <2> HIDE DEF sym
  <2>5. NextPair \in Nat \X Symbol /\ NextPair[1] = enc.ent /\ NextPair[2] = sym
    BY <2>2, <2>4
  <2> DEFINE n == Len(enc.dict)
             dict == Append(enc.dict, NextPair)
  <2>6. /\ n \in Nat /\ EncFree(enc.dict) = First + n
        /\ enc.dict \in Seq(Nat \X Symbol) /\ enc \in EncRecord
    BY <1>2, EncFacts DEF EncOK
  <2>7. /\ dict \in Seq(Nat \X Symbol) /\ Len(dict) = n + 1
        /\ \A k \in 1 .. n : dict[k] = enc.dict[k]
        /\ dict[n + 1] = NextPair
    BY <2>5, <2>6
  <2>8. EncFree(dict) = First + n + 1
    BY <2>6, <2>7, FirstFacts DEF EncFree
  <2> HIDE DEF dict, n
  <2>9. enc' = [enc EXCEPT !.i_buf_ptr = enc.i_buf_ptr + 1, !.ent = sym,
                           !.dict = dict, !.out = p.out]
    BY <1>8, <2>5, Zenon DEF dict
  <2>u. /\ enc' \in EncRecord
        /\ enc'.i_buf = enc.i_buf /\ enc'.o_buf_size = enc.o_buf_size
        /\ enc'.i_buf_ptr = enc.i_buf_ptr + 1 /\ enc'.ent = sym
        /\ enc'.dict = dict /\ enc'.out = p.out /\ enc'.pure = enc.pure
    <3>1. PICK ptr \in Nat : ptr = enc.i_buf_ptr + 1
      BY <2>1
    <3>2. PICK out \in Seq(Byte) : out = p.out
      BY <1>6
    <3>3. enc' = [enc EXCEPT !.i_buf_ptr = ptr, !.ent = sym, !.dict = dict, !.out = out]
      BY <2>9, <3>1, <3>2, Zenon
    <3>4. /\ enc' \in EncRecord
          /\ enc'.i_buf = enc.i_buf /\ enc'.o_buf_size = enc.o_buf_size
          /\ enc'.i_buf_ptr = ptr /\ enc'.ent = sym
          /\ enc'.dict = dict /\ enc'.out = out /\ enc'.pure = enc.pure
      BY <2>3, <2>6, <2>7, <3>3 DEF EncRecord
    <3> QED
      BY <3>1, <3>2, <3>4, Zenon
  <2>e. EncOK'
    <3>1. ASSUME NEW k \in 1 .. Len(enc'.dict)
          PROVE  enc'.dict[k][1] \in 0 .. First + k - 2
      <4>1. CASE k \in 1 .. n
        BY <1>2, <2>u, <2>7, <4>1 DEF EncOK, n
      <4>2. CASE k = n + 1
        <5>1. enc'.dict[k][1] = enc.ent
          BY <2>5, <2>u, <2>7, <4>2
        <5>2. enc.ent < First + n
          BY <1>2, <2>6 DEF EncOK
        <5>3. enc.ent \in 0 .. First + k - 2
          BY <2>2, <2>6, <4>2, <5>2, FirstFacts
        <5> QED
          BY <5>1, <5>3
      <4> QED
        BY <2>6, <2>7, <2>u, <4>1, <4>2
    <3>2. enc'.ent < EncFree(enc'.dict) /\ EncFree(enc'.dict) < TableSize
      <4>1. sym < First + n + 1
        BY <2>3, <2>6, FirstFacts
      <4>2. First + n + 1 < TableSize
        <5>1. TableSize \in Nat
          BY ConstantFacts
        <5> QED
          BY <1>8, <2>6, <5>1, FirstFacts
      <4> QED
        BY <2>8, <2>u, <4>1, <4>2
    <3> QED
      BY <1>6, <2>u, <3>1, <3>2 DEF EncOK
  <2>10. DecOK'
    BY <1>2, <1>8 DEF DecOK, StaysInBuffers
  <2>11. PhaseOK'
    <3>1. enc'.i_buf_ptr \in 1 .. Len(enc'.i_buf)
      BY <1>1, <1>2, <2>u, EncFacts
    <3>2. EncFree(enc'.dict) <= 2^(n_bits')
      <4>1. EncFree(enc.dict) < 2^p.n_bits
        BY <1>3, <1>8 DEF PutCodeOK
      <4>2. 2^p.n_bits \in Nat
        <5>1. p.n_bits \in Nat
          BY <1>3, ConstantFacts DEF PutCodeOK
        <5> QED
          BY <5>1, PowerPositive
      <4>3. EncFree(enc'.dict) <= 2^p.n_bits
        BY <2>6, <2>8, <2>u, <4>1, <4>2, FirstFacts
      <4> QED
        BY <1>4, <4>3
    <3> QED
      BY <1>1, <1>2, <1>8, <3>1, <3>2, Zenon DEF PhaseOK
  <2> QED
    BY <1>5, <2>e, <2>10, <2>11 DEF LzwInv
<1> QED
  BY <1>4, <1>7, <1>8, Zenon

LEMMA LastCodeStep ==
  ASSUME LzwInv, LastCode PROVE LzwInv'
<1> DEFINE p == PutCode(enc, enc.ent)
<1>1. pc = "compress" /\ enc.i_buf_ptr = Len(enc.i_buf)
  BY DEF LastCode
<1>2. EncOK /\ StaticsOK /\ DecOK /\ PhaseOK
  BY DEF LzwInv
<1>3. PutCodeOK(enc, p)
  BY <1>1, PutEnt
<1>4. /\ n_bits' = p.n_bits /\ bits' = p.bits /\ buf' = p.buf
      /\ IF ~p.ok THEN CompressFails(-5, p.out)
         ELSE /\ pc' = "flush" /\ enc' = [enc EXCEPT !.out = p.out]
              /\ UNCHANGED <<stale, dec, rc>>
  BY Zenon DEF LastCode, Statics
<1> HIDE DEF p
<1>5. StaticsOK'
  BY <1>3, <1>4 DEF StaticsOK, PutCodeOK
<1>6. p.out \in Seq(Byte) /\ Len(p.out) <= enc.o_buf_size
  BY <1>3 DEF PutCodeOK
<1>7. CASE CompressFails(-5, p.out)
  <2>1. -5 \in Int
    OBVIOUS
  <2> QED
    BY <1>5, <1>6, <1>7, <2>1, FailStep
<1>8. CASE /\ p.ok /\ pc' = "flush" /\ enc' = [enc EXCEPT !.out = p.out]
           /\ UNCHANGED <<stale, dec, rc>>
  <2>1. PICK out \in Seq(Byte) : out = p.out
    BY <1>6
  <2>2. enc' = [enc EXCEPT !.out = out]
    BY <1>8, <2>1, Zenon
  <2>3. /\ enc' \in EncRecord
        /\ enc'.o_buf_size = enc.o_buf_size /\ enc'.ent = enc.ent
        /\ enc'.dict = enc.dict /\ enc'.out = out
    BY <1>2, <2>2 DEF EncOK, EncRecord
  <2>4. EncOK'
    BY <1>2, <1>6, <2>1, <2>3 DEF EncOK
  <2>5. DecOK'
    BY <1>2, <1>8 DEF DecOK, StaysInBuffers
  <2>6. bits' < ByteBits
    BY <1>3, <1>4, <1>8 DEF PutCodeOK
  <2>7. PhaseOK'
    BY <1>2, <1>8, <2>6, Zenon DEF PhaseOK
  <2> QED
    BY <1>5, <2>4, <2>5, <2>7 DEF LzwInv
<1> QED
  BY <1>4, <1>7, <1>8, Zenon

\* What is left in the bit buffer fits in one byte.
LEMMA LastByte ==
  ASSUME StaticsOK, bits < ByteBits PROVE buf \in Byte
<1>1. bits \in Nat /\ buf \in Nat /\ buf < 2^bits /\ ByteBits \in Nat
  BY ConstantFacts DEF StaticsOK
<1>2. 2^bits <= 2^ByteBits /\ 2^bits \in Nat /\ 2^ByteBits \in Nat
  BY <1>1, PowerMonotone, PowerPositive
<1> QED
  BY <1>1, <1>2, ConstantFacts

LEMMA FlushStep ==
  ASSUME LzwInv, Flush PROVE LzwInv'
<1>1. pc = "flush"
  BY DEF Flush
<1>2. EncOK /\ StaticsOK /\ DecOK /\ PhaseOK
  BY DEF LzwInv
<1>3. /\ enc \in EncRecord /\ enc.out \in Seq(Byte) /\ Len(enc.out) \in Nat
      /\ enc.o_buf_size \in Nat /\ Len(enc.out) <= enc.o_buf_size
  BY <1>2, EncFacts DEF EncOK
<1>4. CASE Full(enc)
  <2>1. CompressFails(-5, enc.out) /\ n_bits' = n_bits /\ bits' = bits /\ buf' = buf
    BY <1>4 DEF Flush, putcodeVars
  <2>2. StaticsOK'
    BY <1>2, <2>1 DEF StaticsOK
  <2>3. -5 \in Int
    OBVIOUS
  <2> QED
    BY <1>3, <2>1, <2>2, <2>3, FailStep
<1>5. CASE ~Full(enc)
  <2> DEFINE last == IF bits > 0 THEN Append(enc.out, buf) ELSE enc.out
  <2>1. /\ enc' = [enc EXCEPT !.out = IF bits > 0 THEN Append(@, buf) ELSE @]
        /\ n_bits' = StartBits /\ bits' = 0 /\ buf' = 0
        /\ pc' = "packed" /\ rc' = Len(enc'.out) /\ stale' = FALSE /\ dec' = dec
    BY <1>5 DEF Flush, ResetStatics
  <2>2. enc' = [enc EXCEPT !.out = last]
    BY <2>1, Zenon
  <2>3. last \in Seq(Byte) /\ Len(last) <= enc.o_buf_size
    <3>1. buf \in Byte
      BY <1>1, <1>2, LastByte DEF PhaseOK
    <3>2. Len(enc.out) < enc.o_buf_size
      BY <1>3, <1>5 DEF Full
    <3>3. \A s \in Seq(Byte), b \in Byte :
            Append(s, b) \in Seq(Byte) /\ Len(Append(s, b)) = Len(s) + 1
      OBVIOUS
    <3>4. CASE bits > 0
      <4>1. last = Append(enc.out, buf)
        BY <3>4
      <4>2. last \in Seq(Byte) /\ Len(last) = Len(enc.out) + 1
        BY <1>3, <3>1, <3>3, <4>1, Zenon
      <4> QED
        BY <1>3, <3>2, <4>2
    <3>5. CASE ~(bits > 0)
      BY <1>3, <3>5
    <3> QED
      BY <3>4, <3>5
  <2> HIDE DEF last
  <2>4. /\ enc' \in EncRecord
        /\ enc'.o_buf_size = enc.o_buf_size /\ enc'.ent = enc.ent
        /\ enc'.dict = enc.dict /\ enc'.out = last
    BY <1>3, <2>2, <2>3 DEF EncRecord
  <2>5. EncOK'
    BY <1>2, <2>3, <2>4 DEF EncOK
  <2>6. DecOK'
    BY <1>2, <2>1 DEF DecOK, StaysInBuffers
  <2>7. StaticsOK'
    <3>1. 2^0 = 1 /\ 2^BufBits \in Nat /\ 2^BufBits > 0
      BY ConstantFacts, PowerPositive
    <3> QED
      BY <2>1, <3>1, ConstantFacts DEF StaticsOK
  <2>8. rc' \in Int
    <3>1. Len(last) \in Int
      BY <2>3
    <3> QED
      BY <2>1, <2>4, <3>1
  <2>9. PhaseOK'
    <3>1. stale' \in BOOLEAN
      BY <2>1, Zenon
    <3> QED
      BY <2>1, <2>8, <3>1, Zenon DEF PhaseOK
  <2> QED
    BY <2>5, <2>6, <2>7, <2>9 DEF LzwInv
<1> QED
  BY <1>4, <1>5

-----------------------------------------------------------------------------
(* The steps of decompress. *)

\* The call begins with nothing decoded.
LEMMA DecompressBegins ==
  ASSUME LzwInv, NEW i_buf \in Seq(Byte), NEW size \in Nat, NEW last_code \in Nat,
         pc \notin {"compress", "flush"}, pc' = "decompress",
         dec' = [i_buf |-> i_buf, o_buf_size |-> size, last_code |-> last_code,
                 i_buf_ptr |-> 0, n_bits |-> StartBits, bits |-> 0, buf |-> 0,
                 pred |-> <<>>, suff |-> <<>>, out |-> <<>>],
         UNCHANGED <<putcodeVars, stale, enc, rc>>
  PROVE  LzwInv'
<1>1. EncOK /\ StaticsOK /\ PhaseOK /\ n_bits' = n_bits /\ bits' = bits /\ buf' = buf
      /\ stale' = stale /\ enc' = enc /\ rc' = rc
  BY DEF LzwInv, putcodeVars
<1>3. dec' \in DecRecord
  <2>1. /\ <<>> \in Seq(Nat) /\ <<>> \in Seq(Symbol) /\ 0 \in Nat /\ StartBits \in Nat
    BY ConstantFacts
  <2> QED
    BY <2>1 DEF DecRecord
<1>4. /\ dec'.i_buf = i_buf /\ dec'.o_buf_size = size /\ dec'.i_buf_ptr = 0
      /\ dec'.n_bits = StartBits /\ dec'.bits = 0 /\ Len(dec'.pred) = 0
      /\ Len(dec'.suff) = 0 /\ Len(dec'.out) = 0 /\ Len(i_buf) \in Nat
  OBVIOUS
<1>5. ByteBits * (0 - Len(i_buf)) <= 0
  BY <1>4, ConstantFacts
<1>6. DecFree(dec'.pred) = First
  BY <1>4, FirstFacts DEF DecFree
<1>7. StaysInBuffers'
  <2>1. ByteBits * (0 - Len(i_buf)) \in Int
    BY <1>4, ConstantFacts
  <2>2. ByteBits * (0 - Len(i_buf)) < MaxBits + ByteBits
    BY <1>5, <2>1, ConstantFacts
  <2>3. First <= TableSize
    BY ConstantFacts
  <2> QED
    BY <1>4, <1>6, <2>2, <2>3 DEF StaysInBuffers
<1>8. DecOK'
  BY <1>3, <1>4, <1>7 DEF DecOK, Earlier
<1>9. Decoding'
  <2>1. StartBits \in StartBits .. MaxBits /\ First < 2^StartBits /\ 0 < ByteBits
    BY ConstantFacts
  <2>2. 0 <= Len(i_buf)
    BY <1>4
  <2> QED
    BY <1>4, <1>6, <2>1, <2>2, Zenon DEF Decoding
<1>10. PhaseOK'
  <2>1. pc' \notin {"compress", "flush"} /\ ~stale'
          => n_bits' = StartBits /\ bits' = 0 /\ buf' = 0
    <3>1. ~stale => n_bits = StartBits /\ bits = 0 /\ buf = 0
      BY <1>1 DEF PhaseOK
    <3> QED
      BY <1>1, <3>1
  <2>2. stale' \in BOOLEAN /\ rc' \in Int
    BY <1>1, Zenon DEF PhaseOK
  <2> QED
    BY <1>9, <2>1, <2>2, Zenon DEF PhaseOK
<1>11. EncOK' /\ StaticsOK'
  BY <1>1 DEF EncOK, StaticsOK
<1> QED
  BY <1>8, <1>10, <1>11 DEF LzwInv

LEMMA DecompressStep ==
  ASSUME LzwInv, Decompress PROVE LzwInv'
<1>1. /\ pc = "packed" /\ pc' = "decompress"
      /\ dec' = [NoDec EXCEPT !.i_buf = enc.out, !.o_buf_size = Len(enc.i_buf),
                              !.last_code = EncFree(enc.dict) + 1]
      /\ UNCHANGED <<putcodeVars, stale, enc, rc>>
  BY Zenon DEF Decompress
<1>2. enc.out \in Seq(Byte) /\ Len(enc.i_buf) \in Nat /\ EncFree(enc.dict) + 1 \in Nat
  BY EncFacts DEF LzwInv
<1>3. dec' = [i_buf |-> enc.out, o_buf_size |-> Len(enc.i_buf),
              last_code |-> EncFree(enc.dict) + 1,
              i_buf_ptr |-> 0, n_bits |-> StartBits, bits |-> 0, buf |-> 0,
              pred |-> <<>>, suff |-> <<>>, out |-> <<>>]
  BY <1>1 DEF NoDec
<1> QED
  BY <1>1, <1>2, <1>3, DecompressBegins

LEMMA DamagedStep ==
  ASSUME LzwInv, pc = "idle", NEW i_buf \in Damaged, NEW size \in Sizes,
         NEW last_code \in 1 .. 2 * TableSize, DecompressDamaged(i_buf, size, last_code)
  PROVE  LzwInv'
<1>1. /\ pc' = "decompress"
      /\ dec' = [NoDec EXCEPT !.i_buf = i_buf, !.o_buf_size = size,
                              !.last_code = last_code]
      /\ UNCHANGED <<putcodeVars, stale, enc, rc>>
  BY DEF DecompressDamaged
<1>2. i_buf \in Seq(Byte) /\ size \in Nat /\ last_code \in Nat
  BY InputsAssumption, ConstantFacts
<1>3. dec' = [i_buf |-> i_buf, o_buf_size |-> size, last_code |-> last_code,
              i_buf_ptr |-> 0, n_bits |-> StartBits, bits |-> 0, buf |-> 0,
              pred |-> <<>>, suff |-> <<>>, out |-> <<>>]
  BY <1>1 DEF NoDec
<1> QED
  BY <1>1, <1>2, <1>3, DecompressBegins

\* The names of Decode's definition: what is read, what the code stands for, and
\* the state after it.
ReadOf(d) == [d EXCEPT !.i_buf_ptr = @ + BytesFor(d),
                       !.bits = @ + ByteBits * BytesFor(d) - d.n_bits,
                       !.buf = Filled(d) \div 2^d.n_bits]
StringOf(d) == Expand(d.pred, d.suff)[NextCode(d)]
NextOf(d) ==
  [ReadOf(d) EXCEPT !.pred = Append(@, NextCode(d)),
     !.suff = Complete(@, StringOf(d)[1]), !.out = @ \o StringOf(d),
     !.n_bits = IF DecFree(d.pred) + 1 >= 2^d.n_bits THEN @ + 1 ELSE @]

LEMMA DecodeCases ==
  ASSUME Decode
  PROVE  /\ pc = "decompress" /\ UNCHANGED <<putcodeVars, stale, enc>>
         /\ IF ReadOf(dec).i_buf_ptr > Len(dec.i_buf)
            THEN dec' = ReadOf(dec) /\ DecompressReturns(-3)
            ELSE IF DecFree(dec.pred) <= NextCode(dec)
            THEN dec' = ReadOf(dec) /\ DecompressReturns(-4)
            ELSE IF Len(StringOf(dec)) > dec.o_buf_size - Len(dec.out)
            THEN /\ dec' = [ReadOf(dec) EXCEPT !.out = @ \o
                       SubSeq(StringOf(dec), 1, dec.o_buf_size - Len(dec.out))]
                 /\ DecompressReturns(-5)
            ELSE /\ dec' = NextOf(dec)
                 /\ IF TooWide(NextOf(dec).n_bits) THEN DecompressReturns(-2)
                    ELSE IF /\ NextOf(dec).i_buf_ptr < Len(dec.i_buf)
                            /\ DecFree(dec.pred) + 1 < dec.last_code
                    THEN UNCHANGED <<pc, rc>>
                    ELSE DecompressReturns(Len(NextOf(dec).out))
BY Zenon DEF Decode, ReadOf, NextOf, StringOf

LEMMA DecFacts ==
  ASSUME DecOK
  PROVE  /\ dec \in DecRecord
         /\ dec.i_buf \in Seq(Byte) /\ dec.o_buf_size \in Nat /\ dec.last_code \in Nat
         /\ dec.i_buf_ptr \in Nat /\ dec.n_bits \in Nat /\ dec.bits \in Nat
         /\ dec.buf \in Nat /\ dec.pred \in Seq(Nat) /\ dec.suff \in Seq(Symbol)
         /\ dec.out \in Seq(Symbol)
         /\ Len(dec.i_buf) \in Nat /\ Len(dec.pred) \in Nat /\ Len(dec.suff) \in Nat
         /\ Len(dec.out) \in Nat /\ Len(dec.suff) = Len(dec.pred)
         /\ DecFree(dec.pred) = First + Len(dec.pred) /\ DecFree(dec.pred) \in Nat
<1>1. /\ dec \in DecRecord
      /\ dec.i_buf \in Seq(Byte) /\ dec.o_buf_size \in Nat /\ dec.last_code \in Nat
      /\ dec.i_buf_ptr \in Nat /\ dec.n_bits \in Nat /\ dec.bits \in Nat
      /\ dec.buf \in Nat /\ dec.pred \in Seq(Nat) /\ dec.suff \in Seq(Symbol)
      /\ dec.out \in Seq(Symbol)
  BY DEF DecOK, DecRecord
<1>2. /\ Len(dec.i_buf) \in Nat /\ Len(dec.pred) \in Nat /\ Len(dec.suff) \in Nat
      /\ Len(dec.out) \in Nat /\ Len(dec.suff) = Len(dec.pred)
  BY <1>1 DEF DecOK
<1>3. DecFree(dec.pred) = First + Len(dec.pred) /\ DecFree(dec.pred) \in Nat
  BY <1>2, FirstFacts DEF DecFree
<1> QED
  BY <1>1, <1>2, <1>3

\* What is read for one code: less than a byte is left of it, and it ends less
\* than a code behind the input.
LEMMA ReadFacts ==
  ASSUME DecOK, Decoding
  PROVE  /\ ReadOf(dec) \in DecRecord
         /\ ReadOf(dec).i_buf = dec.i_buf /\ ReadOf(dec).o_buf_size = dec.o_buf_size
         /\ ReadOf(dec).last_code = dec.last_code
         /\ ReadOf(dec).i_buf_ptr = dec.i_buf_ptr + BytesFor(dec)
         /\ ReadOf(dec).n_bits = dec.n_bits
         /\ ReadOf(dec).bits = (dec.bits + ByteBits * BytesFor(dec)) - dec.n_bits
         /\ ReadOf(dec).buf = Filled(dec) \div 2^dec.n_bits
         /\ ReadOf(dec).pred = dec.pred /\ ReadOf(dec).suff = dec.suff
         /\ ReadOf(dec).out = dec.out
         /\ ReadOf(dec).bits < ByteBits
         /\ ByteBits * (ReadOf(dec).i_buf_ptr - Len(dec.i_buf)) < MaxBits + ByteBits
         /\ NextCode(dec) \in Nat /\ Filled(dec) \in Nat /\ BytesFor(dec) \in Nat
<1> DEFINE n == BytesFor(dec)
<1>1. /\ dec.n_bits \in StartBits .. MaxBits /\ dec.bits < ByteBits
      /\ dec.i_buf_ptr <= Len(dec.i_buf)
  BY DEF Decoding
<1>2. /\ n \in 1 .. MaxBits /\ dec.bits + ByteBits * n >= dec.n_bits
      /\ n > 1 => dec.bits + ByteBits * (n - 1) < dec.n_bits
  BY <1>1, DecFacts, BytesForFacts
<1>3. Filled(dec) \in Nat
  BY <1>1, DecFacts, FilledType
<1> HIDE DEF n
<1>4. /\ ByteBits \in Nat /\ ByteBits > 0 /\ StartBits \in Nat /\ ByteBits <= StartBits
      /\ MaxBits \in Nat /\ n \in Nat /\ dec.n_bits \in Nat /\ dec.bits \in Nat
      /\ StartBits <= dec.n_bits /\ dec.n_bits <= MaxBits /\ n >= 1
      /\ dec.i_buf_ptr \in Nat /\ Len(dec.i_buf) \in Nat
  BY <1>1, <1>2, ConstantFacts, DecFacts
<1>5. ByteBits * n \in Nat /\ ByteBits * (n - 1) = ByteBits * n - ByteBits
  BY <1>4
<1>6. (dec.bits + ByteBits * n) - dec.n_bits \in Nat
  BY <1>2, <1>4, <1>5
<1>7. (dec.bits + ByteBits * n) - dec.n_bits < ByteBits
  <2>1. CASE n = 1
    BY <1>1, <1>4, <1>5, <2>1
  <2>2. CASE n > 1
    BY <1>2, <1>4, <1>5, <2>2
  <2> QED
    BY <1>4, <2>1, <2>2
<1>8. ByteBits * n < MaxBits + ByteBits
  <2>1. CASE n = 1
    <3>1. MaxBits > 0
      BY <1>4
    <3> QED
      BY <1>4, <1>5, <2>1, <3>1
  <2>2. CASE n > 1
    BY <1>2, <1>4, <1>5, <2>2
  <2> QED
    BY <1>4, <2>1, <2>2
<1>9. ByteBits * ((dec.i_buf_ptr + n) - Len(dec.i_buf)) < MaxBits + ByteBits
  <2>1. (dec.i_buf_ptr + n) - Len(dec.i_buf) <= n
    BY <1>1, <1>4
  <2>2. PICK over \in Int : over = (dec.i_buf_ptr + n) - Len(dec.i_buf)
    BY <1>4
  <2>3. ByteBits * over <= ByteBits * n /\ ByteBits * over \in Int
    BY <1>4, <2>1, <2>2
  <2> QED
    BY <1>4, <1>5, <1>8, <2>2, <2>3
<1>10. 2^dec.n_bits \in Nat /\ 2^dec.n_bits > 0
  BY <1>4, PowerPositive
<1>11. NextCode(dec) \in Nat /\ Filled(dec) \div 2^dec.n_bits \in Nat
  BY <1>3, <1>10, DivModOf DEF NextCode
<1>12. PICK ptr \in Nat : ptr = dec.i_buf_ptr + n
  BY <1>4
<1>13. PICK left \in Nat : left = (dec.bits + ByteBits * n) - dec.n_bits
  BY <1>6
<1>14. PICK rest \in Nat : rest = Filled(dec) \div 2^dec.n_bits
  BY <1>11
<1>15. ReadOf(dec) = [dec EXCEPT !.i_buf_ptr = ptr, !.bits = left, !.buf = rest]
  <2>1. dec.bits + ByteBits * n - dec.n_bits = left
    BY <1>4, <1>5, <1>13
  <2> QED
    BY <1>12, <1>14, <2>1, Zenon DEF ReadOf, n
<1>16. dec \in DecRecord
  BY DecFacts
<1>17. /\ ReadOf(dec) \in DecRecord
       /\ ReadOf(dec).i_buf = dec.i_buf /\ ReadOf(dec).o_buf_size = dec.o_buf_size
       /\ ReadOf(dec).last_code = dec.last_code /\ ReadOf(dec).i_buf_ptr = ptr
       /\ ReadOf(dec).n_bits = dec.n_bits /\ ReadOf(dec).bits = left
       /\ ReadOf(dec).buf = rest
       /\ ReadOf(dec).pred = dec.pred /\ ReadOf(dec).suff = dec.suff
       /\ ReadOf(dec).out = dec.out
  BY <1>15, <1>16 DEF DecRecord
<1> QED
  BY <1>3, <1>4, <1>7, <1>9, <1>11, <1>12, <1>13, <1>14, <1>17, Zenon DEF n

\* What a code stands for that is in the table.
LEMMA StringFacts ==
  ASSUME DecOK, NextCode(dec) \in Nat, NextCode(dec) < DecFree(dec.pred)
  PROVE  StringOf(dec) \in Seq(Symbol) /\ Len(StringOf(dec)) > 0
         /\ StringOf(dec)[1] \in Symbol
<1> DEFINE n == Len(dec.pred)
           g == Expand(dec.pred, dec.suff)
<1>1. n \in Nat /\ Earlier(n, dec.pred) /\ dec.suff \in Seq(Symbol) /\ Len(dec.suff) = n
      /\ DecFree(dec.pred) = First + n
  BY DecFacts DEF DecOK
<1>2. IsStrings(g, n, dec.pred, dec.suff)
  BY <1>1, ExpandIsStrings
<1>3. \A k \in 1 .. n : dec.suff[k] \in Symbol
  BY <1>1
<1> HIDE DEF g, n
<1>4. \A c \in 0 .. First + n - 1 : g[c] \in Seq(Symbol) /\ Len(g[c]) > 0
  BY <1>1, <1>2, <1>3, StringsType
<1>5. NextCode(dec) \in 0 .. First + n - 1
  BY <1>1, FirstFacts
<1>6. StringOf(dec) \in Seq(Symbol) /\ Len(StringOf(dec)) > 0
  BY <1>4, <1>5, Zenon DEF StringOf, g
<1> QED
  BY <1>6

\* The tables after one more code.
LEMMA CompleteFacts ==
  ASSUME NEW suff \in Seq(Symbol), NEW sym \in Symbol
  PROVE  /\ Complete(suff, sym) \in Seq(Symbol)
         /\ Len(Complete(suff, sym)) = Len(suff) + 1
         /\ \A k \in 1 .. Len(suff) - 1 : Complete(suff, sym)[k] = suff[k]
         /\ \A k \in 1 .. Len(suff) + 1 : k >= Len(suff) => Complete(suff, sym)[k] = sym
<1>1. CASE suff = <<>>
  <2>1. Complete(suff, sym) = <<sym>> /\ Len(suff) = 0
    BY <1>1 DEF Complete
  <2> QED
    BY <2>1
<1>2. CASE suff # <<>>
  <2> DEFINE n == Len(suff)
             s == [suff EXCEPT ![n] = sym]
  <2>1. n \in Nat /\ n >= 1 /\ n \in 1 .. n
    BY <1>2
  <2>2. s \in Seq(Symbol) /\ Len(s) = n /\ s[n] = sym
        /\ \A k \in 1 .. n - 1 : s[k] = suff[k]
    BY <2>1
  <2>3. Complete(suff, sym) = Append(s, sym)
    BY <1>2 DEF Complete
  <2> HIDE DEF s
  <2>4. /\ Append(s, sym) \in Seq(Symbol) /\ Len(Append(s, sym)) = n + 1
        /\ \A k \in 1 .. n : Append(s, sym)[k] = s[k]
        /\ Append(s, sym)[n + 1] = sym
    BY <2>2
  <2>5. ASSUME NEW k \in 1 .. n + 1, k >= n PROVE Append(s, sym)[k] = sym
    <3>1. k = n \/ k = n + 1
      BY <2>1, <2>5
    <3> QED
      BY <2>1, <2>2, <2>4, <3>1
  <2>6. ASSUME NEW k \in 1 .. n - 1 PROVE Append(s, sym)[k] = suff[k]
    <3>1. k \in 1 .. n
      BY <2>1
    <3> QED
      BY <2>2, <2>4, <3>1
  <2> QED
    BY <2>3, <2>4, <2>5, <2>6
<1> QED
  BY <1>1, <1>2

LEMMA NextFacts ==
  ASSUME DecOK, Decoding, NextCode(dec) < DecFree(dec.pred)
  PROVE  /\ NextOf(dec) \in DecRecord
         /\ NextOf(dec).i_buf = dec.i_buf /\ NextOf(dec).o_buf_size = dec.o_buf_size
         /\ NextOf(dec).last_code = dec.last_code
         /\ NextOf(dec).i_buf_ptr = ReadOf(dec).i_buf_ptr
         /\ NextOf(dec).bits = ReadOf(dec).bits /\ NextOf(dec).buf = ReadOf(dec).buf
         /\ NextOf(dec).pred = Append(dec.pred, NextCode(dec))
         /\ NextOf(dec).suff = Complete(dec.suff, StringOf(dec)[1])
         /\ NextOf(dec).out = dec.out \o StringOf(dec)
         /\ NextOf(dec).n_bits = IF DecFree(dec.pred) + 1 >= 2^dec.n_bits
                                 THEN dec.n_bits + 1 ELSE dec.n_bits
<1> DEFINE r == ReadOf(dec)
           code == NextCode(dec)
           string == StringOf(dec)
<1>1. /\ r \in DecRecord /\ code \in Nat
      /\ r.i_buf = dec.i_buf /\ r.o_buf_size = dec.o_buf_size
      /\ r.last_code = dec.last_code /\ r.n_bits = dec.n_bits
      /\ r.pred = dec.pred /\ r.suff = dec.suff /\ r.out = dec.out
  BY ReadFacts
<1>2. string \in Seq(Symbol) /\ string[1] \in Symbol
  BY <1>1, StringFacts
<1>3. /\ dec.pred \in Seq(Nat) /\ dec.suff \in Seq(Symbol) /\ dec.out \in Seq(Symbol)
      /\ dec.n_bits \in Nat
  BY DecFacts
<1> HIDE DEF r, code, string
<1>4. PICK pred \in Seq(Nat) : pred = Append(dec.pred, code)
  BY <1>1, <1>3, AppendProperties
<1>5. PICK suff \in Seq(Symbol) : suff = Complete(dec.suff, string[1])
  BY <1>2, <1>3, CompleteFacts
<1>6. PICK out \in Seq(Symbol) : out = dec.out \o string
  BY <1>2, <1>3, ConcatProperties
<1>7. PICK width \in Nat : width = IF DecFree(dec.pred) + 1 >= 2^dec.n_bits
                                   THEN dec.n_bits + 1 ELSE dec.n_bits
  <2>1. CASE DecFree(dec.pred) + 1 >= 2^dec.n_bits
    BY <1>3, <2>1
  <2>2. CASE ~(DecFree(dec.pred) + 1 >= 2^dec.n_bits)
    BY <1>3, <2>2
  <2> QED
    BY <2>1, <2>2
<1>8. NextOf(dec) = [r EXCEPT !.pred = pred, !.suff = suff, !.out = out, !.n_bits = width]
  BY <1>1, <1>4, <1>5, <1>6, <1>7, Zenon DEF NextOf, r, code, string
<1>9. /\ NextOf(dec) \in DecRecord
      /\ NextOf(dec).i_buf = r.i_buf /\ NextOf(dec).o_buf_size = r.o_buf_size
      /\ NextOf(dec).last_code = r.last_code /\ NextOf(dec).i_buf_ptr = r.i_buf_ptr
      /\ NextOf(dec).bits = r.bits /\ NextOf(dec).buf = r.buf
      /\ NextOf(dec).pred = pred /\ NextOf(dec).suff = suff
      /\ NextOf(dec).out = out /\ NextOf(dec).n_bits = width
  BY <1>1, <1>8 DEF DecRecord
<1> QED
  BY <1>1, <1>4, <1>5, <1>6, <1>7, <1>9, Zenon DEF r, code, string

\* The width of the codes follows the table: one code more still fits.
LEMMA WidthFollows ==
  ASSUME NEW free \in Nat, NEW w \in Nat, free < 2^w
  PROVE  /\ free + 1 <= 2^w
         /\ free + 1 >= 2^w => free + 1 < 2^(w + 1)
<1>1. 2^w \in Nat /\ 2^w > 0 /\ 2^(w + 1) = 2 * 2^w
  BY PowerPositive, PowerNext
<1> QED
  BY <1>1

LEMMA DecodeStep ==
  ASSUME LzwInv, Decode PROVE LzwInv'
<1> DEFINE r == ReadOf(dec)
           next == NextOf(dec)
           room == dec.o_buf_size - Len(dec.out)
<1>1. pc = "decompress" /\ n_bits' = n_bits /\ bits' = bits /\ buf' = buf
      /\ stale' = stale /\ enc' = enc
  BY DecodeCases DEF putcodeVars
<1>2. EncOK /\ StaticsOK /\ DecOK /\ PhaseOK
  BY DEF LzwInv
<1>3. Decoding
  BY <1>1, <1>2 DEF PhaseOK
<1>4. /\ r \in DecRecord
      /\ r.i_buf = dec.i_buf /\ r.o_buf_size = dec.o_buf_size
      /\ r.pred = dec.pred /\ r.suff = dec.suff /\ r.out = dec.out
      /\ r.bits < ByteBits
      /\ ByteBits * (r.i_buf_ptr - Len(dec.i_buf)) < MaxBits + ByteBits
      /\ NextCode(dec) \in Nat
  BY <1>2, <1>3, ReadFacts
<1>5. /\ Earlier(Len(dec.pred), dec.pred) /\ Len(dec.suff) = Len(dec.pred)
      /\ DecFree(dec.pred) <= TableSize /\ Len(dec.out) <= dec.o_buf_size
      /\ dec.out \in Seq(Symbol) /\ dec.o_buf_size \in Nat /\ Len(dec.out) \in Nat
      /\ DecFree(dec.pred) = First + Len(dec.pred) /\ Len(dec.pred) \in Nat
      /\ dec.pred \in Seq(Nat) /\ dec.suff \in Seq(Symbol)
      /\ DecFree(dec.pred) \in Nat
  BY <1>2, DecFacts DEF DecOK, StaysInBuffers
<1> HIDE DEF r, next
<1>6. EncOK' /\ StaticsOK'
  BY <1>1, <1>2 DEF EncOK, StaticsOK
<1>7. ASSUME pc' = "returned", rc' \in Int PROVE PhaseOK'
  <2>1. ~stale => n_bits = StartBits /\ bits = 0 /\ buf = 0
    BY <1>1, <1>2 DEF PhaseOK
  <2>2. ~stale' => n_bits' = StartBits /\ bits' = 0 /\ buf' = 0
    BY <1>1, <2>1
  <2>3. stale' \in BOOLEAN
    BY <1>1, <1>2, Zenon DEF PhaseOK
  <2> QED
    BY <1>7, <2>2, <2>3, Zenon DEF PhaseOK
<1>8. ASSUME NEW e \in Int, dec' = r, DecompressReturns(e) PROVE LzwInv'
  <2>1. DecOK'
    BY <1>4, <1>5, <1>8 DEF DecOK, StaysInBuffers
  <2>2. pc' = "returned" /\ rc' \in Int
    BY <1>8 DEF DecompressReturns
  <2> QED
    BY <1>6, <1>7, <2>1, <2>2 DEF LzwInv
<1>9. CASE r.i_buf_ptr > Len(dec.i_buf) \/ DecFree(dec.pred) <= NextCode(dec)
  <2>1. dec' = r /\ (DecompressReturns(-3) \/ DecompressReturns(-4))
    BY <1>9, DecodeCases, Zenon DEF r
  <2>2. -3 \in Int /\ -4 \in Int
    OBVIOUS
  <2> QED
    BY <1>8, <2>1, <2>2
<1>10. CASE /\ ~(r.i_buf_ptr > Len(dec.i_buf)) /\ ~(DecFree(dec.pred) <= NextCode(dec))
  <2>1. NextCode(dec) < DecFree(dec.pred)
    BY <1>4, <1>5, <1>10
  <2> DEFINE string == StringOf(dec)
  <2>2. string \in Seq(Symbol) /\ string[1] \in Symbol /\ Len(string) \in Nat
    BY <1>2, <1>4, <2>1, StringFacts
  <2> HIDE DEF string
  <2>3. CASE Len(string) > room
    <3>1. /\ dec' = [r EXCEPT !.out = @ \o SubSeq(string, 1, room)]
          /\ pc' = "returned" /\ rc' = -5
      BY <1>10, <2>3, DecodeCases, Zenon DEF r, string, DecompressReturns
    <3>2. room \in Nat /\ room <= Len(string)
      BY <1>5, <2>2, <2>3
    <3> DEFINE part == SubSeq(string, 1, room)
    <3>3. part \in Seq(Symbol) /\ Len(part) = room
      BY <2>2, <3>2
    <3> HIDE DEF part
    <3>4. PICK out \in Seq(Symbol) : out = dec.out \o part
      BY <1>5, <3>3, ConcatProperties
    <3>5. Len(out) <= dec.o_buf_size
      BY <1>5, <3>3, <3>4
    <3>6. dec' = [r EXCEPT !.out = out]
      BY <1>4, <3>1, <3>4, Zenon DEF part
    <3>7. /\ dec' \in DecRecord /\ dec'.i_buf = r.i_buf /\ dec'.i_buf_ptr = r.i_buf_ptr
          /\ dec'.o_buf_size = r.o_buf_size
          /\ dec'.pred = r.pred /\ dec'.suff = r.suff /\ dec'.out = out
      BY <1>4, <3>6 DEF DecRecord
    <3>8. DecOK'
      BY <1>4, <1>5, <3>5, <3>7 DEF DecOK, StaysInBuffers
    <3>9. rc' \in Int
      BY <3>1
    <3> QED
      BY <1>6, <1>7, <3>1, <3>8, <3>9 DEF LzwInv
  <2>4. CASE ~(Len(string) > room)
    <3>1. /\ dec' = next
          /\ IF TooWide(next.n_bits) THEN DecompressReturns(-2)
             ELSE IF /\ next.i_buf_ptr < Len(dec.i_buf)
                     /\ DecFree(dec.pred) + 1 < dec.last_code
             THEN UNCHANGED <<pc, rc>>
             ELSE DecompressReturns(Len(next.out))
      BY <1>10, <2>4, DecodeCases, Zenon DEF r, next, string
    <3>2. /\ next \in DecRecord
          /\ next.i_buf = dec.i_buf /\ next.o_buf_size = dec.o_buf_size
          /\ next.i_buf_ptr = r.i_buf_ptr /\ next.bits = r.bits
          /\ next.pred = Append(dec.pred, NextCode(dec))
          /\ next.suff = Complete(dec.suff, string[1])
          /\ next.out = dec.out \o string
          /\ next.n_bits = IF DecFree(dec.pred) + 1 >= 2^dec.n_bits
                           THEN dec.n_bits + 1 ELSE dec.n_bits
      BY <1>2, <1>3, <2>1, NextFacts DEF next, r, string
    <3>3. next.out \in Seq(Symbol) /\ Len(next.out) <= dec.o_buf_size
          /\ Len(next.out) \in Int
      <4>1. Len(dec.out \o string) = Len(dec.out) + Len(string)
            /\ dec.out \o string \in Seq(Symbol)
        BY <1>5, <2>2
      <4> QED
        BY <1>5, <2>2, <2>4, <3>2, <4>1
    <3>4. Len(next.suff) = Len(dec.pred) + 1
      <4>1. Len(Complete(dec.suff, string[1])) = Len(dec.suff) + 1
        BY <1>5, <2>2, CompleteFacts
      <4> QED
        BY <1>5, <3>2, <4>1
    <3>5. /\ Len(next.pred) = Len(dec.pred) + 1
          /\ \A k \in 1 .. Len(dec.pred) : next.pred[k] = dec.pred[k]
          /\ next.pred[Len(dec.pred) + 1] = NextCode(dec)
      BY <1>4, <1>5, <3>2
    <3>6. Earlier(Len(next.pred), next.pred)
      <4> SUFFICES ASSUME NEW k \in 1 .. Len(dec.pred) + 1
                   PROVE  next.pred[k] \in 0 .. First + k - 2
        BY <3>5 DEF Earlier
      <4>1. CASE k \in 1 .. Len(dec.pred)
        BY <1>5, <3>5, <4>1 DEF Earlier
      <4>2. CASE k = Len(dec.pred) + 1
        <5>1. NextCode(dec) \in 0 .. First + k - 2
          BY <1>4, <1>5, <2>1, <4>2, FirstFacts
        <5> QED
          BY <3>5, <4>2, <5>1, Zenon
      <4>3. k \in 1 .. Len(dec.pred) \/ k = Len(dec.pred) + 1
        <5>1. Len(dec.pred) \in Nat
          BY <1>5
        <5> QED
          BY <5>1
      <4> QED
        BY <4>1, <4>2, <4>3, Zenon
    <3>7. DecFree(next.pred) = DecFree(dec.pred) + 1
      BY <1>5, <3>5, FirstFacts DEF DecFree
    <3>8. /\ dec.n_bits \in Nat /\ dec.n_bits \in StartBits .. MaxBits
          /\ DecFree(dec.pred) < 2^dec.n_bits
      BY <1>2, <1>3, DecFacts DEF Decoding
    <3>9. DecFree(next.pred) <= TableSize
      <4>1. 2^dec.n_bits <= 2^MaxBits /\ 2^dec.n_bits \in Nat /\ TableSize = 2^MaxBits
            /\ TableSize \in Nat
        BY <3>8, ConstantFacts, PowerMonotone, PowerPositive
      <4> QED
        BY <1>5, <3>7, <3>8, <4>1
    <3>10. DecOK'
      BY <1>4, <3>1, <3>2, <3>3, <3>4, <3>5, <3>6, <3>9 DEF DecOK, StaysInBuffers
    <3>11. CASE pc' = "returned" /\ rc' \in Int
      BY <1>6, <1>7, <3>10, <3>11 DEF LzwInv
    <3>12. CASE /\ ~TooWide(next.n_bits) /\ next.i_buf_ptr < Len(dec.i_buf)
                /\ UNCHANGED <<pc, rc>>
      <4>1. next.n_bits \in StartBits .. MaxBits
        <5>1. next.n_bits <= MaxBits
          BY <3>2, <3>8, <3>12, ConstantFacts DEF TooWide
        <5> QED
          BY <3>2, <3>8, <5>1, ConstantFacts
      <4>2. DecFree(next.pred) < 2^next.n_bits
        <5>1. 2^dec.n_bits \in Nat
          BY <3>8, PowerPositive
        <5>2. DecFree(dec.pred) + 1 >= 2^dec.n_bits
                => DecFree(dec.pred) + 1 < 2^(dec.n_bits + 1)
          BY <1>5, <3>8, WidthFollows
        <5>3. CASE DecFree(dec.pred) + 1 >= 2^dec.n_bits
          BY <3>2, <3>7, <5>2, <5>3, Zenon
        <5>4. CASE ~(DecFree(dec.pred) + 1 >= 2^dec.n_bits)
          <6>1. DecFree(dec.pred) + 1 < 2^dec.n_bits
            BY <1>5, <5>1, <5>4
          <6> QED
            BY <3>2, <3>7, <5>4, <6>1, Zenon
        <5> QED
          BY <5>3, <5>4
      <4>3. next.i_buf_ptr <= Len(next.i_buf)
        <5>1. next.i_buf_ptr \in Nat /\ Len(dec.i_buf) \in Nat
          BY <1>2, <3>2, DecFacts DEF DecRecord
        <5> QED
          BY <3>2, <3>12, <5>1
      <4>4. Decoding'
        BY <1>4, <3>1, <3>2, <4>1, <4>2, <4>3 DEF Decoding
      <4>5. ~stale => n_bits = StartBits /\ bits = 0 /\ buf = 0
        BY <1>1, <1>2 DEF PhaseOK
      <4>6. ~stale' => n_bits' = StartBits /\ bits' = 0 /\ buf' = 0
        BY <1>1, <4>5
      <4>7. pc' = "decompress" /\ rc' \in Int /\ stale' \in BOOLEAN
        BY <1>1, <1>2, <3>12, Zenon DEF PhaseOK
      <4>8. PhaseOK'
        BY <4>4, <4>6, <4>7, Zenon DEF PhaseOK
      <4> QED
        BY <1>6, <3>10, <4>8 DEF LzwInv
    <3>13. -2 \in Int
      OBVIOUS
    <3> QED
      BY <3>1, <3>3, <3>11, <3>12, <3>13, Zenon DEF DecompressReturns
  <2> QED
    BY <2>3, <2>4
<1> QED
  BY <1>9, <1>10

LEMMA TakenStep ==
  ASSUME LzwInv, Taken PROVE LzwInv'
<1>1. /\ pc = "returned" /\ pc' = "idle" /\ enc' = NoEnc /\ dec' = NoDec /\ rc' = 0
      /\ n_bits' = n_bits /\ bits' = bits /\ buf' = buf /\ stale' = stale
  BY DEF Taken, putcodeVars
<1>2. StaticsOK /\ PhaseOK
  BY DEF LzwInv
<1>3. EncOK'
  <2>1. enc' \in EncRecord
    BY <1>1 DEF NoEnc, EncRecord
  <2> QED
    BY <1>1, <2>1, ConstantFacts DEF EncOK, NoEnc, EncFree
<1>4. DecOK'
  <2>1. dec' \in DecRecord
    BY <1>1, ConstantFacts DEF NoDec, DecRecord
  <2>2. /\ Len(dec'.suff) = 0 /\ Len(dec'.pred) = 0 /\ Len(dec'.out) = 0
        /\ dec'.o_buf_size = 0 /\ dec'.i_buf_ptr = 0 /\ Len(dec'.i_buf) = 0
    BY <1>1 DEF NoDec
  <2>3. ByteBits * (0 - 0) < MaxBits + ByteBits
    BY ConstantFacts
  <2>4. StaysInBuffers'
    BY <2>2, <2>3, ConstantFacts DEF StaysInBuffers, DecFree
  <2> QED
    BY <2>1, <2>2, <2>4 DEF DecOK, Earlier
<1>5. StaticsOK'
  BY <1>1, <1>2 DEF StaticsOK
<1>6. PhaseOK'
  <2>1. ~stale => n_bits = StartBits /\ bits = 0 /\ buf = 0
    BY <1>1, <1>2 DEF PhaseOK
  <2>2. ~stale' => n_bits' = StartBits /\ bits' = 0 /\ buf' = 0
    BY <1>1, <2>1
  <2>3. stale' \in BOOLEAN
    BY <1>1, <1>2, Zenon DEF PhaseOK
  <2>4. 0 \in Int
    OBVIOUS
  <2> QED
    BY <1>1, <2>2, <2>3, <2>4, Zenon DEF PhaseOK
<1> QED
  BY <1>3, <1>4, <1>5, <1>6 DEF LzwInv

LEMMA NextStep ==
  ASSUME LzwInv, LzwNext PROVE LzwInv'
<1>1. ASSUME Call PROVE LzwInv'
  <2>1. pc = "idle"
    BY <1>1 DEF Call
  <2>2. CASE \E i_buf \in IF stale THEN AgainInputs ELSE Inputs, size \in Sizes :
               Compress(i_buf, size)
    <3>1. AgainInputs \subseteq Inputs
      BY InputsAssumption
    <3>2. PICK i_buf \in Inputs, size \in Sizes : Compress(i_buf, size)
      BY <2>2, <3>1, Zenon
    <3> QED
      BY <3>2, CompressStep
  <2>3. CASE \E i_buf \in Damaged, size \in Sizes, last_code \in 1 .. 2 * TableSize :
               DecompressDamaged(i_buf, size, last_code)
    BY <2>1, <2>3, DamagedStep
  <2> QED
    BY <1>1, <2>2, <2>3 DEF Call
<1> QED
  BY <1>1, KnownStep, UnknownStep, LastCodeStep, FlushStep, DecompressStep, DecodeStep,
     TakenStep DEF LzwNext

LEMMA StutterStep ==
  ASSUME LzwInv, UNCHANGED lzwVars PROVE LzwInv'
<1>1. /\ pc' = pc /\ n_bits' = n_bits /\ bits' = bits /\ buf' = buf /\ stale' = stale
      /\ enc' = enc /\ dec' = dec /\ rc' = rc
  BY DEF lzwVars, putcodeVars
<1>2. StaticsOK' /\ EncOK' /\ DecOK'
  BY <1>1 DEF LzwInv, StaticsOK, EncOK, DecOK, StaysInBuffers
<1>3. PhaseOK'
  <2>1. Decoding => Decoding'
    BY <1>1 DEF Decoding
  <2>2. (~stale => n_bits = StartBits /\ bits = 0 /\ buf = 0)
          => (~stale' => n_bits' = StartBits /\ bits' = 0 /\ buf' = 0)
    BY <1>1
  <2>3. PhaseOK
    BY DEF LzwInv
  <2> QED
    BY <1>1, <2>1, <2>2, <2>3, Zenon DEF PhaseOK
<1> QED
  BY <1>2, <1>3 DEF LzwInv

\* The inductive invariant holds, whatever is compressed and whatever stream is
\* decompressed: what the theorems below rest on.
THEOREM LzwInvariant == LzwSpec => []LzwInv
<1>1. LzwInit => LzwInv
  BY InitInv
<1>2. LzwInv /\ [LzwNext]_lzwVars => LzwInv'
  BY NextStep, StutterStep
<1> QED
  BY <1>1, <1>2, PTL DEF LzwSpec

\* Types, for every width of symbols, bytes and codes: the statics of putcode keep
\* a code width that the table allows and a value that the bit buffer holds, even
\* after a failed call; every entry of the table names a code before it.
THEOREM LzwTypeCorrect == LzwSpec => []LzwTypeOK
<1>1. LzwInv => LzwTypeOK
  <2> SUFFICES ASSUME LzwInv PROVE LzwTypeOK
    OBVIOUS
  <2>1. EncOK /\ StaticsOK /\ DecOK /\ PhaseOK
    BY DEF LzwInv
  <2>2. /\ pc \in {"idle", "compress", "flush", "packed", "decompress", "returned"}
        /\ stale \in BOOLEAN /\ rc \in Int
    BY <2>1, Zenon DEF PhaseOK
  <2>3. buf \in 0 .. 2^BufBits - 1
    <3>1. 2^BufBits \in Nat
      BY ConstantFacts, PowerPositive
    <3> QED
      BY <2>1, <3>1 DEF StaticsOK
  <2>4. enc.ent \in 0 .. EncFree(enc.dict) - 1
    BY <2>1, EncFacts DEF EncOK
  <2>5. ASSUME NEW k \in DOMAIN enc.dict
        PROVE  enc.dict[k] \in (0 .. First + k - 2) \X Symbol
    <3>1. k \in 1 .. Len(enc.dict)
      BY <2>1, EncFacts
    <3>2. /\ enc.dict[k][1] \in 0 .. First + k - 2 /\ enc.dict[k][2] \in Symbol
          /\ enc.dict[k] = <<enc.dict[k][1], enc.dict[k][2]>>
      BY <2>1, <3>1, EncFacts DEF EncOK
    <3> QED
      BY <3>2
  <2>6. n_bits \in StartBits .. MaxBits /\ bits \in Nat
    BY <2>1 DEF StaticsOK
  <2>7. enc.out \in Seq(Byte) /\ Len(enc.out) <= enc.o_buf_size /\ dec.out \in Seq(Symbol)
    BY <2>1, EncFacts, DecFacts DEF EncOK
  <2> QED
    BY <2>2, <2>3, <2>4, <2>5, <2>6, <2>7, Zenon DEF LzwTypeOK
<1> QED
  BY <1>1, LzwInvariant, PTL

\* Only a failed call of compress spoils the statics that the next one starts with.
THEOREM StaticsAreClean == LzwSpec => []CleanBetweenCalls
<1>1. LzwInv => CleanBetweenCalls
  BY Zenon DEF LzwInv, PhaseOK, CleanBetweenCalls
<1> QED
  BY <1>1, LzwInvariant, PTL

\* No stream makes decompress leave its tables or the output, or read more than one
\* code's bytes behind the input: unlzw.c for every input and every header.
THEOREM DecompressStaysInBuffers == LzwSpec => []StaysInBuffers
<1>1. LzwInv => StaysInBuffers
  BY DEF LzwInv, DecOK
<1> QED
  BY <1>1, LzwInvariant, PTL

-----------------------------------------------------------------------------
(***************************************************************************)
(* What was compressed comes back: InStep and RoundTrip of Lzw, for every  *)
(* input and every width of symbols, bytes and codes.                      *)
(*                                                                         *)
(* Two invariants carry the proof.  BitsInv is about the packing: there is *)
(* one number V, whose binary digits are the codes one after the other,    *)
(* that the compressor's output and bit buffer are the bytes of, and that  *)
(* the decompressor takes its codes from.  PhraseInv is about the tables:  *)
(* the codes stand for the pieces of the input, one after the other, and   *)
(* the decompressor's table is the compressor's, one entry behind.         *)
(***************************************************************************)
\* The codes of a call of compress: those written are kept in its table, the last
\* one is in hand.
Codes(e) == Len(e.dict) + 1
Code(e, k) == IF k <= Len(e.dict) THEN e.dict[k][1] ELSE e.ent

\* The width of the codes that are written when the table ends before free.
IsWidth(w, free) ==
  /\ w \in Nat /\ w >= StartBits /\ free < 2^w
  /\ w > StartBits => 2^(w - 1) <= free

\* V holds the first n codes: code k in the bits pos[k] up to pos[k + 1].
Holds(e, n, V, pos) ==
  /\ V \in Nat /\ pos \in [1 .. n + 1 -> Nat] /\ pos[1] = 0 /\ V < 2^pos[n + 1]
  /\ \A k \in 1 .. n :
       /\ IsWidth(pos[k + 1] - pos[k], First + k - 1)
       /\ (V \div 2^pos[k]) % 2^(pos[k + 1] - pos[k]) = Code(e, k)

\* The bytes of V, lowest first.
ByteOf(V, i) == (V \div 2^(ByteBits * (i - 1))) % 2^ByteBits
AreBytes(out, V) == \A i \in 1 .. Len(out) : out[i] = ByteOf(V, i)

\* n codes are in these bytes and in the bits of x.
Packs(e, n, V, pos, out, x, b) ==
  /\ Holds(e, n, V, pos) /\ AreBytes(out, V)
  /\ x = V \div 2^(ByteBits * Len(out))
  /\ pos[n + 1] = ByteBits * Len(out) + b /\ b < ByteBits

\* n codes are in the output and in the bit buffer.
Writing(n, V, pos) == Packs(enc, n, V, pos, enc.out, buf, bits)

\* All codes are in the output, whose last byte they reach.
Written(V, pos) ==
  /\ Holds(enc, Codes(enc), V, pos) /\ AreBytes(enc.out, V)
  /\ pos[Codes(enc) + 1] <= ByteBits * Len(enc.out)
  /\ ByteBits * Len(enc.out) < pos[Codes(enc) + 1] + ByteBits

\* The decompressor has taken a code for every entry of its table.
ReadingBits(V, pos) ==
  LET k == Len(dec.pred)
  IN  /\ Written(V, pos) /\ dec.i_buf = enc.out
      /\ k < Codes(enc) /\ IsWidth(dec.n_bits, First + k)
      /\ ByteBits * dec.i_buf_ptr = pos[k + 1] + dec.bits
      /\ dec.buf = (V \div 2^pos[k + 1]) % 2^dec.bits

BitsInv ==
  enc.pure =>
    /\ pc = "compress" => /\ \E V, pos : Writing(Len(enc.dict), V, pos)
                          /\ IsWidth(n_bits, First + Len(enc.dict) - 1)
    /\ pc = "flush" => \E V, pos : Writing(Codes(enc), V, pos)
    /\ pc = "packed" => \E V, pos : Written(V, pos)
    /\ pc = "decompress" => \E V, pos : ReadingBits(V, pos)

\* The codes stand for the pieces of the input, code k for the one behind start[k];
\* the symbol of entry k is the first one of the piece that follows.
Parsed(e, start) ==
  LET P == Phrase(e.dict)
  IN  /\ start \in [1 .. Codes(e) + 1 -> Nat] /\ start[1] = 0
      /\ start[Codes(e) + 1] = e.i_buf_ptr /\ e.i_buf_ptr <= Len(e.i_buf)
      /\ \A k \in 1 .. Codes(e) :
           /\ start[k + 1] = start[k] + Len(P[Code(e, k)])
           /\ \A j \in 1 .. Len(P[Code(e, k)]) :
                e.i_buf[start[k] + j] = P[Code(e, k)][j]
      /\ \A k \in 1 .. Len(e.dict) : e.dict[k][2] = e.i_buf[start[k + 1] + 1]

\* The decompressor has the entries of the compressor, but for the symbol of the
\* last one, and the pieces of the input that its codes stand for.
Follows(d, start) ==
  LET k == Len(d.pred)
      P == Phrase(enc.dict)
  IN  /\ k <= Codes(enc) /\ \A j \in 1 .. k : d.pred[j] = Code(enc, j)
      /\ \A j \in 1 .. k - 1 : d.suff[j] = enc.dict[j][2]
      /\ k > 0 => d.suff[k] = P[Code(enc, k)][1]
      /\ Len(d.out) = start[k + 1]
      /\ \A i \in 1 .. Len(d.out) : d.out[i] = enc.i_buf[i]

\* The decompressor was given what the compressor returned.
Returning == pc = "returned" /\ dec.i_buf # <<>>

PhraseInv ==
  /\ pc = "idle" => ~enc.pure
  /\ pc \in {"idle", "compress", "flush", "packed"} => dec.i_buf = <<>>
  /\ enc.pure =>
       /\ pc \in {"compress", "flush", "packed"} => \E start : Parsed(enc, start)
       /\ pc = "decompress" \/ Returning => \E start : Parsed(enc, start) /\ Follows(dec, start)
       /\ pc \in {"flush", "packed", "decompress"} \/ Returning =>
            enc.i_buf_ptr = Len(enc.i_buf)
       /\ pc = "decompress" => /\ Len(dec.pred) < Codes(enc)
                               /\ dec.o_buf_size = Len(enc.i_buf)
                               /\ dec.last_code = EncFree(enc.dict) + 1
       /\ Returning =>
            /\ Len(dec.pred) = Codes(enc)
            /\ rc = IF EncFree(enc.dict) + 1 < TableSize THEN Len(enc.i_buf) ELSE -2

RoundTripInv == LzwInv /\ BitsInv /\ PhraseInv

-----------------------------------------------------------------------------
(* Widths. *)

LEMMA WidthUnique ==
  ASSUME NEW v, NEW w, NEW free \in Nat, IsWidth(v, free), IsWidth(w, free)
  PROVE  v = w
<1>1. ASSUME NEW x, NEW y, IsWidth(x, free), IsWidth(y, free), x < y PROVE FALSE
  <2>1. /\ x \in Nat /\ y \in Nat /\ x >= StartBits /\ free < 2^x
        /\ y > StartBits => 2^(y - 1) <= free
    BY <1>1 DEF IsWidth
  <2>2. y > StartBits /\ y - 1 \in Nat /\ x <= y - 1
    BY <1>1, <2>1, ConstantFacts
  <2>3. 2^x <= 2^(y - 1) /\ 2^x \in Nat /\ 2^(y - 1) \in Nat
    BY <2>1, <2>2, PowerMonotone, PowerPositive
  <2> QED
    BY <2>1, <2>2, <2>3
<1>2. v \in Nat /\ w \in Nat
  BY DEF IsWidth
<1> QED
  BY <1>1, <1>2

\* Both sides widen their codes when the table has grown by one.
LEMMA WidthGrows ==
  ASSUME NEW free \in Nat, NEW w, IsWidth(w, free)
  PROVE  /\ free + 1 >= 2^w => IsWidth(w + 1, free + 1)
         /\ ~(free + 1 >= 2^w) => IsWidth(w, free + 1)
<1>1. /\ w \in Nat /\ w >= StartBits /\ free < 2^w
      /\ w > StartBits => 2^(w - 1) <= free
  BY DEF IsWidth
<1>2. 2^w \in Nat /\ 2^w > 0 /\ 2^(w + 1) = 2 * 2^w
  BY <1>1, PowerPositive, PowerNext
<1>3. ASSUME free + 1 >= 2^w PROVE IsWidth(w + 1, free + 1)
  <2>1. free + 1 < 2^(w + 1)
    BY <1>1, <1>2, <1>3
  <2>2. (w + 1) - 1 = w /\ w + 1 \in Nat /\ w + 1 >= StartBits
    BY <1>1, ConstantFacts
  <2> QED
    BY <1>3, <2>1, <2>2 DEF IsWidth
<1>4. ASSUME ~(free + 1 >= 2^w) PROVE IsWidth(w, free + 1)
  <2>1. free + 1 < 2^w
    BY <1>2, <1>4
  <2>2. ASSUME w > StartBits PROVE 2^(w - 1) <= free + 1
    <3>1. w - 1 \in Nat
      BY <1>1, <2>2, ConstantFacts
    <3>2. 2^(w - 1) \in Nat
      BY <3>1, PowerPositive
    <3> QED
      BY <1>1, <2>2, <3>2
  <2> QED
    BY <1>1, <2>1, <2>2 DEF IsWidth
<1> QED
  BY <1>3, <1>4

\* The first code of either side.
LEMMA FirstWidth == IsWidth(StartBits, First - 1) /\ IsWidth(StartBits, First)
<1>1. StartBits \in Nat /\ First \in Nat /\ First > 0 /\ First < 2^StartBits
  BY ConstantFacts
<1>2. 2^StartBits \in Nat /\ ~(StartBits > StartBits) /\ StartBits >= StartBits
  BY <1>1, PowerPositive
<1>3. First - 1 < 2^StartBits
  BY <1>1, <1>2
<1> QED
  BY <1>1, <1>2, <1>3 DEF IsWidth

-----------------------------------------------------------------------------
(* Numbers that hold codes. *)

LEMMA FieldBelow ==
  ASSUME NEW V \in Nat, NEW c \in Nat, NEW p \in Nat, NEW q \in Nat, NEW u \in Nat,
         q + u <= p
  PROVE  ((V + c * 2^p) \div 2^q) % 2^u = (V \div 2^q) % 2^u
<1> DEFINE r == p - (q + u)
<1>1. r \in Nat /\ p = q + (u + r) /\ u + r \in Nat
  OBVIOUS
<1> HIDE DEF r
<1>2. /\ 2^q \in Nat /\ 2^q > 0 /\ 2^u \in Nat /\ 2^u > 0 /\ 2^r \in Nat
      /\ 2^(u + r) = 2^u * 2^r /\ 2^p = 2^q * 2^(u + r)
  BY <1>1, PowerPositive, PowerOfSum
<1>3. c * 2^p = ((c * 2^r) * 2^u) * 2^q /\ (c * 2^r) * 2^u \in Nat /\ c * 2^r \in Nat
  <2> DEFINE a == 2^u
             b == 2^r
             d == 2^q
  <2>1. a \in Nat /\ b \in Nat /\ d \in Nat /\ 2^p = d * (a * b)
    BY <1>2
  <2> HIDE DEF a, b, d
  <2>2. c * (d * (a * b)) = ((c * b) * a) * d /\ (c * b) * a \in Nat /\ c * b \in Nat
    BY <2>1
  <2> QED
    BY <2>1, <2>2 DEF a, b, d
<1> DEFINE e == (c * 2^r) * 2^u
           X == V \div 2^q
<1>4. e \in Nat /\ c * 2^p = e * 2^q /\ X \in Nat
  BY <1>2, <1>3, DivModOf
<1>5. (V + e * 2^q) \div 2^q = X + e
  <2> HIDE DEF e
  <2> QED
    BY <1>2, <1>4, DivModOfSum
<1>6. (X + (c * 2^r) * 2^u) % 2^u = X % 2^u
  <2> DEFINE y == c * 2^r
             b == 2^u
  <2>1. X \in Nat /\ y \in Nat /\ b \in Nat /\ b > 0
    BY <1>2, <1>3, <1>4, Zenon
  <2> HIDE DEF X, y, b
  <2>2. (X + y * b) % b = X % b
    BY <2>1, DivModOfSum, ZenonT(40)
  <2> QED
    BY <2>2, Zenon DEF y, b
<1> HIDE DEF X
<1> QED
  BY <1>4, <1>5, <1>6 DEF X

LEMMA FieldAbove ==
  ASSUME NEW V \in Nat, NEW c \in Nat, NEW p \in Nat, NEW w \in Nat, V < 2^p, c < 2^w
  PROVE  ((V + c * 2^p) \div 2^p) % 2^w = c
<1>1. 2^p \in Nat /\ 2^p > 0 /\ 2^w \in Nat /\ 2^w > 0
  BY PowerPositive
<1>2. (V + c * 2^p) \div 2^p = V \div 2^p + c /\ V + c * 2^p \in Nat
  BY <1>1, DivModOfSum
<1>3. V = 0 * 2^p + V
  BY <1>1
<1>4. V \div 2^p = 0
  BY <1>1, <1>3, DivModUnique
<1>5. c = 0 * 2^w + c
  BY <1>1
<1>6. c % 2^w = c
  BY <1>1, <1>5, DivModUnique
<1>7. V \div 2^p + c = c
  BY <1>4
<1> QED
  BY <1>2, <1>6, <1>7, Zenon

\* Two quotients by powers are one.
LEMMA ShiftTwice ==
  ASSUME NEW V \in Nat, NEW a \in Nat, NEW b \in Nat
  PROVE  (V \div 2^a) \div 2^b = V \div 2^(a + b)
<1> DEFINE x == 2^a
           y == 2^b
<1>1. x \in Nat /\ x > 0 /\ y \in Nat /\ y > 0 /\ 2^(a + b) = x * y
  BY PowerPositive, PowerOfSum
<1>2. (V \div x) \div y = V \div (x * y)
  <2> HIDE DEF x, y
  <2> QED
    BY <1>1, DivModTwice
<1> HIDE DEF x, y
<1>3. (V \div x) \div y = V \div 2^(a + b)
  BY <1>1, <1>2, Zenon
<1> QED
  BY <1>3 DEF x, y

\* The codes lie one behind the other.
LEMMA PosMonotone ==
  ASSUME NEW e, NEW n \in Nat, NEW V, NEW pos, Holds(e, n, V, pos)
  PROVE  \A i \in 1 .. n + 1, j \in 1 .. n + 1 : i <= j => pos[i] <= pos[j]
<1> SUFFICES ASSUME NEW i \in 1 .. n + 1 PROVE \A j \in 1 .. n + 1 : i <= j => pos[i] <= pos[j]
  OBVIOUS
<1> DEFINE Wrong == {j \in 1 .. n + 1 : i <= j /\ ~(pos[i] <= pos[j])}
<1> SUFFICES ASSUME Wrong # {} PROVE FALSE
  OBVIOUS
<1>1. PICK j \in Wrong : \A k \in 0 .. j - 1 : k \notin Wrong
  <2>1. Wrong \in SUBSET Nat
    OBVIOUS
  <2> HIDE DEF Wrong
  <2> QED
    BY <2>1, LeastNumber
<1>2. pos \in [1 .. n + 1 -> Nat]
  BY DEF Holds
<1>3. i # j
  <2>1. pos[i] \in Nat
    BY <1>2
  <2> QED
    BY <2>1
<1>4. j - 1 \in 1 .. n /\ i <= j - 1 /\ j - 1 \in 0 .. j - 1 /\ j - 1 \in 1 .. n + 1
      /\ (j - 1) + 1 = j
  BY <1>3
<1>5. pos[i] <= pos[j - 1]
  BY <1>1, <1>4
<1>6. IsWidth(pos[(j - 1) + 1] - pos[j - 1], First + (j - 1) - 1)
  BY <1>4 DEF Holds
<1>7. pos[j] - pos[j - 1] \in Nat
  BY <1>4, <1>6, Zenon DEF IsWidth
<1>8. pos[i] \in Nat /\ pos[j] \in Nat /\ pos[j - 1] \in Nat
  BY <1>2, <1>4
<1>9. pos[i] <= pos[j]
  BY <1>5, <1>7, <1>8
<1> QED
  BY <1>9

-----------------------------------------------------------------------------
(* One code more in the output and in the bit buffer. *)

\* putcode when all goes well.
LEMMA PutCodeGoesWell ==
  ASSUME NEW e, NEW code, PutCode(e, code).ok, n_bits \in Nat
  PROVE  LET wide == Widened(EncFree(e.dict))
             n    == (bits + wide) \div ByteBits
             v    == (buf + code * 2^bits) % 2^BufBits
             p    == PutCode(e, code)
         IN  /\ wide <= MaxBits /\ p.n_bits = wide
             /\ p.bits = (bits + (wide - ByteBits * n))
             /\ p.buf = v \div 2^(ByteBits * n) /\ p.out = e.out \o LowBytes(v, n)
<1> DEFINE free == EncFree(e.dict)
           room == e.o_buf_size - Len(e.out)
           wide == Widened(free)
           v    == (buf + code * 2^bits) % 2^BufBits
           n    == (bits + wide) \div ByteBits
           fit  == IF n <= room THEN n ELSE room
           p    == PutCode(e, code)
           low  == LowBytes(v, fit)
<1>1. p = IF Full(e)
          THEN [ok |-> FALSE, n_bits |-> n_bits, bits |-> bits, buf |-> buf,
                out |-> e.out]
          ELSE IF wide > MaxBits
          THEN [ok |-> FALSE, n_bits |-> wide, bits |-> bits, buf |-> buf,
                out |-> e.out]
          ELSE [ok |-> n <= room /\ code <= free, n_bits |-> wide,
                bits |-> bits + wide - ByteBits * fit, buf |-> v \div 2^(ByteBits * fit),
                out |-> e.out \o low]
  BY Zenon DEF PutCode
<1>2. p.ok
  OBVIOUS
<1> HIDE DEF p, wide, v, n, low, room, free
<1>3. ~Full(e) /\ ~(wide > MaxBits) /\ n <= room
  <2>1. ASSUME Full(e) PROVE FALSE
    BY <1>1, <1>2, <2>1
  <2>2. ASSUME wide > MaxBits PROVE FALSE
    BY <1>1, <1>2, <2>1, <2>2
  <2>3. p.ok = (n <= room /\ code <= free)
    BY <1>1, <2>1, <2>2
  <2> QED
    BY <1>2, <2>1, <2>2, <2>3, Zenon
<1>4. fit = n
  BY <1>3
<1>5. /\ p.n_bits = wide /\ p.bits = (bits + wide - ByteBits * n)
      /\ p.buf = v \div 2^(ByteBits * n) /\ p.out = e.out \o LowBytes(v, n)
  <2>1. p = [ok |-> n <= room /\ code <= free, n_bits |-> wide,
             bits |-> bits + wide - ByteBits * n, buf |-> v \div 2^(ByteBits * n),
             out |-> e.out \o LowBytes(v, n)]
    BY <1>1, <1>3, <1>4, Zenon DEF low
  <2> QED
    BY <2>1, Zenon
<1>6. wide <= MaxBits
  <2>1. wide \in Nat /\ MaxBits \in Nat
    BY ConstantFacts DEF wide, Widened
  <2> QED
    BY <1>3, <2>1
<1> QED
  BY <1>5, <1>6, Zenon DEF p, wide, v, n, free

\* The bit buffer with a code is what the output does not hold of the number that the
\* code was put into.
BufferHolds(V, s, b, c) ==
  (V \div 2^s + c * 2^b) % 2^BufBits = (V + c * 2^(s + b)) \div 2^s

LEMMA PackBuffer ==
  ASSUME NEW V \in Nat, NEW s \in Nat, NEW b \in Nat, NEW c \in Nat, NEW w \in Nat,
         V < 2^(s + b), c < 2^w, b + w <= BufBits
  PROVE  BufferHolds(V, s, b, c)
<1> DEFINE a == 2^s
           d == 2^b
           m == 2^BufBits
           x == V \div 2^s
           z == x + c * d
<1>1. /\ a \in Nat /\ a > 0 /\ d \in Nat /\ 2^(s + b) = a * d
      /\ m \in Nat /\ m > 0 /\ BufBits \in Nat
  BY PowerPositive, PowerOfSum, ConstantFacts
<1>2. x \in Nat /\ x < 2^((s + b) - s)
  BY BitsLeft
<1>3. x < 2^b
  <2>1. (s + b) - s = b
    OBVIOUS
  <2> QED
    BY <1>2, <2>1
<1>4. z \in Nat /\ z < m
  <2>1. z \in Nat /\ z < 2^(b + w)
    BY <1>2, <1>3, CodeAbove
  <2>2. 2^(b + w) <= m /\ 2^(b + w) \in Nat
    BY <1>1, PowerMonotone, PowerPositive
  <2> HIDE DEF z, m
  <2> QED
    BY <1>1, <2>1, <2>2
<1>5. (V + (c * d) * a) \div a = V \div a + c * d
  <2>1. c * d \in Nat
    BY <1>1
  <2> HIDE DEF a, d
  <2> QED
    BY <1>1, <2>1, DivModOfSum
<1>6. (c * d) * a = c * 2^(s + b)
  <2> HIDE DEF a, d
  <2>1. (c * d) * a = c * (a * d)
    BY <1>1
  <2> QED
    BY <1>1, <2>1, Zenon
<1>7. (V + c * 2^(s + b)) \div a = z
  <2> HIDE DEF a, d
  <2>1. V \div a = x
    BY DEF a
  <2> QED
    BY <1>5, <1>6, <2>1, Zenon
<1> HIDE DEF z, m
<1>8. z % m = z
  <2>1. z = 0 * m + z
    BY <1>1, <1>4
  <2> QED
    BY <1>1, <1>4, <2>1, DivModUnique
<1>9. z % m = (V + c * 2^(s + b)) \div 2^s
  BY <1>7, <1>8, Zenon
<1> QED
  BY <1>9, Zenon DEF z, m, BufferHolds

LEMMA LowBytesAre ==
  ASSUME NEW W \in Nat, NEW L \in Nat, NEW n \in Nat, NEW k \in 1 .. n
  PROVE  LowBytes(W \div 2^(ByteBits * L), n)[k] = ByteOf(W, L + k)
<1> DEFINE X == W \div 2^(ByteBits * L)
<1>1. LowBytes(X, n)[k] = (X \div 2^(ByteBits * (k - 1))) % 2^ByteBits
  BY Zenon DEF LowBytes
<1>2. ByteBits \in Nat
  BY ConstantFacts
<1>3. /\ ByteBits * L \in Nat /\ ByteBits * (k - 1) \in Nat
      /\ ByteBits * L + ByteBits * (k - 1) = ByteBits * ((L + k) - 1)
  BY <1>2
<1>4. X \div 2^(ByteBits * (k - 1)) = W \div 2^(ByteBits * L + ByteBits * (k - 1))
  BY <1>3, ShiftTwice
<1> HIDE DEF X
<1>5. X \div 2^(ByteBits * (k - 1)) = W \div 2^(ByteBits * ((L + k) - 1))
  BY <1>3, <1>4, Zenon
<1> QED
  BY <1>1, <1>5, Zenon DEF X, ByteOf

\* putcode(ent) puts the string in hand behind the codes so far, as wide as the table
\* asks for.
LEMMA EncoderPacks ==
  ASSUME LzwInv, pc = "compress", NEW V, NEW pos, Writing(Len(enc.dict), V, pos),
         IsWidth(n_bits, First + Len(enc.dict) - 1), PutCode(enc, enc.ent).ok
  PROVE  LET p == PutCode(enc, enc.ent)
         IN  /\ \E W, pos2 : Packs(enc, Len(enc.dict) + 1, W, pos2, p.out, p.buf, p.bits)
             /\ IsWidth(p.n_bits, First + Len(enc.dict))
<1> DEFINE N    == Len(enc.dict)
           L    == Len(enc.out)
           P    == pos[N + 1]
           c    == enc.ent
           wide == Widened(EncFree(enc.dict))
           W    == V + c * 2^P
           n    == (bits + wide) \div ByteBits
           v    == (buf + c * 2^bits) % 2^BufBits
           p    == PutCode(enc, c)
           pos2 == [k \in 1 .. N + 2 |-> IF k = N + 2 THEN P + wide ELSE pos[k]]
<1>1. /\ N \in Nat /\ L \in Nat /\ c \in Nat /\ enc.out \in Seq(Byte)
      /\ EncFree(enc.dict) = First + N /\ c < First + N
      /\ bits \in Nat /\ buf \in Nat /\ n_bits \in Nat
  <2>1. StaticsOK /\ EncOK
    BY Zenon DEF LzwInv
  <2>2. N \in Nat /\ L \in Nat /\ c \in Nat /\ enc.out \in Seq(Byte)
        /\ EncFree(enc.dict) = First + N
    BY <2>1, EncFacts, Zenon
  <2>3. c < First + N
    BY <2>1, <2>2, Zenon DEF EncOK
  <2>4. bits \in Nat /\ buf \in Nat /\ n_bits \in Nat
    BY <2>1, ConstantFacts DEF StaticsOK
  <2> QED
    BY <2>2, <2>3, <2>4, Zenon
<1>2. /\ Holds(enc, N, V, pos) /\ AreBytes(enc.out, V)
      /\ buf = V \div 2^(ByteBits * L) /\ P = ByteBits * L + bits /\ bits < ByteBits
  BY Zenon DEF Writing, Packs
<1>3. /\ V \in Nat /\ pos \in [1 .. N + 1 -> Nat] /\ pos[1] = 0 /\ V < 2^P
      /\ \A k \in 1 .. N :
           /\ IsWidth(pos[k + 1] - pos[k], First + k - 1)
           /\ (V \div 2^pos[k]) % 2^(pos[k + 1] - pos[k]) = Code(enc, k)
  BY <1>2, Zenon DEF Holds
<1>4. P \in Nat
  <2>1. N + 1 \in 1 .. N + 1
    <3> HIDE DEF N
    <3> QED
      BY <1>1
  <2> QED
    BY <1>3, <2>1, Zenon
<1>5. IsWidth(wide, First + N)
  <2>1. First + N - 1 \in Nat /\ (First + N - 1) + 1 = First + N
    BY <1>1, FirstFacts
  <2>2. /\ First + N >= 2^n_bits => IsWidth(n_bits + 1, First + N)
        /\ ~(First + N >= 2^n_bits) => IsWidth(n_bits, First + N)
    <3> DEFINE f == First + N - 1
    <3>1. f \in Nat /\ f + 1 = First + N /\ IsWidth(n_bits, f)
      BY <2>1
    <3> HIDE DEF f
    <3>2. /\ f + 1 >= 2^n_bits => IsWidth(n_bits + 1, f + 1)
          /\ ~(f + 1 >= 2^n_bits) => IsWidth(n_bits, f + 1)
      BY <3>1, WidthGrows
    <3> QED
      BY <3>1, <3>2, Zenon
  <2> QED
    BY <1>1, <2>2, Zenon DEF Widened
<1>6. wide \in Nat /\ First + N < 2^wide
  BY <1>5, Zenon DEF IsWidth
<1>7. /\ wide <= MaxBits /\ p.n_bits = wide
      /\ p.bits = (bits + (wide - ByteBits * n))
      /\ p.buf = v \div 2^(ByteBits * n) /\ p.out = enc.out \o LowBytes(v, n)
  BY <1>1, PutCodeGoesWell, Zenon
<1> HIDE DEF wide, p, v, W, n, P, L, N, c, pos2
<1>8. c < 2^wide
  <2>1. 2^wide \in Nat /\ First + N \in Nat
    BY <1>1, <1>6, PowerPositive, FirstFacts
  <2> QED
    BY <1>1, <1>6, <2>1
<1>9. /\ W \in Nat /\ W < 2^(P + wide) /\ (W \div 2^P) % 2^wide = c
      /\ \A q \in Nat, u \in Nat :
           q + u <= P => (W \div 2^q) % 2^u = (V \div 2^q) % 2^u
  <2>1. V \in Nat /\ c \in Nat /\ wide \in Nat /\ P \in Nat /\ V < 2^P /\ c < 2^wide
    BY <1>1, <1>3, <1>4, <1>6, <1>8, Zenon
  <2>2. W \in Nat /\ W < 2^(P + wide)
    BY <2>1, CodeAbove DEF W
  <2>3. ((V + c * 2^P) \div 2^P) % 2^wide = c
    BY <2>1, FieldAbove
  <2>4. ASSUME NEW q \in Nat, NEW u \in Nat, q + u <= P
        PROVE  ((V + c * 2^P) \div 2^q) % 2^u = (V \div 2^q) % 2^u
    BY <2>1, <2>4, FieldBelow
  <2> QED
    BY <2>2, <2>3, <2>4, Zenon DEF W
<1>10. v = W \div 2^(ByteBits * L)
  <2>1. bits + wide <= BufBits
    BY <1>1, <1>2, <1>6, <1>7, ConstantFacts
  <2>2. ByteBits * L + bits = P
    BY <1>2
  <2> QED
    <3>1. ByteBits * L \in Nat
      BY <1>1, ConstantFacts
    <3>2. V \in Nat /\ bits \in Nat /\ c \in Nat /\ wide \in Nat /\ c < 2^wide
      BY <1>1, <1>3, <1>6, <1>8, Zenon
    <3>3. V < 2^(ByteBits * L + bits)
      BY <1>3, <2>2, Zenon
    <3>4. (V \div 2^(ByteBits * L) + c * 2^bits) % 2^BufBits
            = (V + c * 2^(ByteBits * L + bits)) \div 2^(ByteBits * L)
      <4> DEFINE s == ByteBits * L
      <4>1. s \in Nat /\ V < 2^(s + bits)
        BY <3>1, <3>3
      <4> HIDE DEF s
      <4>2. BufferHolds(V, s, bits, c)
        BY <2>1, <3>2, <4>1, PackBuffer
      <4> QED
        BY <4>2, Zenon DEF s, BufferHolds
    <3> QED
      BY <1>2, <2>2, <3>4, Zenon DEF W, v
<1>11. n \in Nat /\ ByteBits * n <= bits + wide /\ bits + wide < ByteBits * n + ByteBits
  <2>1. ByteBits \in Nat /\ ByteBits > 0
    BY ConstantFacts
  <2>2. /\ n \in Nat /\ (bits + wide) % ByteBits \in Nat
        /\ (bits + wide) % ByteBits < ByteBits
        /\ bits + wide = n * ByteBits + ((bits + wide) % ByteBits)
    BY <1>1, <1>6, <2>1, DivModOf DEF n
  <2>3. n * ByteBits = ByteBits * n
    BY <2>1, <2>2
  <2> QED
    BY <1>1, <1>6, <2>1, <2>2, <2>3
<1>12. Holds(enc, N + 1, W, pos2)
  <2>1. pos2 \in [1 .. (N + 1) + 1 -> Nat] /\ pos2[1] = 0
    BY <1>1, <1>3, <1>4, <1>6 DEF pos2
  <2>2. pos2[(N + 1) + 1] = P + wide
    BY <1>1 DEF pos2
  <2>3. ASSUME NEW k \in 1 .. N
        PROVE  /\ IsWidth(pos2[k + 1] - pos2[k], First + k - 1)
               /\ (W \div 2^pos2[k]) % 2^(pos2[k + 1] - pos2[k]) = Code(enc, k)
    <3>1. pos2[k + 1] = pos[k + 1] /\ pos2[k] = pos[k]
      BY <1>1 DEF pos2
    <3>2. pos[k] \in Nat /\ pos[k + 1] \in Nat
      <4>1. k \in 1 .. N + 1 /\ k + 1 \in 1 .. N + 1
        BY <1>1
      <4> QED
        BY <1>3, <4>1, Zenon
    <3>3. pos[k] <= pos[k + 1] /\ pos[k + 1] <= P
      <4>1. \A i \in 1 .. N + 1, j \in 1 .. N + 1 : i <= j => pos[i] <= pos[j]
        BY <1>1, <1>2, PosMonotone
      <4>2. /\ k \in 1 .. N + 1 /\ k + 1 \in 1 .. N + 1 /\ N + 1 \in 1 .. N + 1
            /\ k <= k + 1 /\ k + 1 <= N + 1
        BY <1>1
      <4> QED
        BY <4>1, <4>2, Zenon DEF P
    <3>4. pos[k + 1] - pos[k] \in Nat /\ pos[k] + (pos[k + 1] - pos[k]) <= P
      BY <1>4, <3>2, <3>3
    <3>5. (W \div 2^pos[k]) % 2^(pos[k + 1] - pos[k])
            = (V \div 2^pos[k]) % 2^(pos[k + 1] - pos[k])
      BY <1>9, <3>2, <3>4, Zenon
    <3> QED
      BY <1>3, <3>1, <3>5, Zenon
  <2>4. /\ IsWidth(pos2[(N + 1) + 1] - pos2[N + 1], First + (N + 1) - 1)
        /\ (W \div 2^pos2[N + 1]) % 2^(pos2[(N + 1) + 1] - pos2[N + 1])
             = Code(enc, N + 1)
    <3>1. pos2[N + 1] = P
      BY <1>1 DEF pos2, P
    <3>2. (P + wide) - P = wide /\ First + (N + 1) - 1 = First + N
      BY <1>1, <1>4, <1>6, FirstFacts
    <3>3. Code(enc, N + 1) = c
      BY <1>1 DEF Code, N, c
    <3> QED
      BY <1>5, <1>9, <2>2, <3>1, <3>2, <3>3, Zenon
  <2>5. \A k \in 1 .. N + 1 : k \in 1 .. N \/ k = N + 1
    BY <1>1
  <2> QED
    BY <1>9, <2>1, <2>2, <2>3, <2>4, <2>5, Zenon DEF Holds
<1>13. LowBytes(v, n) \in Seq(Byte) /\ Len(LowBytes(v, n)) = n
  <2>1. v \in Nat
    <3>1. ByteBits * L \in Nat
      BY <1>1, ConstantFacts
    <3>2. 2^(ByteBits * L) \in Nat /\ 2^(ByteBits * L) > 0
      BY <3>1, PowerPositive
    <3> QED
      BY <1>9, <1>10, <3>2, DivModOf
  <2> QED
    BY <1>11, <2>1, LowBytesType
<1>14. /\ Len(p.out) = L + n
       /\ \A i \in 1 .. L : p.out[i] = enc.out[i]
       /\ \A i \in 1 .. L + n : i > L => p.out[i] = LowBytes(v, n)[i - L]
  <2> DEFINE low == LowBytes(v, n)
  <2>1. low \in Seq(Byte) /\ Len(low) = n /\ p.out = enc.out \o low
    BY <1>7, <1>13
  <2> HIDE DEF low
  <2> QED
    <3>1. /\ Len(p.out) = Len(enc.out) + Len(low)
          /\ \A i \in 1 .. Len(enc.out) + Len(low) :
               p.out[i] = IF i <= Len(enc.out) THEN enc.out[i] ELSE low[i - Len(enc.out)]
      <4> DEFINE out == enc.out
      <4>1. out \in Seq(Byte) /\ low \in Seq(Byte) /\ p.out = out \o low
        BY <1>1, <2>1
      <4> HIDE DEF out
      <4>2. /\ Len(out \o low) = Len(out) + Len(low)
            /\ \A i \in 1 .. Len(out) + Len(low) :
                 (out \o low)[i] = IF i <= Len(out) THEN out[i] ELSE low[i - Len(out)]
        BY <4>1, ConcatProperties
      <4> QED
        BY <4>1, <4>2, Zenon DEF out
    <3>2. /\ Len(p.out) = L + n
          /\ \A i \in 1 .. L + n :
               p.out[i] = IF i <= L THEN enc.out[i] ELSE low[i - L]
      BY <2>1, <3>1, Zenon DEF L
    <3>3. /\ \A i \in 1 .. L : i \in 1 .. L + n /\ i <= L
          /\ \A i \in 1 .. L + n : i > L => ~(i <= L)
      BY <1>1, <1>11
    <3> QED
      BY <3>2, <3>3, Zenon DEF low
<1>15. AreBytes(p.out, W)
  <2>1. ASSUME NEW i \in 1 .. L PROVE p.out[i] = ByteOf(W, i)
    <3>1. ByteBits \in Nat /\ i - 1 \in Nat /\ i - 1 + 1 = i /\ i <= L
      BY <1>1, ConstantFacts
    <3>2. ByteBits * (i - 1) \in Nat /\ ByteBits * (i - 1) + ByteBits <= ByteBits * L
          /\ ByteBits * L \in Nat
      <4>1. ByteBits * (i - 1) + ByteBits = ByteBits * i
        BY <3>1
      <4>2. ByteBits * i <= ByteBits * L
        BY <1>1, <3>1
      <4> QED
        BY <1>1, <3>1, <4>1, <4>2
    <3>3. ByteBits * (i - 1) + ByteBits <= P
      BY <1>1, <1>2, <1>4, <3>1, <3>2
    <3>4. ByteOf(W, i) = ByteOf(V, i)
      BY <1>9, <3>1, <3>2, <3>3, Zenon DEF ByteOf
    <3> QED
      BY <1>2, <1>14, <3>4, Zenon DEF AreBytes, L
  <2>2. ASSUME NEW i \in 1 .. L + n, i > L PROVE p.out[i] = ByteOf(W, i)
    <3>1. i - L \in 1 .. n /\ L + (i - L) = i
      BY <1>1, <1>11, <2>2
    <3>2. LowBytes(v, n)[i - L] = ByteOf(W, L + (i - L))
      <4>1. W \in Nat /\ L \in Nat /\ n \in Nat
        BY <1>1, <1>9, <1>11, Zenon
      <4>2. LowBytes(W \div 2^(ByteBits * L), n)[i - L] = ByteOf(W, L + (i - L))
        BY <3>1, <4>1, LowBytesAre
      <4> QED
        BY <1>10, <4>2, Zenon
    <3> QED
      BY <1>14, <2>2, <3>1, <3>2, Zenon
  <2>3. \A i \in 1 .. L + n : i \in 1 .. L \/ i > L
    BY <1>1, <1>11
  <2> QED
    BY <1>14, <2>1, <2>2, <2>3, Zenon DEF AreBytes
<1>16. p.buf = W \div 2^(ByteBits * Len(p.out))
  <2>1. ByteBits * L \in Nat /\ ByteBits * n \in Nat
        /\ ByteBits * L + ByteBits * n = ByteBits * (L + n)
    BY <1>1, <1>11, ConstantFacts
  <2>2. (W \div 2^(ByteBits * L)) \div 2^(ByteBits * n)
           = W \div 2^(ByteBits * L + ByteBits * n)
    BY <1>9, <2>1, ShiftTwice
  <2> QED
    BY <1>7, <1>10, <1>14, <2>1, <2>2, Zenon
<1>17. pos2[(N + 1) + 1] = ByteBits * Len(p.out) + p.bits /\ p.bits < ByteBits
  <2>1. pos2[(N + 1) + 1] = P + wide
    BY <1>1 DEF pos2
  <2>2. /\ ByteBits * L \in Nat /\ ByteBits * n \in Nat /\ ByteBits \in Nat
        /\ ByteBits * (L + n) = ByteBits * L + ByteBits * n
    BY <1>1, <1>11, ConstantFacts
  <2>3. p.bits = (bits + wide) - ByteBits * n
    BY <1>1, <1>6, <1>7, <2>2
  <2>4. P + wide = ByteBits * (L + n) + p.bits
    BY <1>1, <1>2, <1>6, <2>2, <2>3
  <2>5. p.bits < ByteBits
    BY <1>1, <1>6, <1>11, <2>2, <2>3
  <2> QED
    BY <1>14, <2>1, <2>4, <2>5, Zenon
<1>18. Packs(enc, N + 1, W, pos2, p.out, p.buf, p.bits)
  BY <1>12, <1>15, <1>16, <1>17, Zenon DEF Packs
<1>19. IsWidth(p.n_bits, First + N)
  BY <1>5, <1>7, Zenon
<1> QED
  BY <1>18, <1>19, Zenon DEF p, N, c

-----------------------------------------------------------------------------
(* One code more out of the bytes. *)

\* The lowest a + b bits of X are b bits above a bits.
Splits(X, a, b) ==
  /\ X % 2^(a + b) = (((X \div 2^a) % 2^b) * 2^a) + (X % 2^a)
  /\ (X % 2^(a + b)) % 2^a = X % 2^a
  /\ (X % 2^(a + b)) \div 2^a = (X \div 2^a) % 2^b

LEMMA SplitBits ==
  ASSUME NEW X \in Nat, NEW a \in Nat, NEW b \in Nat PROVE Splits(X, a, b)
<1> DEFINE x == 2^a
           y == 2^b
           z == 2^(a + b)
<1>1. x \in Nat /\ x > 0 /\ y \in Nat /\ y > 0 /\ z = x * y
  BY PowerPositive, PowerOfSum
<1> HIDE DEF x, y, z
<1>2. X % (x * y) = (((X \div x) % y) * x) + (X % x)
  BY <1>1, DivModTwice, ZenonT(40)
<1>3. (X % (x * y)) % x = X % x
  BY <1>1, DivModOfMod, ZenonT(40)
<1>4. (X % (x * y)) \div x = (X \div x) % y
  BY <1>1, DivModOfMod, ZenonT(40)
<1>5. X % z = (((X \div x) % y) * x) + (X % x)
  BY <1>1, <1>2, Zenon
<1>6. (X % z) % x = X % x /\ (X % z) \div x = (X \div x) % y
  BY <1>1, <1>3, <1>4, Zenon
<1> QED
  BY <1>5, <1>6, Zenon DEF Splits, x, y, z

\* The codes end in the last byte.
LEMMA NumberFits ==
  ASSUME NEW V, NEW pos, Written(V, pos), Len(enc.out) \in Nat, Len(enc.dict) \in Nat
  PROVE  V \in Nat /\ V < 2^(ByteBits * Len(enc.out))
<1> DEFINE e == pos[Codes(enc) + 1]
           s == ByteBits * Len(enc.out)
<1>1. V \in Nat /\ V < 2^e /\ e <= s /\ pos \in [1 .. Codes(enc) + 1 -> Nat]
  BY Zenon DEF Written, Holds
<1>2. Codes(enc) + 1 \in 1 .. Codes(enc) + 1 /\ s \in Nat
  BY ConstantFacts DEF Codes
<1>3. e \in Nat
  BY <1>1, <1>2, Zenon
<1> HIDE DEF e, s
<1>4. 2^e <= 2^s /\ 2^e \in Nat /\ 2^s \in Nat
  BY <1>1, <1>2, <1>3, PowerMonotone, PowerPositive
<1>5. V < 2^s
  BY <1>1, <1>4
<1> QED
  BY <1>1, <1>5, Zenon DEF s

\* Every byte the decompressor takes is one of V, those behind the input too.
LEMMA InputByteIs ==
  ASSUME NEW d, NEW V \in Nat, NEW j \in Nat, j >= 1, d.i_buf_ptr \in Nat,
         Len(d.i_buf) \in Nat, AreBytes(d.i_buf, V), V < 2^(ByteBits * Len(d.i_buf))
  PROVE  InputByte(d, j) = ByteOf(V, d.i_buf_ptr + j)
<1> DEFINE i == d.i_buf_ptr + j
           L == Len(d.i_buf)
<1>1. i \in Nat /\ i >= 1 /\ i - 1 \in Nat /\ L \in Nat
  OBVIOUS
<1> HIDE DEF i, L
<1>2. CASE i <= L
  <2>1. i \in 1 .. L
    BY <1>1, <1>2
  <2>2. InputByte(d, j) = d.i_buf[i]
    BY <1>2, Zenon DEF InputByte, i, L
  <2> QED
    BY <2>1, <2>2, Zenon DEF AreBytes, i, L
<1>3. CASE ~(i <= L)
  <2> DEFINE a == ByteBits * (i - 1)
             s == ByteBits * L
  <2>1. a \in Nat /\ s \in Nat /\ s <= a
    <3>1. L <= i - 1 /\ ByteBits \in Nat
      BY <1>1, <1>3, ConstantFacts
    <3> QED
      BY <1>1, <3>1
  <2>2. V < 2^s
    BY Zenon DEF L
  <2> HIDE DEF a, s
  <2>3. 2^s <= 2^a /\ 2^s \in Nat /\ 2^a \in Nat /\ 2^a > 0
    BY <2>1, PowerMonotone, PowerPositive
  <2>4. V < 2^a /\ V = 0 * 2^a + V
    BY <2>2, <2>3
  <2>5. V \div 2^a = 0
    BY <2>3, <2>4, DivModUnique
  <2>6. 2^ByteBits \in Nat /\ 2^ByteBits > 0
    BY ConstantFacts, PowerPositive
  <2>7. 0 % 2^ByteBits = 0
    BY <2>6
  <2>8. ByteOf(V, i) = 0
    BY <2>5, <2>7, Zenon DEF ByteOf, a
  <2>9. InputByte(d, j) = 0
    BY <1>3, Zenon DEF InputByte, i, L
  <2> QED
    BY <2>8, <2>9, Zenon DEF i
<1> QED
  BY <1>2, <1>3

\* The bit buffer holds the next bits of V.
LEMMA FilledIs ==
  ASSUME NEW d, NEW V \in Nat, NEW P \in Nat, d.bits \in Nat, d.i_buf_ptr \in Nat,
         ByteBits * d.i_buf_ptr = P + d.bits, d.buf = (V \div 2^P) % 2^d.bits,
         \A j \in 1 .. MaxBits : InputByte(d, j) = ByteOf(V, d.i_buf_ptr + j),
         BytesFor(d) \in 1 .. MaxBits
  PROVE  Filled(d) = (V \div 2^P) % 2^(d.bits + ByteBits * BytesFor(d))
<1> DEFINE X == V \div 2^P
           b == d.bits
           q == d.i_buf_ptr
           at(k) == b + ByteBits * k
           Is(y, k) == y = X % 2^at(k)
<1>1. PICK filled : /\ filled[0] = d.buf
                    /\ \A k \in 1 .. MaxBits :
                         filled[k] = filled[k - 1]
                           + InputByte(d, k) * 2^(b + ByteBits * (k - 1))
                    /\ Filled(d) = filled[BytesFor(d)]
  BY FilledFacts, Zenon
<1>2. X \in Nat /\ b \in Nat /\ q \in Nat /\ ByteBits \in Nat /\ MaxBits \in Nat
  BY PowerPositive, DivModOf, ConstantFacts
<1> HIDE DEF X
<1> DEFINE Wrong == {k \in 0 .. MaxBits : ~Is(filled[k], k)}
<1>3. Wrong = {}
  <2> SUFFICES ASSUME Wrong # {} PROVE FALSE
    OBVIOUS
  <2>1. Wrong \in SUBSET Nat
    BY <1>2
  <2>2. PICK k \in Wrong : \A m \in 0 .. k - 1 : m \notin Wrong
    <3> HIDE DEF Wrong
    <3> QED
      BY <2>1, LeastNumber
  <2> HIDE DEF Is
  <2>3. Is(filled[0], 0)
    <3>1. b + ByteBits * 0 = b
      BY <1>2
    <3>2. d.buf = X % 2^b
      BY Zenon DEF X
    <3> QED
      BY <1>1, <3>1, <3>2, Zenon DEF Is
  <2>4. k # 0
    BY <2>2, <2>3
  <2>5. k \in 1 .. MaxBits /\ k - 1 \in 0 .. MaxBits /\ k - 1 \in 0 .. k - 1
        /\ k - 1 \in Nat /\ (k - 1) + 1 = k
    BY <1>2, <2>2, <2>4
  <2>6. Is(filled[k - 1], k - 1)
    BY <2>2, <2>5
  <2> DEFINE a == at(k - 1)
             byte == InputByte(d, k)
  <2>7. a \in Nat /\ at(k) = a + ByteBits
    <3> DEFINE m == ByteBits * (k - 1)
    <3>1. m \in Nat /\ ByteBits * k = m + ByteBits
      BY <1>2, <2>5
    <3> HIDE DEF m
    <3>2. b + m \in Nat /\ b + ByteBits * k = (b + m) + ByteBits
      BY <1>2, <3>1
    <3> QED
      BY <3>2, Zenon DEF m
  <2>8. byte = (X \div 2^a) % 2^ByteBits
    <3>1. byte = ByteOf(V, q + k)
      BY <2>5
    <3>2. (V \div 2^P) \div 2^a = V \div 2^(P + a)
      <4> HIDE DEF a
      <4> QED
        BY <2>7, ShiftTwice
    <3>3. P + a = ByteBits * ((q + k) - 1)
      <4>1. ByteBits * ((q + k) - 1) = ByteBits * q + ByteBits * (k - 1)
        BY <1>2, <2>5
      <4>2. ByteBits * (k - 1) \in Nat /\ ByteBits * q = P + b
        BY <1>2, <2>5
      <4> QED
        BY <1>2, <4>1, <4>2
    <3> HIDE DEF a, byte
    <3> QED
      BY <3>1, <3>2, <3>3, Zenon DEF ByteOf, X
  <2>9. X % 2^(a + ByteBits) = (((X \div 2^a) % 2^ByteBits) * 2^a) + (X % 2^a)
    <3>1. Splits(X, a, ByteBits)
      <4> HIDE DEF a
      <4> QED
        BY <1>2, <2>7, SplitBits
    <3> QED
      BY <3>1, Zenon DEF Splits
  <2>10. filled[k] = filled[k - 1] + byte * 2^a
    BY <1>1, <2>5, Zenon
  <2>11. filled[k - 1] = X % 2^a
    BY <2>6, Zenon DEF Is
  <2>12. filled[k] = X % 2^(a + ByteBits)
    <3> DEFINE y == X % 2^a
               z == ((X \div 2^a) % 2^ByteBits) * 2^a
    <3>1. y \in Nat /\ z \in Nat
      <4>1. 2^a \in Nat /\ 2^a > 0 /\ 2^ByteBits \in Nat /\ 2^ByteBits > 0
        BY <1>2, <2>7, PowerPositive
      <4> QED
        BY <1>2, <4>1, DivModOf
    <3> HIDE DEF a
    <3>2. X % 2^(a + ByteBits) = z + y
      BY <2>9, Zenon
    <3>3. filled[k] = y + z
      BY <2>8, <2>10, <2>11, Zenon
    <3> HIDE DEF y, z
    <3> QED
      BY <3>1, <3>2, <3>3
  <2>13. Is(filled[k], k)
    BY <2>7, <2>12, Zenon DEF Is
  <2> QED
    BY <2>2, <2>13
<1>4. BytesFor(d) \in 0 .. MaxBits
  BY <1>2
<1>5. Is(filled[BytesFor(d)], BytesFor(d))
  BY <1>3, <1>4
<1> QED
  BY <1>1, <1>5, Zenon DEF X

\* The decompressor takes the code that comes next, and finds another one behind it
\* unless it was the last.
LEMMA DecoderReads ==
  ASSUME LzwInv, pc = "decompress", NEW V, NEW pos, ReadingBits(V, pos)
  PROVE  LET k == Len(dec.pred)
             d == ReadOf(dec)
         IN  /\ NextCode(dec) = Code(enc, k + 1)
             /\ d.i_buf_ptr <= Len(dec.i_buf)
             /\ ByteBits * d.i_buf_ptr = pos[(k + 1) + 1] + d.bits
             /\ d.buf = (V \div 2^pos[(k + 1) + 1]) % 2^d.bits
             /\ k + 1 < Codes(enc) => d.i_buf_ptr < Len(dec.i_buf)
<1> DEFINE k == Len(dec.pred)
           d == ReadOf(dec)
           m == Codes(enc)
           L == Len(enc.out)
           w == dec.n_bits
           n == BytesFor(dec)
           P == pos[k + 1]
           Q == pos[(k + 1) + 1]
           E == pos[m + 1]
           X == V \div 2^P
<1>1. DecOK /\ Decoding /\ EncOK
  BY Zenon DEF LzwInv, PhaseOK
<1>2. /\ k \in Nat /\ L \in Nat /\ dec.bits \in Nat /\ dec.i_buf_ptr \in Nat
      /\ w \in StartBits .. MaxBits /\ ByteBits \in Nat /\ ByteBits > 0 /\ First \in Nat
  BY <1>1, DecFacts, EncFacts, ConstantFacts, Zenon DEF Decoding
<1>3. m \in Nat /\ m = Len(enc.dict) + 1
  BY <1>1, EncFacts DEF Codes
<1>4. /\ Written(V, pos) /\ dec.i_buf = enc.out /\ k < m /\ IsWidth(w, First + k)
      /\ ByteBits * dec.i_buf_ptr = P + dec.bits /\ dec.buf = X % 2^dec.bits
  BY Zenon DEF ReadingBits
<1>5. /\ Holds(enc, m, V, pos) /\ AreBytes(enc.out, V) /\ E <= ByteBits * L
  BY <1>4, Zenon DEF Written
<1>6. /\ V \in Nat /\ pos \in [1 .. m + 1 -> Nat]
      /\ \A i \in 1 .. m : /\ IsWidth(pos[i + 1] - pos[i], First + i - 1)
                           /\ (V \div 2^pos[i]) % 2^(pos[i + 1] - pos[i]) = Code(enc, i)
  BY <1>5, Zenon DEF Holds
<1>7. n \in 1 .. MaxBits /\ w \in Nat
  BY <1>2, BytesForFacts, ConstantFacts
<1> HIDE DEF w, n, d, E, X, P, Q, m, L, k
<1>8. k + 1 \in 1 .. m /\ k + 1 \in 1 .. m + 1 /\ (k + 1) + 1 \in 1 .. m + 1
      /\ m + 1 \in 1 .. m + 1 /\ (k + 1) + 1 <= m + 1
  BY <1>2, <1>3, <1>4
<1>9. P \in Nat /\ Q \in Nat /\ E \in Nat
  BY <1>6, <1>8, Zenon DEF P, Q, E
<1>10. IsWidth(Q - P, First + k) /\ X % 2^(Q - P) = Code(enc, k + 1)
  <2>1. First + (k + 1) - 1 = First + k
    BY <1>2
  <2> QED
    BY <1>6, <1>8, <2>1, Zenon DEF P, Q, X
<1>11. Q - P = w
  <2>1. First + k \in Nat
    BY <1>2
  <2> QED
    BY <1>4, <1>10, <2>1, WidthUnique
<1>12. Q <= E
  BY <1>3, <1>5, <1>8, PosMonotone, Zenon DEF Q, E
<1>13. /\ d.i_buf_ptr = dec.i_buf_ptr + n /\ d.bits = (dec.bits + ByteBits * n) - w
       /\ d.buf = Filled(dec) \div 2^w /\ d.bits < ByteBits /\ d.bits \in Nat
  <2>1. d.bits \in Nat
    <3>1. d \in DecRecord
      BY <1>1, ReadFacts, Zenon DEF d
    <3> QED
      BY <3>1 DEF DecRecord
  <2> QED
    BY <1>1, <2>1, ReadFacts, Zenon DEF d, n, w
<1>14. X \in Nat
  <2>1. 2^P \in Nat /\ 2^P > 0
    BY <1>9, PowerPositive
  <2> QED
    BY <1>6, <2>1, DivModOf DEF X
<1>15. Filled(dec) = X % 2^(w + d.bits)
  <2>1. V < 2^(ByteBits * Len(dec.i_buf))
    <3>1. Len(enc.out) \in Nat /\ Len(enc.dict) \in Nat
      BY <1>1, EncFacts, Zenon
    <3> QED
      BY <1>4, <3>1, NumberFits, Zenon
  <2>2. \A j \in 1 .. MaxBits : InputByte(dec, j) = ByteOf(V, dec.i_buf_ptr + j)
    <3> TAKE j \in 1 .. MaxBits
    <3>1. j \in Nat /\ j >= 1
      BY ConstantFacts
    <3>2. AreBytes(dec.i_buf, V) /\ Len(dec.i_buf) \in Nat
      BY <1>1, <1>4, <1>5, DecFacts, Zenon
    <3> QED
      BY <1>2, <1>6, <2>1, <3>1, <3>2, InputByteIs, Zenon
  <2>3. Filled(dec) = X % 2^(dec.bits + ByteBits * n)
    BY <1>2, <1>4, <1>6, <1>7, <1>9, <2>2, FilledIs, Zenon DEF X, n
  <2>4. dec.bits + ByteBits * n = w + d.bits
    <3>1. ByteBits * n \in Nat
      BY <1>2, <1>7
    <3> QED
      BY <1>2, <1>7, <1>13, <3>1
  <2> QED
    BY <2>3, <2>4, Zenon
<1>16. Splits(X, w, d.bits)
  BY <1>7, <1>13, <1>14, SplitBits, Zenon
<1>17. NextCode(dec) = Code(enc, k + 1)
  <2>1. NextCode(dec) = Filled(dec) % 2^w
    BY Zenon DEF NextCode, w
  <2> QED
    BY <1>10, <1>11, <1>15, <1>16, <2>1, Zenon DEF Splits
<1>18. d.buf = (V \div 2^Q) % 2^d.bits
  <2>1. P + w = Q
    BY <1>7, <1>9, <1>11
  <2>2. X \div 2^w = V \div 2^Q
    <3>1. (V \div 2^P) \div 2^w = V \div 2^(P + w)
      BY <1>6, <1>7, <1>9, ShiftTwice
    <3> QED
      BY <2>1, <3>1, Zenon DEF X
  <2> QED
    BY <1>13, <1>15, <1>16, <2>2, Zenon DEF Splits
<1>19. ByteBits * d.i_buf_ptr = Q + d.bits
  <2>1. ByteBits * (dec.i_buf_ptr + n) = ByteBits * dec.i_buf_ptr + ByteBits * n
        /\ ByteBits * n \in Nat /\ ByteBits * dec.i_buf_ptr \in Nat
    BY <1>2, <1>7
  <2>2. P + w = Q
    BY <1>7, <1>9, <1>11
  <2>3. ByteBits * dec.i_buf_ptr + ByteBits * n = Q + d.bits
    <3> DEFINE u == ByteBits * n
               v == ByteBits * dec.i_buf_ptr
    <3>1. u \in Nat /\ v = P + dec.bits /\ d.bits = (dec.bits + u) - w
      BY <1>4, <1>13, <2>1, Zenon
    <3> HIDE DEF u, v
    <3>2. v + u = Q + d.bits
      BY <1>2, <1>7, <1>9, <1>13, <2>2, <3>1
    <3> QED
      BY <3>2 DEF u, v
  <2> QED
    BY <1>13, <2>1, <2>3, Zenon
<1>20. d.i_buf_ptr \in Nat
  BY <1>2, <1>7, <1>13, ConstantFacts
<1>21. d.i_buf_ptr <= L
  <2>1. ByteBits * d.i_buf_ptr < ByteBits * L + ByteBits
    <3>1. ByteBits * L \in Nat
      BY <1>2
    <3> QED
      BY <1>2, <1>5, <1>9, <1>12, <1>13, <1>19, <3>1
  <2> QED
    BY <1>2, <1>20, <2>1
<1>22. ASSUME k + 1 < m PROVE d.i_buf_ptr < L
  <2> DEFINE R == pos[((k + 1) + 1) + 1]
  <2>1. /\ (k + 1) + 1 \in 1 .. m /\ ((k + 1) + 1) + 1 \in 1 .. m + 1
        /\ ((k + 1) + 1) + 1 <= m + 1
    BY <1>2, <1>3, <1>22
  <2>2. R \in Nat
    BY <1>6, <2>1, Zenon
  <2>3. IsWidth(R - Q, First + ((k + 1) + 1) - 1)
    BY <1>6, <2>1, Zenon DEF Q
  <2>4. R <= E
    BY <1>3, <1>5, <1>8, <2>1, PosMonotone, Zenon DEF E
  <2> HIDE DEF R
  <2>5. R - Q >= ByteBits
    <3>1. R - Q \in Nat /\ R - Q >= StartBits
      BY <2>3, Zenon DEF IsWidth
    <3> QED
      BY <3>1, ConstantFacts
  <2>6. ByteBits * d.i_buf_ptr < ByteBits * L
    <3>1. ByteBits * L \in Nat
      BY <1>2
    <3> QED
      BY <1>2, <1>5, <1>9, <1>13, <1>19, <2>2, <2>4, <2>5, <3>1
  <2> QED
    BY <1>2, <1>20, <2>6
<1> QED
  BY <1>4, <1>17, <1>18, <1>19, <1>21, <1>22, Zenon DEF d, Q, m, L, k

-----------------------------------------------------------------------------
(* The strings of the tables. *)

\* Two tables agree on the codes of the entries that they have in common.
LEMMA TablesAgree ==
  ASSUME NEW n \in Nat, NEW g, NEW codes, NEW syms, IsStrings(g, n, codes, syms),
         NEW l \in Nat, NEW h, NEW codes2, NEW syms2, IsStrings(h, l, codes2, syms2),
         NEW m \in Nat, m <= n, m <= l, Earlier(m, codes),
         \A k \in 1 .. m : codes[k] = codes2[k] /\ syms[k] = syms2[k]
  PROVE  \A c \in 0 .. First + m - 1 : g[c] = h[c]
<1>1. PICK f : IsTable(f, m, codes, syms)
  BY TableExists
<1>2. IsStrings(f, m, codes, syms)
  BY <1>1, TableIsStrings
<1>3. m \in 0 .. n /\ m \in 0 .. l
  OBVIOUS
<1>4. \A c \in 0 .. First + m - 1 : g[c] = f[c]
  BY <1>2, <1>3, StringsAgree
<1>5. \A c \in 0 .. First + m - 1 : h[c] = f[c]
  <2>1. \A k \in 1 .. m : codes2[k] = codes[k] /\ syms2[k] = syms[k]
    OBVIOUS
  <2> QED
    BY <1>2, <1>3, <2>1, StringsAgree
<1> QED
  BY <1>4, <1>5

\* A table of the compressor: every entry names a code before it.
IsDict(dict) ==
  /\ dict \in Seq(Nat \X Symbol)
  /\ \A k \in 1 .. Len(dict) : dict[k][1] \in 0 .. First + k - 2

CodesOf(dict) == [k \in 1 .. Len(dict) |-> dict[k][1]]
SymsOf(dict) == [k \in 1 .. Len(dict) |-> dict[k][2]]

LEMMA PhraseFacts ==
  ASSUME NEW dict, IsDict(dict)
  PROVE  /\ Len(dict) \in Nat /\ Earlier(Len(dict), CodesOf(dict))
         /\ IsStrings(Phrase(dict), Len(dict), CodesOf(dict), SymsOf(dict))
         /\ \A c \in 0 .. First - 1 : Phrase(dict)[c] = <<c>>
         /\ \A k \in 1 .. Len(dict) :
              Phrase(dict)[First + k - 1] = Append(Phrase(dict)[dict[k][1]], dict[k][2])
         /\ \A c \in 0 .. First + Len(dict) - 1 :
              Phrase(dict)[c] \in Seq(Symbol) /\ Len(Phrase(dict)[c]) > 0
<1> DEFINE N == Len(dict)
           codes == CodesOf(dict)
           syms == SymsOf(dict)
           P == Phrase(dict)
<1>1. N \in Nat /\ dict \in Seq(Nat \X Symbol)
  BY DEF IsDict
<1>2. \A k \in 1 .. N : codes[k] = dict[k][1] /\ syms[k] = dict[k][2]
  BY Zenon DEF CodesOf, SymsOf
<1>3. Earlier(N, codes)
  BY <1>2, Zenon DEF Earlier, IsDict
<1>4. \A k \in 1 .. N : syms[k] \in Symbol
  <2>1. \A k \in 1 .. N : dict[k] \in Nat \X Symbol
    BY <1>1
  <2> QED
    BY <1>2, <2>1
<1> HIDE DEF codes, syms, P, N
<1>5. IsStrings(P, N, codes, syms)
  BY <1>1, <1>2, <1>3, PhraseIsStrings, Zenon DEF P, N
<1>6. \A c \in 0 .. First + N - 1 : P[c] \in Seq(Symbol) /\ Len(P[c]) > 0
  BY <1>1, <1>3, <1>4, <1>5, StringsType
<1>7. /\ \A c \in 0 .. First - 1 : P[c] = <<c>>
      /\ \A k \in 1 .. N : P[First + k - 1] = Append(P[dict[k][1]], dict[k][2])
  BY <1>2, <1>5, Zenon DEF IsStrings
<1> QED
  BY <1>1, <1>3, <1>5, <1>6, <1>7, Zenon DEF P, N, codes, syms

\* A new entry leaves the codes before it as they are.
LEMMA PhraseGrows ==
  ASSUME NEW dict, IsDict(dict), NEW pair \in (0 .. First + Len(dict) - 1) \X Symbol
  PROVE  /\ IsDict(Append(dict, pair))
         /\ \A c \in 0 .. First + Len(dict) - 1 :
              Phrase(Append(dict, pair))[c] = Phrase(dict)[c]
<1> DEFINE N == Len(dict)
           dict2 == Append(dict, pair)
<1>1. N \in Nat /\ dict \in Seq(Nat \X Symbol) /\ First \in Nat
      /\ \A k \in 1 .. N : dict[k][1] \in 0 .. First + k - 2
  BY FirstFacts DEF IsDict
<1>2. /\ dict2 \in Seq(Nat \X Symbol) /\ Len(dict2) = N + 1
      /\ \A k \in 1 .. N : dict2[k] = dict[k]
      /\ dict2[N + 1] = pair
  <2>1. pair \in Nat \X Symbol
    BY <1>1
  <2> QED
    BY <1>1, <2>1, AppendProperties
<1> HIDE DEF dict2, N
<1>3. IsDict(dict2)
  <2>1. ASSUME NEW k \in 1 .. N + 1 PROVE dict2[k][1] \in 0 .. First + k - 2
    <3>1. CASE k = N + 1
      <4>1. pair[1] \in 0 .. First + N - 1
        BY DEF N
      <4>2. pair[1] \in 0 .. First + k - 2
        BY <1>1, <3>1, <4>1
      <4> QED
        BY <1>2, <3>1, <4>2, Zenon
    <3>2. CASE k \in 1 .. N
      BY <1>1, <1>2, <3>2, Zenon
    <3> QED
      BY <1>1, <3>1, <3>2
  <2> QED
    BY <1>2, <2>1, Zenon DEF IsDict
<1>4. /\ IsStrings(Phrase(dict), N, CodesOf(dict), SymsOf(dict))
      /\ Earlier(N, CodesOf(dict))
  BY PhraseFacts, Zenon DEF N
<1>5. IsStrings(Phrase(dict2), N + 1, CodesOf(dict2), SymsOf(dict2))
  BY <1>2, <1>3, PhraseFacts, Zenon
<1>6. ASSUME NEW k \in 1 .. N
      PROVE  CodesOf(dict)[k] = CodesOf(dict2)[k] /\ SymsOf(dict)[k] = SymsOf(dict2)[k]
  <2>1. k \in 1 .. Len(dict) /\ k \in 1 .. Len(dict2)
    BY <1>1, <1>2 DEF N
  <2> QED
    BY <1>2, <2>1, Zenon DEF CodesOf, SymsOf
<1>7. \A c \in 0 .. First + N - 1 : Phrase(dict)[c] = Phrase(dict2)[c]
  <2> DEFINE M == N + 1
  <2>1. N \in Nat /\ M \in Nat /\ N <= N /\ N <= M
    BY <1>1
  <2> QED
    <3> DEFINE g == Phrase(dict)
               h == Phrase(dict2)
               c1 == CodesOf(dict)
               s1 == SymsOf(dict)
               c2 == CodesOf(dict2)
               s2 == SymsOf(dict2)
    <3>1. /\ IsStrings(g, N, c1, s1) /\ Earlier(N, c1) /\ IsStrings(h, M, c2, s2)
          /\ \A k \in 1 .. N : c1[k] = c2[k] /\ s1[k] = s2[k]
      BY <1>4, <1>5, <1>6, Zenon
    <3> HIDE DEF g, h, c1, s1, c2, s2, M
    <3>2. \A c \in 0 .. First + N - 1 : g[c] = h[c]
      BY <2>1, <3>1, TablesAgree
    <3> QED
      BY <3>2, Zenon DEF g, h
<1> QED
  BY <1>3, <1>7, Zenon DEF dict2, N

LEMMA EncDict ==
  ASSUME EncOK
  PROVE  /\ IsDict(enc.dict) /\ Len(enc.dict) \in Nat /\ enc.ent \in Nat
         /\ enc.ent \in 0 .. First + Len(enc.dict) - 1
         /\ \A k \in 1 .. Codes(enc) : Code(enc, k) \in 0 .. First + k - 2
                                       \/ (k = Codes(enc) /\ Code(enc, k) = enc.ent)
         /\ \A k \in 1 .. Codes(enc) : Code(enc, k) \in 0 .. First + Len(enc.dict) - 1
<1> DEFINE N == Len(enc.dict)
<1>1. /\ N \in Nat /\ enc.ent \in Nat /\ First \in Nat /\ enc.ent < First + N
      /\ enc.dict \in Seq(Nat \X Symbol)
      /\ \A k \in 1 .. N : enc.dict[k][1] \in 0 .. First + k - 2
  BY EncFacts, FirstFacts, Zenon DEF EncOK
<1>2. IsDict(enc.dict)
  BY <1>1, Zenon DEF IsDict
<1> HIDE DEF N
<1>3. enc.ent \in 0 .. First + N - 1
  BY <1>1
<1>4. ASSUME NEW k \in 1 .. N + 1
      PROVE  /\ Code(enc, k) \in 0 .. First + k - 2 \/ (k = N + 1 /\ Code(enc, k) = enc.ent)
             /\ Code(enc, k) \in 0 .. First + N - 1
  <2>1. CASE k <= N
    <3>1. k \in 1 .. N /\ Code(enc, k) = enc.dict[k][1]
      BY <1>1, <2>1 DEF Code, N
    <3>2. enc.dict[k][1] \in 0 .. First + k - 2
      BY <1>1, <3>1
    <3>3. enc.dict[k][1] \in 0 .. First + N - 1
      BY <1>1, <3>1, <3>2
    <3> QED
      BY <3>1, <3>2, <3>3, Zenon
  <2>2. CASE ~(k <= N)
    <3>1. k = N + 1 /\ Code(enc, k) = enc.ent
      BY <1>1, <2>2 DEF Code, N
    <3> QED
      BY <1>3, <3>1
  <2> QED
    BY <2>1, <2>2
<1> QED
  BY <1>1, <1>2, <1>3, <1>4, Zenon DEF N, Codes

-----------------------------------------------------------------------------
(* The codes stand for the pieces of the input. *)

LEMMA ParsedSame ==
  ASSUME NEW e, NEW f, NEW start, Parsed(e, start), f.dict = e.dict, f.ent = e.ent,
         f.i_buf = e.i_buf, f.i_buf_ptr = e.i_buf_ptr
  PROVE  Parsed(f, start)
<1> DEFINE P == Phrase(e.dict)
           m == Codes(e)
<1>1. Phrase(f.dict) = P /\ Codes(f) = m /\ \A k : Code(f, k) = Code(e, k)
  BY Zenon DEF Codes, Code
<1>2. /\ start \in [1 .. m + 1 -> Nat] /\ start[1] = 0
      /\ start[m + 1] = f.i_buf_ptr /\ f.i_buf_ptr <= Len(f.i_buf)
      /\ \A k \in 1 .. Len(f.dict) : f.dict[k][2] = f.i_buf[start[k + 1] + 1]
  BY Zenon DEF Parsed
<1>3. \A k \in 1 .. m :
        /\ start[k + 1] = start[k] + Len(P[Code(f, k)])
        /\ \A j \in 1 .. Len(P[Code(f, k)]) : f.i_buf[start[k] + j] = P[Code(f, k)][j]
  <2>1. \A k \in 1 .. m :
          /\ start[k + 1] = start[k] + Len(P[Code(e, k)])
          /\ \A j \in 1 .. Len(P[Code(e, k)]) : e.i_buf[start[k] + j] = P[Code(e, k)][j]
    BY Zenon DEF Parsed
  <2>2. ASSUME NEW k \in 1 .. m
        PROVE  /\ start[k + 1] = start[k] + Len(P[Code(f, k)])
               /\ \A j \in 1 .. Len(P[Code(f, k)]) : f.i_buf[start[k] + j] = P[Code(f, k)][j]
    <3>1. Code(f, k) = Code(e, k)
      BY <1>1
    <3> HIDE DEF P, m
    <3> QED
      BY <2>1, <3>1
  <2> QED
    BY <2>2
<1> HIDE DEF P, m
<1> QED
  BY <1>1, <1>2, <1>3, Zenon DEF Parsed

\* One code for the piece of an input that has one symbol so far.
LEMMA ParsedFirst ==
  ASSUME NEW e, e.i_buf \in Seq(Symbol), e.i_buf # <<>>, e.dict = <<>>, e.i_buf_ptr = 1,
         e.ent = e.i_buf[1]
  PROVE  \E start : Parsed(e, start)
<1> DEFINE start == [k \in 1 .. 2 |-> k - 1]
           P == Phrase(e.dict)
<1>1. Len(e.dict) = 0 /\ Codes(e) = 1 /\ Code(e, 1) = e.ent
  BY DEF Codes, Code
<1>2. e.ent \in 0 .. First - 1 /\ 1 <= Len(e.i_buf)
  BY FirstFacts
<1>3. P[e.ent] = <<e.ent>>
  <2>1. IsDict(e.dict)
    BY <1>1 DEF IsDict
  <2> QED
    BY <1>2, <2>1, PhraseFacts, Zenon
<1> HIDE DEF P
<1>4. /\ start \in [1 .. Codes(e) + 1 -> Nat] /\ start[1] = 0
      /\ start[Codes(e) + 1] = e.i_buf_ptr
  BY <1>1
<1>5. ASSUME NEW k \in 1 .. Codes(e)
      PROVE  /\ start[k + 1] = start[k] + Len(P[Code(e, k)])
             /\ \A j \in 1 .. Len(P[Code(e, k)]) : e.i_buf[start[k] + j] = P[Code(e, k)][j]
  <2>1. k = 1 /\ P[Code(e, k)] = <<e.ent>>
    BY <1>1, <1>3
  <2>2. Len(P[Code(e, k)]) = 1 /\ P[Code(e, k)][1] = e.ent
    BY <2>1
  <2>3. start[k] = 0 /\ start[k + 1] = 1
    BY <2>1
  <2>4. \A j \in 1 .. 1 : j = 1
    OBVIOUS
  <2>5. 0 + 1 = 1
    OBVIOUS
  <2> HIDE DEF start
  <2> QED
    BY <2>2, <2>3, <2>4, <2>5, Zenon
<1>6. \A k \in 1 .. Len(e.dict) : e.dict[k][2] = e.i_buf[start[k + 1] + 1]
  BY <1>1
<1> HIDE DEF start
<1>7. Parsed(e, start)
  BY <1>2, <1>4, <1>5, <1>6, Zenon DEF Parsed, P
<1> QED
  BY <1>7

\* The string in hand with the next symbol is entry i: the last piece is one symbol
\* longer.
LEMMA ParsedKnown ==
  ASSUME NEW e, NEW f, NEW start, Parsed(e, start), IsDict(e.dict),
         e.ent \in 0 .. First + Len(e.dict) - 1, e.i_buf_ptr \in Nat,
         Len(e.i_buf) \in Nat, e.i_buf_ptr < Len(e.i_buf), NEW i \in 1 .. Len(e.dict),
         e.dict[i] = <<e.ent, e.i_buf[e.i_buf_ptr + 1]>>, f.dict = e.dict,
         f.ent = First + i - 1, f.i_buf = e.i_buf, f.i_buf_ptr = e.i_buf_ptr + 1
  PROVE  \E s : Parsed(f, s)
<1> DEFINE N == Len(e.dict)
           P == Phrase(e.dict)
           ptr == e.i_buf_ptr
           sym == e.i_buf[ptr + 1]
           s == [k \in 1 .. N + 2 |-> IF k = N + 2 THEN ptr + 1 ELSE start[k]]
<1>1. /\ N \in Nat /\ ptr \in Nat /\ Codes(e) = N + 1 /\ Codes(f) = N + 1
      /\ Codes(e) + 1 = N + 2 /\ Codes(f) + 1 = N + 2
  BY PhraseFacts DEF Codes
<1>2. P[First + i - 1] = Append(P[e.ent], sym) /\ P[e.ent] \in Seq(Symbol)
  <2>1. P[First + i - 1] = Append(P[e.dict[i][1]], e.dict[i][2])
        /\ P[e.ent] \in Seq(Symbol)
    BY PhraseFacts, Zenon
  <2>2. e.dict[i][1] = e.ent /\ e.dict[i][2] = sym
    OBVIOUS
  <2> QED
    BY <2>1, <2>2, Zenon
<1>3. /\ start \in [1 .. N + 2 -> Nat] /\ start[1] = 0 /\ start[N + 2] = ptr
      /\ \A k \in 1 .. N + 1 :
           /\ start[k + 1] = start[k] + Len(P[Code(e, k)])
           /\ \A j \in 1 .. Len(P[Code(e, k)]) :
                e.i_buf[start[k] + j] = P[Code(e, k)][j]
      /\ \A k \in 1 .. N : e.dict[k][2] = e.i_buf[start[k + 1] + 1]
  BY <1>1, Zenon DEF Parsed
<1>4. /\ Code(e, N + 1) = e.ent /\ Code(f, N + 1) = First + i - 1
      /\ \A k \in 1 .. N : Code(f, k) = Code(e, k)
  <2>1. ~(N + 1 <= N) /\ \A k \in 1 .. N : k <= N
    BY <1>1
  <2> QED
    BY <2>1, Zenon DEF Code
<1>5. /\ s \in [1 .. N + 2 -> Nat] /\ s[1] = 0 /\ s[N + 2] = ptr + 1
      /\ \A k \in 1 .. N + 1 : s[k] = start[k]
  <2>1. N \in Nat /\ ptr + 1 \in Nat /\ start \in [1 .. N + 2 -> Nat] /\ start[1] = 0
    BY <1>1, <1>3
  <2> HIDE DEF N, ptr
  <2> QED
    BY <2>1
<1> HIDE DEF s, sym, P, N, ptr
<1>6. \A k \in 1 .. N : k \in 1 .. N + 1 /\ k + 1 \in 1 .. N + 1
  <2>1. N \in Nat
    BY <1>1
  <2> QED
    BY <2>1
<1>7. ASSUME NEW k \in 1 .. N + 1
      PROVE  /\ s[k + 1] = s[k] + Len(P[Code(f, k)])
             /\ \A j \in 1 .. Len(P[Code(f, k)]) : e.i_buf[s[k] + j] = P[Code(f, k)][j]
  <2>1. CASE k \in 1 .. N
    <3>1. s[k] = start[k] /\ s[k + 1] = start[k + 1] /\ Code(f, k) = Code(e, k)
          /\ k \in 1 .. N + 1
      BY <1>4, <1>5, <1>6, <2>1, Zenon
    <3> QED
      BY <1>3, <3>1, Zenon
  <2>2. CASE k = N + 1
    <3> DEFINE u == P[e.ent]
               v == P[First + i - 1]
               l == start[N + 1]
    <3>1. /\ u \in Seq(Symbol) /\ Len(u) \in Nat /\ Len(v) = Len(u) + 1
          /\ \A j \in 1 .. Len(u) : v[j] = u[j]
          /\ v[Len(u) + 1] = sym
      BY <1>2
    <3>2. N + 1 \in 1 .. N + 1 /\ N + 1 \in 1 .. N + 2 /\ (N + 1) + 1 = N + 2
      BY <1>1
    <3>3. l \in Nat /\ s[N + 1] = l /\ s[N + 2] = ptr + 1
      BY <1>3, <1>5, <3>2, Zenon
    <3>4. /\ ptr = l + Len(u)
          /\ \A j \in 1 .. Len(u) : e.i_buf[l + j] = u[j]
      BY <1>3, <1>4, <3>2, ZenonT(40)
    <3> HIDE DEF u, v, l
    <3>5. ptr + 1 = l + Len(v) /\ l + (Len(u) + 1) = ptr + 1
      BY <3>1, <3>3, <3>4
    <3>6. ASSUME NEW j \in 1 .. Len(v) PROVE e.i_buf[l + j] = v[j]
      <4>1. CASE j \in 1 .. Len(u)
        BY <3>1, <3>4, <4>1, Zenon
      <4>2. CASE j = Len(u) + 1
        BY <3>1, <3>5, <4>2, Zenon DEF sym, ptr
      <4> QED
        BY <3>1, <4>1, <4>2
    <3>7. /\ s[(N + 1) + 1] = s[N + 1] + Len(v)
          /\ \A j \in 1 .. Len(v) : e.i_buf[s[N + 1] + j] = v[j]
      BY <3>2, <3>3, <3>5, <3>6, Zenon
    <3>8. P[Code(f, N + 1)] = v
      BY <1>4 DEF v
    <3>9. Code(f, k) = Code(f, N + 1)
      BY <2>2
    <3> QED
      BY <2>2, <3>7, <3>8, <3>9, Zenon
  <2> QED
    BY <1>1, <2>1, <2>2
<1>8. \A k \in 1 .. N : e.dict[k][2] = e.i_buf[s[k + 1] + 1]
  BY <1>3, <1>5, <1>6, Zenon
<1>9. ptr + 1 <= Len(e.i_buf)
  BY <1>1 DEF ptr
<1>10. Parsed(f, s)
  <2>1. /\ s \in [1 .. Codes(f) + 1 -> Nat] /\ s[1] = 0
        /\ s[Codes(f) + 1] = f.i_buf_ptr /\ f.i_buf_ptr <= Len(f.i_buf)
    BY <1>1, <1>5, <1>9, Zenon DEF ptr
  <2>2. \A k \in 1 .. Codes(f) :
          /\ s[k + 1] = s[k] + Len(Phrase(f.dict)[Code(f, k)])
          /\ \A j \in 1 .. Len(Phrase(f.dict)[Code(f, k)]) :
               f.i_buf[s[k] + j] = Phrase(f.dict)[Code(f, k)][j]
    <3>1. Phrase(f.dict) = P
      BY Zenon DEF P
    <3>2. ASSUME NEW k \in 1 .. Codes(f)
          PROVE  /\ s[k + 1] = s[k] + Len(P[Code(f, k)])
                 /\ \A j \in 1 .. Len(P[Code(f, k)]) :
                      f.i_buf[s[k] + j] = P[Code(f, k)][j]
      <4>1. k \in 1 .. N + 1
        BY <1>1, Zenon
      <4> QED
        BY <1>7, <4>1, Zenon
    <3> QED
      BY <3>1, <3>2, Zenon
  <2>3. \A k \in 1 .. Len(f.dict) : f.dict[k][2] = f.i_buf[s[k + 1] + 1]
    BY <1>8, Zenon DEF N
  <2> QED
    BY <2>1, <2>2, <2>3, Zenon DEF Parsed
<1> QED
  BY <1>10

\* The string in hand gets a code of its own in the table, and the next symbol begins
\* a piece.
LEMMA ParsedUnknown ==
  ASSUME NEW e, NEW f, NEW start, Parsed(e, start), IsDict(e.dict),
         e.ent \in 0 .. First + Len(e.dict) - 1, e.i_buf_ptr \in Nat,
         Len(e.i_buf) \in Nat, e.i_buf_ptr < Len(e.i_buf),
         \A k \in 1 .. Len(e.dict) + 1 : Code(e, k) \in 0 .. First + Len(e.dict) - 1,
         NEW sym \in Symbol, sym = e.i_buf[e.i_buf_ptr + 1],
         f.dict = Append(e.dict, <<e.ent, sym>>), f.ent = sym,
         f.i_buf = e.i_buf, f.i_buf_ptr = e.i_buf_ptr + 1
  PROVE  \E s : Parsed(f, s)
<1> DEFINE N == Len(e.dict)
           P == Phrase(e.dict)
           Q == Phrase(f.dict)
           ptr == e.i_buf_ptr
           s == [k \in 1 .. N + 3 |-> IF k = N + 3 THEN ptr + 1 ELSE start[k]]
<1>1. N \in Nat /\ ptr \in Nat /\ First \in Nat /\ e.dict \in Seq(Nat \X Symbol)
  BY PhraseFacts, FirstFacts DEF IsDict
<1>2. /\ Len(f.dict) = N + 1 /\ \A k \in 1 .. N : f.dict[k] = e.dict[k]
      /\ f.dict[N + 1] = <<e.ent, sym>>
  BY <1>1
<1>3. IsDict(f.dict) /\ \A c \in 0 .. First + N - 1 : Q[c] = P[c]
  <2>1. <<e.ent, sym>> \in (0 .. First + N - 1) \X Symbol
    OBVIOUS
  <2> QED
    BY <2>1, PhraseGrows, Zenon
<1>4. Q[sym] = <<sym>>
  <2>1. sym \in 0 .. First - 1
    BY FirstFacts
  <2> QED
    BY <1>3, <2>1, PhraseFacts, Zenon
<1>5. Codes(e) = N + 1 /\ Codes(f) = N + 2 /\ Codes(e) + 1 = N + 2 /\ Codes(f) + 1 = N + 3
  BY <1>1, <1>2 DEF Codes
<1>6. /\ start \in [1 .. N + 2 -> Nat] /\ start[1] = 0 /\ start[N + 2] = ptr
      /\ \A k \in 1 .. N + 1 :
           /\ start[k + 1] = start[k] + Len(P[Code(e, k)])
           /\ \A j \in 1 .. Len(P[Code(e, k)]) :
                e.i_buf[start[k] + j] = P[Code(e, k)][j]
      /\ \A k \in 1 .. N : e.dict[k][2] = e.i_buf[start[k + 1] + 1]
  BY <1>5, Zenon DEF Parsed
<1>7. /\ \A k \in 1 .. N + 1 : Code(f, k) = Code(e, k)
      /\ Code(f, N + 2) = sym
  <2>1. ASSUME NEW k \in 1 .. N PROVE Code(f, k) = Code(e, k)
    <3>1. k <= N /\ k <= N + 1
      BY <1>1
    <3> QED
      BY <1>2, <3>1, Zenon DEF Code
  <2>2. Code(f, N + 1) = Code(e, N + 1)
    <3>1. ~(N + 1 <= N) /\ N + 1 <= N + 1
      BY <1>1
    <3>2. Code(f, N + 1) = <<e.ent, sym>>[1] /\ Code(e, N + 1) = e.ent
      BY <1>2, <3>1, Zenon DEF Code
    <3> QED
      BY <3>2
  <2>3. \A k \in 1 .. N + 1 : k \in 1 .. N \/ k = N + 1
    BY <1>1
  <2>4. ~(N + 2 <= N + 1)
    BY <1>1
  <2>5. Code(f, N + 2) = sym
    BY <1>2, <2>4, Zenon DEF Code
  <2> QED
    BY <2>1, <2>2, <2>3, <2>5, Zenon
<1>8. /\ s \in [1 .. N + 3 -> Nat] /\ s[1] = 0 /\ s[N + 3] = ptr + 1
      /\ \A k \in 1 .. N + 2 : s[k] = start[k]
  <2>1. N \in Nat /\ ptr + 1 \in Nat /\ start \in [1 .. N + 2 -> Nat] /\ start[1] = 0
    BY <1>1, <1>6
  <2> HIDE DEF N, ptr
  <2> QED
    BY <2>1
<1> HIDE DEF s, P, Q, N, ptr
<1>9. ASSUME NEW k \in 1 .. N + 2
      PROVE  /\ s[k + 1] = s[k] + Len(Q[Code(f, k)])
             /\ \A j \in 1 .. Len(Q[Code(f, k)]) : e.i_buf[s[k] + j] = Q[Code(f, k)][j]
  <2>1. CASE k \in 1 .. N + 1
    <3>1. k \in 1 .. N + 2 /\ k + 1 \in 1 .. N + 2
      BY <1>1, <2>1
    <3>2. s[k] = start[k] /\ s[k + 1] = start[k + 1] /\ Code(f, k) = Code(e, k)
      BY <1>7, <1>8, <2>1, <3>1, Zenon
    <3>3. Q[Code(e, k)] = P[Code(e, k)]
      BY <1>3, <2>1, Zenon DEF N
    <3>4. start[k + 1] = start[k] + Len(P[Code(e, k)])
          /\ \A j \in 1 .. Len(P[Code(e, k)]) : e.i_buf[start[k] + j] = P[Code(e, k)][j]
      BY <1>6, <2>1, Zenon
    <3> QED
      BY <3>2, <3>3, <3>4, Zenon
  <2>2. CASE k = N + 2
    <3> DEFINE v == Q[sym]
    <3>1. Len(v) = 1 /\ v[1] = sym
      BY <1>4
    <3>2. k \in 1 .. N + 2 /\ k + 1 = N + 3
      BY <1>1, <2>2
    <3>3. s[k] = ptr /\ s[k + 1] = ptr + 1 /\ Code(f, k) = sym
      BY <1>6, <1>7, <1>8, <2>2, <3>2, Zenon
    <3>4. \A j \in 1 .. 1 : j = 1
      OBVIOUS
    <3>5. e.i_buf[ptr + 1] = sym
      BY DEF ptr
    <3> HIDE DEF v
    <3> QED
      BY <3>1, <3>3, <3>4, <3>5, Zenon DEF v
  <2> QED
    BY <1>1, <2>1, <2>2
<1>10. ASSUME NEW k \in 1 .. N + 1 PROVE f.dict[k][2] = e.i_buf[s[k + 1] + 1]
  <2>1. k + 1 \in 1 .. N + 2
    BY <1>1
  <2>2. CASE k \in 1 .. N
    BY <1>2, <1>6, <1>8, <2>1, <2>2, Zenon
  <2>3. CASE k = N + 1
    <3>1. k + 1 = N + 2
      BY <1>1, <2>3
    <3>2. s[k + 1] = ptr
      BY <1>6, <1>8, <2>1, <3>1, Zenon
    <3>3. f.dict[k][2] = sym
      BY <1>2, <2>3
    <3> QED
      BY <3>2, <3>3 DEF ptr
  <2>4. k \in 1 .. N \/ k = N + 1
    BY <1>1
  <2> QED
    BY <2>2, <2>3, <2>4, Zenon
<1>11. ptr + 1 <= Len(e.i_buf)
  BY <1>1 DEF ptr
<1>12. Parsed(f, s)
  <2>1. /\ s \in [1 .. Codes(f) + 1 -> Nat] /\ s[1] = 0
        /\ s[Codes(f) + 1] = f.i_buf_ptr /\ f.i_buf_ptr <= Len(f.i_buf)
    BY <1>5, <1>8, <1>11, Zenon DEF ptr
  <2>2. \A k \in 1 .. Codes(f) :
          /\ s[k + 1] = s[k] + Len(Phrase(f.dict)[Code(f, k)])
          /\ \A j \in 1 .. Len(Phrase(f.dict)[Code(f, k)]) :
               f.i_buf[s[k] + j] = Phrase(f.dict)[Code(f, k)][j]
    BY <1>5, <1>9, Zenon DEF Q
  <2>3. \A k \in 1 .. Len(f.dict) : f.dict[k][2] = f.i_buf[s[k + 1] + 1]
    BY <1>2, <1>10, Zenon DEF N
  <2> QED
    BY <2>1, <2>2, <2>3, Zenon DEF Parsed
<1> QED
  BY <1>12

-----------------------------------------------------------------------------
(* The decompressor follows. *)

LEMMA StartsMonotone ==
  ASSUME NEW e, NEW start, Parsed(e, start), IsDict(e.dict),
         \A k \in 1 .. Codes(e) : Code(e, k) \in 0 .. First + Len(e.dict) - 1,
         NEW i \in 1 .. Codes(e) + 1
  PROVE  \A j \in 1 .. Codes(e) + 1 : i <= j => start[i] <= start[j]
<1> DEFINE m == Codes(e)
           P == Phrase(e.dict)
           Wrong == {j \in 1 .. m + 1 : i <= j /\ ~(start[i] <= start[j])}
<1> SUFFICES ASSUME Wrong # {} PROVE FALSE
  BY Zenon
<1>1. m \in Nat /\ start \in [1 .. m + 1 -> Nat]
  <2>1. m \in Nat
    BY PhraseFacts DEF Codes
  <2> QED
    BY <2>1, Zenon DEF Parsed
<1> HIDE DEF m
<1>2. PICK j \in Wrong : \A k \in 0 .. j - 1 : k \notin Wrong
  <2>1. Wrong \in SUBSET Nat
    BY <1>1
  <2> HIDE DEF Wrong
  <2> QED
    BY <2>1, LeastNumber
<1>3. i \in 1 .. m + 1 /\ j \in 1 .. m + 1 /\ i <= j /\ ~(start[i] <= start[j])
  BY Zenon DEF m
<1>4. start[i] \in Nat
  BY <1>1, <1>3, Zenon
<1>5. i # j
  BY <1>3, <1>4
<1>6. j - 1 \in 1 .. m /\ j - 1 \in 1 .. m + 1 /\ i <= j - 1 /\ j - 1 \in 0 .. j - 1
      /\ (j - 1) + 1 = j
  BY <1>1, <1>3, <1>5
<1>7. start[i] <= start[j - 1]
  BY <1>2, <1>6
<1>8. start[j] = start[j - 1] + Len(P[Code(e, j - 1)])
  <2>1. start[(j - 1) + 1] = start[j - 1] + Len(P[Code(e, j - 1)])
    BY <1>6, Zenon DEF Parsed, m
  <2> QED
    BY <1>6, <2>1, Zenon
<1>9. Len(P[Code(e, j - 1)]) \in Nat
  <2>1. Code(e, j - 1) \in 0 .. First + Len(e.dict) - 1
    BY <1>6, Zenon DEF m
  <2>2. P[Code(e, j - 1)] \in Seq(Symbol)
    BY <2>1, PhraseFacts, Zenon
  <2> QED
    BY <2>2
<1>10. start[j - 1] \in Nat
  BY <1>1, <1>6, Zenon
<1> HIDE DEF P
<1>11. start[i] <= start[j]
  BY <1>4, <1>7, <1>8, <1>9, <1>10
<1> QED
  BY <1>3, <1>11

\* What is known of every code of the compressor and of its piece.
LEMMA PieceFacts ==
  ASSUME EncOK, NEW start, Parsed(enc, start), NEW k \in 1 .. Codes(enc)
  PROVE  LET u == Phrase(enc.dict)[Code(enc, k)]
         IN  /\ u \in Seq(Symbol) /\ Len(u) \in Nat /\ Len(u) > 0
             /\ start[k] \in Nat /\ start[k + 1] = start[k] + Len(u)
             /\ start[k + 1] <= enc.i_buf_ptr
             /\ \A j \in 1 .. Len(u) : enc.i_buf[start[k] + j] = u[j]
             /\ u[1] = enc.i_buf[start[k] + 1]
<1> DEFINE u == Phrase(enc.dict)[Code(enc, k)]
           m == Codes(enc)
<1>1. IsDict(enc.dict) /\ m \in Nat
      /\ \A i \in 1 .. m : Code(enc, i) \in 0 .. First + Len(enc.dict) - 1
  BY EncDict DEF Codes
<1>2. u \in Seq(Symbol) /\ Len(u) > 0
  BY <1>1, PhraseFacts, Zenon
<1>3. /\ start \in [1 .. m + 1 -> Nat] /\ start[k + 1] = start[k] + Len(u)
      /\ \A j \in 1 .. Len(u) : enc.i_buf[start[k] + j] = u[j]
      /\ start[m + 1] = enc.i_buf_ptr
  BY Zenon DEF Parsed
<1>4. k \in 1 .. m + 1 /\ k + 1 \in 1 .. m + 1 /\ m + 1 \in 1 .. m + 1 /\ k + 1 <= m + 1
  BY <1>1
<1>5. start[k + 1] <= start[m + 1]
  BY <1>1, <1>4, StartsMonotone, Zenon
<1>6. start[k] \in Nat
  BY <1>3, <1>4, Zenon
<1> HIDE DEF u, m
<1>7. Len(u) \in Nat /\ 1 \in 1 .. Len(u)
  BY <1>2
<1>8. u[1] = enc.i_buf[start[k] + 1]
  BY <1>3, <1>7, Zenon
<1> QED
  BY <1>2, <1>3, <1>5, <1>6, <1>7, <1>8, Zenon DEF u

\* The symbol of an entry is the first one of the next piece.
LEMMA SymbolOfEntry ==
  ASSUME EncOK, NEW start, Parsed(enc, start), NEW k \in 1 .. Len(enc.dict)
  PROVE  enc.dict[k][2] = Phrase(enc.dict)[Code(enc, k + 1)][1]
<1>1. k + 1 \in 1 .. Codes(enc)
  BY EncDict DEF Codes
<1>2. Phrase(enc.dict)[Code(enc, k + 1)][1] = enc.i_buf[start[k + 1] + 1]
  BY <1>1, PieceFacts, Zenon
<1>3. enc.dict[k][2] = enc.i_buf[start[k + 1] + 1]
  BY Zenon DEF Parsed
<1> QED
  BY <1>2, <1>3, Zenon

\* All but the last entry of the decompressor stand for the same as those of the
\* compressor.
LEMMA EntriesAgree ==
  ASSUME EncOK, DecOK, NEW start, Parsed(enc, start), Follows(dec, start),
         Len(dec.pred) > 0
  PROVE  \A c \in 0 .. First + (Len(dec.pred) - 1) - 1 :
           Expand(dec.pred, dec.suff)[c] = Phrase(enc.dict)[c]
<1> DEFINE k == Len(dec.pred)
           m == k - 1
           N == Len(enc.dict)
           g == Expand(dec.pred, dec.suff)
           h == Phrase(enc.dict)
           c2 == CodesOf(enc.dict)
           s2 == SymsOf(enc.dict)
<1>1. k \in Nat /\ N \in Nat /\ IsDict(enc.dict)
  BY DecFacts, EncDict
<1>2. IsStrings(g, k, dec.pred, dec.suff) /\ Earlier(k, dec.pred)
  BY <1>1, ExpandIsStrings, Zenon DEF DecOK
<1>3. IsStrings(h, N, c2, s2)
  BY <1>1, PhraseFacts, Zenon
<1>4. k <= N + 1
  BY Zenon DEF Follows, Codes
<1>5. m \in Nat /\ m <= k /\ m <= N /\ \A j \in 1 .. m : j \in 1 .. k /\ j \in 1 .. N
  BY <1>1, <1>4
<1>6. Earlier(m, dec.pred)
  BY <1>2, <1>5, Zenon DEF Earlier
<1>7. ASSUME NEW j \in 1 .. m PROVE dec.pred[j] = c2[j] /\ dec.suff[j] = s2[j]
  <2>1. j \in 1 .. k /\ j \in 1 .. N /\ j <= N
    BY <1>1, <1>5
  <2>2. dec.pred[j] = Code(enc, j) /\ dec.suff[j] = enc.dict[j][2]
    BY <2>1, Zenon DEF Follows
  <2> QED
    BY <2>1, <2>2, Zenon DEF Code, CodesOf, SymsOf
<1> HIDE DEF g, h, c2, s2, m, k, N
<1>8. \A c \in 0 .. First + m - 1 : g[c] = h[c]
  BY <1>1, <1>2, <1>3, <1>5, <1>6, <1>7, TablesAgree
<1> QED
  BY <1>8, Zenon DEF g, h, m, k

\* The next code stands for the next piece, even when its entry is the one whose
\* symbol is not known yet: then that symbol is the first one of the entry itself.
LEMMA StringIsPiece ==
  ASSUME EncOK, DecOK, NEW start, Parsed(enc, start), Follows(dec, start),
         Len(dec.pred) < Codes(enc), NextCode(dec) = Code(enc, Len(dec.pred) + 1)
  PROVE  /\ NextCode(dec) \in Nat /\ NextCode(dec) < DecFree(dec.pred)
         /\ StringOf(dec) = Phrase(enc.dict)[Code(enc, Len(dec.pred) + 1)]
<1> DEFINE k == Len(dec.pred)
           N == Len(enc.dict)
           g == Expand(dec.pred, dec.suff)
           P == Phrase(enc.dict)
           c == Code(enc, k + 1)
<1>1. /\ k \in Nat /\ N \in Nat /\ First \in Nat /\ IsDict(enc.dict)
      /\ Codes(enc) = N + 1 /\ k < N + 1 /\ DecFree(dec.pred) = First + k
      /\ Len(dec.pred) \in Nat
  BY DecFacts, EncDict, FirstFacts, Zenon DEF Codes
<1>2. IsStrings(g, k, dec.pred, dec.suff)
  BY <1>1, ExpandIsStrings, Zenon DEF DecOK
<1>3. /\ \A x \in 0 .. First - 1 : P[x] = <<x>>
      /\ \A j \in 1 .. N : P[First + j - 1] = Append(P[enc.dict[j][1]], enc.dict[j][2])
      /\ \A x \in 0 .. First + N - 1 : P[x] \in Seq(Symbol) /\ Len(P[x]) > 0
  BY <1>1, PhraseFacts, Zenon
<1> HIDE DEF g, P
<1>4. c \in 0 .. First + k - 1
  <2>1. k + 1 \in 1 .. Codes(enc)
    BY <1>1
  <2>2. c \in 0 .. First + (k + 1) - 2 \/ (k + 1 = Codes(enc) /\ c = enc.ent)
    BY <2>1, EncDict, Zenon
  <2>3. enc.ent \in 0 .. First + N - 1
    BY EncDict, Zenon
  <2> HIDE DEF c, k, N
  <2>4. CASE c \in 0 .. First + (k + 1) - 2
    BY <1>1, <2>4
  <2>5. CASE k + 1 = Codes(enc) /\ c = enc.ent
    <3>1. k = N
      BY <1>1, <2>5
    <3> QED
      BY <2>3, <2>5, <3>1, Zenon
  <2> QED
    BY <2>2, <2>4, <2>5, Zenon
<1>5. g[c] = P[c]
  <2>1. CASE k = 0
    <3>1. c \in 0 .. First - 1
      <4> HIDE DEF c, k
      <4> QED
        BY <1>1, <1>4, <2>1
    <3>2. g[c] = <<c>>
      BY <1>2, <3>1, Zenon DEF IsStrings
    <3> QED
      BY <1>3, <3>1, <3>2, Zenon
  <2>2. CASE k > 0
    <3>1. \A x \in 0 .. First + (k - 1) - 1 : g[x] = P[x]
      BY <2>2, EntriesAgree, Zenon DEF g, P
    <3>2. k \in 1 .. k /\ k \in 1 .. N /\ k <= N
      BY <1>1, <2>2
    <3>3. CASE c \in 0 .. First + (k - 1) - 1
      BY <3>1, <3>3, Zenon
    <3>4. CASE c = First + k - 1
      <4> DEFINE x == enc.dict[k][1]
                 y == enc.dict[k][2]
                 u == P[x]
      <4>1. dec.pred[k] = x /\ dec.suff[k] = u[1]
        <5>1. dec.pred[k] = Code(enc, k) /\ dec.suff[k] = P[Code(enc, k)][1]
          BY <2>2, <3>2, Zenon DEF Follows, P
        <5>2. Code(enc, k) = x
          BY <3>2, Zenon DEF Code
        <5> QED
          BY <5>1, <5>2, Zenon
      <4>2. g[c] = Append(g[x], u[1])
        BY <1>2, <3>2, <3>4, <4>1, Zenon DEF IsStrings
      <4>3. P[c] = Append(u, y)
        BY <1>3, <3>2, <3>4, Zenon
      <4>4. x \in 0 .. First + (k - 1) - 1 /\ x \in 0 .. First + N - 1
        <5>1. x \in 0 .. First + k - 2
          BY <1>1, <3>2, Zenon DEF IsDict
        <5> HIDE DEF x, k, N
        <5> QED
          BY <1>1, <3>2, <5>1
      <4>5. g[x] = u
        BY <3>1, <4>4, Zenon
      <4>6. u \in Seq(Symbol) /\ Len(u) > 0
        BY <1>3, <4>4, Zenon
      <4>7. y = P[c][1]
        BY <3>2, SymbolOfEntry, Zenon DEF P
      <4>8. P[c][1] = u[1]
        <5> HIDE DEF u, y
        <5> QED
          BY <4>3, <4>6
      <4> QED
        BY <4>2, <4>3, <4>5, <4>7, <4>8, Zenon
    <3>5. c \in 0 .. First + (k - 1) - 1 \/ c = First + k - 1
      <4> HIDE DEF c, k
      <4> QED
        BY <1>1, <1>4, <2>2
    <3> QED
      BY <3>3, <3>4, <3>5, Zenon
  <2>3. k = 0 \/ k > 0
    BY <1>1
  <2> QED
    BY <2>1, <2>2, <2>3, Zenon
<1>6. c \in Nat /\ c < First + k
  <2> HIDE DEF c, k
  <2> QED
    BY <1>1, <1>4
<1> QED
  BY <1>1, <1>5, <1>6, Zenon DEF StringOf, g, P

\* One piece more: the decompressor has one entry and one piece of the input more.
LEMMA NextFollows ==
  ASSUME EncOK, DecOK, Decoding, NEW start, Parsed(enc, start), Follows(dec, start),
         Len(dec.pred) < Codes(enc), NextCode(dec) = Code(enc, Len(dec.pred) + 1)
  PROVE  LET k == Len(dec.pred)
         IN  /\ Follows(NextOf(dec), start) /\ Len(NextOf(dec).pred) = k + 1
             /\ Len(dec.out) + Len(StringOf(dec)) = start[(k + 1) + 1]
             /\ Len(NextOf(dec).out) = start[(k + 1) + 1]
             /\ start[(k + 1) + 1] <= enc.i_buf_ptr
<1> DEFINE k == Len(dec.pred)
           m == Codes(enc)
           N == Len(enc.dict)
           P == Phrase(enc.dict)
           u == P[Code(enc, k + 1)]
           d == NextOf(dec)
           a == Len(dec.out)
<1>1. /\ k \in Nat /\ N \in Nat /\ m = N + 1 /\ k < m /\ a \in Nat
      /\ dec.pred \in Seq(Nat) /\ dec.suff \in Seq(Symbol) /\ dec.out \in Seq(Symbol)
      /\ Len(dec.suff) = k
  BY DecFacts, EncDict, Zenon DEF Codes
<1>2. NextCode(dec) \in Nat /\ NextCode(dec) < DecFree(dec.pred) /\ StringOf(dec) = u
  BY StringIsPiece, Zenon
<1>3. /\ d.pred = Append(dec.pred, NextCode(dec)) /\ d.suff = Complete(dec.suff, u[1])
      /\ d.out = dec.out \o u
  BY <1>2, NextFacts, Zenon
<1>4. /\ k <= m /\ \A j \in 1 .. k : dec.pred[j] = Code(enc, j)
      /\ \A j \in 1 .. k - 1 : dec.suff[j] = enc.dict[j][2]
      /\ k > 0 => dec.suff[k] = P[Code(enc, k)][1]
      /\ a = start[k + 1]
      /\ \A i \in 1 .. a : dec.out[i] = enc.i_buf[i]
  BY Zenon DEF Follows
<1>5. k + 1 \in 1 .. m
  BY <1>1
<1>6. /\ u \in Seq(Symbol) /\ Len(u) \in Nat /\ Len(u) > 0
      /\ start[(k + 1) + 1] = start[k + 1] + Len(u)
      /\ start[(k + 1) + 1] <= enc.i_buf_ptr
      /\ \A j \in 1 .. Len(u) : enc.i_buf[start[k + 1] + j] = u[j]
  BY <1>5, PieceFacts, Zenon
<1>7. NextCode(dec) = Code(enc, k + 1)
  OBVIOUS
<1>8. k > 0 => enc.dict[k][2] = u[1]
  <2>1. k > 0 => k \in 1 .. N
    BY <1>1
  <2> QED
    BY <2>1, SymbolOfEntry, Zenon
<1> HIDE DEF d, u, P, N, m, k, a
<1>9. /\ Len(d.pred) = k + 1
      /\ \A j \in 1 .. k + 1 : d.pred[j] = Code(enc, j)
  <2> DEFINE s == dec.pred
             c == NextCode(dec)
  <2>1. s \in Seq(Nat) /\ c \in Nat /\ Len(s) = k /\ d.pred = Append(s, c)
    BY <1>1, <1>2, <1>3 DEF k
  <2> HIDE DEF s, c
  <2>2. /\ Len(d.pred) = k + 1 /\ d.pred[k + 1] = c
        /\ \A j \in 1 .. k : d.pred[j] = s[j]
    BY <2>1, AppendProperties
  <2>3. \A j \in 1 .. k + 1 : j \in 1 .. k \/ j = k + 1
    BY <1>1
  <2> QED
    BY <1>4, <1>7, <2>2, <2>3, Zenon DEF s, c
<1>10. /\ \A j \in 1 .. k : d.suff[j] = enc.dict[j][2]
       /\ d.suff[k + 1] = u[1]
  <2>1. u[1] \in Symbol
    BY <1>6
  <2>2. /\ \A j \in 1 .. k - 1 : d.suff[j] = dec.suff[j]
        /\ \A j \in 1 .. k + 1 : j >= k => d.suff[j] = u[1]
    <3> DEFINE f == dec.suff
               x == u[1]
    <3>1. f \in Seq(Symbol) /\ x \in Symbol /\ Len(f) = k /\ d.suff = Complete(f, x)
      BY <1>1, <1>3, <2>1, Zenon
    <3> HIDE DEF f, x
    <3>2. /\ \A j \in 1 .. Len(f) - 1 : Complete(f, x)[j] = f[j]
          /\ \A j \in 1 .. Len(f) + 1 : j >= Len(f) => Complete(f, x)[j] = x
      BY <3>1, CompleteFacts
    <3> QED
      BY <3>1, <3>2, Zenon DEF f, x
  <2>3. /\ \A j \in 1 .. k : j \in 1 .. k - 1 \/ (j = k /\ k > 0 /\ j \in 1 .. k + 1)
        /\ k >= k /\ k + 1 >= k /\ k + 1 \in 1 .. k + 1
    BY <1>1
  <2>4. ASSUME NEW j \in 1 .. k PROVE d.suff[j] = enc.dict[j][2]
    <3>1. CASE j \in 1 .. k - 1
      BY <1>4, <2>2, <3>1, Zenon
    <3>2. CASE j = k /\ k > 0 /\ j \in 1 .. k + 1
      BY <1>8, <2>2, <2>3, <3>2, Zenon
    <3> QED
      BY <2>3, <3>1, <3>2, Zenon
  <2> QED
    BY <2>2, <2>3, <2>4, Zenon
<1>11. /\ Len(d.out) = a + Len(u)
       /\ \A i \in 1 .. a + Len(u) : d.out[i] = enc.i_buf[i]
  <2> DEFINE s == dec.out
  <2>1. s \in Seq(Symbol) /\ Len(s) = a /\ d.out = s \o u
    BY <1>1, <1>3 DEF a
  <2> HIDE DEF s
  <2>2. /\ Len(d.out) = a + Len(u)
        /\ \A i \in 1 .. a + Len(u) :
             d.out[i] = IF i <= a THEN s[i] ELSE u[i - a]
    <3>1. /\ Len(s \o u) = Len(s) + Len(u)
          /\ \A i \in 1 .. Len(s) + Len(u) :
               (s \o u)[i] = IF i <= Len(s) THEN s[i] ELSE u[i - Len(s)]
      BY <1>6, <2>1, ConcatProperties
    <3> QED
      BY <2>1, <3>1, Zenon
  <2>3. ASSUME NEW i \in 1 .. a + Len(u) PROVE d.out[i] = enc.i_buf[i]
    <3>1. CASE i <= a
      <4>1. i \in 1 .. a
        BY <1>1, <3>1
      <4>2. d.out[i] = s[i]
        BY <2>2, <3>1
      <4>3. s[i] = enc.i_buf[i]
        BY <1>4, <4>1, Zenon DEF s
      <4> QED
        BY <4>2, <4>3, Zenon
    <3>2. CASE ~(i <= a)
      <4>1. i - a \in 1 .. Len(u) /\ a + (i - a) = i
        BY <1>1, <1>6, <3>2
      <4>2. enc.i_buf[start[k + 1] + (i - a)] = u[i - a]
        BY <1>6, <4>1, Zenon
      <4> QED
        BY <1>4, <2>2, <3>2, <4>1, <4>2, Zenon
    <3> QED
      BY <3>1, <3>2, Zenon
  <2> QED
    BY <2>2, <2>3, Zenon
<1>12. Follows(d, start)
  <2>1. k + 1 <= m /\ (k + 1) - 1 = k
    BY <1>1
  <2>2. a + Len(u) = start[(k + 1) + 1]
    BY <1>4, <1>6, Zenon
  <2>3. \A j \in 1 .. (k + 1) - 1 : d.suff[j] = enc.dict[j][2]
    BY <1>10, <2>1, Zenon
  <2>4. d.suff[k + 1] = P[Code(enc, k + 1)][1]
    BY <1>10, Zenon DEF u
  <2> QED
    BY <1>9, <1>11, <2>1, <2>2, <2>3, <2>4, Zenon DEF Follows, P, m
<1>13. a + Len(u) = start[(k + 1) + 1]
  BY <1>4, <1>6, Zenon
<1> QED
  BY <1>2, <1>6, <1>9, <1>11, <1>12, <1>13, Zenon DEF d, k, a, u

-----------------------------------------------------------------------------
(* The steps of compress. *)

LEMMA PacksNothing ==
  ASSUME NEW e PROVE Packs(e, 0, 0, [k \in 1 .. 1 |-> 0], <<>>, 0, 0)
<1> DEFINE pos == [k \in 1 .. 1 |-> 0]
<1>1. ByteBits \in Nat /\ ByteBits > 0
  BY ConstantFacts
<1>2. pos \in [1 .. 0 + 1 -> Nat] /\ pos[1] = 0 /\ pos[0 + 1] = 0
  OBVIOUS
<1> HIDE DEF pos
<1>3. 2^0 \in Nat /\ 2^0 > 0
  BY PowerPositive
<1>4. Holds(e, 0, 0, pos)
  <2>1. 0 < 2^0 /\ 0 \in Nat /\ \A k \in 1 .. 0 : FALSE
    BY <1>3
  <2> QED
    BY <1>2, <2>1, Zenon DEF Holds
<1>5. AreBytes(<<>>, 0) /\ Len(<<>>) = 0
  BY DEF AreBytes
<1>6. ByteBits * 0 = 0 /\ 0 + 0 = 0 /\ 0 < ByteBits
  BY <1>1
<1>7. 0 \div 2^0 = 0
  BY <1>3
<1> QED
  BY <1>2, <1>4, <1>5, <1>6, <1>7, Zenon DEF Packs, pos

LEMMA PacksSame ==
  ASSUME NEW e, NEW f, NEW n, NEW V, NEW pos, NEW out, NEW x, NEW b,
         Packs(e, n, V, pos, out, x, b), \A k \in 1 .. n : Code(f, k) = Code(e, k)
  PROVE  Packs(f, n, V, pos, out, x, b)
  BY Zenon DEF Packs, Holds

LEMMA CompressRound ==
  ASSUME RoundTripInv, pc = "idle", NEW i_buf \in Inputs, NEW size \in Sizes,
         Compress(i_buf, size)
  PROVE  BitsInv' /\ PhraseInv'
<1>1. /\ pc' = "compress" /\ n_bits' = n_bits /\ bits' = bits /\ buf' = buf /\ dec' = dec
      /\ enc' = [NoEnc EXCEPT !.i_buf = i_buf, !.o_buf_size = size, !.i_buf_ptr = 1,
                              !.ent = i_buf[1], !.pure = ~stale]
  BY DEF Compress, putcodeVars
<1>2. i_buf \in Seq(Symbol) /\ i_buf # <<>>
  BY InputsAssumption
<1>3. /\ enc'.i_buf = i_buf /\ enc'.i_buf_ptr = 1 /\ enc'.ent = i_buf[1]
      /\ enc'.dict = <<>> /\ enc'.out = <<>> /\ enc'.pure = ~stale
  BY <1>1 DEF NoEnc
<1>4. dec.i_buf = <<>>
  BY Zenon DEF RoundTripInv, PhraseInv
<1>5. ~stale => n_bits = StartBits /\ bits = 0 /\ buf = 0
  BY Zenon DEF RoundTripInv, LzwInv, PhaseOK
<1>6. Len(enc'.dict) = 0
  BY <1>3
<1>7. ASSUME enc'.pure
      PROVE  /\ (\E V, pos : Writing(Len(enc.dict), V, pos))'
             /\ IsWidth(n_bits', First + Len(enc'.dict) - 1)
  <2>1. n_bits' = StartBits /\ bits' = 0 /\ buf' = 0
    BY <1>1, <1>3, <1>5, <1>7
  <2>2. Packs(enc', 0, 0, [k \in 1 .. 1 |-> 0], <<>>, 0, 0)
    BY PacksNothing
  <2>3. Packs(enc', Len(enc'.dict), 0, [k \in 1 .. 1 |-> 0], enc'.out, buf', bits')
    BY <1>3, <1>6, <2>1, <2>2, Zenon
  <2>4. First + Len(enc'.dict) - 1 = First - 1
    BY <1>6, FirstFacts
  <2> QED
    BY <2>1, <2>3, <2>4, FirstWidth, Zenon DEF Writing
<1>8. \E start : Parsed(enc', start)
  BY <1>2, <1>3, ParsedFirst
<1>9. BitsInv'
  BY <1>1, <1>7, Zenon DEF BitsInv
<1>10. PhraseInv'
  BY <1>1, <1>4, <1>8, Zenon DEF PhraseInv, Returning
<1> QED
  BY <1>9, <1>10, Zenon

LEMMA KnownRound ==
  ASSUME RoundTripInv, Known PROVE BitsInv' /\ PhraseInv'
<1>1. /\ pc = "compress" /\ enc.i_buf_ptr < Len(enc.i_buf)
      /\ pc' = pc /\ n_bits' = n_bits /\ bits' = bits /\ buf' = buf /\ dec' = dec
  BY DEF Known, Reading, putcodeVars
<1>2. PICK i \in DOMAIN enc.dict :
        /\ enc.dict[i] = NextPair
        /\ enc' = [enc EXCEPT !.i_buf_ptr = @ + 1, !.ent = First + i - 1]
  BY DEF Known
<1>3. EncOK
  BY Zenon DEF RoundTripInv, LzwInv
<1>4. /\ enc'.i_buf = enc.i_buf /\ enc'.i_buf_ptr = enc.i_buf_ptr + 1
      /\ enc'.ent = First + i - 1 /\ enc'.dict = enc.dict /\ enc'.out = enc.out
      /\ enc'.pure = enc.pure
  BY <1>2, <1>3 DEF EncOK, EncRecord
<1>5. i \in 1 .. Len(enc.dict) /\ Len(enc.dict) \in Nat
  BY <1>2, <1>3, EncFacts
<1>6. dec.i_buf = <<>>
  BY <1>1, Zenon DEF RoundTripInv, PhraseInv
<1>7. ASSUME enc.pure
      PROVE  /\ (\E V, pos : Writing(Len(enc.dict), V, pos))'
             /\ IsWidth(n_bits', First + Len(enc'.dict) - 1)
  <2>1. PICK V, pos : Writing(Len(enc.dict), V, pos)
    BY <1>1, <1>7, Zenon DEF RoundTripInv, BitsInv
  <2>2. \A k \in 1 .. Len(enc.dict) : Code(enc', k) = Code(enc, k)
    <3>1. \A k \in 1 .. Len(enc.dict) : k <= Len(enc.dict)
      BY <1>5
    <3> QED
      BY <1>4, <3>1, Zenon DEF Code
  <2>3. Packs(enc', Len(enc.dict), V, pos, enc.out, buf, bits)
    BY <2>1, <2>2, PacksSame, Zenon DEF Writing
  <2>4. Packs(enc', Len(enc'.dict), V, pos, enc'.out, buf', bits')
    BY <1>1, <1>4, <2>3, Zenon
  <2>5. IsWidth(n_bits', First + Len(enc'.dict) - 1)
    BY <1>1, <1>4, <1>7, Zenon DEF RoundTripInv, BitsInv
  <2> QED
    BY <2>4, <2>5, Zenon DEF Writing
<1>8. ASSUME enc.pure PROVE \E start : Parsed(enc', start)
  <2>1. PICK start : Parsed(enc, start)
    BY <1>1, <1>8, Zenon DEF RoundTripInv, PhraseInv
  <2>2. enc.dict[i] = <<enc.ent, enc.i_buf[enc.i_buf_ptr + 1]>>
    BY <1>2, Zenon DEF NextPair
  <2>3. /\ IsDict(enc.dict) /\ enc.ent \in 0 .. First + Len(enc.dict) - 1
        /\ enc.i_buf_ptr \in Nat /\ Len(enc.i_buf) \in Nat
    BY <1>3, EncDict, EncFacts, Zenon
  <2> QED
    BY <1>1, <1>4, <1>5, <2>1, <2>2, <2>3, ParsedKnown
<1>9. BitsInv'
  BY <1>1, <1>4, <1>7, Zenon DEF BitsInv
<1>10. PhraseInv'
  BY <1>1, <1>4, <1>6, <1>8, Zenon DEF PhraseInv, Returning
<1> QED
  BY <1>9, <1>10, Zenon

\* A call that fails leaves nothing to decompress.
LEMMA FailRound ==
  ASSUME RoundTripInv, pc \in {"compress", "flush"}, NEW e, NEW out,
         CompressFails(e, out)
  PROVE  BitsInv' /\ PhraseInv'
<1>1. pc' = "returned" /\ dec' = dec
  BY DEF CompressFails
<1>2. dec.i_buf = <<>>
  BY Zenon DEF RoundTripInv, PhraseInv
<1> QED
  BY <1>1, <1>2 DEF BitsInv, PhraseInv, Returning

LEMMA UnknownRound ==
  ASSUME RoundTripInv, Unknown PROVE BitsInv' /\ PhraseInv'
<1> DEFINE p == PutCode(enc, enc.ent)
           N == Len(enc.dict)
           sym == enc.i_buf[enc.i_buf_ptr + 1]
<1>1. pc = "compress" /\ enc.i_buf_ptr < Len(enc.i_buf) /\ LzwInv
  BY DEF Unknown, Reading, RoundTripInv
<1>2. EncOK
  BY <1>1, Zenon DEF LzwInv
<1>3. /\ n_bits' = p.n_bits /\ bits' = p.bits /\ buf' = p.buf
      /\ IF ~p.ok THEN CompressFails(-5, p.out)
         ELSE IF EncFree(enc.dict) + 1 >= TableSize
         THEN CompressFails(-2, p.out)
         ELSE /\ enc' = [enc EXCEPT !.i_buf_ptr = @ + 1, !.ent = NextPair[2],
                              !.dict = Append(@, NextPair), !.out = p.out]
              /\ UNCHANGED <<pc, stale, dec, rc>>
  BY Zenon DEF Unknown, Statics
<1>4. CASE CompressFails(-5, p.out) \/ CompressFails(-2, p.out)
  <2>1. pc \in {"compress", "flush"}
    BY <1>1
  <2> QED
    BY <1>4, <2>1, FailRound, Zenon
<1>5. CASE /\ p.ok
           /\ enc' = [enc EXCEPT !.i_buf_ptr = @ + 1, !.ent = NextPair[2],
                              !.dict = Append(@, NextPair), !.out = p.out]
           /\ UNCHANGED <<pc, stale, dec, rc>>
  <2> HIDE DEF p
  <2>1. /\ N \in Nat /\ enc.dict \in Seq(Nat \X Symbol) /\ enc.i_buf \in Seq(Symbol)
        /\ enc.i_buf_ptr \in Nat /\ Len(enc.i_buf) \in Nat /\ enc.ent \in Nat
    BY <1>2, EncFacts, Zenon
  <2>2. sym \in Symbol
    <3>1. enc.i_buf_ptr + 1 \in 1 .. Len(enc.i_buf)
      BY <1>1, <2>1
    <3> QED
      BY <2>1, <3>1
  <2> HIDE DEF sym
  <2>3. NextPair = <<enc.ent, sym>> /\ NextPair[2] = sym
    BY DEF NextPair, sym
  <2> DEFINE dict == Append(enc.dict, <<enc.ent, sym>>)
  <2>4. /\ enc'.i_buf = enc.i_buf /\ enc'.i_buf_ptr = enc.i_buf_ptr + 1
        /\ enc'.ent = sym /\ enc'.dict = dict /\ enc'.out = p.out
        /\ enc'.pure = enc.pure
    <3>1. enc' = [enc EXCEPT !.i_buf_ptr = enc.i_buf_ptr + 1, !.ent = sym,
                             !.dict = dict, !.out = p.out]
      BY <1>5, <2>3, Zenon
    <3> HIDE DEF dict
    <3>2. enc \in EncRecord
      BY <1>2, Zenon DEF EncOK
    <3> QED
      BY <3>1, <3>2 DEF EncRecord
  <2>5. /\ Len(dict) = N + 1 /\ \A k \in 1 .. N : dict[k] = enc.dict[k]
        /\ dict[N + 1] = <<enc.ent, sym>>
    <3> DEFINE s == enc.dict
               x == <<enc.ent, sym>>
    <3>1. s \in Seq(Nat \X Symbol) /\ x \in Nat \X Symbol /\ Len(s) = N
      BY <2>1, <2>2
    <3> HIDE DEF s, x
    <3>2. /\ Len(Append(s, x)) = Len(s) + 1
          /\ \A k \in 1 .. Len(s) : Append(s, x)[k] = s[k]
          /\ Append(s, x)[Len(s) + 1] = x
      BY <3>1, AppendProperties
    <3> QED
      BY <3>1, <3>2, Zenon DEF s, x
  <2> HIDE DEF dict
  <2>6. \A k \in 1 .. N + 1 : Code(enc', k) = Code(enc, k)
    <3> TAKE k \in 1 .. N + 1
    <3>1. CASE k \in 1 .. N
      <4>1. k <= N /\ k <= N + 1
        BY <2>1, <3>1
      <4> QED
        BY <2>4, <2>5, <3>1, <4>1, Zenon DEF Code
    <3>2. CASE k = N + 1
      <4>1. k <= N + 1 /\ ~(k <= N)
        BY <2>1, <3>2
      <4>2. Code(enc', k) = <<enc.ent, sym>>[1] /\ Code(enc, k) = enc.ent
        BY <2>4, <2>5, <3>2, <4>1, Zenon DEF Code
      <4> QED
        BY <4>2
    <3>3. k \in 1 .. N \/ k = N + 1
      BY <2>1
    <3> QED
      BY <3>1, <3>2, <3>3, Zenon
  <2>7. ASSUME enc.pure
        PROVE  /\ (\E V, pos : Writing(Len(enc.dict), V, pos))'
               /\ IsWidth(n_bits', First + Len(enc'.dict) - 1)
    <3>1. PICK V, pos : Writing(N, V, pos)
      BY <1>1, <2>7, Zenon DEF RoundTripInv, BitsInv
    <3>2. IsWidth(n_bits, First + N - 1)
      BY <1>1, <2>7, Zenon DEF RoundTripInv, BitsInv
    <3>3. /\ \E W, pos2 : Packs(enc, N + 1, W, pos2, p.out, p.buf, p.bits)
          /\ IsWidth(p.n_bits, First + N)
      BY <1>1, <1>5, <3>1, <3>2, EncoderPacks, Zenon DEF p
    <3>4. PICK W, pos2 : Packs(enc, N + 1, W, pos2, p.out, p.buf, p.bits)
      BY <3>3, Zenon
    <3>5. Packs(enc', N + 1, W, pos2, p.out, p.buf, p.bits)
      BY <2>6, <3>4, PacksSame, Zenon
    <3>6. Packs(enc', Len(enc'.dict), W, pos2, enc'.out, buf', bits')
      BY <1>3, <2>4, <2>5, <3>5, Zenon
    <3>7. First + Len(enc'.dict) - 1 = First + N
      <4>1. Len(enc'.dict) = N + 1
        BY <2>4, <2>5, Zenon
      <4> QED
        BY <2>1, <4>1, FirstFacts
    <3>8. IsWidth(n_bits', First + Len(enc'.dict) - 1)
      BY <1>3, <3>3, <3>7, Zenon
    <3> QED
      BY <3>6, <3>8, Zenon DEF Writing
  <2>8. ASSUME enc.pure PROVE \E start : Parsed(enc', start)
    <3>1. PICK start : Parsed(enc, start)
      BY <1>1, <2>8, Zenon DEF RoundTripInv, PhraseInv
    <3>2. /\ IsDict(enc.dict) /\ enc.ent \in 0 .. First + N - 1
          /\ \A k \in 1 .. N + 1 : Code(enc, k) \in 0 .. First + N - 1
      BY <1>2, EncDict, Zenon DEF Codes
    <3>3. sym = enc.i_buf[enc.i_buf_ptr + 1] /\ enc'.dict = Append(enc.dict, <<enc.ent, sym>>)
      BY <2>4, Zenon DEF sym, dict
    <3> QED
      BY <1>1, <2>1, <2>2, <2>4, <3>1, <3>2, <3>3, ParsedUnknown, Zenon
  <2>9. dec.i_buf = <<>> /\ pc' = "compress" /\ dec' = dec
    BY <1>1, <1>5, Zenon DEF RoundTripInv, PhraseInv
  <2>10. BitsInv'
    BY <2>4, <2>7, <2>9, Zenon DEF BitsInv
  <2>11. PhraseInv'
    BY <2>4, <2>8, <2>9, Zenon DEF PhraseInv, Returning
  <2> QED
    BY <2>10, <2>11, Zenon
<1> QED
  BY <1>3, <1>4, <1>5, Zenon

LEMMA LastCodeRound ==
  ASSUME RoundTripInv, LastCode PROVE BitsInv' /\ PhraseInv'
<1> DEFINE p == PutCode(enc, enc.ent)
           N == Len(enc.dict)
<1>1. pc = "compress" /\ enc.i_buf_ptr = Len(enc.i_buf) /\ LzwInv
  BY DEF LastCode, RoundTripInv
<1>2. EncOK
  BY <1>1, Zenon DEF LzwInv
<1>3. /\ n_bits' = p.n_bits /\ bits' = p.bits /\ buf' = p.buf
      /\ IF ~p.ok THEN CompressFails(-5, p.out)
         ELSE /\ pc' = "flush" /\ enc' = [enc EXCEPT !.out = p.out]
              /\ UNCHANGED <<stale, dec, rc>>
  BY Zenon DEF LastCode, Statics
<1>4. CASE CompressFails(-5, p.out)
  <2>1. pc \in {"compress", "flush"}
    BY <1>1
  <2> QED
    BY <1>4, <2>1, FailRound, Zenon
<1>5. CASE /\ p.ok /\ pc' = "flush" /\ enc' = [enc EXCEPT !.out = p.out]
           /\ UNCHANGED <<stale, dec, rc>>
  <2> HIDE DEF p
  <2>1. /\ enc'.i_buf = enc.i_buf /\ enc'.i_buf_ptr = enc.i_buf_ptr
        /\ enc'.ent = enc.ent /\ enc'.dict = enc.dict /\ enc'.out = p.out
        /\ enc'.pure = enc.pure
    BY <1>2, <1>5 DEF EncOK, EncRecord
  <2>2. Codes(enc') = N + 1 /\ \A k \in 1 .. N + 1 : Code(enc', k) = Code(enc, k)
    BY <2>1, Zenon DEF Code, Codes
  <2>3. ASSUME enc.pure PROVE (\E V, pos : Writing(Codes(enc), V, pos))'
    <3>1. PICK V, pos : Writing(N, V, pos)
      BY <1>1, <2>3, Zenon DEF RoundTripInv, BitsInv
    <3>2. IsWidth(n_bits, First + N - 1)
      BY <1>1, <2>3, Zenon DEF RoundTripInv, BitsInv
    <3>3. PICK W, pos2 : Packs(enc, N + 1, W, pos2, p.out, p.buf, p.bits)
      BY <1>1, <1>5, <3>1, <3>2, EncoderPacks, Zenon DEF p
    <3>4. Packs(enc', N + 1, W, pos2, p.out, p.buf, p.bits)
      BY <2>2, <3>3, PacksSame, Zenon
    <3>5. Packs(enc', Codes(enc'), W, pos2, enc'.out, buf', bits')
      BY <1>3, <2>1, <2>2, <3>4, Zenon
    <3> QED
      BY <3>5, Zenon DEF Writing
  <2>4. ASSUME enc.pure PROVE \E start : Parsed(enc', start)
    <3>1. PICK start : Parsed(enc, start)
      BY <1>1, <2>4, Zenon DEF RoundTripInv, PhraseInv
    <3> QED
      BY <2>1, <3>1, ParsedSame, Zenon
  <2>5. dec.i_buf = <<>> /\ dec' = dec
    BY <1>1, <1>5, Zenon DEF RoundTripInv, PhraseInv
  <2>6. BitsInv'
    BY <1>5, <2>1, <2>3, Zenon DEF BitsInv
  <2>7. enc'.i_buf_ptr = Len(enc'.i_buf)
    BY <1>1, <2>1, Zenon
  <2>8. PhraseInv'
    BY <1>5, <2>1, <2>4, <2>5, <2>7, Zenon DEF PhraseInv, Returning
  <2> QED
    BY <2>6, <2>8, Zenon
<1> QED
  BY <1>3, <1>4, <1>5, Zenon

\* putcode(-1): what is left in the bit buffer is the last byte.
LEMMA LastBits ==
  ASSUME NEW e, NEW V, NEW pos, NEW out \in Seq(Byte), StaticsOK, Len(e.dict) \in Nat,
         Packs(e, Codes(e), V, pos, out, buf, bits)
  PROVE  LET all == IF bits > 0 THEN Append(out, buf) ELSE out
         IN  /\ Holds(e, Codes(e), V, pos) /\ AreBytes(all, V)
             /\ pos[Codes(e) + 1] <= ByteBits * Len(all)
             /\ ByteBits * Len(all) < pos[Codes(e) + 1] + ByteBits
<1> DEFINE L == Len(out)
           E == pos[Codes(e) + 1]
           s == ByteBits * L
           all == IF bits > 0 THEN Append(out, buf) ELSE out
<1>1. /\ Holds(e, Codes(e), V, pos) /\ AreBytes(out, V) /\ buf = V \div 2^s
      /\ E = s + bits /\ bits < ByteBits
  BY Zenon DEF Packs
<1>2. L \in Nat /\ ByteBits \in Nat /\ bits \in Nat /\ buf \in Byte
  BY <1>1, ConstantFacts, LastByte DEF StaticsOK
<1>3. s \in Nat /\ ByteBits * (L + 1) = s + ByteBits
  BY <1>2
<1>4. CASE bits > 0
  <2>1. /\ all = Append(out, buf) /\ Len(all) = L + 1 /\ all[L + 1] = buf
        /\ \A i \in 1 .. L : all[i] = out[i]
    BY <1>2, <1>4, AppendProperties
  <2>2. ByteOf(V, L + 1) = buf
    <3>1. (L + 1) - 1 = L
      BY <1>2
    <3>2. buf % 2^ByteBits = buf
      <4>1. /\ 2^ByteBits \in Nat /\ 2^ByteBits > 0 /\ buf \in Nat /\ buf < 2^ByteBits
        BY <1>2, ConstantFacts
      <4>2. buf = 0 * 2^ByteBits + buf
        BY <4>1
      <4> QED
        BY <4>1, <4>2, DivModUnique
    <3> QED
      BY <1>1, <3>1, <3>2, Zenon DEF ByteOf
  <2>3. \A i \in 1 .. L + 1 : i \in 1 .. L \/ i = L + 1
    BY <1>2
  <2> HIDE DEF all
  <2>4. AreBytes(all, V)
    BY <1>1, <2>1, <2>2, <2>3, Zenon DEF AreBytes
  <2> HIDE DEF s, E
  <2>5. E <= s + ByteBits /\ s + ByteBits < E + ByteBits
    BY <1>1, <1>2, <1>3, <1>4
  <2>6. E <= ByteBits * Len(all) /\ ByteBits * Len(all) < E + ByteBits
    BY <1>3, <2>1, <2>5, Zenon
  <2> QED
    BY <1>1, <2>4, <2>6, Zenon DEF E, all
<1>5. CASE ~(bits > 0)
  <2>1. all = out /\ bits = 0
    BY <1>2, <1>5
  <2>2. E <= s /\ s < E + ByteBits
    <3> HIDE DEF s, E
    <3> QED
      BY <1>1, <1>2, <1>3, <2>1, ConstantFacts
  <2> QED
    BY <1>1, <2>1, <2>2, Zenon
<1> QED
  BY <1>4, <1>5

LEMMA FlushRound ==
  ASSUME RoundTripInv, Flush PROVE BitsInv' /\ PhraseInv'
<1> DEFINE all == IF bits > 0 THEN Append(enc.out, buf) ELSE enc.out
<1>1. pc = "flush" /\ EncOK /\ StaticsOK
  BY DEF Flush, RoundTripInv, LzwInv
<1>2. CASE CompressFails(-5, enc.out)
  <2>1. pc \in {"compress", "flush"}
    BY <1>1
  <2> QED
    BY <1>2, <2>1, FailRound, Zenon
<1>3. CASE ~CompressFails(-5, enc.out)
  <2>1. /\ enc' = [enc EXCEPT !.out = IF bits > 0 THEN Append(@, buf) ELSE @]
        /\ pc' = "packed" /\ dec' = dec
    BY <1>3, Zenon DEF Flush
  <2>2. /\ enc'.i_buf = enc.i_buf /\ enc'.i_buf_ptr = enc.i_buf_ptr
        /\ enc'.ent = enc.ent /\ enc'.dict = enc.dict /\ enc'.pure = enc.pure
        /\ enc'.out = all
    <3>1. enc' = [enc EXCEPT !.out = all]
      BY <2>1, Zenon
    <3> HIDE DEF all
    <3> QED
      BY <1>1, <3>1 DEF EncOK, EncRecord
  <2>3. Codes(enc') = Codes(enc) /\ \A k : Code(enc', k) = Code(enc, k)
    BY <2>2, Zenon DEF Code, Codes
  <2>4. ASSUME enc.pure PROVE (\E V, pos : Written(V, pos))'
    <3>1. PICK V, pos : Packs(enc, Codes(enc), V, pos, enc.out, buf, bits)
      BY <1>1, <2>4, Zenon DEF RoundTripInv, BitsInv, Writing
    <3>2. enc.out \in Seq(Byte) /\ Len(enc.dict) \in Nat
      BY <1>1, EncFacts, Zenon
    <3>3. /\ Holds(enc, Codes(enc), V, pos) /\ AreBytes(all, V)
          /\ pos[Codes(enc) + 1] <= ByteBits * Len(all)
          /\ ByteBits * Len(all) < pos[Codes(enc) + 1] + ByteBits
      BY <1>1, <3>1, <3>2, LastBits, Zenon
    <3> HIDE DEF all
    <3>4. Holds(enc', Codes(enc), V, pos)
      BY <2>3, <3>3, Zenon DEF Holds
    <3>5. Written(V, pos)'
      BY <2>2, <2>3, <3>3, <3>4, Zenon DEF Written
    <3> QED
      BY <3>5, Zenon
  <2>5. ASSUME enc.pure PROVE \E start : Parsed(enc', start)
    <3>1. PICK start : Parsed(enc, start)
      BY <1>1, <2>5, Zenon DEF RoundTripInv, PhraseInv
    <3> QED
      BY <2>2, <3>1, ParsedSame, Zenon
  <2>6. dec.i_buf = <<>> /\ (enc.pure => enc.i_buf_ptr = Len(enc.i_buf))
    BY <1>1, Zenon DEF RoundTripInv, PhraseInv
  <2>7. BitsInv'
    BY <2>1, <2>2, <2>4, Zenon DEF BitsInv
  <2>8. enc'.pure => enc'.i_buf_ptr = Len(enc'.i_buf)
    BY <2>2, <2>6, Zenon
  <2>9. PhraseInv'
    BY <2>1, <2>2, <2>5, <2>6, <2>8, Zenon DEF PhraseInv, Returning
  <2> QED
    BY <2>7, <2>9, Zenon
<1> QED
  BY <1>2, <1>3

-----------------------------------------------------------------------------
(* The steps of decompress. *)

LEMMA DecompressRound ==
  ASSUME RoundTripInv, Decompress PROVE BitsInv' /\ PhraseInv'
<1>1. /\ pc = "packed" /\ pc' = "decompress" /\ enc' = enc
      /\ dec' = [NoDec EXCEPT !.i_buf = enc.out, !.o_buf_size = Len(enc.i_buf),
                              !.last_code = EncFree(enc.dict) + 1]
  BY DEF Decompress
<1>2. EncOK
  BY Zenon DEF RoundTripInv, LzwInv
<1>3. /\ dec'.i_buf = enc.out /\ dec'.o_buf_size = Len(enc.i_buf)
      /\ dec'.last_code = EncFree(enc.dict) + 1 /\ dec'.i_buf_ptr = 0
      /\ dec'.n_bits = StartBits /\ dec'.bits = 0 /\ dec'.buf = 0
      /\ dec'.pred = <<>> /\ dec'.suff = <<>> /\ dec'.out = <<>>
  BY <1>1 DEF NoDec
<1>4. Len(dec'.pred) = 0 /\ Len(dec'.out) = 0
  BY <1>3
<1>5. Len(enc.dict) \in Nat /\ Codes(enc) \in Nat /\ 0 < Codes(enc) /\ 0 <= Codes(enc)
  BY <1>2, EncFacts DEF Codes
<1>6. ASSUME enc.pure PROVE (\E V, pos : ReadingBits(V, pos))'
  <2>1. PICK V, pos : Written(V, pos)
    BY <1>1, <1>6, Zenon DEF RoundTripInv, BitsInv
  <2>2. pos[1] = 0 /\ V \in Nat
    BY <2>1, Zenon DEF Written, Holds
  <2>3. First + 0 = First /\ 0 + 1 = 1 /\ 0 + 0 = 0 /\ ByteBits * 0 = 0
    BY FirstFacts, ConstantFacts
  <2>4. (V \div 2^0) % 2^0 = 0
    <3>1. 2^0 = 1
      OBVIOUS
    <3>2. V \div 1 = V /\ V % 1 = 0
      BY <2>2
    <3> QED
      BY <3>1, <3>2, Zenon
  <2>5. IsWidth(dec'.n_bits, First + Len(dec'.pred))
    BY <1>3, <1>4, <2>3, FirstWidth, Zenon
  <2>6. ByteBits * dec'.i_buf_ptr = pos[Len(dec'.pred) + 1] + dec'.bits
    BY <1>3, <1>4, <2>2, <2>3, Zenon
  <2>7. dec'.buf = (V \div 2^pos[Len(dec'.pred) + 1]) % 2^(dec'.bits)
    BY <1>3, <1>4, <2>2, <2>3, <2>4, Zenon
  <2>8. Written(V, pos)'
    BY <1>1, <2>1, Zenon DEF Written
  <2>9. Len(dec'.pred) < Codes(enc')
    BY <1>1, <1>4, <1>5, Zenon
  <2>10. ReadingBits(V, pos)'
    BY <1>1, <1>3, <2>5, <2>6, <2>7, <2>8, <2>9, Zenon DEF ReadingBits
  <2> QED
    BY <2>10, Zenon
<1>7. ASSUME enc.pure PROVE (\E start : Parsed(enc, start) /\ Follows(dec, start))'
  <2>1. PICK start : Parsed(enc, start)
    BY <1>1, <1>7, Zenon DEF RoundTripInv, PhraseInv
  <2>2. start[0 + 1] = 0
    BY <2>1 DEF Parsed
  <2>3. (\A j \in 1 .. 0 : FALSE) /\ (\A j \in 1 .. 0 - 1 : FALSE) /\ ~(0 > 0)
    OBVIOUS
  <2>4. /\ Len(dec'.pred) <= Codes(enc')
        /\ \A j \in 1 .. Len(dec'.pred) : dec'.pred[j] = Code(enc', j)
        /\ \A j \in 1 .. Len(dec'.pred) - 1 : dec'.suff[j] = enc'.dict[j][2]
        /\ Len(dec'.pred) > 0 =>
             dec'.suff[Len(dec'.pred)] = Phrase(enc'.dict)[Code(enc', Len(dec'.pred))][1]
    BY <1>1, <1>4, <1>5, <2>3, Zenon
  <2>5. Len(dec'.out) = start[Len(dec'.pred) + 1]
        /\ \A i \in 1 .. Len(dec'.out) : dec'.out[i] = enc'.i_buf[i]
    BY <1>4, <2>2, <2>3, Zenon
  <2>6. Follows(dec, start)'
    BY <2>4, <2>5, Zenon DEF Follows
  <2>7. Parsed(enc, start)'
    BY <1>1, <2>1, Zenon
  <2> QED
    BY <2>6, <2>7, Zenon
<1>8. enc.pure => enc.i_buf_ptr = Len(enc.i_buf)
  BY <1>1, Zenon DEF RoundTripInv, PhraseInv
<1>9. BitsInv'
  BY <1>1, <1>6, Zenon DEF BitsInv
<1>10. PhraseInv'
  BY <1>1, <1>3, <1>4, <1>5, <1>7, <1>8, Zenon DEF PhraseInv, Returning
<1> QED
  BY <1>9, <1>10, Zenon

-----------------------------------------------------------------------------
(* The steps of decompress that take a code. *)

\* The width of the codes after one more entry; it is too much for the table just
\* when the table is full.
WidthThen(w, free) == IF free + 1 >= 2^w THEN w + 1 ELSE w

LEMMA WidthThenFits ==
  ASSUME NEW free \in Nat, NEW w \in StartBits .. MaxBits, IsWidth(w, free)
  PROVE  /\ IsWidth(WidthThen(w, free), free + 1)
         /\ TooWide(WidthThen(w, free)) <=> free + 1 >= TableSize
<1>1. w \in Nat /\ MaxBits \in Nat /\ w <= MaxBits /\ TableSize = 2^MaxBits
      /\ TableSize \in Nat
  BY ConstantFacts
<1>2. free < 2^w
  BY DEF IsWidth
<1>3. 2^w \in Nat /\ 2^w > 0 /\ 2^(w + 1) = 2 * 2^w /\ 2^w <= TableSize
  BY <1>1, PowerPositive, PowerNext, PowerMonotone
<1>4. CASE free + 1 >= 2^w
  <2>1. WidthThen(w, free) = w + 1
    BY <1>4 DEF WidthThen
  <2>2. IsWidth(w + 1, free + 1)
    BY <1>4, WidthGrows
  <2>3. CASE w = MaxBits
    <3>1. w + 1 > MaxBits /\ free + 1 >= TableSize
      BY <1>1, <1>4, <2>3
    <3> QED
      BY <2>1, <2>2, <3>1, Zenon DEF TooWide
  <2>4. CASE w # MaxBits
    <3>1. w + 1 <= MaxBits /\ w + 1 \in Nat
      BY <1>1, <2>4
    <3>2. 2^(w + 1) <= TableSize
      BY <1>1, <3>1, PowerMonotone
    <3>3. ~(w + 1 > MaxBits) /\ ~(free + 1 >= TableSize)
      BY <1>1, <1>2, <1>3, <3>1, <3>2
    <3> QED
      BY <2>1, <2>2, <3>3, Zenon DEF TooWide
  <2> QED
    BY <2>3, <2>4
<1>5. CASE ~(free + 1 >= 2^w)
  <2>1. WidthThen(w, free) = w
    BY <1>5 DEF WidthThen
  <2>2. IsWidth(w, free + 1)
    BY <1>5, WidthGrows
  <2>3. ~(w > MaxBits) /\ ~(free + 1 >= TableSize)
    BY <1>1, <1>3, <1>5
  <2> QED
    BY <2>1, <2>2, <2>3, Zenon DEF TooWide
<1> QED
  BY <1>4, <1>5

LEMMA DecodeRound ==
  ASSUME RoundTripInv, Decode PROVE BitsInv' /\ PhraseInv'
<1> DEFINE k == Len(dec.pred)
           d == NextOf(dec)
           N == Len(enc.dict)
           m == Codes(enc)
           u == StringOf(dec)
           L == Len(dec.i_buf)
           size == Len(enc.i_buf)
           free == DecFree(dec.pred)
           w == WidthThen(dec.n_bits, First + k)
<1>1. pc = "decompress" /\ enc' = enc
  BY DecodeCases
<1>2. EncOK /\ DecOK /\ Decoding /\ LzwInv
  BY <1>1, Zenon DEF RoundTripInv, LzwInv, PhaseOK
<1>3. pc' = "decompress" \/ pc' = "returned"
  BY <1>1, DecodeCases, Zenon DEF DecompressReturns
<1>4. CASE ~enc.pure
  BY <1>1, <1>3, <1>4 DEF BitsInv, PhraseInv
<1>5. CASE enc.pure
  <2>1. PICK V, pos : ReadingBits(V, pos)
    BY <1>1, <1>5, Zenon DEF RoundTripInv, BitsInv
  <2>2. PICK start : Parsed(enc, start) /\ Follows(dec, start)
    BY <1>1, <1>5, Zenon DEF RoundTripInv, PhraseInv
  <2>3. /\ enc.i_buf_ptr = size /\ k < m /\ dec.o_buf_size = size
        /\ dec.last_code = EncFree(enc.dict) + 1
    BY <1>1, <1>5, Zenon DEF RoundTripInv, PhraseInv
  <2>4. /\ NextCode(dec) = Code(enc, k + 1) /\ ReadOf(dec).i_buf_ptr <= L
        /\ ByteBits * ReadOf(dec).i_buf_ptr = pos[(k + 1) + 1] + ReadOf(dec).bits
        /\ ReadOf(dec).buf = (V \div 2^pos[(k + 1) + 1]) % 2^ReadOf(dec).bits
        /\ k + 1 < m => ReadOf(dec).i_buf_ptr < L
    BY <1>1, <1>2, <2>1, DecoderReads, Zenon
  <2>5. NextCode(dec) \in Nat /\ NextCode(dec) < free
    BY <1>2, <2>2, <2>3, <2>4, StringIsPiece, Zenon
  <2>6. /\ Follows(d, start) /\ Len(d.pred) = k + 1
        /\ Len(dec.out) + Len(u) = start[(k + 1) + 1]
        /\ Len(d.out) = start[(k + 1) + 1] /\ start[(k + 1) + 1] <= size
    BY <1>2, <2>2, <2>3, <2>4, NextFollows, Zenon
  <2>7. /\ d.i_buf = dec.i_buf /\ d.o_buf_size = size
        /\ d.last_code = dec.last_code /\ d.i_buf_ptr = ReadOf(dec).i_buf_ptr
        /\ d.bits = ReadOf(dec).bits /\ d.buf = ReadOf(dec).buf
    BY <1>2, <2>3, <2>5, NextFacts, Zenon
  <2>8. /\ k \in Nat /\ N \in Nat /\ m = N + 1 /\ First \in Nat /\ L \in Nat
        /\ free = First + k /\ EncFree(enc.dict) = First + N /\ First + N < TableSize
        /\ TableSize \in Nat /\ size \in Nat /\ Len(dec.out) \in Nat
        /\ dec.n_bits \in StartBits .. MaxBits
    BY <1>2, EncFacts, DecFacts, ConstantFacts, Zenon DEF EncOK, Codes, Decoding
  <2>9. d.n_bits = w
    BY <1>2, <2>5, <2>8, NextFacts, Zenon DEF WidthThen
  <2>10. d.i_buf_ptr \in Nat
    BY <1>2, <2>7, ReadFacts DEF DecRecord
  <2>11. Len(u) \in Nat
    BY <1>2, <2>5, StringFacts
  <2>12. IsWidth(w, First + (k + 1)) /\ (TooWide(w) <=> First + (k + 1) >= TableSize)
    <3>1. First + k \in Nat /\ First + (k + 1) = (First + k) + 1
      BY <2>8
    <3>2. IsWidth(dec.n_bits, First + k)
      BY <2>1, Zenon DEF ReadingBits
    <3> QED
      BY <2>8, <3>1, <3>2, WidthThenFits, Zenon
  <2> HIDE DEF k, d, N, m, u, L, size, free, w
  <2>13. /\ ~(ReadOf(dec).i_buf_ptr > L) /\ ~(free <= NextCode(dec))
         /\ ~(Len(u) > dec.o_buf_size - Len(dec.out))
    <3>1. ~(ReadOf(dec).i_buf_ptr > L)
      BY <2>4, <2>7, <2>8, <2>10
    <3>2. ~(free <= NextCode(dec))
      BY <2>5, <2>8
    <3>3. ~(Len(u) > dec.o_buf_size - Len(dec.out))
      BY <2>3, <2>6, <2>8, <2>11
    <3> QED
      BY <3>1, <3>2, <3>3
  <2>14. /\ dec' = d
         /\ IF TooWide(w) THEN DecompressReturns(-2)
            ELSE IF d.i_buf_ptr < L /\ free + 1 < dec.last_code
            THEN UNCHANGED <<pc, rc>>
            ELSE DecompressReturns(Len(d.out))
    BY <2>9, <2>13, DecodeCases, Zenon DEF d, u, L, free
  <2>15. k + 1 <= m
    BY <2>3, <2>8
  <2>16. Parsed(enc, start)' /\ Follows(dec, start)'
    <3>1. Parsed(enc, start)'
      BY <1>1, <2>2, Zenon
    <3>2. Follows(dec, start)'
      BY <1>1, <2>6, <2>14, Zenon DEF Follows
    <3> QED
      BY <3>1, <3>2
  <2>17. /\ enc'.i_buf_ptr = Len(enc'.i_buf) /\ Len(dec'.pred) = k + 1
         /\ dec'.o_buf_size = Len(enc'.i_buf) /\ dec'.last_code = EncFree(enc'.dict) + 1
    BY <1>1, <2>3, <2>6, <2>7, <2>14, Zenon DEF size
  <2>18. ASSUME k = N, pc' = "returned",
                rc' = IF EncFree(enc.dict) + 1 < TableSize THEN size ELSE -2
         PROVE  BitsInv' /\ PhraseInv'
    <3>1. Len(dec'.pred) = Codes(enc')
      BY <1>1, <2>8, <2>17, <2>18, Zenon DEF m
    <3>2. rc' = IF EncFree(enc'.dict) + 1 < TableSize THEN Len(enc'.i_buf) ELSE -2
      BY <1>1, <2>18, Zenon DEF size
    <3>3. BitsInv'
      BY <2>18, Zenon DEF BitsInv
    <3>4. PhraseInv'
      BY <2>16, <2>17, <2>18, <3>1, <3>2, Zenon DEF PhraseInv, Returning
    <3> QED
      BY <3>3, <3>4
  <2>19. CASE TooWide(w)
    <3>1. First + (k + 1) >= TableSize
      BY <2>12, <2>19
    <3>2. k = N /\ ~(EncFree(enc.dict) + 1 < TableSize)
      BY <2>8, <2>15, <3>1
    <3>3. pc' = "returned" /\ rc' = -2
      BY <2>14, <2>19, Zenon DEF DecompressReturns
    <3> QED
      BY <2>18, <3>2, <3>3, Zenon
  <2>20. CASE ~TooWide(w) /\ k + 1 = m
    <3>1. k = N /\ EncFree(enc.dict) + 1 < TableSize /\ ~(free + 1 < dec.last_code)
      BY <2>3, <2>8, <2>12, <2>20
    <3>2. pc' = "returned" /\ rc' = Len(d.out)
      BY <2>14, <2>20, <3>1, Zenon DEF DecompressReturns
    <3>3. Len(d.out) = size
      <4>1. start[m + 1] = enc.i_buf_ptr
        BY <2>2, Zenon DEF Parsed, m
      <4> QED
        BY <2>3, <2>6, <2>20, <4>1, Zenon
    <3> QED
      BY <2>18, <3>1, <3>2, <3>3, Zenon
  <2>21. CASE ~TooWide(w) /\ k + 1 # m
    <3>1. k + 1 < m /\ free + 1 < dec.last_code
      BY <2>3, <2>8, <2>15, <2>21
    <3>2. d.i_buf_ptr < L
      BY <2>4, <2>7, <3>1, Zenon
    <3>3. pc' = "decompress"
      BY <1>1, <2>14, <2>21, <3>1, <3>2, Zenon
    <3>4. ReadingBits(V, pos)'
      <4>1. Written(V, pos) /\ dec.i_buf = enc.out
        BY <2>1, Zenon DEF ReadingBits
      <4>2. Written(V, pos)' /\ dec'.i_buf = enc'.out
        BY <1>1, <2>7, <2>14, <4>1, Zenon DEF Written
      <4>3. Len(dec'.pred) < Codes(enc')
        BY <1>1, <2>17, <3>1, Zenon DEF m
      <4>4. IsWidth(dec'.n_bits, First + Len(dec'.pred))
        BY <2>9, <2>12, <2>14, <2>17, Zenon
      <4>5. ByteBits * dec'.i_buf_ptr = pos[Len(dec'.pred) + 1] + dec'.bits
        BY <2>4, <2>7, <2>14, <2>17, Zenon
      <4>6. dec'.buf = (V \div 2^pos[Len(dec'.pred) + 1]) % 2^dec'.bits
        BY <2>4, <2>7, <2>14, <2>17, Zenon
      <4> QED
        BY <4>2, <4>3, <4>4, <4>5, <4>6, Zenon DEF ReadingBits
    <3>5. BitsInv'
      BY <3>3, <3>4, Zenon DEF BitsInv
    <3>6. Len(dec'.pred) < Codes(enc')
      BY <1>1, <2>17, <3>1, Zenon DEF m
    <3>7. PhraseInv'
      BY <2>16, <2>17, <3>3, <3>6, Zenon DEF PhraseInv, Returning
    <3> QED
      BY <3>5, <3>7
  <2> QED
    BY <2>19, <2>20, <2>21
<1> QED
  BY <1>4, <1>5

LEMMA DamagedRound ==
  ASSUME RoundTripInv, pc = "idle", NEW i_buf \in Damaged, NEW size \in Sizes,
         NEW last_code \in 1 .. 2 * TableSize, DecompressDamaged(i_buf, size, last_code)
  PROVE  BitsInv' /\ PhraseInv'
<1>1. pc' = "decompress" /\ enc' = enc /\ ~enc.pure
  BY DEF DecompressDamaged, RoundTripInv, PhraseInv
<1> QED
  BY <1>1 DEF BitsInv, PhraseInv

LEMMA TakenRound ==
  ASSUME Taken PROVE BitsInv' /\ PhraseInv'
<1>1. pc' = "idle" /\ ~enc'.pure /\ dec'.i_buf = <<>>
  BY DEF Taken, NoEnc, NoDec
<1> QED
  BY <1>1 DEF BitsInv, PhraseInv

LEMMA InitRound == LzwInit => BitsInv /\ PhraseInv
<1> SUFFICES ASSUME LzwInit PROVE BitsInv /\ PhraseInv
  OBVIOUS
<1>1. pc = "idle" /\ ~enc.pure /\ dec.i_buf = <<>>
  BY DEF LzwInit, NoEnc, NoDec
<1> QED
  BY <1>1 DEF BitsInv, PhraseInv

LEMMA StutterRound ==
  ASSUME BitsInv, PhraseInv, UNCHANGED lzwVars PROVE BitsInv' /\ PhraseInv'
<1>1. /\ pc' = pc /\ n_bits' = n_bits /\ bits' = bits /\ buf' = buf
      /\ enc' = enc /\ dec' = dec /\ rc' = rc
  BY DEF lzwVars, putcodeVars
<1>2. ASSUME NEW V, NEW pos, NEW n PROVE Writing(n, V, pos) => Writing(n, V, pos)'
  BY <1>1, Zenon DEF Writing
<1>3. ASSUME NEW V, NEW pos PROVE Written(V, pos) => Written(V, pos)'
  BY <1>1, Zenon DEF Written
<1>4. ASSUME NEW V, NEW pos PROVE ReadingBits(V, pos) => ReadingBits(V, pos)'
  BY <1>1, <1>3, Zenon DEF ReadingBits
<1>5. ASSUME NEW start
      PROVE  Parsed(enc, start) /\ Follows(dec, start)
               => Parsed(enc, start)' /\ Follows(dec, start)'
  BY <1>1, Zenon DEF Follows
<1>6. ASSUME enc.pure PROVE BitsInv'
  <2>1. pc = "compress" =>
          /\ (\E V, pos : Writing(Len(enc.dict), V, pos))'
          /\ IsWidth(n_bits', First + Len(enc'.dict) - 1)
    <3> SUFFICES ASSUME pc = "compress"
                 PROVE  /\ (\E V, pos : Writing(Len(enc.dict), V, pos))'
                        /\ IsWidth(n_bits', First + Len(enc'.dict) - 1)
      OBVIOUS
    <3>1. PICK V, pos : Writing(Len(enc.dict), V, pos)
      BY <1>6, Zenon DEF BitsInv
    <3>2. IsWidth(n_bits, First + Len(enc.dict) - 1)
      BY <1>6, Zenon DEF BitsInv
    <3>3. Writing(Len(enc.dict), V, pos)'
      BY <1>1, <3>1, Zenon DEF Writing
    <3>4. IsWidth(n_bits', First + Len(enc'.dict) - 1)
      BY <1>1, <3>2, Zenon
    <3> QED
      BY <3>3, <3>4, Zenon
  <2>2. pc = "flush" => (\E V, pos : Writing(Codes(enc), V, pos))'
    <3> SUFFICES ASSUME pc = "flush" PROVE (\E V, pos : Writing(Codes(enc), V, pos))'
      OBVIOUS
    <3>1. PICK V, pos : Writing(Codes(enc), V, pos)
      BY <1>6, Zenon DEF BitsInv
    <3>2. Writing(Codes(enc), V, pos)'
      BY <1>1, <3>1, Zenon DEF Writing
    <3> QED
      BY <3>2, Zenon
  <2>3. pc = "packed" => (\E V, pos : Written(V, pos))'
    BY <1>3, <1>6, Zenon DEF BitsInv
  <2>4. pc = "decompress" => (\E V, pos : ReadingBits(V, pos))'
    BY <1>4, <1>6, Zenon DEF BitsInv
  <2> QED
    BY <1>1, <2>1, <2>2, <2>3, <2>4, Zenon DEF BitsInv
<1>7. BitsInv'
  BY <1>1, <1>6, Zenon DEF BitsInv
<1>8. Returning' <=> Returning
  BY <1>1, Zenon DEF Returning
<1>9. enc.pure /\ (pc = "decompress" \/ Returning)
        => (\E start : Parsed(enc, start) /\ Follows(dec, start))'
  BY <1>5, Zenon DEF PhraseInv
<1>10. PhraseInv'
  BY <1>1, <1>8, <1>9, Zenon DEF PhraseInv
<1> QED
  BY <1>7, <1>10, Zenon

LEMMA NextRound ==
  ASSUME RoundTripInv, LzwNext PROVE BitsInv' /\ PhraseInv'
<1>1. ASSUME Call PROVE BitsInv' /\ PhraseInv'
  <2>1. pc = "idle"
    BY <1>1 DEF Call
  <2>2. CASE \E i_buf \in IF stale THEN AgainInputs ELSE Inputs, size \in Sizes :
               Compress(i_buf, size)
    <3>1. AgainInputs \subseteq Inputs
      BY InputsAssumption
    <3>2. PICK i_buf \in Inputs, size \in Sizes : Compress(i_buf, size)
      BY <2>2, <3>1, Zenon
    <3> QED
      BY <2>1, <3>2, CompressRound
  <2>3. CASE \E i_buf \in Damaged, size \in Sizes, last_code \in 1 .. 2 * TableSize :
               DecompressDamaged(i_buf, size, last_code)
    <3>1. PICK i_buf \in Damaged, size \in Sizes, last_code \in 1 .. 2 * TableSize :
               DecompressDamaged(i_buf, size, last_code)
      BY <2>3, Zenon
    <3> QED
      BY <2>1, <3>1, DamagedRound
  <2> QED
    BY <1>1, <2>2, <2>3 DEF Call
<1> QED
  BY <1>1, KnownRound, UnknownRound, LastCodeRound, FlushRound, DecompressRound,
     DecodeRound, TakenRound DEF LzwNext

-----------------------------------------------------------------------------

\* The inductive invariant: as long as the statics were clean when compress was
\* called, there is one number that both bit buffers are parts of, and one division
\* of the input into pieces that both tables follow.
THEOREM RoundTripInvariant == LzwSpec => []RoundTripInv
<1>1. LzwInit => RoundTripInv
  BY InitInv, InitRound DEF RoundTripInv
<1>2. RoundTripInv /\ [LzwNext]_lzwVars => RoundTripInv'
  <2> SUFFICES ASSUME RoundTripInv, [LzwNext]_lzwVars PROVE RoundTripInv'
    OBVIOUS
  <2>1. LzwInv /\ BitsInv /\ PhraseInv
    BY DEF RoundTripInv
  <2>2. LzwInv'
    BY <2>1, NextStep, StutterStep
  <2>3. BitsInv' /\ PhraseInv'
    BY <2>1, NextRound, StutterRound
  <2> QED
    BY <2>2, <2>3 DEF RoundTripInv
<1> QED
  BY <1>1, <1>2, PTL DEF LzwSpec

\* The output is the beginning of the input, as far as a piece ends.
LEMMA OutputIsInput ==
  ASSUME EncOK, DecOK, NEW start, Parsed(enc, start), Follows(dec, start)
  PROVE  /\ Len(dec.out) \in Nat /\ Len(dec.out) <= Len(enc.i_buf)
         /\ \A i \in 1 .. Len(dec.out) : dec.out[i] = enc.i_buf[i]
<1> DEFINE k == Len(dec.pred)
           m == Codes(enc)
           size == Len(enc.i_buf)
           a == Len(dec.out)
<1>1. /\ k \in Nat /\ m \in Nat /\ size \in Nat /\ a \in Nat /\ enc.i_buf_ptr \in Nat
      /\ IsDict(enc.dict)
      /\ \A j \in 1 .. m : Code(enc, j) \in 0 .. First + Len(enc.dict) - 1
  <2>1. k \in Nat /\ size \in Nat /\ a \in Nat /\ enc.i_buf_ptr \in Nat
    BY DecFacts, EncFacts, Zenon
  <2>2. IsDict(enc.dict) /\ Len(enc.dict) \in Nat
        /\ \A j \in 1 .. m : Code(enc, j) \in 0 .. First + Len(enc.dict) - 1
    BY EncDict, Zenon
  <2>3. m \in Nat
    BY <2>2 DEF Codes
  <2> QED
    BY <2>1, <2>2, <2>3, Zenon
<1>2. /\ k <= m /\ a = start[k + 1] /\ \A i \in 1 .. a : dec.out[i] = enc.i_buf[i]
  BY Zenon DEF Follows
<1>3. /\ start \in [1 .. m + 1 -> Nat] /\ start[m + 1] = enc.i_buf_ptr
      /\ enc.i_buf_ptr <= size
  BY Zenon DEF Parsed
<1>4. k + 1 \in 1 .. m + 1 /\ m + 1 \in 1 .. m + 1 /\ k + 1 <= m + 1
  BY <1>1, <1>2
<1>5. start[k + 1] <= start[m + 1]
  BY <1>1, <1>4, StartsMonotone, Zenon
<1> HIDE DEF k, m, size, a
<1>6. a <= size
  BY <1>1, <1>2, <1>3, <1>4, <1>5
<1> QED
  BY <1>1, <1>2, <1>6, Zenon DEF a, size

\* decompress follows compress code by code, whatever is compressed: its output is
\* the beginning of the input, and its entries but the last are the compressor's.
THEOREM InStepAlways == LzwSpec => []InStep
<1>1. RoundTripInv => InStep
  <2> SUFFICES ASSUME RoundTripInv, enc.pure, dec.i_buf # <<>>
               PROVE  /\ IsPrefix(dec.out, enc.i_buf)
                      /\ \A k \in 1 .. Len(dec.pred) - 1 :
                           Expand(dec.pred, dec.suff)[First + k - 1]
                             = Phrase(enc.dict)[First + k - 1]
    BY DEF InStep
  <2>1. EncOK /\ DecOK /\ PhaseOK
    BY DEF RoundTripInv, LzwInv
  <2>2. pc = "decompress" \/ Returning
    BY <2>1, Zenon DEF RoundTripInv, PhraseInv, PhaseOK, Returning
  <2>3. PICK start : Parsed(enc, start) /\ Follows(dec, start)
    BY <2>2, Zenon DEF RoundTripInv, PhraseInv
  <2>4. /\ Len(dec.out) \in Nat /\ Len(dec.out) <= Len(enc.i_buf)
        /\ \A i \in 1 .. Len(dec.out) : dec.out[i] = enc.i_buf[i]
    BY <2>1, <2>3, OutputIsInput
  <2>5. IsPrefix(dec.out, enc.i_buf)
    <3>1. dec.out \in Seq(Symbol) /\ enc.i_buf \in Seq(Symbol)
      BY <2>1, EncFacts, DecFacts
    <3>2. SubSeq(enc.i_buf, 1, Len(dec.out)) = dec.out
      BY <2>4, <3>1
    <3> QED
      BY <2>4, <3>1, <3>2 DEF IsPrefix
  <2>6. ASSUME NEW k \in 1 .. Len(dec.pred) - 1
        PROVE  Expand(dec.pred, dec.suff)[First + k - 1] = Phrase(enc.dict)[First + k - 1]
    <3>1. Len(dec.pred) \in Nat /\ First \in Nat
      BY <2>1, DecFacts, FirstFacts, Zenon
    <3>2. Len(dec.pred) > 0 /\ First + k - 1 \in 0 .. First + (Len(dec.pred) - 1) - 1
      BY <3>1
    <3> QED
      BY <2>1, <2>3, <3>2, EntriesAgree, Zenon
  <2> QED
    BY <2>5, <2>6, Zenon
<1> QED
  BY <1>1, RoundTripInvariant, PTL

\* What compress has packed, decompress gives back whole, whatever it is and however
\* wide its symbols, bytes and codes are; the result is its size unless its codes use
\* up the table to the last place.
THEOREM RoundTripAlways == LzwSpec => []RoundTrip
<1>1. RoundTripInv => RoundTrip
  <2> SUFFICES ASSUME RoundTripInv, pc = "returned", enc.pure, dec.i_buf # <<>>
               PROVE  /\ dec.out = enc.i_buf
                      /\ rc = IF EncFree(enc.dict) + 1 < TableSize
                              THEN Len(enc.i_buf) ELSE -2
    BY DEF RoundTrip
  <2>1. EncOK /\ DecOK
    BY DEF RoundTripInv, LzwInv
  <2>2. Returning
    BY Zenon DEF Returning
  <2>3. PICK start : Parsed(enc, start) /\ Follows(dec, start)
    BY <2>2, Zenon DEF RoundTripInv, PhraseInv
  <2>4. /\ Len(dec.pred) = Codes(enc) /\ enc.i_buf_ptr = Len(enc.i_buf)
        /\ rc = IF EncFree(enc.dict) + 1 < TableSize THEN Len(enc.i_buf) ELSE -2
    BY <2>2, Zenon DEF RoundTripInv, PhraseInv
  <2>5. Len(dec.out) = Len(enc.i_buf)
    <3>1. Len(dec.out) = start[Len(dec.pred) + 1]
      BY <2>3, Zenon DEF Follows
    <3>2. start[Codes(enc) + 1] = enc.i_buf_ptr
      BY <2>3, Zenon DEF Parsed
    <3> QED
      BY <2>4, <3>1, <3>2, Zenon
  <2>6. \A i \in 1 .. Len(dec.out) : dec.out[i] = enc.i_buf[i]
    BY <2>1, <2>3, OutputIsInput
  <2>7. dec.out = enc.i_buf
    <3>1. dec.out \in Seq(Symbol) /\ enc.i_buf \in Seq(Symbol)
      BY <2>1, EncFacts, DecFacts
    <3> QED
      BY <2>5, <2>6, <3>1
  <2> QED
    BY <2>4, <2>7, Zenon
<1> QED
  BY <1>1, RoundTripInvariant, PTL
=============================================================================
