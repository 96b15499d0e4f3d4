------------------------------- MODULE Powers -------------------------------
(***************************************************************************)
(* Powers of two, for any exponent, division by them, and the least number *)
(* of a set.  The provers know nothing of 2^n but for a given number n;    *)
(* 2^n as the number of subsets of 1 .. n says the rest.                   *)
(***************************************************************************)
EXTENDS Integers, FunctionTheorems, FiniteSetTheorems, WellFoundedInduction,
        TLAPS

-----------------------------------------------------------------------------
(* The least number of a set: what takes the place of induction. *)

LEMMA LeastNumber ==
  ASSUME NEW S \in SUBSET Nat, S # {}
  PROVE  \E n \in S : \A k \in 0 .. n - 1 : k \notin S
<1> DEFINE R == {ss \in Nat \X Nat : ss[1] < ss[2]}
<1>1. IsWellFoundedOn(R, Nat)
  BY NatLessThanWellFounded DEF OpToRel
<1>2. \E n \in S : \A k \in S : ~(<<k, n>> \in R)
  <2> HIDE DEF R
  <2> QED
    BY <1>1, WFMin
<1>3. PICK n \in S : \A k \in S : ~(<<k, n>> \in R)
  BY <1>2
<1>4. \A k \in 0 .. n - 1 : k \in Nat /\ <<k, n>> \in R
  OBVIOUS
<1> QED
  BY <1>3, <1>4, Zenon

-----------------------------------------------------------------------------
(* Powers of two. *)

LEMMA PowerIsCount ==
  ASSUME NEW n \in Nat
  PROVE  /\ IsFiniteSet(1 .. n) /\ Cardinality(1 .. n) = n
         /\ IsFiniteSet(SUBSET (1 .. n)) /\ Cardinality(SUBSET (1 .. n)) = 2^n
<1>1. IsFiniteSet(1 .. n) /\ Cardinality(1 .. n) = n
  BY FS_Interval
<1>2. /\ IsFiniteSet(SUBSET (1 .. n))
      /\ Cardinality(SUBSET (1 .. n)) = 2^Cardinality(1 .. n)
  BY <1>1, FS_SUBSET
<1> QED
  BY <1>1, <1>2

LEMMA PowerPositive ==
  ASSUME NEW n \in Nat PROVE 2^n \in Nat /\ 2^n > 0
<1>1. IsFiniteSet(SUBSET (1 .. n)) /\ Cardinality(SUBSET (1 .. n)) = 2^n
  BY PowerIsCount
<1>2. SUBSET (1 .. n) # {}
  OBVIOUS
<1>3. 2^n \in Nat /\ 2^n # 0
  BY <1>1, <1>2, FS_CardinalityType, FS_EmptySet, Zenon
<1> QED
  BY <1>3

LEMMA PowerMonotone ==
  ASSUME NEW m \in Nat, NEW n \in Nat, m <= n PROVE 2^m <= 2^n
<1>1. SUBSET (1 .. m) \subseteq SUBSET (1 .. n)
  OBVIOUS
<1>2. Cardinality(SUBSET (1 .. m)) <= Cardinality(SUBSET (1 .. n))
  BY <1>1, PowerIsCount, FS_Subset
<1> QED
  BY <1>2, PowerIsCount

\* A subset of 1 .. m + n is one of 1 .. m and one of the n numbers behind.
LEMMA PowerOfSum ==
  ASSUME NEW m \in Nat, NEW n \in Nat PROVE 2^(m + n) = 2^m * 2^n
<1> DEFINE A == SUBSET (1 .. m)
           B == SUBSET (1 .. n)
           C == SUBSET (1 .. m + n)
           low(U) == {k \in 1 .. m : k \in U}
           high(U) == {k \in 1 .. n : k + m \in U}
           shift(T) == {k \in 1 .. m + n : k > m /\ k - m \in T}
           f == [p \in A \X B |-> p[1] \cup shift(p[2])]
<1>1. f \in [A \X B -> C]
  <2>1. ASSUME NEW p \in A \X B PROVE p[1] \cup shift(p[2]) \in C
    BY <2>1
  <2> QED
    BY <2>1
<1>2. ASSUME NEW p \in A \X B, NEW q \in A \X B, f[p] = f[q] PROVE p = q
  <2>1. p[1] \cup shift(p[2]) = q[1] \cup shift(q[2])
    BY <1>2
  <2>2. ASSUME NEW S \in A, NEW T \in B
        PROVE  S = low(S \cup shift(T)) /\ T = high(S \cup shift(T))
    <3>1. ASSUME NEW k \in 1 .. m PROVE k \notin shift(T)
      BY <3>1
    <3>2. ASSUME NEW k \in 1 .. n
          PROVE  k + m \notin S /\ (k + m \in shift(T) <=> k \in T)
      <4>1. k + m \in 1 .. m + n /\ k + m > m /\ (k + m) - m = k
        BY <3>2
      <4> QED
        BY <4>1
    <3> HIDE DEF shift
    <3> QED
      BY <3>1, <3>2
  <2> HIDE DEF shift, low, high
  <2>3. p[1] \in A /\ p[2] \in B /\ q[1] \in A /\ q[2] \in B
    OBVIOUS
  <2> HIDE DEF A, B
  <2>4. /\ p[1] = low(p[1] \cup shift(p[2])) /\ p[2] = high(p[1] \cup shift(p[2]))
        /\ q[1] = low(q[1] \cup shift(q[2])) /\ q[2] = high(q[1] \cup shift(q[2]))
    BY <2>2, <2>3, Zenon
  <2>5. \A r \in A \X B : r = <<r[1], r[2]>>
    OBVIOUS
  <2>6. p = <<p[1], p[2]>> /\ q = <<q[1], q[2]>>
    BY <2>5, Zenon
  <2>7. p[1] = q[1] /\ p[2] = q[2]
    BY <2>1, <2>4, Zenon
  <2> QED
    BY <2>6, <2>7, Zenon
<1>3. ASSUME NEW U \in C PROVE \E p \in A \X B : f[p] = U
  <2> DEFINE S == low(U)
             T == high(U)
  <2>1. <<S, T>> \in A \X B
    OBVIOUS
  <2>2. S \cup shift(T) = U
    <3>1. ASSUME NEW k \in U PROVE k \in S \cup shift(T)
      <4>1. k \in 1 .. m + n
        OBVIOUS
      <4>2. CASE k <= m
        BY <4>1, <4>2
      <4>3. CASE k > m
        <5>1. k - m \in 1 .. n /\ (k - m) + m = k
          BY <4>1, <4>3
        <5> QED
          BY <4>1, <4>3, <5>1
      <4> QED
        BY <4>1, <4>2, <4>3
    <3>2. ASSUME NEW k \in shift(T) PROVE k \in U
      <4>1. k \in 1 .. m + n /\ k - m \in T /\ (k - m) + m = k
        BY <3>2
      <4> QED
        BY <4>1
    <3> QED
      BY <3>1, <3>2
  <2> HIDE DEF A, B, S, T, shift, low, high
  <2>3. f[<<S, T>>] = S \cup shift(T)
    BY <2>1
  <2> HIDE DEF f
  <2> QED
    BY <2>1, <2>2, <2>3
<1>5. /\ IsFiniteSet(A) /\ IsFiniteSet(B) /\ Cardinality(A) = 2^m
      /\ Cardinality(B) = 2^n /\ Cardinality(C) = 2^(m + n)
  <2>1. m + n \in Nat
    OBVIOUS
  <2> QED
    BY <2>1, PowerIsCount, Zenon
<1> HIDE DEF A, B, C, f
<1>4. f \in Bijection(A \X B, C)
  <2>1. IsInjective(f)
    BY <1>1, <1>2 DEF IsInjective
  <2>2. f \in Surjection(A \X B, C)
    <3>1. \A U \in C : \E p \in A \X B : f[p] = U
      BY <1>3
    <3> QED
      BY <1>1, <3>1 DEF Surjection
  <2> QED
    BY <1>1, <2>1, <2>2 DEF Bijection, Injection
<1>6. IsFiniteSet(A \X B) /\ Cardinality(A \X B) = 2^m * 2^n
  BY <1>5, FS_Product
<1>7. ExistsBijection(A \X B, C)
  BY <1>4 DEF ExistsBijection
<1>8. Cardinality(C) = Cardinality(A \X B)
  BY <1>6, <1>7, FS_Bijection
<1> QED
  BY <1>5, <1>6, <1>8

LEMMA PowerNext ==
  ASSUME NEW n \in Nat PROVE 2^(n + 1) = 2 * 2^n
<1>1. 2^(n + 1) = 2^n * 2^1
  BY PowerOfSum
<1>2. 2^n * 2^1 = 2 * 2^n
  <2>1. 2^1 = 2 /\ 2^n \in Nat
    BY PowerPositive
  <2> QED
    BY <2>1
<1> QED
  BY <1>1, <1>2, Zenon

LEMMA PowerStrict ==
  ASSUME NEW m \in Nat, NEW n \in Nat, 2^m < 2^n PROVE m < n
<1>1. CASE n <= m
  BY <1>1, PowerMonotone, PowerPositive
<1> QED
  BY <1>1

-----------------------------------------------------------------------------
(* Quotients and remainders, as the bit buffers of lzw.c and unlzw.c form  *)
(* them.                                                                   *)

LEMMA DivModUnique ==
  ASSUME NEW v \in Nat, NEW b \in Nat, b > 0, NEW q \in Nat, NEW r \in Nat,
         r < b, v = q * b + r
  PROVE  v \div b = q /\ v % b = r
  OBVIOUS

LEMMA DivModOf ==
  ASSUME NEW v \in Nat, NEW b \in Nat, b > 0
  PROVE  /\ v \div b \in Nat /\ v % b \in Nat /\ v % b < b
         /\ v = (v \div b) * b + (v % b) /\ v \div b <= v /\ v % b <= v
<1>1. v \div b \in Nat /\ v % b \in Nat /\ v % b < b
  OBVIOUS
<1>2. v = (v \div b) * b + (v % b)
  <2>1. v = b * (v \div b) + (v % b)
    OBVIOUS
  <2>2. b * (v \div b) = (v \div b) * b
    BY <1>1
  <2> QED
    BY <2>1, <2>2
<1>3. (v \div b) * 1 <= (v \div b) * b
  BY <1>1
<1> QED
  BY <1>1, <1>2, <1>3

LEMMA DivLess ==
  ASSUME NEW v \in Nat, NEW a \in Nat, NEW b \in Nat, b > 0, v < a * b
  PROVE  v \div b < a
  OBVIOUS

\* Two divisions are one, and what remains puts the two remainders together.
LEMMA DivModTwice ==
  ASSUME NEW v \in Nat, NEW a \in Nat, NEW b \in Nat, a > 0, b > 0
  PROVE  /\ a * b \in Nat /\ a * b > 0
         /\ (v \div a) \div b = v \div (a * b)
         /\ v % (a * b) = ((v \div a) % b) * a + (v % a)
<1> DEFINE q == v \div a
           r == v % a
           p == q \div b
           s == q % b
<1>1. q \in Nat /\ r \in Nat /\ r < a /\ v = q * a + r
  BY DivModOf
<1>2. p \in Nat /\ s \in Nat /\ s < b /\ q = p * b + s
  <2> HIDE DEF q
  <2> QED
    BY <1>1, DivModOf
<1> HIDE DEF q, r, p, s
<1>3. a * b \in Nat /\ a * b > 0 /\ s * a \in Nat /\ p * (a * b) \in Nat
  BY <1>2
<1>4. s * a + r < a * b
  <2>1. s + 1 <= b /\ (s + 1) * a <= b * a
    BY <1>2
  <2>2. (s + 1) * a = s * a + a /\ b * a = a * b
    BY <1>2
  <2> QED
    BY <1>1, <1>3, <2>1, <2>2
<1>5. v = p * (a * b) + (s * a + r)
  <2>1. q * a = (p * b) * a + s * a
    BY <1>2
  <2>2. (p * b) * a = p * (a * b)
    BY <1>2
  <2> QED
    BY <1>1, <1>3, <2>1, <2>2
<1>6. v \div (a * b) = p /\ v % (a * b) = s * a + r
  BY <1>1, <1>2, <1>3, <1>4, <1>5, DivModUnique
<1> QED
  BY <1>3, <1>6, Zenon DEF p, s, q, r

\* The remainder of a remainder, and its quotient.
LEMMA DivModOfMod ==
  ASSUME NEW v \in Nat, NEW a \in Nat, NEW b \in Nat, a > 0, b > 0
  PROVE  /\ (v % (a * b)) % a = v % a
         /\ (v % (a * b)) \div a = (v \div a) % b
<1>1. /\ a * b \in Nat /\ a * b > 0
      /\ v % (a * b) = ((v \div a) % b) * a + (v % a)
  BY DivModTwice
<1>2. /\ v \div a \in Nat /\ v % a \in Nat /\ v % a < a
      /\ (v \div a) % b \in Nat /\ v % (a * b) \in Nat
  BY <1>1, DivModOf
<1> DEFINE x == v % (a * b)
           y == (v \div a) % b
           z == v % a
<1>3. x \in Nat /\ y \in Nat /\ z \in Nat /\ z < a /\ x = y * a + z
  BY <1>1, <1>2
<1> HIDE DEF x, y, z
<1>4. x % a = z /\ x \div a = y
  BY <1>3, DivModUnique
<1> QED
  BY <1>4, Zenon DEF x, y, z

\* A multiple of a power adds to the quotient alone.
LEMMA DivModOfSum ==
  ASSUME NEW v \in Nat, NEW c \in Nat, NEW a \in Nat, a > 0
  PROVE  /\ v + c * a \in Nat
         /\ (v + c * a) \div a = v \div a + c /\ (v + c * a) % a = v % a
<1>1. v \div a \in Nat /\ v % a \in Nat /\ v % a < a /\ v = (v \div a) * a + (v % a)
  BY DivModOf
<1>2. c * a \in Nat /\ v + c * a = (v \div a + c) * a + (v % a)
  BY <1>1
<1> DEFINE x == v + c * a
           q == v \div a + c
           z == v % a
<1>3. x \in Nat /\ q \in Nat /\ z \in Nat /\ z < a /\ x = q * a + z
  BY <1>1, <1>2
<1> HIDE DEF x, q, z
<1>4. x \div a = q /\ x % a = z
  BY <1>3, DivModUnique
<1> QED
  BY <1>3, <1>4, Zenon DEF x, q, z
=============================================================================
