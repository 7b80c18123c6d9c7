------------------------------- MODULE Lemmas --------------------------------
(***************************************************************************)
(* Facts about numbers, sequences and sorting that the proofs of several   *)
(* components rest on. Induction is stated over a set, not over an         *)
(* operator: the set of the naturals with the property.                    *)
(***************************************************************************)
EXTENDS Integers, SequencesExt, FiniteSetTheorems, SequenceTheorems, TLAPS

\* A sequence, of whatever its elements are.
IsSeq(f) == f \in Seq({f[i] : i \in DOMAIN f})

-----------------------------------------------------------------------------
(* Naturals.                                                               *)

\* A set of naturals has a least element.
LEMMA LeastNat ==
  ASSUME NEW S \in SUBSET Nat, NEW n \in S
  PROVE  \E m \in S : \A k \in S : m <= k
<1> DEFINE R == OpToRel(<, Nat)
<1>1. IsWellFoundedOn(R, Nat)
  BY NatLessThanWellFounded
<1>2. PICK m \in S : \A k \in S : ~(<<k, m>> \in R)
  <2> HIDE DEF R
  <2> QED BY <1>1, WFMin
<1>3. \A k, j \in Nat : k < j => <<k, j>> \in R
  BY DEF OpToRel
<1> HIDE DEF R
<1>4. \A k \in S : k \in Nat /\ m \in Nat /\ ~(k < m)
  BY <1>2, <1>3
<1> QED BY <1>4

\* What holds of 0, and of the next number with every number, holds of all.
LEMMA NatRise ==
  ASSUME NEW S, 0 \in S, \A n \in Nat : n \in S => n + 1 \in S
  PROVE  Nat \subseteq S
<1> DEFINE T == {n \in Nat : n \notin S}
<1>1. SUFFICES ASSUME T # {} PROVE FALSE
  OBVIOUS
<1>2. PICK m \in T : \A k \in T : m <= k
  <2>1. T \in SUBSET Nat /\ \E n : n \in T
    BY <1>1
  <2> QED BY <2>1, LeastNat
<1>3. m \in Nat /\ m # 0 /\ m \notin S
  BY <1>2
<1>4. m - 1 \in Nat /\ m - 1 \notin T /\ m = (m - 1) + 1
  BY <1>2, <1>3
<1> QED BY <1>3, <1>4

\* The greatest element is the only one.
LEMMA MaxIs == ASSUME NEW S \in SUBSET Int, NEW x \in S, \A y \in S : x >= y PROVE Max(S) = x
<1>1. \A z \in S : (\A y \in S : z >= y) => z = x
  OBVIOUS
<1> QED BY <1>1 DEF Max

\* Only the multiple by zero is below its factor.
LEMMA MulSmall ==
  ASSUME NEW I \in Nat, I > 0, NEW k \in Int, 0 <= I * k, I * k < I
  PROVE  k = 0
<1>1. CASE k >= 1
  BY <1>1
<1>2. CASE k <= -1
  BY <1>2
<1> QED BY <1>1, <1>2

\* Division has one quotient and one remainder.
LEMMA DivUnique ==
  ASSUME NEW I \in Nat, I > 0, NEW q \in Int, NEW r \in Int, 0 <= r, r < I
  PROVE  (I * q + r) % I = r /\ (I * q + r) \div I = q
<1> DEFINE x == I * q + r
           e == x \div I
           m == x % I
<1>1. e \in Int /\ m \in Int /\ 0 <= m /\ m < I /\ x = I * e + m
  OBVIOUS
<1> HIDE DEF e, m
<1>2. I * (q - e) = m - r
  BY <1>1
<1>3. q - e = 0
  <2>1. CASE m >= r
    BY <1>1, <1>2, <2>1, MulSmall
  <2>2. CASE m < r
    <3>1. I * (e - q) = r - m
      BY <1>1
    <3> QED BY <1>1, <2>2, <3>1, MulSmall
  <2> QED BY <1>1, <2>1, <2>2
<1> QED BY <1>1, <1>2, <1>3 DEF e, m

-----------------------------------------------------------------------------
(* Sequences.                                                              *)

\* What a sequence is made of, whatever its type.
LEMMA SeqParts ==
  ASSUME NEW f, IsSeq(f)
  PROVE  Len(f) \in Nat /\ DOMAIN f = 1 .. Len(f) /\ (f = <<>> <=> Len(f) = 0)
BY DEF IsSeq

\* Appending to a sequence of any type.
LEMMA AppendParts ==
  ASSUME NEW f, NEW x, IsSeq(f)
  PROVE  /\ IsSeq(Append(f, x)) /\ Len(Append(f, x)) = Len(f) + 1
         /\ Append(f, x)[Len(f) + 1] = x
         /\ \A i \in 1 .. Len(f) : Append(f, x)[i] = f[i]
<1> DEFINE S == {f[i] : i \in DOMAIN f} \cup {x}
           g == Append(f, x)
<1>1. f \in Seq(S)
  BY DEF IsSeq
<1>2. /\ g \in Seq(S) /\ Len(g) = Len(f) + 1 /\ g[Len(f) + 1] = x
      /\ \A i \in 1 .. Len(f) : g[i] = f[i]
  BY <1>1
<1> HIDE DEF g
<1>3. g \in [1 .. Len(g) -> S] /\ DOMAIN g = 1 .. Len(g) /\ Len(g) \in Nat
  BY <1>2, LenProperties
<1>4. g \in Seq({g[i] : i \in DOMAIN g})
  <2>1. g \in [1 .. Len(g) -> {g[i] : i \in DOMAIN g}]
    BY <1>3
  <2> QED BY <1>3, <2>1, SeqDef
<1> QED BY <1>2, <1>4 DEF IsSeq, g

\* The head and the tail of a sequence of any type.
LEMMA TailParts ==
  ASSUME NEW f, IsSeq(f), f # <<>>
  PROVE  /\ Head(f) = f[1] /\ Len(f) >= 1
         /\ IsSeq(Tail(f)) /\ Len(Tail(f)) = Len(f) - 1
         /\ \A i \in 1 .. Len(f) - 1 : Tail(f)[i] = f[i + 1]
<1> DEFINE S == {f[i] : i \in DOMAIN f}
           g == Tail(f)
<1>1. f \in Seq(S)
  BY DEF IsSeq
<1>2. /\ Head(f) = f[1] /\ Len(f) >= 1 /\ g \in Seq(S) /\ Len(g) = Len(f) - 1
      /\ \A i \in 1 .. Len(f) - 1 : g[i] = f[i + 1]
  BY <1>1
<1> HIDE DEF g
<1>3. g \in [1 .. Len(g) -> S] /\ DOMAIN g = 1 .. Len(g) /\ Len(g) \in Nat
  BY <1>2, LenProperties
<1>4. g \in Seq({g[i] : i \in DOMAIN g})
  <2>1. g \in [1 .. Len(g) -> {g[i] : i \in DOMAIN g}]
    BY <1>3
  <2> QED BY <1>3, <2>1, SeqDef
<1> QED BY <1>2, <1>4 DEF IsSeq, g

\* A sequence over a set is one over a larger set.
LEMMA SeqWider ==
  ASSUME NEW S, NEW T, S \in SUBSET T, NEW s \in Seq(S)
  PROVE  s \in Seq(T) /\ \A i \in DOMAIN s : s[i] \in S
<1>1. \A i \in DOMAIN s : s[i] \in S
  OBVIOUS
<1>2. \A i \in 1 .. Len(s) : s[i] \in T
  BY <1>1
<1> QED BY <1>1, <1>2

-----------------------------------------------------------------------------
(* Sorting: a finite set in an order of it.                                *)

\* How many positions a sequence of length n has.
LEMMA IntervalCount ==
  ASSUME NEW n \in Nat
  PROVE  IsFiniteSet(1 .. n) /\ Cardinality(1 .. n) = n
<1>1. 1 \in Int /\ n \in Int
  OBVIOUS
<1>2. IsFiniteSet(1 .. n) /\ Cardinality(1 .. n) = IF 1 > n THEN 0 ELSE n - 1 + 1
  BY <1>1, FS_Interval
<1>3. (IF 1 > n THEN 0 ELSE n - 1 + 1) = n
  OBVIOUS
<1> QED BY <1>2, <1>3

\* Enumerations of a finite set: each element at one position.
LEMMA EnumParts ==
  ASSUME NEW S, NEW n \in Nat, IsFiniteSet(S), Cardinality(S) = n
  PROVE  \A f : f \in SetToSeqs(S) <=> /\ f \in [1 .. n -> S]
                                       /\ \A i, j \in 1 .. n : i # j => f[i] # f[j]
BY DEF SetToSeqs

\* An enumeration leaves nothing out.
LEMMA EnumCovers ==
  ASSUME NEW S, IsFiniteSet(S), NEW f \in SetToSeqs(S)
  PROVE  /\ Cardinality(S) \in Nat /\ DOMAIN f = 1 .. Cardinality(S) /\ Len(f) = Cardinality(S)
         /\ \A i \in DOMAIN f : f[i] \in S
         /\ \A i, j \in DOMAIN f : f[i] = f[j] => i = j
         /\ \A x \in S : \E i \in DOMAIN f : f[i] = x
<1>1. PICK n \in Nat : n = Cardinality(S)
  BY FS_CardinalityType
<1>2. f \in [1 .. n -> S] /\ \A i, j \in 1 .. n : i # j => f[i] # f[j]
  BY <1>1, EnumParts
<1>3. IsFiniteSet(1 .. n) /\ Cardinality(1 .. n) = n
  BY IntervalCount
<1>4. f \in Injection(1 .. n, S)
  <2>1. IsInjective(f)
    BY <1>2 DEF IsInjective
  <2> QED BY <1>2, <2>1 DEF Injection
<1>5. f \in Surjection(1 .. n, S)
  BY <1>1, <1>3, <1>4, FS_Injection
<1>6. \A x \in S : \E i \in 1 .. n : f[i] = x
  BY <1>5 DEF Surjection
<1>7. Len(f) = n
  BY <1>2
<1> QED BY <1>1, <1>2, <1>6, <1>7

\* R orders the elements of S: any two different ones, one way.
Orders(R, S) ==
  /\ \A x, y \in S : x # y => <<x, y>> \in R \/ <<y, x>> \in R
  /\ \A x, y, z \in S : <<x, y>> \in R /\ <<y, z>> \in R => <<x, z>> \in R

Ascending(f, R) == \A i, j \in DOMAIN f : i < j => <<f[i], f[j]>> \in R

\* f enumerates T, or some of it, at the positions up to n.
Enum(f, n, T) == f \in [1 .. n -> T] /\ \A i, j \in 1 .. n : i # j => f[i] # f[j]

\* A new element goes into an ordered enumeration right before the first that it precedes.
LEMMA SortInsert ==
  ASSUME NEW n \in Nat, NEW T, NEW x, x \notin T, NEW R, Orders(R, T \cup {x}),
         NEW f, Enum(f, n, T), Ascending(f, R)
  PROVE  \E g : Enum(g, n + 1, T \cup {x}) /\ Ascending(g, R)
<1>1. /\ DOMAIN f = 1 .. n /\ \A i \in 1 .. n : f[i] \in T /\ f[i] # x
      /\ \A i, j \in 1 .. n : i # j => f[i] # f[j]
  BY DEF Enum
<1>2. \E p \in 1 .. n + 1 : /\ \A i \in 1 .. n : i < p => <<f[i], x>> \in R
                            /\ \A i \in 1 .. n : i >= p => <<x, f[i]>> \in R
  <2> DEFINE P == {i \in 1 .. n : <<x, f[i]>> \in R}
  <2>1. CASE P = {}
    <3>1. \A i \in 1 .. n : <<f[i], x>> \in R
      BY <1>1, <2>1 DEF Orders
    <3>2. n + 1 \in 1 .. n + 1 /\ \A i \in 1 .. n : ~ i >= n + 1
      OBVIOUS
    <3> QED BY <3>1, <3>2
  <2>2. CASE P # {}
    <3>1. P \in SUBSET Nat /\ \E i : i \in P
      BY <2>2
    <3>2. PICK p \in P : \A i \in P : p <= i
      <4> HIDE DEF P
      <4> QED BY <3>1, LeastNat
    <3>3. ASSUME NEW i \in 1 .. n, i < p PROVE <<f[i], x>> \in R
      <4>1. i \notin P
        BY <3>2, <3>3
      <4> QED BY <1>1, <4>1 DEF Orders
    <3>4. ASSUME NEW i \in 1 .. n, i >= p PROVE <<x, f[i]>> \in R
      <4>1. CASE i = p
        BY <3>2, <4>1
      <4>2. CASE p < i
        <5>1. <<f[p], f[i]>> \in R /\ <<x, f[p]>> \in R
          BY <1>1, <3>2, <4>2 DEF Ascending
        <5>2. f[p] \in T /\ f[i] \in T
          BY <1>1, <3>2
        <5> QED BY <5>1, <5>2 DEF Orders
      <4> QED BY <3>2, <3>4, <4>1, <4>2
    <3>5. p \in 1 .. n + 1
      BY <3>2
    <3> QED BY <3>3, <3>4, <3>5
  <2> QED BY <2>1, <2>2
<1>3. PICK p \in 1 .. n + 1 : /\ \A i \in 1 .. n : i < p => <<f[i], x>> \in R
                              /\ \A i \in 1 .. n : i >= p => <<x, f[i]>> \in R
  BY <1>2
<1> DEFINE g == [i \in 1 .. n + 1 |-> IF i < p THEN f[i] ELSE IF i = p THEN x ELSE f[i - 1]]
<1>4. \A i \in 1 .. n + 1 : /\ i < p => i \in 1 .. n /\ g[i] = f[i]
                            /\ i = p => g[i] = x
                            /\ i > p => i - 1 \in 1 .. n /\ g[i] = f[i - 1] /\ i - 1 >= p
  OBVIOUS
<1>5. DOMAIN g = 1 .. n + 1 /\ g = [i \in 1 .. n + 1 |-> g[i]]
  OBVIOUS
<1> HIDE DEF g
<1>6. g \in [1 .. n + 1 -> T \cup {x}]
  <2>1. \A i \in 1 .. n + 1 : g[i] \in T \cup {x}
    BY <1>1, <1>4
  <2> QED BY <1>5, <2>1
<1>7. ASSUME NEW i \in 1 .. n + 1, NEW j \in 1 .. n + 1, i < j
      PROVE  <<g[i], g[j]>> \in R /\ g[i] # g[j]
  <2>1. CASE j < p
    <3>1. i \in 1 .. n /\ j \in 1 .. n /\ g[i] = f[i] /\ g[j] = f[j]
      BY <1>4, <1>7, <2>1
    <3> QED BY <1>1, <1>7, <3>1 DEF Ascending
  <2>2. CASE j = p
    BY <1>1, <1>3, <1>4, <1>7, <2>2
  <2>3. CASE p < j /\ i < p
    <3>1. i \in 1 .. n /\ j - 1 \in 1 .. n /\ g[i] = f[i] /\ g[j] = f[j - 1] /\ i < j - 1
      BY <1>4, <2>3
    <3> QED BY <1>1, <3>1 DEF Ascending
  <2>4. CASE p < j /\ i = p
    BY <1>1, <1>3, <1>4, <2>4
  <2>5. CASE p < j /\ p < i
    <3>1. i - 1 \in 1 .. n /\ j - 1 \in 1 .. n /\ g[i] = f[i - 1] /\ g[j] = f[j - 1] /\ i - 1 < j - 1
      BY <1>4, <1>7, <2>5
    <3> QED BY <1>1, <3>1 DEF Ascending
  <2> QED BY <2>1, <2>2, <2>3, <2>4, <2>5
<1>8. \A i, j \in 1 .. n + 1 : i # j => g[i] # g[j]
  <2>1. \A i, j \in 1 .. n + 1 : i # j => i < j \/ j < i
    OBVIOUS
  <2> QED BY <1>7, <2>1
<1>9. Ascending(g, R)
  BY <1>5, <1>7 DEF Ascending
<1>10. Enum(g, n + 1, T \cup {x})
  BY <1>6, <1>8 DEF Enum
<1> QED BY <1>9, <1>10

\* Every finite set can be enumerated in an order of it.
LEMMA SortExists ==
  ASSUME NEW S, IsFiniteSet(S), NEW R, Orders(R, S)
  PROVE  \E f \in SetToSeqs(S) : Ascending(f, R)
<1> DEFINE Sorted(T, m) == \E f : Enum(f, m, T) /\ Ascending(f, R)
           N == {m \in Nat : \A T \in SUBSET S : IsFiniteSet(T) /\ Cardinality(T) = m => Sorted(T, m)}
<1>1. 0 \in N
  <2> SUFFICES ASSUME NEW T \in SUBSET S PROVE Sorted(T, 0)
    OBVIOUS
  <2>1. <<>> \in [1 .. 0 -> T] /\ DOMAIN <<>> = {}
    OBVIOUS
  <2> QED BY <2>1 DEF Ascending, Enum
<1>2. ASSUME NEW m \in Nat, m \in N PROVE m + 1 \in N
  <2> SUFFICES ASSUME NEW T \in SUBSET S, IsFiniteSet(T), Cardinality(T) = m + 1 PROVE Sorted(T, m + 1)
    OBVIOUS
  <2>1. PICK x : x \in T
    BY FS_EmptySet
  <2>2. IsFiniteSet(T \ {x}) /\ Cardinality(T \ {x}) = m
    <3>1. Cardinality(T \ {x}) = Cardinality(T) - 1 /\ IsFiniteSet(T \ {x})
      BY <2>1, FS_RemoveElement
    <3> QED BY <3>1
  <2>3. Sorted(T \ {x}, m)
    BY <1>2, <2>2
  <2>4. PICK f : Enum(f, m, T \ {x}) /\ Ascending(f, R)
    BY <2>3
  <2>5. (T \ {x}) \cup {x} = T /\ Orders(R, T)
    BY <2>1 DEF Orders
  <2>6. x \notin T \ {x}
    OBVIOUS
  <2>7. \E g : Enum(g, m + 1, (T \ {x}) \cup {x}) /\ Ascending(g, R)
    BY <2>4, <2>5, <2>6, SortInsert
  <2> QED BY <2>5, <2>7
<1>3. PICK n \in Nat : n = Cardinality(S)
  BY FS_CardinalityType
<1>4. n \in N
  <2> HIDE DEF N
  <2> QED BY <1>1, <1>2, NatRise
<1>5. Sorted(S, n)
  BY <1>3, <1>4
<1> HIDE DEF Sorted
<1>6. PICK f : Enum(f, n, S) /\ Ascending(f, R)
  BY <1>5 DEF Sorted
<1>7. f \in SetToSeqs(S)
  BY <1>3, <1>6, EnumParts DEF Enum
<1> QED BY <1>6, <1>7
=============================================================================
