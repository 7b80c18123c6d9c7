--------------------------- MODULE TraverseProofs ---------------------------
(***************************************************************************)
(* Proofs about Traverse, for any terms, impacts, blocks, k and exclusions *)
(* and for both algorithms: what a traversal returns is exactly the best k *)
(* of the documents, whatever it skipped, and on the way no document that  *)
(* could still enter has lost a posting.                                   *)
(***************************************************************************)
EXTENDS Traverse, Lemmas

-----------------------------------------------------------------------------
(* The inductive invariant.                                                *)

\* A query: impacts, their bounds, and the terms in order of these.
QueryHolds ==
  /\ k \in Nat \ {0} /\ impact \in [Term -> [Doc -> 0 .. MaxImpact]]
  /\ bound = [t \in Term |-> MaxOver(t, Docids(t))]
  /\ byBound \in {<<>>} \cup OrdersBy(bound)

\* A cursor stands at a posting, or behind the last.
CursorsHold ==
  /\ at \in [Term -> Doc \cup {docidExhausted}]
  /\ \A t \in Term : at[t] # docidExhausted => at[t] \in Docids(t)

\* What the heap holds.
Hit == [docid : Doc, score : Nat]

\* A node never outscores its children.
Heap(h) == \A j \in 2 .. Len(h) : h[j \div 2].score <= h[j].score

\* No document twice.
Distinct(h) == \A i, j \in DOMAIN h : h[i].docid = h[j].docid => i = j

\* The hits: at most k, of different documents, a heap until they are drained.
HeapHolds ==
  /\ hits \in Seq(Hit) /\ Len(hits) <= k /\ Distinct(hits)
  /\ ~ done => Heap(hits)

\* The cursors that lead the traversal have passed every document that is a hit.
Passed ==
  ~ done => \A t \in Term : byBound = <<>> \/ t \in Essential =>
              \A i \in DOMAIN hits : hits[i].docid < at[t]

\* A hit is a matching document, with its exhaustive score.
ScoresExact ==
  ~ failed => \A i \in DOMAIN hits : /\ hits[i].docid \in Matching
                                     /\ hits[i].score = Exact(hits[i].docid)

\* No cursor has passed a posting of d.
Ahead(d) == \A t \in Term : impact[t][d] > 0 => at[t] <= d

\* No cursor has passed a posting of a document that could still enter.
NoneLost == ~ failed => \A d \in Matching \ Returned : Exact(d) > threshold => Ahead(d)

\* The inductive invariant. NothingLost says nothing of the scores in the heap, of the query's
\* bounds or of which documents a cursor has passed, on which the next turn rests.
TravInv ==
  /\ QueryHolds /\ CursorsHold /\ HeapHolds /\ Passed /\ ScoresExact /\ NoneLost /\ RankSafe

-----------------------------------------------------------------------------
(* Numbers.                                                                *)

\* The least element is the only one.
LEMMA MinIs == ASSUME NEW S \in SUBSET Int, NEW x \in S, \A y \in S : x <= y PROVE Min(S) = x
<1>1. \A z \in S : (\A y \in S : z <= y) => z = x
  OBVIOUS
<1> QED BY <1>1 DEF Min

\* The larger of two numbers.
LEMMA LargerIs ==
  ASSUME NEW a \in Int, NEW b \in Int
  PROVE  Larger(a, b) = IF a >= b THEN a ELSE b
<1>1. {a, b} \in SUBSET Int
  OBVIOUS
<1>2. CASE a >= b
  <2>1. a \in {a, b} /\ \A y \in {a, b} : a >= y
    BY <1>2
  <2> QED BY <1>1, <1>2, <2>1, MaxIs DEF Larger
<1>3. CASE ~ a >= b
  <2>1. b \in {a, b} /\ \A y \in {a, b} : b >= y
    BY <1>3
  <2> QED BY <1>1, <1>3, <2>1, MaxIs DEF Larger
<1> QED BY <1>2, <1>3

\* Likewise the smaller.
LEMMA SmallerIs ==
  ASSUME NEW a \in Int, NEW b \in Int
  PROVE  Smaller(a, b) = IF a <= b THEN a ELSE b
<1>1. {a, b} \in SUBSET Int
  OBVIOUS
<1>2. CASE a <= b
  <2>1. a \in {a, b} /\ \A y \in {a, b} : a <= y
    BY <1>2
  <2> QED BY <1>1, <1>2, <2>1, MinIs DEF Smaller
<1>3. CASE ~ a <= b
  <2>1. b \in {a, b} /\ \A y \in {a, b} : b <= y
    BY <1>3
  <2> QED BY <1>1, <1>3, <2>1, MinIs DEF Smaller
<1> QED BY <1>2, <1>3

\* A finite set of integers has a greatest element.
LEMMA Greatest ==
  ASSUME NEW S \in SUBSET Nat, NEW b \in Nat, \A x \in S : x <= b, S # {}
  PROVE  Max(S) \in S /\ \A x \in S : x <= Max(S)
<1> DEFINE D == {b - x : x \in S}
<1>1. D \in SUBSET Nat /\ \E d : d \in D
  <2>1. \A x \in S : b - x \in Nat
    OBVIOUS
  <2> QED BY <2>1
<1>2. PICK m \in D : \A d \in D : m <= d
  <2> HIDE DEF D
  <2> QED BY <1>1, LeastNat
<1>3. PICK y \in S : m = b - y
  BY <1>2
<1>4. \A x \in S : x <= y
  <2>1. ASSUME NEW x \in S PROVE x <= y
    <3>1. b - x \in D
      OBVIOUS
    <3>2. b - y <= b - x /\ x \in Nat /\ y \in Nat
      BY <1>2, <1>3, <3>1
    <3> QED BY <3>2
  <2> QED BY <2>1
<1>5. S \in SUBSET Int /\ \A x \in S : y >= x
  <2>1. \A x \in S : x \in Nat /\ x \in Int
    OBVIOUS
  <2> QED BY <1>4, <2>1
<1>6. Max(S) = y
  BY <1>5, MaxIs
<1> QED BY <1>4, <1>6

\* A set of naturals has a least element, and Min is it.
LEMMA Least ==
  ASSUME NEW S \in SUBSET Nat, S # {}
  PROVE  Min(S) \in S /\ \A x \in S : Min(S) <= x
<1>1. PICK m \in S : \A x \in S : m <= x
  BY LeastNat
<1>2. S \in SUBSET Int
  OBVIOUS
<1>3. Min(S) = m
  BY <1>1, <1>2, MinIs
<1> QED BY <1>1, <1>3

-----------------------------------------------------------------------------
(* Sums.                                                                   *)

\* The table from which SumOver(f, S) is read.
SumTable(g, f, S) ==
  /\ g \in [SUBSET S -> Nat] /\ g[{}] = 0
  /\ \A s \in SUBSET S : \A x \in s : g[s] = f[x] + g[s \ {x}]

\* It exists: the order in which the elements are taken does not matter.
LEMMA SumTableExists ==
  ASSUME NEW S, IsFiniteSet(S), NEW f, \A x \in S : f[x] \in Nat
  PROVE  \E g : SumTable(g, f, S)
<1> DEFINE N == {m \in Nat : \A T \in SUBSET S : IsFiniteSet(T) /\ Cardinality(T) = m => \E g : SumTable(g, f, T)}
<1>1. 0 \in N
  <2> SUFFICES ASSUME NEW T \in SUBSET S, IsFiniteSet(T), Cardinality(T) = 0 PROVE \E g : SumTable(g, f, T)
    OBVIOUS
  <2>1. T = {}
    BY FS_EmptySet
  <2> DEFINE g == [s \in SUBSET T |-> 0]
  <2>2. SumTable(g, f, T)
    BY <2>1 DEF SumTable
  <2> QED BY <2>2
<1>2. ASSUME NEW m \in Nat, m \in N PROVE m + 1 \in N
  <2> SUFFICES ASSUME NEW T \in SUBSET S, IsFiniteSet(T), Cardinality(T) = m + 1 PROVE \E g : SumTable(g, f, T)
    OBVIOUS
  <2>1. PICK a : a \in T
    BY FS_EmptySet
  <2>2. IsFiniteSet(T \ {a}) /\ Cardinality(T \ {a}) = m
    <3>1. Cardinality(T \ {a}) = Cardinality(T) - 1 /\ IsFiniteSet(T \ {a})
      BY <2>1, FS_RemoveElement
    <3> QED BY <3>1
  <2>3. PICK g : SumTable(g, f, T \ {a})
    BY <1>2, <2>2
  <2>10. \A s \in SUBSET (T \ {a}) : \A x \in s : g[s] = f[x] + g[s \ {x}]
    BY <2>3 DEF SumTable
  <2> DEFINE h == [s \in SUBSET T |-> IF a \in s THEN f[a] + g[s \ {a}] ELSE g[s]]
  <2>4. \A s \in SUBSET T :
          /\ s \ {a} \in SUBSET (T \ {a}) /\ g[s \ {a}] \in Nat
          /\ (a \in s => h[s] = f[a] + g[s \ {a}])
          /\ (a \notin s => h[s] = g[s] /\ s \in SUBSET (T \ {a}) /\ g[s] \in Nat)
    BY <2>3 DEF SumTable
  <2>5. f[a] \in Nat
    BY <2>1
  <2>6. h \in [SUBSET T -> Nat]
    <3>1. ASSUME NEW s \in SUBSET T PROVE h[s] \in Nat
      <4>1. CASE a \in s
        <5>1. h[s] = f[a] + g[s \ {a}] /\ g[s \ {a}] \in Nat
          BY <2>4, <4>1
        <5> QED BY <2>5, <5>1
      <4>2. CASE a \notin s
        BY <2>4, <4>2
      <4> QED BY <4>1, <4>2
    <3>2. h = [s \in SUBSET T |-> h[s]]
      OBVIOUS
    <3> HIDE DEF h
    <3> QED BY <3>1, <3>2
  <2> HIDE DEF h
  <2>7. h[{}] = 0
    BY <2>3, <2>4 DEF SumTable
  <2>8. ASSUME NEW s \in SUBSET T, NEW x \in s PROVE h[s] = f[x] + h[s \ {x}]
    <3>1. CASE a \notin s
      <4>1. s \in SUBSET (T \ {a}) /\ s \ {x} \in SUBSET T /\ a \notin s \ {x}
        BY <3>1
      <4>2. g[s] = f[x] + g[s \ {x}]
        BY <2>10, <4>1
      <4>3. h[s] = g[s] /\ h[s \ {x}] = g[s \ {x}]
        BY <2>4, <3>1, <4>1
      <4> QED BY <4>2, <4>3
    <3>2. CASE a \in s /\ x = a
      <4>1. s \ {x} \in SUBSET T /\ a \notin s \ {x}
        BY <3>2
      <4> QED BY <2>4, <3>2, <4>1
    <3>3. CASE a \in s /\ x # a
      <4>1. s \ {x} \in SUBSET T /\ a \in s \ {x} /\ x \in s \ {a} /\ (s \ {a}) \ {x} = (s \ {x}) \ {a}
        BY <3>3
      <4>2. g[s \ {a}] = f[x] + g[(s \ {x}) \ {a}]
        <5>1. s \ {a} \in SUBSET (T \ {a})
          BY <2>4
        <5>2. g[s \ {a}] = f[x] + g[(s \ {a}) \ {x}]
          BY <2>10, <4>1, <5>1
        <5> QED BY <4>1, <5>2
      <4>3. h[s] = f[a] + g[s \ {a}] /\ h[s \ {x}] = f[a] + g[(s \ {x}) \ {a}] /\ g[(s \ {x}) \ {a}] \in Nat
        BY <2>4, <3>3, <4>1
      <4>4. f[x] \in Nat
        OBVIOUS
      <4> QED BY <2>5, <4>2, <4>3, <4>4
    <3> QED BY <3>1, <3>2, <3>3
  <2>9. SumTable(h, f, T)
    BY <2>6, <2>7, <2>8 DEF SumTable
  <2> QED BY <2>9
<1>3. PICK n \in Nat : n = Cardinality(S)
  BY FS_CardinalityType
<1>4. n \in N
  <2> HIDE DEF N
  <2> QED BY <1>1, <1>2, NatRise
<1> QED BY <1>3, <1>4

\* MapThenSumSet reads it.
LEMMA SumIs ==
  ASSUME NEW S, IsFiniteSet(S), NEW f, \A x \in S : f[x] \in Nat, NEW g, SumTable(g, f, S)
  PROVE  SumOver(f, S) = g[S]
<1> DEFINE some(s) == CHOOSE x \in s : TRUE
           Good(h) == h = [s \in SUBSET S |-> IF s = {} THEN 0 ELSE f[some(s)] + h[s \ {some(s)}]]
           it == CHOOSE h : Good(h)
<1>1. SumOver(f, S) = it[S]
  BY Zenon DEF SumOver, MapThenSumSet, MapThenFoldSet
<1>2. \A s \in SUBSET S : s # {} => some(s) \in s
  OBVIOUS
<1> HIDE DEF some
<1>3. Good(g)
  <2>1. \A s \in SUBSET S : g[s] = IF s = {} THEN 0 ELSE f[some(s)] + g[s \ {some(s)}]
    BY <1>2 DEF SumTable
  <2>2. g = [s \in SUBSET S |-> g[s]]
    BY DEF SumTable
  <2> QED BY <2>1, <2>2
<1>4. Good(it)
  <2> HIDE DEF Good
  <2> QED BY <1>3
<1>5. \A s \in SUBSET S : it[s] = IF s = {} THEN 0 ELSE f[some(s)] + it[s \ {some(s)}]
  <2> HIDE DEF it
  <2> QED BY <1>4
<1> HIDE DEF it
<1> DEFINE N == {m \in Nat : \A s \in SUBSET S : IsFiniteSet(s) /\ Cardinality(s) = m => it[s] = g[s]}
<1>6. 0 \in N
  <2> SUFFICES ASSUME NEW s \in SUBSET S, IsFiniteSet(s), Cardinality(s) = 0 PROVE it[s] = g[s]
    OBVIOUS
  <2>1. s = {}
    BY FS_EmptySet
  <2> QED BY <1>5, <2>1 DEF SumTable
<1>7. ASSUME NEW m \in Nat, m \in N PROVE m + 1 \in N
  <2> SUFFICES ASSUME NEW s \in SUBSET S, IsFiniteSet(s), Cardinality(s) = m + 1 PROVE it[s] = g[s]
    OBVIOUS
  <2>1. s # {}
    BY FS_EmptySet
  <2>2. some(s) \in s /\ s \ {some(s)} \in SUBSET S
    BY <1>2, <2>1
  <2>3. IsFiniteSet(s \ {some(s)}) /\ Cardinality(s \ {some(s)}) = m
    <3>1. Cardinality(s \ {some(s)}) = Cardinality(s) - 1 /\ IsFiniteSet(s \ {some(s)})
      BY <2>2, FS_RemoveElement
    <3> QED BY <3>1
  <2>4. it[s \ {some(s)}] = g[s \ {some(s)}]
    BY <1>7, <2>2, <2>3
  <2> QED BY <1>5, <2>1, <2>2, <2>4 DEF SumTable
<1>8. PICK n \in Nat : n = Cardinality(S)
  BY FS_CardinalityType
<1>9. n \in N
  <2> HIDE DEF N
  <2> QED BY <1>6, <1>7, NatRise
<1> QED BY <1>1, <1>8, <1>9

\* A sum is a natural; of nothing it is zero; an element that is taken out takes its share.
LEMMA SumParts ==
  ASSUME NEW S, IsFiniteSet(S), NEW f, \A x \in S : f[x] \in Nat
  PROVE  /\ SumOver(f, S) \in Nat
         /\ S = {} => SumOver(f, S) = 0
         /\ \A x \in S : SumOver(f, S) = f[x] + SumOver(f, S \ {x})
<1>1. PICK g : SumTable(g, f, S)
  BY SumTableExists
<1>2. SumOver(f, S) = g[S]
  BY <1>1, SumIs
<1>3. ASSUME NEW x \in S PROVE SumOver(f, S \ {x}) = g[S \ {x}]
  <2> DEFINE T == S \ {x}
             h == [s \in SUBSET T |-> g[s]]
  <2>1. SumTable(h, f, T)
    <3>1. \A s \in SUBSET T : s \in SUBSET S /\ h[s] = g[s] /\ \A y \in s : s \ {y} \in SUBSET T
      OBVIOUS
    <3>2. h = [s \in SUBSET T |-> h[s]]
      OBVIOUS
    <3> HIDE DEF h, T
    <3>3. h \in [SUBSET T -> Nat]
      BY <1>1, <3>1, <3>2 DEF SumTable
    <3> QED BY <1>1, <3>1, <3>3 DEF SumTable
  <2>2. IsFiniteSet(T) /\ \A y \in T : f[y] \in Nat
    BY FS_RemoveElement
  <2>3. SumOver(f, T) = h[T]
    <3> HIDE DEF h, T
    <3> QED BY <2>1, <2>2, SumIs
  <2> QED BY <2>3
<1> QED BY <1>1, <1>2, <1>3 DEF SumTable

\* A sum is at most another if every summand that counts is in the other and no larger there.
LEMMA SumCompare ==
  ASSUME NEW S, IsFiniteSet(S), NEW f, \A x \in S : f[x] \in Nat,
         NEW T, IsFiniteSet(T), NEW g, \A x \in T : g[x] \in Nat,
         \A x \in S : f[x] > 0 => x \in T /\ f[x] <= g[x]
  PROVE  SumOver(f, S) <= SumOver(g, T)
<1> DEFINE N == {m \in Nat : \A A \in SUBSET S, B \in SUBSET T :
                   IsFiniteSet(A) /\ Cardinality(A) = m /\ IsFiniteSet(B)
                   /\ (\A x \in A : f[x] > 0 => x \in B) => SumOver(f, A) <= SumOver(g, B)}
<1>1. 0 \in N
  <2> SUFFICES ASSUME NEW A \in SUBSET S, NEW B \in SUBSET T, IsFiniteSet(A), Cardinality(A) = 0, IsFiniteSet(B)
               PROVE  SumOver(f, A) <= SumOver(g, B)
    OBVIOUS
  <2>1. A = {}
    BY FS_EmptySet
  <2>2. \A x \in A : f[x] \in Nat
    BY <2>1
  <2>3. SumOver(f, A) = 0
    BY <2>1, <2>2, SumParts
  <2>4. SumOver(g, B) \in Nat
    <3>1. \A x \in B : g[x] \in Nat
      OBVIOUS
    <3> QED BY <3>1, SumParts
  <2> QED BY <2>3, <2>4
<1>2. ASSUME NEW m \in Nat, m \in N PROVE m + 1 \in N
  <2> SUFFICES ASSUME NEW A \in SUBSET S, NEW B \in SUBSET T, IsFiniteSet(A), Cardinality(A) = m + 1,
                      IsFiniteSet(B), \A x \in A : f[x] > 0 => x \in B
               PROVE  SumOver(f, A) <= SumOver(g, B)
    OBVIOUS
  <2>1. PICK a : a \in A
    BY FS_EmptySet
  <2>2. IsFiniteSet(A \ {a}) /\ Cardinality(A \ {a}) = m
    <3>1. Cardinality(A \ {a}) = Cardinality(A) - 1 /\ IsFiniteSet(A \ {a})
      BY <2>1, FS_RemoveElement
    <3> QED BY <3>1
  <2>3. \A x \in A : f[x] \in Nat
    OBVIOUS
  <2>4. \A x \in B : g[x] \in Nat
    OBVIOUS
  <2>5. SumOver(f, A) = f[a] + SumOver(f, A \ {a}) /\ SumOver(f, A \ {a}) \in Nat
    <3>1. SumOver(f, A) = f[a] + SumOver(f, A \ {a})
      BY <2>1, <2>3, SumParts
    <3>2. \A x \in A \ {a} : f[x] \in Nat
      BY <2>3
    <3>3. SumOver(f, A \ {a}) \in Nat
      BY <2>2, <3>2, SumParts
    <3> QED BY <3>1, <3>3
  <2>6. CASE f[a] = 0
    <3>1. SumOver(f, A \ {a}) <= SumOver(g, B)
      BY <1>2, <2>2
    <3> QED BY <2>5, <2>6, <3>1
  <2>7. CASE f[a] > 0
    <3>1. a \in B /\ f[a] <= g[a]
      BY <2>1, <2>7
    <3>2. IsFiniteSet(B \ {a}) /\ B \ {a} \in SUBSET T /\ A \ {a} \in SUBSET S
      BY <3>1, FS_RemoveElement
    <3>3. \A x \in A \ {a} : f[x] > 0 => x \in B \ {a}
      OBVIOUS
    <3>4. SumOver(f, A \ {a}) <= SumOver(g, B \ {a})
      BY <1>2, <2>2, <3>2, <3>3
    <3>5. SumOver(g, B) = g[a] + SumOver(g, B \ {a})
      BY <2>4, <3>1, SumParts
    <3>6. SumOver(g, B \ {a}) \in Nat
      <4>1. \A x \in B \ {a} : g[x] \in Nat
        BY <2>4
      <4> QED BY <3>2, <4>1, SumParts
    <3>7. f[a] \in Nat /\ g[a] \in Nat
      BY <2>1, <2>3, <2>4, <3>1
    <3> QED BY <2>5, <3>1, <3>4, <3>5, <3>6, <3>7
  <2>8. f[a] \in Nat
    BY <2>1, <2>3
  <2> QED BY <2>6, <2>7, <2>8
<1>3. PICK n \in Nat : n = Cardinality(S)
  BY FS_CardinalityType
<1>4. n \in N
  <2> HIDE DEF N
  <2> QED BY <1>1, <1>2, NatRise
<1> QED BY <1>3, <1>4

\* Sums of the same summands that count are equal.
LEMMA SumSame ==
  ASSUME NEW S, IsFiniteSet(S), NEW f, \A x \in S : f[x] \in Nat,
         NEW T, IsFiniteSet(T), NEW g, \A x \in T : g[x] \in Nat,
         \A x \in S : f[x] > 0 => x \in T /\ f[x] = g[x],
         \A x \in T : g[x] > 0 => x \in S /\ f[x] = g[x]
  PROVE  SumOver(f, S) = SumOver(g, T)
<1>1. SumOver(f, S) <= SumOver(g, T)
  <2>1. \A x \in S : f[x] > 0 => x \in T /\ f[x] <= g[x]
    OBVIOUS
  <2> QED BY <2>1, SumCompare
<1>2. SumOver(g, T) <= SumOver(f, S)
  <2>1. \A x \in T : g[x] > 0 => x \in S /\ g[x] <= f[x]
    OBVIOUS
  <2> QED BY <2>1, SumCompare
<1>3. SumOver(f, S) \in Nat /\ SumOver(g, T) \in Nat
  BY SumParts
<1> QED BY <1>1, <1>2, <1>3

\* What is added: one element more, and its summand.
LEMMA SumMore ==
  ASSUME NEW S, IsFiniteSet(S), NEW f, \A x \in S : f[x] \in Nat, NEW a, a \notin S, f[a] \in Nat
  PROVE  SumOver(f, S \cup {a}) = f[a] + SumOver(f, S)
<1>1. IsFiniteSet(S \cup {a}) /\ \A x \in S \cup {a} : f[x] \in Nat
  BY FS_AddElement
<1>2. SumOver(f, S \cup {a}) = f[a] + SumOver(f, (S \cup {a}) \ {a})
  BY <1>1, SumParts
<1>3. (S \cup {a}) \ {a} = S
  OBVIOUS
<1> QED BY <1>2, <1>3

\* A sum that is not zero has a summand that is not.
LEMMA SumSome ==
  ASSUME NEW S, IsFiniteSet(S), NEW f, \A x \in S : f[x] \in Nat, SumOver(f, S) > 0
  PROVE  \E x \in S : f[x] > 0
<1> SUFFICES ASSUME \A x \in S : ~ f[x] > 0 PROVE FALSE
  OBVIOUS
<1>1. PICK E : E = {}
  OBVIOUS
<1>2. IsFiniteSet(E) /\ \A x \in E : f[x] \in Nat
  BY <1>1, FS_EmptySet
<1>3. SumOver(f, S) <= SumOver(f, E)
  BY <1>2, SumCompare
<1>4. SumOver(f, E) = 0
  BY <1>1, <1>2, SumParts
<1>5. SumOver(f, S) \in Nat
  BY SumParts
<1> QED BY <1>3, <1>4, <1>5

-----------------------------------------------------------------------------
(* The heap.                                                               *)

\* The same hits, in whatever order.
Same(g, h) ==
  /\ DOMAIN g = DOMAIN h
  /\ \A j \in DOMAIN h : \E i \in DOMAIN h : g[j] = h[i]
  /\ \A j \in DOMAIN h : \E i \in DOMAIN h : g[i] = h[j]
  /\ Distinct(h) => Distinct(g)

\* A heap but for node i, towards its parent; its children are not below that parent.
HeapButUp(h, i) ==
  /\ \A j \in 2 .. Len(h) : j # i => h[j \div 2].score <= h[j].score
  /\ \A j \in 2 .. Len(h) : j \div 2 = i /\ i > 1 => h[i \div 2].score <= h[j].score

\* A heap but for node i, towards its children.
HeapButDown(h, i) ==
  /\ \A j \in 2 .. Len(h) : j \div 2 # i => h[j \div 2].score <= h[j].score
  /\ \A j \in 2 .. Len(h) : j \div 2 = i /\ i > 1 => h[i \div 2].score <= h[j].score

\* The same, twice.
LEMMA SameTwice ==
  ASSUME NEW e, NEW g, NEW h, Same(e, g), Same(g, h)
  PROVE  Same(e, h)
<1>1. DOMAIN e = DOMAIN h /\ DOMAIN g = DOMAIN h /\ (Distinct(h) => Distinct(e))
  BY DEF Same
<1>2. \A j \in DOMAIN h : \E i \in DOMAIN h : e[j] = h[i]
  <2> SUFFICES ASSUME NEW j \in DOMAIN h PROVE \E i \in DOMAIN h : e[j] = h[i]
    OBVIOUS
  <2>1. PICK x \in DOMAIN h : e[j] = g[x]
    BY <1>1 DEF Same
  <2> QED BY <2>1 DEF Same
<1>3. \A j \in DOMAIN h : \E i \in DOMAIN h : e[i] = h[j]
  <2> SUFFICES ASSUME NEW j \in DOMAIN h PROVE \E i \in DOMAIN h : e[i] = h[j]
    OBVIOUS
  <2>1. PICK x \in DOMAIN h : g[x] = h[j]
    BY DEF Same
  <2> QED BY <1>1, <2>1 DEF Same
<1> QED BY <1>1, <1>2, <1>3 DEF Same

\* The parent of a node.
LEMMA Half ==
  ASSUME NEW i \in Nat, i >= 2
  PROVE  /\ i \div 2 \in Nat /\ 1 <= i \div 2 /\ i \div 2 < i
         /\ 2 * (i \div 2) = i \/ 2 * (i \div 2) + 1 = i
OBVIOUS

\* The root is the least.
LEMMA RootLeast ==
  ASSUME NEW h \in Seq(Hit), Heap(h), NEW i \in 1 .. Len(h)
  PROVE  h[1].score <= h[i].score
<1> DEFINE B == {j \in 1 .. Len(h) : ~ h[1].score <= h[j].score}
<1>1. SUFFICES ASSUME B # {} PROVE FALSE
  OBVIOUS
<1>2. PICK m \in B : \A j \in B : m <= j
  <2>1. B \in SUBSET Nat /\ \E j : j \in B
    BY <1>1
  <2> HIDE DEF B
  <2> QED BY <2>1, LeastNat
<1>3. Len(h) \in Nat /\ \A j \in 1 .. Len(h) : h[j].score \in Nat
  <2>1. \A j \in 1 .. Len(h) : h[j] \in Hit
    OBVIOUS
  <2> QED BY <2>1 DEF Hit
<1>4. m \in 2 .. Len(h)
  BY <1>2, <1>3
<1>5. m \div 2 \in 1 .. Len(h) /\ m \div 2 < m
  BY <1>3, <1>4, Half
<1>6. h[m \div 2].score <= h[m].score
  BY <1>4 DEF Heap
<1>7. h[1].score <= h[m \div 2].score
  BY <1>2, <1>5
<1> QED BY <1>2, <1>3, <1>4, <1>5, <1>6, <1>7

\* What a swap of two nodes does.
LEMMA SwapIs ==
  ASSUME NEW h \in Seq(Hit), NEW i \in 1 .. Len(h), NEW m \in 1 .. Len(h)
  PROVE  LET g == Swap(h, i, m) IN
         /\ g \in Seq(Hit) /\ Len(g) = Len(h) /\ Same(g, h)
         /\ g[i] = h[m] /\ g[m] = h[i]
         /\ \A j \in 1 .. Len(h) : j # i /\ j # m => g[j] = h[j]
         /\ i = m => g = h
<1> DEFINE g == Swap(h, i, m)
           n == Len(h)
<1>1. n \in Nat /\ DOMAIN h = 1 .. n /\ h \in [1 .. n -> Hit]
  OBVIOUS
<1>2. /\ DOMAIN g = 1 .. n /\ g[i] = h[m] /\ g[m] = h[i]
      /\ \A j \in 1 .. n : j # i /\ j # m => g[j] = h[j]
  BY <1>1 DEF Swap
<1>3. g \in [1 .. n -> Hit]
  BY <1>1 DEF Swap
<1>4. g \in Seq(Hit) /\ Len(g) = n
  BY <1>1, <1>3
<1>5. i = m => g = h
  BY <1>1 DEF Swap
<1> HIDE DEF g
<1>6. /\ \A j \in 1 .. n : \E x \in 1 .. n : g[j] = h[x]
      /\ \A j \in 1 .. n : \E x \in 1 .. n : g[x] = h[j]
  <2>1. \A j \in 1 .. n : \E x \in 1 .. n : g[j] = h[x]
    BY <1>1, <1>2
  <2>2. \A j \in 1 .. n : \E x \in 1 .. n : g[x] = h[j]
    BY <1>1, <1>2
  <2> QED BY <2>1, <2>2
<1>7. Distinct(h) => Distinct(g)
  BY <1>1, <1>2 DEF Distinct
<1>8. Same(g, h)
  <2> HIDE DEF n
  <2> QED BY <1>1, <1>2, <1>6, <1>7 DEF Same
<1> QED BY <1>2, <1>4, <1>5, <1>8 DEF g

\* The way up: one turn.
LEMMA AboveIs ==
  ASSUME NEW h \in Seq(Hit), NEW i \in 1 .. Len(h), HeapButUp(h, i), NEW m, m = Above(h, i)
  PROVE  /\ m \in 1 .. Len(h) /\ HeapButUp(Swap(h, i, m), m)
         /\ m = i => Heap(h)
         /\ (m # i => m < i) /\ (Heap(h) => m = i)
         /\ i = 1 => m = 1
<1> DEFINE n == Len(h)
           g == Swap(h, i, m)
<1>1. n \in Nat /\ \A j \in 1 .. n : h[j].score \in Nat
  <2>1. \A j \in 1 .. Len(h) : h[j] \in Hit
    OBVIOUS
  <2> QED BY <2>1 DEF Hit
<1>2. CASE i > 1 /\ h[i].score < h[i \div 2].score
  <2>1. m = i \div 2 /\ m \in 1 .. n /\ m < i /\ m \in Nat
    BY <1>1, <1>2, Half DEF Above
  <2>2. /\ Len(g) = n /\ g[i] = h[m] /\ g[m] = h[i]
        /\ \A j \in 1 .. n : j # i /\ j # m => g[j] = h[j]
    BY <2>1, SwapIs
  <2> HIDE DEF g, n
  <2>3. \A j \in 2 .. n : j \div 2 \in 1 .. n /\ j \div 2 < j
    BY <1>1, Half
  <2>4. ASSUME NEW j \in 2 .. n, j # m PROVE g[j \div 2].score <= g[j].score
    <3>1. CASE j = i
      BY <1>1, <1>2, <2>1, <2>2, <3>1
    <3>2. CASE j \div 2 = i
      <4>1. j # i /\ g[j] = h[j] /\ h[m].score <= h[j].score
        BY <1>1, <1>2, <2>1, <2>2, <2>3, <2>4, <3>2 DEF HeapButUp, n
      <4> QED BY <2>2, <3>2, <4>1
    <3>3. CASE j # i /\ j \div 2 = m
      <4>1. g[j] = h[j] /\ h[m].score <= h[j].score
        BY <2>2, <2>4, <3>3 DEF HeapButUp, n
      <4>2. i \in 1 .. n /\ h[i].score \in Nat /\ h[m].score \in Nat /\ h[j].score \in Nat
        BY <1>1, <2>1 DEF n
      <4>3. g[j \div 2] = h[i] /\ h[i].score < h[m].score
        BY <1>2, <2>1, <2>2, <3>3
      <4> QED BY <4>1, <4>2, <4>3
    <3>4. CASE j # i /\ j \div 2 # i /\ j \div 2 # m
      <4>1. g[j] = h[j] /\ g[j \div 2] = h[j \div 2]
        BY <2>2, <2>3, <2>4, <3>4
      <4>2. h[j \div 2].score <= h[j].score
        BY <3>4 DEF HeapButUp, n
      <4> QED BY <4>1, <4>2
    <3> QED BY <3>1, <3>2, <3>3, <3>4
  <2>5. ASSUME NEW j \in 2 .. n, j \div 2 = m, m > 1 PROVE g[m \div 2].score <= g[j].score
    <3>1. m \in 2 .. n /\ m \div 2 \in 1 .. n /\ m \div 2 < m /\ m # i /\ m \div 2 # i
      BY <1>1, <2>1, <2>3, <2>5
    <3>2. h[m \div 2].score <= h[m].score
      BY <3>1 DEF HeapButUp, n
    <3>3. g[m \div 2] = h[m \div 2]
      BY <2>2, <3>1
    <3>4. CASE j = i
      BY <2>2, <3>2, <3>3, <3>4
    <3>5. CASE j # i
      <4>1. j # m
        BY <2>3, <2>5
      <4>2. g[j] = h[j] /\ h[m].score <= h[j].score
        BY <2>2, <2>5, <3>5, <4>1 DEF HeapButUp, n
      <4>3. h[m \div 2].score \in Nat /\ h[m].score \in Nat /\ h[j].score \in Nat
        BY <1>1, <2>1, <2>5, <3>1 DEF n
      <4> QED BY <3>2, <3>3, <4>2, <4>3
    <3> QED BY <3>4, <3>5
  <2>6. HeapButUp(g, m)
    BY <2>2, <2>4, <2>5 DEF HeapButUp
  <2>7. ~ Heap(h)
    <3>1. i \in 2 .. n /\ ~ h[i \div 2].score <= h[i].score
      BY <1>1, <1>2, <2>1 DEF n
    <3> QED BY <3>1 DEF Heap, n
  <2> QED BY <1>2, <2>1, <2>6, <2>7 DEF g, n
<1>3. CASE ~ (i > 1 /\ h[i].score < h[i \div 2].score)
  <2>1. m = i
    BY <1>3 DEF Above
  <2>2. g = h
    BY <2>1, SwapIs
  <2>3. Heap(h)
    <3>1. ASSUME NEW j \in 2 .. n PROVE h[j \div 2].score <= h[j].score
      <4>1. CASE j # i
        BY <4>1 DEF HeapButUp
      <4>2. CASE j = i
        <5>1. j \div 2 \in 1 .. n
          BY <1>1, Half
        <5> QED BY <1>1, <1>3, <4>2, <5>1
      <4> QED BY <4>1, <4>2
    <3> QED BY <3>1 DEF Heap
  <2> QED BY <2>1, <2>2, <2>3
<1> QED BY <1>2, <1>3

\* The way down: one turn.
LEMMA BelowIs ==
  ASSUME NEW h \in Seq(Hit), NEW i \in 1 .. Len(h), HeapButDown(h, i), NEW m, m = Below(h, i)
  PROVE  /\ m \in 1 .. Len(h) /\ HeapButDown(Swap(h, i, m), m)
         /\ m = i => Heap(h)
         /\ (m # i => m > i) /\ (Heap(h) => m = i)
<1> DEFINE n == Len(h)
           g == Swap(h, i, m)
           kin == {i, 2 * i, 2 * i + 1} \cap DOMAIN h
           low == {j \in kin : \A x \in kin : h[j].score <= h[x].score}
<1>1. n \in Nat /\ DOMAIN h = 1 .. n /\ \A j \in 1 .. n : h[j].score \in Nat
  <2>1. \A j \in 1 .. Len(h) : h[j] \in Hit
    OBVIOUS
  <2> QED BY <2>1 DEF Hit
<1>2. m \in low
  <2>1. low # {}
    <3> DEFINE vals == {h[j].score : j \in kin}
    <3>1. vals \in SUBSET Nat /\ h[i].score \in vals
      BY <1>1
    <3>2. PICK v \in vals : \A w \in vals : v <= w
      <4> HIDE DEF vals
      <4> QED BY <3>1, LeastNat
    <3>3. PICK j \in kin : h[j].score = v
      BY <3>2
    <3>4. \A x \in kin : h[x].score \in vals
      OBVIOUS
    <3>5. \A x \in kin : h[j].score <= h[x].score
      BY <3>2, <3>3, <3>4
    <3> QED BY <3>5
  <2>2. low \in SUBSET Nat
    BY <1>1
  <2>3. m = Min(low)
    BY DEF Below
  <2> HIDE DEF low
  <2>4. \E j : j \in low
    BY <2>1
  <2>5. PICK j \in low : \A x \in low : j <= x
    BY <2>2, <2>4, LeastNat
  <2>6. low \in SUBSET Int
    BY <2>2
  <2>7. Min(low) = j
    BY <2>5, <2>6, MinIs
  <2> QED BY <2>3, <2>5, <2>7
<1>3. m \in 1 .. n /\ (m = i \/ m = 2 * i \/ m = 2 * i + 1)
  BY <1>1, <1>2
<1>4. \A j \in 2 .. n : j \div 2 \in 1 .. n /\ j \div 2 < j /\ (2 * (j \div 2) = j \/ 2 * (j \div 2) + 1 = j)
  BY <1>1, Half
<1>5. \A j \in 2 .. n : j \div 2 = i => h[m].score <= h[j].score
  <2> SUFFICES ASSUME NEW j \in 2 .. n, j \div 2 = i PROVE h[m].score <= h[j].score
    OBVIOUS
  <2>1. j \in kin
    <3>1. j \in DOMAIN h
      BY <1>1
    <3>2. j = 2 * i \/ j = 2 * i + 1
      <4>1. j \in 2 .. n /\ (2 * (j \div 2) = j \/ 2 * (j \div 2) + 1 = j)
        BY <1>4
      <4> QED BY <4>1
    <3> QED BY <3>1, <3>2
  <2> QED BY <1>2, <2>1
<1>6. h[m].score <= h[i].score
  BY <1>1, <1>2
<1>9. Heap(h) => m = i
  <2> SUFFICES ASSUME Heap(h) PROVE m = i
    OBVIOUS
  <2>1. \A x \in kin : x \in Nat /\ x >= i /\ (x = i \/ (x \in 2 .. n /\ x \div 2 = i))
    BY <1>1
  <2>2. \A x \in kin : h[i].score <= h[x].score
    <3> SUFFICES ASSUME NEW x \in kin PROVE h[i].score <= h[x].score
      OBVIOUS
    <3>1. CASE x = i
      BY <1>1, <3>1
    <3>2. CASE x # i
      <4>1. x \in 2 .. n /\ x \div 2 = i
        BY <2>1, <3>2
      <4>2. h[x \div 2].score <= h[x].score
        BY <4>1 DEF Heap
      <4> QED BY <4>1, <4>2
    <3> QED BY <3>1, <3>2
  <2>3. i \in low /\ low \in SUBSET Int
    BY <1>1, <2>1, <2>2
  <2>4. \A x \in low : i <= x
    BY <2>1
  <2>5. Min(low) = i
    <3> HIDE DEF low
    <3> QED BY <2>3, <2>4, MinIs
  <2> QED BY <2>5 DEF Below
<1> HIDE DEF low, kin, n
<1>7. CASE m = i
  <2>1. g = h
    BY <1>7, SwapIs
  <2>2. Heap(h)
    <3>1. ASSUME NEW j \in 2 .. n PROVE h[j \div 2].score <= h[j].score
      <4>1. CASE j \div 2 # i
        BY <4>1 DEF HeapButDown, n
      <4>2. CASE j \div 2 = i
        BY <1>5, <1>7, <4>2
      <4> QED BY <4>1, <4>2
    <3> QED BY <3>1 DEF Heap, n
  <2> QED BY <1>3, <1>7, <2>1, <2>2 DEF n
<1>8. CASE m # i
  <2>1. i \in 1 .. n /\ m \in 2 .. n /\ m > i /\ m \div 2 = i
    <3>1. i \in 1 .. n
      BY DEF n
    <3>2. i \in Nat /\ i >= 1 /\ m \in Nat /\ m <= n /\ (m = 2 * i \/ m = 2 * i + 1)
      BY <1>1, <1>3, <1>8, <3>1
    <3>3. m \in 2 .. n /\ m > i
      BY <1>1, <3>1, <3>2
    <3>4. m \div 2 \in Nat /\ (2 * (m \div 2) = m \/ 2 * (m \div 2) + 1 = m)
      <4>1. m \in Nat /\ m >= 2
        BY <3>2, <3>3
      <4> QED BY <4>1, Half
    <3> QED BY <3>1, <3>2, <3>3, <3>4
  <2>2. /\ Len(g) = n /\ g[i] = h[m] /\ g[m] = h[i]
        /\ \A j \in 1 .. n : j # i /\ j # m => g[j] = h[j]
    BY <1>3, SwapIs DEF n
  <2> HIDE DEF g
  <2>3. ASSUME NEW j \in 2 .. n, j \div 2 # m PROVE g[j \div 2].score <= g[j].score
    <3>1. CASE j = m
      BY <1>6, <2>1, <2>2, <3>1
    <3>2. CASE j # m /\ j \div 2 = i
      <4>1. j # i /\ g[j] = h[j]
        BY <1>1, <1>4, <2>2, <3>2
      <4> QED BY <1>5, <2>2, <3>2, <4>1
    <3>3. CASE j = i
      <4>1. i > 1 /\ j \div 2 \in 1 .. n /\ j \div 2 # i /\ j \div 2 # m
        BY <1>1, <1>4, <2>1, <2>3, <3>3
      <4>2. h[i \div 2].score <= h[m].score
        BY <2>1, <4>1 DEF HeapButDown, n
      <4>3. g[j \div 2] = h[j \div 2]
        BY <2>2, <4>1
      <4> QED BY <2>2, <3>3, <4>2, <4>3
    <3>4. CASE j # i /\ j # m /\ j \div 2 # i
      <4>1. g[j] = h[j] /\ g[j \div 2] = h[j \div 2]
        BY <1>1, <1>4, <2>2, <2>3, <3>4
      <4>2. h[j \div 2].score <= h[j].score
        BY <3>4 DEF HeapButDown, n
      <4> QED BY <4>1, <4>2
    <3> QED BY <3>1, <3>2, <3>3, <3>4
  <2>4. ASSUME NEW j \in 2 .. n, j \div 2 = m, m > 1 PROVE g[m \div 2].score <= g[j].score
    <3>1. j # m /\ j # i /\ j \div 2 # i
      BY <1>1, <1>4, <1>8, <2>1, <2>4
    <3>2. h[m].score <= h[j].score
      BY <2>4, <3>1 DEF HeapButDown, n
    <3>3. g[j] = h[j] /\ g[m \div 2] = h[m]
      BY <1>1, <2>1, <2>2, <3>1
    <3> QED BY <3>2, <3>3
  <2>5. HeapButDown(g, m)
    BY <2>2, <2>3, <2>4 DEF HeapButDown
  <2>6. m \in 1 .. Len(h) /\ m > i
    BY <1>3, <2>1 DEF n
  <2>7. HeapButDown(Swap(h, i, m), m)
    BY <2>5 DEF g
  <2> QED BY <1>8, <1>9, <2>6, <2>7
<1> QED BY <1>7, <1>8, <1>9

-----------------------------------------------------------------------------
(* Sifting.                                                                *)

\* The table from which FoldLeft reads where the loop is after any of its turns.
SiftTable(g, h, i, up, D) ==
  [t \in SUBSET D |-> IF t = {} THEN [heap |-> h, node |-> i] ELSE Sift(g[t \ {Max(t)}], up)]

\* There is one for every number of turns.
LEMMA SiftTableExists ==
  ASSUME NEW h, NEW i, NEW up, NEW n \in Nat
  PROVE  \E g : g = SiftTable(g, h, i, up, 1 .. n)
<1> DEFINE S == {m \in Nat : \E g : g = SiftTable(g, h, i, up, 1 .. m)}
<1>1. 0 \in S
  <2>1. SUBSET (1 .. 0) = {{}}
    OBVIOUS
  <2> DEFINE g == [t \in SUBSET (1 .. 0) |-> [heap |-> h, node |-> i]]
  <2>2. g = SiftTable(g, h, i, up, 1 .. 0)
    BY <2>1 DEF SiftTable
  <2> QED BY <2>2
<1>2. ASSUME NEW m \in Nat, m \in S PROVE m + 1 \in S
  <2>1. PICK g : g = SiftTable(g, h, i, up, 1 .. m)
    BY <1>2
  <2> DEFINE j == m + 1
             e == [t \in SUBSET (1 .. j) |-> IF j \in t THEN Sift(g[t \ {j}], up) ELSE g[t]]
  <2>2. ASSUME NEW t \in SUBSET (1 .. j)
        PROVE  e[t] = IF t = {} THEN [heap |-> h, node |-> i] ELSE Sift(e[t \ {Max(t)}], up)
    <3>1. CASE j \in t
      <4>1. Max(t) = j
        BY <3>1, MaxIs
      <4>2. t \ {j} \in SUBSET (1 .. j) /\ j \notin t \ {j} /\ t # {}
        BY <3>1
      <4>3. e[t \ {j}] = g[t \ {j}]
        BY <4>2
      <4> QED BY <3>1, <4>1, <4>2, <4>3
    <3>2. CASE j \notin t
      <4>1. t \in SUBSET (1 .. m) /\ e[t] = g[t]
        BY <3>2
      <4>2. t \ {Max(t)} \in SUBSET (1 .. j) /\ j \notin t \ {Max(t)}
        BY <3>2
      <4>3. e[t \ {Max(t)}] = g[t \ {Max(t)}]
        BY <4>2
      <4>4. g[t] = IF t = {} THEN [heap |-> h, node |-> i] ELSE Sift(g[t \ {Max(t)}], up)
        BY <2>1, <4>1 DEF SiftTable
      <4> QED BY <4>1, <4>3, <4>4
    <3> QED BY <3>1, <3>2
  <2>3. e = SiftTable(e, h, i, up, 1 .. j)
    <3>1. e = [t \in SUBSET (1 .. j) |-> e[t]]
      OBVIOUS
    <3> HIDE DEF e
    <3> QED BY <2>2, <3>1 DEF SiftTable
  <2> QED BY <2>3
<1> HIDE DEF S
<1>3. n \in S
  BY <1>1, <1>2, NatRise
<1> QED BY <1>3 DEF S

\* f is where the loop is after each of its n turns.
Turns(f, h, i, up, n) ==
  /\ f[0] = [heap |-> h, node |-> i] /\ Sifted(h, i, up) = f[n].heap
  /\ \A j \in 1 .. n : f[j] = Sift(f[j - 1], up)

\* A node is sifted turn by turn.
LEMMA SiftSteps ==
  ASSUME NEW h, NEW n \in Nat, DOMAIN h = 1 .. n, NEW i, NEW up
  PROVE  \E f : Turns(f, h, i, up, n)
<1> DEFINE it == CHOOSE g : g = [t \in SUBSET (DOMAIN h) |->
                   IF t = {} THEN [heap |-> h, node |-> i] ELSE Sift(g[t \ {Max(t)}], up)]
           f == [j \in 0 .. n |-> it[1 .. j]]
<1>1. Sifted(h, i, up) = it[DOMAIN h].heap
  BY Zenon DEF Sifted, FoldLeft, MapThenFoldSet
<1>3. it = SiftTable(it, h, i, up, 1 .. n)
  <2>1. \E g : g = SiftTable(g, h, i, up, 1 .. n)
    BY SiftTableExists
  <2>2. it = CHOOSE g : g = SiftTable(g, h, i, up, 1 .. n)
    BY Zenon DEF SiftTable
  <2> HIDE DEF it
  <2> QED BY <2>1, <2>2
<1> HIDE DEF it
<1>4. it[{}] = [heap |-> h, node |-> i]
  BY <1>3 DEF SiftTable
<1>5. ASSUME NEW j \in 1 .. n PROVE it[1 .. j] = Sift(it[1 .. j - 1], up)
  <2>1. Max(1 .. j) = j
    <3>1. 1 .. j \in SUBSET Int /\ j \in 1 .. j /\ \A x \in 1 .. j : x <= j
      OBVIOUS
    <3> QED BY <3>1, MaxIs
  <2>2. 1 .. j \in SUBSET (1 .. n) /\ 1 .. j # {} /\ (1 .. j) \ {j} = 1 .. j - 1
    <3>1. \A x : x \in 1 .. j => x \in 1 .. n
      OBVIOUS
    <3>2. j \in 1 .. j /\ \A x : x \in 1 .. j /\ x # j <=> x \in 1 .. j - 1
      OBVIOUS
    <3> QED BY <3>1, <3>2
  <2> QED BY <1>3, <2>1, <2>2 DEF SiftTable
<1>6. f[0] = [heap |-> h, node |-> i] /\ f[n] = it[1 .. n]
  <2>1. 1 .. 0 = {}
    OBVIOUS
  <2> QED BY <1>4, <2>1
<1>7. ASSUME NEW j \in 1 .. n PROVE f[j] = Sift(f[j - 1], up)
  BY <1>5
<1> HIDE DEF f
<1> QED BY <1>1, <1>6, <1>7 DEF Turns

\* A heap but for node i, towards where it goes.
HeapBut(h, i, up) == IF up THEN HeapButUp(h, i) ELSE HeapButDown(h, i)

\* Sifting a node up or down makes a heap of the same hits.
LEMMA SiftedIs ==
  ASSUME NEW h \in Seq(Hit), NEW i \in 1 .. Len(h), NEW up, HeapBut(h, i, up),
         NEW g, g = Sifted(h, i, up)
  PROVE  g \in Seq(Hit) /\ Len(g) = Len(h) /\ Same(g, h) /\ Heap(g)
<1>1. PICK n \in Nat : n = Len(h) /\ DOMAIN h = 1 .. n
  OBVIOUS
<1>8. PICK f : Turns(f, h, i, up, n)
  <2>1. n \in Nat /\ DOMAIN h = 1 .. n
    BY <1>1
  <2> QED BY <2>1, SiftSteps
<1>2. /\ f[0] = [heap |-> h, node |-> i] /\ Sifted(h, i, up) = f[n].heap
      /\ \A j \in 1 .. n : f[j] = Sift(f[j - 1], up)
  BY <1>8 DEF Turns
<1> DEFINE Kept(s) == /\ s.heap \in Seq(Hit) /\ Len(s.heap) = n /\ Same(s.heap, h) /\ s.node \in 1 .. n
                      /\ HeapBut(s.heap, s.node, up)
           Far(s, j) == Heap(s.heap) \/ (IF up THEN s.node <= n - j ELSE s.node > j)
           S == {j \in Nat : j <= n => Kept(f[j]) /\ Far(f[j], j)}
<1>3. 0 \in S
  <2>1. Same(h, h)
    BY DEF Same
  <2> QED BY <1>1, <1>2, <2>1
<1>4. ASSUME NEW j \in Nat, j \in S PROVE j + 1 \in S
  <2> SUFFICES ASSUME j + 1 <= n PROVE Kept(f[j + 1]) /\ Far(f[j + 1], j + 1)
    OBVIOUS
  <2>1. Kept(f[j]) /\ Far(f[j], j)
    BY <1>4
  <2>2. f[j + 1] = Sift(f[j], up)
    <3>1. j + 1 \in 1 .. n /\ (j + 1) - 1 = j
      OBVIOUS
    <3> QED BY <1>2, <3>1
  <2> DEFINE s == f[j]
             to == IF up THEN Above(s.heap, s.node) ELSE Below(s.heap, s.node)
  <2>3. f[j + 1].heap = Swap(s.heap, s.node, to) /\ f[j + 1].node = to
    BY <2>2 DEF Sift
  <2>4. /\ to \in 1 .. n
        /\ HeapBut(Swap(s.heap, s.node, to), to, up)
        /\ (to = s.node <=> Heap(s.heap))
        /\ to # s.node => IF up THEN to < s.node ELSE to > s.node
    <3>1. CASE up
      BY <2>1, <3>1, AboveIs DEF HeapBut
    <3>2. CASE ~ up
      BY <2>1, <3>2, BelowIs DEF HeapBut
    <3> QED BY <3>1, <3>2
  <2> HIDE DEF to
  <2>5. /\ f[j + 1].heap \in Seq(Hit) /\ Len(f[j + 1].heap) = n /\ Same(f[j + 1].heap, s.heap)
        /\ to = s.node => f[j + 1].heap = s.heap
    BY <2>1, <2>3, <2>4, SwapIs
  <2>6. Same(f[j + 1].heap, h)
    <3>1. Same(f[j + 1].heap, s.heap) /\ Same(s.heap, h)
      BY <2>1, <2>5
    <3> QED BY <3>1, SameTwice
  <2>7. Kept(f[j + 1])
    BY <2>3, <2>4, <2>5, <2>6
  <2>8. Far(f[j + 1], j + 1)
    <3>1. CASE to = s.node
      BY <2>4, <2>5, <3>1
    <3>2. CASE to # s.node
      <4>1. ~ Heap(s.heap)
        BY <2>4, <3>2
      <4> QED BY <2>1, <2>3, <2>4, <3>2, <4>1
    <3> QED BY <3>1, <3>2
  <2> QED BY <2>7, <2>8
<1> HIDE DEF S
<1>5. n \in S
  BY <1>3, <1>4, NatRise
<1>6. Kept(f[n]) /\ Far(f[n], n)
  BY <1>5 DEF S
<1>7. Heap(f[n].heap)
  BY <1>6
<1> QED BY <1>1, <1>2, <1>6, <1>7

\* What a document must beat to enter h.
Floor(h) == IF Len(h) < k THEN 0 ELSE h[1].score

\* A hit that beats the floor enters; what goes, if the heap was full, is the floor.
LEMMA OfferIs ==
  ASSUME k \in Nat \ {0}, hits \in Seq(Hit), Len(hits) <= k, Heap(hits), Distinct(hits),
         NEW hit \in Hit, hit.score > threshold, \A i \in DOMAIN hits : hits[i].docid # hit.docid,
         NEW h, h = Offer(hit)
  PROVE  /\ h \in Seq(Hit) /\ Len(h) <= k /\ Heap(h) /\ Distinct(h)
         /\ \E j \in DOMAIN h : h[j] = hit
         /\ \A j \in DOMAIN h : h[j] = hit \/ \E i \in DOMAIN hits : h[j] = hits[i]
         /\ \A i \in DOMAIN hits : \/ \E j \in DOMAIN h : h[j] = hits[i]
                                  \/ hits[i].score <= threshold
         /\ threshold <= Floor(h)
<1>1. Len(hits) \in Nat /\ DOMAIN hits = 1 .. Len(hits) /\ \A i \in 1 .. Len(hits) : hits[i] \in Hit /\ hits[i].score \in Nat
  <2>1. \A i \in 1 .. Len(hits) : hits[i] \in Hit
    OBVIOUS
  <2> QED BY <2>1 DEF Hit
<1>2. hit.score \in Nat
  BY DEF Hit
<1>3. CASE Len(hits) < k
  <2> DEFINE n == Len(hits) + 1
             g == Append(hits, hit)
  <2>1. /\ g \in Seq(Hit) /\ Len(g) = n /\ n \in Nat /\ n <= k /\ DOMAIN g = 1 .. n
        /\ g[n] = hit /\ \A i \in 1 .. Len(hits) : g[i] = hits[i] /\ i \in 1 .. n
    BY <1>1, <1>3
  <2>2. threshold = 0
    BY <1>3 DEF threshold
  <2>3. h = Sifted(g, n, TRUE)
    BY <1>3 DEF Offer
  <2> HIDE DEF g
  <2>4. \A i \in 1 .. n : i = n \/ i \in 1 .. Len(hits)
    BY <1>1
  <2>5. Distinct(g)
    <3>1. \A i \in 1 .. Len(hits) : hits[i].docid # hit.docid
      BY <1>1
    <3>2. \A i, j \in 1 .. Len(hits) : hits[i].docid = hits[j].docid => i = j
      BY <1>1 DEF Distinct
    <3> QED BY <2>1, <2>4, <3>1, <3>2 DEF Distinct
  <2>6. HeapBut(g, n, TRUE)
    <3>1. ASSUME NEW j \in 2 .. n, j # n PROVE g[j \div 2].score <= g[j].score
      <4>1. j \in 2 .. Len(hits) /\ j \div 2 \in 1 .. Len(hits) /\ j \in 1 .. Len(hits)
        BY <1>1, <3>1, Half
      <4>2. hits[j \div 2].score <= hits[j].score
        BY <4>1 DEF Heap
      <4> QED BY <2>1, <4>1, <4>2
    <3>2. ASSUME NEW j \in 2 .. n PROVE j \div 2 # n
      BY <2>1, Half
    <3> QED BY <2>1, <3>1, <3>2 DEF HeapBut, HeapButUp
  <2>7. h \in Seq(Hit) /\ Len(h) = n /\ Same(h, g) /\ Heap(h)
    <3>1. n \in 1 .. Len(g)
      BY <1>1, <2>1
    <3>2. h \in Seq(Hit) /\ Len(h) = Len(g) /\ Same(h, g) /\ Heap(h)
      <4> HIDE DEF n
      <4> QED BY <2>1, <2>3, <2>6, <3>1, SiftedIs, Zenon
    <3> QED BY <2>1, <3>2
  <2>8. DOMAIN h = 1 .. n /\ Distinct(h)
    BY <2>1, <2>5, <2>7 DEF Same
  <2>9. \A j \in 1 .. n : (\E i \in 1 .. n : h[j] = g[i]) /\ (\E i \in 1 .. n : g[j] = h[i])
    <3>1. DOMAIN g = 1 .. n /\ Same(h, g)
      BY <2>1, <2>7
    <3> HIDE DEF n
    <3> QED BY <3>1 DEF Same
  <2>10. n \in 1 .. n
    BY <1>1
  <2>11. \E j \in DOMAIN h : h[j] = hit
    BY <2>1, <2>8, <2>9, <2>10
  <2>12. \A j \in DOMAIN h : h[j] = hit \/ \E i \in DOMAIN hits : h[j] = hits[i]
    <3> SUFFICES ASSUME NEW j \in 1 .. n PROVE h[j] = hit \/ \E i \in 1 .. Len(hits) : h[j] = hits[i]
      BY <1>1, <2>8
    <3>1. PICK i \in 1 .. n : h[j] = g[i]
      BY <2>9
    <3> QED BY <2>1, <2>4, <3>1
  <2>13. \A i \in DOMAIN hits : \E j \in DOMAIN h : h[j] = hits[i]
    <3> SUFFICES ASSUME NEW i \in 1 .. Len(hits) PROVE \E j \in 1 .. n : h[j] = hits[i]
      BY <1>1, <2>8
    <3>1. i \in 1 .. n /\ g[i] = hits[i]
      BY <2>1
    <3> QED BY <2>9, <3>1
  <2>14. threshold <= Floor(h)
    <3>1. h[1].score \in Nat
      <4>1. 1 \in DOMAIN h
        BY <1>1, <2>8
      <4>2. h[1] \in Hit
        BY <2>7, <4>1
      <4> QED BY <4>2 DEF Hit
    <3> QED BY <2>2, <3>1 DEF Floor
  <2> QED BY <2>1, <2>7, <2>8, <2>11, <2>12, <2>13, <2>14
<1>4. CASE ~ Len(hits) < k
  <2> DEFINE n == Len(hits)
             g == [hits EXCEPT ![1] = hit]
  <2>1. n = k /\ n \in Nat /\ 1 \in 1 .. n
    <3>1. n \in Nat /\ k \in Nat /\ k # 0 /\ n <= k /\ ~ n < k
      BY <1>1, <1>4
    <3> HIDE DEF n
    <3> QED BY <3>1
  <2>2. threshold = hits[1].score
    BY <1>4 DEF threshold
  <2>3. h = Sifted(g, 1, FALSE)
    <3>1. ~ hit.score <= hits[1].score
      BY <1>1, <1>2, <2>1, <2>2
    <3> QED BY <1>4, <3>1 DEF Offer
  <2>4. /\ g \in Seq(Hit) /\ Len(g) = n /\ DOMAIN g = 1 .. n
        /\ g[1] = hit /\ \A i \in 2 .. n : g[i] = hits[i]
    BY <1>1, <2>1
  <2> HIDE DEF g
  <2>5. \A i \in 1 .. n : i = 1 \/ i \in 2 .. n
    BY <2>1
  <2>6. Distinct(g)
    <3>1. \A i \in 2 .. n : hits[i].docid # hit.docid
      BY <1>1, <2>1
    <3>2. \A i, j \in 2 .. n : hits[i].docid = hits[j].docid => i = j
      BY <1>1, <2>1 DEF Distinct
    <3> QED BY <2>4, <2>5, <3>1, <3>2 DEF Distinct
  <2>7. HeapBut(g, 1, FALSE)
    <3>1. ASSUME NEW j \in 2 .. n, j \div 2 # 1 PROVE g[j \div 2].score <= g[j].score
      <4>1. j \div 2 \in 2 .. n
        BY <2>1, <3>1, Half
      <4>2. hits[j \div 2].score <= hits[j].score
        BY DEF Heap
      <4> QED BY <2>4, <4>1, <4>2
    <3> QED BY <2>4, <3>1 DEF HeapBut, HeapButDown
  <2>8. h \in Seq(Hit) /\ Len(h) = n /\ Same(h, g) /\ Heap(h)
    <3>1. 1 \in 1 .. Len(g)
      BY <2>1, <2>4
    <3>2. h \in Seq(Hit) /\ Len(h) = Len(g) /\ Same(h, g) /\ Heap(h)
      BY <2>3, <2>4, <2>7, <3>1, SiftedIs, Zenon
    <3> QED BY <2>4, <3>2
  <2>9. DOMAIN h = 1 .. n /\ Distinct(h)
    BY <2>4, <2>6, <2>8 DEF Same
  <2>10. \A j \in 1 .. n : (\E i \in 1 .. n : h[j] = g[i]) /\ (\E i \in 1 .. n : g[j] = h[i])
    <3>1. DOMAIN g = 1 .. n /\ Same(h, g)
      BY <2>4, <2>8
    <3> HIDE DEF n
    <3> QED BY <3>1 DEF Same
  <2>11. \E j \in DOMAIN h : h[j] = hit
    BY <2>1, <2>4, <2>9, <2>10
  <2>12. \A j \in DOMAIN h : h[j] = hit \/ \E i \in DOMAIN hits : h[j] = hits[i]
    <3>1. \A i \in 2 .. n : i \in DOMAIN hits
      BY <1>1, <2>1
    <3> SUFFICES ASSUME NEW j \in 1 .. n PROVE h[j] = hit \/ \E i \in DOMAIN hits : h[j] = hits[i]
      BY <2>9
    <3>2. PICK i \in 1 .. n : h[j] = g[i]
      BY <2>10
    <3> QED BY <2>4, <2>5, <3>1, <3>2
  <2>13. \A i \in DOMAIN hits : (\E j \in DOMAIN h : h[j] = hits[i]) \/ hits[i].score <= threshold
    <3>1. ASSUME NEW i \in 1 .. n PROVE (\E j \in DOMAIN h : h[j] = hits[i]) \/ hits[i].score <= threshold
      <4>1. CASE i = 1
        BY <1>1, <2>1, <2>2, <4>1
      <4>2. CASE i \in 2 .. n
        <5>1. g[i] = hits[i]
          BY <2>4, <4>2
        <5>2. \E j \in 1 .. n : g[i] = h[j]
          BY <2>10
        <5> QED BY <2>9, <5>1, <5>2
      <4> QED BY <2>5, <4>1, <4>2
    <3> QED BY <1>1, <3>1
  <2>14. threshold <= Floor(h)
    <3>1. Floor(h) = h[1].score /\ 1 \in DOMAIN h
      BY <1>4, <2>1, <2>8, <2>9 DEF Floor
    <3>2. CASE h[1] = hit
      BY <1>1, <1>2, <2>1, <2>2, <3>1, <3>2
    <3>3. CASE \E i \in DOMAIN hits : h[1] = hits[i]
      <4>1. PICK i \in 1 .. Len(hits) : h[1] = hits[i]
        BY <1>1, <3>3
      <4>2. hits[1].score <= hits[i].score
        BY RootLeast
      <4> QED BY <2>2, <3>1, <4>1, <4>2
    <3> QED BY <2>12, <3>1, <3>2, <3>3
  <2> QED BY <2>1, <2>8, <2>9, <2>11, <2>12, <2>13, <2>14
<1> QED BY <1>3, <1>4

-----------------------------------------------------------------------------
(* The query and its cursors.                                              *)

\* Docids are naturals, and the end lies behind them.
LEMMA Docs ==
  /\ Doc \in SUBSET Nat /\ docidExhausted \in Nat
  /\ \A d \in Doc : d \in Nat /\ d < docidExhausted /\ d # docidExhausted
BY TraverseAssumption DEF Doc, docidExhausted

\* A document is among a term's if it has an impact.
LEMMA ImpactIs ==
  ASSUME QueryHolds, NEW t \in Term
  PROVE  /\ Docids(t) \in SUBSET Doc
         /\ \A d \in Doc : impact[t][d] \in Nat /\ impact[t][d] <= MaxImpact
                           /\ (impact[t][d] > 0 <=> d \in Docids(t))
BY TraverseAssumption DEF QueryHolds, Docids

\* The first posting from d on.
LEMMA FirstIs ==
  ASSUME NEW t, NEW d \in Nat, NEW e, e = First(t, d)
  PROVE  /\ e \in Docids(t) \cup {docidExhausted} /\ e \in Nat /\ e <= docidExhausted
         /\ e = docidExhausted \/ e >= d
         /\ \A x \in Docids(t) : x >= d => e <= x
<1> DEFINE S == {x \in Docids(t) : x >= d} \cup {docidExhausted}
<1>1. Docids(t) \in SUBSET Doc
  BY DEF Docids
<1>2. S \in SUBSET Nat /\ S # {} /\ docidExhausted \in S
  BY <1>1, Docs
<1>3. e = Min(S)
  BY DEF First
<1>4. e \in S /\ \A x \in S : e <= x
  <2> HIDE DEF S
  <2> QED BY <1>2, <1>3, Least
<1>5. e = docidExhausted \/ (e \in Docids(t) /\ e >= d)
  BY <1>4
<1> QED BY <1>2, <1>4, <1>5

\* The largest impact of some documents.
LEMMA MaxOverIs ==
  ASSUME QueryHolds, NEW t \in Term, NEW S \in SUBSET Doc
  PROVE  MaxOver(t, S) \in Nat /\ \A d \in S : impact[t][d] <= MaxOver(t, S)
<1> DEFINE M == {0} \cup {impact[t][d] : d \in S}
<1>1. MaxImpact \in Nat /\ \A d \in S : impact[t][d] \in Nat /\ impact[t][d] <= MaxImpact
  BY ImpactIs, TraverseAssumption
<1>2. M \in SUBSET Nat /\ M # {} /\ \A x \in M : x <= MaxImpact
  BY <1>1
<1>3. \A d \in S : impact[t][d] \in M
  OBVIOUS
<1>4. MaxOver(t, S) = Max(M)
  BY DEF MaxOver
<1> HIDE DEF M
<1>5. Max(M) \in M /\ \A x \in M : x <= Max(M)
  BY <1>1, <1>2, Greatest
<1> QED BY <1>2, <1>3, <1>4, <1>5

\* A term's bound covers its impacts.
LEMMA BoundIs ==
  ASSUME QueryHolds, NEW t \in Term
  PROVE  bound[t] \in Nat /\ \A d \in Doc : impact[t][d] <= bound[t]
<1>1. Docids(t) \in SUBSET Doc
  BY ImpactIs
<1>2. bound[t] = MaxOver(t, Docids(t))
  BY DEF QueryHolds
<1>3. bound[t] \in Nat /\ \A d \in Docids(t) : impact[t][d] <= bound[t]
  BY <1>1, <1>2, MaxOverIs
<1>4. ASSUME NEW d \in Doc PROVE impact[t][d] <= bound[t]
  <2>1. impact[t][d] \in Nat /\ (impact[t][d] > 0 => d \in Docids(t))
    BY ImpactIs
  <2> QED BY <1>3, <2>1
<1> QED BY <1>3, <1>4

\* Where Advance takes a cursor.
LEMMA AdvanceIs ==
  ASSUME CursorsHold, NEW t \in Term, NEW d \in Nat, NEW e, e = Advance(t, d)
  PROVE  /\ at[t] \in Nat /\ at[t] <= docidExhausted
         /\ e \in Docids(t) \cup {docidExhausted} /\ e \in Nat /\ e >= at[t]
         /\ e = docidExhausted \/ e >= d
         /\ \A x \in Docids(t) : x >= d /\ x >= at[t] => e <= x
<1>1. at[t] \in Nat /\ at[t] <= docidExhausted
  <2>1. at[t] \in Doc \/ at[t] = docidExhausted
    BY DEF CursorsHold
  <2>2. \A x \in Doc : x \in Nat /\ x < docidExhausted
    BY Docs
  <2>3. docidExhausted \in Nat
    BY Docs
  <2> QED BY <2>1, <2>2, <2>3
<1> DEFINE m == Larger(d, at[t])
<1>2. m = IF d >= at[t] THEN d ELSE at[t]
  BY <1>1, LargerIs
<1>3. m \in Nat /\ m >= d /\ m >= at[t] /\ \A x \in Nat : x >= d /\ x >= at[t] => x >= m
  BY <1>1, <1>2
<1>4. e = First(t, m)
  BY DEF Advance
<1> HIDE DEF m
<1>5. /\ e \in Docids(t) \cup {docidExhausted} /\ e \in Nat
      /\ e = docidExhausted \/ e >= m
      /\ \A x \in Docids(t) : x >= m => e <= x
  BY <1>3, <1>4, FirstIs
<1>6. \A x \in Docids(t) : x \in Nat
  BY Docs DEF Docids
<1> QED BY <1>1, <1>3, <1>5, <1>6, Docs

\* A block bound covers the impact of the document it is asked for.
LEMMA BlockBoundIs ==
  ASSUME QueryHolds, CursorsHold, NEW t \in Term, NEW d \in Doc
  PROVE  BlockBound(t, d) \in Nat /\ (at[t] <= d => impact[t][d] <= BlockBound(t, d))
<1> DEFINE e == Advance(t, d)
           S == IF Inline(t) THEN {x \in Docids(t) : x >= e} ELSE Block(t, e)
<1>1. S \in SUBSET Doc
  BY ImpactIs DEF Block
<1>2. BlockBound(t, d) = MaxOver(t, S)
  BY DEF BlockBound
<1>3. BlockBound(t, d) \in Nat /\ \A x \in S : impact[t][x] <= BlockBound(t, d)
  <2> HIDE DEF S
  <2> QED BY <1>1, <1>2, MaxOverIs
<1>4. ASSUME at[t] <= d PROVE impact[t][d] <= BlockBound(t, d)
  <2>1. d \in Nat /\ d # docidExhausted /\ impact[t][d] \in Nat /\ (impact[t][d] > 0 => d \in Docids(t))
    BY ImpactIs, Docs
  <2>2. CASE impact[t][d] = 0
    BY <1>3, <2>2
  <2>3. CASE impact[t][d] > 0
    <3>1. d \in Docids(t)
      BY <2>1, <2>3
    <3>2. /\ at[t] \in Nat /\ e \in Nat /\ (e = docidExhausted \/ e >= d) /\ e <= d /\ docidExhausted \in Nat
          /\ d < docidExhausted
      BY <1>4, <2>1, <3>1, AdvanceIs, Docs
    <3>3. e = d
      <4> HIDE DEF e
      <4> QED BY <2>1, <3>2
    <3>4. d \in S
      BY <2>1, <3>1, <3>3 DEF Block
    <3> QED BY <1>3, <3>4
  <2> QED BY <2>1, <2>2, <2>3
<1> QED BY <1>3, <1>4

-----------------------------------------------------------------------------
(* What a document can still be given.                                     *)

Gives(d) == [t \in Term |-> IF at[t] <= d THEN impact[t][d] ELSE 0]

\* What the cursors will give d.
Reach(d) == SumOver(Gives(d), Term)

\* What a term still gives d: no more than its impact, its bound and its block's bound.
LEMMA GivesIs ==
  ASSUME QueryHolds, CursorsHold, NEW d \in Doc, NEW t \in Term
  PROVE  /\ Gives(d)[t] \in Nat /\ Gives(d)[t] <= impact[t][d] /\ Gives(d)[t] <= bound[t]
         /\ Gives(d)[t] = IF at[t] <= d THEN impact[t][d] ELSE 0
         /\ Gives(d)[t] <= BlockBound(t, d)
         /\ Gives(d)[t] > 0 => t \in Open
<1>1. Gives(d)[t] = IF at[t] <= d THEN impact[t][d] ELSE 0
  BY DEF Gives
<1>2. impact[t][d] \in Nat /\ (impact[t][d] > 0 => d \in Docids(t)) /\ impact[t][d] <= bound[t] /\ bound[t] \in Nat
  BY ImpactIs, BoundIs
<1>3. BlockBound(t, d) \in Nat /\ (at[t] <= d => impact[t][d] <= BlockBound(t, d))
  BY BlockBoundIs
<1>4. d \in Docids(t) => t \in Open
  BY DEF Open
<1> QED BY <1>1, <1>2, <1>3, <1>4

\* The exhaustive score is a sum of naturals.
LEMMA ExactIs ==
  ASSUME QueryHolds, NEW d \in Doc
  PROVE  /\ Exact(d) \in Nat
         /\ Exact(d) = SumOver([t \in Term |-> impact[t][d]], Term)
         /\ \A t \in Term : [u \in Term |-> impact[u][d]][t] = impact[t][d] /\ impact[t][d] \in Nat
<1>1. \A t \in Term : [u \in Term |-> impact[u][d]][t] = impact[t][d] /\ impact[t][d] \in Nat
  BY ImpactIs
<1>2. IsFiniteSet(Term)
  BY TraverseAssumption
<1>3. Exact(d) = SumOver([t \in Term |-> impact[t][d]], Term)
  BY DEF Exact
<1> DEFINE f == [t \in Term |-> impact[t][d]]
<1>4. \A t \in Term : f[t] \in Nat
  BY <1>1
<1> HIDE DEF f
<1>5. SumOver(f, Term) \in Nat
  BY <1>2, <1>4, SumParts
<1> QED BY <1>1, <1>3, <1>5 DEF f

\* Never more than its score; all of it if no posting was passed.
LEMMA ReachIs ==
  ASSUME QueryHolds, CursorsHold, NEW d \in Doc
  PROVE  Reach(d) \in Nat /\ Reach(d) <= Exact(d) /\ (Ahead(d) => Reach(d) = Exact(d))
<1> DEFINE f == [t \in Term |-> impact[t][d]]
           g == Gives(d)
<1>1. IsFiniteSet(Term)
  BY TraverseAssumption
<1>2. \A t \in Term : f[t] \in Nat /\ f[t] = impact[t][d]
  BY ExactIs
<1>3. \A t \in Term : g[t] \in Nat /\ g[t] <= impact[t][d]
  BY GivesIs
<1>4. \A t \in Term : g[t] = IF at[t] <= d THEN impact[t][d] ELSE 0
  BY GivesIs
<1>5. Exact(d) = SumOver(f, Term) /\ Reach(d) = SumOver(g, Term)
  BY ExactIs DEF Reach
<1> HIDE DEF f, g
<1>6. Reach(d) \in Nat /\ Exact(d) \in Nat
  BY <1>1, <1>2, <1>3, <1>5, SumParts
<1>7. SumOver(g, Term) <= SumOver(f, Term)
  <2>1. \A t \in Term : g[t] > 0 => t \in Term /\ g[t] <= f[t]
    BY <1>2, <1>3
  <2> QED BY <1>1, <1>2, <1>3, <2>1, SumCompare
<1>8. ASSUME Ahead(d) PROVE SumOver(f, Term) <= SumOver(g, Term)
  <2>1. \A t \in Term : f[t] > 0 => t \in Term /\ f[t] <= g[t]
    BY <1>2, <1>4, <1>8 DEF Ahead
  <2> QED BY <1>1, <1>2, <1>3, <2>1, SumCompare
<1> QED BY <1>5, <1>6, <1>7, <1>8

\* The terms that have a cursor are finitely many.
LEMMA OpenIs == Open \in SUBSET Term /\ IsFiniteSet(Open)
<1>1. Open \in SUBSET Term
  BY DEF Open
<1> QED BY <1>1, TraverseAssumption, FS_Subset

\* An order of the open terms names each once.
LEMMA OrderIs ==
  ASSUME NEW key, NEW s \in OrdersBy(key)
  PROVE  /\ Len(s) \in Nat /\ DOMAIN s = 1 .. Len(s)
         /\ \A i \in 1 .. Len(s) : s[i] \in Open /\ s[i] \in Term
         /\ \A i, j \in 1 .. Len(s) : s[i] = s[j] => i = j
         /\ \A t \in Open : \E i \in 1 .. Len(s) : s[i] = t
         /\ \A i, j \in 1 .. Len(s) : i < j => key[s[i]] <= key[s[j]]
<1>1. s \in SetToSeqs(Open) /\ \A i, j \in DOMAIN s : i < j => key[s[i]] <= key[s[j]]
  BY DEF OrdersBy
<1>2. /\ Cardinality(Open) \in Nat /\ DOMAIN s = 1 .. Cardinality(Open) /\ Len(s) = Cardinality(Open)
      /\ \A i \in DOMAIN s : s[i] \in Open
      /\ \A i, j \in DOMAIN s : s[i] = s[j] => i = j
      /\ \A x \in Open : \E i \in DOMAIN s : s[i] = x
  BY <1>1, OpenIs, EnumCovers
<1> QED BY <1>1, <1>2, OpenIs

-----------------------------------------------------------------------------
(* What a turn has to keep.                                                *)

\* Where a cursor can stand.
LEMMA CursorIs ==
  ASSUME QueryHolds, CursorsHold, NEW t \in Term
  PROVE  /\ at[t] \in Nat /\ at[t] <= docidExhausted
         /\ at[t] = docidExhausted \/ (at[t] \in Doc /\ at[t] \in Docids(t) /\ t \in Open)
<1>1. at[t] = docidExhausted \/ (at[t] \in Doc /\ at[t] \in Docids(t))
  BY DEF CursorsHold, Docids
<1>2. at[t] \in Docids(t) => t \in Open
  BY DEF Open
<1>3. \A x \in Doc : x \in Nat /\ x < docidExhausted
  BY Docs
<1>4. docidExhausted \in Nat
  BY Docs
<1> QED BY <1>1, <1>2, <1>3, <1>4

\* A hit's parts.
LEMMA HitsAre ==
  ASSUME HeapHolds
  PROVE  /\ Len(hits) \in Nat /\ DOMAIN hits = 1 .. Len(hits)
         /\ \A i \in DOMAIN hits : /\ hits[i] \in Hit /\ hits[i].docid \in Doc
                                   /\ hits[i].score \in Nat
<1>1. \A i \in DOMAIN hits : hits[i] \in Hit
  BY DEF HeapHolds
<1> QED BY <1>1 DEF HeapHolds, Hit

\* The floor is a number.
LEMMA FloorOf ==
  ASSUME QueryHolds, NEW h \in Seq(Hit)
  PROVE  Floor(h) \in Nat
<1>1. Len(h) \in Nat /\ DOMAIN h = 1 .. Len(h) /\ \A i \in DOMAIN h : h[i].score \in Nat
  <2>1. \A i \in DOMAIN h : h[i] \in Hit
    OBVIOUS
  <2> QED BY <2>1 DEF Hit
<1>2. k \in Nat /\ k # 0
  BY DEF QueryHolds
<1>3. Len(h) < k \/ 1 \in DOMAIN h
  BY <1>1, <1>2
<1> QED BY <1>1, <1>3 DEF Floor

\* So is the traversal's.
LEMMA FloorIs ==
  ASSUME QueryHolds, HeapHolds
  PROVE  threshold \in Nat /\ threshold = Floor(hits)
<1>1. hits \in Seq(Hit)
  BY DEF HeapHolds
<1>2. threshold = Floor(hits)
  BY DEF threshold, Floor
<1> QED BY <1>1, <1>2, FloorOf

\* Nothing of the query changes after it is asked.
LEMMA SameQuery ==
  ASSUME QueryHolds, UNCHANGED query
  PROVE  /\ QueryHolds' /\ Matching' = Matching /\ Open' = Open
         /\ \A d : Exact(d)' = Exact(d)
         /\ \A t \in Term : Docids(t)' = Docids(t)
<1>1. /\ k' = k /\ impact' = impact /\ deleted' = deleted /\ bound' = bound /\ byBound' = byBound
  BY DEF query
<1>2. \A t : Docids(t)' = Docids(t)
  BY <1>1 DEF Docids
<1>3. \A t, S : MaxOver(t, S)' = MaxOver(t, S)
  BY <1>1 DEF MaxOver
<1>4. Open' = Open
  BY <1>2 DEF Open
<1>5. \A d : Exact(d)' = Exact(d)
  BY <1>1 DEF Exact
<1>6. Matching' = Matching
  BY <1>1, <1>5 DEF Matching
<1>7. OrdersBy(bound)' = OrdersBy(bound)
  BY <1>1, <1>4 DEF OrdersBy
<1>8. [t \in Term |-> MaxOver(t, Docids(t))]' = [t \in Term |-> MaxOver(t, Docids(t))]
  BY <1>2, <1>3
<1>9. QueryHolds'
  BY <1>1, <1>7, <1>8 DEF QueryHolds
<1> QED BY <1>2, <1>4, <1>5, <1>6, <1>9

\* Scoring a document that is no hit yet at what the cursors still give it, or at nothing if that
\* does not beat the floor: what is then outside the heap and beats the floor was so before, and
\* is another document.
LEMMA ScoredKeeps ==
  ASSUME QueryHolds, CursorsHold, HeapHolds, ScoresExact, NoneLost, ~ done,
         NEW d \in Doc, \A i \in DOMAIN hits : hits[i].docid # d,
         NEW s \in Nat, s > threshold => s = Reach(d), Reach(d) > threshold => s > threshold,
         Scored(d, s), UNCHANGED <<query, failed, done>>
  PROVE  /\ HeapHolds' /\ ScoresExact' /\ threshold <= threshold'
         /\ \A i \in DOMAIN hits' : \/ hits'[i].docid = d
                                   \/ \E j \in DOMAIN hits : hits'[i] = hits[j]
         /\ ~ failed => \A x \in Matching \ Returned' :
              Exact(x) > threshold' => /\ x \in Matching \ Returned /\ Exact(x) > threshold
                                       /\ x # d /\ Ahead(x)
<1>1. k' = k /\ impact' = impact /\ deleted' = deleted /\ failed' = failed /\ done' = done
  BY DEF query
<1>2. threshold \in Nat /\ Reach(d) \in Nat /\ Exact(d) \in Nat /\ Reach(d) <= Exact(d)
      /\ (Ahead(d) => Reach(d) = Exact(d))
  BY FloorIs, ReachIs, ExactIs
<1>3. d \notin Returned
  BY DEF Returned
<1>4. k \in Nat \ {0}
  BY DEF QueryHolds
<1>5. ~ failed /\ Exact(d) > threshold /\ d \notin deleted => d \in Matching /\ Reach(d) = Exact(d)
  BY <1>2, <1>3 DEF NoneLost, Matching
<1>6. threshold' = Floor(hits')
  BY <1>1 DEF threshold, Floor
<1>9. Matching' = Matching /\ \A x : Exact(x)' = Exact(x)
  BY SameQuery
<1> DEFINE hit == [docid |-> d, score |-> s]
<1>7. CASE s > threshold /\ d \notin deleted
  <2>1. hits' = Offer(hit)
    BY <1>7 DEF Scored
  <2>2. hit \in Hit /\ hit.score = s /\ hit.docid = d
    BY DEF Hit
  <2> HIDE DEF hit
  <2>3. /\ hits' \in Seq(Hit) /\ Len(hits') <= k /\ Heap(hits') /\ Distinct(hits')
        /\ \E j \in DOMAIN hits' : hits'[j] = hit
        /\ \A j \in DOMAIN hits' : hits'[j] = hit \/ \E i \in DOMAIN hits : hits'[j] = hits[i]
        /\ \A i \in DOMAIN hits : \/ \E j \in DOMAIN hits' : hits'[j] = hits[i]
                                 \/ hits[i].score <= threshold
        /\ threshold <= Floor(hits')
    <3>1. hits \in Seq(Hit) /\ Len(hits) <= k /\ Heap(hits) /\ Distinct(hits)
      BY DEF HeapHolds
    <3> QED BY <1>4, <1>7, <2>1, <2>2, <3>1, OfferIs
  <2>4. HeapHolds'
    BY <1>1, <2>3 DEF HeapHolds, Hit, Heap, Distinct, Doc
  <2>5. ~ failed => d \in Matching /\ s = Exact(d)
    BY <1>2, <1>5, <1>7
  <2>6. ScoresExact'
    <3> SUFFICES ASSUME ~ failed, NEW j \in DOMAIN hits'
                 PROVE  hits'[j].docid \in Matching /\ hits'[j].score = Exact(hits'[j].docid)
      BY <1>1, <1>9 DEF ScoresExact
    <3>1. CASE hits'[j] = hit
      BY <2>2, <2>5, <3>1
    <3>2. CASE \E i \in DOMAIN hits : hits'[j] = hits[i]
      BY <3>2 DEF ScoresExact
    <3> QED BY <2>3, <3>1, <3>2
  <2>7. d \in Returned'
    BY <2>2, <2>3 DEF Returned
  <2>8. ASSUME ~ failed, NEW x \in Matching \ Returned', Exact(x) > threshold'
        PROVE  /\ x \in Matching \ Returned /\ Exact(x) > threshold
               /\ x # d /\ Ahead(x)
    <3>1. x \in Doc /\ Exact(x) \in Nat /\ threshold' \in Nat
      <4>1. x \in Doc
        BY DEF Matching
      <4>2. threshold' \in Nat
        BY <1>6, <2>3, FloorOf
      <4> QED BY <4>1, <4>2, ExactIs
    <3>2. Exact(x) > threshold
      BY <1>2, <1>6, <2>3, <2>8, <3>1
    <3>3. x \notin Returned
      <4> SUFFICES ASSUME NEW i \in DOMAIN hits, x = hits[i].docid PROVE FALSE
        BY DEF Returned
      <4>1. hits[i].score = Exact(x)
        BY <2>8 DEF ScoresExact
      <4>2. ~ hits[i].score <= threshold
        BY <1>2, <3>1, <3>2, <4>1
      <4>3. PICK j \in DOMAIN hits' : hits'[j] = hits[i]
        BY <2>3, <4>2
      <4> QED BY <2>8, <4>3 DEF Returned
    <3>4. x # d
      BY <2>7, <2>8
    <3> QED BY <2>8, <3>2, <3>3, <3>4 DEF NoneLost
  <2>9. \A i \in DOMAIN hits' : hits'[i].docid = d \/ \E j \in DOMAIN hits : hits'[i] = hits[j]
    BY <2>2, <2>3
  <2> QED BY <1>6, <2>3, <2>4, <2>6, <2>8, <2>9
<1>8. CASE ~ (s > threshold /\ d \notin deleted)
  <2>1. hits' = hits
    BY <1>8 DEF Scored
  <2>2. HeapHolds' /\ ScoresExact' /\ threshold' = threshold /\ Returned' = Returned
    <3>1. HeapHolds' /\ threshold' = threshold /\ Returned' = Returned
      BY <1>1, <2>1 DEF HeapHolds, threshold, Returned
    <3>2. ScoresExact'
      BY <1>1, <1>9, <2>1 DEF ScoresExact
    <3> QED BY <3>1, <3>2
  <2>3. ASSUME ~ failed, NEW x \in Matching \ Returned, Exact(x) > threshold
        PROVE  x # d
    <3> SUFFICES ASSUME x = d PROVE FALSE
      OBVIOUS
    <3>1. d \notin deleted
      BY DEF Matching
    <3> QED BY <1>2, <1>5, <1>8, <2>3, <3>1
  <2> QED BY <1>2, <2>1, <2>2, <2>3 DEF NoneLost
<1> QED BY <1>7, <1>8

-----------------------------------------------------------------------------
(* Block-max WAND.                                                         *)

\* The pivot: a cursor that stands at a posting; and no document that could beat the floor has all
\* its postings ahead and lies before it.
LEMMA PivotIs ==
  ASSUME QueryHolds, CursorsHold, HeapHolds, NEW ts \in OrdersBy(at), NEW p, p = Pivot(ts)
  PROVE  /\ p \in 0 .. Len(ts)
         /\ p # 0 => ts[p] \in Open /\ ts[p] \in Term /\ at[ts[p]] \in Doc
         /\ \A d \in Doc : Exact(d) > threshold /\ Ahead(d) => p # 0 /\ at[ts[p]] <= d
<1>1. /\ Len(ts) \in Nat /\ DOMAIN ts = 1 .. Len(ts)
      /\ \A i \in 1 .. Len(ts) : ts[i] \in Open /\ ts[i] \in Term
      /\ \A t \in Open : \E i \in 1 .. Len(ts) : ts[i] = t
      /\ \A i, j \in 1 .. Len(ts) : i < j => at[ts[i]] <= at[ts[j]]
  BY OrderIs
<1> DEFINE beats == {i \in DOMAIN ts : /\ at[ts[i]] # docidExhausted
                                       /\ SumOver(bound, Upto(ts, i)) > threshold}
<1>2. p = IF beats = {} THEN 0 ELSE Min(beats)
  BY DEF Pivot
<1>3. beats \in SUBSET Nat
  BY <1>1
<1>4. beats # {} => p \in beats /\ \A i \in beats : p <= i
  <2> HIDE DEF beats
  <2> SUFFICES ASSUME beats # {} PROVE p \in beats /\ \A i \in beats : p <= i
    OBVIOUS
  <2>1. p = Min(beats)
    BY <1>2
  <2>2. Min(beats) \in beats /\ \A i \in beats : Min(beats) <= i
    BY <1>3, Least
  <2> QED BY <2>1, <2>2
<1>5. p \in beats => p \in 1 .. Len(ts) /\ at[ts[p]] # docidExhausted
  BY <1>1
<1>6. p = 0 \/ p \in beats
  BY <1>2, <1>4
<1>7. p \in 0 .. Len(ts)
  BY <1>1, <1>5, <1>6
<1>8. p # 0 => ts[p] \in Open /\ ts[p] \in Term /\ at[ts[p]] \in Doc
  BY <1>1, <1>5, <1>6, CursorIs
<1>9. ASSUME NEW d \in Doc, Exact(d) > threshold, Ahead(d) PROVE p # 0 /\ at[ts[p]] <= d
  <2> DEFINE f == [t \in Term |-> impact[t][d]]
             I == {i \in 1 .. Len(ts) : at[ts[i]] <= d}
  <2>1. /\ \A t \in Term : f[t] \in Nat /\ f[t] = impact[t][d] /\ f[t] <= bound[t] /\ bound[t] \in Nat
        /\ Exact(d) = SumOver(f, Term) /\ Exact(d) \in Nat /\ threshold \in Nat /\ IsFiniteSet(Term)
    BY ExactIs, BoundIs, FloorIs, TraverseAssumption
  <2>2. \A t \in Term : f[t] > 0 => \E i \in I : ts[i] = t
    <3> SUFFICES ASSUME NEW t \in Term, f[t] > 0 PROVE \E i \in I : ts[i] = t
      OBVIOUS
    <3>1. t \in Open
      BY <2>1 DEF Open, Docids
    <3>2. at[t] <= d
      BY <1>9, <2>1 DEF Ahead
    <3> QED BY <1>1, <3>1, <3>2
  <2> HIDE DEF f
  <2>3. \E t \in Term : f[t] > 0
    BY <1>9, <2>1, SumSome
  <2>4. I \in SUBSET Nat /\ I # {} /\ \A i \in I : i <= Len(ts)
    BY <1>1, <2>2, <2>3
  <2>5. PICK m \in I : \A i \in I : i <= m
    <3> HIDE DEF I
    <3> QED BY <1>1, <2>4, Greatest
  <2>6. m \in 1 .. Len(ts) /\ at[ts[m]] <= d
    OBVIOUS
  <2>7. \A t \in Term : f[t] > 0 => t \in Upto(ts, m)
    <3> SUFFICES ASSUME NEW t \in Term, f[t] > 0 PROVE t \in Upto(ts, m)
      OBVIOUS
    <3>1. PICK i \in I : ts[i] = t
      BY <2>2
    <3>2. i \in 1 .. m
      BY <1>1, <2>5
    <3> QED BY <3>1, <3>2 DEF Upto
  <2>8. Upto(ts, m) \in SUBSET Term /\ IsFiniteSet(Upto(ts, m))
    <3>1. Upto(ts, m) \in SUBSET Term
      BY <1>1, <2>6 DEF Upto
    <3> QED BY <2>1, <3>1, FS_Subset
  <2>9. Exact(d) <= SumOver(bound, Upto(ts, m))
    <3>1. \A t \in Upto(ts, m) : bound[t] \in Nat
      BY <2>1, <2>8
    <3>2. \A t \in Term : f[t] \in Nat
      BY <2>1
    <3>3. \A t \in Term : f[t] > 0 => t \in Upto(ts, m) /\ f[t] <= bound[t]
      BY <2>1, <2>7
    <3>4. SumOver(f, Term) <= SumOver(bound, Upto(ts, m))
      BY <2>1, <2>8, <3>1, <3>2, <3>3, SumCompare
    <3> QED BY <2>1, <3>4
  <2>10. SumOver(bound, Upto(ts, m)) \in Nat
    <3>1. \A t \in Upto(ts, m) : bound[t] \in Nat
      BY <2>1, <2>8
    <3> QED BY <2>8, <3>1, SumParts
  <2>11. m \in beats
    <3>1. at[ts[m]] # docidExhausted
      <4>1. ts[m] \in Term
        BY <1>1, <2>6
      <4>2. at[ts[m]] \in Nat
        BY <4>1, CursorIs
      <4> QED BY <2>6, <4>2, Docs
    <3>2. SumOver(bound, Upto(ts, m)) > threshold
      BY <1>9, <2>1, <2>9, <2>10
    <3> QED BY <1>1, <2>6, <3>1, <3>2
  <2>12. p \in beats /\ p <= m
    BY <1>4, <2>11
  <2>13. at[ts[p]] <= at[ts[m]]
    <3>1. p \in 1 .. Len(ts)
      BY <1>5, <2>12
    <3>2. CASE p = m
      <4>1. at[ts[m]] \in Nat
        BY <1>1, <2>6, CursorIs
      <4> QED BY <3>2, <4>1
    <3>3. CASE p < m
      BY <1>1, <2>6, <3>1, <3>3
    <3> QED BY <2>6, <2>12, <3>1, <3>2, <3>3
  <2>14. at[ts[p]] \in Nat /\ at[ts[m]] \in Nat /\ d \in Nat
    <3>1. ts[p] \in Term /\ ts[m] \in Term
      BY <1>1, <1>5, <2>6, <2>12
    <3> QED BY <3>1, CursorIs, Docs
  <2>15. p # 0
    BY <1>5, <2>12
  <2> QED BY <2>6, <2>13, <2>14, <2>15
<1> QED BY <1>7, <1>8, <1>9

\* What every turn but the last has to keep.
LEMMA TurnKeeps ==
  ASSUME TravInv, ~ done, UNCHANGED <<query, failed, done>>,
         HeapHolds', ScoresExact', CursorsHold',
         \A t \in Term : at[t] <= at'[t],
         \A t \in Term : byBound = <<>> \/ (t \in Essential' => t \in Essential),
         \A i \in DOMAIN hits' :
           \/ \E j \in DOMAIN hits : hits'[i] = hits[j]
           \/ \A t \in Term : byBound = <<>> \/ t \in Essential => hits'[i].docid < at'[t],
         ~ failed => \A x \in Matching \ Returned' : Exact(x) > threshold' => Ahead(x)'
  PROVE  TravInv'
<1>1. ~ done' /\ failed' = failed /\ byBound' = byBound
  BY DEF query
<1>2. QueryHolds' /\ Matching' = Matching /\ \A x : Exact(x)' = Exact(x)
  BY SameQuery DEF TravInv
<1>3. Passed'
  <2> SUFFICES ASSUME NEW t \in Term, byBound = <<>> \/ t \in Essential', NEW i \in DOMAIN hits'
               PROVE  hits'[i].docid < at'[t]
    BY <1>1 DEF Passed
  <2>1. byBound = <<>> \/ t \in Essential
    OBVIOUS
  <2>2. CASE \E j \in DOMAIN hits : hits'[i] = hits[j]
    <3>1. PICK j \in DOMAIN hits : hits'[i] = hits[j]
      BY <2>2
    <3>2. hits[j].docid < at[t] /\ hits[j].docid \in Doc
      BY <2>1, HitsAre DEF Passed, TravInv
    <3>3. at[t] \in Nat /\ hits[j].docid \in Nat
      BY <3>2, CursorIs, Docs DEF TravInv
    <3>4. at'[t] \in Nat
      <4>1. at'[t] \in Doc \/ at'[t] = docidExhausted
        BY DEF CursorsHold, Doc, docidExhausted
      <4>2. Doc \in SUBSET Nat /\ docidExhausted \in Nat
        BY Docs
      <4> QED BY <4>1, <4>2
    <3>5. at[t] <= at'[t]
      OBVIOUS
    <3> QED BY <3>1, <3>2, <3>3, <3>4, <3>5
  <2>3. CASE \A u \in Term : byBound = <<>> \/ u \in Essential => hits'[i].docid < at'[u]
    BY <2>1, <2>3
  <2> QED BY <2>2, <2>3
<1>4. NoneLost'
  BY <1>1, <1>2 DEF NoneLost
<1>5. RankSafe'
  BY <1>1 DEF RankSafe
<1> QED BY <1>2, <1>3, <1>4, <1>5 DEF TravInv

\* The traversal gives up one posting list's documents before a docid, of which none could enter.
LEMMA MoveKeeps ==
  ASSUME TravInv, ~ done, UNCHANGED <<query, hits, failed, done>>,
         NEW u \in Term, NEW to \in Nat, at' = [at EXCEPT ![u] = Advance(u, to)], byBound = <<>>,
         ~ failed => \A x \in Matching \ Returned : Exact(x) > threshold /\ Ahead(x) => to <= x
  PROVE  TravInv'
<1>1. k' = k /\ done' = done /\ failed' = failed /\ impact' = impact /\ hits' = hits
  BY DEF query
<1>2. HeapHolds' /\ threshold' = threshold /\ Returned' = Returned
  BY <1>1 DEF HeapHolds, TravInv, threshold, Returned
<1>3. Matching' = Matching /\ \A x : Exact(x)' = Exact(x)
  BY SameQuery DEF TravInv
<1>4. ScoresExact'
  BY <1>1, <1>3 DEF ScoresExact, TravInv
<1>5. CursorsHold /\ QueryHolds
  BY DEF TravInv
<1>6. \A t \in Term : at[t] \in Nat
  BY <1>5, CursorIs
<1> DEFINE e == Advance(u, to)
<1>7. /\ e \in Docids(u) \cup {docidExhausted} /\ e \in Nat /\ e >= at[u]
      /\ \A x \in Docids(u) : x >= to /\ x >= at[u] => e <= x
  BY <1>5, AdvanceIs
<1>8. at' \in [Term -> Doc \cup {docidExhausted}] /\ \A t \in Term : at'[t] = IF t = u THEN e ELSE at[t]
  <2>1. e \in Doc \cup {docidExhausted}
    BY <1>7 DEF Docids
  <2> HIDE DEF e
  <2>2. at' = [at EXCEPT ![u] = e]
    BY DEF e
  <2> QED BY <1>5, <2>1, <2>2 DEF CursorsHold
<1> HIDE DEF e
<1>9. CursorsHold'
  <2>1. \A t : Docids(t)' = Docids(t)
    BY <1>1 DEF Docids
  <2> QED BY <1>5, <1>7, <1>8, <2>1 DEF CursorsHold
<1>10. \A t \in Term : at[t] <= at'[t]
  BY <1>6, <1>7, <1>8
<1>11. ASSUME ~ failed, NEW x \in Matching \ Returned, Exact(x) > threshold PROVE Ahead(x)'
  <2>1. Ahead(x)
    BY <1>11 DEF NoneLost, TravInv
  <2>2. to <= x /\ x \in Doc /\ x \in Nat
    <3>1. x \in Doc
      BY DEF Matching
    <3> QED BY <1>11, <2>1, <3>1, Docs
  <2> SUFFICES ASSUME NEW t \in Term, impact[t][x] > 0 PROVE at'[t] <= x
    BY <1>1 DEF Ahead
  <2>3. at[t] <= x /\ x \in Docids(t)
    BY <2>1, <2>2 DEF Ahead, Docids
  <2> QED BY <1>6, <1>7, <1>8, <2>2, <2>3
<1>12. ~ failed => \A x \in Matching \ Returned' : Exact(x) > threshold' => Ahead(x)'
  BY <1>2, <1>11
<1> QED BY <1>1, <1>2, <1>4, <1>9, <1>10, <1>12, TurnKeeps

\* What the blocks at the pivot's docid can give covers what the document there is still given.
LEMMA RefinedCovers ==
  ASSUME QueryHolds, CursorsHold, HeapHolds, NEW ts \in OrdersBy(at), Pivot(ts) # 0,
         NEW pd, pd = at[ts[Pivot(ts)]]
  PROVE  pd \in Doc /\ Refined(ts) \in Nat /\ Reach(pd) <= Refined(ts)
<1> DEFINE p == Pivot(ts)
           S == Upto(ts, p) \cup {t \in Open : at[t] = pd}
           f == Gives(pd)
           g == [t \in Term |-> BlockBound(t, pd)]
<1>1. /\ Len(ts) \in Nat /\ \A i \in 1 .. Len(ts) : ts[i] \in Open /\ ts[i] \in Term
      /\ \A t \in Open : \E i \in 1 .. Len(ts) : ts[i] = t
      /\ \A i, j \in 1 .. Len(ts) : i < j => at[ts[i]] <= at[ts[j]]
  BY OrderIs
<1>2. p \in 1 .. Len(ts) /\ pd \in Doc
  <2>1. p \in 0 .. Len(ts) /\ (p # 0 => at[ts[p]] \in Doc)
    BY PivotIs
  <2> QED BY <1>1, <2>1
<1>3. S \in SUBSET Term /\ IsFiniteSet(S)
  <2>1. \A i \in 1 .. p : ts[i] \in Term
    BY <1>1, <1>2
  <2>2. S \in SUBSET Term
    BY <2>1, OpenIs DEF Upto
  <2> HIDE DEF S
  <2> QED BY <2>2, TraverseAssumption, FS_Subset
<1>4. \A t \in Term : /\ f[t] \in Nat /\ f[t] <= g[t] /\ g[t] \in Nat
                      /\ f[t] = (IF at[t] <= pd THEN impact[t][pd] ELSE 0) /\ (f[t] > 0 => t \in Open)
  <2> SUFFICES ASSUME NEW t \in Term
               PROVE  /\ f[t] \in Nat /\ f[t] <= g[t] /\ g[t] \in Nat
                      /\ f[t] = (IF at[t] <= pd THEN impact[t][pd] ELSE 0) /\ (f[t] > 0 => t \in Open)
    OBVIOUS
  <2>1. g[t] = BlockBound(t, pd) /\ g[t] \in Nat
    BY <1>2, BlockBoundIs
  <2> HIDE DEF f, g
  <2> QED BY <1>2, <2>1, GivesIs DEF f
<1>5. Reach(pd) = SumOver(f, Term) /\ Refined(ts) = SumOver(g, S)
  BY DEF Reach, Refined
<1>6. ASSUME NEW t \in Term, f[t] > 0 PROVE t \in S
  <2>1. PICK j \in 1 .. Len(ts) : ts[j] = t
    BY <1>1, <1>4, <1>6
  <2>2. at[t] <= pd /\ at[t] \in Nat /\ pd \in Nat /\ t \in Open
    BY <1>2, <1>4, <1>6, CursorIs, Docs
  <2>3. CASE j <= p
    <3>1. j \in 1 .. p
      BY <1>1, <1>2, <2>3
    <3> QED BY <2>1, <3>1 DEF Upto
  <2>4. CASE ~ j <= p
    <3>1. p < j
      BY <1>1, <1>2, <2>4
    <3>2. pd <= at[t]
      BY <1>1, <1>2, <2>1, <3>1
    <3> QED BY <2>2, <3>2
  <2> QED BY <2>3, <2>4
<1> HIDE DEF f, g, S
<1>7. SumOver(g, S) \in Nat
  <2>1. \A t \in S : g[t] \in Nat
    BY <1>3, <1>4
  <2> QED BY <1>3, <2>1, SumParts
<1>8. SumOver(f, Term) <= SumOver(g, S)
  <2>1. \A t \in S : g[t] \in Nat
    BY <1>3, <1>4
  <2>2. \A t \in Term : f[t] > 0 => t \in S /\ f[t] <= g[t]
    BY <1>4, <1>6
  <2>3. \A t \in Term : f[t] \in Nat
    BY <1>4
  <2> QED BY <1>3, <2>1, <2>2, <2>3, SumCompare, TraverseAssumption
<1> QED BY <1>2, <1>5, <1>7, <1>8

\* The next block starts at a docid, or past the last.
LEMMA ShallowNextIs ==
  ASSUME QueryHolds, CursorsHold, NEW t \in Term
  PROVE  shallowNext(t) \in Nat
<1>1. CASE Inline(t) \/ at[t] = docidExhausted
  BY <1>1, Docs DEF shallowNext
<1>2. CASE ~ (Inline(t) \/ at[t] = docidExhausted)
  <2> DEFINE S == Block(t, at[t])
  <2>1. at[t] \in Docids(t)
    BY <1>2 DEF CursorsHold
  <2>2. S \in SUBSET Doc /\ at[t] \in S
    BY <2>1, ImpactIs DEF Block
  <2>3. S \in SUBSET Nat /\ \A x \in S : x <= docidExhausted
    <3>1. \A x \in Doc : x \in Nat /\ x < docidExhausted /\ docidExhausted \in Nat
      BY Docs
    <3> QED BY <2>2, <3>1
  <2>4. shallowNext(t) = Max(S) + 1
    BY <1>2 DEF shallowNext
  <2> HIDE DEF S
  <2>5. Max(S) \in S
    BY <2>2, <2>3, Docs, Greatest
  <2>6. Max(S) \in Nat
    BY <2>3, <2>5
  <2> HIDE DEF S
  <2> QED BY <2>4, <2>6
<1> QED BY <1>1, <1>2

\* Blocks that cannot beat the floor are passed without losing anything.
LEMMA RejectKeeps ==
  ASSUME TravInv, ~ done, byBound = <<>>, NEW ts \in OrdersBy(at), BMWReject(ts)
  PROVE  TravInv'
<1> DEFINE pd == at[ts[Pivot(ts)]]
           to == Smaller(shallowNext(ts[1]), pd + 1)
<1>1. Pivot(ts) # 0 /\ Refined(ts) <= threshold /\ at' = [at EXCEPT ![ts[1]] = Advance(ts[1], to)]
      /\ UNCHANGED <<query, hits, failed, done>>
  BY DEF BMWReject
<1>2. QueryHolds /\ CursorsHold /\ HeapHolds
  BY DEF TravInv
<1>3. pd \in Doc /\ pd \in Nat /\ Reach(pd) <= Refined(ts) /\ Refined(ts) \in Nat
  <2>1. pd \in Doc /\ Refined(ts) \in Nat /\ Reach(pd) <= Refined(ts)
    BY <1>1, <1>2, RefinedCovers
  <2> QED BY <2>1, Docs
<1>4. ts[1] \in Term
  <2>1. Pivot(ts) \in 0 .. Len(ts) /\ Len(ts) \in Nat
    BY <1>2, PivotIs, OrderIs
  <2>2. 1 \in 1 .. Len(ts)
    BY <1>1, <2>1
  <2> QED BY <2>2, OrderIs
<1>5. to \in Nat /\ to <= pd + 1
  <2>1. shallowNext(ts[1]) \in Nat
    BY <1>2, <1>4, ShallowNextIs
  <2>2. to = IF shallowNext(ts[1]) <= pd + 1 THEN shallowNext(ts[1]) ELSE pd + 1
    <3>1. pd + 1 \in Int /\ shallowNext(ts[1]) \in Int
      BY <1>3, <2>1
    <3> HIDE DEF pd
    <3> QED BY <3>1, SmallerIs
  <2> HIDE DEF pd, to
  <2> QED BY <1>3, <2>1, <2>2
<1>6. ASSUME NEW x \in Matching \ Returned, Exact(x) > threshold, Ahead(x) PROVE to <= x
  <2>1. x \in Doc /\ x \in Nat
    BY Docs DEF Matching
  <2>2. pd <= x
    BY <1>2, <1>6, <2>1, PivotIs
  <2>3. x # pd
    <3> SUFFICES ASSUME x = pd PROVE FALSE
      OBVIOUS
    <3>1. Reach(x) = Exact(x) /\ Exact(x) \in Nat /\ threshold \in Nat
      BY <1>2, <1>6, <2>1, ReachIs, ExactIs, FloorIs
    <3>2. Reach(x) <= Refined(ts)
      BY <1>3
    <3> QED BY <1>1, <1>3, <1>6, <3>1, <3>2
  <2> HIDE DEF pd, to
  <2> QED BY <1>3, <1>5, <2>1, <2>2, <2>3
<1> HIDE DEF pd, to
<1> QED BY <1>1, <1>4, <1>5, <1>6, MoveKeeps

\* Moving the leading cursor up to the pivot passes no document that could beat the floor.
LEMMA AdvanceKeeps ==
  ASSUME TravInv, ~ done, byBound = <<>>, NEW ts \in OrdersBy(at), BMWAdvance(ts)
  PROVE  TravInv'
<1> DEFINE pd == at[ts[Pivot(ts)]]
<1>1. Pivot(ts) # 0 /\ at' = [at EXCEPT ![ts[1]] = Advance(ts[1], pd)]
      /\ UNCHANGED <<query, hits, failed, done>>
  BY DEF BMWAdvance
<1>2. QueryHolds /\ CursorsHold /\ HeapHolds
  BY DEF TravInv
<1>3. pd \in Nat /\ ts[1] \in Term
  <2>1. Pivot(ts) \in 0 .. Len(ts) /\ Len(ts) \in Nat /\ (Pivot(ts) # 0 => at[ts[Pivot(ts)]] \in Doc)
    BY <1>2, PivotIs, OrderIs
  <2>2. 1 \in 1 .. Len(ts) /\ pd \in Doc
    BY <1>1, <2>1
  <2> QED BY <2>2, OrderIs, Docs
<1>4. ASSUME NEW x \in Matching \ Returned, Exact(x) > threshold, Ahead(x) PROVE pd <= x
  <2>1. x \in Doc
    BY DEF Matching
  <2> QED BY <1>2, <1>4, <2>1, PivotIs
<1> HIDE DEF pd
<1> QED BY <1>1, <1>3, <1>4, MoveKeeps

\* The document at the pivot is scored in full.
LEMMA ScoreKeeps ==
  ASSUME TravInv, ~ done, byBound = <<>>, NEW ts \in OrdersBy(at), BMWScore(ts)
  PROVE  TravInv'
<1> DEFINE pd == at[ts[1]]
           s == ScoreAt(pd, Open)
<1>1. /\ Pivot(ts) # 0 /\ pd = at[ts[Pivot(ts)]]
      /\ at' = Consume(pd, Open) /\ Scored(pd, s) /\ UNCHANGED <<query, failed, done>>
  BY DEF BMWScore
<1>2. QueryHolds /\ CursorsHold /\ HeapHolds /\ ScoresExact /\ NoneLost
  BY DEF TravInv
<1>3. /\ Len(ts) \in Nat /\ \A i \in 1 .. Len(ts) : ts[i] \in Open /\ ts[i] \in Term
      /\ \A t \in Open : \E i \in 1 .. Len(ts) : ts[i] = t
      /\ \A i, j \in 1 .. Len(ts) : i < j => at[ts[i]] <= at[ts[j]]
  BY OrderIs
<1>4. pd \in Doc /\ pd \in Nat /\ 1 \in 1 .. Len(ts)
  <2>1. Pivot(ts) \in 0 .. Len(ts) /\ (Pivot(ts) # 0 => at[ts[Pivot(ts)]] \in Doc)
    BY <1>2, PivotIs
  <2>2. pd \in Doc
    BY <1>1, <2>1
  <2>3. 1 \in 1 .. Len(ts)
    BY <1>1, <1>3, <2>1
  <2> QED BY <2>2, <2>3, Docs
<1>5. ASSUME NEW t \in Term PROVE at[t] \in Nat /\ pd <= at[t] /\ (at[t] # docidExhausted => t \in Open)
  <2>1. at[t] \in Nat /\ (at[t] # docidExhausted => t \in Open)
    BY <1>2, CursorIs
  <2>2. CASE t \in Open
    <3>1. PICK i \in 1 .. Len(ts) : ts[i] = t
      BY <1>3, <2>2
    <3>2. CASE i = 1
      BY <1>4, <2>1, <3>1, <3>2
    <3>3. CASE i # 1
      <4>1. 1 < i
        BY <1>3, <3>3
      <4> QED BY <1>3, <1>4, <2>1, <3>1, <4>1
    <3> QED BY <3>2, <3>3
  <2>3. CASE t \notin Open
    <3>1. at[t] = docidExhausted
      BY <2>1, <2>3
    <3>2. pd < docidExhausted /\ docidExhausted \in Nat
      BY <1>4, Docs
    <3> HIDE DEF pd
    <3> QED BY <1>4, <2>1, <2>3, <3>1, <3>2
  <2> QED BY <2>1, <2>2, <2>3
<1> HIDE DEF pd
<1>6. s = Reach(pd) /\ s \in Nat
  <2> DEFINE f == [t \in Term |-> IF at[t] = pd THEN impact[t][pd] ELSE 0]
             g == Gives(pd)
  <2>1. \A t \in Term : g[t] \in Nat /\ g[t] = (IF at[t] <= pd THEN impact[t][pd] ELSE 0)
                        /\ (g[t] > 0 => t \in Open)
    BY <1>2, <1>4, GivesIs
  <2>2. \A t \in Term : f[t] = g[t]
    <3> SUFFICES ASSUME NEW t \in Term PROVE f[t] = g[t]
      OBVIOUS
    <3>1. f[t] = IF at[t] = pd THEN impact[t][pd] ELSE 0
      OBVIOUS
    <3>2. at[t] = pd <=> at[t] <= pd
      BY <1>4, <1>5
    <3> QED BY <2>1, <3>1, <3>2
  <2>3. s = SumOver(f, Open) /\ Reach(pd) = SumOver(g, Term)
    BY DEF ScoreAt, Reach
  <2> HIDE DEF f, g, s
  <2>4. SumOver(f, Open) = SumOver(g, Term)
    <3>1. \A t \in Open : f[t] \in Nat /\ (f[t] > 0 => t \in Term /\ f[t] = g[t])
      BY <2>1, <2>2, OpenIs
    <3>2. \A t \in Term : g[t] \in Nat /\ (g[t] > 0 => t \in Open /\ g[t] = f[t])
      BY <2>1, <2>2
    <3>3. \A t \in Open : f[t] \in Nat
      BY <3>1
    <3>4. \A t \in Term : g[t] \in Nat
      BY <3>2
    <3>5. \A t \in Open : f[t] > 0 => t \in Term /\ f[t] = g[t]
      BY <3>1
    <3>6. \A t \in Term : g[t] > 0 => t \in Open /\ f[t] = g[t]
      BY <3>2
    <3> QED BY <3>3, <3>4, <3>5, <3>6, OpenIs, TraverseAssumption, SumSame
  <2> QED BY <1>2, <1>4, <2>3, <2>4, ReachIs
<1> HIDE DEF s
<1>7. \A i \in DOMAIN hits : hits[i].docid # pd
  <2> SUFFICES ASSUME NEW i \in DOMAIN hits, hits[i].docid = pd PROVE FALSE
    OBVIOUS
  <2>1. ts[1] \in Term
    BY <1>3, <1>4
  <2>2. hits[i].docid < at[ts[1]]
    BY <2>1 DEF Passed, TravInv
  <2>3. at[ts[1]] = pd
    BY DEF pd
  <2> QED BY <1>4, <2>2, <2>3
<1>8. /\ HeapHolds' /\ ScoresExact' /\ threshold <= threshold'
      /\ \A i \in DOMAIN hits' : \/ hits'[i].docid = pd
                                \/ \E j \in DOMAIN hits : hits'[i] = hits[j]
      /\ ~ failed => \A x \in Matching \ Returned' :
           Exact(x) > threshold' => /\ x \in Matching \ Returned /\ Exact(x) > threshold
                                    /\ x # pd /\ Ahead(x)
  <2>1. (s > threshold => s = Reach(pd)) /\ (Reach(pd) > threshold => s > threshold)
    BY <1>6
  <2> QED BY <1>1, <1>2, <1>4, <1>6, <1>7, <2>1, ScoredKeeps
<1>9. ASSUME NEW t \in Term
      PROVE  /\ at'[t] \in Docids(t) \cup {docidExhausted} /\ at[t] <= at'[t] /\ pd < at'[t]
             /\ \A x \in Docids(t) : x >= at[t] /\ x # pd => at'[t] <= x
  <2>1. at'[t] = IF t \in Open /\ at[t] = pd THEN NextPosting(t) ELSE at[t]
    BY <1>1 DEF Consume
  <2>2. at[t] \in Nat /\ pd <= at[t] /\ pd \in Nat
    BY <1>4, <1>5
  <2>3. CASE t \in Open /\ at[t] = pd
    <3>1. at'[t] = First(t, pd + 1)
      BY <2>1, <2>3 DEF NextPosting
    <3>2. pd + 1 \in Nat
      BY <2>2
    <3>3. /\ at'[t] \in Docids(t) \cup {docidExhausted} /\ at'[t] \in Nat
          /\ at'[t] = docidExhausted \/ at'[t] >= pd + 1
          /\ \A x \in Docids(t) : x >= pd + 1 => at'[t] <= x
      BY <3>1, <3>2, FirstIs
    <3>4. pd < docidExhausted /\ docidExhausted \in Nat
      BY <1>4, Docs
    <3>5. \A x \in Docids(t) : x \in Nat
      BY Docs DEF Docids
    <3>6. pd < at'[t]
      BY <2>2, <3>3, <3>4
    <3> QED BY <2>2, <2>3, <3>3, <3>5, <3>6
  <2>4. CASE ~ (t \in Open /\ at[t] = pd)
    <3>1. at'[t] = at[t]
      BY <2>1, <2>4
    <3>2. at[t] # pd
      <4> SUFFICES ASSUME at[t] = pd PROVE FALSE
        OBVIOUS
      <4>1. pd # docidExhausted
        BY <1>4, Docs
      <4> QED BY <1>5, <2>4, <4>1
    <3>3. at[t] \in Docids(t) \cup {docidExhausted}
      BY <1>2 DEF CursorsHold
    <3>4. \A x \in Docids(t) : x \in Nat
      BY Docs DEF Docids
    <3> QED BY <2>2, <3>1, <3>2, <3>3, <3>4
  <2> QED BY <2>3, <2>4
<1>10. CursorsHold'
  <2>1. impact' = impact
    BY <1>1 DEF query
  <2>2. \A t : Docids(t)' = Docids(t)
    BY <2>1 DEF Docids
  <2>3. DOMAIN at' = Term /\ at' = [t \in Term |-> at'[t]]
    BY <1>1 DEF Consume
  <2>4. \A t \in Term : at'[t] \in Doc \cup {docidExhausted}
    BY <1>9 DEF Docids
  <2>5. at' \in [Term -> Doc \cup {docidExhausted}]
    BY <2>3, <2>4
  <2> QED BY <1>9, <2>2, <2>5 DEF CursorsHold
<1>11. ASSUME ~ failed, NEW x \in Matching \ Returned', Exact(x) > threshold' PROVE Ahead(x)'
  <2>1. x # pd /\ Ahead(x) /\ x \in Doc /\ x \in Nat /\ impact' = impact
    <3>1. x \in Doc
      BY DEF Matching
    <3> QED BY <1>1, <1>8, <1>11, <3>1, Docs DEF query
  <2> SUFFICES ASSUME NEW t \in Term, impact[t][x] > 0 PROVE at'[t] <= x
    BY <2>1 DEF Ahead
  <2>2. at[t] <= x /\ x \in Docids(t)
    BY <2>1 DEF Ahead, Docids
  <2> QED BY <1>5, <1>9, <2>1, <2>2
<1>12. \A i \in DOMAIN hits' : \/ \E j \in DOMAIN hits : hits'[i] = hits[j]
                              \/ \A t \in Term : byBound = <<>> \/ t \in Essential => hits'[i].docid < at'[t]
  BY <1>8, <1>9
<1>13. \A t \in Term : at[t] <= at'[t]
  BY <1>9
<1>14. \A t \in Term : byBound = <<>> \/ (t \in Essential' => t \in Essential)
  OBVIOUS
<1> QED BY <1>1, <1>8, <1>10, <1>11, <1>12, <1>13, <1>14, TurnKeeps

-----------------------------------------------------------------------------
(* MaxScore: the partition.                                                *)

\* The terms after the first i, by bound.
Rest(i) == {byBound[j] : j \in i + 1 .. Len(byBound)}

\* MaxScore's terms are the open ones, each once.
LEMMA TermsAre ==
  ASSUME QueryHolds, byBound # <<>>
  PROVE  /\ Len(byBound) \in Nat /\ DOMAIN byBound = 1 .. Len(byBound)
         /\ \A i \in 1 .. Len(byBound) : byBound[i] \in Open /\ byBound[i] \in Term
         /\ \A i, j \in 1 .. Len(byBound) : byBound[i] = byBound[j] => i = j
         /\ \A t \in Open : \E i \in 1 .. Len(byBound) : byBound[i] = t
<1>1. byBound \in OrdersBy(bound)
  BY DEF QueryHolds
<1> QED BY <1>1, OrderIs

\* The summed bounds, term by term.
LEMMA PrefixIs ==
  ASSUME QueryHolds, byBound # <<>>, NEW i \in 0 .. Len(byBound)
  PROVE  /\ Prefix(i) \in Nat /\ (i = 0 => Prefix(i) = 0)
         /\ i > 0 => Prefix(i) = Prefix(i - 1) + bound[byBound[i]]
         /\ \A m \in 0 .. i : Prefix(m) <= Prefix(i)
<1> DEFINE S(m) == {byBound[j] : j \in 1 .. m}
<1>1. /\ Len(byBound) \in Nat
      /\ \A j \in 1 .. Len(byBound) : byBound[j] \in Term
      /\ \A j, m \in 1 .. Len(byBound) : byBound[j] = byBound[m] => j = m
  BY TermsAre
<1>2. \A t \in Term : bound[t] \in Nat
  BY BoundIs
<1>3. ASSUME NEW m \in 0 .. i PROVE S(m) \in SUBSET Term /\ IsFiniteSet(S(m)) /\ S(m) \in SUBSET S(i)
  <2>1. S(m) \in SUBSET Term
    BY <1>1
  <2>2. S(m) \in SUBSET S(i)
    <3>1. \A j \in 1 .. m : j \in 1 .. i
      OBVIOUS
    <3> QED BY <3>1
  <2> HIDE DEF S
  <2> QED BY <2>1, <2>2, TraverseAssumption, FS_Subset
<1>4. \A m \in 0 .. i : \A t \in S(m) : bound[t] \in Nat
  <2> HIDE DEF S
  <2> QED BY <1>2, <1>3
<1>5. \A m : Prefix(m) = SumOver(bound, S(m))
  BY DEF Prefix
<1>6. S(0) = {}
  OBVIOUS
<1>7. i \in 0 .. i /\ 0 \in 0 .. i
  BY <1>1
<1>8. ASSUME i > 0 PROVE Prefix(i) = Prefix(i - 1) + bound[byBound[i]]
  <2>1. i \in 1 .. Len(byBound) /\ i - 1 \in 0 .. i
    BY <1>1, <1>8
  <2>2. S(i) = S(i - 1) \cup {byBound[i]}
    <3>1. 1 .. i = (1 .. i - 1) \cup {i}
      BY <2>1
    <3> QED BY <3>1
  <2>3. byBound[i] \notin S(i - 1)
    BY <1>1, <2>1
  <2>4. bound[byBound[i]] \in Nat
    BY <1>1, <1>2, <2>1
  <2> HIDE DEF S
  <2>5. SumOver(bound, S(i - 1) \cup {byBound[i]}) = bound[byBound[i]] + SumOver(bound, S(i - 1))
    BY <1>3, <1>4, <2>1, <2>3, <2>4, SumMore
  <2>6. SumOver(bound, S(i - 1)) \in Nat
    BY <1>3, <1>4, <2>1, SumParts
  <2>7. Prefix(i) = SumOver(bound, S(i - 1) \cup {byBound[i]}) /\ Prefix(i - 1) = SumOver(bound, S(i - 1))
    BY <1>5, <2>2
  <2> QED BY <2>4, <2>5, <2>6, <2>7
<1>9. i = 0 => Prefix(i) = 0
  <2> HIDE DEF S
  <2>1. SumOver(bound, S(0)) = 0
    BY <1>3, <1>4, <1>6, <1>7, SumParts
  <2> QED BY <1>5, <2>1
<1> HIDE DEF S
<1>10. Prefix(i) \in Nat
  <2>1. SumOver(bound, S(i)) \in Nat
    BY <1>3, <1>4, <1>7, SumParts
  <2> QED BY <1>5, <2>1
<1>11. ASSUME NEW m \in 0 .. i PROVE Prefix(m) <= Prefix(i)
  <2>1. \A t \in S(m) : bound[t] \in Nat
    BY <1>4
  <2>2. \A t \in S(i) : bound[t] \in Nat
    BY <1>4, <1>7
  <2>3. \A t \in S(m) : bound[t] > 0 => t \in S(i) /\ bound[t] <= bound[t]
    BY <1>3, <2>1
  <2>4. IsFiniteSet(S(m)) /\ IsFiniteSet(S(i))
    BY <1>3, <1>7
  <2>5. SumOver(bound, S(m)) <= SumOver(bound, S(i))
    BY <2>1, <2>2, <2>3, <2>4, SumCompare
  <2> QED BY <1>5, <2>5
<1> QED BY <1>8, <1>9, <1>10, <1>11

\* The terms that cannot beat a floor between them are the first so many.
LEMMA PartitionIs ==
  ASSUME QueryHolds, byBound # <<>>, NEW floor \in Nat,
         NEW p, p = Cardinality({i \in DOMAIN byBound : Prefix(i) <= floor})
  PROVE  /\ p \in 0 .. Len(byBound) /\ Prefix(p) <= floor
         /\ \A i \in 1 .. Len(byBound) : Prefix(i) <= floor => i <= p
<1> DEFINE S == {i \in DOMAIN byBound : Prefix(i) <= floor}
<1>1. Len(byBound) \in Nat /\ DOMAIN byBound = 1 .. Len(byBound)
  BY TermsAre
<1>2. CASE S = {}
  <2>1. p = 0
    BY <1>2, FS_EmptySet
  <2>2. Prefix(0) = 0
    <3>1. 0 \in 0 .. Len(byBound)
      BY <1>1
    <3> QED BY <3>1, PrefixIs
  <2> QED BY <1>1, <1>2, <2>1, <2>2
<1>3. CASE S # {}
  <2>1. S \in SUBSET Nat /\ \A x \in S : x <= Len(byBound)
    BY <1>1
  <2>2. PICK m \in S : \A x \in S : x <= m
    <3> HIDE DEF S
    <3> QED BY <1>1, <1>3, <2>1, Greatest
  <2>3. m \in 1 .. Len(byBound) /\ m \in Nat /\ Prefix(m) <= floor
    BY <1>1
  <2>4. S = 1 .. m
    <3>1. ASSUME NEW x \in 1 .. m PROVE x \in S
      <4>1. m \in 0 .. Len(byBound) /\ x \in 0 .. m /\ x \in 0 .. Len(byBound) /\ x \in DOMAIN byBound
        BY <1>1, <2>3
      <4>2. Prefix(x) <= Prefix(m) /\ Prefix(m) \in Nat /\ Prefix(x) \in Nat
        BY <4>1, PrefixIs
      <4> QED BY <2>3, <4>1, <4>2
    <3>2. \A x \in S : x \in 1 .. m
      BY <1>1, <2>2, <2>3
    <3> HIDE DEF S
    <3> QED BY <3>1, <3>2
  <2>5. p = m
    <3>1. p = Cardinality(S)
      OBVIOUS
    <3> HIDE DEF S
    <3> QED BY <2>3, <2>4, <3>1, IntervalCount
  <2>6. p \in 0 .. Len(byBound)
    BY <1>1, <2>3, <2>5
  <2>7. ASSUME NEW i \in 1 .. Len(byBound), Prefix(i) <= floor PROVE i <= p
    <3>1. i \in S
      BY <1>1, <2>7
    <3> QED BY <2>2, <2>5, <3>1
  <2> QED BY <2>3, <2>5, <2>6, <2>7
<1> QED BY <1>2, <1>3

\* The essential terms, and the candidate.
LEMMA CandidateIs ==
  ASSUME QueryHolds, CursorsHold, HeapHolds, byBound # <<>>, NEW d, d = Candidate
  PROVE  /\ d \in Nat /\ d <= docidExhausted /\ (d # docidExhausted => d \in Doc)
         /\ Partition \in 0 .. Len(byBound) /\ Prefix(Partition) <= threshold
         /\ Essential = Rest(Partition) /\ Essential \in SUBSET Term
         /\ \A t \in Essential : d <= at[t]
         /\ d # docidExhausted => \E t \in Essential : at[t] = d
<1>1. threshold \in Nat
  BY FloorIs
<1>2. Partition \in 0 .. Len(byBound) /\ Prefix(Partition) <= threshold
  BY <1>1, PartitionIs DEF Partition
<1>3. Len(byBound) \in Nat /\ \A i \in 1 .. Len(byBound) : byBound[i] \in Term
  BY TermsAre
<1>4. Essential = Rest(Partition)
  BY DEF Essential, Rest
<1>5. Essential \in SUBSET Term
  <2>1. \A i \in Partition + 1 .. Len(byBound) : i \in 1 .. Len(byBound)
    BY <1>2, <1>3
  <2> QED BY <1>3, <2>1 DEF Essential
<1> DEFINE S == {at[t] : t \in Essential} \cup {docidExhausted}
<1>6. \A t \in Essential : at[t] \in Nat /\ (at[t] = docidExhausted \/ at[t] \in Doc)
  BY <1>5, CursorIs
<1>7. S \in SUBSET Nat /\ S # {} /\ docidExhausted \in S /\ docidExhausted \in Nat
  BY <1>6, Docs
<1>8. d = Min(S)
  BY DEF Candidate
<1>9. d \in S /\ \A x \in S : d <= x
  <2> HIDE DEF S
  <2> QED BY <1>7, <1>8, Least
<1>10. d # docidExhausted => \E t \in Essential : at[t] = d
  BY <1>9
<1>11. \A t \in Essential : d <= at[t]
  BY <1>9
<1>12. d \in Nat /\ d <= docidExhausted /\ (d # docidExhausted => d \in Doc)
  BY <1>6, <1>7, <1>9, <1>10
<1> QED BY <1>2, <1>4, <1>5, <1>10, <1>11, <1>12

\* A document behind the candidate that has all its postings ahead cannot beat the floor: none of
\* its terms is essential.
LEMMA Behind ==
  ASSUME QueryHolds, CursorsHold, HeapHolds, byBound # <<>>, NEW x \in Doc, Ahead(x), x < Candidate
  PROVE  Exact(x) <= threshold
<1> DEFINE f == [t \in Term |-> impact[t][x]]
           S == {byBound[j] : j \in 1 .. Partition}
<1>1. /\ \A t \in Term : f[t] \in Nat /\ f[t] = impact[t][x] /\ f[t] <= bound[t] /\ bound[t] \in Nat
      /\ Exact(x) = SumOver(f, Term) /\ Exact(x) \in Nat /\ threshold \in Nat /\ IsFiniteSet(Term)
  BY ExactIs, BoundIs, FloorIs, TraverseAssumption
<1>2. /\ Len(byBound) \in Nat /\ Partition \in 0 .. Len(byBound) /\ Prefix(Partition) <= threshold
      /\ \A t \in Essential : Candidate <= at[t]
      /\ Candidate \in Nat
  BY CandidateIs, TermsAre
<1>3. ASSUME NEW t \in Term, f[t] > 0 PROVE t \in S
  <2>1. t \in Open /\ at[t] <= x /\ at[t] \in Nat /\ x \in Nat
    BY <1>1, <1>3, CursorIs, Docs DEF Ahead, Open, Docids
  <2>2. t \notin Essential
    <3> SUFFICES ASSUME t \in Essential PROVE FALSE
      OBVIOUS
    <3>1. Candidate <= at[t]
      BY <1>2
    <3> QED BY <1>2, <2>1, <3>1
  <2>3. PICK i \in 1 .. Len(byBound) : byBound[i] = t
    BY <2>1, TermsAre
  <2>4. i <= Partition
    <3> SUFFICES ASSUME ~ i <= Partition PROVE FALSE
      OBVIOUS
    <3>1. i \in Partition + 1 .. Len(byBound)
      BY <1>2
    <3> QED BY <2>2, <2>3, <3>1 DEF Essential
  <2>5. i \in 1 .. Partition
    BY <1>2, <2>4
  <2> QED BY <2>3, <2>5
<1>4. S \in SUBSET Term /\ IsFiniteSet(S)
  <2>1. \A i \in 1 .. Partition : i \in 1 .. Len(byBound)
    BY <1>2
  <2>2. \A i \in 1 .. Len(byBound) : byBound[i] \in Term
    BY TermsAre
  <2>3. S \in SUBSET Term
    BY <2>1, <2>2
  <2> HIDE DEF S
  <2> QED BY <1>1, <2>3, FS_Subset
<1>5. Prefix(Partition) = SumOver(bound, S) /\ Prefix(Partition) \in Nat
  BY <1>2, PrefixIs DEF Prefix
<1> HIDE DEF S, f
<1>6. SumOver(f, Term) <= SumOver(bound, S)
  <2>1. \A t \in S : bound[t] \in Nat
    BY <1>1, <1>4
  <2>2. \A t \in Term : f[t] \in Nat
    BY <1>1
  <2>3. \A t \in Term : f[t] > 0 => t \in S /\ f[t] <= bound[t]
    BY <1>1, <1>3
  <2> QED BY <1>1, <1>4, <2>1, <2>2, <2>3, SumCompare
<1> QED BY <1>1, <1>2, <1>5, <1>6

\* A higher floor makes no other term essential.
LEMMA EssentialFalls ==
  ASSUME QueryHolds, UNCHANGED query, byBound # <<>>, threshold \in Nat, threshold' \in Nat,
         threshold <= threshold', NEW t \in Essential'
  PROVE  t \in Essential
<1>1. byBound' = byBound /\ bound' = bound
  BY DEF query
<1>2. \A i : Prefix(i)' = Prefix(i)
  BY <1>1 DEF Prefix
<1> DEFINE S(floor) == {i \in DOMAIN byBound : Prefix(i) <= floor}
<1>3. Partition = Cardinality(S(threshold))
  BY DEF Partition
<1>4. Partition' = Cardinality(S(threshold'))
  BY <1>1, <1>2 DEF Partition
<1>5. Len(byBound) \in Nat
  BY TermsAre
<1>6. Partition \in 0 .. Len(byBound) /\ Prefix(Partition) <= threshold
  BY <1>3, PartitionIs
<1>7. /\ Partition' \in 0 .. Len(byBound)
      /\ \A i \in 1 .. Len(byBound) : Prefix(i) <= threshold' => i <= Partition'
  BY <1>4, PartitionIs
<1>8. Partition <= Partition'
  <2>1. CASE Partition = 0
    BY <1>5, <1>7, <2>1
  <2>2. CASE Partition # 0
    <3>1. Partition \in 1 .. Len(byBound) /\ Prefix(Partition) \in Nat
      BY <1>5, <1>6, <2>2, PrefixIs
    <3>2. Prefix(Partition) <= threshold'
      BY <1>6, <3>1
    <3> QED BY <1>7, <3>1, <3>2
  <2> QED BY <2>1, <2>2
<1>9. PICK i \in Partition' + 1 .. Len(byBound) : t = byBound[i]
  BY <1>1 DEF Essential
<1>10. i \in Partition + 1 .. Len(byBound)
  <2>1. \A n, p, q, j : /\ n \in Nat /\ p \in 0 .. n /\ q \in 0 .. n /\ p <= q /\ j \in q + 1 .. n
                       => j \in p + 1 .. n
    OBVIOUS
  <2> QED BY <1>5, <1>6, <1>7, <1>8, <2>1
<1> QED BY <1>9, <1>10 DEF Essential

-----------------------------------------------------------------------------
(* MaxScore: a turn.                                                       *)

\* The first m terms probed, the last of them first.
Probed(d, s, m) == FoldLeft(LAMBDA p, i : Probe(d, p, i), s, Reverse([i \in 1 .. m |-> i]))

\* The table from which FoldLeft reads how far the probes are.
ProbeTable(g, d, s, o, D) ==
  [t \in SUBSET D |-> IF t = {} THEN s ELSE Probe(d, g[t \ {Max(t)}], o[Max(t)])]

\* There is one for every number of probes.
LEMMA ProbeTableExists ==
  ASSUME NEW d, NEW s, NEW o, NEW n \in Nat
  PROVE  \E g : g = ProbeTable(g, d, s, o, 1 .. n)
<1> DEFINE S == {m \in Nat : \E g : g = ProbeTable(g, d, s, o, 1 .. m)}
<1>1. 0 \in S
  <2>1. SUBSET (1 .. 0) = {{}}
    OBVIOUS
  <2> DEFINE g == [t \in SUBSET (1 .. 0) |-> s]
  <2>2. g = ProbeTable(g, d, s, o, 1 .. 0)
    BY <2>1 DEF ProbeTable
  <2> QED BY <2>2
<1>2. ASSUME NEW m \in Nat, m \in S PROVE m + 1 \in S
  <2>1. PICK g : g = ProbeTable(g, d, s, o, 1 .. m)
    BY <1>2
  <2> DEFINE j == m + 1
             e == [t \in SUBSET (1 .. j) |-> IF j \in t THEN Probe(d, g[t \ {j}], o[j]) ELSE g[t]]
  <2>2. ASSUME NEW t \in SUBSET (1 .. j)
        PROVE  e[t] = IF t = {} THEN s ELSE Probe(d, e[t \ {Max(t)}], o[Max(t)])
    <3>1. CASE j \in t
      <4>1. Max(t) = j
        BY <3>1, MaxIs
      <4>2. t \ {j} \in SUBSET (1 .. j) /\ j \notin t \ {j} /\ t # {}
        BY <3>1
      <4>3. e[t \ {j}] = g[t \ {j}]
        BY <4>2
      <4> QED BY <3>1, <4>1, <4>2, <4>3
    <3>2. CASE j \notin t
      <4>1. t \in SUBSET (1 .. m) /\ e[t] = g[t]
        BY <3>2
      <4>2. t \ {Max(t)} \in SUBSET (1 .. j) /\ j \notin t \ {Max(t)}
        BY <3>2
      <4>3. e[t \ {Max(t)}] = g[t \ {Max(t)}]
        BY <4>2
      <4>4. g[t] = IF t = {} THEN s ELSE Probe(d, g[t \ {Max(t)}], o[Max(t)])
        BY <2>1, <4>1 DEF ProbeTable
      <4> QED BY <4>1, <4>3, <4>4
    <3> QED BY <3>1, <3>2
  <2>3. e = ProbeTable(e, d, s, o, 1 .. j)
    <3>1. e = [t \in SUBSET (1 .. j) |-> e[t]]
      OBVIOUS
    <3> HIDE DEF e
    <3> QED BY <2>2, <3>1 DEF ProbeTable
  <2> QED BY <2>3
<1> HIDE DEF S
<1>3. n \in S
  BY <1>1, <1>2, NatRise
<1> QED BY <1>3 DEF S

\* f is how far the probes are after each.
Probes(f, d, s, n) ==
  /\ f[0] = s /\ Probed(d, s, n) = f[n]
  /\ \A j \in 1 .. n : f[j] = Probe(d, f[j - 1], n - j + 1)

\* The terms are probed one by one.
LEMMA ProbeSteps ==
  ASSUME NEW d, NEW s, NEW n \in Nat
  PROVE  \E f : Probes(f, d, s, n)
<1> DEFINE o == Reverse([i \in 1 .. n |-> i])
           it == CHOOSE g : g = [t \in SUBSET (DOMAIN o) |->
                   IF t = {} THEN s ELSE Probe(d, g[t \ {Max(t)}], o[Max(t)])]
           f == [j \in 0 .. n |-> it[1 .. j]]
<1>1. Probed(d, s, n) = it[DOMAIN o]
  BY Zenon DEF Probed, FoldLeft, MapThenFoldSet
<1>2. DOMAIN o = 1 .. n /\ \A j \in 1 .. n : o[j] = n - j + 1
  <2>1. Len([i \in 1 .. n |-> i]) = n
    OBVIOUS
  <2>2. o = [i \in 1 .. n |-> [x \in 1 .. n |-> x][(n - i) + 1]]
    BY <2>1 DEF Reverse
  <2>3. \A j \in 1 .. n : (n - j) + 1 \in 1 .. n
    OBVIOUS
  <2> HIDE DEF o
  <2> QED BY <2>2, <2>3
<1> HIDE DEF o
<1>3. it = ProbeTable(it, d, s, o, 1 .. n)
  <2>1. \E g : g = ProbeTable(g, d, s, o, 1 .. n)
    BY ProbeTableExists
  <2>2. it = CHOOSE g : g = ProbeTable(g, d, s, o, DOMAIN o)
    BY Zenon DEF ProbeTable
  <2>3. it = CHOOSE g : g = ProbeTable(g, d, s, o, 1 .. n)
    BY <1>2, <2>2
  <2> HIDE DEF it
  <2> QED BY <2>1, <2>3
<1> HIDE DEF it
<1>4. it[{}] = s
  BY <1>3 DEF ProbeTable
<1>5. ASSUME NEW j \in 1 .. n PROVE it[1 .. j] = Probe(d, it[1 .. j - 1], o[j])
  <2>1. Max(1 .. j) = j
    <3>1. 1 .. j \in SUBSET Int /\ j \in 1 .. j /\ \A x \in 1 .. j : x <= j
      OBVIOUS
    <3> QED BY <3>1, MaxIs
  <2>2. 1 .. j \in SUBSET (1 .. n) /\ 1 .. j # {} /\ (1 .. j) \ {j} = 1 .. j - 1
    <3>1. \A x : x \in 1 .. j => x \in 1 .. n
      OBVIOUS
    <3>2. j \in 1 .. j /\ \A x : x \in 1 .. j /\ x # j <=> x \in 1 .. j - 1
      OBVIOUS
    <3> QED BY <3>1, <3>2
  <2> QED BY <1>3, <2>1, <2>2 DEF ProbeTable
<1>6. f[0] = s /\ f[n] = it[1 .. n]
  <2>1. 1 .. 0 = {}
    OBVIOUS
  <2> QED BY <1>4, <2>1
<1>7. ASSUME NEW j \in 1 .. n PROVE f[j] = Probe(d, f[j - 1], n - j + 1)
  BY <1>2, <1>5
<1>8. Probed(d, s, n) = f[n]
  BY <1>1, <1>2, <1>6
<1> HIDE DEF f
<1> QED BY <1>6, <1>7, <1>8 DEF Probes

\* What the terms after the first i are still giving d.
Given(d, i) == SumOver(Gives(d), Rest(i))

\* One term more, and what it gives; all of them give Reach, and i terms less give it but for
\* their bounds at most.
LEMMA GivenIs ==
  ASSUME QueryHolds, CursorsHold, byBound # <<>>, NEW d \in Doc, NEW i \in 0 .. Len(byBound)
  PROVE  /\ Given(d, i) \in Nat
         /\ i > 0 => Given(d, i - 1) = Given(d, i) + Gives(d)[byBound[i]]
         /\ Given(d, 0) = Reach(d)
<1> DEFINE f == Gives(d)
<1>1. /\ Len(byBound) \in Nat
      /\ \A j \in 1 .. Len(byBound) : byBound[j] \in Term
      /\ \A j, m \in 1 .. Len(byBound) : byBound[j] = byBound[m] => j = m
      /\ \A t \in Open : \E j \in 1 .. Len(byBound) : byBound[j] = t
  BY TermsAre
<1>2. \A t \in Term : f[t] \in Nat /\ (f[t] > 0 => t \in Open)
  BY GivesIs
<1>3. ASSUME NEW m \in 0 .. Len(byBound) PROVE Rest(m) \in SUBSET Term /\ IsFiniteSet(Rest(m))
  <2>1. \A j \in m + 1 .. Len(byBound) : j \in 1 .. Len(byBound)
    OBVIOUS
  <2>2. Rest(m) \in SUBSET Term
    BY <1>1, <2>1 DEF Rest
  <2> QED BY <2>2, TraverseAssumption, FS_Subset
<1>4. \A m \in 0 .. Len(byBound) : \A t \in Rest(m) : f[t] \in Nat
  BY <1>2, <1>3
<1>5. \A m : Given(d, m) = SumOver(f, Rest(m))
  BY DEF Given
<1> HIDE DEF f
<1>6. Given(d, i) \in Nat
  BY <1>3, <1>4, <1>5, SumParts
<1>7. ASSUME i > 0 PROVE Given(d, i - 1) = Given(d, i) + f[byBound[i]]
  <2>1. i \in 1 .. Len(byBound) /\ i - 1 \in 0 .. Len(byBound) /\ f[byBound[i]] \in Nat
    BY <1>1, <1>2, <1>7
  <2>2. byBound[i] \notin Rest(i)
    BY <1>1, <2>1 DEF Rest
  <2>3. Rest(i - 1) = Rest(i) \cup {byBound[i]}
    <3>1. (i - 1) + 1 .. Len(byBound) = (i + 1 .. Len(byBound)) \cup {i}
      BY <1>1, <2>1
    <3> QED BY <3>1 DEF Rest
  <2>4. SumOver(f, Rest(i) \cup {byBound[i]}) = f[byBound[i]] + SumOver(f, Rest(i))
    BY <1>3, <1>4, <2>1, <2>2, SumMore
  <2>5. Given(d, i - 1) = SumOver(f, Rest(i) \cup {byBound[i]}) /\ Given(d, i) = SumOver(f, Rest(i))
    BY <1>5, <2>3
  <2> QED BY <1>6, <2>1, <2>4, <2>5
<1>8. Given(d, 0) = Reach(d)
  <2>1. 0 \in 0 .. Len(byBound)
    BY <1>1
  <2>2. ASSUME NEW t \in Term, f[t] > 0 PROVE t \in Rest(0)
    <3>1. PICK j \in 1 .. Len(byBound) : byBound[j] = t
      BY <1>1, <1>2, <2>2
    <3>2. j \in 0 + 1 .. Len(byBound)
      OBVIOUS
    <3> QED BY <3>1, <3>2 DEF Rest
  <2>3. /\ \A t \in Rest(0) : f[t] \in Nat
        /\ \A t \in Rest(0) : f[t] > 0 => t \in Term /\ f[t] = f[t]
        /\ Rest(0) \in SUBSET Term /\ IsFiniteSet(Rest(0))
    BY <1>3, <1>4, <2>1
  <2>4. \A t \in Term : f[t] > 0 => t \in Rest(0) /\ f[t] = f[t]
    BY <2>2
  <2>5. \A t \in Term : f[t] \in Nat
    BY <1>2
  <2>6. SumOver(f, Rest(0)) = SumOver(f, Term)
    BY <2>3, <2>4, <2>5, TraverseAssumption, SumSame
  <2> QED BY <1>5, <2>6 DEF Reach, f
<1> QED BY <1>6, <1>7, <1>8 DEF f

\* What the terms probed last can add is at most their bounds.
LEMMA ReachUpto ==
  ASSUME QueryHolds, CursorsHold, byBound # <<>>, NEW d \in Doc, NEW i \in 0 .. Len(byBound)
  PROVE  Reach(d) <= Given(d, i) + Prefix(i)
<1> DEFINE N == {m \in Nat : m <= Len(byBound) => Reach(d) <= Given(d, m) + Prefix(m)}
<1>1. Len(byBound) \in Nat /\ Reach(d) \in Nat /\ \A j \in 1 .. Len(byBound) : byBound[j] \in Term
  BY TermsAre, ReachIs
<1>2. 0 \in N
  <2>1. 0 \in 0 .. Len(byBound)
    BY <1>1
  <2>2. Given(d, 0) = Reach(d) /\ Prefix(0) = 0
    BY <2>1, GivenIs, PrefixIs
  <2> QED BY <1>1, <2>2
<1>3. ASSUME NEW m \in Nat, m \in N PROVE m + 1 \in N
  <2> SUFFICES ASSUME m + 1 <= Len(byBound) PROVE Reach(d) <= Given(d, m + 1) + Prefix(m + 1)
    OBVIOUS
  <2>1. PICK j : j = m + 1
    OBVIOUS
  <2>2. j \in 1 .. Len(byBound) /\ j \in 0 .. Len(byBound) /\ j > 0 /\ j - 1 = m /\ m \in 0 .. Len(byBound)
    BY <1>1, <2>1
  <2>3. Given(d, j) \in Nat /\ Given(d, m) = Given(d, j) + Gives(d)[byBound[j]]
    BY <2>2, GivenIs
  <2>4. Prefix(j) = Prefix(m) + bound[byBound[j]] /\ Prefix(m) \in Nat
    BY <2>2, PrefixIs
  <2>5. byBound[j] \in Term
    BY <1>1, <2>2
  <2>6. Gives(d)[byBound[j]] \in Nat /\ Gives(d)[byBound[j]] <= bound[byBound[j]] /\ bound[byBound[j]] \in Nat
    BY <2>5, GivesIs, BoundIs
  <2>7. Reach(d) <= Given(d, m) + Prefix(m)
    BY <1>3, <2>2
  <2>8. \A a, b, c, e, r \in Nat : e <= b /\ r <= (a + e) + c => r <= a + (c + b)
    OBVIOUS
  <2>9. Reach(d) <= Given(d, j) + Prefix(j)
    BY <1>1, <2>3, <2>4, <2>6, <2>7, <2>8
  <2> QED BY <2>1, <2>9
<1> HIDE DEF N
<1>4. i \in N
  BY <1>2, <1>3, NatRise
<1> QED BY <1>1, <1>4 DEF N

\* A turn for d, with all but the first m terms done: no cursor has passed a posting behind d; the
\* essential ones are past d; and the score is what the terms done give, or d is dropped for good.
Probing(p, d, m) ==
  /\ DOMAIN p = {"score", "at", "dead"} /\ p.dead \in BOOLEAN
  /\ p.at \in [Term -> Doc \cup {docidExhausted}]
  /\ \A t \in Term : /\ p.at[t] \in Docids(t) \cup {docidExhausted} /\ at[t] <= p.at[t]
                     /\ \A x \in Docids(t) : x > d /\ at[t] <= x => p.at[t] <= x
  /\ \A t \in Essential : d < p.at[t]
  /\ ~ p.dead => p.score = Given(d, m)
  /\ p.dead => Reach(d) <= threshold

\* A cursor that is moved to the first posting from d on, or past d.
LEMMA Moved ==
  ASSUME QueryHolds, CursorsHold, HeapHolds, byBound # <<>>, NEW d \in Doc, NEW m, NEW p, Probing(p, d, m),
         NEW t \in Term, NEW e, e = Advance(t, d),
         NEW a, (e # d /\ a = e) \/ (e = d /\ a = First(t, d + 1))
  PROVE  LET q == [p.at EXCEPT ![t] = a] IN
         /\ q \in [Term -> Doc \cup {docidExhausted}]
         /\ \A u \in Term : /\ q[u] \in Docids(u) \cup {docidExhausted} /\ at[u] <= q[u]
                            /\ \A x \in Docids(u) : x > d /\ at[u] <= x => q[u] <= x
         /\ \A u \in Essential : d < q[u]
<1>1. /\ at[t] \in Nat /\ e \in Docids(t) \cup {docidExhausted} /\ e \in Nat /\ e >= at[t]
      /\ e = docidExhausted \/ e >= d
      /\ \A x \in Docids(t) : x >= d /\ x >= at[t] => e <= x
      /\ d \in Nat /\ d < docidExhausted /\ docidExhausted \in Nat
      /\ \A x \in Docids(t) : x \in Nat
  <2>1. d \in Nat /\ d < docidExhausted /\ docidExhausted \in Nat
    BY Docs
  <2>2. \A x \in Docids(t) : x \in Nat
    BY Docs DEF Docids
  <2> QED BY <2>1, <2>2, AdvanceIs
<1>2. /\ a \in Docids(t) \cup {docidExhausted} /\ a \in Nat /\ at[t] <= a /\ d < a
      /\ \A x \in Docids(t) : x > d /\ at[t] <= x => a <= x
  <2>1. CASE e # d
    BY <1>1, <2>1
  <2>2. CASE e = d
    <3>1. a = First(t, d + 1) /\ d + 1 \in Nat
      BY <1>1, <2>2
    <3>2. /\ a \in Docids(t) \cup {docidExhausted} /\ a \in Nat
          /\ a = docidExhausted \/ a >= d + 1
          /\ \A x \in Docids(t) : x >= d + 1 => a <= x
      BY <3>1, FirstIs
    <3> QED BY <1>1, <2>2, <3>2
  <2> QED BY <2>1, <2>2
<1> DEFINE q == [p.at EXCEPT ![t] = a]
<1>3. p.at \in [Term -> Doc \cup {docidExhausted}] /\ a \in Doc \cup {docidExhausted}
  BY <1>2 DEF Probing, Docids
<1>4. q \in [Term -> Doc \cup {docidExhausted}] /\ \A u \in Term : q[u] = IF u = t THEN a ELSE p.at[u]
  BY <1>3
<1> HIDE DEF q
<1>5. /\ \A u \in Term : /\ p.at[u] \in Docids(u) \cup {docidExhausted} /\ at[u] <= p.at[u]
                         /\ \A x \in Docids(u) : x > d /\ at[u] <= x => p.at[u] <= x
      /\ \A u \in Essential : d < p.at[u]
  BY DEF Probing
<1>6. Essential \in SUBSET Term
  BY CandidateIs
<1> QED BY <1>2, <1>4, <1>5, <1>6 DEF q

\* A probe.
LEMMA ProbeKeeps ==
  ASSUME QueryHolds, CursorsHold, HeapHolds, byBound # <<>>, NEW d \in Doc,
         NEW i \in 1 .. Partition, NEW p, Probing(p, d, i), NEW q, q = Probe(d, p, i)
  PROVE  Probing(q, d, i - 1)
<1>1. Partition \in 0 .. Len(byBound) /\ Len(byBound) \in Nat
  BY CandidateIs, TermsAre
<1>2. i \in 1 .. Len(byBound) /\ i \in 0 .. Len(byBound) /\ i - 1 \in 0 .. Len(byBound) /\ i > 0
  BY <1>1
<1>3. PICK t \in Term : t = byBound[i]
  BY <1>2, TermsAre
<1>4. PICK e : e = Advance(t, d)
  OBVIOUS
<1>5. /\ DOMAIN p = {"score", "at", "dead"} /\ p.dead \in BOOLEAN
      /\ ~ p.dead => p.score = Given(d, i)
      /\ p.dead => Reach(d) <= threshold
  BY DEF Probing
<1>6. q = IF \/ p.dead
             \/ p.score + Prefix(i) <= threshold
             \/ p.score + BlockBound(t, d) + Prefix(i - 1) <= threshold
          THEN [p EXCEPT !.dead = TRUE]
          ELSE IF e # d THEN [p EXCEPT !.at[t] = e]
          ELSE [p EXCEPT !.at[t] = First(t, d + 1), !.score = @ + impact[t][d]]
  BY <1>3, <1>4 DEF Probe
<1>7. /\ Given(d, i) \in Nat /\ Given(d, i - 1) \in Nat /\ Given(d, i - 1) = Given(d, i) + Gives(d)[t]
      /\ Prefix(i) \in Nat /\ Prefix(i - 1) \in Nat
      /\ Reach(d) <= Given(d, i) + Prefix(i) /\ Reach(d) <= Given(d, i - 1) + Prefix(i - 1)
      /\ Reach(d) \in Nat /\ threshold \in Nat
  BY <1>2, <1>3, GivenIs, PrefixIs, ReachUpto, ReachIs, FloorIs
<1>8. /\ BlockBound(t, d) \in Nat /\ Gives(d)[t] \in Nat /\ Gives(d)[t] <= BlockBound(t, d)
      /\ Gives(d)[t] = IF at[t] <= d THEN impact[t][d] ELSE 0
      /\ impact[t][d] \in Nat /\ (impact[t][d] > 0 => d \in Docids(t))
  BY GivesIs, BlockBoundIs, ImpactIs
<1>9. CASE p.dead
  <2>1. q = [p EXCEPT !.dead = TRUE]
    BY <1>6, <1>9
  <2>2. q.dead = TRUE /\ q.at = p.at /\ DOMAIN q = DOMAIN p
    BY <1>5, <2>1
  <2> QED BY <1>5, <1>9, <2>2 DEF Probing
<1>10. CASE /\ ~ p.dead
            /\ \/ p.score + Prefix(i) <= threshold
               \/ p.score + BlockBound(t, d) + Prefix(i - 1) <= threshold
  <2>1. q = [p EXCEPT !.dead = TRUE]
    BY <1>6, <1>10
  <2>2. q.dead = TRUE /\ q.at = p.at /\ DOMAIN q = DOMAIN p
    BY <1>5, <2>1
  <2>3. Reach(d) <= threshold
    <3>1. p.score = Given(d, i)
      BY <1>5, <1>10
    <3>2. CASE p.score + Prefix(i) <= threshold
      BY <1>7, <3>1, <3>2
    <3>3. CASE p.score + BlockBound(t, d) + Prefix(i - 1) <= threshold
      <4>1. /\ Given(d, i) \in Nat /\ BlockBound(t, d) \in Nat /\ Prefix(i - 1) \in Nat
            /\ Gives(d)[t] \in Nat /\ Reach(d) \in Nat /\ threshold \in Nat
            /\ Gives(d)[t] <= BlockBound(t, d)
        BY <1>7, <1>8
      <4>2. Given(d, i) + BlockBound(t, d) + Prefix(i - 1) <= threshold
        BY <3>1, <3>3
      <4>3. Reach(d) <= (Given(d, i) + Gives(d)[t]) + Prefix(i - 1)
        BY <1>7
      <4> QED BY <4>1, <4>2, <4>3
    <3> QED BY <1>10, <3>2, <3>3
  <2> QED BY <1>5, <2>2, <2>3 DEF Probing
<1>11. CASE /\ ~ p.dead /\ ~ (p.score + Prefix(i) <= threshold)
            /\ ~ (p.score + BlockBound(t, d) + Prefix(i - 1) <= threshold)
  <2>1. p.score = Given(d, i)
    BY <1>5, <1>11
  <2>2. e \in Nat /\ at[t] \in Nat /\ e >= at[t] /\ (\A x \in Docids(t) : x >= d /\ x >= at[t] => e <= x)
        /\ (e = docidExhausted \/ e >= d) /\ d \in Nat /\ d < docidExhausted /\ docidExhausted \in Nat
        /\ e \in Docids(t) \cup {docidExhausted}
    BY <1>4, AdvanceIs, Docs
  <2>3. CASE e # d
    <3>1. q = [p EXCEPT !.at[t] = e]
      BY <1>6, <1>11, <2>3
    <3>2. q.at = [p.at EXCEPT ![t] = e] /\ q.dead = p.dead /\ q.score = p.score /\ DOMAIN q = DOMAIN p
      BY <1>5, <3>1
    <3>3. Gives(d)[t] = 0
      <4> SUFFICES ASSUME Gives(d)[t] # 0 PROVE FALSE
        OBVIOUS
      <4>1. at[t] <= d /\ impact[t][d] > 0
        BY <1>8
      <4>2. e <= d
        BY <1>8, <2>2, <4>1
      <4> QED BY <2>2, <2>3, <4>2
    <3>4. q.score = Given(d, i - 1)
      BY <1>7, <2>1, <3>2, <3>3
    <3>5. /\ q.at \in [Term -> Doc \cup {docidExhausted}]
          /\ \A u \in Term : /\ q.at[u] \in Docids(u) \cup {docidExhausted} /\ at[u] <= q.at[u]
                             /\ \A x \in Docids(u) : x > d /\ at[u] <= x => q.at[u] <= x
          /\ \A u \in Essential : d < q.at[u]
      BY <1>4, <2>3, <3>2, Moved
    <3> QED BY <1>5, <1>11, <3>2, <3>4, <3>5 DEF Probing
  <2>4. CASE e = d
    <3>1. q = [p EXCEPT !.at[t] = First(t, d + 1), !.score = @ + impact[t][d]]
      BY <1>6, <1>11, <2>4
    <3>2. q.at = [p.at EXCEPT ![t] = First(t, d + 1)] /\ q.dead = p.dead
          /\ q.score = p.score + impact[t][d] /\ DOMAIN q = DOMAIN p
      BY <1>5, <3>1
    <3>3. Gives(d)[t] = impact[t][d]
      BY <1>8, <2>2, <2>4
    <3>4. q.score = Given(d, i - 1)
      BY <1>7, <2>1, <3>2, <3>3
    <3>5. /\ q.at \in [Term -> Doc \cup {docidExhausted}]
          /\ \A u \in Term : /\ q.at[u] \in Docids(u) \cup {docidExhausted} /\ at[u] <= q.at[u]
                             /\ \A x \in Docids(u) : x > d /\ at[u] <= x => q.at[u] <= x
          /\ \A u \in Essential : d < q.at[u]
      <4>1. PICK a : a = First(t, d + 1)
        OBVIOUS
      <4>2. q.at = [p.at EXCEPT ![t] = a]
        BY <3>2, <4>1
      <4>3. (e # d /\ a = e) \/ (e = d /\ a = First(t, d + 1))
        BY <2>4, <4>1
      <4> QED BY <1>4, <4>2, <4>3, Moved
    <3> QED BY <1>5, <1>11, <3>2, <3>4, <3>5 DEF Probing
  <2> QED BY <2>3, <2>4
<1> QED BY <1>9, <1>10, <1>11

\* All probes.
LEMMA ProbedKeeps ==
  ASSUME QueryHolds, CursorsHold, HeapHolds, byBound # <<>>, NEW d \in Doc,
         NEW s, Probing(s, d, Partition), NEW q, q = Probed(d, s, Partition)
  PROVE  Probing(q, d, 0)
<1>1. PICK n \in Nat : n = Partition
  BY CandidateIs, TermsAre
<1>2. PICK f : Probes(f, d, s, n)
  BY ProbeSteps
<1>3. f[0] = s /\ q = f[n] /\ \A j \in 1 .. n : f[j] = Probe(d, f[j - 1], n - j + 1)
  BY <1>1, <1>2 DEF Probes
<1> DEFINE N == {j \in Nat : j <= n => Probing(f[j], d, n - j)}
<1>4. 0 \in N
  BY <1>1, <1>3
<1>5. ASSUME NEW j \in Nat, j \in N PROVE j + 1 \in N
  <2> SUFFICES ASSUME j + 1 <= n PROVE Probing(f[j + 1], d, n - (j + 1))
    OBVIOUS
  <2>1. PICK i \in 1 .. n : i = n - j
    OBVIOUS
  <2>2. Probing(f[j], d, i)
    BY <1>5, <2>1
  <2>3. f[j + 1] = Probe(d, f[j], i)
    <3>1. j + 1 \in 1 .. n /\ (j + 1) - 1 = j /\ n - (j + 1) + 1 = i
      BY <2>1
    <3> QED BY <1>3, <3>1
  <2>4. Probing(f[j + 1], d, i - 1)
    BY <1>1, <2>1, <2>2, <2>3, ProbeKeeps
  <2>5. i - 1 = n - (j + 1)
    BY <2>1
  <2> QED BY <2>4, <2>5
<1> HIDE DEF N
<1>6. n \in N
  BY <1>4, <1>5, NatRise
<1>7. Probing(f[n], d, n - n) /\ n - n = 0
  BY <1>6 DEF N
<1> QED BY <1>3, <1>7

\* The essential cursors that stand at the candidate are scored first.
LEMMA StartIs ==
  ASSUME QueryHolds, CursorsHold, HeapHolds, byBound # <<>>, NEW d \in Doc, d = Candidate
  PROVE  Probing([score |-> ScoreAt(d, Essential), at |-> Consume(d, Essential), dead |-> FALSE], d, Partition)
<1> DEFINE f == [t \in Term |-> IF at[t] = d THEN impact[t][d] ELSE 0]
           g == Gives(d)
           a == Consume(d, Essential)
<1>1. /\ Essential = Rest(Partition) /\ Essential \in SUBSET Term /\ IsFiniteSet(Essential)
      /\ \A t \in Essential : d <= at[t]
  <2>1. Essential \in SUBSET Term
    BY CandidateIs
  <2> QED BY <2>1, CandidateIs, TraverseAssumption, FS_Subset
<1>2. d \in Nat /\ d < docidExhausted /\ docidExhausted \in Nat
  BY Docs
<1>3. \A t \in Essential : f[t] = g[t] /\ f[t] \in Nat
  <2> SUFFICES ASSUME NEW t \in Essential PROVE f[t] = g[t] /\ f[t] \in Nat
    OBVIOUS
  <2>1. t \in Term /\ at[t] \in Nat /\ d <= at[t]
    BY <1>1, CursorIs
  <2>2. f[t] = IF at[t] = d THEN impact[t][d] ELSE 0
    BY <2>1
  <2>3. g[t] = IF at[t] <= d THEN impact[t][d] ELSE 0
    BY <2>1 DEF Gives
  <2>4. g[t] \in Nat
    BY <2>1, GivesIs
  <2> HIDE DEF f, g
  <2> QED BY <1>2, <2>1, <2>2, <2>3, <2>4
<1>4. ScoreAt(d, Essential) = Given(d, Partition)
  <2>1. ScoreAt(d, Essential) = SumOver(f, Essential) /\ Given(d, Partition) = SumOver(g, Essential)
    BY <1>1 DEF ScoreAt, Given
  <2> HIDE DEF f, g
  <2>2. \A t \in Essential : f[t] \in Nat
    BY <1>3
  <2>3. \A t \in Essential : g[t] \in Nat
    BY <1>3
  <2>4. \A t \in Essential : f[t] > 0 => t \in Essential /\ f[t] = g[t]
    BY <1>3
  <2>5. \A t \in Essential : g[t] > 0 => t \in Essential /\ f[t] = g[t]
    BY <1>3
  <2>6. SumOver(f, Essential) = SumOver(g, Essential)
    BY <1>1, <2>2, <2>3, <2>4, <2>5, SumSame
  <2> QED BY <2>1, <2>6
<1>5. ASSUME NEW t \in Term
      PROVE  /\ a[t] \in Docids(t) \cup {docidExhausted} /\ a[t] \in Nat /\ at[t] <= a[t]
             /\ \A x \in Docids(t) : x > d /\ at[t] <= x => a[t] <= x
             /\ t \in Essential => d < a[t]
  <2>1. a[t] = IF t \in Essential /\ at[t] = d THEN NextPosting(t) ELSE at[t]
    BY DEF Consume
  <2>2. at[t] \in Nat /\ at[t] \in Docids(t) \cup {docidExhausted}
    BY CursorIs
  <2>3. \A x \in Docids(t) : x \in Nat
    BY Docs DEF Docids
  <2> HIDE DEF a
  <2>4. CASE t \in Essential /\ at[t] = d
    <3>1. a[t] = First(t, d + 1) /\ d + 1 \in Nat
      BY <1>2, <2>1, <2>4 DEF NextPosting
    <3>2. /\ a[t] \in Docids(t) \cup {docidExhausted} /\ a[t] \in Nat
          /\ a[t] = docidExhausted \/ a[t] >= d + 1
          /\ \A x \in Docids(t) : x >= d + 1 => a[t] <= x
      BY <3>1, FirstIs
    <3> QED BY <1>2, <2>2, <2>3, <2>4, <3>2
  <2>5. CASE ~ (t \in Essential /\ at[t] = d)
    <3>1. t \in Essential => d < at[t]
      <4> SUFFICES ASSUME t \in Essential PROVE d < at[t]
        OBVIOUS
      <4>1. d <= at[t] /\ at[t] # d
        BY <1>1, <2>5
      <4> QED BY <1>2, <2>2, <4>1
    <3> QED BY <2>1, <2>2, <2>3, <2>5, <3>1
  <2> QED BY <2>4, <2>5
<1>6. a \in [Term -> Doc \cup {docidExhausted}]
  <2>1. a = [t \in Term |-> a[t]]
    BY DEF Consume
  <2> HIDE DEF a
  <2>2. \A t \in Term : a[t] \in Doc \cup {docidExhausted}
    BY <1>5 DEF Docids
  <2> QED BY <2>1, <2>2
<1> HIDE DEF a
<1>7. \A t \in Essential : d < a[t]
  BY <1>1, <1>5
<1>8. PICK p : p = [score |-> ScoreAt(d, Essential), at |-> a, dead |-> FALSE]
  OBVIOUS
<1>9. DOMAIN p = {"score", "at", "dead"} /\ p.dead = FALSE /\ p.at = a /\ p.score = Given(d, Partition)
  BY <1>4, <1>8
<1>10. Probing(p, d, Partition)
  BY <1>5, <1>6, <1>7, <1>9 DEF Probing
<1> QED BY <1>8, <1>10 DEF a

\* The candidate is scored, or dropped because it cannot beat the floor.
LEMMA MaxScoreKeeps ==
  ASSUME TravInv, ~ done, byBound # <<>>, MaxScoreTurn
  PROVE  TravInv'
<1>1. PICK d : d = Candidate
  OBVIOUS
<1>2. PICK start : start = [score |-> ScoreAt(d, Essential), at |-> Consume(d, Essential), dead |-> FALSE]
  OBVIOUS
<1>3. PICK end : end = Probed(d, start, Partition)
  OBVIOUS
<1>4. /\ d # docidExhausted /\ at' = end.at /\ Scored(d, IF end.dead THEN 0 ELSE end.score)
      /\ UNCHANGED <<query, failed, done>>
  <2>1. /\ Candidate # docidExhausted
        /\ at' = Probed(Candidate, [score |-> ScoreAt(Candidate, Essential),
                                    at |-> Consume(Candidate, Essential), dead |-> FALSE], Partition).at
        /\ Scored(Candidate,
             IF Probed(Candidate, [score |-> ScoreAt(Candidate, Essential),
                                   at |-> Consume(Candidate, Essential), dead |-> FALSE], Partition).dead
             THEN 0
             ELSE Probed(Candidate, [score |-> ScoreAt(Candidate, Essential),
                                     at |-> Consume(Candidate, Essential), dead |-> FALSE], Partition).score)
        /\ UNCHANGED <<query, failed, done>>
    BY DEF MaxScoreTurn, Probed
  <2> QED BY <1>1, <1>2, <1>3, <2>1
<1>5. QueryHolds /\ CursorsHold /\ HeapHolds /\ ScoresExact /\ NoneLost
  BY DEF TravInv
<1>6. /\ d \in Doc /\ d \in Nat /\ Essential \in SUBSET Term /\ threshold \in Nat
      /\ \E t \in Essential : at[t] = d
  BY <1>1, <1>4, <1>5, CandidateIs, Docs, FloorIs
<1>7. Probing(end, d, 0)
  <2>1. Probing(start, d, Partition)
    BY <1>1, <1>2, <1>5, <1>6, StartIs
  <2> QED BY <1>3, <1>5, <1>6, <2>1, ProbedKeeps
<1>8. Given(d, 0) = Reach(d) /\ Reach(d) \in Nat
  <2>1. 0 \in 0 .. Len(byBound)
    BY <1>5, TermsAre
  <2> QED BY <1>5, <1>6, <2>1, GivenIs, ReachIs
<1>9. PICK s : s = IF end.dead THEN 0 ELSE end.score
  OBVIOUS
<1>10. s \in Nat /\ (s > threshold => s = Reach(d)) /\ (Reach(d) > threshold => s > threshold)
  <2>1. (~ end.dead => end.score = Reach(d)) /\ (end.dead => Reach(d) <= threshold)
    BY <1>7, <1>8 DEF Probing
  <2>2. CASE end.dead
    BY <1>6, <1>8, <1>9, <2>1, <2>2
  <2>3. CASE ~ end.dead
    BY <1>6, <1>8, <1>9, <2>1, <2>3
  <2> QED BY <2>2, <2>3
<1>11. \A i \in DOMAIN hits : hits[i].docid # d
  <2> SUFFICES ASSUME NEW i \in DOMAIN hits, hits[i].docid = d PROVE FALSE
    OBVIOUS
  <2>1. PICK t \in Essential : at[t] = d
    BY <1>6
  <2>2. hits[i].docid < at[t]
    BY <1>6 DEF Passed, TravInv
  <2> QED BY <1>6, <2>1, <2>2
<1>12. /\ HeapHolds' /\ ScoresExact' /\ threshold <= threshold'
       /\ \A i \in DOMAIN hits' : \/ hits'[i].docid = d
                                 \/ \E j \in DOMAIN hits : hits'[i] = hits[j]
       /\ ~ failed => \A x \in Matching \ Returned' :
            Exact(x) > threshold' => /\ x \in Matching \ Returned /\ Exact(x) > threshold
                                     /\ x # d /\ Ahead(x)
  <2>1. Scored(d, s)
    BY <1>4, <1>9
  <2> QED BY <1>4, <1>5, <1>6, <1>10, <1>11, <2>1, ScoredKeeps
<1>13. /\ at' \in [Term -> Doc \cup {docidExhausted}]
       /\ \A t \in Term : /\ at'[t] \in Docids(t) \cup {docidExhausted} /\ at[t] <= at'[t]
                          /\ \A x \in Docids(t) : x > d /\ at[t] <= x => at'[t] <= x
       /\ \A t \in Essential : d < at'[t]
  BY <1>4, <1>7 DEF Probing
<1>14. CursorsHold'
  <2>1. impact' = impact
    BY <1>4 DEF query
  <2>2. \A t : Docids(t)' = Docids(t)
    BY <2>1 DEF Docids
  <2> QED BY <1>13, <2>2 DEF CursorsHold
<1>15. ASSUME ~ failed, NEW x \in Matching \ Returned', Exact(x) > threshold' PROVE Ahead(x)'
  <2>1. x # d /\ Ahead(x) /\ x \in Doc /\ x \in Nat /\ impact' = impact /\ Exact(x) > threshold
    <3>1. x \in Doc
      BY DEF Matching
    <3> QED BY <1>4, <1>12, <1>15, <3>1, Docs DEF query
  <2>2. x > d
    <3> SUFFICES ASSUME x < d PROVE FALSE
      BY <1>6, <2>1
    <3>1. Exact(x) <= threshold /\ Exact(x) \in Nat
      BY <1>1, <1>5, <2>1, Behind, ExactIs
    <3> QED BY <1>6, <2>1, <3>1
  <2> SUFFICES ASSUME NEW t \in Term, impact[t][x] > 0 PROVE at'[t] <= x
    BY <2>1 DEF Ahead
  <2>3. at[t] <= x /\ x \in Docids(t)
    BY <2>1 DEF Ahead, Docids
  <2> QED BY <1>13, <2>2, <2>3
<1>16. ASSUME NEW i \in DOMAIN hits'
       PROVE  \/ \E j \in DOMAIN hits : hits'[i] = hits[j]
              \/ \A t \in Term : byBound = <<>> \/ t \in Essential => hits'[i].docid < at'[t]
  BY <1>12, <1>13
<1>17. ASSUME NEW t \in Term PROVE byBound = <<>> \/ (t \in Essential' => t \in Essential)
  <2>1. threshold' \in Nat
    <3>1. QueryHolds'
      BY <1>4, <1>5, SameQuery
    <3>2. k' = k
      BY <1>4 DEF query
    <3>3. hits' \in Seq(Hit)
      BY <1>12 DEF HeapHolds, Hit, Doc
    <3>4. threshold' = Floor(hits')
      BY <3>2 DEF threshold, Floor
    <3> QED BY <1>5, <3>3, <3>4, FloorOf
  <2> QED BY <1>4, <1>5, <1>6, <1>12, <2>1, EssentialFalls
<1>18. \A t \in Term : at[t] <= at'[t]
  BY <1>13
<1> QED BY <1>4, <1>12, <1>14, <1>15, <1>16, <1>17, <1>18, TurnKeeps

-----------------------------------------------------------------------------
(* The result.                                                             *)

\* Draining the heap only reorders it: best first.
LEMMA SortedIs ==
  ASSUME HeapHolds, NEW s, s = sorted
  PROVE  /\ s \in Seq(Hit) /\ Len(s) = Len(hits) /\ DOMAIN s = DOMAIN hits /\ Same(s, hits)
         /\ \A i, j \in DOMAIN s : i < j => ~ Before(s[j], s[i])
<1> DEFINE S == DOMAIN hits
           R == {x \in S \X S : ~ Before(hits[x[2]], hits[x[1]])}
           O == {o \in SetToSeqs(S) : \A i, j \in DOMAIN o : i < j => ~ Before(hits[o[j]], hits[o[i]])}
           n == Len(hits)
<1>1. /\ n \in Nat /\ S = 1 .. n
      /\ \A i \in S : hits[i] \in Hit /\ hits[i].score \in Nat /\ hits[i].docid \in Nat
  BY HitsAre, Docs
<1>2. IsFiniteSet(S) /\ Cardinality(S) = n
  <2> HIDE DEF n
  <2> QED BY <1>1, IntervalCount
<1>3. Orders(R, S)
  <2>1. \A x, y \in S : <<x, y>> \in R <=> ~ Before(hits[y], hits[x])
    OBVIOUS
  <2> HIDE DEF R
  <2>2. ASSUME NEW x \in S, NEW y \in S PROVE <<x, y>> \in R \/ <<y, x>> \in R
    BY <1>1, <2>1 DEF Before
  <2>3. ASSUME NEW x \in S, NEW y \in S, NEW z \in S, <<x, y>> \in R, <<y, z>> \in R PROVE <<x, z>> \in R
    <3>1. ~ Before(hits[y], hits[x]) /\ ~ Before(hits[z], hits[y])
      BY <2>1, <2>3
    <3>2. ~ Before(hits[z], hits[x])
      BY <1>1, <3>1 DEF Before
    <3> QED BY <2>1, <3>2
  <2> QED BY <2>2, <2>3 DEF Orders
<1>4. PICK f \in SetToSeqs(S) : Ascending(f, R)
  <2> HIDE DEF S, R
  <2> QED BY <1>2, <1>3, SortExists
<1>5. f \in O
  <2>1. ASSUME NEW i \in DOMAIN f, NEW j \in DOMAIN f, i < j PROVE ~ Before(hits[f[j]], hits[f[i]])
    <3>1. <<f[i], f[j]>> \in R
      BY <1>4, <2>1 DEF Ascending
    <3> QED BY <3>1
  <2> QED BY <2>1
<1>6. PICK o \in O : s = [i \in DOMAIN o |-> hits[o[i]]]
  <2> DEFINE c == CHOOSE o \in SetToSeqs(S) :
                    \A i, j \in DOMAIN o : i < j => ~ Before(hits[o[j]], hits[o[i]])
  <2>1. s = [i \in DOMAIN c |-> hits[c[i]]]
    BY DEF sorted
  <2>2. c \in O
    BY <1>5
  <2> HIDE DEF c, O
  <2> QED BY <2>1, <2>2
<1>7. /\ DOMAIN o = 1 .. n
      /\ \A i \in 1 .. n : o[i] \in 1 .. n
      /\ \A i, j \in 1 .. n : o[i] = o[j] => i = j
      /\ \A x \in 1 .. n : \E i \in 1 .. n : o[i] = x
  <2>1. o \in SetToSeqs(S)
    OBVIOUS
  <2> HIDE DEF O, S, n
  <2>2. /\ DOMAIN o = 1 .. Cardinality(S)
        /\ \A i \in DOMAIN o : o[i] \in S
        /\ \A i, j \in DOMAIN o : o[i] = o[j] => i = j
        /\ \A x \in S : \E i \in DOMAIN o : o[i] = x
    BY <1>2, <2>1, EnumCovers
  <2>3. DOMAIN o = 1 .. n
    BY <1>2, <2>2
  <2> QED BY <1>1, <2>2, <2>3
<1>8. \A i, j \in 1 .. n : i < j => ~ Before(hits[o[j]], hits[o[i]])
  BY <1>7
<1> HIDE DEF O, R, n
<1>9. DOMAIN s = 1 .. n /\ \A i \in 1 .. n : s[i] = hits[o[i]] /\ s[i] \in Hit
  BY <1>1, <1>6, <1>7
<1>10. s \in Seq(Hit) /\ Len(s) = n
  <2>1. s \in [1 .. n -> Hit]
    BY <1>1, <1>6, <1>7
  <2> QED BY <1>1, <2>1
<1>11. Same(s, hits)
  <2>1. \A j \in 1 .. n : \E i \in 1 .. n : s[j] = hits[i]
    BY <1>7, <1>9
  <2>2. \A j \in 1 .. n : \E i \in 1 .. n : s[i] = hits[j]
    <3> SUFFICES ASSUME NEW j \in 1 .. n PROVE \E i \in 1 .. n : s[i] = hits[j]
      OBVIOUS
    <3>1. PICK i \in 1 .. n : o[i] = j
      BY <1>7
    <3> QED BY <1>9, <3>1
  <2>3. Distinct(s)
    <3>1. \A i, j \in 1 .. n : hits[i].docid = hits[j].docid => i = j
      BY <1>1 DEF HeapHolds, Distinct
    <3>2. ASSUME NEW i \in 1 .. n, NEW j \in 1 .. n, s[i].docid = s[j].docid PROVE i = j
      <4>1. o[i] \in 1 .. n /\ o[j] \in 1 .. n /\ hits[o[i]].docid = hits[o[j]].docid
        BY <1>7, <1>9, <3>2
      <4>2. o[i] = o[j]
        BY <3>1, <4>1
      <4> QED BY <1>7, <4>2
    <3> QED BY <1>9, <3>2 DEF Distinct
  <2> QED BY <1>1, <1>9, <2>1, <2>2, <2>3 DEF Same
<1>12. \A i, j \in DOMAIN s : i < j => ~ Before(s[j], s[i])
  BY <1>8, <1>9
<1> QED BY <1>1, <1>9, <1>10, <1>11, <1>12 DEF n

\* As many documents as hits.
LEMMA ReturnedCount ==
  ASSUME NEW h, NEW n \in Nat, DOMAIN h = 1 .. n, Distinct(h)
  PROVE  IsFiniteSet({h[i].docid : i \in DOMAIN h}) /\ Cardinality({h[i].docid : i \in DOMAIN h}) = n
<1> DEFINE T == {h[i].docid : i \in DOMAIN h}
           f == [i \in 1 .. n |-> h[i].docid]
<1>1. f \in [1 .. n -> T]
  OBVIOUS
<1>2. \A i, j \in 1 .. n : f[i] = f[j] => i = j
  BY DEF Distinct
<1>3. \A x \in T : \E i \in 1 .. n : f[i] = x
  OBVIOUS
<1> HIDE DEF f, T
<1>4. f \in Injection(1 .. n, T) /\ f \in Surjection(1 .. n, T)
  <2>1. IsInjective(f)
    BY <1>1, <1>2 DEF IsInjective
  <2> QED BY <1>1, <1>3, <2>1 DEF Injection, Surjection
<1>5. IsFiniteSet(1 .. n) /\ Cardinality(1 .. n) = n
  BY IntervalCount
<1>6. IsFiniteSet(T) /\ Cardinality(T) = n
  BY <1>4, <1>5, FS_Surjection
<1> QED BY <1>6 DEF T

\* A traversal may return when nothing outside the heap beats the floor.
LEMMA ReturnKeeps ==
  ASSUME TravInv, ~ done, Return,
         ~ failed => \A x \in Matching \ Returned : Exact(x) <= threshold
  PROVE  TravInv'
<1>1. done' = TRUE /\ UNCHANGED <<query, at, failed>> /\ impact' = impact /\ k' = k
  BY DEF Return, query
<1>2. QueryHolds /\ CursorsHold /\ HeapHolds /\ ScoresExact /\ Heap(hits) /\ Distinct(hits) /\ Len(hits) <= k
  BY DEF TravInv, HeapHolds
<1>3. PICK n \in Nat : n = Len(hits) /\ DOMAIN hits = 1 .. n
  BY <1>2, HitsAre
<1>4. PICK s : s = hits' /\ s = sorted
  BY DEF Return
<1>5. /\ s \in Seq(Hit) /\ Len(s) = n /\ DOMAIN s = 1 .. n /\ Same(s, hits)
      /\ \A i, j \in DOMAIN s : i < j => ~ Before(s[j], s[i])
  BY <1>2, <1>3, <1>4, SortedIs
<1>6. /\ \A i \in 1 .. n : \E j \in 1 .. n : s[i] = hits[j]
      /\ \A j \in 1 .. n : \E i \in 1 .. n : s[i] = hits[j]
      /\ Distinct(s)
  BY <1>2, <1>3, <1>5 DEF Same
<1>7. \A i \in 1 .. n : s[i] \in Hit /\ s[i].docid \in Nat /\ s[i].score \in Nat
  <2>1. \A i \in 1 .. n : s[i] \in Hit
    BY <1>5
  <2> QED BY <2>1, Docs DEF Hit
<1>8. threshold \in Nat /\ threshold = Floor(hits)
  BY <1>2, FloorIs
<1>9. \A i \in 1 .. n : threshold <= s[i].score
  <2> SUFFICES ASSUME NEW i \in 1 .. n PROVE threshold <= s[i].score
    OBVIOUS
  <2>1. PICK j \in 1 .. n : s[i] = hits[j]
    BY <1>6
  <2>2. hits[1].score <= hits[j].score
    BY <1>2, <1>3, RootLeast DEF HeapHolds
  <2>3. CASE Len(hits) < k
    BY <1>7, <2>3 DEF threshold
  <2>4. CASE ~ Len(hits) < k
    BY <2>1, <2>2, <2>4 DEF threshold
  <2> QED BY <2>3, <2>4
<1>10. Returned' = Returned
  <2>1. Returned' = {s[i].docid : i \in 1 .. n}
    BY <1>4, <1>5 DEF Returned
  <2>2. Returned = {hits[i].docid : i \in 1 .. n}
    BY <1>3 DEF Returned
  <2>3. ASSUME NEW x \in {s[i].docid : i \in 1 .. n} PROVE x \in {hits[i].docid : i \in 1 .. n}
    BY <1>6
  <2>4. ASSUME NEW x \in {hits[i].docid : i \in 1 .. n} PROVE x \in {s[i].docid : i \in 1 .. n}
    <3>1. PICK j \in 1 .. n : x = hits[j].docid
      OBVIOUS
    <3>2. PICK i \in 1 .. n : s[i] = hits[j]
      BY <1>6
    <3> QED BY <3>1, <3>2
  <2> QED BY <2>1, <2>2, <2>3, <2>4
<1>11. Matching' = Matching /\ QueryHolds' /\ \A x : Exact(x)' = Exact(x)
  BY <1>1, <1>2, SameQuery
<1>12. threshold' = Floor(s) /\ threshold <= threshold'
  <2>1. threshold' = Floor(s)
    BY <1>1, <1>4 DEF threshold, Floor
  <2>2. CASE n < k
    BY <1>3, <1>5, <1>8, <2>1, <2>2 DEF Floor
  <2>3. CASE ~ n < k
    <3>1. 1 \in 1 .. n
      <4>1. k \in Nat /\ k # 0
        BY <1>2 DEF QueryHolds
      <4> QED BY <2>3, <4>1
    <3>2. Floor(s) = s[1].score
      BY <1>5, <2>3 DEF Floor
    <3> QED BY <1>9, <2>1, <3>1, <3>2
  <2> QED BY <2>2, <2>3
<1>13. CursorsHold'
  <2>1. \A t : Docids(t)' = Docids(t)
    BY <1>1 DEF Docids
  <2> QED BY <1>1, <1>2, <2>1 DEF CursorsHold
<1>14. HeapHolds'
  <2>1. hits' \in Seq(Hit) /\ Len(hits') <= k' /\ Distinct(hits')
    BY <1>1, <1>2, <1>3, <1>4, <1>5, <1>6
  <2> QED BY <1>1, <2>1 DEF HeapHolds
<1>15. ASSUME ~ failed, NEW i \in 1 .. n PROVE s[i].docid \in Matching /\ s[i].score = Exact(s[i].docid)
  <2>1. PICK j \in 1 .. n : s[i] = hits[j]
    BY <1>6
  <2> QED BY <1>2, <1>3, <1>15, <2>1 DEF ScoresExact
<1>16. ScoresExact'
  BY <1>1, <1>4, <1>5, <1>11, <1>15 DEF ScoresExact
<1>17. NoneLost'
  <2>1. ASSUME ~ failed, NEW x \in Matching \ Returned PROVE ~ Exact(x) > threshold'
    <3>1. Exact(x) <= threshold /\ Exact(x) \in Nat
      BY <2>1, ExactIs, <1>2 DEF Matching
    <3>2. threshold' \in Nat
      BY <1>2, <1>5, <1>12, FloorOf
    <3> QED BY <1>8, <1>12, <3>1, <3>2
  <2> QED BY <1>1, <1>10, <1>11, <2>1 DEF NoneLost
<1>18. RankSafe'
  <2> SUFFICES ASSUME ~ failed
               PROVE  /\ Len(s) = Smaller(k, Cardinality(Matching)) /\ Cardinality(Returned) = Len(s)
                      /\ \A i \in DOMAIN s : /\ s[i].docid \in Matching
                                             /\ s[i].score = Exact(s[i].docid)
                                             /\ i > 1 => Before(s[i - 1], s[i])
                      /\ \A d \in Matching \ Returned : \A i \in DOMAIN s : Exact(d) <= s[i].score
    BY <1>1, <1>4, <1>10, <1>11 DEF RankSafe
  <2>1. IsFiniteSet(Returned) /\ Cardinality(Returned) = n
    BY <1>2, <1>3, ReturnedCount DEF Returned
  <2>2. Matching \in SUBSET Doc /\ IsFiniteSet(Matching)
    <3>1. Matching \in SUBSET Doc
      BY DEF Matching
    <3>2. IsFiniteSet(Doc)
      <4>1. 0 \in Int /\ MaxDoc \in Int
        BY TraverseAssumption
      <4> QED BY <4>1, FS_Interval DEF Doc
    <3> QED BY <3>1, <3>2, FS_Subset
  <2>3. Returned \in SUBSET Matching
    BY <1>2 DEF Returned, ScoresExact
  <2>4. PICK m \in Nat : m = Cardinality(Matching) /\ n <= m
    <3>1. Cardinality(Matching) \in Nat
      BY <2>2, FS_CardinalityType
    <3>2. Cardinality(Returned) <= Cardinality(Matching)
      BY <2>2, <2>3, FS_Subset
    <3> QED BY <2>1, <3>1, <3>2
  <2>5. k \in Nat /\ n <= k
    BY <1>2, <1>3 DEF QueryHolds
  <2>6. n = Smaller(k, m)
    <3>1. Smaller(k, m) = IF k <= m THEN k ELSE m
      BY <2>4, <2>5, SmallerIs
    <3>2. CASE n < k
      <4>1. Matching = Returned
        <5>1. ASSUME NEW x \in Matching, x \notin Returned PROVE FALSE
          <6>1. Exact(x) <= threshold
            BY <5>1
          <6>2. threshold = 0
            BY <1>3, <3>2 DEF threshold
          <6>3. Exact(x) > 0 /\ Exact(x) \in Nat
            BY <1>2, ExactIs DEF Matching
          <6> QED BY <6>1, <6>2, <6>3
        <5> QED BY <2>3, <5>1
      <4>2. n = m
        BY <2>1, <2>4, <4>1
      <4> QED BY <2>4, <2>5, <3>1, <3>2, <4>2
    <3>3. CASE n = k
      BY <2>4, <2>5, <3>1, <3>3
    <3> QED BY <2>5, <3>2, <3>3
  <2>7. ASSUME NEW i \in 1 .. n, i > 1 PROVE Before(s[i - 1], s[i])
    <3>1. i - 1 \in 1 .. n /\ i - 1 < i
      BY <2>7
    <3>2. ~ Before(s[i], s[i - 1])
      BY <1>5, <3>1
    <3>3. s[i].docid # s[i - 1].docid
      <4>1. \A a, b \in 1 .. n : s[a].docid = s[b].docid => a = b
        BY <1>5, <1>6 DEF Distinct
      <4>2. i # i - 1
        BY <3>1
      <4> QED BY <3>1, <4>1, <4>2
    <3>4. s[i].docid \in Nat /\ s[i].score \in Nat /\ s[i - 1].docid \in Nat /\ s[i - 1].score \in Nat
      BY <1>7, <3>1
    <3> QED BY <3>2, <3>3, <3>4 DEF Before
  <2>8. ASSUME NEW d \in Matching \ Returned, NEW i \in 1 .. n PROVE Exact(d) <= s[i].score
    <3>1. Exact(d) <= threshold /\ Exact(d) \in Nat
      BY <1>2, <2>2, ExactIs
    <3> QED BY <1>7, <1>8, <1>9, <3>1
  <2> QED BY <1>5, <1>15, <2>1, <2>4, <2>6, <2>7, <2>8
<1>19. Passed'
  BY <1>1 DEF Passed
<1> QED BY <1>11, <1>13, <1>14, <1>16, <1>17, <1>18, <1>19 DEF TravInv

\* No cursor of an essential term is left.
LEMMA MaxScoreReturns ==
  ASSUME TravInv, ~ done, byBound # <<>>, MaxScoreReturn
  PROVE  TravInv'
<1>1. QueryHolds /\ CursorsHold /\ HeapHolds /\ NoneLost
  BY DEF TravInv
<1>2. Candidate = docidExhausted /\ Return
  BY DEF MaxScoreReturn
<1>3. ASSUME ~ failed, NEW x \in Matching \ Returned PROVE Exact(x) <= threshold
  <2>1. x \in Doc /\ x < Candidate /\ Exact(x) \in Nat /\ threshold \in Nat
    <3>1. x \in Doc
      BY DEF Matching
    <3> QED BY <1>1, <1>2, <3>1, Docs, ExactIs, FloorIs
  <2>2. SUFFICES ASSUME Exact(x) > threshold PROVE FALSE
    BY <2>1
  <2>3. Ahead(x)
    BY <1>1, <1>3, <2>2 DEF NoneLost
  <2>4. Exact(x) <= threshold
    BY <1>1, <2>1, <2>3, Behind
  <2> QED BY <2>1, <2>2, <2>4
<1> QED BY <1>2, <1>3, ReturnKeeps

\* No cursor is a pivot.
LEMMA BMWReturns ==
  ASSUME TravInv, ~ done, NEW ts \in OrdersBy(at), BMWReturn(ts)
  PROVE  TravInv'
<1>1. QueryHolds /\ CursorsHold /\ HeapHolds /\ NoneLost
  BY DEF TravInv
<1>2. Pivot(ts) = 0 /\ Return
  BY DEF BMWReturn
<1>3. ASSUME ~ failed, NEW x \in Matching \ Returned PROVE Exact(x) <= threshold
  <2>1. x \in Doc /\ Exact(x) \in Nat /\ threshold \in Nat
    <3>1. x \in Doc
      BY DEF Matching
    <3> QED BY <1>1, <3>1, ExactIs, FloorIs
  <2>2. SUFFICES ASSUME Exact(x) > threshold PROVE FALSE
    BY <2>1
  <2>3. Ahead(x)
    BY <1>1, <1>3, <2>2 DEF NoneLost
  <2> QED BY <1>1, <1>2, <2>1, <2>2, <2>3, PivotIs
<1> QED BY <1>2, <1>3, ReturnKeeps

\* A list that cannot be read: what is returned is then an error.
LEMMA ReadFailsKeeps ==
  ASSUME TravInv, ~ done, NEW u \in Term, ReadFails(u)
  PROVE  TravInv'
<1>1. /\ at' = [at EXCEPT ![u] = docidExhausted] /\ failed' = TRUE /\ done' = done /\ hits' = hits
      /\ UNCHANGED query /\ k' = k /\ impact' = impact /\ bound' = bound /\ byBound' = byBound
  BY DEF ReadFails, query
<1>2. QueryHolds /\ CursorsHold /\ HeapHolds
  BY DEF TravInv
<1>3. QueryHolds'
  BY <1>1, <1>2, SameQuery
<1>4. /\ at' \in [Term -> Doc \cup {docidExhausted}]
      /\ \A t \in Term : at'[t] = IF t = u THEN docidExhausted ELSE at[t]
  BY <1>1, <1>2 DEF CursorsHold
<1>5. CursorsHold'
  <2>1. \A t : Docids(t)' = Docids(t)
    BY <1>1 DEF Docids
  <2> QED BY <1>2, <1>4, <2>1 DEF CursorsHold
<1>6. HeapHolds'
  BY <1>1, <1>2 DEF HeapHolds
<1>7. Passed'
  <2>1. Essential' = Essential
    <3>1. threshold' = threshold
      BY <1>1 DEF threshold
    <3>2. \A i : Prefix(i)' = Prefix(i)
      BY <1>1 DEF Prefix
    <3>3. Partition' = Partition
      BY <1>1, <3>1, <3>2 DEF Partition
    <3> QED BY <1>1, <3>3 DEF Essential
  <2> SUFFICES ASSUME NEW t \in Term, byBound = <<>> \/ t \in Essential, NEW i \in DOMAIN hits
               PROVE  hits[i].docid < at'[t]
    BY <1>1, <2>1 DEF Passed
  <2>2. hits[i].docid < at[t]
    BY DEF Passed, TravInv
  <2>3. hits[i].docid \in Doc
    BY <1>2, HitsAre
  <2>4. hits[i].docid < docidExhausted
    BY <2>3, Docs
  <2> QED BY <1>4, <2>2, <2>4
<1>8. ScoresExact' /\ NoneLost' /\ RankSafe'
  BY <1>1 DEF ScoresExact, NoneLost, RankSafe
<1> QED BY <1>3, <1>5, <1>6, <1>7, <1>8 DEF TravInv

\* A traversal starts with every cursor at its first posting and no hit.
LEMMA StartHolds == Init => TravInv
<1> SUFFICES ASSUME Init PROVE TravInv
  OBVIOUS
<1>1. /\ impact \in [Term -> [Doc -> 0 .. MaxImpact]] /\ bound = [t \in Term |-> MaxOver(t, Docids(t))]
      /\ byBound \in {<<>>} \cup OrdersBy(bound) /\ at = [t \in Term |-> First(t, 0)]
      /\ hits = <<>> /\ failed = FALSE /\ done = FALSE
  BY DEF Init
<1>2. k \in Nat \ {0}
  BY TraverseAssumption DEF Init
<1>3. QueryHolds
  BY <1>1, <1>2 DEF QueryHolds
<1>4. ASSUME NEW t \in Term
      PROVE  /\ at[t] \in Docids(t) \cup {docidExhausted}
             /\ \A x \in Docids(t) : at[t] <= x
  <2>1. at[t] = First(t, 0)
    BY <1>1
  <2>2. at[t] \in Docids(t) \cup {docidExhausted} /\ \A x \in Docids(t) : x >= 0 => at[t] <= x
    BY <2>1, FirstIs
  <2>3. \A x \in Docids(t) : x \in Nat
    BY Docs DEF Docids
  <2> QED BY <2>2, <2>3
<1>5. CursorsHold
  <2>1. \A t \in Term : at[t] \in Doc \cup {docidExhausted}
    BY <1>4 DEF Docids
  <2>2. at \in [Term -> Doc \cup {docidExhausted}]
    BY <1>1, <2>1
  <2> QED BY <1>4, <2>2 DEF CursorsHold
<1>6. HeapHolds
  BY <1>1, <1>2 DEF HeapHolds, Distinct, Heap
<1>7. Passed /\ ScoresExact /\ RankSafe
  BY <1>1 DEF Passed, ScoresExact, RankSafe
<1>8. NoneLost
  <2> SUFFICES ASSUME NEW x \in Matching, NEW t \in Term, impact[t][x] > 0 PROVE at[t] <= x
    BY DEF NoneLost, Ahead
  <2>1. x \in Docids(t)
    BY DEF Matching, Docids
  <2> QED BY <1>4, <2>1
<1> QED BY <1>3, <1>5, <1>6, <1>7, <1>8 DEF TravInv

\* Every turn keeps it.
LEMMA NextKeeps == TravInv /\ [Next]_vars => TravInv'
<1> SUFFICES ASSUME TravInv, [Next]_vars PROVE TravInv'
  OBVIOUS
<1>1. CASE UNCHANGED vars
  <2>1. /\ impact' = impact /\ k' = k /\ deleted' = deleted /\ bound' = bound /\ byBound' = byBound
        /\ at' = at /\ hits' = hits /\ failed' = failed /\ done' = done /\ UNCHANGED query
    BY <1>1 DEF vars, query
  <2>2. QueryHolds' /\ Matching' = Matching /\ \A x : Exact(x)' = Exact(x)
    BY <2>1, SameQuery DEF TravInv
  <2>3. threshold' = threshold /\ Returned' = Returned
    BY <2>1 DEF threshold, Returned
  <2>4. \A t : Docids(t)' = Docids(t)
    BY <2>1 DEF Docids
  <2>5. CursorsHold' /\ HeapHolds'
    BY <2>1, <2>4 DEF CursorsHold, HeapHolds, TravInv
  <2>6. Essential' = Essential
    <3>1. \A i : Prefix(i)' = Prefix(i)
      BY <2>1 DEF Prefix
    <3>2. Partition' = Partition
      BY <2>1, <2>3, <3>1 DEF Partition
    <3> QED BY <2>1, <3>2 DEF Essential
  <2>7. Passed' /\ ScoresExact'
    BY <2>1, <2>2, <2>6 DEF Passed, ScoresExact, TravInv
  <2>8. \A x : Ahead(x)' <=> Ahead(x)
    BY <2>1 DEF Ahead
  <2>9. NoneLost'
    BY <2>1, <2>2, <2>3, <2>8 DEF NoneLost, TravInv
  <2>10. RankSafe'
    BY <2>1, <2>2, <2>3 DEF RankSafe, TravInv
  <2> QED BY <2>2, <2>5, <2>7, <2>9, <2>10 DEF TravInv
<1>2. CASE Next
  <2>1. ~ done
    BY <1>2 DEF Next
  <2>2. CASE TraverseMaxScore
    <3>1. byBound # <<>> /\ (MaxScoreReturn \/ MaxScoreTurn)
      BY <2>2 DEF TraverseMaxScore
    <3> QED BY <2>1, <3>1, MaxScoreReturns, MaxScoreKeeps
  <2>3. CASE TraverseBMW
    <3>1. byBound = <<>>
      BY <2>3 DEF TraverseBMW
    <3>2. PICK ts \in OrdersBy(at) : BMWReturn(ts) \/ BMWReject(ts) \/ BMWScore(ts) \/ BMWAdvance(ts)
      BY <2>3 DEF TraverseBMW
    <3> QED BY <2>1, <3>1, <3>2, BMWReturns, RejectKeeps, ScoreKeeps, AdvanceKeeps
  <2>4. CASE \E t \in Term : ReadFails(t)
    BY <2>1, <2>4, ReadFailsKeeps
  <2> QED BY <1>2, <2>2, <2>3, <2>4 DEF Next
<1> QED BY <1>1, <1>2

\* Every state of a traversal satisfies the invariant.
THEOREM TraverseInvariant == Spec => []TravInv
BY StartHolds, NextKeeps, PTL DEF Spec

\* Rank safety, "exact" in the words of the package: what either algorithm returns is what an
\* exhaustive evaluation would, whatever blocks, lists and documents it skipped.
THEOREM RankSafeAlways == Spec => []RankSafe
<1>1. TravInv => RankSafe
  BY DEF TravInv
<1> QED BY <1>1, TraverseInvariant, PTL

\* On the way: a document that beats the floor and is not among the hits has all its postings
\* ahead of the cursors, so that nothing that was skipped could have entered.
THEOREM NothingLostAlways == Spec => []NothingLost
<1>1. TravInv => NothingLost
  <2> SUFFICES ASSUME TravInv PROVE NothingLost
    OBVIOUS
  <2>1. Returned \subseteq Doc
    BY HitsAre DEF Returned, TravInv
  <2>2. WellFormed
    BY <2>1 DEF WellFormed, TravInv, CursorsHold, HeapHolds, Heap
  <2>3. ~ failed => \A d \in Matching \ Returned :
          Exact(d) > threshold => \A t \in Term : impact[t][d] > 0 => at[t] <= d
    BY DEF TravInv, NoneLost, Ahead
  <2> QED BY <2>2, <2>3 DEF NothingLost
<1> QED BY <1>1, TraverseInvariant, PTL
=============================================================================
