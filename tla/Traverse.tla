------------------------------ MODULE Traverse ------------------------------
(***************************************************************************)
(* The evaluation of one query on one shard, src/serve/traverse.go over    *)
(* the term cursors of src/serve/cursor.go: MaxScore and block-max WAND,   *)
(* sharing a bounded heap whose floor is the score a document must beat.   *)
(*                                                                         *)
(* A term's postings are the impacts it gives to documents; a cursor is    *)
(* the docid it stands at. Long lists come in blocks, of which the skip    *)
(* entries tell the last docid and the largest impact; short ones lie      *)
(* inline in the dictionary. One action is one turn of a traversal's loop. *)
(***************************************************************************)
EXTENDS Integers, Sequences, FiniteSets, FiniteSetsExt, SequencesExt

CONSTANTS
  Term,       \* the terms of the query
  MaxDoc,     \* bound: docids are 0 .. MaxDoc
  MaxImpact,  \* bound: impacts are at most this
  MaxPosting, \* bound: the postings of all terms together
  Asked,      \* how callers ask: pairs of a k and the documents they exclude
  BlockLen,   \* hotfmt.PostingsBlockLen
  InlineLen   \* terms of at most so many postings lie inline

ASSUME TraverseAssumption ==
  /\ IsFiniteSet(Term) /\ MaxDoc \in Nat /\ MaxImpact \in Nat \ {0} /\ MaxPosting \in Nat
  /\ \A x \in Asked : x[1] \in Nat \ {0} /\ x[2] \subseteq Nat
  /\ BlockLen \in Nat \ {0} /\ InlineLen \in Nat

Doc == 0 .. MaxDoc
docidExhausted == MaxDoc + 1

VARIABLES
  impact,   \* impact[t][d]: term t's impact in document d, 0 if d lacks t
  k,        \* how many hits are asked for
  deleted,  \* the documents the caller excludes
  bound,    \* TermCursor.bound: term t's largest impact
  byBound,  \* MaxScore: the terms by ascending bound; empty for block-max WAND
  at,       \* at[t]: the docid t's cursor stands at
  hits,     \* topHeap.hits
  failed,   \* some cursor has an error
  done      \* the traversal has returned

query == <<impact, k, deleted, bound, byBound>>
vars == <<query, at, hits, failed, done>>

-----------------------------------------------------------------------------
(* Cursors.                                                                *)

Docids(t) == {d \in Doc : impact[t][d] > 0}
Larger(a, b) == Max({a, b})
Smaller(a, b) == Min({a, b})

\* The first posting of t at d or later.
First(t, d) == Min({e \in Docids(t) : e >= d} \cup {docidExhausted})

\* The terms the shard has: each has a cursor.
Open == {t \in Term : Docids(t) # {}}

Inline(t) == Cardinality(Docids(t)) <= InlineLen

\* The postings in the block that holds d; blocks fill up in docid order.
Index(t, d) == Cardinality({e \in Docids(t) : e < d}) \div BlockLen
Block(t, d) == {e \in Docids(t) : d \in Docids(t) /\ Index(t, e) = Index(t, d)}

MaxOver(t, S) == Max({0} \cup {impact[t][d] : d \in S})

\* Where Advance(d) and Next take t's cursor.
Advance(t, d) == First(t, Larger(d, at[t]))
NextPosting(t) == First(t, at[t] + 1)

\* BlockBound: the largest impact in the block that holds the first posting at d or
\* later; of an inline list, the largest from there on.
BlockBound(t, d) ==
  LET e == Advance(t, d)
  IN  MaxOver(t, IF Inline(t) THEN {x \in Docids(t) : x >= e} ELSE Block(t, e))

\* The first docid past the current block.
shallowNext(t) ==
  IF Inline(t) \/ at[t] = docidExhausted THEN docidExhausted ELSE Max(Block(t, at[t])) + 1

-----------------------------------------------------------------------------
(* The heap.                                                               *)

Swap(h, i, j) == [h EXCEPT ![i] = h[j], ![j] = h[i]]

\* Where node i of h goes next: up to a parent that outscores it, or down to the smallest
\* of its children, of equals the one named first; or nowhere.
Above(h, i) == IF i > 1 /\ h[i].score < h[i \div 2].score THEN i \div 2 ELSE i

Below(h, i) ==
  LET kin == {i, 2 * i, 2 * i + 1} \cap DOMAIN h
  IN  Min({j \in kin : \A x \in kin : h[j].score <= h[x].score})

\* One turn of either of offer's loops; a node that goes nowhere stays.
Sift(s, up) ==
  LET to == IF up THEN Above(s.heap, s.node) ELSE Below(s.heap, s.node)
  IN  [heap |-> Swap(s.heap, s.node, to), node |-> to]

\* The loop: no node moves more often than there are nodes.
Sifted(h, i, up) == FoldLeft(LAMBDA s, turn : Sift(s, up), [heap |-> h, node |-> i], h).heap

threshold == IF Len(hits) < k THEN 0 ELSE hits[1].score

Offer(hit) ==
  IF Len(hits) < k THEN Sifted(Append(hits, hit), Len(hits) + 1, TRUE)
  ELSE IF hit.score <= hits[1].score THEN hits
  ELSE Sifted([hits EXCEPT ![1] = hit], 1, FALSE)

\* The document scored s: it enters if it beats the floor and is not excluded.
Scored(d, s) ==
  hits' = IF s > threshold /\ d \notin deleted THEN Offer([docid |-> d, score |-> s]) ELSE hits

\* The loop ends, and the heap is drained into score order, then docid order.
Before(a, b) == a.score > b.score \/ (a.score = b.score /\ a.docid < b.docid)

sorted ==
  LET order == CHOOSE o \in SetToSeqs(DOMAIN hits) :
                 \A i, j \in DOMAIN o : i < j => ~ Before(hits[o[j]], hits[o[i]])
  IN  [i \in DOMAIN order |-> hits[order[i]]]

Return ==
  /\ done' = TRUE
  /\ hits' = sorted
  /\ UNCHANGED <<query, at, failed>>

-----------------------------------------------------------------------------
\* The orders of the open terms by a key; equal ones may come in any order.
OrdersBy(key) ==
  {s \in SetToSeqs(Open) : \A i, j \in DOMAIN s : i < j => key[s[i]] <= key[s[j]]}

SumOver(f, S) == MapThenSumSet(LAMBDA t : f[t], S)

\* Score at docid d by the cursors of S that stand there.
ScoreAt(d, S) == SumOver([t \in Term |-> IF at[t] = d THEN impact[t][d] ELSE 0], S)

\* The cursors of S that stand at d step past it.
Consume(d, S) == [t \in Term |-> IF t \in S /\ at[t] = d THEN NextPosting(t) ELSE at[t]]

Init ==
  /\ impact \in [Term -> [Doc -> 0 .. MaxImpact]] /\ Open # {}
  /\ Cardinality({x \in Term \X Doc : impact[x[1]][x[2]] > 0}) <= MaxPosting
  /\ \E x \in Asked : k = x[1] /\ deleted = x[2]
  /\ bound = [t \in Term |-> MaxOver(t, Docids(t))]
  /\ byBound \in {<<>>} \cup OrdersBy(bound)
  /\ at = [t \in Term |-> First(t, 0)]
  /\ hits = <<>> /\ failed = FALSE /\ done = FALSE

-----------------------------------------------------------------------------
(* MaxScore.                                                               *)

\* The summed bound of the first i terms.
Prefix(i) == SumOver(bound, {byBound[j] : j \in 1 .. i})

\* Mutant: the partition takes one term too many.
PartitionByOne ==
  Smaller(Len(byBound), 1 + Cardinality({i \in DOMAIN byBound : Prefix(i) <= threshold}))

\* How many terms cannot beat the floor between them.
Partition == Cardinality({i \in DOMAIN byBound : Prefix(i) <= threshold})

Essential == {byBound[i] : i \in Partition + 1 .. Len(byBound)}
Candidate == Min({at[t] : t \in Essential} \cup {docidExhausted})

\* Non-essential term i is probed for document d: dropped if the credit left, or the
\* block's, cannot beat the floor, else its cursor moves up and adds its impact.
Probe(d, p, i) ==
  LET t == byBound[i]
      e == Advance(t, d)
  IN  IF \/ p.dead
         \/ p.score + Prefix(i) <= threshold
         \/ p.score + BlockBound(t, d) + Prefix(i - 1) <= threshold
      THEN [p EXCEPT !.dead = TRUE]
      ELSE IF e # d THEN [p EXCEPT !.at[t] = e]
      ELSE [p EXCEPT !.at[t] = First(t, d + 1), !.score = @ + impact[t][d]]

MaxScoreReturn == Candidate = docidExhausted /\ Return

MaxScoreTurn ==
  LET d == Candidate
      start == [score |-> ScoreAt(d, Essential), at |-> Consume(d, Essential), dead |-> FALSE]
      end == FoldLeft(LAMBDA p, i : Probe(d, p, i), start, Reverse([i \in 1 .. Partition |-> i]))
  IN  /\ d # docidExhausted
      /\ at' = end.at
      /\ Scored(d, IF end.dead THEN 0 ELSE end.score)
      /\ UNCHANGED <<query, failed, done>>

TraverseMaxScore == byBound # <<>> /\ (MaxScoreReturn \/ MaxScoreTurn)

-----------------------------------------------------------------------------
(* Block-max WAND: ts are the cursors by docid.                            *)

Upto(ts, i) == {ts[j] : j \in 1 .. i}

\* The first cursor at which the bounds so far beat the floor; 0 if none does.
Pivot(ts) ==
  LET beats == {i \in DOMAIN ts : /\ at[ts[i]] # docidExhausted
                                     /\ SumOver(bound, Upto(ts, i)) > threshold}
  IN  IF beats = {} THEN 0 ELSE Min(beats)

\* Mutant: only the cursors up to the pivot count.
RefinedUpto(ts) ==
  LET pd == at[ts[Pivot(ts)]]
  IN  SumOver([t \in Term |-> BlockBound(t, pd)], Upto(ts, Pivot(ts)))

\* What the blocks at the pivot's docid can give, the cursors past the pivot that
\* stand there included.
Refined(ts) ==
  LET pd == at[ts[Pivot(ts)]]
  IN  SumOver([t \in Term |-> BlockBound(t, pd)],
              Upto(ts, Pivot(ts)) \cup {t \in Open : at[t] = pd})

BMWReturn(ts) == Pivot(ts) = 0 /\ Return

\* The blocks cannot beat the floor: the leading cursor moves past its block or past
\* the pivot, whichever is nearer.
BMWReject(ts) ==
  /\ Pivot(ts) # 0 /\ Refined(ts) <= threshold
  /\ LET to == Smaller(shallowNext(ts[1]), at[ts[Pivot(ts)]] + 1)
     IN  at' = [at EXCEPT ![ts[1]] = Advance(ts[1], to)]
  /\ UNCHANGED <<query, hits, failed, done>>

\* The leading cursor stands at the pivot's docid: every cursor there is scored.
BMWScore(ts) ==
  LET pd == at[ts[1]] IN
  /\ Pivot(ts) # 0 /\ Refined(ts) > threshold /\ pd = at[ts[Pivot(ts)]]
  /\ at' = Consume(pd, Open)
  /\ Scored(pd, ScoreAt(pd, Open))
  /\ UNCHANGED <<query, failed, done>>

\* It stands before it, and moves up.
BMWAdvance(ts) ==
  LET pd == at[ts[Pivot(ts)]] IN
  /\ Pivot(ts) # 0 /\ Refined(ts) > threshold /\ pd # at[ts[1]]
  /\ at' = [at EXCEPT ![ts[1]] = Advance(ts[1], pd)]
  /\ UNCHANGED <<query, hits, failed, done>>

TraverseBMW ==
  /\ byBound = <<>>
  /\ \E ts \in OrdersBy(at) :
       BMWReturn(ts) \/ BMWReject(ts) \/ BMWScore(ts) \/ BMWAdvance(ts)

-----------------------------------------------------------------------------
\* A block of t cannot be read: its cursor reads as exhausted and keeps the error.
ReadFails(t) ==
  /\ ~ failed /\ ~ Inline(t) /\ at[t] # docidExhausted
  /\ at' = [at EXCEPT ![t] = docidExhausted]
  /\ failed' = TRUE
  /\ UNCHANGED <<query, hits, done>>

Next == /\ ~ done
        /\ TraverseMaxScore \/ TraverseBMW \/ \E t \in Term : ReadFails(t)

Spec == Init /\ [][Next]_vars

-----------------------------------------------------------------------------
(* Properties.                                                             *)

\* The exhaustive score of a document, and the documents that could be hits.
Exact(d) == SumOver([t \in Term |-> impact[t][d]], Term)
Matching == {d \in Doc : Exact(d) > 0} \ deleted
Returned == {hits[i].docid : i \in DOMAIN hits}

\* The heap's shape: a node never outscores its children, so that its root is the floor;
\* and each cursor stands at a posting or past the last.
WellFormed ==
  /\ at \in [Term -> Doc \cup {docidExhausted}]
  /\ \A t \in Term : at[t] # docidExhausted => at[t] \in Docids(t)
  /\ Len(hits) <= k /\ Returned \subseteq Doc
  /\ ~ done => \A i \in 2 .. Len(hits) : hits[i \div 2].score <= hits[i].score

\* What a traversal returns, whatever it skipped: exact scores, no document twice, best
\* first, and no document left out that beats one of them ("rank safety is exact").
RankSafe ==
  done /\ ~ failed =>
    /\ Len(hits) = Smaller(k, Cardinality(Matching)) /\ Cardinality(Returned) = Len(hits)
    /\ \A i \in DOMAIN hits : /\ hits[i].docid \in Matching
                              /\ hits[i].score = Exact(hits[i].docid)
                              /\ i > 1 => Before(hits[i - 1], hits[i])
    /\ \A d \in Matching \ Returned : \A i \in DOMAIN hits : Exact(d) <= hits[i].score

\* On the way: the floor is the least score kept, and a document that could still enter has
\* lost no posting yet; every cursor of its terms stands at it or before it.
NothingLost ==
  /\ WellFormed
  /\ ~ failed =>
       \A d \in Matching \ Returned :
         Exact(d) > threshold => \A t \in Term : impact[t][d] > 0 => at[t] <= d
=============================================================================
