-------------------------- MODULE RootStoreProofs ---------------------------
(***************************************************************************)
(* Proofs about RootStore, for any stores, checkpoints, faults and         *)
(* restarts, on both discovery paths: the pointer only moves forward, what *)
(* calls return are roots that exist, and no process is told an older one  *)
(* than before.                                                            *)
(***************************************************************************)
EXTENDS RootStore, TLAPS

-----------------------------------------------------------------------------
(* The inductive invariant.                                                *)

\* A PUT may be sent with root e and position n to write root r: r is ahead of e, and in
\* seq mode e stands right before the position.
Advances(e, n, r) ==
  /\ e \in Roots /\ r \in Roots /\ e.ckpt < r.ckpt
  /\ seq => n \in 1 .. Len(versions) /\ versions[n] = e

\* What is true of an Advance about to write, and of a PUT on its way: whenever their
\* condition holds, what they write is ahead of everything.
WritesAhead ==
  /\ \A p \in Store : pc[p] = "write" => Advances(cur[p], next[p], Advanced(p))
  /\ \A d \in delayed : Advances(d.etag, d.seq, d.root)

RootInv == TypeOK /\ RootsHold /\ WritesAhead

-----------------------------------------------------------------------------
(* The sequence of roots only grows.                                       *)

\* Roots already written stay where they are.
Kept == /\ versions' \in Seq(Roots)
        /\ Len(versions) <= Len(versions')
        /\ \A s \in 1 .. Len(versions) : versions'[s] = versions[s]

\* A conditional PUT that succeeds adds a root ahead of all others.
LEMMA PutGrows ==
  ASSUME TypeOK, RootForward, NEW e, NEW n \in Nat, NEW r, Advances(e, n, r), Put(e, n, r)
  PROVE  /\ Kept /\ RootForward'
         /\ Len(versions') = Len(versions) + 1 /\ versions'[Len(versions) + 1] = r
         /\ \A s \in 1 .. Len(versions) : versions[s].ckpt < r.ckpt
         /\ seq => n = Len(versions)
<1>a. ASSUME NEW k \in Nat, NEW s \in 1 .. k + 1, NEW t \in 1 .. k + 1, s < t
      PROVE  s \in 1 .. k /\ (t = k + 1 \/ t \in 1 .. k)
  BY <1>a
<1>b. ASSUME NEW k \in Nat, NEW s \in 1 .. k PROVE s = k \/ s < k
  OBVIOUS
<1>c. \A i, j \in 1 .. Len(versions) : i < j => versions[i].ckpt < versions[j].ckpt
  BY DEF RootForward
<1> USE DEF TypeOK
<1> DEFINE L == Len(versions)
<1>0. versions \in Seq(Roots) /\ L \in Nat
  OBVIOUS
<1>1. versions' = Append(versions, r) /\ r \in Roots
  BY DEF Put, Advances
<1>2. L >= 1 /\ versions[L] = e /\ (seq => n = L)
  <2>1. CASE seq
    BY <1>0, <2>1 DEF Put, Advances
  <2>2. CASE ~seq
    <3>1. versions # <<>> /\ versions[L] = e
      BY <2>2 DEF Put, Newest
    <3> QED BY <3>1, <2>2, <1>0
  <2> QED BY <2>1, <2>2
<1>3. /\ versions' \in Seq(Roots) /\ Len(versions') = L + 1 /\ versions'[L + 1] = r
      /\ \A s \in 1 .. L : versions'[s] = versions[s] /\ versions[s] \in Roots
  BY <1>0, <1>1
<1>4. \A s \in 1 .. L : versions[s].ckpt < r.ckpt
  <2> TAKE s \in 1 .. L
  <2>1. s = L \/ versions[s].ckpt < versions[L].ckpt
    <3>1. L \in 1 .. L /\ (s = L \/ s < L)
      BY <1>0, <1>2, <1>b
    <3> QED BY <1>c, <3>1
  <2>2. versions[L] = e /\ e.ckpt < r.ckpt
    BY <1>2 DEF Advances
  <2>3. e \in Roots /\ r \in Roots /\ versions[s] \in Roots
    BY <1>3 DEF Advances
  <2>4. e.ckpt \in Nat /\ r.ckpt \in Nat /\ versions[s].ckpt \in Nat
    BY <2>3 DEF Roots
  <2> QED BY <2>1, <2>2, <2>4
<1>5. RootForward'
  <2> SUFFICES ASSUME NEW s \in 1 .. L + 1, NEW t \in 1 .. L + 1, s < t
               PROVE  versions'[s].ckpt < versions'[t].ckpt
    BY <1>3 DEF RootForward
  <2>1. s \in 1 .. L /\ (t = L + 1 \/ t \in 1 .. L)
    BY <1>0, <1>a
  <2>2. CASE t = L + 1
    BY <2>1, <2>2, <1>3, <1>4
  <2>3. CASE t \in 1 .. L
    BY <2>1, <2>3, <1>3 DEF RootForward
  <2> QED BY <2>1, <2>2, <2>3
<1> QED BY <1>0, <1>1, <1>2, <1>3, <1>4, <1>5 DEF Kept

\* Create's PUT writes the first root.
LEMMA PutFirstGrows ==
  ASSUME TypeOK, NEW r \in Roots, PutFirst(r)
  PROVE  /\ Kept /\ RootForward'
         /\ versions = <<>> /\ Len(versions') = 1 /\ versions'[1] = r
<1>1. versions = <<>> /\ versions' = <<r>> /\ Len(versions) = 0 /\ Len(versions') = 1 /\ versions'[1] = r
  BY DEF PutFirst
<1> QED BY <1>1 DEF Kept, RootForward

\* A step that writes no root keeps the roots.
LEMMA UnwrittenKept == ASSUME TypeOK, RootForward, UNCHANGED versions PROVE Kept /\ RootForward'
BY DEF TypeOK, RootForward, Kept

\* As long as roots are kept, a store that read nothing new is where it was.
LEMMA KeptBehind ==
  ASSUME TypeOK, StoreIsBehind, Kept, UNCHANGED seq, NEW p \in Store,
         cur'[p] = cur[p], next'[p] = next[p], cur'[p] # NoRoot
  PROVE  IF seq' THEN next'[p] \in 1 .. Len(versions') /\ cur'[p] = versions'[next'[p]]
         ELSE \E s \in 1 .. Len(versions') : cur'[p] = versions'[s]
<1>1. versions \in Seq(Roots) /\ versions' \in Seq(Roots) /\ Len(versions) <= Len(versions')
  BY DEF TypeOK, Kept
<1>2. CASE seq
  BY <1>1, <1>2 DEF StoreIsBehind, Kept
<1>3. CASE ~seq
  BY <1>1, <1>3 DEF StoreIsBehind, Kept
<1> QED BY <1>2, <1>3

\* And a call that returned nothing new returned a root.
LEMMA KeptAnswer ==
  ASSUME TypeOK, AnswersAreRoots, Kept, NEW p \in Store, answer'[p] = answer[p], answer'[p] # NoRoot
  PROVE  \E s \in 1 .. Len(versions') : versions'[s] = answer'[p]
BY DEF TypeOK, AnswersAreRoots, Kept

\* And what could be sent to write ahead still can.
LEMMA KeptAdvances ==
  ASSUME TypeOK, Kept, UNCHANGED seq, NEW e, NEW n, NEW r, Advances(e, n, r)
  PROVE  Advances(e, n, r)'
BY DEF TypeOK, Kept, Advances

\* The newest root is the last of a sequence that is not empty, and the last to be ahead.
LEMMA NewestIsLast ==
  ASSUME TypeOK, RootForward, versions # <<>>
  PROVE  /\ Newest \in Roots /\ Len(versions) \in 1 .. Len(versions) /\ Newest = versions[Len(versions)]
         /\ \A s \in 1 .. Len(versions) : versions[s] \in Roots /\ versions[s].ckpt <= Newest.ckpt
<1>1. versions \in Seq(Roots) /\ Len(versions) \in Nat \ {0}
  BY DEF TypeOK
<1>2. \A s \in 1 .. Len(versions) : versions[s] \in Roots
  BY <1>1
<1>3. \A s \in 1 .. Len(versions) : s # Len(versions) => versions[s].ckpt < Newest.ckpt
  BY <1>1 DEF RootForward, Newest
<1> QED BY <1>1, <1>2, <1>3 DEF Newest, Roots

-----------------------------------------------------------------------------
(* The conjuncts of the invariant, store by store.                         *)

Held(p) == cur[p] # NoRoot =>
             IF seq THEN next[p] \in 1 .. Len(versions) /\ cur[p] = versions[next[p]]
             ELSE \E s \in 1 .. Len(versions) : cur[p] = versions[s]

Answered(p) == answer[p] # NoRoot => \E s \in 1 .. Len(versions) : versions[s] = answer[p]

Writing(p) == pc[p] = "write" => Advances(cur[p], next[p], Advanced(p))

\* What AnswersForward says of one store and one step.
Told(p) == /\ answer[p] # NoRoot => answer'[p].ckpt >= answer[p].ckpt
           /\ answer'[p] # answer[p] => answer'[p].ckpt >= target[p]

\* p's own share of the invariant, and of AnswersForward.
Share(p) == Held(p) /\ Answered(p) /\ Writing(p)

\* A step that leaves p as it was.
Same(p) == /\ pc'[p] = pc[p] /\ target'[p] = target[p] /\ cur'[p] = cur[p]
           /\ next'[p] = next[p] /\ answer'[p] = answer[p]

\* A store that is told nothing new is told nothing old.
LEMMA UntoldForward == ASSUME TypeOK, NEW p \in Store, answer'[p] = answer[p] PROVE Told(p)
BY DEF TypeOK, Told, Roots

\* A step keeps the invariant if it keeps the roots, every store that moves keeps its own
\* share, and every PUT it leaves on its way writes ahead.
LEMMA StoreByStore ==
  ASSUME RootInv, TypeOK', Kept, RootForward', UNCHANGED seq,
         \A q \in Store : Same(q) \/ (Share(q)' /\ Told(q)),
         \A d \in delayed' : d \in delayed \/ Advances(d.etag, d.seq, d.root)'
  PROVE  RootInv' /\ \A q \in Store : Told(q)
<1> USE DEF RootInv, RootsHold
<1>1. ASSUME NEW q \in Store, Same(q) PROVE Share(q)'
  <2>1. Held(q)'
    BY <1>1, KeptBehind DEF Held, Same
  <2>2. Answered(q)'
    BY <1>1, KeptAnswer DEF Answered, Same
  <2>3. Writing(q)'
    <3>1. pc'[q] = pc[q] /\ cur'[q] = cur[q] /\ next'[q] = next[q] /\ target'[q] = target[q]
      BY <1>1 DEF Same
    <3>2. \A e, n, r : Advances(e, n, r) => Advances(e, n, r)'
      BY KeptAdvances
    <3> DEFINE r == Root(q, target[q])
    <3>3. Writing(q)
      BY DEF WritesAhead, Writing
    <3>4. pc[q] = "write" => Advances(cur[q], next[q], r)
      BY <3>3 DEF Writing, Advanced
    <3>5. pc'[q] = "write" => /\ cur[q] \in Roots /\ r \in Roots /\ cur[q].ckpt < r.ckpt
                              /\ seq => next[q] \in 1 .. Len(versions') /\ versions'[next[q]] = cur[q]
      BY <3>1, <3>2, <3>4 DEF Advances
    <3> QED BY <3>1, <3>5 DEF Writing, Advances, Advanced
  <2> QED BY <2>1, <2>2, <2>3 DEF Share
<1>2. \A q \in Store : Share(q)'
  BY <1>1
<1>3. \A q \in Store : Told(q)
  BY UntoldForward DEF Same
<1>4. StoreIsBehind' /\ AnswersAreRoots'
  BY <1>2 DEF StoreIsBehind, AnswersAreRoots, Share, Held, Answered
<1>5. ASSUME NEW d \in delayed' PROVE Advances(d.etag, d.seq, d.root)'
  <2>1. CASE d \in delayed
    BY <2>1, KeptAdvances DEF WritesAhead
  <2> QED BY <2>1
<1>6. WritesAhead'
  BY <1>2, <1>5 DEF WritesAhead, Share, Writing
<1> QED BY <1>3, <1>4, <1>6

\* The same for a step of one store.
LEMMA OneStore ==
  ASSUME RootInv, TypeOK', Kept, RootForward', UNCHANGED seq, NEW p \in Store, Share(p)', Told(p),
         \A q \in Store \ {p} : Same(q),
         \A d \in delayed' : d \in delayed \/ Advances(d.etag, d.seq, d.root)'
  PROVE  RootInv' /\ \A q \in Store : Told(q)
<1>1. ASSUME NEW q \in Store PROVE Same(q) \/ (Share(q)' /\ Told(q))
  <2>1. CASE q = p
    BY <2>1
  <2>2. CASE q # p
    BY <2>2
  <2> QED BY <2>1, <2>2
<1>2. \A q \in Store : Same(q) \/ (Share(q)' /\ Told(q))
  BY <1>1
<1> QED BY <1>2, StoreByStore

-----------------------------------------------------------------------------
(* Type correctness, from the part of the invariant that types a PUT.      *)

\* Every root that a store writes is one.
LEMMA RootType == ASSUME TypeOK, NEW p \in Store PROVE Root(p, 0) \in Roots /\ Advanced(p) \in Roots
<1>1. target[p] \in Nat
  <2>1. target[p] \in Ckpts \cup {0}
    BY DEF TypeOK
  <2>2. \A c \in Ckpts \cup {0} : c \in Nat
    BY RootAssumption
  <2> QED BY <2>1, <2>2
<1>2. \A c \in Nat : Root(p, c) \in Roots
  BY DEF Root, Roots
<1> QED BY <1>1, <1>2 DEF Advanced

\* Variables keep their types when one store starts, fails or is refused.
LEMMA GotoType ==
  ASSUME TypeOK, NEW p \in Store, NEW phase \in Phase, Goto(p, phase)
  PROVE  pc' \in [Store -> Phase] /\ target' \in [Store -> Ckpts \cup {0}]
BY DEF TypeOK, Goto

\* Every step keeps the types.
LEMMA TypeStep == ASSUME RootInv, [Next]_vars PROVE TypeOK'
<1> USE RootAssumption DEF RootInv, countVars
<1>0. TypeOK /\ WritesAhead /\ (\A p \in Store : Root(p, 0) \in Roots /\ Advanced(p) \in Roots)
  BY RootType
<1>1. ASSUME NEW p \in Store, NEW r \in Roots, NEW e, NEW n \in Nat, Put(e, n, r) PROVE versions' \in Seq(Roots)
  BY <1>0, <1>1 DEF TypeOK, Put
<1>2. ASSUME NEW p \in Store, CreateStart(p) PROVE TypeOK'
  BY <1>0, <1>2, GotoType DEF TypeOK, CreateStart, Phase
<1>3. ASSUME NEW p \in Store, CreateWins(p) PROVE TypeOK'
  BY <1>0, <1>3, GotoType DEF TypeOK, CreateWins, Created, PutFirst, Phase
<1>4. ASSUME NEW p \in Store, CreateFails(p) PROVE TypeOK'
  BY <1>0, <1>4, GotoType DEF TypeOK, CreateFails, Phase
<1>5. ASSUME NEW p \in Store, CreateInDoubt(p) PROVE TypeOK'
  BY <1>0, <1>5, GotoType DEF TypeOK, CreateInDoubt, PutFirst, Phase
<1>6. ASSUME NEW p \in Store, NEW c \in Ckpts \cup {0}, CallStart(p, c) PROVE TypeOK'
  BY <1>0, <1>6 DEF TypeOK, CallStart, Phase
<1>7. ASSUME NEW p \in Store, NEW r \in Roots, Loaded(p, r)
      PROVE  /\ pc' \in [Store -> Phase] /\ target' \in [Store -> Ckpts \cup {0}]
             /\ answer' \in [Store -> Roots \cup {NoRoot}]
  BY <1>0, <1>7, GotoType DEF TypeOK, Loaded, Phase
<1>8. ASSUME NEW p \in Store, LoadRoot(p) PROVE TypeOK'
  <2>1. Newest \in Roots
    BY <1>0, <1>8 DEF TypeOK, LoadRoot, Newest
  <2> QED BY <1>0, <1>7, <1>8, <2>1 DEF TypeOK, LoadRoot
<1>9. ASSUME NEW p \in Store, ProbeFound(p) PROVE TypeOK'
  <2>1. versions[next[p] + 1] \in Roots
    BY <1>0, <1>9 DEF TypeOK, ProbeFound
  <2> QED BY <1>0, <1>9, <2>1 DEF TypeOK, ProbeFound
<1>10. ASSUME NEW p \in Store, ProbeEnd(p) PROVE TypeOK'
  <2>1. cur[p] \in Roots
    BY <1>0, <1>10 DEF TypeOK, ProbeEnd
  <2> QED BY <1>0, <1>7, <1>10, <2>1 DEF TypeOK, ProbeEnd
<1>11. ASSUME NEW p \in Store, LoadFails(p) PROVE TypeOK'
  BY <1>0, <1>11, GotoType DEF TypeOK, LoadFails, Phase
<1>12. ASSUME NEW p \in Store, WriteWins(p) PROVE TypeOK'
  <2>1. versions' \in Seq(Roots)
    BY <1>0, <1>1, <1>12 DEF TypeOK, WriteWins
  <2> QED BY <1>0, <1>12, <2>1, GotoType DEF TypeOK, WriteWins, Written, Phase
<1>13. ASSUME NEW p \in Store, WriteLoses(p) PROVE TypeOK'
  BY <1>0, <1>13, GotoType DEF TypeOK, WriteLoses, Phase
<1>14. ASSUME NEW p \in Store, WriteRefused(p) PROVE TypeOK'
  BY <1>0, <1>14, GotoType DEF TypeOK, WriteRefused, Phase
<1>15. ASSUME NEW p \in Store, WriteTimesOutLanded(p) PROVE TypeOK'
  <2>1. versions' \in Seq(Roots)
    BY <1>0, <1>1, <1>15 DEF TypeOK, WriteTimesOutLanded
  <2> QED BY <1>0, <1>15, <2>1, GotoType DEF TypeOK, WriteTimesOutLanded, WriteInDoubt, Phase
<1>16. ASSUME NEW p \in Store, WriteTimesOutLost(p) PROVE TypeOK'
  BY <1>0, <1>16, GotoType DEF TypeOK, WriteTimesOutLost, WriteInDoubt, Phase
<1>17. ASSUME NEW p \in Store, WriteTimesOutDelayed(p) PROVE TypeOK'
  <2>1. cur[p] \in Roots
    BY <1>0, <1>17 DEF WriteTimesOutDelayed, WriteInDoubt, WritesAhead, Advances
  <2>2. \A d \in delayed' : d.etag \in Roots /\ d.seq \in Nat /\ d.root \in Roots
    BY <1>0, <1>17, <2>1 DEF WriteTimesOutDelayed, TypeOK
  <2>3. pc' \in [Store -> Phase] /\ target' \in [Store -> Ckpts \cup {0}]
    BY <1>0, <1>17, GotoType DEF WriteTimesOutDelayed, WriteInDoubt, Phase
  <2>4. faults' \in Nat
    BY <1>0, <1>17 DEF TypeOK, WriteTimesOutDelayed, WriteInDoubt
  <2>5. UNCHANGED <<seq, versions, restarts, cur, next, answer>>
    BY <1>17 DEF WriteTimesOutDelayed, WriteInDoubt
  <2> QED BY <1>0, <2>2, <2>3, <2>4, <2>5 DEF TypeOK
<1>18. ASSUME NEW p \in Store, WriteRejectedLanded(p) PROVE TypeOK'
  <2>1. versions' \in Seq(Roots)
    BY <1>0, <1>1, <1>18 DEF TypeOK, WriteRejectedLanded
  <2> QED BY <1>0, <1>18, <2>1 DEF TypeOK, WriteRejectedLanded
<1>19. ASSUME NEW p \in Store, Restart(p) PROVE TypeOK'
  BY <1>0, <1>19, GotoType DEF TypeOK, Restart, Phase
<1>20. ASSUME NEW d \in delayed, LateLand(d) PROVE TypeOK'
  <2>1. d.root \in Roots /\ versions \in Seq(Roots)
    BY <1>0 DEF TypeOK
  <2>2. versions' = Append(versions, d.root) \/ versions' = versions
    BY <1>20 DEF LateLand, Put
  <2>3. versions' \in Seq(Roots)
    BY <2>1, <2>2
  <2> QED BY <1>0, <1>20, <2>3 DEF TypeOK, LateLand
<1>21. CASE UNCHANGED vars
  BY <1>0, <1>21 DEF TypeOK, vars
<1> QED BY <1>2, <1>3, <1>4, <1>5, <1>6, <1>8, <1>9, <1>10, <1>11, <1>12, <1>13, <1>14, <1>15,
           <1>16, <1>17, <1>18, <1>19, <1>20, <1>21 DEF Next

-----------------------------------------------------------------------------
(* Every step keeps the invariant.                                         *)

\* What Goto leaves alone, and where it leads.
LEMMA GotoMoves ==
  ASSUME TypeOK, NEW p \in Store, NEW phase \in Phase, Goto(p, phase)
  PROVE  /\ pc'[p] = phase /\ (phase # "idle" => target' = target)
         /\ \A q \in Store \ {p} : pc'[q] = pc[q] /\ target'[q] = target[q]
BY DEF TypeOK, Goto

\* A store that holds and has returned what it did before is right to, while roots are kept.
LEMMA StillHeld ==
  ASSUME RootInv, Kept, UNCHANGED seq, NEW p \in Store,
         cur'[p] = cur[p], next'[p] = next[p], answer'[p] = answer[p]
  PROVE  Held(p)' /\ Answered(p)' /\ Told(p)
<1> USE DEF RootInv, RootsHold
<1>1. Held(p)'
  BY KeptBehind DEF Held
<1>2. Answered(p)'
  BY KeptAnswer DEF Answered
<1> QED BY <1>1, <1>2, UntoldForward

\* A step of one store that reads nothing, and is not about to write after it.
LEMMA Passive ==
  ASSUME RootInv, TypeOK', Kept, RootForward', NEW p \in Store, pc'[p] # "write",
         \A q \in Store \ {p} : pc'[q] = pc[q] /\ target'[q] = target[q],
         UNCHANGED <<seq, cur, next, answer>>,
         \A d \in delayed' : d \in delayed \/ Advances(d.etag, d.seq, d.root)'
  PROVE  RootInv' /\ \A q \in Store : Told(q)
<1>1. Share(p)' /\ Told(p)
  BY StillHeld DEF Share, Writing
<1>2. \A q \in Store \ {p} : Same(q)
  BY DEF Same
<1> QED BY <1>1, <1>2, OneStore

\* A Load that ends with the newest root.
LEMMA LoadedNewest ==
  ASSUME RootInv, TypeOK', NEW p \in Store, versions # <<>>, Loaded(p, Newest),
         UNCHANGED <<seq, versions, delayed>>,
         cur'[p] = Newest, seq => next'[p] = Len(versions),
         \A q \in Store \ {p} : cur'[q] = cur[q] /\ next'[q] = next[q]
  PROVE  RootInv' /\ \A q \in Store : Told(q)
<1> USE DEF RootInv, RootsHold
<1> DEFINE L == Len(versions)
           phase == IF Behind(p, Newest) THEN "write" ELSE "idle"
<1>1. Kept /\ RootForward'
  BY UnwrittenKept
<1>2. /\ Newest \in Roots /\ L \in 1 .. L /\ Newest = versions[L]
      /\ \A s \in 1 .. L : versions[s] \in Roots /\ versions[s].ckpt <= Newest.ckpt
  BY NewestIsLast
<1>3. /\ pc'[p] = phase /\ (phase # "idle" => target' = target)
      /\ \A q \in Store \ {p} : pc'[q] = pc[q] /\ target'[q] = target[q]
  <2>1. phase \in Phase /\ Goto(p, phase)
    BY DEF Loaded, Phase
  <2> QED BY <2>1, GotoMoves
<1>4. /\ answer'[p] = IF Behind(p, Newest) THEN answer[p] ELSE Newest
      /\ \A q \in Store \ {p} : answer'[q] = answer[q]
  BY DEF Loaded, TypeOK
<1>5. \A q \in Store \ {p} : Same(q)
  BY <1>3, <1>4 DEF Same
<1>6. Held(p)'
  <2>1. CASE seq
    BY <1>2, <2>1 DEF Held
  <2>2. CASE ~seq
    BY <1>2, <2>2 DEF Held
  <2> QED BY <2>1, <2>2
<1>7. target[p] \in Nat /\ Root(p, target[p]) \in Roots /\ Root(p, target[p]).ckpt = target[p]
  BY RootType DEF Advanced, Root, Roots
<1>8. ASSUME Behind(p, Newest) PROVE Share(p)' /\ Told(p)
  <2>1. Newest.ckpt < target[p] /\ pc'[p] = "write" /\ target'[p] = target[p] /\ answer'[p] = answer[p]
    BY <1>3, <1>4, <1>8 DEF Behind
  <2>2. Answered(p)' /\ Told(p)
    BY <1>1, <2>1, KeptAnswer, UntoldForward DEF Answered
  <2>3. Advances(Newest, L, Root(p, target[p]))
    BY <1>2, <1>7, <2>1 DEF Advances
  <2>4. Writing(p)'
    BY <1>2, <1>7, <2>1 DEF Writing, Advances, Advanced
  <2> QED BY <1>6, <2>2, <2>4 DEF Share
<1>9. ASSUME ~Behind(p, Newest) PROVE Share(p)' /\ Told(p)
  <2>1. ~(Newest.ckpt < target[p]) /\ pc'[p] = "idle" /\ answer'[p] = Newest
    BY <1>3, <1>4, <1>9 DEF Behind
  <2>2. Answered(p)' /\ Writing(p)'
    BY <1>2, <2>1 DEF Answered, Writing
  <2>3. answer[p] # NoRoot => answer[p].ckpt <= Newest.ckpt
    BY <1>2 DEF AnswersAreRoots
  <2>4. answer[p] # NoRoot => answer[p] \in Roots
    BY DEF TypeOK
  <2>5. Newest.ckpt \in Nat /\ (answer[p] \in Roots => answer[p].ckpt \in Nat)
    BY <1>2 DEF Roots
  <2>6. Told(p)
    BY <1>7, <2>1, <2>3, <2>4, <2>5 DEF Told
  <2> QED BY <1>6, <2>2, <2>6 DEF Share
<1>10. \A d \in delayed' : d \in delayed \/ Advances(d.etag, d.seq, d.root)'
  OBVIOUS
<1>11. Share(p)' /\ Told(p)
  BY <1>8, <1>9
<1> QED BY <1>1, <1>5, <1>10, <1>11, OneStore

\* A write of p that won, or that landed behind p's back, kept the roots.
LEMMA WriteLands ==
  ASSUME RootInv, NEW p \in Store, pc[p] = "write", Put(cur[p], next[p], Advanced(p))
  PROVE  /\ Kept /\ RootForward' /\ Advanced(p) \in Roots
         /\ Len(versions') = Len(versions) + 1 /\ versions'[Len(versions) + 1] = Advanced(p)
         /\ \A s \in 1 .. Len(versions) : versions[s].ckpt < Advanced(p).ckpt
         /\ seq => next[p] = Len(versions)
<1>1. Advances(cur[p], next[p], Advanced(p)) /\ TypeOK /\ RootForward /\ next[p] \in Nat
  BY DEF RootInv, RootsHold, WritesAhead, TypeOK
<1> QED BY <1>1, PutGrows DEF Advances

\* Every step keeps the invariant, and tells no store of an older root than it was told
\* of before.
LEMMA SafeStep == ASSUME RootInv, [Next]_vars PROVE RootInv' /\ \A q \in Store : Told(q)
<1> USE DEF countVars
<1>0. /\ TypeOK /\ TypeOK' /\ RootForward /\ RootsHold /\ WritesAhead
      /\ \A d \in delayed : d \in delayed \/ Advances(d.etag, d.seq, d.root)'
  BY TypeStep DEF RootInv, RootsHold
<1>1. UNCHANGED versions => Kept /\ RootForward'
  BY <1>0, UnwrittenKept
<1>2. {"idle", "create", "load", "write"} \subseteq Phase
  BY DEF Phase
<1>3. ASSUME NEW p \in Store, CreateStart(p) PROVE RootInv' /\ \A q \in Store : Told(q)
  BY <1>0, <1>1, <1>2, <1>3, GotoMoves, Passive DEF CreateStart
<1>4. ASSUME NEW p \in Store, CreateWins(p) PROVE RootInv' /\ \A q \in Store : Told(q)
  <2>1. /\ Kept /\ RootForward' /\ Len(versions') = 1 /\ versions'[1] = Root(p, 0)
    BY <1>0, <1>4, RootType, PutFirstGrows DEF CreateWins
  <2>2. /\ pc'[p] = "idle" /\ UNCHANGED <<seq, delayed, answer>>
        /\ \A q \in Store \ {p} : pc'[q] = pc[q] /\ target'[q] = target[q]
    BY <1>0, <1>2, <1>4, GotoMoves DEF CreateWins
  <2>3. /\ cur'[p] = Root(p, 0) /\ (seq => next'[p] = 1)
        /\ \A q \in Store \ {p} : cur'[q] = cur[q] /\ next'[q] = next[q]
    BY <1>0, <1>4 DEF CreateWins, Created, TypeOK
  <2>4. Held(p)' /\ Writing(p)'
    <3>1. Writing(p)'
      BY <2>2 DEF Writing
    <3>2. CASE seq
      BY <2>1, <2>2, <2>3, <3>1, <3>2 DEF Held
    <3>3. CASE ~seq
      BY <2>1, <2>2, <2>3, <3>1, <3>3 DEF Held
    <3> QED BY <3>2, <3>3
  <2>5. Answered(p)' /\ Told(p)
    BY <1>0, <2>1, <2>2, KeptAnswer, UntoldForward DEF Answered, RootsHold
  <2>6. \A q \in Store \ {p} : Same(q)
    BY <2>2, <2>3 DEF Same
  <2>7. Share(p)'
    BY <2>4, <2>5 DEF Share
  <2> QED BY <1>0, <2>1, <2>2, <2>5, <2>6, <2>7, OneStore
<1>5. ASSUME NEW p \in Store, CreateFails(p) PROVE RootInv' /\ \A q \in Store : Told(q)
  BY <1>0, <1>1, <1>2, <1>5, GotoMoves, Passive DEF CreateFails
<1>6. ASSUME NEW p \in Store, CreateInDoubt(p) PROVE RootInv' /\ \A q \in Store : Told(q)
  <2>1. Kept /\ RootForward'
    BY <1>0, <1>6, RootType, PutFirstGrows DEF CreateInDoubt
  <2>2. UNCHANGED <<seq, delayed, cur, next, answer>> /\ Goto(p, "idle")
    BY <1>6 DEF CreateInDoubt
  <2> QED BY <1>0, <1>2, <2>1, <2>2, GotoMoves, Passive
<1>7. ASSUME NEW p \in Store, NEW c \in Ckpts \cup {0}, CallStart(p, c)
      PROVE  RootInv' /\ \A q \in Store : Told(q)
  <2>1. pc'[p] # "write" /\ \A q \in Store \ {p} : pc'[q] = pc[q] /\ target'[q] = target[q]
    BY <1>0, <1>7 DEF CallStart, TypeOK
  <2> QED BY <1>0, <1>1, <1>7, <2>1, Passive DEF CallStart
<1>8. ASSUME NEW p \in Store, LoadRoot(p) PROVE RootInv' /\ \A q \in Store : Told(q)
  <2>1. /\ cur'[p] = Newest /\ UNCHANGED <<seq, versions, delayed, next>> /\ ~seq /\ versions # <<>>
        /\ \A q \in Store \ {p} : cur'[q] = cur[q] /\ next'[q] = next[q]
    BY <1>0, <1>8 DEF LoadRoot, TypeOK
  <2> QED BY <1>0, <1>8, <2>1, LoadedNewest DEF LoadRoot
<1>9. ASSUME NEW p \in Store, ProbeFound(p) PROVE RootInv' /\ \A q \in Store : Told(q)
  <2>1. /\ pc[p] = "load" /\ seq /\ next[p] < Len(versions)
        /\ cur'[p] = versions[next[p] + 1] /\ next'[p] = next[p] + 1
        /\ \A q \in Store \ {p} : cur'[q] = cur[q] /\ next'[q] = next[q]
        /\ UNCHANGED <<seq, versions, delayed, pc, target, answer>>
    BY <1>0, <1>9 DEF ProbeFound, TypeOK
  <2>2. next[p] \in Nat /\ Len(versions) \in Nat
    BY <1>0 DEF TypeOK
  <2>3. Held(p)' /\ Writing(p)'
    BY <2>1, <2>2 DEF Held, Writing
  <2>4. Answered(p)' /\ Told(p)
    BY <1>0, <1>1, <2>1, KeptAnswer, UntoldForward DEF Answered, RootsHold
  <2>5. \A q \in Store \ {p} : Same(q)
    BY <2>1 DEF Same
  <2>6. Share(p)'
    BY <2>3, <2>4 DEF Share
  <2> QED BY <1>0, <1>1, <2>1, <2>4, <2>5, <2>6, OneStore
<1>10. ASSUME NEW p \in Store, ProbeEnd(p) PROVE RootInv' /\ \A q \in Store : Told(q)
  <2>1. /\ seq /\ next[p] >= Len(versions) /\ cur[p] # NoRoot /\ Loaded(p, cur[p])
        /\ UNCHANGED <<seq, versions, delayed, cur, next>>
    BY <1>10 DEF ProbeEnd
  <2>2. next[p] \in 1 .. Len(versions) /\ cur[p] = versions[next[p]]
    BY <1>0, <2>1 DEF RootsHold, StoreIsBehind
  <2>3. Len(versions) \in Nat /\ versions \in Seq(Roots)
    BY <1>0 DEF TypeOK
  <2>4. next[p] = Len(versions) /\ versions # <<>>
    BY <2>1, <2>2, <2>3
  <2>5. cur[p] = Newest
    BY <2>2, <2>4 DEF Newest
  <2> QED BY <1>0, <2>1, <2>4, <2>5, LoadedNewest
<1>11. ASSUME NEW p \in Store, LoadFails(p) PROVE RootInv' /\ \A q \in Store : Told(q)
  BY <1>0, <1>1, <1>2, <1>11, GotoMoves, Passive DEF LoadFails
<1>12. ASSUME NEW p \in Store, WriteWins(p) PROVE RootInv' /\ \A q \in Store : Told(q)
  <2> DEFINE L == Len(versions)
             r == Advanced(p)
  <2>1. pc[p] = "write" /\ Put(cur[p], next[p], Advanced(p)) /\ UNCHANGED <<seq, delayed>>
    BY <1>12 DEF WriteWins
  <2>2. /\ Kept /\ RootForward' /\ r \in Roots /\ Len(versions') = L + 1 /\ versions'[L + 1] = r
        /\ \A s \in 1 .. L : versions[s].ckpt < r.ckpt
        /\ seq => next[p] = L
    BY <2>1, WriteLands
  <2>3. pc'[p] = "idle" /\ \A q \in Store \ {p} : pc'[q] = pc[q] /\ target'[q] = target[q]
    BY <1>0, <1>2, <1>12, GotoMoves DEF WriteWins
  <2>4. /\ cur'[p] = r /\ answer'[p] = r /\ next'[p] = IF seq THEN next[p] + 1 ELSE next[p]
        /\ \A q \in Store \ {p} : cur'[q] = cur[q] /\ next'[q] = next[q] /\ answer'[q] = answer[q]
    BY <1>0, <1>12 DEF WriteWins, Written, TypeOK
  <2>5. L \in Nat
    BY <1>0 DEF TypeOK
  <2>6. Answered(p)'
    BY <2>2, <2>4, <2>5 DEF Answered
  <2>7. Held(p)'
    <3>1. CASE seq
      BY <2>1, <2>2, <2>4, <2>5, <3>1 DEF Held
    <3>2. CASE ~seq
      BY <2>1, <2>2, <2>4, <2>5, <3>2 DEF Held
    <3> QED BY <3>1, <3>2
  <2>8. Writing(p)'
    BY <2>3 DEF Writing
  <2>9. Told(p)
    <3>1. r.ckpt = target[p] /\ target[p] \in Nat
      BY <2>2 DEF Advanced, Root, Roots
    <3>2. answer[p] # NoRoot => answer[p] \in Roots /\ answer[p].ckpt < r.ckpt
      BY <1>0, <2>2 DEF TypeOK, RootsHold, AnswersAreRoots
    <3> QED BY <2>4, <3>1, <3>2 DEF Told, Roots
  <2>10. \A q \in Store \ {p} : Same(q)
    BY <2>3, <2>4 DEF Same
  <2>11. Share(p)'
    BY <2>6, <2>7, <2>8 DEF Share
  <2> QED BY <1>0, <2>1, <2>2, <2>9, <2>10, <2>11, OneStore
<1>13. ASSUME NEW p \in Store, WriteLoses(p) PROVE RootInv' /\ \A q \in Store : Told(q)
  BY <1>0, <1>1, <1>2, <1>13, GotoMoves, Passive DEF WriteLoses
<1>14. ASSUME NEW p \in Store, WriteRefused(p) PROVE RootInv' /\ \A q \in Store : Told(q)
  BY <1>0, <1>1, <1>2, <1>14, GotoMoves, Passive DEF WriteRefused
<1>15. ASSUME NEW p \in Store, WriteTimesOutLanded(p) PROVE RootInv' /\ \A q \in Store : Told(q)
  <2>1. Kept /\ RootForward'
    BY <1>15, WriteLands DEF WriteTimesOutLanded, WriteInDoubt
  <2>2. UNCHANGED <<seq, delayed, cur, next, answer>> /\ Goto(p, "load")
    BY <1>15 DEF WriteTimesOutLanded, WriteInDoubt
  <2> QED BY <1>0, <1>2, <2>1, <2>2, GotoMoves, Passive
<1>16. ASSUME NEW p \in Store, WriteTimesOutLost(p) PROVE RootInv' /\ \A q \in Store : Told(q)
  BY <1>0, <1>1, <1>2, <1>16, GotoMoves, Passive DEF WriteTimesOutLost, WriteInDoubt
<1>17. ASSUME NEW p \in Store, WriteTimesOutDelayed(p) PROVE RootInv' /\ \A q \in Store : Told(q)
  <2> DEFINE late == [etag |-> cur[p], seq |-> next[p], root |-> Advanced(p)]
  <2>1. UNCHANGED <<seq, versions, cur, next, answer>> /\ Goto(p, "load")
    BY <1>17 DEF WriteTimesOutDelayed, WriteInDoubt
  <2>2. Advances(cur[p], next[p], Advanced(p))
    BY <1>0, <1>17 DEF WriteTimesOutDelayed, WriteInDoubt, WritesAhead
  <2>3. \A e, n, r : Advances(e, n, r) => Advances(e, n, r)'
    BY <1>0, <1>1, <2>1, KeptAdvances
  <2>4. Advances(late.etag, late.seq, late.root)
    BY <2>2
  <2>5. \A d \in delayed' : d \in delayed \/ d = late
    BY <1>17 DEF WriteTimesOutDelayed
  <2>6. \A d \in delayed' : d \in delayed \/ Advances(d.etag, d.seq, d.root)'
    BY <2>3, <2>4, <2>5
  <2> QED BY <1>0, <1>1, <1>2, <2>1, <2>6, GotoMoves, Passive
<1>18. ASSUME NEW p \in Store, WriteRejectedLanded(p) PROVE RootInv' /\ \A q \in Store : Told(q)
  <2>1. Kept /\ RootForward'
    BY <1>18, WriteLands DEF WriteRejectedLanded
  <2>2. UNCHANGED <<seq, delayed>> /\ \A q \in Store : Same(q)
    BY <1>18 DEF WriteRejectedLanded, Same
  <2> QED BY <1>0, <2>1, <2>2, StoreByStore
<1>19. ASSUME NEW p \in Store, Restart(p) PROVE RootInv' /\ \A q \in Store : Told(q)
  <2>1. /\ UNCHANGED <<seq, versions, delayed, answer>> /\ cur'[p] = NoRoot
        /\ \A q \in Store \ {p} : cur'[q] = cur[q] /\ next'[q] = next[q]
    BY <1>0, <1>19 DEF Restart, TypeOK
  <2>2. pc'[p] = "idle" /\ \A q \in Store \ {p} : pc'[q] = pc[q] /\ target'[q] = target[q]
    BY <1>0, <1>2, <1>19, GotoMoves DEF Restart
  <2>3. Held(p)' /\ Writing(p)'
    BY <2>1, <2>2 DEF Held, Writing
  <2>4. Answered(p)' /\ Told(p)
    BY <1>0, <1>1, <2>1, KeptAnswer, UntoldForward DEF Answered, RootsHold
  <2>5. \A q \in Store \ {p} : Same(q)
    BY <2>1, <2>2 DEF Same
  <2>6. Share(p)'
    BY <2>3, <2>4 DEF Share
  <2> QED BY <1>0, <1>1, <2>1, <2>4, <2>5, <2>6, OneStore
<1>20. ASSUME NEW d \in delayed, LateLand(d) PROVE RootInv' /\ \A q \in Store : Told(q)
  <2>1. Advances(d.etag, d.seq, d.root) /\ d.seq \in Nat
    BY <1>0 DEF WritesAhead, TypeOK
  <2>2. ASSUME Put(d.etag, d.seq, d.root) PROVE Kept /\ RootForward'
    BY <1>0, <2>1, <2>2, PutGrows
  <2>3. Kept /\ RootForward'
    BY <1>1, <1>20, <2>2 DEF LateLand
  <2>4. UNCHANGED seq /\ \A q \in Store : Same(q)
    BY <1>20 DEF LateLand, Same
  <2>5. \A e \in delayed' : e \in delayed
    BY <1>20 DEF LateLand
  <2> QED BY <1>0, <2>3, <2>4, <2>5, StoreByStore
<1>21. CASE UNCHANGED vars
  <2>1. UNCHANGED <<seq, delayed, versions>> /\ \A q \in Store : Same(q)
    BY <1>21 DEF vars, Same
  <2> QED BY <1>0, <1>1, <2>1, StoreByStore
<1> QED BY <1>3, <1>4, <1>5, <1>6, <1>7, <1>8, <1>9, <1>10, <1>11, <1>12, <1>13, <1>14, <1>15,
           <1>16, <1>17, <1>18, <1>19, <1>20, <1>21 DEF Next

-----------------------------------------------------------------------------
(* The theorems.                                                           *)

\* An empty prefix satisfies the invariant.
LEMMA InitInv == Init => RootInv
<1> SUFFICES ASSUME Init PROVE RootInv
  OBVIOUS
<1>1. TypeOK
  BY RootAssumption DEF Init, TypeOK, Phase
<1>2. RootsHold
  BY DEF Init, RootsHold, RootForward, AnswersAreRoots, StoreIsBehind
<1>3. WritesAhead
  BY DEF Init, WritesAhead
<1> QED BY <1>1, <1>2, <1>3 DEF RootInv

\* Every Advance about to write, and every PUT a client gave up on, would write ahead of
\* all roots if its condition held: why the conditions of src/s3c suffice.
THEOREM RootInvariant == Spec => []RootInv
<1>1. RootInv /\ [Next]_vars => RootInv'
  BY SafeStep
<1> QED BY InitInv, <1>1, PTL DEF Spec

\* The variables of every store and of the prefix keep their types.
THEOREM RootTypes == Spec => []TypeOK
<1>1. RootInv => TypeOK
  BY DEF RootInv
<1> QED BY RootInvariant, <1>1, PTL

\* The checkpoint pointer never goes back and never repeats; what Load and Advance return
\* was the root; a store holds a root of the sequence, at the position it probed to.
THEOREM RootsHoldAlways == Spec => []RootsHold
<1>1. RootInv => RootsHold
  BY DEF RootInv
<1> QED BY RootInvariant, <1>1, PTL

\* No process is told an older pointer than before, across its restarts; an Advance that
\* succeeds returns a pointer at its target or past it.
THEOREM AnswersNeverBack == Spec => AnswersForward
<1>1. RootInv /\ [Next]_vars =>
        [\A p \in Store : /\ answer[p] # NoRoot => answer'[p].ckpt >= answer[p].ckpt
                          /\ answer'[p] # answer[p] => answer'[p].ckpt >= target[p]]_vars
  BY SafeStep DEF Told
<1> QED BY RootInvariant, <1>1, PTL DEF Spec, AnswersForward
=============================================================================
