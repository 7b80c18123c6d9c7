-------------------------- MODULE LeaseFenceProofs --------------------------
(***************************************************************************)
(* Proofs about LeaseFence, for any nodes, units, lease times and bounds:  *)
(* what the fence guarantees however the nodes misbehave, and what the     *)
(* holder's and taker's discipline add when clocks are live.               *)
(***************************************************************************)
EXTENDS LeaseFence, TLAPS

-----------------------------------------------------------------------------
(* The fold of one record.                                                 *)

\* What a record may do to a lease: never a lower epoch; within an epoch never
\* another holder, an earlier deadline or a release undone.
Forward(l, k) ==
  /\ l.epoch <= k.epoch
  /\ l.epoch = k.epoch => /\ l.node = k.node
                          /\ l.deadline <= k.deadline
                          /\ l.released => k.released

\* applyRecord maps leases to leases, moves them forward, and leaves the epoch of
\* no grant above the lease's.
LEMMA ApplyForward ==
  ASSUME NEW l \in Lease, NEW r \in Record
  PROVE  /\ applyRecord(l, r) \in Lease
         /\ Forward(l, applyRecord(l, r))
         /\ r.kind = "grant" => r.epoch <= applyRecord(l, r).epoch
         /\ r.kind = "commit" => applyRecord(l, r) = l
<1> USE DEF Lease, Record, Forward, HeldBy
<1>1. CASE Takes(l, r)
  BY <1>1 DEF applyRecord, Takes
<1>2. CASE ~Takes(l, r) /\ Renews(l, r)
  BY <1>2 DEF applyRecord, Takes, Renews
<1>3. CASE ~Takes(l, r) /\ ~Renews(l, r) /\ Releases(l, r)
  BY <1>3 DEF applyRecord, Takes, Releases
<1>4. CASE ~Takes(l, r) /\ ~Renews(l, r) /\ ~Releases(l, r)
  BY <1>4 DEF applyRecord, Takes
<1> QED BY <1>1, <1>2, <1>3, <1>4

\* Moving forward twice is moving forward.
LEMMA ForwardTwice ==
  ASSUME NEW l \in Lease, NEW k \in Lease, NEW m \in Lease, Forward(l, k), Forward(k, m)
  PROVE  Forward(l, m)
BY DEF Lease, Forward

\* The fold of a batch maps tables to tables and moves each unit's lease forward.
LEMMA ApplyTable ==
  ASSUME NEW t \in Table, NEW recs \in Records
  PROVE  /\ Apply(t, recs) \in Table
         /\ \A u \in Unit : Forward(t[u], Apply(t, recs)[u])
<1>1. ASSUME NEW u \in Unit
      PROVE  /\ Apply(t, recs)[u] \in Lease
             /\ Forward(t[u], Apply(t, recs)[u])
  <2>1. recs[u][1] \in Record /\ recs[u][2] \in Record /\ t[u] \in Lease
    BY DEF Records, Table
  <2>2. Apply(t, recs)[u] = applyRecord(applyRecord(t[u], recs[u][1]), recs[u][2])
    BY DEF Apply
  <2> QED BY <2>1, <2>2, ApplyForward, ForwardTwice
<1> QED BY <1>1 DEF Apply, Table

-----------------------------------------------------------------------------
(* Type correctness.                                                       *)

\* The records a node may stage are records.
LEMMA ChoicesType ==
  ASSUME NEW n \in Node, NEW t \in Nat, table[n] \in Table
  PROVE  Choices(n, t) \subseteq Records
<1>1. ASSUME NEW l \in Lease PROVE UnitRecords(n, l, t) \subseteq Record \X Record
  <2>1. /\ Nothing \in Record
        /\ SegCommit(l.epoch) \in Record /\ SegCommit(l.epoch + 1) \in Record
        /\ Release(l.epoch) \in Record
        /\ Grant(l.epoch, n, t + TTL) \in Record /\ Grant(l.epoch + 1, n, t + TTL) \in Record
    BY <1>1, LeaseAssumption DEF Nothing, SegCommit, Release, Grant, Record, Lease
  <2> QED BY <2>1 DEF UnitRecords, HolderRecords, TakerRecords
<1>2. ASSUME NEW r \in Choices(n, t), NEW u \in Unit PROVE r[u] \in Record \X Record
  BY <1>1, <1>2 DEF Choices, Table
<1> QED BY <1>2 DEF Choices, Records

\* The empty batch and the empty table are of their types.
LEMMA EmptyType == /\ NoRecords \in Records
                   /\ [u \in Unit |-> Unheld] \in Table
BY DEF NoRecords, Records, Nothing, Record, Unheld, HeldBy, Table, Lease

\* A commit that passes names a unit, its epoch, the writer and the batch's slot, and
\* the writer holds that epoch once the unit's first record is folded; if the first
\* record is a commit as well, it held it before.
LEMMA PassingFacts ==
  ASSUME NEW t \in Table, NEW n \in Node, NEW recs \in Records,
         NEW a \in Passing(t, n, recs)
  PROVE  /\ a.unit \in Unit /\ a.epoch \in Nat /\ a.writer = n /\ a.at = Len(log) + 1
         /\ HoldsEpoch(applyRecord(t[a.unit], recs[a.unit][1]), n, a.epoch)
<1>1. PICK u \in Unit, i \in {1, 2} :
        /\ a = [unit |-> u, epoch |-> recs[u][i].epoch, writer |-> n, at |-> Len(log) + 1]
        /\ Passes(t[u], n, recs[u], i)
  BY DEF Passing
<1>2. recs[u][1] \in Record /\ recs[u][2] \in Record /\ t[u] \in Lease
  BY DEF Records, Table
<1>3. a.epoch \in Nat
  BY <1>1, <1>2 DEF Record
<1>4. i = 1 => applyRecord(t[u], recs[u][1]) = t[u]
  BY <1>1, <1>2, ApplyForward DEF Passes
<1> QED BY <1>1, <1>3, <1>4 DEF Passes

\* Landing a batch extends the chain by it and the history by its fold.
LEMMA LandFacts ==
  ASSUME TypeOK, NEW n \in Node, Land(n)
  PROVE  /\ log' \in Seq(Batch)
         /\ folded' \in Seq(Table)
         /\ Len(log') = Len(log) + 1 /\ Len(folded') = Len(log') + 1
         /\ \A s \in 1 .. Len(log) : log'[s] = log[s]
         /\ \A s \in 1 .. Len(folded) : folded'[s] = folded[s]
         /\ log'[Len(log) + 1].recs = staged[n]
         /\ Ledger \in Table /\ Ledger' = Apply(Ledger, staged[n])
<1>1. staged[n] \in Records /\ folded \in Seq(Table) /\ Len(folded) = Len(log) + 1
  BY DEF TypeOK
<1>2. Ledger \in Table
  BY <1>1 DEF Ledger, TypeOK
<1>3. Apply(Ledger, staged[n]) \in Table
  BY <1>1, <1>2, ApplyTable
<1>4. folded' \in Seq(Table) /\ Len(folded') = Len(folded) + 1
  BY <1>1, <1>3 DEF Land
<1>5. \A s \in 1 .. Len(folded) : folded'[s] = folded[s]
  BY <1>1, <1>3 DEF Land
<1>6. Ledger' = Apply(Ledger, staged[n])
  BY <1>1, <1>3, <1>4 DEF Land, Ledger
<1>7. [writer |-> n, recs |-> staged[n]] \in Batch
  BY <1>1 DEF Batch
<1>8. /\ log' \in Seq(Batch)
      /\ Len(log') = Len(log) + 1
      /\ \A s \in 1 .. Len(log) : log'[s] = log[s]
      /\ log'[Len(log) + 1] = [writer |-> n, recs |-> staged[n]]
  BY <1>7 DEF Land, TypeOK
<1> QED BY <1>1, <1>2, <1>4, <1>5, <1>6, <1>8

\* Types are kept by every step.
LEMMA TypeOKStep == TypeOK /\ [Next]_vars => TypeOK'
<1> SUFFICES ASSUME TypeOK, [Next]_vars PROVE TypeOK'
  OBVIOUS
<1>1. CASE Tick
  BY <1>1 DEF Tick, chainVars, TypeOK
<1>2. ASSUME NEW n \in Node, FoldNext(n) PROVE TypeOK'
  <2>1. log[pos[n] + 1].recs \in Records /\ table[n] \in Table
    <3>1. pos[n] + 1 \in 1 .. Len(log)
      BY <1>2 DEF FoldNext, TypeOK
    <3>2. log[pos[n] + 1] \in Batch
      BY <3>1 DEF TypeOK
    <3> QED BY <3>2 DEF Batch, TypeOK
  <2>2. Apply(table[n], log[pos[n] + 1].recs) \in Table
    BY <2>1, ApplyTable
  <2>3. table' \in [Node -> Table] /\ pos' \in [Node -> 0 .. Len(log)]
    BY <1>2, <2>2 DEF FoldNext, Observe, TypeOK
  <2> QED BY <1>2, <2>3 DEF FoldNext, chainVars, TypeOK
<1>3. ASSUME NEW n \in Node, Round(n) PROVE TypeOK'
  <2>1. Choices(n, now) \subseteq Records
    BY ChoicesType DEF TypeOK
  <2> QED BY <1>3, <2>1 DEF Round, chainVars, TypeOK
<1>4. ASSUME NEW n \in Node, LazyRound(n) PROVE TypeOK'
  <2>1. Choices(n, seen[n]) \subseteq Records
    BY ChoicesType DEF TypeOK
  <2> QED BY <1>4, <2>1 DEF LazyRound, chainVars, TypeOK
<1>5. ASSUME NEW n \in Node, AppendLands(n) \/ AppendInDoubt(n) PROVE TypeOK'
  <2>1. Land(n) /\ UNCHANGED <<now, seen>>
    BY <1>5 DEF AppendLands, AppendInDoubt
  <2>2. staged[n] \in Records /\ table[n] \in Table
    BY DEF TypeOK
  <2>3. table' \in [Node -> Table] /\ pos' \in [Node -> 0 .. Len(log')]
    <3>1. Apply(table[n], staged[n]) \in Table
      BY <2>2, ApplyTable
    <3>2. Len(log') = Len(log) + 1 /\ Len(log) \in Nat
      BY <2>1, LandFacts DEF TypeOK
    <3>3. pos[n] = Len(log)
      BY <2>1 DEF Land
    <3>4. CASE AppendLands(n)
      BY <3>1, <3>2, <3>3, <3>4 DEF AppendLands, Observe, TypeOK
    <3>5. CASE AppendInDoubt(n)
      BY <3>2, <3>5 DEF AppendInDoubt, TypeOK
    <3> QED BY <1>5, <3>4, <3>5
  <2>4. staged' \in [Node -> Records]
    BY <2>1, EmptyType DEF Land, TypeOK
  <2>5. \A a \in accepted' : /\ a.unit \in Unit /\ a.epoch \in Nat /\ a.writer \in Node
                            /\ a.at \in 1 .. Len(log')
    <3>1. Len(log') = Len(log) + 1 /\ Len(log) \in Nat /\ Ledger \in Table
      BY <2>1, LandFacts DEF TypeOK
    <3>2. accepted' = accepted \cup Passing(Ledger, n, staged[n])
      BY <2>1 DEF Land
    <3>3. ASSUME NEW a \in Passing(Ledger, n, staged[n])
          PROVE  a.unit \in Unit /\ a.epoch \in Nat /\ a.writer \in Node /\ a.at = Len(log) + 1
      BY <2>2, <3>1, <3>3, PassingFacts
    <3> QED BY <3>1, <3>2, <3>3 DEF TypeOK
  <2> QED BY <2>1, <2>3, <2>4, <2>5, LandFacts DEF TypeOK
<1>6. ASSUME NEW n \in Node, AppendFails(n) PROVE TypeOK'
  BY <1>6, EmptyType DEF AppendFails, chainVars, TypeOK
<1>7. ASSUME NEW n \in Node, Restart(n) PROVE TypeOK'
  BY <1>7, EmptyType DEF Restart, chainVars, TypeOK
<1>8. CASE UNCHANGED vars
  BY <1>8 DEF vars, TypeOK
<1> QED BY <1>1, <1>2, <1>3, <1>4, <1>5, <1>6, <1>7, <1>8 DEF Next

\* The initial values are of their types.
LEMMA TypeOKInit == Init => TypeOK
<1> SUFFICES ASSUME Init PROVE TypeOK
  OBVIOUS
<1>1. log = <<>> /\ folded = <<[u \in Unit |-> Unheld]>> /\ [u \in Unit |-> Unheld] \in Table
  BY EmptyType DEF Init
<1>2. folded \in Seq(Table) /\ Len(folded) = Len(log) + 1
  BY <1>1
<1> QED BY <1>1, <1>2, EmptyType DEF Init, TypeOK

\* Every variable keeps its type.
THEOREM TypeCorrect == Spec => []TypeOK
BY TypeOKInit, TypeOKStep, PTL DEF Spec

-----------------------------------------------------------------------------
(* The fence.                                                              *)

\* The chain and its history only change when a batch lands.
LEMMA NextChainStep == [Next]_vars => UNCHANGED chainVars \/ \E n \in Node : Land(n)
BY DEF Next, Tick, FoldNext, Round, LazyRound, AppendLands, AppendInDoubt, AppendFails,
       Restart, vars, chainVars

\* What a landing batch does to one unit: its lease moves forward over the first
\* record and again over the second, past the epochs of the batch's grants.
LEMMA LandUnit ==
  ASSUME TypeOK, NEW n \in Node, Land(n), NEW u \in Unit,
         NEW mid, mid = applyRecord(Ledger[u], staged[n][u][1])
  PROVE  /\ Ledger[u] \in Lease /\ mid \in Lease /\ Ledger'[u] \in Lease
         /\ Forward(Ledger[u], mid) /\ Forward(mid, Ledger'[u])
         /\ Forward(Ledger[u], Ledger'[u])
         /\ \A i \in {1, 2} : staged[n][u][i].kind = "grant" =>
                               staged[n][u][i].epoch <= Ledger'[u].epoch
<1>1. staged[n][u][1] \in Record /\ staged[n][u][2] \in Record
  BY DEF TypeOK, Records
<1>2. Ledger[u] \in Lease /\ Ledger'[u] = applyRecord(mid, staged[n][u][2])
  BY LandFacts DEF Table, Apply
<1>3. mid \in Lease /\ Forward(Ledger[u], mid)
      /\ (staged[n][u][1].kind = "grant" => staged[n][u][1].epoch <= mid.epoch)
  BY <1>1, <1>2, ApplyForward
<1>4. Ledger'[u] \in Lease /\ Forward(mid, Ledger'[u])
      /\ (staged[n][u][2].kind = "grant" => staged[n][u][2].epoch <= Ledger'[u].epoch)
  BY <1>1, <1>2, <1>3, ApplyForward
<1>5. mid.epoch <= Ledger'[u].epoch
  BY <1>4 DEF Forward
<1>6. staged[n][u][1].kind = "grant" => staged[n][u][1].epoch <= Ledger'[u].epoch
  BY <1>1, <1>3, <1>4, <1>5 DEF Lease, Record
<1> QED BY <1>2, <1>3, <1>4, <1>6, ForwardTwice

\* Along the chain every unit's lease moves forward.
THEOREM LeasesMoveForward == Spec => LeasesForward
<1>1. ASSUME TypeOK, [Next]_vars, NEW u \in Unit PROVE Forward(Ledger[u], Ledger'[u])
  <2>1. CASE UNCHANGED chainVars
    <3>1. Ledger[u] \in Lease
      BY <1>1 DEF Ledger, TypeOK, Table
    <3> QED BY <2>1, <3>1 DEF chainVars, Ledger, Forward, Lease
  <2>2. ASSUME NEW n \in Node, Land(n) PROVE Forward(Ledger[u], Ledger'[u])
    BY <1>1, <2>2, LandUnit
  <2> QED BY <1>1, <2>1, <2>2, NextChainStep
<1>2. TypeOK /\ [Next]_vars =>
        [\A u \in Unit :
           /\ Ledger[u].epoch <= Ledger'[u].epoch
           /\ Ledger[u].epoch = Ledger'[u].epoch =>
                /\ Ledger[u].node = Ledger'[u].node
                /\ Ledger[u].deadline <= Ledger'[u].deadline
                /\ Ledger[u].released => Ledger'[u].released]_vars
  BY <1>1 DEF Forward
<1> QED BY <1>2, TypeCorrect, PTL DEF Spec, LeasesForward

\* The commits of a landing batch that pass the fence are of the epoch its unit has
\* when it is folded or of the one before, and of the holder's.
LEMMA PassedCommit ==
  ASSUME TypeOK, NEW n \in Node, Land(n), NEW a \in Passing(Ledger, n, staged[n])
  PROVE  /\ a.unit \in Unit /\ a.epoch \in Nat /\ a.writer = n /\ a.at = Len(log) + 1
         /\ a.epoch = applyRecord(Ledger[a.unit], staged[n][a.unit][1]).epoch
         /\ a.writer = applyRecord(Ledger[a.unit], staged[n][a.unit][1]).node
         /\ Forward(Ledger[a.unit], applyRecord(Ledger[a.unit], staged[n][a.unit][1]))
         /\ Forward(applyRecord(Ledger[a.unit], staged[n][a.unit][1]), Ledger'[a.unit])
         /\ Ledger[a.unit] \in Lease /\ Ledger'[a.unit] \in Lease
<1>1. Ledger \in Table /\ staged[n] \in Records
  BY LandFacts DEF TypeOK
<1>2. /\ a.unit \in Unit /\ a.epoch \in Nat /\ a.writer = n /\ a.at = Len(log) + 1
      /\ HoldsEpoch(applyRecord(Ledger[a.unit], staged[n][a.unit][1]), n, a.epoch)
  BY <1>1, PassingFacts
<1> QED BY <1>2, LandUnit DEF HoldsEpoch

\* The fence's invariant: what FencedCommits and NoZombieCommit need of the chain.
FenceInv == TypeOK /\ AcceptedBelow /\ GrantsBelow /\ FencedCommits /\ NoZombieCommit

\* A landing batch keeps the accepted commits below the lease of their unit.
LEMMA AcceptedBelowLand ==
  ASSUME FenceInv, NEW n \in Node, Land(n)
  PROVE  AcceptedBelow'
<1>1. TypeOK /\ accepted' = accepted \cup Passing(Ledger, n, staged[n])
  BY DEF FenceInv, Land
<1>2. ASSUME NEW a \in Passing(Ledger, n, staged[n])
      PROVE  /\ a.epoch <= Ledger'[a.unit].epoch
             /\ a.epoch = Ledger'[a.unit].epoch => a.writer = Ledger'[a.unit].node
  BY <1>1, <1>2, PassedCommit DEF Forward
<1>3. ASSUME NEW a \in accepted
      PROVE  /\ a.epoch <= Ledger'[a.unit].epoch
             /\ a.epoch = Ledger'[a.unit].epoch => a.writer = Ledger'[a.unit].node
  <2>1. /\ Ledger[a.unit] \in Lease /\ Ledger'[a.unit] \in Lease
        /\ Forward(Ledger[a.unit], Ledger'[a.unit])
    BY <1>1, LandUnit DEF TypeOK
  <2>2. a.epoch \in Nat
    BY <1>1 DEF TypeOK
  <2> QED BY <2>1, <2>2 DEF FenceInv, AcceptedBelow, Forward, Lease
<1> QED BY <1>1, <1>2, <1>3 DEF AcceptedBelow

\* A landing batch keeps the chain's grants below the lease of their unit.
LEMMA GrantsBelowLand ==
  ASSUME FenceInv, NEW n \in Node, Land(n)
  PROVE  GrantsBelow'
<1> SUFFICES ASSUME NEW s \in 1 .. Len(log'), NEW u \in Unit, NEW i \in {1, 2},
                    log'[s].recs[u][i].kind = "grant"
             PROVE  log'[s].recs[u][i].epoch <= Ledger'[u].epoch
  BY DEF GrantsBelow
<1>1. TypeOK /\ Len(log) \in Nat /\ Len(log') = Len(log) + 1
  BY LandFacts DEF FenceInv, TypeOK
<1>2. CASE s \in 1 .. Len(log)
  <2>1. log'[s] = log[s] /\ log[s] \in Batch
    BY <1>1, <1>2, LandFacts DEF TypeOK
  <2>2. log[s].recs[u][i] \in Record
    BY <2>1 DEF Batch, Records
  <2>3. log[s].recs[u][i].epoch <= Ledger[u].epoch
    BY <1>2, <2>1 DEF FenceInv, GrantsBelow
  <2>4. /\ Ledger[u] \in Lease /\ Ledger'[u] \in Lease
        /\ Forward(Ledger[u], Ledger'[u])
    BY <1>1, LandUnit
  <2>5. log[s].recs[u][i].epoch \in Nat /\ Ledger[u].epoch \in Nat /\ Ledger'[u].epoch \in Nat
    BY <2>2, <2>4 DEF Record, Lease
  <2>6. log[s].recs[u][i].epoch <= Ledger'[u].epoch
    BY <2>3, <2>4, <2>5 DEF Forward
  <2> QED BY <2>1, <2>6
<1>3. CASE s = Len(log) + 1
  <2>1. log'[s].recs = staged[n]
    BY <1>1, <1>3, LandFacts
  <2> QED BY <1>1, <2>1, LandUnit
<1> QED BY <1>1, <1>2, <1>3

\* A landing batch's commits come after every accepted one, of no lower epoch, and
\* above no grant of a higher one.
LEMMA FencedLand ==
  ASSUME FenceInv, NEW n \in Node, Land(n)
  PROVE  FencedCommits' /\ NoZombieCommit'
<1>1. /\ TypeOK /\ Len(log) \in Nat /\ Len(log') = Len(log) + 1
      /\ accepted' = accepted \cup Passing(Ledger, n, staged[n])
      /\ \A a \in accepted : /\ a.unit \in Unit /\ a.epoch \in Nat
                            /\ a.at \in 1 .. Len(log)
  BY LandFacts DEF FenceInv, TypeOK, Land
<1>2. ASSUME NEW a \in accepted, NEW b \in Passing(Ledger, n, staged[n]), a.unit = b.unit
      PROVE  a.at < b.at /\ a.epoch <= b.epoch /\ (a.epoch = b.epoch => a.writer = b.writer)
  <2>1. /\ a.epoch <= Ledger[a.unit].epoch
        /\ a.epoch = Ledger[a.unit].epoch => a.writer = Ledger[a.unit].node
    BY <1>2 DEF FenceInv, AcceptedBelow
  <2>2. a.epoch \in Nat /\ a.at \in 1 .. Len(log)
    BY <1>1, <1>2
  <2> QED BY <1>1, <1>2, <2>1, <2>2, PassedCommit DEF Forward, Lease
<1>3. ASSUME NEW a \in Passing(Ledger, n, staged[n]), NEW b \in Passing(Ledger, n, staged[n]),
             a.unit = b.unit
      PROVE  a.epoch = b.epoch /\ a.writer = b.writer
  BY <1>1, <1>3, PassedCommit
<1>4. FencedCommits'
  <2> SUFFICES ASSUME NEW a \in accepted', NEW b \in accepted', a.unit = b.unit, a.at <= b.at
               PROVE  a.epoch <= b.epoch /\ (a.epoch = b.epoch => a.writer = b.writer)
    BY DEF FencedCommits
  <2>1. CASE a \in accepted /\ b \in accepted
    BY <2>1 DEF FenceInv, FencedCommits
  <2>2. CASE a \in accepted /\ b \in Passing(Ledger, n, staged[n])
    BY <1>2, <2>2
  <2>3. CASE a \in Passing(Ledger, n, staged[n]) /\ b \in accepted
    <3>1. b.at < a.at
      BY <1>2, <2>3
    <3>2. a.at \in Int /\ b.at \in Int
      BY <1>1, <2>3, PassedCommit
    <3> QED BY <3>1, <3>2
  <2>4. CASE a \in Passing(Ledger, n, staged[n]) /\ b \in Passing(Ledger, n, staged[n])
    <3>1. a.epoch \in Nat
      BY <1>1, <2>4, PassedCommit
    <3> QED BY <1>3, <2>4, <3>1
  <2> QED BY <1>1, <2>1, <2>2, <2>3, <2>4
<1>5. NoZombieCommit'
  <2> SUFFICES ASSUME NEW a \in accepted', NEW s \in 1 .. (a.at - 1), NEW i \in {1, 2},
                      log'[s].recs[a.unit][i].kind = "grant"
               PROVE  log'[s].recs[a.unit][i].epoch <= a.epoch
    BY DEF NoZombieCommit
  <2>1. a.unit \in Unit /\ a.epoch \in Nat /\ a.at \in 1 .. (Len(log) + 1)
    BY <1>1, PassedCommit
  <2>2. s \in 1 .. Len(log)
    BY <1>1, <2>1
  <2>3. log'[s] = log[s] /\ log[s] \in Batch
    BY <1>1, <2>2, LandFacts DEF TypeOK
  <2>4. CASE a \in accepted
    BY <2>3, <2>4 DEF FenceInv, NoZombieCommit
  <2>5. CASE a \in Passing(Ledger, n, staged[n])
    <3>1. log[s].recs[a.unit][i].epoch <= Ledger[a.unit].epoch
      BY <2>1, <2>2, <2>3 DEF FenceInv, GrantsBelow
    <3>2. /\ Ledger[a.unit].epoch \in Nat
          /\ Ledger[a.unit].epoch <= a.epoch
      BY <1>1, <2>5, PassedCommit DEF Forward, Lease
    <3>3. log[s].recs[a.unit][i].epoch \in Nat
      BY <2>1, <2>3 DEF Batch, Records, Record
    <3>4. log[s].recs[a.unit][i].epoch <= a.epoch
      BY <2>1, <3>1, <3>2, <3>3
    <3> QED BY <2>3, <3>4
  <2> QED BY <1>1, <2>4, <2>5
<1> QED BY <1>4, <1>5

\* The fence's invariant is inductive.
LEMMA FenceInvStep == FenceInv /\ [Next]_vars => FenceInv'
<1> SUFFICES ASSUME FenceInv, [Next]_vars PROVE FenceInv'
  OBVIOUS
<1>1. TypeOK'
  BY TypeOKStep DEF FenceInv
<1>2. CASE UNCHANGED chainVars
  BY <1>1, <1>2 DEF FenceInv, chainVars, Ledger, AcceptedBelow, GrantsBelow, FencedCommits,
       NoZombieCommit
<1>3. ASSUME NEW n \in Node, Land(n) PROVE FenceInv'
  BY <1>1, <1>3, AcceptedBelowLand, GrantsBelowLand, FencedLand DEF FenceInv
<1> QED BY <1>2, <1>3, NextChainStep

\* Nothing is accepted and nothing granted on an empty chain.
LEMMA FenceInvInit == Init => FenceInv
BY TypeOKInit DEF Init, FenceInv, AcceptedBelow, GrantsBelow, FencedCommits, NoZombieCommit

\* Accepted epochs never go back along the chain, and one epoch has one writer.
THEOREM FenceHolds == Spec => []FencedCommits
<1>1. FenceInv => FencedCommits
  BY DEF FenceInv
<1> QED BY <1>1, FenceInvInit, FenceInvStep, PTL DEF Spec

\* A commit above a grant of a higher epoch is never accepted.
THEOREM ZombiesAreFenced == Spec => []NoZombieCommit
<1>1. FenceInv => NoZombieCommit
  BY DEF FenceInv
<1> QED BY <1>1, FenceInvInit, FenceInvStep, PTL DEF Spec

\* Both, for any number of nodes and units, whatever clocks and tables they act on.
THEOREM FenceIsAlwaysTight == Spec => []FenceIsTight
<1>1. FenceInv => FenceIsTight
  BY DEF FenceInv, FenceIsTight
<1> QED BY <1>1, FenceInvInit, FenceInvStep, PTL DEF Spec

-----------------------------------------------------------------------------
(* The readers.                                                            *)

\* The invariant of the fold: the history is the fold of the chain, and every table
\* is an entry of it.
FoldInv == /\ TypeOK /\ FoldsLog /\ ReadersAgree
           /\ folded[1] = [u \in Unit |-> Unheld]

\* A landing batch adds its fold to the history and changes nothing in it.
LEMMA FoldsLogLand ==
  ASSUME FoldInv, NEW n \in Node, Land(n)
  PROVE  FoldsLog' /\ folded'[1] = folded[1]
<1>1. /\ TypeOK /\ Len(log) \in Nat /\ Len(folded) = Len(log) + 1
      /\ Len(log') = Len(log) + 1 /\ Len(folded') = Len(log) + 2
  BY LandFacts DEF FoldInv, TypeOK
<1>2. /\ \A s \in 1 .. Len(log) : log'[s] = log[s]
      /\ \A s \in 1 .. (Len(log) + 1) : folded'[s] = folded[s]
      /\ log'[Len(log) + 1].recs = staged[n]
      /\ folded'[Len(log) + 2] = Apply(folded[Len(log) + 1], staged[n])
  BY <1>1, LandFacts DEF Ledger
<1>3. ASSUME NEW s \in 1 .. Len(log)
      PROVE  folded'[s + 1] = Apply(folded'[s], log'[s].recs)
  <2>1. s \in 1 .. (Len(log) + 1) /\ s + 1 \in 1 .. (Len(log) + 1)
    BY <1>1
  <2>2. folded[s + 1] = Apply(folded[s], log[s].recs)
    BY DEF FoldInv, FoldsLog
  <2> QED BY <1>2, <2>1, <2>2
<1>4. folded'[Len(log) + 1 + 1] = Apply(folded'[Len(log) + 1], log'[Len(log) + 1].recs)
  <2>1. Len(log) + 1 \in 1 .. (Len(log) + 1) /\ Len(log) + 1 + 1 = Len(log) + 2
    BY <1>1
  <2> QED BY <1>2, <2>1
<1>5. \A s \in 1 .. Len(log') : s \in 1 .. Len(log) \/ s = Len(log) + 1
  BY <1>1
<1>6. 1 \in 1 .. (Len(log) + 1)
  BY <1>1
<1> QED BY <1>2, <1>3, <1>4, <1>5, <1>6 DEF FoldsLog

\* The fold's invariant is inductive.
LEMMA FoldInvStep == FoldInv /\ [Next]_vars => FoldInv'
<1> SUFFICES ASSUME FoldInv, [Next]_vars PROVE FoldInv'
  OBVIOUS
<1>1. TypeOK /\ TypeOK'
  BY TypeOKStep DEF FoldInv
<1>2. FoldsLog' /\ folded'[1] = folded[1]
  BY FoldsLogLand, NextChainStep DEF FoldInv, FoldsLog, chainVars
<1>3. UNCHANGED <<folded, pos, table>> => ReadersAgree'
  BY DEF FoldInv, ReadersAgree
<1>4. ASSUME NEW n \in Node, FoldNext(n) PROVE ReadersAgree'
  <2>1. pos[n] + 1 \in 1 .. Len(log) /\ table[n] = folded[pos[n] + 1]
    BY <1>1, <1>4 DEF FoldNext, TypeOK, FoldInv, ReadersAgree
  <2>2. folded[pos[n] + 1 + 1] = Apply(table[n], log[pos[n] + 1].recs)
    BY <2>1 DEF FoldInv, FoldsLog
  <2>3. table'[n] = folded[pos'[n] + 1]
    BY <1>1, <1>4, <2>2 DEF FoldNext, Observe, TypeOK
  <2>4. \A m \in Node : m # n => table'[m] = table[m] /\ pos'[m] = pos[m]
    BY <1>1, <1>4 DEF FoldNext, Observe, TypeOK
  <2> QED BY <1>4, <2>3, <2>4 DEF FoldNext, chainVars, FoldInv, ReadersAgree
<1>5. ASSUME NEW n \in Node, Land(n) PROVE \A m \in Node : folded'[pos[m] + 1] = table[m]
  <2>1. \A m \in Node : pos[m] + 1 \in 1 .. Len(folded)
    BY <1>1 DEF TypeOK
  <2> QED BY <1>1, <1>5, <2>1, LandFacts DEF FoldInv, ReadersAgree
<1>6. ASSUME NEW n \in Node, AppendLands(n) PROVE ReadersAgree'
  <2>1. Land(n) /\ pos[n] = Len(log) /\ Len(folded) = Len(log) + 1
    BY <1>1, <1>6 DEF AppendLands, Land, TypeOK
  <2>2. table[n] = Ledger
    BY <2>1 DEF FoldInv, ReadersAgree, Ledger
  <2>3. Len(folded') = pos[n] + 2 /\ Len(log) \in Nat
    BY <1>1, <2>1, LandFacts DEF TypeOK
  <2>4. Ledger' = Apply(table[n], staged[n])
    BY <1>1, <2>1, <2>2, LandFacts
  <2>5. /\ table'[n] = Apply(table[n], staged[n]) /\ pos'[n] = pos[n] + 1
        /\ \A m \in Node : m # n => table'[m] = table[m] /\ pos'[m] = pos[m]
    BY <1>1, <1>6 DEF AppendLands, Observe, TypeOK
  <2>6. pos[n] + 1 + 1 = pos[n] + 2
    BY <2>1, <2>3
  <2>7. table'[n] = folded'[pos'[n] + 1]
    BY <2>3, <2>4, <2>5, <2>6 DEF Ledger
  <2> QED BY <1>5, <2>1, <2>5, <2>7 DEF ReadersAgree
<1>7. ASSUME NEW n \in Node, AppendInDoubt(n) PROVE ReadersAgree'
  BY <1>5, <1>7 DEF AppendInDoubt, ReadersAgree
<1>8. ASSUME NEW n \in Node, Restart(n) PROVE ReadersAgree'
  <2>1. /\ table'[n] = folded[1] /\ pos'[n] + 1 = 1
        /\ \A m \in Node : m # n => table'[m] = table[m] /\ pos'[m] = pos[m]
    BY <1>1, <1>8 DEF Restart, TypeOK, FoldInv
  <2> QED BY <1>8, <2>1 DEF Restart, chainVars, FoldInv, ReadersAgree
<1>9. ReadersAgree'
  BY <1>3, <1>4, <1>6, <1>7, <1>8 DEF Next, Tick, Round, LazyRound, AppendFails, vars, chainVars
<1> QED BY <1>1, <1>2, <1>9 DEF FoldInv

\* An empty chain folds to the empty table every node starts from.
LEMMA FoldInvInit == Init => FoldInv
BY TypeOKInit DEF Init, FoldInv, FoldsLog, ReadersAgree

\* Every node's table is the fold of the chain up to its position.
THEOREM ReadersFoldTheChain == Spec => []ReadersAgree
<1>1. FoldInv => ReadersAgree
  BY DEF FoldInv
<1> QED BY <1>1, FoldInvInit, FoldInvStep, PTL DEF Spec

-----------------------------------------------------------------------------
(* Discipline: what holders and takers add when nodes act on live clocks   *)
(* and no append outlasts the slack.                                       *)

Live == ~Stalls /\ MaxLatency <= Slack

\* What Disciplined says of one unit of one pending batch.
Orderly(n, u) == \/ staged[n][u] = <<Nothing, Nothing>>
                 \/ HolderOf(n, u)
                 \/ TakerOf(n, u)

\* A holder's batch is under way only while its lease is running.
LEMMA HolderIsLive ==
  ASSUME Live, TypeOK, Disciplined, NEW n \in Node, NEW u \in Unit, HolderOf(n, u)
  PROVE  now < Ledger[u].deadline /\ ~Ledger[u].released /\ Ledger[u].node = n
<1>1. Pending(n)
  BY DEF Pending, HolderOf, NoRecords, Nothing
<1>2. now <= seen[n] + MaxLatency /\ seen[n] + Slack < Ledger[u].deadline
  BY <1>1 DEF Disciplined, HolderOf
<1>3. now \in Nat /\ seen[n] \in Nat /\ Ledger[u].deadline \in Nat
  BY DEF TypeOK, Ledger, Table, Lease
<1> QED BY <1>2, <1>3, LeaseAssumption DEF Live, HolderOf, HoldsEpoch

\* What a node decides at the tail by the clock it just read is orderly.
LEMMA RoundOrderly ==
  ASSUME FoldInv, NEW n \in Node, Round(n), NEW u \in Unit
  PROVE  Orderly(n, u)'
<1> DEFINE l == Ledger[u]
<1>1. /\ l \in Lease /\ table[n] = Ledger /\ now \in Nat
      /\ staged'[n] \in Choices(n, now) /\ seen'[n] = now
      /\ UNCHANGED <<log, folded, now>>
  <2>1. pos[n] + 1 = Len(folded) /\ Len(folded) \in 1 .. Len(folded)
    BY DEF Round, FoldInv, TypeOK
  <2>2. table[n] = Ledger /\ Ledger \in Table /\ now \in Nat
    BY <2>1 DEF FoldInv, TypeOK, ReadersAgree, Ledger
  <2>3. staged'[n] \in Choices(n, now) /\ seen'[n] = now /\ UNCHANGED <<log, folded, now>>
    BY DEF Round, chainVars, FoldInv, TypeOK
  <2> QED BY <2>2, <2>3 DEF Table
<1>2. staged'[n][u] \in UnitRecords(n, l, now)
  BY <1>1 DEF Choices
<1>3. Ledger' = Ledger
  BY <1>1 DEF Ledger
<1>4. CASE l.node = n /\ ~l.released
  <2>1. CASE MustSuspend(l, now)
    BY <1>2, <1>4, <2>1 DEF UnitRecords, HolderRecords, Orderly
  <2>2. CASE ~MustSuspend(l, now)
    <3>1. now + Slack < l.deadline
      BY <1>1, <2>2, LeaseAssumption DEF MustSuspend, Lease
    <3>2. /\ staged'[n][u][1] = SegCommit(l.epoch)
          /\ \/ staged'[n][u][2] = Release(l.epoch)
             \/ staged'[n][u][2] = Grant(l.epoch, n, now + TTL)
             \/ staged'[n][u][2] = Nothing
      BY <1>2, <1>4, <2>2 DEF UnitRecords, HolderRecords
    <3>3. HolderOf(n, u)'
      BY <1>1, <1>3, <1>4, <3>1, <3>2
         DEF HolderOf, HoldsEpoch, SegCommit, Release, Grant, Nothing
    <3> QED BY <3>3 DEF Orderly
  <2> QED BY <2>1, <2>2
<1>5. CASE ~(l.node = n /\ ~l.released)
  <2>1. CASE staged'[n][u] = <<Nothing, Nothing>>
    BY <2>1 DEF Orderly
  <2>2. CASE staged'[n][u] # <<Nothing, Nothing>>
    <3>1. /\ Expired(l, now)
          /\ staged'[n][u][1] = Grant(l.epoch + 1, n, now + TTL)
          /\ staged'[n][u][2] = Nothing \/ staged'[n][u][2] = SegCommit(l.epoch + 1)
      BY <1>2, <1>5, <2>2 DEF UnitRecords, TakerRecords
    <3>2. l.epoch \in Nat
      BY <1>1 DEF Lease
    <3>3. TakerOf(n, u)'
      BY <1>1, <1>3, <3>1, <3>2 DEF TakerOf, Expired, Grant, SegCommit, Nothing
    <3> QED BY <3>3 DEF Orderly
  <2> QED BY <2>1, <2>2
<1> QED BY <1>4, <1>5

\* What a disciplined batch does to a unit it lands on: nothing, keep the epoch of a
\* lease that is running, or take a unit whose lease has run out.
LEMMA LandOrderly ==
  ASSUME Live, TypeOK, Disciplined, NEW m \in Node, Land(m), NEW u \in Unit
  PROVE  \/ Ledger'[u] = Ledger[u]
         \/ /\ Ledger'[u].epoch = Ledger[u].epoch /\ Ledger'[u].node = Ledger[u].node
            /\ Ledger[u].node = m /\ ~Ledger[u].released /\ now < Ledger[u].deadline
         \/ /\ Ledger'[u].epoch = Ledger[u].epoch + 1 /\ Ledger'[u].node = m
            /\ Ledger[u].released \/ now > Ledger[u].deadline
<1> DEFINE l == Ledger[u]
           r1 == staged[m][u][1]
           r2 == staged[m][u][2]
<1>1. /\ r1 \in Record /\ r2 \in Record /\ l \in Lease
      /\ Ledger'[u] = applyRecord(applyRecord(l, r1), r2)
  BY LandFacts DEF TypeOK, Records, Table, Apply
<1>2. \/ staged[m][u] = <<Nothing, Nothing>>
      \/ HolderOf(m, u)
      \/ TakerOf(m, u)
  BY DEF Disciplined
<1>3. \A k \in Lease, r \in Record :
        r.kind \in {"none", "commit"} => applyRecord(k, r) = k
  BY DEF applyRecord, Takes, Renews, Releases
<1>4. CASE staged[m][u] = <<Nothing, Nothing>>
  <2>1. r1.kind = "none" /\ r2.kind = "none"
    BY <1>4 DEF Nothing
  <2> QED BY <1>1, <1>3, <2>1
<1>5. CASE HolderOf(m, u)
  <2>1. now < l.deadline /\ ~l.released /\ l.node = m
    BY <1>5, HolderIsLive
  <2>2. Ledger'[u] = applyRecord(l, r2)
    BY <1>1, <1>3, <1>5 DEF HolderOf
  <2>3. r2.kind = "grant" => r2.epoch = l.epoch
    BY <1>5 DEF HolderOf, HoldsEpoch
  <2>4. applyRecord(l, r2).epoch = l.epoch /\ applyRecord(l, r2).node = l.node
    <3>1. ~Takes(l, r2)
      BY <1>1, <2>3 DEF Takes, Lease
    <3> HIDE DEF l, r2
    <3>2. CASE Renews(l, r2)
      <4>1. applyRecord(l, r2) = HeldBy(l.node, l.epoch, r2.deadline, FALSE)
        BY <3>1, <3>2 DEF applyRecord
      <4> QED BY <4>1 DEF HeldBy
    <3>3. CASE ~Renews(l, r2) /\ Releases(l, r2)
      <4>1. applyRecord(l, r2) = HeldBy(l.node, l.epoch, l.deadline, TRUE)
        BY <3>1, <3>3 DEF applyRecord
      <4> QED BY <4>1 DEF HeldBy
    <3>4. CASE ~Renews(l, r2) /\ ~Releases(l, r2)
      BY <3>1, <3>4 DEF applyRecord
    <3> QED BY <3>2, <3>3, <3>4
  <2> QED BY <2>1, <2>2, <2>4
<1>6. CASE TakerOf(m, u)
  <2>1. /\ r1.kind = "grant" /\ r1.node = m /\ r1.epoch <= l.epoch + 1
        /\ r1.epoch = l.epoch => l.node # m
        /\ r1.epoch = l.epoch + 1 => l.released \/ now > l.deadline
        /\ r2.kind \in {"none", "commit"}
    BY <1>6 DEF TakerOf
  <2>2. applyRecord(l, r1) \in Lease
    BY <1>1, ApplyForward
  <2>3. Ledger'[u] = applyRecord(l, r1)
    BY <1>1, <1>3, <2>1, <2>2
  <2>4. CASE r1.epoch = l.epoch + 1
    <3>1. applyRecord(l, r1).epoch = l.epoch + 1 /\ applyRecord(l, r1).node = m
      BY <1>1, <2>1, <2>4 DEF applyRecord, Takes, HeldBy, Lease, Record
    <3> QED BY <2>1, <2>3, <2>4, <3>1
  <2>5. CASE r1.epoch # l.epoch + 1
    <3>1. applyRecord(l, r1) = l
      <4>1. r1.epoch \in Nat /\ l.epoch \in Nat
        BY <1>1 DEF Lease, Record
      <4>2. ~Takes(l, r1) /\ ~Renews(l, r1) /\ ~Releases(l, r1)
        BY <2>1, <2>5, <4>1 DEF Takes, Renews, Releases
      <4> QED BY <4>2 DEF applyRecord
    <3> QED BY <2>3, <3>1
  <2> QED BY <2>4, <2>5
<1> QED BY <1>2, <1>4, <1>5, <1>6

\* Discipline keeps itself: the other pending batches stay orderly when one lands,
\* when time passes and when a round is decided.
LEMMA DisciplinedStep ==
  ASSUME Live, FoldInv, Disciplined, [Next]_vars
  PROVE  Disciplined'
<1>1. TypeOK /\ TypeOK'
  BY TypeOKStep DEF FoldInv
<1>2. /\ \A n \in Node : Pending(n) => now <= seen[n] + MaxLatency
      /\ \A n \in Node, u \in Unit : Orderly(n, u)
  BY DEF Disciplined, Orderly
<1>3. \A u \in Unit : NoRecords[u] = <<Nothing, Nothing>>
  BY DEF NoRecords
<1>4. CASE Tick
  <2>1. \A n \in Node : Pending(n)' => now' <= seen'[n] + MaxLatency
    <3> SUFFICES ASSUME NEW n \in Node, Pending(n) PROVE now + 1 <= seen[n] + MaxLatency
      BY <1>4 DEF Tick, Pending
    <3>1. now < seen[n] + MaxLatency
      BY <1>4 DEF Tick
    <3> QED BY <1>1, <3>1, LeaseAssumption DEF TypeOK
  <2>2. ASSUME NEW n \in Node, NEW u \in Unit PROVE Orderly(n, u)'
    <3>1. Ledger' = Ledger /\ UNCHANGED <<staged, seen>> /\ now' = now + 1
      BY <1>4 DEF Tick, chainVars, Ledger
    <3>2. HolderOf(n, u) => HolderOf(n, u)'
      BY <3>1 DEF HolderOf
    <3>3. now \in Nat /\ Ledger[u].deadline \in Nat
      BY <1>1 DEF TypeOK, Ledger, Table, Lease
    <3>4. TakerOf(n, u) => TakerOf(n, u)'
      BY <3>1, <3>3 DEF TakerOf
    <3> QED BY <1>2, <3>1, <3>2, <3>4 DEF Orderly
  <2> QED BY <2>1, <2>2 DEF Disciplined, Orderly
<1>5. ASSUME NEW m \in Node, Round(m) PROVE Disciplined'
  <2>1. /\ seen'[m] = now /\ now' = now /\ Ledger' = Ledger
        /\ \A n \in Node : n # m => seen'[n] = seen[n] /\ staged'[n] = staged[n]
    BY <1>1, <1>5 DEF Round, chainVars, Ledger, TypeOK
  <2>2. now <= now + MaxLatency
    BY <1>1, LeaseAssumption DEF TypeOK
  <2>3. \A n \in Node : Pending(n)' => now' <= seen'[n] + MaxLatency
    BY <1>2, <2>1, <2>2 DEF Pending
  <2>4. ASSUME NEW n \in Node, NEW u \in Unit PROVE Orderly(n, u)'
    <3>1. CASE n = m
      BY <1>5, <3>1, RoundOrderly
    <3>2. CASE n # m
      BY <1>2, <2>1, <3>2 DEF Orderly, HolderOf, TakerOf
    <3> QED BY <3>1, <3>2
  <2> QED BY <2>3, <2>4 DEF Disciplined, Orderly
<1>6. ASSUME NEW m \in Node, Land(m), UNCHANGED <<now, seen>> PROVE Disciplined'
  <2>1. staged'[m] = NoRecords /\ \A n \in Node : n # m => staged'[n] = staged[n]
    BY <1>1, <1>6 DEF Land, TypeOK
  <2>2. \A n \in Node : Pending(n)' => now' <= seen'[n] + MaxLatency
    BY <1>2, <1>6, <2>1 DEF Pending
  <2>3. ASSUME NEW n \in Node, NEW u \in Unit, n # m PROVE Orderly(n, u)'
    <3>1. /\ Ledger[u] \in Lease /\ now \in Nat /\ staged[n][u][1] \in Record
      BY <1>1 DEF TypeOK, Ledger, Table, Records
    <3>2. CASE Ledger'[u] = Ledger[u]
      BY <1>2, <1>6, <2>1, <2>3, <3>2 DEF Orderly, HolderOf, TakerOf
    <3>3. CASE /\ Ledger'[u].epoch = Ledger[u].epoch /\ Ledger'[u].node = Ledger[u].node
               /\ Ledger[u].node = m /\ ~Ledger[u].released /\ now < Ledger[u].deadline
      <4>1. ~HolderOf(n, u)
        BY <2>3, <3>3 DEF HolderOf, HoldsEpoch
      <4>2. TakerOf(n, u) => TakerOf(n, u)'
        BY <1>6, <2>1, <2>3, <3>1, <3>3 DEF TakerOf, Lease, Record
      <4> QED BY <1>2, <2>1, <2>3, <4>1, <4>2 DEF Orderly
    <3>4. CASE /\ Ledger'[u].epoch = Ledger[u].epoch + 1 /\ Ledger'[u].node = m
               /\ Ledger[u].released \/ now > Ledger[u].deadline
      <4>1. ~HolderOf(n, u)
        BY <1>1, <3>1, <3>4, HolderIsLive DEF Lease
      <4>2. TakerOf(n, u) => TakerOf(n, u)'
        BY <1>6, <2>1, <2>3, <3>1, <3>4 DEF TakerOf, Lease, Record
      <4> QED BY <1>2, <2>1, <2>3, <4>1, <4>2 DEF Orderly
    <3> QED BY <1>1, <1>6, <3>2, <3>3, <3>4, LandOrderly
  <2>4. ASSUME NEW u \in Unit PROVE Orderly(m, u)'
    BY <1>3, <2>1 DEF Orderly
  <2> QED BY <2>2, <2>3, <2>4 DEF Disciplined, Orderly
<1>7. ASSUME NEW m \in Node, AppendFails(m) \/ Restart(m) PROVE Disciplined'
  <2>1. /\ staged'[m] = NoRecords /\ now' = now /\ Ledger' = Ledger
        /\ \A n \in Node : n # m => staged'[n] = staged[n] /\ seen'[n] = seen[n]
    BY <1>1, <1>7 DEF AppendFails, Restart, chainVars, Ledger, TypeOK
  <2>2. \A n \in Node : Pending(n)' => now' <= seen'[n] + MaxLatency
    BY <1>2, <2>1 DEF Pending
  <2>3. ASSUME NEW n \in Node, NEW u \in Unit PROVE Orderly(n, u)'
    BY <1>2, <1>3, <2>1 DEF Orderly, HolderOf, TakerOf
  <2> QED BY <2>2, <2>3 DEF Disciplined, Orderly
<1>8. ASSUME UNCHANGED <<log, folded, now, seen, staged>> PROVE Disciplined'
  BY <1>2, <1>8 DEF Disciplined, Orderly, Pending, HolderOf, TakerOf, Ledger
<1> QED BY <1>4, <1>5, <1>6, <1>7, <1>8 DEF Next, FoldNext, LazyRound, AppendLands,
           AppendInDoubt, Live, vars, chainVars

\* No batch is pending at first.
LEMMA DisciplinedInit == Init => Disciplined
BY DEF Init, Disciplined, Pending, NoRecords

\* With live clocks and appends no slower than the slack, discipline holds always.
LEMMA DisciplinedAlways ==
  ASSUME Live
  PROVE  Spec => [](FoldInv /\ Disciplined)
<1>1. Init => FoldInv /\ Disciplined
  BY FoldInvInit, DisciplinedInit
<1>2. FoldInv /\ Disciplined /\ [Next]_vars => (FoldInv /\ Disciplined)'
  BY FoldInvStep, DisciplinedStep
<1> QED BY <1>1, <1>2, PTL DEF Spec

\* With live clocks and appends no slower than the slack, no holder's commit is under
\* way while another node could take the unit.
THEOREM HoldersWriteAlone ==
  ASSUME Live
  PROVE  Spec => []NeverWritesUnheld
<1>1. FoldInv /\ Disciplined => NeverWritesUnheld
  <2> SUFFICES ASSUME FoldInv, Disciplined, NEW n \in Node, NEW u \in Unit,
                      staged[n][u][1].kind = "commit"
               PROVE  HoldsEpoch(Ledger[u], n, staged[n][u][1].epoch) /\ now <= Ledger[u].deadline
    BY DEF NeverWritesUnheld
  <2>1. HolderOf(n, u)
    BY DEF Disciplined, TakerOf, Nothing
  <2>2. now \in Nat /\ Ledger[u].deadline \in Nat
    BY DEF FoldInv, TypeOK, Ledger, Table, Lease
  <2> QED BY <2>1, <2>2, HolderIsLive DEF HolderOf, FoldInv
<1> QED BY <1>1, DisciplinedAlways, PTL

\* Under the same discipline only a lease that ran out or was released is taken.
THEOREM OnlyExpiredIsTaken ==
  ASSUME Live
  PROVE  Spec => TakesOnlyExpired
<1>1. ASSUME FoldInv, Disciplined, [Next]_vars, NEW u \in Unit, Ledger'[u].epoch # Ledger[u].epoch
      PROVE  Ledger[u].released \/ now > Ledger[u].deadline
  <2>1. PICK m \in Node : Land(m)
    BY <1>1, NextChainStep DEF chainVars, Ledger
  <2> QED BY <1>1, <2>1, LandOrderly DEF FoldInv
<1>2. FoldInv /\ Disciplined /\ [Next]_vars =>
        [\A u \in Unit : Ledger'[u].epoch # Ledger[u].epoch =>
           Ledger[u].released \/ now > Ledger[u].deadline]_vars
  BY <1>1
<1> QED BY <1>2, DisciplinedAlways, PTL DEF Spec, TakesOnlyExpired
=============================================================================
