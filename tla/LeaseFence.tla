----------------------------- MODULE LeaseFence -----------------------------
(***************************************************************************)
(* Leases and fencing on the chain: src/chain/leases.go, and the nodes'    *)
(* rounds and the epoch rule of src/chain/fence_test.go.                   *)
(*                                                                         *)
(* A node folds the chain into its own lease table, decides what to append *)
(* by that table and by the clock it last read, and appends. The append    *)
(* takes its time: it folds the batches it loses races to and lands with   *)
(* the very bytes it was staged with, whatever the table says by then.     *)
(* Every reader applies the fence: a commit counts if its batch's writer   *)
(* holds the unit at exactly the commit's epoch where the chain has it.    *)
(*                                                                         *)
(* The chain itself is the log of TotalOrderLog, which ChainLog implements. *)
(***************************************************************************)
EXTENDS Integers, Sequences

CONSTANTS
  Node,         \* the processes that append
  Nobody,       \* the holder of a unit no grant names
  Unit,         \* the leasable units of one domain
  TTL,          \* DefaultTTLMS of the domain
  Slack,        \* SuspendSlackMS
  MaxLatency,   \* the longest a pending append may keep the clock waiting
  Stalls,       \* whether a node may act on a clock and a table it did not refresh
  MaxClock,     \* bound: where the clock stops
  MaxLog        \* bound: the length of the chain

ASSUME LeaseAssumption ==
  /\ Nobody \notin Node
  /\ TTL \in Nat /\ Slack \in Nat /\ MaxLatency \in Nat
  /\ Stalls \in BOOLEAN
  /\ MaxClock \in Nat /\ MaxLog \in Nat

VARIABLES
  log,        \* the chain: a sequence of batches
  folded,     \* history: the lease table after each prefix of the chain
  accepted,   \* history: the commits the fence let pass
  now,        \* the clock all nodes read
  pos,        \* pos[n]: how many batches n has folded
  table,      \* table[n]: n's LeaseTable
  seen,       \* seen[n]: the clock n last read; 0 until it has folded to a tail
  staged      \* staged[n]: the records of the append n is in

vars == <<log, folded, accepted, now, pos, table, seen, staged>>
chainVars == <<log, folded, accepted>>

-----------------------------------------------------------------------------
(* Leases and records. A unit without a lease is one whose epoch 0 was     *)
(* released.                                                               *)

Lease == [node : Node \cup {Nobody}, epoch : Nat, deadline : Nat, released : BOOLEAN]

HeldBy(n, e, d, r) == [node |-> n, epoch |-> e, deadline |-> d, released |-> r]

Unheld == HeldBy(Nobody, 0, 0, TRUE)

Record == [kind : {"none", "grant", "release", "commit"}, epoch : Nat,
           node : Node \cup {Nobody}, deadline : Nat]

Grant(e, n, d) == [kind |-> "grant", epoch |-> e, node |-> n, deadline |-> d]
Release(e) == [kind |-> "release", epoch |-> e, node |-> Nobody, deadline |-> 0]
SegCommit(e) == [kind |-> "commit", epoch |-> e, node |-> Nobody, deadline |-> 0]
Nothing == [kind |-> "none", epoch |-> 0, node |-> Nobody, deadline |-> 0]

\* What a batch holds for each unit: two records at most, in order.
Records == [Unit -> Record \X Record]
Batch == [writer : Node, recs : Records]
NoRecords == [u \in Unit |-> <<Nothing, Nothing>>]

\* Mutant: a unit is up for grabs from its deadline on.
ExpiredEarly(l, t) == l.released \/ t >= l.deadline

Expired(l, t) == l.released \/ t > l.deadline

RenewalDue(l, t) == t + TTL \div 2 >= l.deadline

\* Mutant: the holder writes until its lease has run out.
SuspendLate(l, t) == t > l.deadline

MustSuspend(l, t) == t + Slack >= l.deadline

\* Mutant: the fence compares the epoch only.
EpochHeld(l, n, e) == ~l.released /\ l.epoch = e

HoldsEpoch(l, n, e) == ~l.released /\ l.node = n /\ l.epoch = e

\* applyRecord's cases: a first grant or a take, a renewal by the holder, a release.
Takes(l, r) == r.kind = "grant" /\ r.epoch > l.epoch

Renews(l, r) == /\ r.kind = "grant" /\ r.epoch = l.epoch /\ r.node = l.node
                /\ ~l.released /\ r.deadline > l.deadline

Releases(l, r) == r.kind = "release" /\ r.epoch = l.epoch /\ ~l.released

applyRecord(l, r) ==
  IF Takes(l, r) THEN HeldBy(r.node, r.epoch, r.deadline, FALSE)
  ELSE IF Renews(l, r) THEN HeldBy(l.node, l.epoch, r.deadline, FALSE)
  ELSE IF Releases(l, r) THEN HeldBy(l.node, l.epoch, l.deadline, TRUE)
  ELSE l

\* LeaseTable.Apply: the records of one unit touch that unit alone.
Apply(t, recs) == [u \in Unit |-> applyRecord(applyRecord(t[u], recs[u][1]), recs[u][2])]

Ledger == folded[Len(folded)]

-----------------------------------------------------------------------------
(* What a node stages for one unit, by its lease l and its clock t.        *)

\* A sitting holder commits, renews past half the TTL, and may give the unit up;
\* within the slack of its deadline it is silent.
HolderRecords(n, l, t) ==
  IF MustSuspend(l, t) THEN {<<Nothing, Nothing>>}
  ELSE {<<SegCommit(l.epoch), Release(l.epoch)>>,
        <<SegCommit(l.epoch),
          IF RenewalDue(l, t) THEN Grant(l.epoch, n, t + TTL) ELSE Nothing>>}

\* Anyone else may claim a unit that is up for grabs, and commit to it in the
\* same batch.
TakerRecords(n, l, t) ==
  {<<Nothing, Nothing>>} \cup
  (IF Expired(l, t)
   THEN {<<Grant(l.epoch + 1, n, t + TTL), r>> : r \in {Nothing, SegCommit(l.epoch + 1)}}
   ELSE {})

UnitRecords(n, l, t) == IF l.node = n /\ ~l.released THEN HolderRecords(n, l, t)
                        ELSE TakerRecords(n, l, t)

\* The batches a round of n may stage.
Choices(n, t) == {r \in [Unit -> UNION {UnitRecords(n, table[n][u], t) : u \in Unit}] :
                    \A u \in Unit : r[u] \in UnitRecords(n, table[n][u], t)}

-----------------------------------------------------------------------------
Init == /\ log = <<>>
        /\ folded = <<[u \in Unit |-> Unheld]>>
        /\ accepted = {}
        /\ now = 1
        /\ pos = [n \in Node |-> 0]
        /\ table = [n \in Node |-> [u \in Unit |-> Unheld]]
        /\ seen = [n \in Node |-> 0]
        /\ staged = [n \in Node |-> NoRecords]

Pending(n) == staged[n] # NoRecords

\* Time passes, though not past what the pending appends may take.
Tick == /\ now < MaxClock
        /\ \A n \in Node : Pending(n) => now < seen[n] + MaxLatency
        /\ now' = now + 1
        /\ UNCHANGED <<chainVars, pos, table, seen, staged>>

\* Mutant: the position moves past a batch the table was not given.
ObserveNothing(n, recs) == /\ pos' = [pos EXCEPT ![n] = @ + 1]
                           /\ UNCHANGED table

\* Mutant: a batch counts twice.
ObserveTwice(n, recs) == /\ pos' = [pos EXCEPT ![n] = @ + 2]
                         /\ table' = [table EXCEPT ![n] = Apply(@, recs)]

\* Options.Observe wired to the table: fold the batch at the node's position.
Observe(n, recs) == /\ pos' = [pos EXCEPT ![n] = @ + 1]
                    /\ table' = [table EXCEPT ![n] = Apply(@, recs)]

\* The handle reads the next batch, in a Poll or as the winner of a lost race.
FoldNext(n) ==
  /\ pos[n] < Len(log)
  /\ Observe(n, log[pos[n] + 1].recs)
  /\ UNCHANGED <<chainVars, now, seen, staged>>

\* A round: Poll has met the tail, the node reads the clock and decides.
Round(n) ==
  /\ ~Pending(n) /\ pos[n] = Len(log)
  /\ seen' = [seen EXCEPT ![n] = now]
  /\ \E r \in Choices(n, now) : staged' = [staged EXCEPT ![n] = r]
  /\ UNCHANGED <<chainVars, now, pos, table>>

\* A lazy round: no Poll, and the clock of the last one.
LazyRound(n) ==
  /\ Stalls /\ ~Pending(n) /\ seen[n] > 0
  /\ \E r \in Choices(n, seen[n]) : staged' = [staged EXCEPT ![n] = r]
  /\ UNCHANGED <<chainVars, now, pos, table, seen>>

\* Record i of a unit is a commit the fence lets pass, the unit's lease being l where
\* the batch begins.
Passes(l, w, two, i) ==
  /\ two[i].kind = "commit"
  /\ HoldsEpoch(IF i = 1 THEN l ELSE applyRecord(l, two[1]), w, two[i].epoch)

\* The commits of a batch the fence lets pass, folding it into table t.
Passing(t, w, recs) ==
  {[unit |-> x[1], epoch |-> recs[x[1]][x[2]].epoch, writer |-> w, at |-> Len(log) + 1] :
     x \in {y \in Unit \X {1, 2} : Passes(t[y[1]], w, recs[y[1]], y[2])}}

\* The batch n staged takes the tail of the chain; every reader will fold it so.
Land(n) ==
  /\ Pending(n) /\ pos[n] = Len(log) /\ Len(log) < MaxLog
  /\ log' = Append(log, [writer |-> n, recs |-> staged[n]])
  /\ folded' = Append(folded, Apply(Ledger, staged[n]))
  /\ accepted' = accepted \cup Passing(Ledger, n, staged[n])
  /\ staged' = [staged EXCEPT ![n] = NoRecords]

AppendLands(n) == /\ Land(n)
                  /\ Observe(n, staged[n])
                  /\ UNCHANGED <<now, seen>>

\* Append returns an error after a time-out it could not resolve: the batch is on
\* the chain and its writer has not folded it.
AppendInDoubt(n) == /\ Land(n)
                    /\ UNCHANGED <<now, seen, pos, table>>

AppendFails(n) == /\ Pending(n)
                  /\ staged' = [staged EXCEPT ![n] = NoRecords]
                  /\ UNCHANGED <<chainVars, now, pos, table, seen>>

\* The process restarts with an empty table and folds the chain from slot 0.
Restart(n) == /\ pos' = [pos EXCEPT ![n] = 0]
              /\ table' = [table EXCEPT ![n] = [u \in Unit |-> Unheld]]
              /\ seen' = [seen EXCEPT ![n] = 0]
              /\ staged' = [staged EXCEPT ![n] = NoRecords]
              /\ UNCHANGED <<chainVars, now>>

Next == \/ Tick
        \/ \E n \in Node : \/ FoldNext(n) \/ Round(n) \/ LazyRound(n)
                           \/ AppendLands(n) \/ AppendInDoubt(n) \/ AppendFails(n)
                           \/ Restart(n)

Spec == Init /\ [][Next]_vars

-----------------------------------------------------------------------------
(* Properties.                                                             *)

Table == [Unit -> Lease]

\* The values the variables take.
TypeOK ==
  /\ log \in Seq(Batch)
  /\ folded \in Seq(Table) /\ Len(folded) = Len(log) + 1
  /\ \A a \in accepted : /\ a.unit \in Unit /\ a.epoch \in Nat /\ a.writer \in Node
                         /\ a.at \in 1 .. Len(log)
  /\ now \in Nat
  /\ pos \in [Node -> 0 .. Len(log)]
  /\ table \in [Node -> Table]
  /\ seen \in [Node -> 0 .. now]
  /\ staged \in [Node -> Records]

\* Per unit, the commits the fence accepts carry epochs that never go back along the
\* chain, and one epoch's commits have one writer (fence_test.go, TestFenceTorture).
FencedCommits ==
  \A a, b \in accepted : a.unit = b.unit /\ a.at <= b.at =>
    /\ a.epoch <= b.epoch
    /\ a.epoch = b.epoch => a.writer = b.writer

\* Where a commit is accepted, no grant below it on the chain is of a higher epoch:
\* what a node appends after its unit was taken is void.
NoZombieCommit ==
  \A a \in accepted : \A s \in 1 .. (a.at - 1), i \in {1, 2} :
    LET r == log[s].recs[a.unit][i] IN r.kind = "grant" => r.epoch <= a.epoch

\* The epoch fence as a whole: the commits that pass are ordered by the chain, and
\* nobody writes after its successor.
FenceIsTight == FencedCommits /\ NoZombieCommit

\* Every node's table is the fold of the chain up to its position, its own appends
\* folded like anyone's, over lost races, time-outs and restarts: nodes at one
\* position agree (state.go: "every node at the same position holds the identical
\* State").
ReadersAgree == \A n \in Node : table[n] = folded[pos[n] + 1]

\* Along the chain a unit's epoch only grows, and one epoch keeps its holder, never
\* shortens its deadline and never takes back its release.
LeasesForward ==
  [][\A u \in Unit :
       /\ Ledger[u].epoch <= Ledger'[u].epoch
       /\ Ledger[u].epoch = Ledger'[u].epoch =>
            /\ Ledger[u].node = Ledger'[u].node
            /\ Ledger[u].deadline <= Ledger'[u].deadline
            /\ Ledger[u].released => Ledger'[u].released]_vars

\* With live clocks and appends no slower than the slack, a holder's commit is never
\* under way while another node could legally hold the unit (leases.go,
\* SuspendSlackMS).
NeverWritesUnheld ==
  \A n \in Node, u \in Unit : staged[n][u][1].kind = "commit" =>
    /\ HoldsEpoch(Ledger[u], n, staged[n][u][1].epoch)
    /\ now <= Ledger[u].deadline

\* Under the same discipline a unit only changes epoch when its lease has run out or
\* was released: a claim decided on an older table never evicts a holder whose
\* renewal landed in between.
TakesOnlyExpired ==
  [][\A u \in Unit : Ledger'[u].epoch # Ledger[u].epoch =>
       Ledger[u].released \/ now > Ledger[u].deadline]_vars

-----------------------------------------------------------------------------
(* What the proofs add to make these inductive.                            *)

\* The history is the fold of the chain.
FoldsLog == \A s \in 1 .. Len(log) : folded[s + 1] = Apply(folded[s], log[s].recs)

\* The fence passed no commit of an epoch the chain has not reached, and the commits
\* of the current epoch are the current holder's.
AcceptedBelow ==
  \A a \in accepted :
    /\ a.epoch <= Ledger[a.unit].epoch
    /\ a.epoch = Ledger[a.unit].epoch => a.writer = Ledger[a.unit].node

\* No grant on the chain is of an epoch the fold has not reached.
GrantsBelow ==
  \A s \in 1 .. Len(log), u \in Unit, i \in {1, 2} :
    LET r == log[s].recs[u][i] IN r.kind = "grant" => r.epoch <= Ledger[u].epoch

\* With live clocks, what a batch under way may do to a unit when it lands: nothing;
\* commit, renew or release as the holder of a lease that will not run out before; or
\* claim an epoch that is the next one only while the lease has run out.
HolderOf(n, u) ==
  /\ staged[n][u][1].kind = "commit"
  /\ HoldsEpoch(Ledger[u], n, staged[n][u][1].epoch)
  /\ seen[n] + Slack < Ledger[u].deadline
  /\ staged[n][u][2].kind = "grant" => staged[n][u][2].epoch = staged[n][u][1].epoch

TakerOf(n, u) ==
  LET g == staged[n][u][1] IN
  /\ g.kind = "grant" /\ g.node = n /\ g.epoch >= 1
  /\ g.epoch <= Ledger[u].epoch + 1
  /\ g.epoch = Ledger[u].epoch => Ledger[u].node # n
  /\ g.epoch = Ledger[u].epoch + 1 => Ledger[u].released \/ now > Ledger[u].deadline
  /\ staged[n][u][2].kind \in {"none", "commit"}

Disciplined ==
  /\ \A n \in Node : Pending(n) => now <= seen[n] + MaxLatency
  /\ \A n \in Node, u \in Unit :
       \/ staged[n][u] = <<Nothing, Nothing>>
       \/ HolderOf(n, u)
       \/ TakerOf(n, u)
=============================================================================
