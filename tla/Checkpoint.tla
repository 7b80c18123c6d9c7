----------------------------- MODULE Checkpoint -----------------------------
(***************************************************************************)
(* The folded chain state, its checkpoints, and the trimming behind them:  *)
(* src/chain/state.go and the Checkpointer of src/chain/ckpt.go.           *)
(*                                                                         *)
(* Every node folds the chain into a State and captures a checkpoint at    *)
(* each slot that completes an interval. Flush stores the captures, whose  *)
(* slots are then announced on the chain and in the root, and the slots    *)
(* two checkpoints back are deleted. A node boots from the root's          *)
(* checkpoint and folds the tail behind it. The chain's appends are those  *)
(* of ChainLog with every PUT decided at once; the root is the pointer     *)
(* RootStore keeps, 0 while no checkpoint is named.                        *)
(***************************************************************************)
EXTENDS Integers, FiniteSets, SequencesExt

CONSTANTS
  Node,       \* the processes that fold and append
  Interval,   \* Checkpointer.Interval
  Payload,    \* Payload[n]: the record sequences n appends, beside announcements
  Prompt,     \* whether a trim waits until no open handle needs the slots
  MaxLen      \* bound: the length of the chain

PayloadKinds == {"member", "manAdvance", "genPublish", "genRetire", "tierMap"}

\* Only Announce appends a ckpt record.
ASSUME CheckpointAssumption ==
  /\ Interval \in Nat /\ Interval > 1 /\ Prompt \in BOOLEAN /\ MaxLen \in Nat
  /\ \A n \in Node : \A records \in Payload[n] :
       /\ records \in Seq({records[i] : i \in DOMAIN records})
       /\ \A i \in DOMAIN records : records[i].kind \in PayloadKinds

VARIABLES
  slot,       \* the bucket's chain/ objects: batches by sequence number
  ckpts,      \* the bucket's chain/ckpt/ objects, by sequence number
  root,       \* the root's CkptSeq
  past,       \* history: the batch that first took each slot
  folded,     \* history: the state after each prefix of past
  pc,         \* pc[n]: down, fetching the root's checkpoint, opening, or up
  named,      \* named[n]: the CkptSeq n read in the root when it started
  pos,        \* pos[n]: the position of n's handle
  state,      \* state[n]: Checkpointer.State
  pending,    \* pending[n]: Checkpointer.pending
  newest,     \* newest[n]: the last slot Flush returned to n; 0 if none
  flushed     \* flushed[n]: slots Flush returned to n that it has not announced

vars == <<slot, ckpts, root, past, folded, pc, named, pos, state, pending, newest, flushed>>
chainVars == <<slot, past, folded>>
nodeVars == <<pc, named, pos, state, pending>>
callerVars == <<newest, flushed>>

-----------------------------------------------------------------------------
(* The state and its fold. Leases are LeaseFence's.                        *)

NewState == [members |-> [n \in {} |-> 0], man |-> 0, gens |-> {},
             tierVersion |-> 0, ckptSeq |-> 0]

Later(a, b) == IF a > b THEN a ELSE b

Put(f, k, v) == [j \in DOMAIN f \cup {k} |-> IF j = k THEN v ELSE f[j]]

\* State.Apply's cases for one record. One manifest family stands for all; a tier
\* map is its version.
ApplyRecord(s, r) ==
  CASE r.kind = "member"     -> [s EXCEPT !.members = Put(@, r.node, r.value)]
    [] r.kind = "manAdvance" -> [s EXCEPT !.man = Later(r.value, @)]
    [] r.kind = "genPublish" -> [s EXCEPT !.gens = @ \cup {r.value}]
    [] r.kind = "genRetire"  -> [s EXCEPT !.gens = @ \ {r.value}]
    [] r.kind = "tierMap"    -> [s EXCEPT !.tierVersion = Later(r.value, @)]
    [] r.kind = "ckpt"       -> [s EXCEPT !.ckptSeq = Later(r.value, @)]

\* State.Apply: a batch's records, in order.
Apply(s, records) == FoldLeft(ApplyRecord, s, records)

CkptRecord(s) == [kind |-> "ckpt", value |-> s]

Batch(n, records) == [writer |-> n, records |-> records]

Present(s) == s \in DOMAIN slot

Triggers(s) == (s + 1) % Interval = 0

-----------------------------------------------------------------------------
(* Checkpointer.Observe.                                                   *)

\* Mutant: the capture is taken before the batch is folded.
CaptureBefore(n, b) == [seq |-> pos[n], writer |-> b.writer, state |-> state[n]]

\* Mutant: the capture is filed under the next slot.
CaptureAhead(n, b) == [seq |-> pos[n] + 1, writer |-> b.writer,
                       state |-> Apply(state[n], b.records)]

\* What a checkpoint carries: its slot, the triggering batch's writer, the state.
Capture(n, b) == [seq |-> pos[n], writer |-> b.writer, state |-> Apply(state[n], b.records)]

\* Mutant: a new capture replaces one that was never flushed.
QueueNewest(q, c) == <<c>>

Queue(q, c) == Append(q, c)

Observe(n, b) ==
  /\ state' = [state EXCEPT ![n] = Apply(@, b.records)]
  /\ pos' = [pos EXCEPT ![n] = @ + 1]
  /\ pending' = IF Triggers(pos[n])
                THEN [pending EXCEPT ![n] = Queue(@, Capture(n, b))]
                ELSE pending

Init == /\ slot = [s \in {} |-> s] /\ ckpts = [s \in {} |-> s] /\ root = 0
        /\ past = <<>> /\ folded = <<NewState>>
        /\ pc = [n \in Node |-> "down"]
        /\ named = [n \in Node |-> 0]
        /\ pos = [n \in Node |-> 0]
        /\ state = [n \in Node |-> NewState]
        /\ pending = [n \in Node |-> <<>>]
        /\ newest = [n \in Node |-> 0]
        /\ flushed = [n \in Node |-> {}]

-----------------------------------------------------------------------------
(* Boot: the root, its checkpoint, the tail behind it.                     *)

\* A node reads the root. A root that names no checkpoint sends it to slot 0.
Boot(n) ==
  /\ pc[n] = "down"
  /\ pc' = [pc EXCEPT ![n] = IF root = 0 THEN "opening" ELSE "loading"]
  /\ named' = [named EXCEPT ![n] = root]
  /\ UNCHANGED <<chainVars, ckpts, root, pos, state, pending, callerVars>>

\* Mutant: the tail is read from the checkpoint's own slot.
LoadCkptInPlace(n) ==
  /\ pc[n] = "loading" /\ named[n] \in DOMAIN ckpts
  /\ state' = [state EXCEPT ![n] = ckpts[named[n]].state]
  /\ pos' = [pos EXCEPT ![n] = named[n]]
  /\ pc' = [pc EXCEPT ![n] = "opening"]
  /\ UNCHANGED <<chainVars, ckpts, root, named, pending, callerVars>>

\* The checkpoint becomes the node's State, and its handle opens behind it.
LoadCkpt(n) ==
  /\ pc[n] = "loading" /\ named[n] \in DOMAIN ckpts
  /\ state' = [state EXCEPT ![n] = ckpts[named[n]].state]
  /\ pos' = [pos EXCEPT ![n] = named[n] + 1]
  /\ pc' = [pc EXCEPT ![n] = "opening"]
  /\ UNCHANGED <<chainVars, ckpts, root, named, pending, callerVars>>

\* The handle finds a batch at its position: in Open, in Poll, or as the winner of
\* a slot it contended for.
FoldNext(n) ==
  /\ pc[n] \in {"opening", "up"} /\ Present(pos[n])
  /\ Observe(n, slot[pos[n]])
  /\ UNCHANGED <<chainVars, ckpts, root, pc, named, callerVars>>

\* Open's Poll meets the tail.
OpenTail(n) ==
  /\ pc[n] = "opening" /\ ~Present(pos[n])
  /\ pc' = [pc EXCEPT ![n] = "up"]
  /\ UNCHANGED <<chainVars, ckpts, root, named, pos, state, pending, callerVars>>

\* Chain.Append's create at the handle's position.
Land(n, records) ==
  /\ pc[n] = "up" /\ ~Present(pos[n]) /\ Len(past) < MaxLen
  /\ slot' = Put(slot, pos[n], Batch(n, records))
  /\ IF pos[n] = Len(past)
     THEN /\ past' = Append(past, Batch(n, records))
          /\ folded' = Append(folded, Apply(folded[Len(folded)], records))
     ELSE UNCHANGED <<past, folded>>
  /\ Observe(n, Batch(n, records))

AppendPayload(n) ==
  /\ \E records \in Payload[n] : Land(n, records)
  /\ UNCHANGED <<ckpts, root, pc, named, callerVars>>

-----------------------------------------------------------------------------
(* Flush, and what its caller owes: the announcement, the root, the trim.  *)

Flushable(n) == pc[n] = "up" /\ pending[n] # <<>>

\* Flush returns the slot of its oldest capture.
Returned(n) == LET s == Head(pending[n]).seq IN
               /\ pending' = [pending EXCEPT ![n] = Tail(@)]
               /\ newest' = [newest EXCEPT ![n] = s]
               /\ flushed' = [flushed EXCEPT ![n] = @ \cup {s}]

\* The create wins, or finds the object there: either way the slot is checkpointed.
Flush(n) ==
  /\ Flushable(n)
  /\ LET c == Head(pending[n]) IN
     ckpts' = IF c.seq \in DOMAIN ckpts THEN ckpts ELSE Put(ckpts, c.seq, c)
  /\ Returned(n)
  /\ UNCHANGED <<chainVars, root, pc, named, pos, state>>

\* The create lands but its answer is lost: Flush returns the error and keeps the
\* capture for the next call. (A create that fails changes nothing.)
FlushInDoubt(n) ==
  /\ Flushable(n)
  /\ LET c == Head(pending[n]) IN
     c.seq \notin DOMAIN ckpts /\ ckpts' = Put(ckpts, c.seq, c)
  /\ UNCHANGED <<chainVars, root, nodeVars, callerVars>>

\* "The caller should append a Ckpt record for each returned slot."
Announce(n) ==
  \E s \in flushed[n] :
    /\ Land(n, <<CkptRecord(s)>>)
    /\ flushed' = [flushed EXCEPT ![n] = @ \ {s}]
    /\ UNCHANGED <<ckpts, root, pc, named, newest>>

\* RootStore.Advance to the slot Flush returned.
AdvanceRoot(n) ==
  /\ pc[n] = "up" /\ root < newest[n]
  /\ root' = newest[n]
  /\ UNCHANGED <<chainVars, ckpts, nodeVars, callerVars>>

\* Mutant: the interval behind the newest checkpoint goes as well.
DoomedToNewest(c) == c - Interval .. c

\* The slots of the interval that ends at the checkpoint before c.
Doomed(c) == c + 1 - 2 * Interval .. c - Interval

\* The node may still ask for a slot up to s.
Needs(n, s) == \/ pc[n] = "loading" /\ named[n] < s
               \/ pc[n] \in {"opening", "up"} /\ pos[n] <= s

\* TrimBehind deletes an interval; DeleteBatch may stop after some of the keys. Its
\* caller trims behind a root that names the second-newest checkpoint or a later one
\* and, if Prompt, once no open handle needs the slots.
Trim(n) ==
  /\ pc[n] = "up" /\ newest[n] + 1 >= 2 * Interval
  /\ root >= newest[n] - Interval
  /\ Prompt => \A m \in Node : ~Needs(m, newest[n] - Interval)
  /\ \E gone \in SUBSET (Doomed(newest[n]) \cap DOMAIN slot) :
       slot' = [s \in DOMAIN slot \ gone |-> slot[s]]
  /\ UNCHANGED <<past, folded, ckpts, root, nodeVars, callerVars>>

Crash(n) ==
  /\ pc[n] # "down"
  /\ pc' = [pc EXCEPT ![n] = "down"]
  /\ named' = [named EXCEPT ![n] = 0]
  /\ pos' = [pos EXCEPT ![n] = 0]
  /\ state' = [state EXCEPT ![n] = NewState]
  /\ pending' = [pending EXCEPT ![n] = <<>>]
  /\ newest' = [newest EXCEPT ![n] = 0]
  /\ flushed' = [flushed EXCEPT ![n] = {}]
  /\ UNCHANGED <<chainVars, ckpts, root>>

Next == \E n \in Node :
          \/ Boot(n) \/ LoadCkpt(n) \/ FoldNext(n) \/ OpenTail(n)
          \/ AppendPayload(n)
          \/ Flush(n) \/ FlushInDoubt(n) \/ Announce(n) \/ AdvanceRoot(n) \/ Trim(n)
          \/ Crash(n)

Spec == Init /\ [][Next]_vars

-----------------------------------------------------------------------------
(* Properties.                                                             *)

IsCapture(c) == /\ c.seq \in Nat /\ Triggers(c.seq)
                /\ c.writer \in Node

\* The values the variables take.
TypeOK ==
  /\ DOMAIN slot \subseteq Nat
  /\ \A s \in DOMAIN ckpts : IsCapture(ckpts[s]) /\ ckpts[s].seq = s
  /\ root \in Nat
  /\ Len(folded) = Len(past) + 1
  /\ pc \in [Node -> {"down", "loading", "opening", "up"}]
  /\ named \in [Node -> Nat] /\ pos \in [Node -> Nat]
  /\ \A n \in Node : \A i \in DOMAIN pending[n] : IsCapture(pending[n][i])
  /\ newest \in [Node -> Nat]
  /\ \A n \in Node : flushed[n] \subseteq Nat

\* Every open node's State is the fold of all batches below its position, whether it
\* folded them itself or booted from a checkpoint (TestBootFromCheckpointMatchesFullFold).
FoldIsHistory ==
  \A n \in Node : pc[n] \in {"opening", "up"} =>
    pos[n] <= Len(past) /\ state[n] = folded[pos[n] + 1]

IsFoldOf(c) == /\ c.seq < Len(past)
               /\ c.writer = past[c.seq + 1].writer
               /\ c.state = folded[c.seq + 2]

\* Whoever captured it, a checkpoint is the one its slot determines, so the race to
\* store it has one outcome (TestCheckpointRacersProduceIdenticalBytes).
CheckpointsAgree ==
  /\ \A s \in DOMAIN ckpts : IsFoldOf(ckpts[s])
  /\ \A n \in Node : \A i \in DOMAIN pending[n] : IsFoldOf(pending[n][i])

\* Each stored checkpoint stands on a stored one an interval below, over crashes with
\* captures not yet flushed: TrimBehind's interval always has its checkpoint.
CkptsContiguous ==
  \A s \in DOMAIN ckpts : s >= Interval => s - Interval \in DOMAIN ckpts

\* A node that starts now finds every slot behind the root's checkpoint, however many
\* trims, half-done ones included, and root updates there were.
RootBoots ==
  \A s \in (IF root = 0 THEN 0 ELSE root + 1) .. (Len(past) - 1) : Present(s)

\* Flush returns, the root names and the chain announces stored checkpoints only.
NamedIsStored ==
  ({root} \cup {named[n] : n \in Node} \cup {newest[n] : n \in Node}
     \cup (UNION {flushed[n] : n \in Node}) \cup {folded[i].ckptSeq : i \in DOMAIN folded})
  \ {0} \subseteq DOMAIN ckpts

\* Whoever boots, from the root or from a name the chain announced, finds all it needs.
Bootable == CkptsContiguous /\ RootBoots /\ NamedIsStored

\* A batch only ever takes the slot behind the whole history: no handle takes the 404
\* of a trimmed slot for the tail (chain.go: "the 404 trustworthy").
NoSlotReuse == [][\A s \in DOMAIN slot' \ DOMAIN slot : s = Len(past)]_vars
=============================================================================
