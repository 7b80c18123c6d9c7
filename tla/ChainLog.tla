------------------------------ MODULE ChainLog ------------------------------
(***************************************************************************)
(* The chain package's handle on the bucket: src/chain/chain.go over the   *)
(* conditional PUT and GET of src/s3c/s3c.go.                              *)
(*                                                                         *)
(* The bucket is a partial function from sequence numbers to batches; the  *)
(* key chain/<seq16> of chain.go is the number itself. A process opens a   *)
(* handle, polls, and appends: it CAS-creates its batch at the position it *)
(* believes is the tail, and reads the winner when it loses. One action is *)
(* one request and its answer, so other processes run between any two      *)
(* requests of one call. A PUT can win, lose (412), be refused, time out   *)
(* after landing, time out and be lost, or time out and stay on its way to *)
(* the bucket, to be executed after its client gave up on it.              *)
(***************************************************************************)
EXTENDS Integers, FiniteSets

CONSTANTS
  Writer,            \* Options.Writer: the processes that share the chain
  MaxBatch,          \* bound: batches one process stages in one life
  MaxStart,          \* bound: times the processes start, taken together
  MaxFault,          \* bound: PUTs whose answer does not tell their outcome
  LateLanding,       \* whether a PUT may be executed after its client timed out
  LandedReject,      \* whether a 5xx may answer a PUT that was executed
  FreshIncarnation   \* whether a restart takes a new Options.Incarnation

ASSUME BoundsAssumption == /\ MaxBatch \in Nat /\ MaxStart \in Nat /\ MaxFault \in Nat
                           /\ LateLanding \in BOOLEAN /\ LandedReject \in BOOLEAN
                           /\ FreshIncarnation \in BOOLEAN

VARIABLES
  slot,       \* the bucket: the batch stored under each sequence number
  delayed,    \* PUTs still on their way after their client timed out
  faults,     \* how many PUTs left their client in doubt so far
  pc,         \* pc[w]: where w is inside Open, Poll or Append
  next,       \* next[w]: Chain.next
  batchID,    \* batchID[w]: Chain.batchID
  life,       \* life[w]: how many times process w has started
  from,       \* from[w]: Options.From of w's current handle
  observed,   \* observed[w]: what Options.Observe was given, by sequence number
  returned    \* history: the <<seq, batch>> of every Append that succeeded

vars == <<slot, delayed, faults, pc, next, batchID, life, from, observed, returned>>
handleVars == <<batchID, life, from>>

Phase == {"down", "opening", "polling", "idle", "put", "readWinner", "resolve"}

\* The phases of Append, from the PUT it sends to the call's return.
Appending == {"put", "readWinner", "resolve"}

Batch == [writer: Writer, incarnation: Nat, batchID: Nat, life: Nat]

Empty == [s \in {} |-> s]

At(f, s, b) == [t \in DOMAIN f \cup {s} |-> IF t = s THEN b ELSE f[t]]

-----------------------------------------------------------------------------
(* The batch a call of Append stages. Its bytes are fixed before the first *)
(* PUT; the life field stands for the records, which tell apart two        *)
(* batches of equal authorship.                                            *)

\* Mutant: every life writes under one incarnation.
ReusedIncarnation(n) == 1

Incarnation(n) == IF FreshIncarnation THEN n ELSE 1

Staged(w) == [writer |-> w, incarnation |-> Incarnation(life[w]),
              batchID |-> batchID[w], life |-> life[w]]

\* Mutants: whoever holds the slot is us; whoever holds it is not us.
AnyAuthor(a, b) == TRUE
NoAuthor(a, b) == FALSE

\* resolve's comparison: writer, incarnation and batch id.
SameAuthor(a, b) == /\ a.writer = b.writer
                    /\ a.incarnation = b.incarnation
                    /\ a.batchID = b.batchID

-----------------------------------------------------------------------------
(* The bucket.                                                             *)

Present(s) == s \in DOMAIN slot

\* The bucket executes a PUT with If-None-Match: * against a free key.
CreateExclusive(s, b) == ~Present(s) /\ slot' = At(slot, s, b)

\* Mutants: the position moves twice, or not at all.
DeliverTwice(w, b) == /\ observed' = [observed EXCEPT ![w] = At(@, next[w], b)]
                      /\ next' = [next EXCEPT ![w] = @ + 2]
DeliverInPlace(w, b) == /\ observed' = [observed EXCEPT ![w] = At(@, next[w], b)]
                        /\ UNCHANGED next

\* Chain.deliver: Observe sees batch b at the handle's position, which moves on.

Deliver(w, b) == /\ observed' = [observed EXCEPT ![w] = At(@, next[w], b)]
                 /\ next' = [next EXCEPT ![w] = @ + 1]

Goto(w, p) == pc' = [pc EXCEPT ![w] = p]

Init == /\ slot = Empty /\ delayed = {} /\ faults = 0
        /\ pc = [w \in Writer |-> "down"]
        /\ next = [w \in Writer |-> 0]
        /\ batchID = [w \in Writer |-> 0]
        /\ life = [w \in Writer |-> 0]
        /\ from = [w \in Writer |-> 0]
        /\ observed = [w \in Writer |-> Empty]
        /\ returned = {}

-----------------------------------------------------------------------------
(* Open and Poll: GET slot after slot up to the first 404.                 *)

Starts == UNION {{w} \X (1 .. life[w]) : w \in Writer}

\* A starting process opens its handle at 0 or just past a slot it knows of,
\* the newest checkpoint's.
Open(w, f) ==
  /\ pc[w] = "down" /\ Cardinality(Starts) < MaxStart
  /\ f = 0 \/ Present(f - 1)
  /\ Goto(w, "opening")
  /\ life' = [life EXCEPT ![w] = @ + 1]
  /\ batchID' = [batchID EXCEPT ![w] = 0]
  /\ from' = [from EXCEPT ![w] = f]
  /\ next' = [next EXCEPT ![w] = f]
  /\ observed' = [observed EXCEPT ![w] = Empty]
  /\ UNCHANGED <<slot, delayed, faults, returned>>

PollStart(w) ==
  /\ pc[w] = "idle"
  /\ Goto(w, "polling")
  /\ UNCHANGED <<slot, delayed, faults, next, observed, returned, handleVars>>

PollFound(w) ==
  /\ pc[w] \in {"opening", "polling"} /\ Present(next[w])
  /\ Deliver(w, slot[next[w]])
  /\ UNCHANGED <<slot, delayed, faults, pc, returned, handleVars>>

PollTail(w) ==
  /\ pc[w] \in {"opening", "polling"} /\ ~Present(next[w])
  /\ Goto(w, "idle")
  /\ UNCHANGED <<slot, delayed, faults, next, observed, returned, handleVars>>

\* A GET fails for good: Poll returns the error and Open yields no handle.
PollFails(w) ==
  /\ pc[w] \in {"opening", "polling"}
  /\ Goto(w, IF pc[w] = "opening" THEN "down" ELSE "idle")
  /\ UNCHANGED <<slot, delayed, faults, next, observed, returned, handleVars>>

-----------------------------------------------------------------------------
(* Append: stage, then PUT at next until the batch is won.                 *)

AppendStart(w) ==
  /\ pc[w] = "idle" /\ batchID[w] < MaxBatch
  /\ batchID' = [batchID EXCEPT ![w] = @ + 1]
  /\ Goto(w, "put")
  /\ UNCHANGED <<slot, delayed, faults, next, life, from, observed, returned>>

\* Append returns success: the batch it believes is its own is delivered, and
\* the caller holds the sequence number of what it staged.
ReturnWon(w, b) ==
  /\ Deliver(w, b)
  /\ returned' = returned \cup {<<next[w], Staged(w)>>}
  /\ Goto(w, "idle")

PutWins(w) ==
  /\ pc[w] = "put"
  /\ CreateExclusive(next[w], Staged(w))
  /\ ReturnWon(w, Staged(w))
  /\ UNCHANGED <<delayed, faults, handleVars>>

\* 412: somebody's batch is there.
PutLoses(w) ==
  /\ pc[w] = "put" /\ Present(next[w])
  /\ Goto(w, "readWinner")
  /\ UNCHANGED <<slot, delayed, faults, next, observed, returned, handleVars>>

\* The service refuses, or every attempt of client.do was refused: the error
\* goes to the caller.
PutRefused(w) ==
  /\ pc[w] = "put"
  /\ Goto(w, "idle")
  /\ UNCHANGED <<slot, delayed, faults, next, observed, returned, handleVars>>

\* A transport failure on a PUT: AmbiguousError, and Append goes to resolve.
PutInDoubt(w) ==
  /\ pc[w] = "put" /\ faults < MaxFault
  /\ faults' = faults + 1
  /\ Goto(w, "resolve")
  /\ UNCHANGED <<next, observed, returned, handleVars>>

PutTimesOutLanded(w) ==
  PutInDoubt(w) /\ CreateExclusive(next[w], Staged(w)) /\ UNCHANGED delayed

PutTimesOutLost(w) == PutInDoubt(w) /\ UNCHANGED <<slot, delayed>>

PutTimesOutDelayed(w) ==
  /\ LateLanding
  /\ PutInDoubt(w)
  /\ delayed' = delayed \cup {[seq |-> next[w], batch |-> Staged(w)]}
  /\ UNCHANGED slot

\* client.do takes every 5xx for a write that did not land and sends the PUT
\* again; this one did land (a gateway's 502 or 504).
PutRejectedLanded(w) ==
  /\ LandedReject /\ pc[w] = "put" /\ faults < MaxFault
  /\ faults' = faults + 1
  /\ CreateExclusive(next[w], Staged(w))
  /\ UNCHANGED <<delayed, pc, next, observed, returned, handleVars>>

\* The bucket executes a PUT its client has given up on.
LateLand(d) ==
  /\ delayed' = delayed \ {d}
  /\ \/ CreateExclusive(d.seq, d.batch)
     \/ Present(d.seq) /\ UNCHANGED slot
  /\ UNCHANGED <<faults, pc, next, observed, returned, handleVars>>

\* Mutant: fold the batch that was staged, not the one that won.
ReadWinnerUnread(w) ==
  /\ pc[w] = "readWinner" /\ Present(next[w])
  /\ Deliver(w, Staged(w))
  /\ Goto(w, "put")
  /\ UNCHANGED <<slot, delayed, faults, returned, handleVars>>

\* readSlot after a 412: fold the winner, whoever it is, and contend for the
\* next slot.
ReadWinner(w) ==
  /\ pc[w] = "readWinner" /\ Present(next[w])
  /\ Deliver(w, slot[next[w]])
  /\ Goto(w, "put")
  /\ UNCHANGED <<slot, delayed, faults, returned, handleVars>>

\* Mutant: the handle steps back to look again.
ResolveStepsBack(w) ==
  /\ pc[w] = "resolve" /\ ~Present(next[w])
  /\ Goto(w, "put")
  /\ next' = [next EXCEPT ![w] = @ - 1]
  /\ UNCHANGED <<slot, delayed, faults, observed, returned, handleVars>>

\* resolve finds nothing: the same slot is up for grabs again.
ResolveEmpty(w) ==
  /\ pc[w] = "resolve" /\ ~Present(next[w])
  /\ Goto(w, "put")
  /\ UNCHANGED <<slot, delayed, faults, next, observed, returned, handleVars>>

\* resolve finds a batch by the same author: the PUT landed after all.
ResolveWon(w) ==
  /\ pc[w] = "resolve" /\ Present(next[w])
  /\ SameAuthor(slot[next[w]], Staged(w))
  /\ ReturnWon(w, slot[next[w]])
  /\ UNCHANGED <<slot, delayed, faults, handleVars>>

\* resolve finds somebody else's batch: fold it and contend for the next slot.
ResolveLost(w) ==
  /\ pc[w] = "resolve" /\ Present(next[w])
  /\ ~SameAuthor(slot[next[w]], Staged(w))
  /\ Deliver(w, slot[next[w]])
  /\ Goto(w, "put")
  /\ UNCHANGED <<slot, delayed, faults, returned, handleVars>>

\* The GET of readSlot or resolve fails for good: Append returns an error and
\* its caller does not learn whether the batch is on the chain.
ReadFails(w) ==
  /\ pc[w] \in {"readWinner", "resolve"}
  /\ Goto(w, "idle")
  /\ UNCHANGED <<slot, delayed, faults, next, observed, returned, handleVars>>

\* The process dies and its handle with it; a PUT it had sent is one of the
\* timed-out ones above.
Crash(w) ==
  /\ pc[w] # "down"
  /\ Goto(w, "down")
  /\ batchID' = [batchID EXCEPT ![w] = 0]
  /\ from' = [from EXCEPT ![w] = 0]
  /\ next' = [next EXCEPT ![w] = 0]
  /\ observed' = [observed EXCEPT ![w] = Empty]
  /\ UNCHANGED <<slot, delayed, faults, life, returned>>

-----------------------------------------------------------------------------
OpenOrPoll(w) == \/ \E f \in {0} \cup {s + 1 : s \in DOMAIN slot} : Open(w, f)
                 \/ PollStart(w) \/ PollFound(w) \/ PollTail(w) \/ PollFails(w)

Append(w) == \/ AppendStart(w) \/ PutWins(w) \/ PutLoses(w) \/ PutRefused(w)
             \/ PutTimesOutLanded(w) \/ PutTimesOutLost(w) \/ PutTimesOutDelayed(w)
             \/ PutRejectedLanded(w)
             \/ ReadWinner(w) \/ ResolveEmpty(w) \/ ResolveWon(w) \/ ResolveLost(w)
             \/ ReadFails(w)

Next == \/ \E w \in Writer : OpenOrPoll(w) \/ Append(w) \/ Crash(w)
        \/ \E d \in delayed : LateLand(d)

Spec == Init /\ [][Next]_vars

\* A handle's own requests are answered: the process is one goroutine in a loop,
\* and every request ends by its answer or its context's deadline. Crashes,
\* refusals and time-outs are never owed.
Progress(w) == \/ PollFound(w) \/ PollTail(w) \/ PutWins(w) \/ PutLoses(w)
               \/ ReadWinner(w) \/ ResolveEmpty(w) \/ ResolveWon(w) \/ ResolveLost(w)

FairSpec == Spec /\ \A w \in Writer : WF_vars(Progress(w))

-----------------------------------------------------------------------------
(* Properties.                                                             *)

\* The values the variables take.
TypeOK ==
  /\ DOMAIN slot \subseteq Nat /\ \A s \in DOMAIN slot : slot[s] \in Batch
  /\ \A d \in delayed : d.seq \in Nat /\ d.batch \in Batch
  /\ faults \in Nat
  /\ pc \in [Writer -> Phase]
  /\ next \in [Writer -> Nat]
  /\ batchID \in [Writer -> Nat] /\ life \in [Writer -> Nat]
  /\ from \in [Writer -> Nat]
  /\ DOMAIN observed = Writer
  /\ \A r \in returned : r[1] \in Nat /\ r[2] \in Batch

\* The chain is dense: no slot is written while a lower one is free, whatever
\* becomes of the PUTs (Open's 404 means "nothing newer exists yet").
DenseLog == \A s \in DOMAIN slot : \A t \in 0 .. (s - 1) : Present(t)

\* Every handle has folded exactly the slots from the one it opened at up to its
\* position, each as the bucket holds it, its own appends among them
\* (Options.Observe: "a fold wired to Observe is therefore complete").
ObservedIsLog ==
  \A w \in Writer :
    /\ DOMAIN observed[w] = from[w] .. (next[w] - 1)
    /\ \A s \in DOMAIN observed[w] : Present(s) /\ observed[w][s] = slot[s]

\* What the chain is for: one dense order, folded completely by everyone who follows it.
LogHolds == DenseLog /\ ObservedIsLog

\* An Append that returned success named the slot that holds what it staged.
AckedDurable == \A r \in returned : Present(r[1]) /\ slot[r[1]] = r[2]

NotNewer(a, b) == \/ a.incarnation < b.incarnation
                  \/ a.incarnation = b.incarnation /\ a.batchID <= b.batchID

\* One writer's batches stand on the chain in the order it staged them, over
\* restarts, time-outs and PUTs that land late.
WriterOrder ==
  \A s, t \in DOMAIN slot :
    s < t /\ slot[s].writer = slot[t].writer => NotNewer(slot[s], slot[t])

\* No step removes or rewrites a slot.
SlotsImmutable ==
  [][\A s \in DOMAIN slot : s \in DOMAIN slot' /\ slot'[s] = slot[s]]_vars

\* A staged batch stands on the chain at most once, however often its PUT was
\* repeated.
LandsOnce == \A s, t \in DOMAIN slot : slot[s] = slot[t] => s = t

\* The chain is one total order of batches that handles walk and extend.
Abstract == INSTANCE TotalOrderLog WITH log <- slot, pos <- next, acked <- returned
ImplementsTotalOrder == Abstract!Spec

\* With finitely many batches to contend with, every Append returns: with
\* success, with an error, or because its process died.
AppendReturns ==
  \A w \in Writer : (pc[w] \in Appending) ~> (pc[w] \in {"idle", "down"})

-----------------------------------------------------------------------------
(* What the proofs add to make these inductive.                            *)

\* A handle, and a PUT on its way, stand no further than the first free slot.
NoneBeyondTail ==
  /\ \A w \in Writer : from[w] <= next[w] /\ \A t \in 0 .. (next[w] - 1) : Present(t)
  /\ \A d \in delayed : \A t \in 0 .. (d.seq - 1) : Present(t)

\* Batch b carries the incarnation of the life that staged it, and that life is not
\* ahead of its process.
AuthoredBy(b) ==
  /\ b.incarnation = Incarnation(b.life)
  /\ b.life <= life[b.writer]
  /\ b.life = life[b.writer] /\ pc[b.writer] # "down" => b.batchID <= batchID[b.writer]

Authored == /\ \A s \in DOMAIN slot : AuthoredBy(slot[s])
            /\ \A d \in delayed : AuthoredBy(d.batch)
            /\ \A w \in Writer : life[w] = 0 => pc[w] = "down"

\* A PUT on its way is not older than what its writer has below it.
DelayedOrder ==
  \A d \in delayed : \A s \in DOMAIN slot :
    s < d.seq /\ slot[s].writer = d.batch.writer => NotNewer(slot[s], d.batch)

\* What a handle in the middle of an Append may find of its own batch, when a PUT
\* is decided before its client hears about it: nothing before the PUT and after a
\* 412, and at most the slot at its position while in doubt.
OwnBatch ==
  \A w \in Writer : \A s \in DOMAIN slot :
    slot[s] = Staged(w) => /\ pc[w] \notin {"put", "readWinner"}
                           /\ pc[w] = "resolve" => s = next[w]
=============================================================================
