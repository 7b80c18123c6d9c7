--------------------------- MODULE ChainLogProofs ---------------------------
(***************************************************************************)
(* Proofs about ChainLog, for any set of writers and any bounds.           *)
(***************************************************************************)
EXTENDS ChainLog, TLAPS

-----------------------------------------------------------------------------
(* Type correctness.                                                       *)

\* Adding one entry to a partial function adds its key and keeps the others.
LEMMA AtFacts ==
  ASSUME NEW f, NEW s, NEW b
  PROVE  /\ DOMAIN At(f, s, b) = DOMAIN f \cup {s}
         /\ At(f, s, b)[s] = b
         /\ \A t \in DOMAIN f : t # s => At(f, s, b)[t] = f[t]
BY DEF At

\* A staged batch is a batch.
LEMMA StagedType ==
  ASSUME TypeOK, NEW w \in Writer
  PROVE  Staged(w) \in Batch
BY DEF TypeOK, Staged, Batch, Incarnation

\* The only writes to the bucket are conditional creations: by an Append at its
\* handle's position, or by a PUT that was on its way.
SlotStep ==
  \/ UNCHANGED slot
  \/ \E w \in Writer : pc[w] = "put" /\ CreateExclusive(next[w], Staged(w))
  \/ \E d \in delayed : CreateExclusive(d.seq, d.batch)

\* Every step of the specification is such a step: no action writes the bucket in
\* another way.
LEMMA NextSlotStep == [Next]_vars => SlotStep
<1> SUFFICES ASSUME [Next]_vars PROVE SlotStep
  OBVIOUS
<1>1. ASSUME NEW w \in Writer, OpenOrPoll(w) PROVE SlotStep
  BY <1>1 DEF OpenOrPoll, Open, PollStart, PollFound, PollTail, PollFails, SlotStep
<1>2. ASSUME NEW w \in Writer, Append(w) PROVE SlotStep
  BY <1>2 DEF Append, AppendStart, PutWins, PutLoses, PutRefused, PutTimesOutLanded,
       PutTimesOutLost, PutTimesOutDelayed, PutRejectedLanded, PutInDoubt, ReadWinner,
       ResolveEmpty, ResolveWon, ResolveLost, ReadFails, SlotStep
<1>3. ASSUME NEW w \in Writer, Crash(w) PROVE SlotStep
  BY <1>3 DEF Crash, SlotStep
<1>4. ASSUME NEW d \in delayed, LateLand(d) PROVE SlotStep
  BY <1>4 DEF LateLand, SlotStep
<1>5. CASE UNCHANGED vars
  BY <1>5 DEF vars, SlotStep
<1> QED BY <1>1, <1>2, <1>3, <1>4, <1>5 DEF Next

\* The positions and what Observe was given move together: a handle stands still,
\* is (re)opened or dies, or folds the batch its slot holds after the step.
HandleStep(w) ==
  \/ UNCHANGED <<next[w], observed[w], from[w]>>
  \/ /\ observed'[w] = Empty /\ next'[w] = from'[w]
     /\ \/ from'[w] = 0
        \/ from'[w] - 1 \in DOMAIN slot /\ UNCHANGED slot
  \/ /\ next[w] \in DOMAIN slot'
     /\ next'[w] = next[w] + 1 /\ UNCHANGED from[w]
     /\ observed'[w] = At(observed[w], next[w], slot'[next[w]])

\* Chain.deliver of the batch the bucket holds moves one handle as above and leaves
\* the others alone.
LEMMA DeliverStep ==
  ASSUME TypeOK, NEW w \in Writer, NEW b, Deliver(w, b), UNCHANGED from,
         next[w] \in DOMAIN slot', b = slot'[next[w]]
  PROVE  \A v \in Writer : HandleStep(v)
<1>1. \A v \in Writer : v # w => UNCHANGED <<next[v], observed[v], from[v]>>
  BY DEF Deliver, TypeOK
<1>2. HandleStep(w)
  BY DEF Deliver, TypeOK, HandleStep
<1> QED BY <1>1, <1>2 DEF HandleStep

\* Every step of Open, Poll and Append moves each handle in one of these ways.
LEMMA NextHandleStep ==
  ASSUME TypeOK, [Next]_vars
  PROVE  \A v \in Writer : HandleStep(v)
<1>1. ASSUME NEW w \in Writer, OpenOrPoll(w) PROVE \A v \in Writer : HandleStep(v)
  <2>1. ASSUME NEW f \in {0} \cup {s + 1 : s \in DOMAIN slot}, Open(w, f)
        PROVE \A v \in Writer : HandleStep(v)
    BY <2>1 DEF Open, TypeOK, HandleStep, Present
  <2>2. CASE PollFound(w)
    BY <2>2, DeliverStep DEF PollFound, Present, handleVars
  <2>3. CASE PollStart(w) \/ PollTail(w) \/ PollFails(w)
    BY <2>3 DEF PollStart, PollTail, PollFails, HandleStep, handleVars
  <2> QED BY <1>1, <2>1, <2>2, <2>3 DEF OpenOrPoll
<1>2. ASSUME NEW w \in Writer, Append(w) PROVE \A v \in Writer : HandleStep(v)
  <2>1. CASE PutWins(w)
    <3>1. next[w] \in DOMAIN slot' /\ slot'[next[w]] = Staged(w)
      BY <2>1 DEF PutWins, CreateExclusive, At
    <3> QED BY <2>1, <3>1, DeliverStep DEF PutWins, ReturnWon, handleVars
  <2>2. CASE ReadWinner(w) \/ ResolveLost(w)
    BY <2>2, DeliverStep DEF ReadWinner, ResolveLost, Present, handleVars
  <2>3. CASE ResolveWon(w)
    BY <2>3, DeliverStep DEF ResolveWon, ReturnWon, Present, handleVars
  <2>4. CASE \/ AppendStart(w) \/ PutLoses(w) \/ PutRefused(w) \/ PutTimesOutLanded(w)
             \/ PutTimesOutLost(w) \/ PutTimesOutDelayed(w) \/ PutRejectedLanded(w)
             \/ ResolveEmpty(w) \/ ReadFails(w)
    BY <2>4 DEF AppendStart, PutLoses, PutRefused, PutTimesOutLanded, PutTimesOutLost,
         PutTimesOutDelayed, PutRejectedLanded, PutInDoubt, ResolveEmpty, ReadFails,
         HandleStep, handleVars
  <2> QED BY <1>2, <2>1, <2>2, <2>3, <2>4 DEF Append
<1>3. ASSUME NEW w \in Writer, Crash(w) PROVE \A v \in Writer : HandleStep(v)
  BY <1>3 DEF Crash, TypeOK, HandleStep
<1>4. ASSUME NEW d \in delayed, LateLand(d) PROVE \A v \in Writer : HandleStep(v)
  BY <1>4 DEF LateLand, HandleStep, handleVars
<1>5. CASE UNCHANGED vars
  BY <1>5 DEF vars, HandleStep
<1> QED BY <1>1, <1>2, <1>3, <1>4, <1>5 DEF Next

-----------------------------------------------------------------------------
(* Type correctness.                                                       *)

\* A conditional creation stores a batch under a sequence number.
LEMMA TypeOKSlot ==
  ASSUME TypeOK, SlotStep
  PROVE  DOMAIN slot' \subseteq Nat /\ \A s \in DOMAIN slot' : slot'[s] \in Batch
<1>1. ASSUME NEW n \in Nat, NEW b \in Batch, CreateExclusive(n, b)
      PROVE  DOMAIN slot' \subseteq Nat /\ \A s \in DOMAIN slot' : slot'[s] \in Batch
  BY <1>1 DEF TypeOK, CreateExclusive, At
<1>2. ASSUME NEW w \in Writer, CreateExclusive(next[w], Staged(w))
      PROVE  DOMAIN slot' \subseteq Nat /\ \A s \in DOMAIN slot' : slot'[s] \in Batch
  BY <1>1, <1>2, StagedType DEF TypeOK
<1>3. ASSUME NEW d \in delayed, CreateExclusive(d.seq, d.batch)
      PROVE  DOMAIN slot' \subseteq Nat /\ \A s \in DOMAIN slot' : slot'[s] \in Batch
  BY <1>1, <1>3 DEF TypeOK
<1> QED BY <1>2, <1>3 DEF SlotStep, TypeOK

\* Types are kept by every step of a handle or of the bucket.
LEMMA TypeOKStep == TypeOK /\ [Next]_vars => TypeOK'
<1> SUFFICES ASSUME TypeOK, [Next]_vars PROVE TypeOK'
  OBVIOUS
<1>1. DOMAIN slot' \subseteq Nat /\ \A s \in DOMAIN slot' : slot'[s] \in Batch
  BY NextSlotStep, TypeOKSlot
<1>2. DOMAIN observed' = Writer
  <2>1. ASSUME NEW w \in Writer, OpenOrPoll(w) PROVE DOMAIN observed' = Writer
    BY <2>1 DEF OpenOrPoll, Open, PollStart, PollFound, PollTail, PollFails, Deliver, TypeOK
  <2>2. ASSUME NEW w \in Writer, Append(w) PROVE DOMAIN observed' = Writer
    BY <2>2 DEF Append, AppendStart, PutWins, PutLoses, PutRefused, PutTimesOutLanded,
         PutTimesOutLost, PutTimesOutDelayed, PutRejectedLanded, PutInDoubt, ReadWinner,
         ResolveEmpty, ResolveWon, ResolveLost, ReadFails, ReturnWon, Deliver, TypeOK
  <2> QED BY <2>1, <2>2 DEF Next, Crash, LateLand, vars, TypeOK
<1>3. pc' \in [Writer -> Phase] /\ next' \in [Writer -> Nat]
  <2>1. ASSUME NEW w \in Writer, OpenOrPoll(w)
        PROVE pc' \in [Writer -> Phase] /\ next' \in [Writer -> Nat]
    BY <2>1 DEF OpenOrPoll, Open, PollStart, PollFound, PollTail, PollFails, Deliver, Goto,
         Present, Phase, TypeOK
  <2>2. ASSUME NEW w \in Writer, Append(w)
        PROVE pc' \in [Writer -> Phase] /\ next' \in [Writer -> Nat]
    BY <2>2 DEF Append, AppendStart, PutWins, PutLoses, PutRefused, PutTimesOutLanded,
         PutTimesOutLost, PutTimesOutDelayed, PutRejectedLanded, PutInDoubt, ReadWinner,
         ResolveEmpty, ResolveWon, ResolveLost, ReadFails, ReturnWon, Deliver, Goto,
         Phase, TypeOK
  <2> QED BY <2>1, <2>2 DEF Next, Crash, LateLand, vars, Goto, Phase, TypeOK
<1>4. /\ batchID' \in [Writer -> Nat] /\ life' \in [Writer -> Nat]
      /\ from' \in [Writer -> Nat] /\ faults' \in Nat
  <2>1. ASSUME NEW w \in Writer, OpenOrPoll(w)
        PROVE /\ batchID' \in [Writer -> Nat] /\ life' \in [Writer -> Nat]
              /\ from' \in [Writer -> Nat] /\ faults' \in Nat
    BY <2>1 DEF OpenOrPoll, Open, PollStart, PollFound, PollTail, PollFails, Present,
         handleVars, TypeOK
  <2>2. ASSUME NEW w \in Writer, Append(w)
        PROVE /\ batchID' \in [Writer -> Nat] /\ life' \in [Writer -> Nat]
              /\ from' \in [Writer -> Nat] /\ faults' \in Nat
    BY <2>2 DEF Append, AppendStart, PutWins, PutLoses, PutRefused, PutTimesOutLanded,
         PutTimesOutLost, PutTimesOutDelayed, PutRejectedLanded, PutInDoubt, ReadWinner,
         ResolveEmpty, ResolveWon, ResolveLost, ReadFails, handleVars, TypeOK
  <2> QED BY <2>1, <2>2 DEF Next, Crash, LateLand, vars, handleVars, TypeOK
<1>5. \A d \in delayed' : d.seq \in Nat /\ d.batch \in Batch
  <2>1. ASSUME NEW w \in Writer, Append(w)
        PROVE \A d \in delayed' : d.seq \in Nat /\ d.batch \in Batch
    BY <2>1, StagedType DEF Append, AppendStart, PutWins, PutLoses, PutRefused,
         PutTimesOutLanded, PutTimesOutLost, PutTimesOutDelayed, PutRejectedLanded,
         PutInDoubt, ReadWinner, ResolveEmpty, ResolveWon, ResolveLost, ReadFails, TypeOK
  <2> QED BY <2>1 DEF Next, OpenOrPoll, Open, PollStart, PollFound, PollTail, PollFails,
            Crash, LateLand, vars, TypeOK
<1>6. \A r \in returned' : r[1] \in Nat /\ r[2] \in Batch
  <2>1. ASSUME NEW w \in Writer, Append(w)
        PROVE \A r \in returned' : r[1] \in Nat /\ r[2] \in Batch
    BY <2>1, StagedType DEF Append, AppendStart, PutWins, PutLoses, PutRefused,
         PutTimesOutLanded, PutTimesOutLost, PutTimesOutDelayed, PutRejectedLanded,
         PutInDoubt, ReadWinner, ResolveEmpty, ResolveWon, ResolveLost, ReadFails,
         ReturnWon, TypeOK
  <2> QED BY <2>1 DEF Next, OpenOrPoll, Open, PollStart, PollFound, PollTail, PollFails,
            Crash, LateLand, vars, handleVars, TypeOK
<1> QED BY <1>1, <1>2, <1>3, <1>4, <1>5, <1>6 DEF TypeOK

\* The variables keep their types for every number of processes and every bound.
THEOREM TypeCorrect == Spec => []TypeOK
<1>1. Init => TypeOK
  BY DEF Init, TypeOK, Empty, Phase
<1> QED BY <1>1, TypeOKStep, PTL DEF Spec

-----------------------------------------------------------------------------
(* The chain is dense, immutable, and every handle's fold is a piece of it. *)

\* What a slot step does to the slots that were there, and to the tail.
LEMMA SlotKept ==
  ASSUME TypeOK, SlotStep
  PROVE  \A s \in DOMAIN slot : s \in DOMAIN slot' /\ slot'[s] = slot[s]
BY DEF SlotStep, CreateExclusive, Present, At

\* No step removes or rewrites a slot.
THEOREM SlotsNeverChange == Spec => SlotsImmutable
<1>1. TypeOK /\ [Next]_vars
        => [\A s \in DOMAIN slot : s \in DOMAIN slot' /\ slot'[s] = slot[s]]_vars
  BY NextSlotStep, SlotKept
<1> QED BY <1>1, TypeCorrect, PTL DEF Spec, SlotsImmutable

DenseInv == TypeOK /\ DenseLog /\ NoneBeyondTail /\ ObservedIsLog

\* Creating a slot at a position that no free slot lies below keeps the chain dense.
LEMMA DenseStep ==
  ASSUME DenseInv, SlotStep, TypeOK'
  PROVE  DenseLog'
<1>1. CASE UNCHANGED slot
  BY <1>1 DEF DenseInv, DenseLog, Present
<1>2. ASSUME NEW n \in Nat, NEW b, CreateExclusive(n, b),
             \A t \in 0 .. (n - 1) : Present(t)
      PROVE  DenseLog'
  BY <1>2 DEF DenseInv, DenseLog, CreateExclusive, Present, At
<1>3. ASSUME NEW w \in Writer, CreateExclusive(next[w], Staged(w)) PROVE DenseLog'
  BY <1>2, <1>3 DEF DenseInv, NoneBeyondTail, TypeOK
<1>4. ASSUME NEW d \in delayed, CreateExclusive(d.seq, d.batch) PROVE DenseLog'
  BY <1>2, <1>4 DEF DenseInv, NoneBeyondTail, TypeOK
<1> QED BY <1>1, <1>3, <1>4 DEF SlotStep

\* A PUT starts its way at its client's position.
LEMMA DelayedStep ==
  ASSUME TypeOK, [Next]_vars
  PROVE  \A d \in delayed' :
           \/ d \in delayed
           \/ \E w \in Writer : /\ pc[w] = "put" /\ d = [seq |-> next[w], batch |-> Staged(w)]
                               /\ UNCHANGED <<slot, next, batchID, life, from, observed>>
                               /\ pc' = [pc EXCEPT ![w] = "resolve"]
BY DEF Next, OpenOrPoll, Open, PollStart, PollFound, PollTail, PollFails, Append, AppendStart,
     PutWins, PutLoses, PutRefused, PutTimesOutLanded, PutTimesOutLost, PutTimesOutDelayed,
     PutRejectedLanded, PutInDoubt, ReadWinner, ResolveEmpty, ResolveWon, ResolveLost,
     ReadFails, Crash, LateLand, Goto, handleVars, vars

\* Density, the handles' positions and what they folded are kept together: a PUT is
\* sent to the position, and the position only passes slots that exist.
LEMMA DenseInvStep == DenseInv /\ [Next]_vars => DenseInv'
<1> SUFFICES ASSUME DenseInv, [Next]_vars PROVE DenseInv'
  OBVIOUS
<1>1. TypeOK /\ TypeOK' /\ SlotStep /\ \A v \in Writer : HandleStep(v)
  BY TypeOKStep, NextSlotStep, NextHandleStep DEF DenseInv
<1>2. \A s \in DOMAIN slot : s \in DOMAIN slot' /\ slot'[s] = slot[s]
  BY <1>1, SlotKept
<1>3. DenseLog'
  BY <1>1, DenseStep
<1>4. ASSUME NEW v \in Writer
      PROVE  from'[v] <= next'[v] /\ \A t \in 0 .. (next'[v] - 1) : t \in DOMAIN slot'
  <2>0. /\ next[v] \in Nat /\ from[v] \in Nat /\ next'[v] \in Nat /\ from'[v] \in Nat
        /\ from[v] <= next[v] /\ \A t \in 0 .. (next[v] - 1) : t \in DOMAIN slot
    BY <1>1 DEF DenseInv, NoneBeyondTail, Present, TypeOK
  <2>1. CASE UNCHANGED <<next[v], observed[v], from[v]>>
    BY <1>2, <2>0, <2>1
  <2>2. CASE next'[v] = from'[v] /\ (\/ from'[v] = 0
                                     \/ from'[v] - 1 \in DOMAIN slot /\ UNCHANGED slot)
    BY <2>0, <2>2, <1>1 DEF DenseInv, DenseLog, Present, TypeOK
  <2>3. CASE next[v] \in DOMAIN slot' /\ next'[v] = next[v] + 1 /\ UNCHANGED from[v]
    BY <1>2, <2>0, <2>3
  <2> QED BY <1>1, <2>1, <2>2, <2>3 DEF HandleStep
<1>5. ASSUME NEW d \in delayed' PROVE \A t \in 0 .. (d.seq - 1) : t \in DOMAIN slot'
  BY <1>1, <1>2, DelayedStep DEF DenseInv, NoneBeyondTail, Present
<1>6. ASSUME NEW v \in Writer
      PROVE  /\ DOMAIN observed'[v] = from'[v] .. (next'[v] - 1)
             /\ \A s \in DOMAIN observed'[v] :
                  s \in DOMAIN slot' /\ observed'[v][s] = slot'[s]
  <2>0. /\ next[v] \in Nat /\ from[v] \in Nat /\ next'[v] \in Nat /\ from'[v] \in Nat
        /\ from[v] <= next[v]
        /\ DOMAIN observed[v] = from[v] .. (next[v] - 1)
        /\ \A s \in DOMAIN observed[v] : s \in DOMAIN slot /\ observed[v][s] = slot[s]
    BY <1>1 DEF DenseInv, NoneBeyondTail, ObservedIsLog, Present, TypeOK
  <2>1. CASE UNCHANGED <<next[v], observed[v], from[v]>>
    BY <1>2, <2>0, <2>1
  <2>2. CASE observed'[v] = Empty /\ next'[v] = from'[v]
    BY <2>0, <2>2 DEF Empty
  <2>3. CASE /\ next[v] \in DOMAIN slot' /\ next'[v] = next[v] + 1 /\ UNCHANGED from[v]
             /\ observed'[v] = At(observed[v], next[v], slot'[next[v]])
    BY <1>2, <2>0, <2>3 DEF At
  <2> QED BY <1>1, <2>1, <2>2, <2>3 DEF HandleStep
<1> QED BY <1>1, <1>3, <1>4, <1>5, <1>6 DEF DenseInv, NoneBeyondTail, ObservedIsLog, Present

\* An empty bucket and closed handles satisfy it.
LEMMA DenseInvInit == Init => DenseInv
BY DEF Init, DenseInv, TypeOK, DenseLog, NoneBeyondTail, ObservedIsLog, Empty, Phase

\* So it holds in every state.
LEMMA DenseInvAlways == Spec => []DenseInv
BY DenseInvInit, DenseInvStep, PTL DEF Spec

\* No slot is written while a lower one is free, for any number of processes, with
\* PUTs that land late and 5xx answers that lie.
THEOREM ChainIsDense == Spec => []DenseLog
BY DenseInvAlways, PTL DEF DenseInv

\* Every handle's fold saw exactly the slots between where it opened and where it
\* stands, as the bucket holds them.
THEOREM FoldIsComplete == Spec => []ObservedIsLog
BY DenseInvAlways, PTL DEF DenseInv

\* The two together: one dense order, folded completely by every handle that follows it.
THEOREM LogHoldsAlways == Spec => []LogHolds
<1>1. DenseInv => LogHolds
  BY DEF DenseInv, LogHolds
<1> QED BY <1>1, DenseInvAlways, PTL

-----------------------------------------------------------------------------
(* One writer's batches stand in the order it staged them. This takes a    *)
(* fresh incarnation for every life of a process.                          *)

OrderInv == DenseInv /\ Authored /\ WriterOrder /\ DelayedOrder

\* How one process's identity counters move. A batch on the chain or on its way is
\* never ahead of them.
AuthorStep(w) ==
  /\ life'[w] >= life[w]
  /\ life'[w] = 0 => pc'[w] = "down"
  /\ \/ life'[w] > life[w]
     \/ pc'[w] = "down"
     \/ pc[w] # "down" /\ batchID'[w] >= batchID[w]

\* Every step changes a process's life and batch ids in one of these ways.
LEMMA NextAuthorStep ==
  ASSUME TypeOK, Authored, [Next]_vars
  PROVE  \A v \in Writer : AuthorStep(v)
<1>1. ASSUME NEW w \in Writer, OpenOrPoll(w) PROVE \A v \in Writer : AuthorStep(v)
  BY <1>1 DEF OpenOrPoll, Open, PollStart, PollFound, PollTail, PollFails, Goto, handleVars,
       AuthorStep, Authored, TypeOK
<1>2. ASSUME NEW w \in Writer, Append(w) PROVE \A v \in Writer : AuthorStep(v)
  BY <1>2 DEF Append, AppendStart, PutWins, PutLoses, PutRefused, PutTimesOutLanded,
       PutTimesOutLost, PutTimesOutDelayed, PutRejectedLanded, PutInDoubt, ReadWinner,
       ResolveEmpty, ResolveWon, ResolveLost, ReadFails, ReturnWon, Goto, handleVars,
       AuthorStep, Authored, TypeOK
<1> QED BY <1>1, <1>2 DEF Next, Crash, LateLand, vars, Goto, handleVars, AuthorStep, Authored,
         TypeOK

\* Staging and restarting leave the authorship of an earlier batch true.
LEMMA AuthoredKept ==
  ASSUME TypeOK, TypeOK', NEW b \in Batch, AuthoredBy(b), AuthorStep(b.writer)
  PROVE  AuthoredBy(b)'
BY DEF AuthoredBy, AuthorStep, TypeOK, Batch, Incarnation

\* A batch about to be PUT names its writer's current life.
LEMMA StagedAuthored ==
  ASSUME TypeOK, NEW w \in Writer
  PROVE  AuthoredBy(Staged(w))
BY DEF AuthoredBy, Staged, TypeOK

\* Every batch on the chain or on its way to it was staged by a life of its writer.
LEMMA AuthoredStep ==
  ASSUME TypeOK, TypeOK', Authored, [Next]_vars
  PROVE  Authored'
<1>1. \A v \in Writer : AuthorStep(v)
  BY NextAuthorStep
<1>2. ASSUME NEW b \in Batch, AuthoredBy(b) PROVE AuthoredBy(b)'
  BY <1>1, <1>2, AuthoredKept DEF Batch
<1>3. ASSUME NEW s \in DOMAIN slot' PROVE AuthoredBy(slot[s])'
  <2>1. PICK b \in Batch : b = slot'[s]
    BY DEF TypeOK
  <2>2. AuthoredBy(b)
    <3>1. CASE s \in DOMAIN slot
      BY <2>1, <3>1, NextSlotStep, SlotKept DEF Authored
    <3>2. CASE s \notin DOMAIN slot
      <4>1. \/ \E w \in Writer : slot'[s] = Staged(w)
            \/ \E d \in delayed : slot'[s] = d.batch
        BY <3>2, NextSlotStep DEF SlotStep, CreateExclusive, At
      <4> QED BY <2>1, <4>1, StagedAuthored DEF Authored
    <3> QED BY <3>1, <3>2
  <2> QED BY <1>2, <2>1, <2>2 DEF AuthoredBy
<1>4. ASSUME NEW d \in delayed' PROVE AuthoredBy(d.batch)'
  BY <1>2, DelayedStep, StagedAuthored, StagedType DEF Authored, TypeOK
<1>5. \A w \in Writer : life'[w] = 0 => pc'[w] = "down"
  BY <1>1 DEF AuthorStep
<1> QED BY <1>3, <1>4, <1>5 DEF Authored

\* A batch its process may have staged is not newer than what it stages now.
LEMMA StagedNewest ==
  ASSUME FreshIncarnation, TypeOK, NEW w \in Writer, pc[w] # "down",
         NEW b \in Batch, b.writer = w, AuthoredBy(b)
  PROVE  NotNewer(b, Staged(w))
BY DEF TypeOK, Batch, AuthoredBy, Staged, Incarnation, NotNewer

\* A conditional creation at the tail keeps each writer's batches in order.
LEMMA OrderStep ==
  ASSUME FreshIncarnation, OrderInv, [Next]_vars, DenseInv', Authored'
  PROVE  WriterOrder' /\ DelayedOrder'
<1>0. TypeOK /\ TypeOK' /\ SlotStep
  BY NextSlotStep DEF OrderInv, DenseInv
<1>1. ASSUME NEW n \in Nat, NEW b \in Batch, CreateExclusive(n, b),
             \A s \in DOMAIN slot :
               s < n /\ slot[s].writer = b.writer => NotNewer(slot[s], b)
      PROVE  WriterOrder'
  <2>1. \A s \in DOMAIN slot : s < n
    BY <1>0, <1>1 DEF OrderInv, DenseInv, DenseLog, CreateExclusive, Present, TypeOK
  <2> QED BY <1>0, <1>1, <2>1 DEF OrderInv, WriterOrder, CreateExclusive, At, TypeOK
<1>2. ASSUME NEW w \in Writer, pc[w] = "put", NEW s \in DOMAIN slot, slot[s].writer = w
      PROVE  NotNewer(slot[s], Staged(w))
  BY <1>0, <1>2, StagedNewest DEF OrderInv, Authored, TypeOK
<1>3. WriterOrder'
  <2>1. CASE UNCHANGED slot
    BY <2>1 DEF OrderInv, WriterOrder, NotNewer
  <2>2. ASSUME NEW w \in Writer, pc[w] = "put", CreateExclusive(next[w], Staged(w))
        PROVE  WriterOrder'
    <3>1. Staged(w).writer = w /\ Staged(w) \in Batch /\ next[w] \in Nat
      BY <1>0, StagedType DEF Staged, TypeOK
    <3> QED BY <1>1, <1>2, <2>2, <3>1
  <2>3. ASSUME NEW d \in delayed, CreateExclusive(d.seq, d.batch) PROVE WriterOrder'
    BY <1>0, <1>1, <2>3 DEF OrderInv, DelayedOrder, TypeOK
  <2> QED BY <1>0, <2>1, <2>2, <2>3 DEF SlotStep
<1>4. ASSUME NEW d \in delayed', NEW s \in DOMAIN slot', s < d.seq,
             slot'[s].writer = d.batch.writer
      PROVE  NotNewer(slot'[s], d.batch)
  <2>1. CASE d \in delayed
    <3>1. s \in DOMAIN slot /\ slot'[s] = slot[s]
      BY <1>0, <1>4, <2>1, SlotKept DEF OrderInv, DenseInv, NoneBeyondTail, Present, TypeOK
    <3> QED BY <1>4, <2>1, <3>1 DEF OrderInv, DelayedOrder
  <2>2. ASSUME NEW w \in Writer, pc[w] = "put", UNCHANGED slot,
               d = [seq |-> next[w], batch |-> Staged(w)]
        PROVE  NotNewer(slot'[s], d.batch)
    <3>1. Staged(w).writer = w
      BY DEF Staged
    <3> QED BY <1>2, <1>4, <2>2, <3>1
  <2> QED BY <1>0, <2>1, <2>2, DelayedStep
<1> QED BY <1>3, <1>4 DEF DelayedOrder, NotNewer

\* The writer order is inductive together with what a PUT on its way may find below it.
LEMMA OrderInvStep == FreshIncarnation /\ OrderInv /\ [Next]_vars => OrderInv'
BY DenseInvStep, AuthoredStep, OrderStep DEF OrderInv, DenseInv

\* With fresh incarnations it holds in every state.
LEMMA OrderInvAlways ==
  ASSUME FreshIncarnation
  PROVE  Spec => []OrderInv
<1>1. Init => OrderInv
  BY DenseInvInit DEF Init, OrderInv, Authored, WriterOrder, DelayedOrder, Empty
<1>2. OrderInv /\ [Next]_vars => OrderInv'
  BY OrderInvStep
<1> QED BY <1>1, <1>2, PTL DEF Spec

\* One writer's batches stand on the chain in the order it staged them, whatever
\* becomes of its PUTs, when a restart takes a new incarnation.
THEOREM ChainKeepsWriterOrder ==
  ASSUME FreshIncarnation
  PROVE  Spec => []WriterOrder
BY OrderInvAlways, PTL DEF OrderInv

-----------------------------------------------------------------------------
(* An acknowledged append is on the chain where it was acknowledged.       *)

\* An Append that returns has its batch in the slot it names: it won the PUT, or
\* resolve found a batch of equal authorship, which is the same batch.
LEMMA AckedStep ==
  ASSUME FreshIncarnation, TypeOK, Authored, AckedDurable, [Next]_vars
  PROVE  AckedDurable'
<1>1. \A s \in DOMAIN slot : s \in DOMAIN slot' /\ slot'[s] = slot[s]
  BY NextSlotStep, SlotKept
<1>2. ASSUME NEW w \in Writer, Append(w)
      PROVE  \A r \in returned' :
               r \in returned \/ (r[1] \in DOMAIN slot' /\ slot'[r[1]] = r[2])
  <2>1. CASE PutWins(w)
    BY <2>1 DEF PutWins, ReturnWon, CreateExclusive, At
  <2>2. CASE ResolveWon(w)
    <3>1. next[w] \in DOMAIN slot /\ SameAuthor(slot[next[w]], Staged(w))
      BY <2>2 DEF ResolveWon, Present
    <3>2. slot[next[w]] \in Batch /\ AuthoredBy(slot[next[w]]) /\ Staged(w) \in Batch
      BY <3>1, StagedType DEF Authored, TypeOK
    <3>3. slot[next[w]].life = Staged(w).life
      BY <3>1, <3>2 DEF AuthoredBy, SameAuthor, Staged, Incarnation
    <3>4. slot[next[w]] = Staged(w)
      BY <3>1, <3>2, <3>3 DEF SameAuthor, Batch
    <3> QED BY <2>2, <3>1, <3>4 DEF ResolveWon, ReturnWon
  <2>3. CASE ~PutWins(w) /\ ~ResolveWon(w)
    BY <1>2, <2>3 DEF Append, AppendStart, PutLoses, PutRefused, PutTimesOutLanded,
         PutTimesOutLost, PutTimesOutDelayed, PutRejectedLanded, PutInDoubt, ReadWinner,
         ResolveEmpty, ResolveLost, ReadFails
  <2> QED BY <2>1, <2>2, <2>3
<1>3. CASE UNCHANGED returned
  BY <1>1, <1>3 DEF AckedDurable, Present
<1>4. ASSUME NEW w \in Writer, Append(w) PROVE AckedDurable'
  BY <1>1, <1>2, <1>4 DEF AckedDurable, Present
<1> QED BY <1>3, <1>4 DEF Next, OpenOrPoll, Open, PollStart, PollFound, PollTail, PollFails,
         Crash, LateLand, handleVars, vars

\* An Append that returned success named the slot that holds what it staged, when a
\* restart takes a new incarnation.
THEOREM AckedAppendsAreDurable ==
  ASSUME FreshIncarnation
  PROVE  Spec => []AckedDurable
<1>1. Init => AckedDurable
  BY DEF Init, AckedDurable
<1>2. OrderInv /\ AckedDurable /\ [Next]_vars => AckedDurable'
  BY AckedStep DEF OrderInv, DenseInv
<1> QED BY <1>1, <1>2, OrderInvAlways, PTL DEF Spec

-----------------------------------------------------------------------------
(* When a PUT is decided by the time its client hears about it, no batch   *)
(* lands twice and the chain is the log TotalOrderLog describes.           *)

Decided == FreshIncarnation /\ ~LateLanding /\ ~LandedReject

OnceInv == OrderInv /\ delayed = {} /\ OwnBatch /\ LandsOnce

\* Without late landing no PUT is ever on its way.
LEMMA NothingDelayed ==
  ASSUME Decided, delayed = {}, [Next]_vars
  PROVE  delayed' = {}
BY DEF Decided, Next, OpenOrPoll, Open, PollStart, PollFound, PollTail, PollFails, Append,
     AppendStart, PutWins, PutLoses, PutRefused, PutTimesOutLanded, PutTimesOutLost,
     PutTimesOutDelayed, PutRejectedLanded, PutInDoubt, ReadWinner, ResolveEmpty, ResolveWon,
     ResolveLost, ReadFails, Crash, LateLand, handleVars, vars

\* What a step does to the identity its process stages under and to where the process
\* stands: it stages a batch nobody has seen, leaves the phases in which the batch may
\* not be on the chain, or creates it under the position it stays in doubt about.
StageStep(w) ==
  \/ pc'[w] \notin Appending
  \/ /\ Staged(w)' = Staged(w)
     /\ \/ pc'[w] = "put" /\ pc[w] \in Appending /\ UNCHANGED slot
           /\ (pc[w] = "resolve" /\ next[w] \in DOMAIN slot => slot[next[w]] # Staged(w))
        \/ pc'[w] = "readWinner" /\ pc[w] = "put" /\ UNCHANGED slot
        \/ /\ pc'[w] = "resolve" /\ pc[w] = "put" /\ UNCHANGED next
           /\ UNCHANGED slot \/ CreateExclusive(next[w], Staged(w))
  \/ /\ pc'[w] = "put" /\ pc[w] = "idle" /\ UNCHANGED <<slot, life>>
     /\ batchID'[w] = batchID[w] + 1

\* The processes that do not take the step keep what they stage, and what the step
\* adds to the chain is not theirs.
Bystander(w) ==
  /\ UNCHANGED <<pc[w], next[w]>> /\ Staged(w)' = Staged(w)
  /\ \/ UNCHANGED slot
     \/ \E v \in Writer \ {w} : CreateExclusive(next[v], Staged(v))

\* Every step takes a process through Append in one of these ways.
LEMMA NextStageStep ==
  ASSUME Decided, TypeOK, delayed = {}, [Next]_vars
  PROVE  \A v \in Writer : StageStep(v) \/ Bystander(v)
<1> USE DEF Appending
<1>1. ASSUME NEW w \in Writer, OpenOrPoll(w) \/ Crash(w)
      PROVE  \A v \in Writer : StageStep(v) \/ Bystander(v)
  BY <1>1 DEF OpenOrPoll, Open, PollStart, PollFound, PollTail, PollFails, Crash, Deliver, Goto,
       handleVars, StageStep, Bystander, Staged, TypeOK
<1>2. ASSUME NEW w \in Writer, Append(w)
      PROVE  \A v \in Writer : StageStep(v) \/ Bystander(v)
  <2>1. \A v \in Writer \ {w} : Bystander(v)
    BY <1>2 DEF Append, AppendStart, PutWins, PutLoses, PutRefused, PutTimesOutLanded,
         PutTimesOutLost, PutTimesOutDelayed, PutRejectedLanded, PutInDoubt, ReadWinner,
         ResolveEmpty, ResolveWon, ResolveLost, ReadFails, ReturnWon, Deliver, Goto,
         handleVars, Bystander, Staged, TypeOK, Decided
  <2>2. StageStep(w)
    <3>1. CASE PutWins(w) \/ PutRefused(w) \/ ResolveWon(w) \/ ReadFails(w)
      BY <3>1 DEF PutWins, PutRefused, ResolveWon, ReadFails, ReturnWon, Goto, StageStep, TypeOK
    <3>2. CASE AppendStart(w)
      BY <3>2 DEF AppendStart, Goto, StageStep, TypeOK
    <3>3. CASE PutLoses(w) \/ ResolveEmpty(w)
      BY <3>3 DEF PutLoses, ResolveEmpty, Goto, StageStep, Staged, Present, handleVars, TypeOK
    <3>4. CASE PutTimesOutLanded(w) \/ PutTimesOutLost(w)
      BY <3>4 DEF PutTimesOutLanded, PutTimesOutLost, PutInDoubt, Goto, StageStep, Staged,
           handleVars, TypeOK
    <3>5. CASE ReadWinner(w) \/ ResolveLost(w)
      BY <3>5 DEF ReadWinner, ResolveLost, SameAuthor, Goto, StageStep, Staged, handleVars,
           TypeOK
    <3> QED BY <1>2, <3>1, <3>2, <3>3, <3>4, <3>5
            DEF Append, PutTimesOutDelayed, PutRejectedLanded, Decided
  <2> QED BY <2>1, <2>2
<1> QED BY <1>1, <1>2 DEF Next, vars, Bystander, Staged

\* What a handle in the middle of an Append may find of its own batch is kept.
LEMMA OwnBatchStep ==
  ASSUME Decided, OnceInv, OrderInv', [Next]_vars
  PROVE  OwnBatch'
<1>0. TypeOK /\ TypeOK' /\ Authored /\ SlotStep /\ delayed = {}
  BY NextSlotStep DEF OnceInv, OrderInv, DenseInv
<1> SUFFICES ASSUME NEW w \in Writer, NEW s \in DOMAIN slot', slot'[s] = Staged(w)'
             PROVE  /\ pc'[w] \notin {"put", "readWinner"}
                    /\ pc'[w] = "resolve" => s = next'[w]
  BY DEF OwnBatch
<1>1. CASE Bystander(w)
  <2>1. s \in DOMAIN slot /\ slot[s] = Staged(w)
    <3>1. slot'[s] = Staged(w)
      BY <1>1 DEF Bystander
    <3>2. CASE UNCHANGED slot
      BY <3>1, <3>2
    <3>3. ASSUME NEW v \in Writer \ {w}, CreateExclusive(next[v], Staged(v))
          PROVE  s \in DOMAIN slot /\ slot[s] = Staged(w)
      <4>1. Staged(v) # Staged(w)
        BY <3>3 DEF Staged
      <4> QED BY <3>1, <3>3, <4>1 DEF CreateExclusive, At
    <3> QED BY <1>1, <3>2, <3>3 DEF Bystander
  <2> QED BY <1>1, <2>1 DEF Bystander, OnceInv, OwnBatch
<1>2. CASE StageStep(w)
  <2>1. CASE pc'[w] \notin Appending
    BY <2>1 DEF Appending
  <2>2. CASE /\ Staged(w)' = Staged(w)
             /\ \/ pc'[w] = "put" /\ pc[w] \in Appending /\ UNCHANGED slot
                   /\ (pc[w] = "resolve" /\ next[w] \in DOMAIN slot => slot[next[w]] # Staged(w))
                \/ pc'[w] = "readWinner" /\ pc[w] = "put" /\ UNCHANGED slot
    BY <2>2 DEF OnceInv, OwnBatch, Appending
  <2>3. CASE /\ Staged(w)' = Staged(w) /\ pc'[w] = "resolve" /\ pc[w] = "put"
             /\ UNCHANGED next /\ (UNCHANGED slot \/ CreateExclusive(next[w], Staged(w)))
    BY <2>3 DEF OnceInv, OwnBatch, CreateExclusive, At
  <2>4. CASE /\ pc'[w] = "put" /\ pc[w] = "idle" /\ UNCHANGED <<slot, life>>
             /\ batchID'[w] = batchID[w] + 1
    <3>1. AuthoredBy(slot[s]) /\ slot[s].writer = w /\ slot[s].life = life[w]
          /\ slot[s].batchID = batchID[w] + 1
      BY <1>0, <2>4 DEF Authored, Staged
    <3> QED BY <1>0, <2>4, <3>1 DEF AuthoredBy, TypeOK
  <2> QED BY <1>2, <2>1, <2>2, <2>3, <2>4 DEF StageStep
<1> QED BY <1>0, <1>1, <1>2, NextStageStep

\* A PUT of a batch that is nowhere on the chain keeps every batch single.
LEMMA LandsOnceStep ==
  ASSUME OnceInv, [Next]_vars
  PROVE  LandsOnce'
<1>1. ASSUME NEW w \in Writer, pc[w] = "put", CreateExclusive(next[w], Staged(w))
      PROVE  LandsOnce'
  BY <1>1 DEF OnceInv, OwnBatch, LandsOnce, CreateExclusive, At
<1> QED BY <1>1, NextSlotStep DEF SlotStep, OnceInv, LandsOnce

\* Under Decided the strengthened invariant holds in every state.
LEMMA OnceInvAlways ==
  ASSUME Decided
  PROVE  Spec => []OnceInv
<1>1. Init => OnceInv
  BY DenseInvInit DEF Init, OnceInv, OrderInv, Authored, WriterOrder, DelayedOrder, OwnBatch,
       LandsOnce, Empty
<1>2. OnceInv /\ [Next]_vars => OnceInv'
  BY OrderInvStep, NothingDelayed, OwnBatchStep, LandsOnceStep DEF OnceInv, Decided
<1> QED BY <1>1, <1>2, PTL DEF Spec

\* A staged batch stands on the chain at most once, over any number of time-outs,
\* retries and restarts.
THEOREM BatchesLandOnce ==
  ASSUME Decided
  PROVE  Spec => []LandsOnce
BY OnceInvAlways, PTL DEF OnceInv

\* The first free slot the abstract log may grow at.
LEMMA TailIsFrontier ==
  ASSUME TypeOK, NEW n \in Nat, \A t \in 0 .. (n - 1) : t \in DOMAIN slot
  PROVE  n \in Abstract!Frontier
<1>1. CASE n = 0
  BY <1>1 DEF Abstract!Frontier
<1>2. CASE n # 0
  <2>1. n - 1 \in DOMAIN slot /\ n = (n - 1) + 1
    BY <1>2
  <2> QED BY <2>1 DEF Abstract!Frontier
<1> QED BY <1>1, <1>2

\* A creation is an abstract Land: at the tail, and newer than its writer's others.
LEMMA CreateIsLand ==
  ASSUME Decided, OnceInv, NEW w \in Writer, pc[w] = "put",
         CreateExclusive(next[w], Staged(w))
  PROVE  Abstract!Land
<1>0. TypeOK /\ next[w] \in Nat /\ \A t \in 0 .. (next[w] - 1) : t \in DOMAIN slot
  BY DEF OnceInv, OrderInv, DenseInv, NoneBeyondTail, Present, TypeOK
<1>1. next[w] \in Abstract!Frontier /\ Abstract!IsTail(next[w])
  BY <1>0, TailIsFrontier DEF CreateExclusive, Present, Abstract!IsTail
<1>2. /\ DOMAIN slot' = DOMAIN slot \cup {next[w]}
      /\ \A t \in DOMAIN slot : slot'[t] = slot[t]
      /\ slot'[next[w]] = Staged(w)
  BY DEF CreateExclusive, Present, At
<1>3. ASSUME NEW t \in DOMAIN slot, slot[t].writer = w
      PROVE  Abstract!Older(slot[t], Staged(w))
  <2>1. slot[t] \in Batch /\ Staged(w) \in Batch /\ AuthoredBy(slot[t])
    BY <1>0, StagedType DEF OnceInv, OrderInv, Authored, TypeOK
  <2>2. NotNewer(slot[t], Staged(w))
    BY <1>0, <1>3, <2>1, StagedNewest DEF Decided
  <2>3. slot[t] # Staged(w)
    BY DEF OnceInv, OwnBatch
  <2>4. slot[t].incarnation = slot[t].life /\ Staged(w).incarnation = Staged(w).life
    BY <2>1 DEF AuthoredBy, Staged, Incarnation, Decided
  <2>5. ~(slot[t].incarnation = Staged(w).incarnation /\ slot[t].batchID = Staged(w).batchID)
    BY <1>3, <2>1, <2>3, <2>4 DEF Batch, Staged
  <2> QED BY <2>1, <2>2, <2>5 DEF NotNewer, Abstract!Older, Batch
<1>4. Staged(w).writer = w
  BY DEF Staged
<1> QED BY <1>1, <1>2, <1>3, <1>4 DEF Abstract!Land

\* Every step of the handles is a step of the abstract log or changes nothing it sees.
LEMMA StepSimulation ==
  ASSUME Decided, OnceInv, [Next]_vars
  PROVE  [Abstract!Next]_(Abstract!vars)
<1>0. TypeOK /\ delayed = {} /\ TypeOK'
  BY TypeOKStep DEF OnceInv, OrderInv, DenseInv
<1>1. Abstract!Land \/ UNCHANGED slot
  BY <1>0, NextSlotStep, CreateIsLand DEF SlotStep
<1>2. ASSUME NEW w \in Writer, NEW b, Deliver(w, b), next[w] \in DOMAIN slot'
      PROVE  Abstract!Advance(w)
  BY <1>2 DEF Deliver, Abstract!Advance
<1>3. ASSUME NEW w \in Writer, OpenOrPoll(w) PROVE [Abstract!Next]_(Abstract!vars)
  <2>1. ASSUME NEW f \in {0} \cup {s + 1 : s \in DOMAIN slot}, Open(w, f)
        PROVE  [Abstract!Next]_(Abstract!vars)
    <3>1. f \in Nat /\ \A t \in 0 .. (f - 1) : t \in DOMAIN slot
      BY <1>0, <2>1 DEF Open, OnceInv, OrderInv, DenseInv, DenseLog, Present, TypeOK
    <3>2. Abstract!Reopen(w)
      BY <1>0, <2>1, <3>1, TailIsFrontier DEF Open, Abstract!Reopen
    <3> QED BY <1>1, <2>1, <3>2 DEF Open, Abstract!Next
  <2>2. CASE PollFound(w)
    BY <1>1, <1>2, <2>2 DEF PollFound, Present, Abstract!Next
  <2>3. CASE PollStart(w) \/ PollTail(w) \/ PollFails(w)
    BY <2>3 DEF PollStart, PollTail, PollFails, Abstract!vars
  <2> QED BY <1>3, <2>1, <2>2, <2>3 DEF OpenOrPoll
<1>4. ASSUME NEW w \in Writer, Append(w) PROVE [Abstract!Next]_(Abstract!vars)
  <2>1. CASE PutWins(w)
    <3>1. next[w] \in DOMAIN slot' /\ slot'[next[w]] = Staged(w)
      BY <2>1 DEF PutWins, CreateExclusive, At
    <3>2. Abstract!Acknowledge(w)
      BY <1>2, <2>1, <3>1 DEF PutWins, ReturnWon, Staged, Abstract!Acknowledge
    <3> QED BY <1>1, <3>2 DEF Abstract!Next
  <2>2. CASE ResolveWon(w)
    <3>1. next[w] \in DOMAIN slot /\ UNCHANGED slot
          /\ SameAuthor(slot[next[w]], Staged(w))
      BY <2>2 DEF ResolveWon, Present
    <3>2. slot[next[w]] \in Batch /\ AuthoredBy(slot[next[w]]) /\ Staged(w) \in Batch
      BY <1>0, <3>1, StagedType DEF OnceInv, OrderInv, Authored, TypeOK
    <3>3. slot[next[w]].life = Staged(w).life
      BY <3>1, <3>2 DEF AuthoredBy, SameAuthor, Staged, Incarnation, Decided
    <3>4. slot[next[w]] = Staged(w) /\ Staged(w).writer = w
      BY <3>1, <3>2, <3>3 DEF SameAuthor, Batch, Staged
    <3>5. Abstract!Acknowledge(w)
      BY <1>2, <2>2, <3>1, <3>4 DEF ResolveWon, ReturnWon, Abstract!Acknowledge
    <3> QED BY <3>1, <3>5 DEF Abstract!Next
  <2>3. CASE ReadWinner(w) \/ ResolveLost(w)
    BY <1>1, <1>2, <2>3 DEF ReadWinner, ResolveLost, Present, Abstract!Next
  <2>4. CASE UNCHANGED <<next, returned>>
    BY <1>1, <2>4 DEF Abstract!Next
  <2> QED BY <1>4, <2>1, <2>2, <2>3, <2>4
          DEF Append, AppendStart, PutLoses, PutRefused, PutTimesOutLanded, PutTimesOutLost,
              PutTimesOutDelayed, PutRejectedLanded, PutInDoubt, ResolveEmpty, ReadFails
<1>5. ASSUME NEW w \in Writer, Crash(w) PROVE [Abstract!Next]_(Abstract!vars)
  <2>1. 0 \in Abstract!Frontier /\ \A t \in 0 .. (0 - 1) : t \in DOMAIN slot
    BY DEF Abstract!Frontier
  <2>2. Abstract!Reopen(w)
    BY <1>5, <2>1 DEF Crash, Abstract!Reopen
  <2> QED BY <1>5, <2>2 DEF Crash, Abstract!Next
<1>6. CASE UNCHANGED vars
  BY <1>6 DEF vars, Abstract!vars
<1> QED BY <1>0, <1>3, <1>4, <1>5, <1>6 DEF Next

\* The chain over a bucket that decides every PUT in time is the log the package
\* promises, for any number of processes, crashes, time-outs and retries.
THEOREM ChainImplementsLog ==
  ASSUME Decided
  PROVE  Spec => ImplementsTotalOrder
<1>1. Init => Abstract!Init
  BY DEF Init, Abstract!Init, Empty
<1>2. OnceInv /\ [Next]_vars => [Abstract!Next]_(Abstract!vars)
  BY StepSimulation
<1> QED BY <1>1, <1>2, OnceInvAlways, PTL DEF Spec, ImplementsTotalOrder, Abstract!Spec
=============================================================================
