-------------------------- MODULE CheckpointProofs --------------------------
(***************************************************************************)
(* Proofs about Checkpoint, for any nodes, payloads and interval: every    *)
(* node folds one history, a checkpoint is what its slot determines, and   *)
(* whoever boots finds all it needs. They hold when a trim waits for the   *)
(* handles that are open; MCCheckpointLag shows what goes wrong when it    *)
(* does not.                                                               *)
(***************************************************************************)
EXTENDS Checkpoint, Lemmas

-----------------------------------------------------------------------------
(* The inductive invariant.                                                *)

\* The shape of the variables that TypeOK does not give: what EXCEPT and Append need.
Shape == /\ IsSeq(past) /\ IsSeq(folded)
         /\ DOMAIN state = Node /\ DOMAIN pending = Node /\ DOMAIN flushed = Node
         /\ \A n \in Node : IsSeq(pending[n])
         /\ \A s \in DOMAIN slot : slot[s].writer \in Node

Types == TypeOK /\ Shape

\* The chain holds batches of the history, each where the history has it, and the
\* folded states are those of the history.
OneHistory ==
  /\ \A s \in DOMAIN slot : s < Len(past) /\ slot[s] = past[s + 1]
  /\ folded[1] = NewState
  /\ \A i \in 1 .. Len(past) : folded[i + 1] = Apply(folded[i], past[i].records)

\* Stored checkpoints are folds of the history, and have all earlier ones below them.
Dense == \A s \in DOMAIN ckpts : \A t \in 0 .. s : Triggers(t) => t \in DOMAIN ckpts

Stored(s) == s = 0 \/ s \in DOMAIN ckpts

\* The checkpoint that a state names, from the records announcing it, is stored.
NamesCkpt(s) == "ckptSeq" \in DOMAIN s /\ Stored(s.ckptSeq)

Chain == /\ OneHistory /\ RootBoots /\ Dense /\ Stored(root)
         /\ \A i \in 1 .. Len(past) + 1 : NamesCkpt(folded[i])
         /\ \A s \in DOMAIN ckpts : IsFoldOf(ckpts[s])

Opened(n) == pc[n] \in {"opening", "up"}

\* A node that has opened no handle has folded nothing; one that has holds the state of
\* its position.
Folds(n) ==
  /\ pc[n] \in {"down", "loading"} => pos[n] = 0 /\ state[n] = NewState /\ pending[n] = <<>>
  /\ Opened(n) => pos[n] <= Len(past) /\ state[n] = folded[pos[n] + 1]
  /\ \A i \in DOMAIN pending[n] : IsFoldOf(pending[n][i])

\* What n has to fold from: its position, or the slot behind the checkpoint it boots from.
From(n) == IF pc[n] = "loading" THEN named[n] + 1 ELSE pos[n]

\* No slot is trimmed ahead of a node that is up or booting.
TailKept(n) == pc[n] # "down" => \A s \in From(n) .. Len(past) - 1 : Present(s)

\* What a node passed and is not stored, it has pending, in the chain's order.
Pends(n, t) == \E i \in DOMAIN pending[n] : pending[n][i].seq = t

Covers(n) ==
  /\ \A t \in 0 .. pos[n] - 1 : Triggers(t) => t \in DOMAIN ckpts \/ Pends(n, t)
  /\ \A i \in DOMAIN pending[n] : pending[n][i].seq < pos[n]
  /\ \A i, j \in DOMAIN pending[n] : i < j => pending[n][i].seq < pending[n][j].seq

\* Flush returned, and a booting node read in the root, stored checkpoints only.
Names(n) == Stored(named[n]) /\ Stored(newest[n]) /\ \A s \in flushed[n] : Stored(s)

Share(n) == Folds(n) /\ TailKept(n) /\ Covers(n) /\ Names(n)

CkptInv == Types /\ Chain /\ \A n \in Node : Share(n)

-----------------------------------------------------------------------------
(* State.Apply, record by record.                                          *)

\* g folds the records at each set of positions into s, greatest position last: what
\* FoldLeft builds.
Table(g, s, records, D) ==
  [t \in SUBSET D |-> IF t = {} THEN s ELSE ApplyRecord(g[t \ {Max(t)}], records[Max(t)])]

\* There is one for every number of records.
LEMMA TableExists ==
  ASSUME NEW s, NEW records, NEW n \in Nat
  PROVE  \E g : g = Table(g, s, records, 1 .. n)
<1> DEFINE S == {m \in Nat : \E g : g = Table(g, s, records, 1 .. m)}
<1>1. 0 \in S
  <2>1. SUBSET (1 .. 0) = {{}}
    OBVIOUS
  <2> DEFINE g == [t \in SUBSET (1 .. 0) |-> s]
  <2>2. g = Table(g, s, records, 1 .. 0)
    BY <2>1 DEF Table
  <2> QED BY <2>2
<1>2. ASSUME NEW m \in Nat, m \in S PROVE m + 1 \in S
  <2>1. PICK g : g = Table(g, s, records, 1 .. m)
    BY <1>2
  <2> DEFINE k == m + 1
             h == [t \in SUBSET (1 .. k) |-> IF k \in t THEN ApplyRecord(g[t \ {k}], records[k]) ELSE g[t]]
  <2>2. ASSUME NEW t \in SUBSET (1 .. k)
        PROVE  h[t] = IF t = {} THEN s ELSE ApplyRecord(h[t \ {Max(t)}], records[Max(t)])
    <3>1. CASE k \in t
      <4>1. Max(t) = k
        BY <3>1, MaxIs
      <4>2. t \ {k} \in SUBSET (1 .. k) /\ k \notin t \ {k} /\ t # {}
        BY <3>1
      <4>3. h[t \ {k}] = g[t \ {k}]
        BY <4>2
      <4> QED BY <3>1, <4>1, <4>2, <4>3
    <3>2. CASE k \notin t
      <4>1. t \in SUBSET (1 .. m) /\ h[t] = g[t]
        BY <3>2
      <4>2. t \ {Max(t)} \in SUBSET (1 .. k) /\ k \notin t \ {Max(t)}
        BY <3>2
      <4>3. h[t \ {Max(t)}] = g[t \ {Max(t)}]
        BY <4>2
      <4>4. g[t] = IF t = {} THEN s ELSE ApplyRecord(g[t \ {Max(t)}], records[Max(t)])
        BY <2>1, <4>1 DEF Table
      <4> QED BY <4>1, <4>3, <4>4
    <3> QED BY <3>1, <3>2
  <2>3. h = Table(h, s, records, 1 .. k)
    <3>1. h = [t \in SUBSET (1 .. k) |-> h[t]]
      OBVIOUS
    <3> HIDE DEF h
    <3> QED BY <2>2, <3>1 DEF Table
  <2> QED BY <2>3
<1> HIDE DEF S
<1>3. n \in S
  BY <1>1, <1>2, NatRise
<1> QED BY <1>3 DEF S

\* Apply folds one record after the other, from the state it is given.
LEMMA ApplySteps ==
  ASSUME NEW s, NEW records, IsSeq(records)
  PROVE  \E f : /\ f[0] = s /\ Apply(s, records) = f[Len(records)]
                /\ \A k \in 1 .. Len(records) : f[k] = ApplyRecord(f[k - 1], records[k])
<1> DEFINE it == CHOOSE g : g = [t \in SUBSET (DOMAIN records) |->
                   IF t = {} THEN s ELSE ApplyRecord(g[t \ {Max(t)}], records[Max(t)])]
           n == Len(records)
           f == [k \in 0 .. n |-> it[1 .. k]]
<1>1. Apply(s, records) = it[DOMAIN records]
  BY Zenon DEF Apply, FoldLeft, MapThenFoldSet
<1>2. DOMAIN records = 1 .. n /\ n \in Nat
  BY SeqParts
<1>3. it = Table(it, s, records, 1 .. n)
  <2>1. \E g : g = Table(g, s, records, 1 .. n)
    BY <1>2, TableExists
  <2>2. it = CHOOSE g : g = Table(g, s, records, 1 .. n)
    BY <1>2 DEF Table
  <2> HIDE DEF it
  <2> QED BY <2>1, <2>2
<1> HIDE DEF it
<1>4. it[{}] = s
  BY <1>3 DEF Table
<1>5. ASSUME NEW k \in 1 .. n PROVE it[1 .. k] = ApplyRecord(it[1 .. k - 1], records[k])
  <2>0. k \in Nat /\ k >= 1 /\ k <= n /\ n \in Nat
    BY <1>2, <1>5
  <2> HIDE DEF n
  <2>1. Max(1 .. k) = k
    <3>1. 1 .. k \in SUBSET Int /\ k \in 1 .. k /\ \A y \in 1 .. k : k >= y
      BY <2>0
    <3> QED BY <3>1, MaxIs
  <2>2. (1 .. k) \ {k} = 1 .. k - 1 /\ 1 .. k # {} /\ 1 .. k \in SUBSET (1 .. n)
    BY <2>0
  <2> QED BY <1>3, <2>1, <2>2 DEF Table
<1>6. f[0] = s /\ f[n] = it[1 .. n] /\ \A k \in 1 .. n : f[k] = it[1 .. k] /\ f[k - 1] = it[1 .. k - 1]
  <2>1. 1 .. 0 = {}
    OBVIOUS
  <2> QED BY <1>2, <1>4, <2>1
<1>7. /\ f[0] = s /\ Apply(s, records) = f[n]
      /\ \A k \in 1 .. n : f[k] = ApplyRecord(f[k - 1], records[k])
  BY <1>1, <1>2, <1>5, <1>6
<1> HIDE DEF f
<1> QED BY <1>7

\* A record that no Announce appended, or one that announces a stored checkpoint.
Announces(r) == r.kind \in PayloadKinds \/ (r.kind = "ckpt" /\ Stored(r.value))

\* A batch that announces stored checkpoints folds a state that names stored ones into
\* one that does.
LEMMA ApplyNamesStored ==
  ASSUME NEW s, NEW records, IsSeq(records), \A i \in DOMAIN records : Announces(records[i]),
         NamesCkpt(s)
  PROVE  NamesCkpt(Apply(s, records))
<1>1. PICK f : /\ f[0] = s /\ Apply(s, records) = f[Len(records)]
               /\ \A k \in 1 .. Len(records) : f[k] = ApplyRecord(f[k - 1], records[k])
  BY ApplySteps
<1>2. DOMAIN records = 1 .. Len(records) /\ Len(records) \in Nat
  BY SeqParts
<1>3. ASSUME NEW g, NEW r, NamesCkpt(g), Announces(r) PROVE NamesCkpt(ApplyRecord(g, r))
  <2>1. CASE r.kind = "ckpt"
    <3>1. ApplyRecord(g, r) = [g EXCEPT !.ckptSeq = Later(r.value, @)] /\ Stored(r.value)
      BY <1>3, <2>1 DEF ApplyRecord, Announces, PayloadKinds
    <3>2. Stored(Later(r.value, g.ckptSeq))
      BY <1>3, <3>1 DEF NamesCkpt, Later
    <3> QED BY <1>3, <3>1, <3>2 DEF NamesCkpt
  <2>2. CASE r.kind = "member"
    BY <1>3, <2>2 DEF ApplyRecord, NamesCkpt
  <2>3. CASE r.kind = "manAdvance"
    BY <1>3, <2>3 DEF ApplyRecord, NamesCkpt
  <2>4. CASE r.kind = "genPublish"
    BY <1>3, <2>4 DEF ApplyRecord, NamesCkpt
  <2>5. CASE r.kind = "genRetire"
    BY <1>3, <2>5 DEF ApplyRecord, NamesCkpt
  <2>6. CASE r.kind = "tierMap"
    BY <1>3, <2>6 DEF ApplyRecord, NamesCkpt
  <2> QED BY <1>3, <2>1, <2>2, <2>3, <2>4, <2>5, <2>6 DEF Announces, PayloadKinds
<1> DEFINE S == {k \in Nat : k <= Len(records) => NamesCkpt(f[k])}
<1>4. 0 \in S
  BY <1>1
<1>5. ASSUME NEW k \in Nat, k \in S PROVE k + 1 \in S
  <2>1. CASE k + 1 <= Len(records)
    <3>1. k + 1 \in 1 .. Len(records) /\ (k + 1) - 1 = k /\ k <= Len(records)
      BY <1>2, <2>1
    <3>2. NamesCkpt(f[k]) /\ f[k + 1] = ApplyRecord(f[k], records[k + 1])
      BY <1>1, <1>5, <3>1
    <3>3. NamesCkpt(f[k + 1])
      BY <1>2, <1>3, <3>1, <3>2
    <3> QED BY <3>3
  <2> QED BY <2>1
<1>6. Len(records) \in S
  <2> HIDE DEF S
  <2> QED BY <1>2, <1>4, <1>5, NatRise
<1> QED BY <1>1, <1>2, <1>6

-----------------------------------------------------------------------------
(* What the steps shared by several actions do.                            *)

\* A fold moves the position on, and a slot that completes an interval adds a capture
\* behind those that are pending.
LEMMA Observes ==
  ASSUME Types, NEW n \in Node, NEW b, Observe(n, b)
  PROVE  /\ pos' \in [Node -> Nat] /\ pos'[n] = pos[n] + 1
         /\ state'[n] = Apply(state[n], b.records)
         /\ DOMAIN state' = Node /\ DOMAIN pending' = Node
         /\ \A m \in Node : IsSeq(pending'[m])
         /\ \A i \in DOMAIN pending[n] : i \in DOMAIN pending'[n] /\ pending'[n][i] = pending[n][i]
         /\ \A i \in DOMAIN pending'[n] : \/ i \in DOMAIN pending[n]
                                          \/ /\ Triggers(pos[n]) /\ pending'[n][i] = Capture(n, b)
                                             /\ \A j \in DOMAIN pending'[n] : j # i => j < i /\ j \in DOMAIN pending[n]
         /\ Triggers(pos[n]) => \E i \in DOMAIN pending'[n] : pending'[n][i] = Capture(n, b)
         /\ \A m \in Node \ {n} : pos'[m] = pos[m] /\ state'[m] = state[m] /\ pending'[m] = pending[m]
<1>1. /\ pos \in [Node -> Nat] /\ DOMAIN state = Node /\ DOMAIN pending = Node
      /\ \A m \in Node : IsSeq(pending[m])
  BY DEF Types, TypeOK, Shape
<1>2. /\ pos' \in [Node -> Nat] /\ pos'[n] = pos[n] + 1 /\ DOMAIN state' = Node
      /\ state'[n] = Apply(state[n], b.records) /\ DOMAIN pending' = Node
      /\ \A m \in Node \ {n} : pos'[m] = pos[m] /\ state'[m] = state[m] /\ pending'[m] = pending[m]
  BY <1>1 DEF Observe
<1> DEFINE c == Capture(n, b)
           q == pending[n]
<1>3. IsSeq(q) /\ DOMAIN q = 1 .. Len(q) /\ Len(q) \in Nat
  BY <1>1, SeqParts
<1>4. CASE Triggers(pos[n])
  <2>1. pending'[n] = Append(q, c)
    BY <1>1, <1>4 DEF Observe, Queue
  <2> HIDE DEF c, q
  <2>2. /\ IsSeq(pending'[n]) /\ Len(pending'[n]) = Len(q) + 1 /\ pending'[n][Len(q) + 1] = c
        /\ \A i \in 1 .. Len(q) : pending'[n][i] = q[i]
    BY <1>3, <2>1, AppendParts
  <2>3. DOMAIN pending'[n] = 1 .. Len(q) + 1
    BY <2>2, SeqParts
  <2>4. \A i \in DOMAIN q : i \in DOMAIN pending'[n] /\ pending'[n][i] = q[i]
    BY <1>3, <2>2, <2>3
  <2>5. \A i \in DOMAIN pending'[n] : \/ i \in DOMAIN q
                                      \/ /\ pending'[n][i] = c
                                         /\ \A j \in DOMAIN pending'[n] : j # i => j < i /\ j \in DOMAIN q
    BY <1>3, <2>2, <2>3
  <2>6. Len(q) + 1 \in DOMAIN pending'[n]
    BY <1>3, <2>3
  <2>7. \A m \in Node : IsSeq(pending'[m])
    BY <1>1, <1>2, <2>2
  <2> QED BY <1>2, <1>4, <2>2, <2>4, <2>5, <2>6, <2>7 DEF c, q
<1>5. CASE ~Triggers(pos[n])
  <2>1. pending' = pending
    BY <1>5 DEF Observe
  <2> QED BY <1>1, <1>2, <1>5, <2>1
<1> QED BY <1>4, <1>5

\* A create that wins puts the batch at the handle's position, and at the end of the
\* history if that is where the position is.
LEMMA Lands ==
  ASSUME Types, NEW n \in Node, NEW records, Land(n, records)
  PROVE  /\ pc[n] = "up" /\ ~Present(pos[n]) /\ Observe(n, Batch(n, records))
         /\ DOMAIN slot' = DOMAIN slot \cup {pos[n]} /\ slot'[pos[n]] = Batch(n, records)
         /\ \A s \in DOMAIN slot : s # pos[n] /\ slot'[s] = slot[s]
         /\ IsSeq(past') /\ IsSeq(folded') /\ Len(folded') = Len(past') + 1
         /\ \A i \in 1 .. Len(past) : past'[i] = past[i]
         /\ \A i \in 1 .. Len(past) + 1 : folded'[i] = folded[i]
         /\ pos[n] = Len(past) => /\ Len(past') = Len(past) + 1
                                  /\ past'[Len(past) + 1] = Batch(n, records)
                                  /\ folded'[Len(past) + 2] = Apply(folded[Len(past) + 1], records)
         /\ pos[n] # Len(past) => UNCHANGED past
<1>1. IsSeq(past) /\ IsSeq(folded) /\ Len(folded) = Len(past) + 1 /\ Len(past) \in Nat
  BY SeqParts DEF Types, TypeOK, Shape
<1> DEFINE b == Batch(n, records)
           g == Apply(folded[Len(folded)], records)
<1>2. /\ DOMAIN slot' = DOMAIN slot \cup {pos[n]} /\ slot'[pos[n]] = b
      /\ \A s \in DOMAIN slot : s # pos[n] /\ slot'[s] = slot[s]
  BY DEF Land, Put, Present
<1>3. pc[n] = "up" /\ ~Present(pos[n]) /\ Observe(n, b)
  BY DEF Land
<1>4. CASE pos[n] = Len(past)
  <2>1. past' = Append(past, b) /\ folded' = Append(folded, g)
    BY <1>4 DEF Land
  <2> HIDE DEF b, g
  <2>2. /\ IsSeq(past') /\ Len(past') = Len(past) + 1 /\ past'[Len(past) + 1] = b
        /\ \A i \in 1 .. Len(past) : past'[i] = past[i]
    BY <1>1, <2>1, AppendParts
  <2>3. /\ IsSeq(folded') /\ Len(folded') = Len(folded) + 1 /\ folded'[Len(folded) + 1] = g
        /\ \A i \in 1 .. Len(folded) : folded'[i] = folded[i]
    BY <1>1, <2>1, AppendParts
  <2>4. Len(folded) + 1 = Len(past) + 2
    BY <1>1
  <2> QED BY <1>1, <1>2, <1>3, <1>4, <2>2, <2>3, <2>4 DEF b, g
<1>5. CASE pos[n] # Len(past)
  <2>1. past' = past /\ folded' = folded
    BY <1>5 DEF Land
  <2> QED BY <1>1, <1>2, <1>3, <1>5, <2>1
<1> QED BY <1>4, <1>5

\* Flush takes the oldest capture off the queue.
LEMMA Returns ==
  ASSUME Types, NEW n \in Node, Flushable(n), Returned(n)
  PROVE  /\ pending[n] # <<>> /\ 1 \in DOMAIN pending[n] /\ Head(pending[n]) = pending[n][1]
         /\ IsCapture(pending[n][1])
         /\ newest' \in [Node -> Nat] /\ newest'[n] = pending[n][1].seq
         /\ DOMAIN flushed' = Node /\ flushed'[n] = flushed[n] \cup {pending[n][1].seq}
         /\ DOMAIN pending' = Node /\ \A m \in Node : IsSeq(pending'[m])
         /\ \A i \in DOMAIN pending'[n] : i + 1 \in DOMAIN pending[n] /\ pending'[n][i] = pending[n][i + 1]
         /\ \A i \in DOMAIN pending[n] : i # 1 => i - 1 \in DOMAIN pending'[n] /\ pending'[n][i - 1] = pending[n][i]
         /\ \A m \in Node \ {n} : newest'[m] = newest[m] /\ flushed'[m] = flushed[m] /\ pending'[m] = pending[m]
<1>1. /\ newest \in [Node -> Nat] /\ DOMAIN flushed = Node /\ DOMAIN pending = Node
      /\ \A m \in Node : IsSeq(pending[m])
      /\ \A i \in DOMAIN pending[n] : IsCapture(pending[n][i])
  BY DEF Types, TypeOK, Shape
<1> DEFINE q == pending[n]
<1>2. IsSeq(q) /\ q # <<>>
  BY <1>1 DEF Flushable
<1>3. Len(q) \in Nat /\ DOMAIN q = 1 .. Len(q)
  BY <1>2, SeqParts
<1>4. /\ Head(q) = q[1] /\ Len(q) >= 1 /\ IsSeq(Tail(q)) /\ Len(Tail(q)) = Len(q) - 1
      /\ \A i \in 1 .. Len(q) - 1 : Tail(q)[i] = q[i + 1]
  BY <1>2, TailParts
<1>5. DOMAIN Tail(q) = 1 .. Len(q) - 1
  BY <1>4, SeqParts
<1>6. 1 \in DOMAIN q /\ IsCapture(q[1]) /\ q[1].seq \in Nat
  BY <1>1, <1>3, <1>4 DEF IsCapture
<1>7. /\ pending' = [pending EXCEPT ![n] = Tail(@)]
      /\ newest' = [newest EXCEPT ![n] = q[1].seq]
      /\ flushed' = [flushed EXCEPT ![n] = @ \cup {q[1].seq}]
  BY <1>4 DEF Returned
<1>8. /\ newest' \in [Node -> Nat] /\ newest'[n] = q[1].seq
      /\ DOMAIN flushed' = Node /\ flushed'[n] = flushed[n] \cup {q[1].seq}
      /\ DOMAIN pending' = Node /\ pending'[n] = Tail(q)
      /\ \A m \in Node \ {n} : newest'[m] = newest[m] /\ flushed'[m] = flushed[m] /\ pending'[m] = pending[m]
  BY <1>1, <1>6, <1>7
<1>9. \A m \in Node : IsSeq(pending'[m])
  BY <1>1, <1>4, <1>8
<1>10. /\ \A i \in DOMAIN pending'[n] : i + 1 \in DOMAIN q /\ pending'[n][i] = q[i + 1]
       /\ \A i \in DOMAIN q : i # 1 => i - 1 \in DOMAIN pending'[n] /\ pending'[n][i - 1] = q[i]
  <2> HIDE DEF q
  <2>1. ASSUME NEW i \in DOMAIN q, i # 1 PROVE i - 1 \in 1 .. Len(q) - 1 /\ (i - 1) + 1 = i
    BY <1>3, <2>1
  <2>2. \A i \in DOMAIN pending'[n] : i \in 1 .. Len(q) - 1 /\ i + 1 \in DOMAIN q
    BY <1>3, <1>5, <1>8
  <2> QED BY <1>4, <1>5, <1>8, <2>1, <2>2
<1> QED BY <1>2, <1>4, <1>6, <1>8, <1>9, <1>10

-----------------------------------------------------------------------------
(* Type correctness, whether or not a trim waits.                          *)

\* Folding a batch keeps the node's variables typed.
LEMMA ObserveTypes ==
  ASSUME Types, NEW n \in Node, NEW b, Observe(n, b), b.writer \in Node
  PROVE  \A m \in Node : \A i \in DOMAIN pending'[m] : IsCapture(pending'[m][i])
<1>1. \A m \in Node : \A i \in DOMAIN pending[m] : IsCapture(pending[m][i])
  BY DEF Types, TypeOK
<1>2. Triggers(pos[n]) => IsCapture(Capture(n, b))
  BY DEF Types, TypeOK, IsCapture, Capture
<1>3. ASSUME NEW i \in DOMAIN pending'[n] PROVE IsCapture(pending'[n][i])
  BY <1>1, <1>2, <1>3, Observes
<1>4. \A m \in Node \ {n} : pending'[m] = pending[m]
  BY Observes
<1> QED BY <1>1, <1>3, <1>4

\* Landing a batch keeps the chain and the node's variables typed.
LEMMA LandTypes ==
  ASSUME Types, NEW n \in Node, NEW records, Land(n, records)
  PROVE  /\ DOMAIN slot' \subseteq Nat /\ \A s \in DOMAIN slot' : slot'[s].writer \in Node
         /\ IsSeq(past') /\ IsSeq(folded') /\ Len(folded') = Len(past') + 1
         /\ pos' \in [Node -> Nat] /\ DOMAIN state' = Node /\ DOMAIN pending' = Node
         /\ \A m \in Node : IsSeq(pending'[m])
         /\ \A m \in Node : \A i \in DOMAIN pending'[m] : IsCapture(pending'[m][i])
<1>1. Batch(n, records).writer \in Node
  BY DEF Batch
<1>2. Observe(n, Batch(n, records))
  BY Lands
<1>3. DOMAIN slot \subseteq Nat /\ pos[n] \in Nat /\ \A s \in DOMAIN slot : slot[s].writer \in Node
  BY DEF Types, TypeOK, Shape
<1>4. DOMAIN slot' \subseteq Nat /\ \A s \in DOMAIN slot' : slot'[s].writer \in Node
  <2>1. /\ DOMAIN slot' = DOMAIN slot \cup {pos[n]} /\ slot'[pos[n]].writer \in Node
        /\ \A s \in DOMAIN slot : slot'[s] = slot[s]
    BY <1>1, Lands
  <2> QED BY <1>3, <2>1
<1> QED BY <1>1, <1>2, <1>4, Lands, Observes, ObserveTypes

\* Every step keeps the types.
LEMMA TypesStep == ASSUME Types, [Next]_vars PROVE Types'
<1> USE DEF chainVars, nodeVars, callerVars
<1>0. /\ TypeOK /\ Shape /\ pc \in [Node -> {"down", "loading", "opening", "up"}]
      /\ named \in [Node -> Nat] /\ pos \in [Node -> Nat] /\ newest \in [Node -> Nat] /\ root \in Nat
  BY DEF Types, TypeOK
<1>1. ASSUME NEW n \in Node, Boot(n) PROVE Types'
  BY <1>0, <1>1 DEF Types, TypeOK, Shape, Boot
<1>2. ASSUME NEW n \in Node, LoadCkpt(n) PROVE Types'
  BY <1>0, <1>2 DEF Types, TypeOK, Shape, LoadCkpt
<1>3. ASSUME NEW n \in Node, FoldNext(n) PROVE Types'
  <2>1. Observe(n, slot[pos[n]]) /\ slot[pos[n]].writer \in Node
    BY <1>0, <1>3 DEF FoldNext, Present, Shape
  <2>2. /\ pos' \in [Node -> Nat] /\ DOMAIN state' = Node /\ DOMAIN pending' = Node
        /\ \A m \in Node : IsSeq(pending'[m])
        /\ \A m \in Node : \A i \in DOMAIN pending'[m] : IsCapture(pending'[m][i])
    BY <2>1, Observes, ObserveTypes
  <2> QED BY <1>0, <1>3, <2>2 DEF Types, TypeOK, Shape, FoldNext
<1>4. ASSUME NEW n \in Node, OpenTail(n) PROVE Types'
  BY <1>0, <1>4 DEF Types, TypeOK, Shape, OpenTail
<1>5. ASSUME NEW n \in Node, AppendPayload(n) PROVE Types'
  <2>1. PICK records : Land(n, records)
    BY <1>5 DEF AppendPayload
  <2> QED BY <1>0, <1>5, <2>1, LandTypes DEF Types, TypeOK, Shape, AppendPayload
<1>6. ASSUME NEW n \in Node, NEW c, IsCapture(c), ckpts' = Put(ckpts, c.seq, c)
      PROVE  \A s \in DOMAIN ckpts' : IsCapture(ckpts'[s]) /\ ckpts'[s].seq = s
  BY <1>0, <1>6 DEF TypeOK, Put
<1>7. ASSUME NEW n \in Node, Flush(n) PROVE Types'
  <2>1. Flushable(n) /\ Returned(n)
    BY <1>7 DEF Flush
  <2>2. Head(pending[n]) = pending[n][1] /\ IsCapture(pending[n][1])
    BY <2>1, Returns
  <2>3. \A s \in DOMAIN ckpts' : IsCapture(ckpts'[s]) /\ ckpts'[s].seq = s
    BY <1>0, <1>6, <1>7, <2>2 DEF Flush, TypeOK
  <2>4. /\ newest' \in [Node -> Nat] /\ DOMAIN flushed' = Node /\ DOMAIN pending' = Node
        /\ \A m \in Node : IsSeq(pending'[m])
    BY <2>1, Returns
  <2>5. \A m \in Node : flushed'[m] \subseteq Nat
    <3>1. /\ flushed'[n] = flushed[n] \cup {pending[n][1].seq} /\ pending[n][1].seq \in Nat
          /\ \A m \in Node \ {n} : flushed'[m] = flushed[m]
      BY <2>1, <2>2, Returns DEF IsCapture
    <3> QED BY <1>0, <3>1 DEF TypeOK
  <2>6. \A m \in Node : \A i \in DOMAIN pending'[m] : IsCapture(pending'[m][i])
    <3>1. \A m \in Node : \A i \in DOMAIN pending[m] : IsCapture(pending[m][i])
      BY <1>0 DEF TypeOK
    <3>2. \A i \in DOMAIN pending'[n] : i + 1 \in DOMAIN pending[n] /\ pending'[n][i] = pending[n][i + 1]
      BY <2>1, Returns
    <3>3. \A m \in Node \ {n} : pending'[m] = pending[m]
      BY <2>1, Returns
    <3>4. \A i \in DOMAIN pending'[n] : IsCapture(pending'[n][i])
      BY <3>1, <3>2
    <3> QED BY <3>1, <3>3, <3>4
  <2> QED BY <1>0, <1>7, <2>3, <2>4, <2>5, <2>6 DEF Types, TypeOK, Shape, Flush
<1>8. ASSUME NEW n \in Node, FlushInDoubt(n) PROVE Types'
  <2>1. IsCapture(Head(pending[n]))
    <3>1. IsSeq(pending[n]) /\ pending[n] # <<>>
      BY <1>0, <1>8 DEF FlushInDoubt, Flushable, Shape
    <3>2. Head(pending[n]) = pending[n][1] /\ 1 \in DOMAIN pending[n]
      BY <3>1, SeqParts, TailParts
    <3> QED BY <1>0, <3>2 DEF TypeOK
  <2>2. \A s \in DOMAIN ckpts' : IsCapture(ckpts'[s]) /\ ckpts'[s].seq = s
    BY <1>6, <1>8, <2>1 DEF FlushInDoubt
  <2> QED BY <1>0, <1>8, <2>2 DEF Types, TypeOK, Shape, FlushInDoubt
<1>9. ASSUME NEW n \in Node, Announce(n) PROVE Types'
  <2>1. PICK s \in flushed[n] : /\ Land(n, <<CkptRecord(s)>>)
                                /\ flushed' = [flushed EXCEPT ![n] = @ \ {s}]
                                /\ UNCHANGED <<ckpts, root, pc, named, newest>>
    BY <1>9 DEF Announce
  <2>2. DOMAIN flushed' = Node /\ \A m \in Node : flushed'[m] \subseteq Nat
    BY <1>0, <2>1 DEF TypeOK, Shape
  <2> QED BY <1>0, <2>1, <2>2, LandTypes DEF Types, TypeOK, Shape
<1>10. ASSUME NEW n \in Node, AdvanceRoot(n) PROVE Types'
  BY <1>0, <1>10 DEF Types, TypeOK, Shape, AdvanceRoot
<1>11. ASSUME NEW n \in Node, Trim(n) PROVE Types'
  BY <1>0, <1>11 DEF Types, TypeOK, Shape, Trim
<1>12. ASSUME NEW n \in Node, Crash(n) PROVE Types'
  <2>1. IsSeq(<<>>)
    BY DEF IsSeq
  <2>2. DOMAIN pending' = Node /\ \A m \in Node : pending'[m] = pending[m] \/ pending'[m] = <<>>
    BY <1>0, <1>12 DEF Crash, Shape
  <2>3. /\ \A m \in Node : IsSeq(pending'[m])
        /\ \A m \in Node : \A i \in DOMAIN pending'[m] : IsCapture(pending'[m][i])
    <3> SUFFICES ASSUME NEW m \in Node
                 PROVE  IsSeq(pending'[m]) /\ \A i \in DOMAIN pending'[m] : IsCapture(pending'[m][i])
      OBVIOUS
    <3>1. CASE pending'[m] = pending[m]
      BY <1>0, <3>1 DEF TypeOK, Shape
    <3>2. CASE pending'[m] = <<>>
      BY <2>1, <3>2
    <3> QED BY <2>2, <3>1, <3>2
  <2>4. DOMAIN flushed' = Node /\ \A m \in Node : flushed'[m] \subseteq Nat
    BY <1>0, <1>12 DEF Crash, TypeOK, Shape
  <2> QED BY <1>0, <1>12, <2>2, <2>3, <2>4 DEF Types, TypeOK, Shape, Crash
<1>13. CASE UNCHANGED vars
  BY <1>0, <1>13 DEF Types, TypeOK, Shape, vars, Present
<1> QED BY <1>1, <1>2, <1>3, <1>4, <1>5, <1>7, <1>8, <1>9, <1>10, <1>11, <1>12, <1>13 DEF Next

-----------------------------------------------------------------------------
(* The history grows, and a node that a step leaves alone keeps its share. *)

HistoryKept ==
  /\ Len(past) <= Len(past')
  /\ \A i \in 1 .. Len(past) : past'[i] = past[i]
  /\ \A i \in 1 .. Len(past) + 1 : folded'[i] = folded[i]
  /\ \A s \in DOMAIN ckpts : s \in DOMAIN ckpts'

Alike(m) == /\ pc'[m] = pc[m] /\ named'[m] = named[m] /\ pos'[m] = pos[m]
            /\ state'[m] = state[m] /\ pending'[m] = pending[m]
            /\ newest'[m] = newest[m] /\ flushed'[m] = flushed[m]

\* What a node still has to fold is there after the step.
SlotsKept(m) == pc[m] # "down" => \A s \in From(m) .. Len(past') - 1 : s \in DOMAIN slot'

\* The lengths and the positions are numbers.
LEMMA Numbers ==
  ASSUME Types
  PROVE  /\ Len(past) \in Nat /\ root \in Nat /\ Interval \in Nat /\ Interval > 1
         /\ \A n \in Node : pos[n] \in Nat /\ named[n] \in Nat /\ newest[n] \in Nat
         /\ \A n \in Node : \A i \in DOMAIN pending[n] : pending[n][i].seq \in Nat
         /\ \A n \in Node : DOMAIN pending[n] = 1 .. Len(pending[n]) /\ Len(pending[n]) \in Nat
         /\ DOMAIN slot \subseteq Nat
         /\ \A s \in DOMAIN ckpts : s \in Nat /\ ckpts[s].seq = s /\ Triggers(s)
<1>1. TypeOK /\ Shape
  BY DEF Types
<1>2. Len(past) \in Nat /\ \A n \in Node : DOMAIN pending[n] = 1 .. Len(pending[n]) /\ Len(pending[n]) \in Nat
  BY <1>1, SeqParts DEF Shape
<1>3. Interval \in Nat /\ Interval > 1
  BY CheckpointAssumption DEF CheckpointAssumption
<1>4. \A n \in Node : \A i \in DOMAIN pending[n] : pending[n][i].seq \in Nat
  BY <1>1 DEF TypeOK, IsCapture
<1>5. \A s \in DOMAIN ckpts : s \in Nat /\ ckpts[s].seq = s /\ Triggers(s)
  BY <1>1 DEF TypeOK, IsCapture
<1> QED BY <1>1, <1>2, <1>3, <1>4, <1>5 DEF TypeOK

\* IsFoldOf after the step, of a checkpoint there is before it.
IsFoldAfter(c) == /\ c.seq < Len(past')
                  /\ c.writer = past'[c.seq + 1].writer
                  /\ c.state = folded'[c.seq + 2]

\* A fold of the history stays one.
LEMMA FoldKept ==
  ASSUME Types, Types', HistoryKept, NEW c, c.seq \in Nat, IsFoldOf(c)
  PROVE  IsFoldAfter(c)
<1>1. Len(past) \in Nat /\ Len(past') \in Nat
  BY SeqParts DEF Types, Shape
<1>2. c.seq + 1 \in 1 .. Len(past) /\ c.seq + 2 \in 1 .. Len(past) + 1 /\ c.seq < Len(past')
  BY <1>1 DEF IsFoldOf, HistoryKept
<1> QED BY <1>2 DEF IsFoldOf, IsFoldAfter, HistoryKept

\* A node that is left alone keeps its share of the invariant.
LEMMA AlikeShare ==
  ASSUME Types, Types', HistoryKept, NEW m \in Node, Share(m), Alike(m), SlotsKept(m)
  PROVE  Share(m)'
<1>1. /\ Len(past) \in Nat /\ Len(past') \in Nat /\ pos[m] \in Nat
      /\ \A i \in DOMAIN pending[m] : pending[m][i].seq \in Nat
  BY Numbers, SeqParts DEF Types, Shape
<1>2. Folds(m)'
  <2>1. Opened(m) => pos[m] <= Len(past') /\ state[m] = folded'[pos[m] + 1]
    <3>1. Opened(m) => pos[m] + 1 \in 1 .. Len(past) + 1
      BY <1>1 DEF Share, Folds
    <3> QED BY <1>1, <3>1 DEF Share, Folds, HistoryKept
  <2>2. \A i \in DOMAIN pending[m] : IsFoldAfter(pending[m][i])
    BY <1>1, FoldKept DEF Share, Folds
  <2>3. pc[m] \in {"down", "loading"} => pos[m] = 0 /\ state[m] = NewState /\ pending[m] = <<>>
    BY DEF Share, Folds
  <2> QED BY <2>1, <2>2, <2>3 DEF Alike, Folds, Opened, IsFoldOf, IsFoldAfter
<1>3. TailKept(m)'
  BY DEF SlotsKept, TailKept, Alike, From, Present
<1>4. Covers(m)'
  BY DEF Share, Covers, Pends, Alike, HistoryKept
<1>5. Names(m)'
  BY DEF Share, Names, Stored, Alike, HistoryKept
<1> QED BY <1>2, <1>3, <1>4, <1>5 DEF Share

\* A step that adds no slot to the history and takes none away keeps what nodes need.
LEMMA SlotsUnchanged ==
  ASSUME NEW m \in Node, Share(m), UNCHANGED <<slot, past>>
  PROVE  SlotsKept(m)
BY DEF Share, TailKept, SlotsKept, Present

\* A step of one node keeps the invariant if it keeps the chain's part and the node's.
LEMMA NodeStep ==
  ASSUME CkptInv, Types', Chain', HistoryKept, NEW n \in Node, Share(n)',
         \A m \in Node \ {n} : Alike(m) /\ SlotsKept(m)
  PROVE  CkptInv'
<1>1. ASSUME NEW m \in Node PROVE Share(m)'
  <2>1. CASE m = n
    BY <2>1
  <2>2. CASE m # n
    BY <2>2, AlikeShare DEF CkptInv
  <2> QED BY <2>1, <2>2
<1> QED BY <1>1 DEF CkptInv

\* A node that folds the batch the history has at its position keeps its share.
LEMMA ObserveShare ==
  ASSUME Types, Types', HistoryKept, NEW n \in Node, Share(n), Opened(n),
         NEW b, Observe(n, b),
         pos[n] < Len(past'), past'[pos[n] + 1] = b,
         folded'[pos[n] + 2] = Apply(folded[pos[n] + 1], b.records),
         \A s \in pos[n] + 1 .. Len(past') - 1 : s \in DOMAIN slot',
         pc'[n] = pc[n], named'[n] = named[n], newest'[n] = newest[n],
         flushed'[n] \subseteq flushed[n]
  PROVE  Share(n)'
<1> DEFINE q == pending[n]
           r == pending'[n]
           c == Capture(n, b)
           p == pos[n]
<1>1. /\ Len(past) \in Nat /\ Len(past') \in Nat /\ p \in Nat
      /\ \A i \in DOMAIN q : q[i].seq \in Nat
      /\ DOMAIN q = 1 .. Len(q) /\ Len(q) \in Nat
  BY Numbers, SeqParts DEF Types, Shape
<1>2. /\ pos'[n] = p + 1 /\ state'[n] = Apply(state[n], b.records)
      /\ \A i \in DOMAIN q : i \in DOMAIN r /\ r[i] = q[i]
      /\ \A i \in DOMAIN r : \/ i \in DOMAIN q
                             \/ /\ Triggers(p) /\ r[i] = c
                                /\ \A j \in DOMAIN r : j # i => j < i /\ j \in DOMAIN q
      /\ Triggers(p) => \E i \in DOMAIN r : r[i] = c
  BY Observes
<1>3. c.seq = p /\ c.writer = b.writer /\ c.state = state'[n]
  BY <1>2 DEF Capture
<1>4. pc[n] \in {"opening", "up"} /\ state[n] = folded[p + 1]
  BY DEF Opened, Share, Folds
<1>5. state'[n] = folded'[p + 2]
  BY <1>2, <1>4
<1>6. IsFoldAfter(c)
  BY <1>3, <1>5 DEF IsFoldAfter
<1>7. \A i \in DOMAIN q : IsFoldAfter(q[i])
  BY <1>1, FoldKept DEF Share, Folds
<1> HIDE DEF c, q, r
<1>8. Folds(n)'
  <2>1. \A i \in DOMAIN r : IsFoldAfter(r[i])
    <3> SUFFICES ASSUME NEW i \in DOMAIN r PROVE IsFoldAfter(r[i])
      OBVIOUS
    <3>1. CASE i \in DOMAIN q
      BY <1>2, <1>7, <3>1
    <3>2. CASE r[i] = c
      BY <1>6, <3>2
    <3> QED BY <1>2, <3>1, <3>2
  <2>2. pos'[n] <= Len(past') /\ state'[n] = folded'[pos'[n] + 1] /\ pc'[n] \notin {"down", "loading"}
    BY <1>1, <1>2, <1>4, <1>5
  <2> QED BY <2>1, <2>2 DEF Folds, Opened, IsFoldOf, IsFoldAfter, r
<1>9. TailKept(n)'
  BY <1>2, <1>4 DEF TailKept, From, Present
<1>10. Covers(n)'
  <2>1. /\ \A t \in 0 .. p - 1 : Triggers(t) => t \in DOMAIN ckpts \/ \E i \in DOMAIN q : q[i].seq = t
        /\ \A i \in DOMAIN q : q[i].seq < p
        /\ \A i, j \in DOMAIN q : i < j => q[i].seq < q[j].seq
    BY DEF Share, Covers, Pends, q
  <2>2. \A t \in 0 .. p : Triggers(t) => t \in DOMAIN ckpts' \/ \E i \in DOMAIN r : r[i].seq = t
    <3> SUFFICES ASSUME NEW t \in 0 .. p, Triggers(t)
                 PROVE  t \in DOMAIN ckpts' \/ \E i \in DOMAIN r : r[i].seq = t
      OBVIOUS
    <3>1. CASE t = p
      BY <1>2, <1>3, <3>1
    <3>2. CASE t \in 0 .. p - 1
      <4>1. CASE t \in DOMAIN ckpts
        BY <4>1 DEF HistoryKept
      <4>2. CASE \E i \in DOMAIN q : q[i].seq = t
        BY <1>2, <4>2
      <4> QED BY <2>1, <3>2, <4>1, <4>2
    <3> QED BY <1>1, <3>1, <3>2
  <2>3. \A i \in DOMAIN r : r[i].seq < p + 1
    BY <1>1, <1>2, <1>3, <2>1
  <2>4. \A i, j \in DOMAIN r : i < j => r[i].seq < r[j].seq
    <3> SUFFICES ASSUME NEW i \in DOMAIN r, NEW j \in DOMAIN r, i < j PROVE r[i].seq < r[j].seq
      OBVIOUS
    <3>1. DOMAIN r = 1 .. Len(r) /\ Len(r) \in Nat
      BY Numbers, SeqParts DEF Types, Shape, r
    <3>2. i \in DOMAIN q
      <4>1. ~(j < i) /\ j # i
        BY <3>1
      <4> QED BY <1>2, <4>1
    <3>3. CASE j \in DOMAIN q
      BY <1>2, <2>1, <3>2, <3>3
    <3>4. CASE r[j] = c
      BY <1>2, <1>3, <2>1, <3>2, <3>4
    <3> QED BY <1>2, <3>3, <3>4
  <2>5. 0 .. pos'[n] - 1 = 0 .. p /\ pos'[n] = p + 1
    BY <1>1, <1>2
  <2> HIDE DEF p
  <2> QED BY <2>2, <2>3, <2>4, <2>5 DEF Covers, Pends, r
<1>11. Names(n)'
  BY DEF Share, Names, Stored, HistoryKept
<1> QED BY <1>8, <1>9, <1>10, <1>11 DEF Share

-----------------------------------------------------------------------------
(* The chain's part, action by action.                                     *)

\* A create that wins while trims wait is at the end of the history, and extends it.
LEMMA LandChain ==
  ASSUME CkptInv, Types', NEW n \in Node, NEW records, Land(n, records), UNCHANGED <<ckpts, root>>,
         IsSeq(records), \A i \in DOMAIN records : Announces(records[i])
  PROVE  /\ pos[n] = Len(past) /\ Len(past') = Len(past) + 1
         /\ Chain' /\ HistoryKept /\ \A m \in Node : SlotsKept(m)
<1> DEFINE L == Len(past)
           b == Batch(n, records)
<1>1. /\ L \in Nat /\ Len(past') \in Nat /\ \A m \in Node : pos[m] \in Nat
      /\ root \in Nat /\ \A s \in DOMAIN ckpts : s \in Nat /\ ckpts[s].seq = s
      /\ DOMAIN slot \subseteq Nat
  BY Numbers, SeqParts DEF CkptInv, Types, Shape
<1>2. /\ Types /\ Chain /\ Share(n)
  BY DEF CkptInv
<1>3. /\ pc[n] = "up" /\ ~Present(pos[n])
      /\ DOMAIN slot' = DOMAIN slot \cup {pos[n]} /\ slot'[pos[n]] = b
      /\ \A s \in DOMAIN slot : s # pos[n] /\ slot'[s] = slot[s]
      /\ \A i \in 1 .. L : past'[i] = past[i]
      /\ \A i \in 1 .. L + 1 : folded'[i] = folded[i]
  BY <1>2, Lands
<1>4. pos[n] = L
  <2>1. pos[n] <= L /\ \A s \in pos[n] .. L - 1 : Present(s)
    BY <1>2, <1>3 DEF Share, Folds, Opened, TailKept, From
  <2> QED BY <1>1, <1>3, <2>1
<1>5. /\ Len(past') = L + 1 /\ past'[L + 1] = b
      /\ folded'[L + 2] = Apply(folded[L + 1], records)
  BY <1>2, <1>4, Lands
<1>6. HistoryKept
  BY <1>1, <1>3, <1>5 DEF HistoryKept
<1>7. OneHistory'
  <2> HIDE DEF b
  <2>1. \A s \in DOMAIN slot' : s < L + 1 /\ slot'[s] = past'[s + 1]
    <3> SUFFICES ASSUME NEW s \in DOMAIN slot' PROVE s < L + 1 /\ slot'[s] = past'[s + 1]
      OBVIOUS
    <3>1. CASE s = pos[n]
      BY <1>1, <1>3, <1>4, <1>5, <3>1
    <3>2. CASE s \in DOMAIN slot
      <4>1. s \in Nat /\ s < L /\ slot[s] = past[s + 1]
        BY <1>1, <1>2, <3>2 DEF Chain, OneHistory
      <4>2. s < L + 1 /\ s + 1 \in 1 .. L
        BY <1>1, <4>1
      <4>3. slot'[s] = slot[s] /\ past'[s + 1] = past[s + 1]
        BY <1>3, <3>2, <4>2
      <4> QED BY <4>1, <4>2, <4>3
    <3> QED BY <1>3, <3>1, <3>2
  <2>2. folded'[1] = NewState
    BY <1>1, <1>2, <1>3 DEF Chain, OneHistory
  <2>3. \A i \in 1 .. L + 1 : folded'[i + 1] = Apply(folded'[i], past'[i].records)
    <3> SUFFICES ASSUME NEW i \in 1 .. L + 1 PROVE folded'[i + 1] = Apply(folded'[i], past'[i].records)
      OBVIOUS
    <3>1. CASE i = L + 1
      <4>1. past'[i].records = records
        BY <1>5, <3>1 DEF b, Batch
      <4> QED BY <1>1, <1>3, <1>5, <3>1, <4>1
    <3>2. CASE i \in 1 .. L
      <4>1. folded[i + 1] = Apply(folded[i], past[i].records)
        BY <1>2, <3>2 DEF Chain, OneHistory
      <4>2. i \in 1 .. L + 1 /\ i + 1 \in 1 .. L + 1
        BY <1>1, <3>2
      <4> QED BY <1>3, <3>2, <4>1, <4>2
    <3> QED BY <1>1, <3>1, <3>2
  <2> QED BY <1>5, <2>1, <2>2, <2>3 DEF OneHistory
<1>8. RootBoots'
  <2>1. \A s \in (IF root = 0 THEN 0 ELSE root + 1) .. L - 1 : s \in DOMAIN slot
    BY <1>2 DEF Chain, RootBoots, Present
  <2> QED BY <1>1, <1>3, <1>4, <1>5, <2>1 DEF RootBoots, Present
<1>9. \A s \in DOMAIN ckpts' : IsFoldOf(ckpts[s])'
  <2>1. \A s \in DOMAIN ckpts : IsFoldAfter(ckpts[s])
    BY <1>1, <1>2, <1>6, FoldKept DEF Chain
  <2> QED BY <2>1 DEF IsFoldOf, IsFoldAfter
<1>10. \A m \in Node : SlotsKept(m)
  <2> SUFFICES ASSUME NEW m \in Node, pc[m] # "down", NEW s \in From(m) .. Len(past') - 1
               PROVE  s \in DOMAIN slot'
    BY DEF SlotsKept
  <2>1. From(m) \in Nat
    BY <1>1, Numbers DEF CkptInv, From
  <2>2. CASE s = L
    BY <1>3, <1>4, <2>2
  <2>3. CASE s \in From(m) .. L - 1
    BY <1>3, <2>3 DEF CkptInv, Share, TailKept, Present
  <2> QED BY <1>1, <1>5, <2>1, <2>2, <2>3
<1>11. \A i \in 1 .. L + 2 : NamesCkpt(folded'[i])
  <2>1. \A i \in 1 .. L + 1 : NamesCkpt(folded[i])
    BY <1>2 DEF Chain
  <2>2. NamesCkpt(folded'[L + 2])
    BY <1>1, <1>5, <2>1, ApplyNamesStored
  <2> QED BY <1>1, <1>3, <2>1, <2>2
<1>12. \A i \in 1 .. Len(past') + 1 : NamesCkpt(folded[i])'
  BY <1>1, <1>5, <1>11 DEF NamesCkpt, Stored
<1> QED BY <1>2, <1>4, <1>5, <1>6, <1>7, <1>8, <1>9, <1>10, <1>12 DEF Chain, Dense, Stored

\* A create of the oldest capture stores the checkpoint of the next interval.
LEMMA StoreChain ==
  ASSUME CkptInv, NEW n \in Node, NEW c, 1 \in DOMAIN pending[n], c = pending[n][1],
         \/ c.seq \in DOMAIN ckpts /\ ckpts' = ckpts
         \/ c.seq \notin DOMAIN ckpts /\ ckpts' = Put(ckpts, c.seq, c),
         UNCHANGED <<chainVars, root>>
  PROVE  /\ Chain' /\ HistoryKept /\ c.seq \in DOMAIN ckpts'
         /\ \A m \in Node : SlotsKept(m)
<1>1. /\ Types /\ Chain /\ Share(n) /\ \A s \in DOMAIN ckpts : s \in Nat
      /\ Len(past) \in Nat /\ c.seq \in Nat
      /\ DOMAIN pending[n] = 1 .. Len(pending[n]) /\ Len(pending[n]) \in Nat
      /\ pos[n] \in Nat /\ \A i \in DOMAIN pending[n] : pending[n][i].seq \in Nat
  BY Numbers DEF CkptInv
<1>2. /\ DOMAIN ckpts' = DOMAIN ckpts \cup {c.seq}
      /\ \A s \in DOMAIN ckpts' : (ckpts'[s] = ckpts[s] /\ s \in DOMAIN ckpts) \/ ckpts'[s] = c
  BY DEF Put
<1>3. UNCHANGED <<slot, past, folded, root>>
  BY DEF chainVars
<1>4. HistoryKept
  BY <1>1, <1>2, <1>3 DEF HistoryKept
<1>5. IsFoldOf(c)
  BY <1>1 DEF Share, Folds
<1>6. \A s \in DOMAIN ckpts' : IsFoldOf(ckpts'[s])
  BY <1>1, <1>2, <1>5 DEF Chain
<1>7. Dense'
  <2> SUFFICES ASSUME NEW s \in DOMAIN ckpts', NEW t \in 0 .. s, Triggers(t) PROVE t \in DOMAIN ckpts'
    BY DEF Dense, Triggers
  <2>1. CASE s \in DOMAIN ckpts
    BY <1>1, <1>2, <2>1 DEF Chain, Dense
  <2>2. CASE s = c.seq /\ t # s
    <3>1. t < c.seq /\ t \in Nat /\ c.seq < pos[n]
      BY <1>1, <2>2 DEF Share, Covers
    <3>2. t \in 0 .. pos[n] - 1
      BY <1>1, <3>1
    <3>3. ~Pends(n, t)
      <4> SUFFICES ASSUME NEW i \in DOMAIN pending[n] PROVE pending[n][i].seq # t
        BY DEF Pends
      <4>1. i = 1 \/ 1 < i
        BY <1>1
      <4>2. 1 < i => c.seq < pending[n][i].seq
        BY <1>1 DEF Share, Covers
      <4> QED BY <1>1, <3>1, <4>1, <4>2
    <3> QED BY <1>1, <1>2, <3>2, <3>3 DEF Share, Covers
  <2>3. CASE t = s
    BY <2>3
  <2> QED BY <1>2, <2>1, <2>2, <2>3
<1>8. RootBoots' /\ OneHistory' /\ Stored(root)'
  BY <1>1, <1>2, <1>3 DEF Chain, RootBoots, OneHistory, Stored, Present
<1>10. \A i \in 1 .. Len(past') + 1 : NamesCkpt(folded[i])'
  BY <1>1, <1>2, <1>3 DEF Chain, NamesCkpt, Stored
<1>9. \A m \in Node : SlotsKept(m)
  BY <1>3, SlotsUnchanged DEF CkptInv
<1> QED BY <1>2, <1>3, <1>4, <1>6, <1>7, <1>8, <1>9, <1>10 DEF Chain, IsFoldOf

-----------------------------------------------------------------------------
(* Every step keeps the invariant.                                         *)

\* A step that leaves the chain, the checkpoints and the root alone keeps the chain's
\* part, and what nodes need.
LEMMA ChainUnchanged ==
  ASSUME CkptInv, UNCHANGED <<chainVars, ckpts, root>>
  PROVE  Chain' /\ HistoryKept /\ \A m \in Node : SlotsKept(m)
<1>1. UNCHANGED <<slot, past, folded, ckpts, root>> /\ Len(past) \in Nat
  BY Numbers DEF chainVars, CkptInv
<1>2. \A m \in Node : SlotsKept(m)
  BY <1>1, SlotsUnchanged DEF CkptInv
<1>3. OneHistory /\ RootBoots /\ Dense /\ Stored(root)
  BY DEF CkptInv, Chain
<1>4. OneHistory'
  BY <1>1, <1>3 DEF OneHistory
<1>5. RootBoots'
  BY <1>1, <1>3 DEF RootBoots, Present
<1>6. Dense' /\ Stored(root)'
  BY <1>1, <1>3 DEF Dense, Stored
<1>7. (\A i \in 1 .. Len(past) + 1 : NamesCkpt(folded[i]))'
  <2>1. \A i \in 1 .. Len(past) + 1 : NamesCkpt(folded[i])
    BY DEF CkptInv, Chain
  <2> QED BY <1>1, <2>1 DEF NamesCkpt, Stored
<1>8. (\A s \in DOMAIN ckpts : IsFoldOf(ckpts[s]))'
  <2>1. \A s \in DOMAIN ckpts : IsFoldOf(ckpts[s])
    BY DEF CkptInv, Chain
  <2> QED BY <1>1, <2>1 DEF IsFoldOf
<1> QED BY <1>1, <1>2, <1>4, <1>5, <1>6, <1>7, <1>8 DEF Chain, HistoryKept

\* A create that wins keeps the invariant, if its caller announces less than it owes.
LEMMA LandStep ==
  ASSUME CkptInv, Types', NEW n \in Node, NEW records, Land(n, records),
         IsSeq(records), \A i \in DOMAIN records : Announces(records[i]),
         UNCHANGED <<ckpts, root, pc, named, newest>>,
         flushed'[n] \subseteq flushed[n], \A m \in Node \ {n} : flushed'[m] = flushed[m]
  PROVE  CkptInv'
<1> DEFINE b == Batch(n, records)
           L == Len(past)
<1>1. Types /\ Share(n) /\ L \in Nat
  BY Numbers DEF CkptInv
<1>2. /\ pos[n] = L /\ Len(past') = L + 1 /\ Chain' /\ HistoryKept
      /\ \A m \in Node : SlotsKept(m)
  BY LandChain
<1>3. /\ Opened(n) /\ Observe(n, b) /\ past'[L + 1] = b
      /\ folded'[L + 2] = Apply(folded[L + 1], records)
  <2>1. /\ pc[n] = "up" /\ Observe(n, Batch(n, records))
        /\ pos[n] = L => /\ past'[L + 1] = Batch(n, records)
                         /\ folded'[L + 2] = Apply(folded[L + 1], records)
    BY <1>1, Lands
  <2>2. Opened(n)
    BY <2>1 DEF Opened
  <2> QED BY <1>2, <2>1, <2>2
<1>4. b.records = records
  BY DEF Batch
<1>5. \A s \in L + 1 .. Len(past') - 1 : s \in DOMAIN slot'
  BY <1>1, <1>2
<1> HIDE DEF b
<1>6. Share(n)'
  BY <1>1, <1>2, <1>3, <1>4, <1>5, ObserveShare
<1>7. \A m \in Node \ {n} : Alike(m)
  BY <1>1, <1>3, Observes DEF Alike
<1> QED BY <1>2, <1>6, <1>7, NodeStep

\* Every step keeps the invariant, if trims wait for open handles.
LEMMA CkptStep == ASSUME CkptInv, Prompt, [Next]_vars PROVE CkptInv'
<1> USE DEF nodeVars, callerVars
<1>0. /\ Types /\ Types' /\ Chain /\ \A m \in Node : Share(m)
      /\ pc \in [Node -> {"down", "loading", "opening", "up"}]
      /\ named \in [Node -> Nat] /\ pos \in [Node -> Nat] /\ newest \in [Node -> Nat]
      /\ DOMAIN state = Node /\ DOMAIN pending = Node /\ DOMAIN flushed = Node
      /\ Len(past) \in Nat
  BY TypesStep, Numbers DEF CkptInv, Types, TypeOK, Shape
<1>1. ASSUME NEW n \in Node, Boot(n) PROVE CkptInv'
  <2>1. /\ pc[n] = "down" /\ pc'[n] = (IF root = 0 THEN "opening" ELSE "loading") /\ named'[n] = root
        /\ \A m \in Node \ {n} : pc'[m] = pc[m] /\ named'[m] = named[m]
        /\ UNCHANGED <<chainVars, ckpts, root, pos, state, pending, newest, flushed>>
    BY <1>0, <1>1 DEF Boot
  <2>2. Chain' /\ HistoryKept /\ \A m \in Node : SlotsKept(m)
    BY <2>1, ChainUnchanged
  <2>3. pos[n] = 0 /\ state[n] = NewState /\ pending[n] = <<>> /\ folded[1] = NewState
    BY <1>0, <2>1 DEF Share, Folds, Chain, OneHistory
  <2>4. UNCHANGED <<slot, past, folded>>
    BY <2>1 DEF chainVars
  <2>5. Folds(n)'
    BY <1>0, <2>1, <2>3, <2>4 DEF Folds, Opened
  <2>6. TailKept(n)'
    <3>1. \A s \in (IF root = 0 THEN 0 ELSE root + 1) .. Len(past) - 1 : Present(s)
      BY <1>0 DEF Chain, RootBoots
    <3> QED BY <2>1, <2>3, <2>4, <3>1 DEF TailKept, From, Present
  <2>7. Covers(n)' /\ Names(n)'
    BY <1>0, <2>1, <2>3 DEF Covers, Names, Stored, Share, Chain
  <2>8. \A m \in Node \ {n} : Alike(m)
    BY <2>1 DEF Alike
  <2>9. Share(n)'
    BY <2>5, <2>6, <2>7 DEF Share
  <2> QED BY <1>0, <2>2, <2>8, <2>9, NodeStep
<1>2. ASSUME NEW n \in Node, LoadCkpt(n) PROVE CkptInv'
  <2> DEFINE k == named[n]
  <2>1. /\ pc[n] = "loading" /\ pc'[n] = "opening" /\ k \in DOMAIN ckpts
        /\ pos'[n] = k + 1 /\ state'[n] = ckpts[k].state
        /\ \A m \in Node \ {n} : pc'[m] = pc[m] /\ pos'[m] = pos[m] /\ state'[m] = state[m]
        /\ UNCHANGED <<chainVars, ckpts, root, named, pending, newest, flushed>>
    BY <1>0, <1>2 DEF LoadCkpt
  <2>2. Chain' /\ HistoryKept /\ \A m \in Node : SlotsKept(m)
    BY <2>1, ChainUnchanged
  <2>3. pending[n] = <<>> /\ k \in Nat /\ UNCHANGED <<slot, past, folded>>
    BY <1>0, <2>1 DEF Share, Folds, chainVars
  <2>4. k < Len(past) /\ ckpts[k].state = folded[k + 2]
    BY <1>0, <2>1, Numbers DEF Chain, IsFoldOf
  <2>5. Folds(n)'
    BY <1>0, <2>1, <2>3, <2>4 DEF Folds, Opened
  <2>6. TailKept(n)'
    BY <1>0, <2>1, <2>3 DEF TailKept, From, Present, Share
  <2>7. Covers(n)'
    <3>1. \A t \in 0 .. k : Triggers(t) => t \in DOMAIN ckpts
      BY <1>0, <2>1 DEF Chain, Dense
    <3>2. 0 .. (k + 1) - 1 = 0 .. k
      BY <2>3
    <3> QED BY <2>1, <2>3, <3>1, <3>2 DEF Covers
  <2>8. Names(n)'
    BY <1>0, <2>1 DEF Names, Stored, Share
  <2>9. \A m \in Node \ {n} : Alike(m)
    BY <2>1 DEF Alike
  <2>10. Share(n)'
    BY <2>5, <2>6, <2>7, <2>8 DEF Share
  <2> QED BY <1>0, <2>2, <2>9, <2>10, NodeStep
<1>3. ASSUME NEW n \in Node, FoldNext(n) PROVE CkptInv'
  <2> DEFINE p == pos[n]
             b == slot[p]
  <2>1. /\ Opened(n) /\ p \in DOMAIN slot /\ Observe(n, b)
        /\ UNCHANGED <<chainVars, ckpts, root, pc, named, newest, flushed>>
    BY <1>3 DEF FoldNext, Opened, Present
  <2>2. Chain' /\ HistoryKept /\ \A m \in Node : SlotsKept(m)
    BY <2>1, ChainUnchanged
  <2>3. p < Len(past) /\ b = past[p + 1] /\ UNCHANGED <<slot, past, folded>> /\ p \in Nat
    BY <1>0, <2>1 DEF Chain, OneHistory, chainVars
  <2>4. folded[p + 2] = Apply(folded[p + 1], b.records)
    <3>1. p + 1 \in 1 .. Len(past) /\ (p + 1) + 1 = p + 2
      BY <1>0, <2>3
    <3>2. folded[(p + 1) + 1] = Apply(folded[p + 1], past[p + 1].records)
      BY <1>0, <3>1 DEF Chain, OneHistory
    <3> QED BY <2>3, <3>1, <3>2
  <2>5. \A s \in p + 1 .. Len(past') - 1 : s \in DOMAIN slot'
    <3>1. From(n) = p /\ pc[n] # "down"
      BY <2>1 DEF From, Opened
    <3>2. \A s \in p .. Len(past) - 1 : s \in DOMAIN slot
      BY <1>0, <3>1 DEF Share, TailKept, Present
    <3> QED BY <1>0, <2>3, <3>2
  <2> HIDE DEF b
  <2>6. Share(n)'
    BY <1>0, <2>1, <2>2, <2>3, <2>4, <2>5, ObserveShare
  <2>7. \A m \in Node \ {n} : Alike(m)
    BY <1>0, <2>1, Observes DEF Alike
  <2> QED BY <1>0, <2>2, <2>6, <2>7, NodeStep
<1>4. ASSUME NEW n \in Node, OpenTail(n) PROVE CkptInv'
  <2>1. /\ pc[n] = "opening" /\ pc'[n] = "up" /\ \A m \in Node \ {n} : pc'[m] = pc[m]
        /\ UNCHANGED <<chainVars, ckpts, root, named, pos, state, pending, newest, flushed>>
    BY <1>0, <1>4 DEF OpenTail
  <2>2. Chain' /\ HistoryKept /\ \A m \in Node : SlotsKept(m)
    BY <2>1, ChainUnchanged
  <2>3. UNCHANGED <<slot, past, folded>>
    BY <2>1 DEF chainVars
  <2>4. Folds(n)' /\ TailKept(n)'
    BY <1>0, <2>1, <2>3 DEF Share, Folds, Opened, TailKept, From, Present, IsFoldOf
  <2>5. Covers(n)'
    BY <1>0, <2>1 DEF Covers, Pends, Share
  <2>51. Names(n)'
    BY <1>0, <2>1 DEF Names, Stored, Share
  <2>6. \A m \in Node \ {n} : Alike(m)
    BY <2>1 DEF Alike
  <2>7. Share(n)'
    BY <2>4, <2>5, <2>51 DEF Share
  <2> QED BY <1>0, <2>2, <2>6, <2>7, NodeStep
<1>5. ASSUME NEW n \in Node, AppendPayload(n) PROVE CkptInv'
  <2>1. PICK records \in Payload[n] : Land(n, records)
    BY <1>5 DEF AppendPayload
  <2>2. UNCHANGED <<ckpts, root, pc, named, newest, flushed>>
    BY <1>5 DEF AppendPayload
  <2>3. IsSeq(records) /\ \A i \in DOMAIN records : Announces(records[i])
    BY CheckpointAssumption DEF CheckpointAssumption, IsSeq, Announces
  <2> QED BY <1>0, <2>1, <2>2, <2>3, LandStep
<1>6. ASSUME NEW n \in Node, Flush(n) PROVE CkptInv'
  <2> DEFINE c == pending[n][1]
             q == pending[n]
             r == pending'[n]
  <2>1. /\ Flushable(n) /\ Returned(n)
        /\ UNCHANGED <<chainVars, root, pc, named, pos, state>>
    BY <1>6 DEF Flush
  <2>2. /\ 1 \in DOMAIN q /\ Head(q) = c
        /\ newest'[n] = c.seq /\ flushed'[n] = flushed[n] \cup {c.seq}
        /\ \A i \in DOMAIN r : i + 1 \in DOMAIN q /\ r[i] = q[i + 1]
        /\ \A i \in DOMAIN q : i # 1 => i - 1 \in DOMAIN r /\ r[i - 1] = q[i]
        /\ \A m \in Node \ {n} : newest'[m] = newest[m] /\ flushed'[m] = flushed[m] /\ pending'[m] = pending[m]
        /\ \A m \in Node : IsSeq(pending'[m])
    BY <1>0, <2>1, Returns
  <2>3. \/ c.seq \in DOMAIN ckpts /\ ckpts' = ckpts
        \/ c.seq \notin DOMAIN ckpts /\ ckpts' = Put(ckpts, c.seq, c)
    BY <1>6, <2>2 DEF Flush
  <2>4. Chain' /\ HistoryKept /\ c.seq \in DOMAIN ckpts' /\ \A m \in Node : SlotsKept(m)
    BY <2>1, <2>2, <2>3, StoreChain
  <2>5. UNCHANGED <<slot, past, folded>> /\ DOMAIN q \subseteq Nat /\ DOMAIN r \subseteq Nat
    BY <1>0, <2>1, <2>2, Numbers, SeqParts DEF chainVars
  <2>6. /\ \A i \in DOMAIN q : IsFoldOf(q[i])
        /\ \A t \in 0 .. pos[n] - 1 : Triggers(t) => t \in DOMAIN ckpts \/ \E i \in DOMAIN q : q[i].seq = t
        /\ \A i \in DOMAIN q : q[i].seq < pos[n]
        /\ \A i, j \in DOMAIN q : i < j => q[i].seq < q[j].seq
        /\ pc[n] = "up"
    BY <1>0, <2>1 DEF Share, Folds, Covers, Pends, Flushable
  <2> HIDE DEF c, q, r
  <2>7. Folds(n)' /\ TailKept(n)'
    <3>1. \A i \in DOMAIN r : IsFoldOf(r[i])
      BY <2>2, <2>6
    <3> QED BY <1>0, <2>1, <2>5, <2>6, <3>1 DEF Share, Folds, Opened, TailKept, From, Present, IsFoldOf, r
  <2>8. Covers(n)'
    <3>1. \A t \in 0 .. pos[n] - 1 : Triggers(t) => t \in DOMAIN ckpts' \/ \E i \in DOMAIN r : r[i].seq = t
      <4> SUFFICES ASSUME NEW t \in 0 .. pos[n] - 1, Triggers(t)
                   PROVE  t \in DOMAIN ckpts' \/ \E i \in DOMAIN r : r[i].seq = t
        OBVIOUS
      <4>1. CASE t \in DOMAIN ckpts
        BY <2>4, <4>1 DEF HistoryKept
      <4>2. ASSUME NEW i \in DOMAIN q, q[i].seq = t
            PROVE  t \in DOMAIN ckpts' \/ \E j \in DOMAIN r : r[j].seq = t
        <5>1. CASE i = 1
          BY <2>4, <4>2, <5>1 DEF c, q
        <5>2. CASE i # 1
          BY <2>2, <4>2, <5>2
        <5> QED BY <5>1, <5>2
      <4> QED BY <2>6, <4>1, <4>2
    <3>2. \A i \in DOMAIN r : r[i].seq < pos[n]
      BY <2>2, <2>6
    <3>3. \A i, j \in DOMAIN r : i < j => r[i].seq < r[j].seq
      BY <2>2, <2>5, <2>6
    <3> QED BY <2>1, <3>1, <3>2, <3>3 DEF Covers, Pends, r
  <2>9. Names(n)'
    BY <1>0, <2>1, <2>2, <2>4 DEF Share, Names, Stored, HistoryKept
  <2>10. \A m \in Node \ {n} : Alike(m)
    BY <2>1, <2>2 DEF Alike
  <2>11. Share(n)'
    BY <2>7, <2>8, <2>9 DEF Share
  <2> QED BY <1>0, <2>4, <2>10, <2>11, NodeStep
<1>7. ASSUME NEW n \in Node, FlushInDoubt(n) PROVE CkptInv'
  <2> DEFINE c == pending[n][1]
  <2>1. /\ IsSeq(pending[n]) /\ pending[n] # <<>>
        /\ UNCHANGED <<chainVars, root, pc, named, pos, state, pending, newest, flushed>>
    BY <1>0, <1>7 DEF FlushInDoubt, Flushable, Types, Shape
  <2>2. 1 \in DOMAIN pending[n] /\ Head(pending[n]) = c
    BY <2>1, SeqParts, TailParts
  <2>3. c.seq \notin DOMAIN ckpts /\ ckpts' = Put(ckpts, c.seq, c)
    BY <1>7, <2>2 DEF FlushInDoubt
  <2>4. Chain' /\ HistoryKept /\ \A m \in Node : SlotsKept(m)
    BY <2>1, <2>2, <2>3, StoreChain
  <2>5. \A m \in Node : Alike(m)
    BY <2>1 DEF Alike
  <2>6. Share(n)'
    BY <1>0, <2>4, <2>5, AlikeShare
  <2> QED BY <1>0, <2>4, <2>5, <2>6, NodeStep
<1>8. ASSUME NEW n \in Node, Announce(n) PROVE CkptInv'
  <2>1. PICK s \in flushed[n] : /\ Land(n, <<CkptRecord(s)>>)
                                /\ flushed' = [flushed EXCEPT ![n] = @ \ {s}]
                                /\ UNCHANGED <<ckpts, root, pc, named, newest>>
    BY <1>8 DEF Announce
  <2>2. flushed'[n] \subseteq flushed[n] /\ \A m \in Node \ {n} : flushed'[m] = flushed[m]
    BY <1>0, <2>1
  <2>3. Announces(CkptRecord(s))
    BY <1>0 DEF Share, Names, Announces, CkptRecord
  <2> DEFINE records == <<CkptRecord(s)>>
  <2>4. IsSeq(records) /\ \A i \in DOMAIN records : Announces(records[i])
    <3> HIDE DEF Announces
    <3>1. records \in Seq({CkptRecord(s)}) /\ DOMAIN records = {1} /\ records[1] = CkptRecord(s)
      OBVIOUS
    <3> QED BY <2>3, <3>1 DEF IsSeq
  <2> QED BY <1>0, <2>1, <2>2, <2>4, LandStep
<1>9. ASSUME NEW n \in Node, AdvanceRoot(n) PROVE CkptInv'
  <2>1. root < newest[n] /\ root' = newest[n] /\ UNCHANGED <<slot, past, folded, ckpts>>
    BY <1>9 DEF AdvanceRoot, chainVars
  <2>2. \A m \in Node : Alike(m) /\ SlotsKept(m)
    BY <1>0, <1>9, <2>1, SlotsUnchanged DEF AdvanceRoot, Alike
  <2>3. HistoryKept
    BY <1>0, <2>1 DEF HistoryKept
  <2>4. RootBoots'
    <3>1. root \in Nat /\ newest[n] \in Nat
      BY <1>0 DEF Types, TypeOK
    <3>2. \A s \in (IF root = 0 THEN 0 ELSE root + 1) .. Len(past) - 1 : s \in DOMAIN slot
      BY <1>0 DEF Chain, RootBoots, Present
    <3>3. root' # 0 /\ \A s \in root' + 1 .. Len(past) - 1 : s \in DOMAIN slot
      BY <1>0, <2>1, <3>1, <3>2
    <3> QED BY <2>1, <3>3 DEF RootBoots, Present
  <2>5. Chain'
    BY <1>0, <2>1, <2>4 DEF Chain, OneHistory, Dense, Stored, Share, Names, IsFoldOf, NamesCkpt
  <2>6. Share(n)'
    BY <1>0, <2>2, <2>3, AlikeShare
  <2> QED BY <1>0, <2>2, <2>3, <2>5, <2>6, NodeStep
<1>10. ASSUME NEW n \in Node, Trim(n) PROVE CkptInv'
  <2> DEFINE last == newest[n] - Interval
  <2>1. PICK gone \in SUBSET (Doomed(newest[n]) \cap DOMAIN slot) :
          slot' = [s \in DOMAIN slot \ gone |-> slot[s]]
    BY <1>10 DEF Trim
  <2>2. /\ newest[n] + 1 >= 2 * Interval /\ root >= last /\ \A m \in Node : ~Needs(m, last)
        /\ UNCHANGED <<past, folded, ckpts, root>> /\ \A m \in Node : Alike(m)
    BY <1>10 DEF Trim, Alike
  <2>3. newest[n] \in Nat /\ Interval \in Nat /\ Interval > 1 /\ root \in Nat /\ last \in Nat
    BY <1>0, <2>2, Numbers
  <2>4. \A s \in gone : s <= last
    BY <2>3 DEF Doomed
  <2>5. DOMAIN slot' = DOMAIN slot \ gone /\ \A s \in DOMAIN slot' : slot'[s] = slot[s]
    BY <2>1
  <2>6. \A m \in Node : SlotsKept(m)
    <3> SUFFICES ASSUME NEW m \in Node, pc[m] # "down", NEW s \in From(m) .. Len(past) - 1
                 PROVE  s \in DOMAIN slot'
      BY <2>2 DEF SlotsKept
    <3>1. pos[m] \in Nat /\ named[m] \in Nat
      BY <1>0
    <3>2. From(m) \in Nat /\ From(m) > last
      <4>1. ~Needs(m, last) /\ last \in Nat /\ pc[m] \in {"loading", "opening", "up"}
        BY <1>0, <2>2, <2>3
      <4> HIDE DEF last
      <4>2. CASE pc[m] = "loading"
        <5>1. From(m) = named[m] + 1 /\ ~(named[m] < last)
          BY <4>1, <4>2 DEF Needs, From
        <5> QED BY <3>1, <4>1, <5>1
      <4>3. CASE pc[m] \in {"opening", "up"}
        <5>1. From(m) = pos[m] /\ ~(pos[m] <= last)
          BY <4>1, <4>3 DEF Needs, From
        <5> QED BY <3>1, <4>1, <5>1
      <4> QED BY <4>1, <4>2, <4>3
    <3>3. s \notin gone
      BY <1>0, <2>3, <2>4, <3>2
    <3>4. s \in DOMAIN slot
      BY <1>0 DEF Share, TailKept, Present
    <3> QED BY <2>5, <3>3, <3>4
  <2>7. RootBoots'
    <3>1. root # 0 /\ root >= last
      BY <2>2, <2>3
    <3> QED BY <1>0, <2>2, <2>3, <2>4, <2>5, <3>1 DEF Chain, RootBoots, Present
  <2>8. HistoryKept
    BY <1>0, <2>2 DEF HistoryKept
  <2>9. Chain'
    BY <1>0, <2>2, <2>5, <2>7 DEF Chain, OneHistory, Dense, Stored, IsFoldOf, NamesCkpt
  <2>10. Share(n)'
    BY <1>0, <2>2, <2>6, <2>8, AlikeShare
  <2> QED BY <1>0, <2>2, <2>6, <2>8, <2>9, <2>10, NodeStep
<1>11. ASSUME NEW n \in Node, Crash(n) PROVE CkptInv'
  <2>1. /\ pc'[n] = "down" /\ named'[n] = 0 /\ pos'[n] = 0 /\ state'[n] = NewState
        /\ pending'[n] = <<>> /\ newest'[n] = 0 /\ flushed'[n] = {}
        /\ \A m \in Node \ {n} : Alike(m)
        /\ UNCHANGED <<chainVars, ckpts, root>>
    BY <1>0, <1>11 DEF Crash, Alike
  <2>2. Chain' /\ HistoryKept /\ \A m \in Node : SlotsKept(m)
    BY <2>1, ChainUnchanged
  <2>3. Share(n)'
    BY <2>1 DEF Share, Folds, Opened, TailKept, Covers, Names, Stored
  <2> QED BY <1>0, <2>1, <2>2, <2>3, NodeStep
<1>12. CASE UNCHANGED vars
  <2>1. Chain' /\ \A m \in Node : Share(m)'
    <3>1. Chain' /\ HistoryKept /\ \A m \in Node : SlotsKept(m)
      BY <1>12, ChainUnchanged DEF vars, chainVars
    <3>2. \A m \in Node : Alike(m)
      BY <1>12 DEF vars, Alike
    <3> QED BY <1>0, <3>1, <3>2, AlikeShare
  <2> QED BY <1>0, <2>1 DEF CkptInv
<1> QED BY <1>1, <1>2, <1>3, <1>4, <1>5, <1>6, <1>7, <1>8, <1>9, <1>10, <1>11, <1>12 DEF Next

-----------------------------------------------------------------------------
(* The theorems.                                                           *)

\* An empty bucket and nodes that are down satisfy the invariant.
LEMMA InitInv == Init => CkptInv
<1> SUFFICES ASSUME Init PROVE CkptInv
  OBVIOUS
<1>1. Types
  <2>1. IsSeq(<<>>)
    BY DEF IsSeq
  <2>2. IsSeq(<<NewState>>) /\ Len(<<NewState>>) = 1
    <3>1. <<NewState>> \in Seq({NewState}) /\ DOMAIN <<NewState>> = {1} /\ <<NewState>>[1] = NewState
      OBVIOUS
    <3> QED BY <3>1 DEF IsSeq
  <2> QED BY <2>1, <2>2 DEF Init, Types, TypeOK, Shape
<1>2. Len(past) = 0 /\ folded[1] = NewState /\ DOMAIN slot = {} /\ DOMAIN ckpts = {} /\ root = 0
  BY DEF Init
<1>3. NamesCkpt(NewState)
  BY DEF NamesCkpt, NewState, Stored
<1>4. Chain
  BY <1>2, <1>3 DEF Chain, OneHistory, RootBoots, Dense, Stored
<1>5. ASSUME NEW n \in Node PROVE Share(n)
  BY <1>2 DEF Init, Share, Folds, Opened, TailKept, Covers, Names, Stored
<1> QED BY <1>1, <1>4, <1>5 DEF CkptInv

\* The variables of the chain, its checkpoints and the nodes keep their types, whether
\* or not a trim waits.
THEOREM CkptTypes == Spec => []TypeOK
<1>1. Init => Types
  BY InitInv DEF CkptInv
<1>2. Types /\ [Next]_vars => Types'
  BY TypesStep
<1>3. Types => TypeOK
  BY DEF Types
<1> QED BY <1>1, <1>2, <1>3, PTL DEF Spec

\* Stored checkpoints are contiguous, open handles have their tail, and everything
\* pending follows what is stored: the bookkeeping all of the below follows from.
THEOREM CkptInvariant == ASSUME Prompt PROVE Spec => []CkptInv
<1>1. CkptInv /\ [Next]_vars => CkptInv'
  BY CkptStep
<1> QED BY InitInv, <1>1, PTL DEF Spec

\* Every open node's State is the fold of all batches below its position, however it
\* booted and whatever was trimmed.
THEOREM FoldIsHistoryAlways == ASSUME Prompt PROVE Spec => []FoldIsHistory
<1>1. CkptInv => FoldIsHistory
  BY DEF CkptInv, Share, Folds, Opened, FoldIsHistory
<1> QED BY CkptInvariant, <1>1, PTL

\* A checkpoint, stored or pending on any node, is the one its slot determines: racing
\* checkpointers cannot disagree.
THEOREM CheckpointsAgreeAlways == ASSUME Prompt PROVE Spec => []CheckpointsAgree
<1>1. CkptInv => CheckpointsAgree
  BY DEF CkptInv, Chain, Share, Folds, CheckpointsAgree
<1> QED BY CkptInvariant, <1>1, PTL

\* An interval behind a slot that completes one is another.
LEMMA TriggersBack ==
  ASSUME NEW s \in Nat, Triggers(s), s >= Interval
  PROVE  s - Interval \in Nat /\ Triggers(s - Interval)
<1> DEFINE I == Interval
           q == (s + 1) \div I
<1>1. I \in Nat /\ I > 1
  BY CheckpointAssumption DEF CheckpointAssumption
<1>2. q \in Int /\ s + 1 = I * q
  BY <1>1 DEF Triggers
<1> DEFINE k == q - 1
<1>3. (s - I) + 1 = I * k + 0 /\ k \in Int
  BY <1>1, <1>2
<1> HIDE DEF k, I
<1>4. (I * k + 0) % I = 0
  <2>1. 0 \in Int /\ 0 <= 0 /\ 0 < I /\ I > 0
    BY <1>1
  <2> QED BY <1>1, <1>3, <2>1, DivUnique
<1> QED BY <1>1, <1>3, <1>4 DEF Triggers, I

\* Whoever boots finds all it needs: the checkpoint below any stored one, every slot
\* behind the root's, and a stored checkpoint under every name that the root, Flush or
\* a record of the chain gave.
THEOREM BootableAlways == ASSUME Prompt PROVE Spec => []Bootable
<1>1. ASSUME CkptInv PROVE Bootable
  <2>1. Types /\ Chain /\ \A n \in Node : Share(n)
    BY <1>1 DEF CkptInv
  <2>2. CkptsContiguous
    <3> SUFFICES ASSUME NEW s \in DOMAIN ckpts, s >= Interval PROVE s - Interval \in DOMAIN ckpts
      BY DEF CkptsContiguous
    <3>1. s \in Nat /\ Triggers(s) /\ Interval \in Nat
      BY <2>1, Numbers
    <3>2. s - Interval \in 0 .. s /\ Triggers(s - Interval)
      BY <3>1, TriggersBack
    <3> QED BY <2>1, <3>2 DEF Chain, Dense
  <2>3. NamedIsStored
    <3>1. \A i \in DOMAIN folded : Stored(folded[i].ckptSeq)
      <4>1. DOMAIN folded = 1 .. Len(past) + 1
        BY <2>1, SeqParts DEF Types, TypeOK, Shape
      <4> QED BY <2>1, <4>1 DEF Chain, NamesCkpt
    <3>2. Stored(root) /\ \A n \in Node : Names(n)
      BY <2>1 DEF Chain, Share
    <3>4. \A n \in Node : Stored(named[n]) /\ Stored(newest[n]) /\ \A s \in flushed[n] : Stored(s)
      BY <3>2 DEF Names
    <3> DEFINE A == {named[n] : n \in Node}
               B == {newest[n] : n \in Node}
               C == UNION {flushed[n] : n \in Node}
               D == {folded[i].ckptSeq : i \in DOMAIN folded}
               U == {root} \cup A \cup B \cup C \cup D
    <3>5. ASSUME NEW x \in U PROVE Stored(x)
      <4>1. ASSUME x \in A \/ x \in B PROVE Stored(x)
        BY <3>4, <4>1
      <4>2. ASSUME x \in C PROVE Stored(x)
        BY <3>4, <4>2
      <4>3. ASSUME x \in D PROVE Stored(x)
        <5>1. PICK i \in DOMAIN folded : x = folded[i].ckptSeq
          BY <4>3
        <5>2. folded[i].ckptSeq = 0 \/ folded[i].ckptSeq \in DOMAIN ckpts
          BY <3>1 DEF Stored
        <5> QED BY <5>1, <5>2 DEF Stored
      <4> HIDE DEF A, B, C, D
      <4> QED BY <3>2, <4>1, <4>2, <4>3
    <3>6. U \ {0} \subseteq DOMAIN ckpts
      <4>1. ASSUME NEW x \in U \ {0} PROVE x \in DOMAIN ckpts
        <5>1. x # 0 /\ Stored(x)
          BY <3>5
        <5> QED BY <5>1 DEF Stored
      <4> HIDE DEF U
      <4> QED BY <4>1
    <3> QED BY <3>6 DEF NamedIsStored
  <2> QED BY <2>1, <2>2, <2>3 DEF Bootable, Chain
<1>2. CkptInv => Bootable
  BY <1>1
<1> QED BY CkptInvariant, <1>2, PTL

\* A batch only takes the slot behind the history: no handle takes the 404 of a trimmed
\* slot for the tail.
THEOREM SlotsNeverReused == ASSUME Prompt PROVE Spec => NoSlotReuse
<1>1. ASSUME CkptInv, [Next]_vars
      PROVE  [\A s \in DOMAIN slot' \ DOMAIN slot : s = Len(past)]_vars
  <2> SUFFICES ASSUME NEW s \in DOMAIN slot' \ DOMAIN slot PROVE s = Len(past)
    OBVIOUS
  <2>1. ASSUME NEW n \in Node, NEW records, Land(n, records) PROVE s = Len(past)
    <3>1. ~Present(pos[n]) /\ pc[n] = "up" /\ DOMAIN slot' = DOMAIN slot \cup {pos[n]}
      BY <1>1, <2>1, Lands DEF CkptInv
    <3>2. pos[n] <= Len(past) /\ \A t \in pos[n] .. Len(past) - 1 : Present(t)
      BY <1>1, <3>1 DEF CkptInv, Share, Folds, Opened, TailKept, From
    <3>3. pos[n] \in Nat /\ Len(past) \in Nat
      BY <1>1, Numbers DEF CkptInv
    <3> QED BY <3>1, <3>2, <3>3
  <2>2. CASE UNCHANGED slot
    BY <2>2
  <2>3. ASSUME NEW n \in Node, Trim(n) PROVE FALSE
    BY <2>3 DEF Trim
  <2>4. ASSUME NEW n \in Node, AppendPayload(n) \/ Announce(n) PROVE s = Len(past)
    BY <2>1, <2>4 DEF AppendPayload, Announce
  <2>5. ASSUME NEW n \in Node,
               \/ Boot(n) \/ LoadCkpt(n) \/ FoldNext(n) \/ OpenTail(n)
               \/ Flush(n) \/ FlushInDoubt(n) \/ AdvanceRoot(n) \/ Crash(n)
        PROVE  UNCHANGED slot
    BY <2>5 DEF Boot, LoadCkpt, FoldNext, OpenTail, Flush, FlushInDoubt, AdvanceRoot, Crash, chainVars
  <2>6. CASE UNCHANGED vars
    BY <2>6 DEF vars
  <2> QED BY <1>1, <2>2, <2>3, <2>4, <2>5, <2>6 DEF Next
<1>2. CkptInv /\ [Next]_vars => [\A s \in DOMAIN slot' \ DOMAIN slot : s = Len(past)]_vars
  BY <1>1
<1> QED BY CkptInvariant, <1>2, PTL DEF Spec, NoSlotReuse
=============================================================================
