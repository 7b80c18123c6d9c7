--------------------------- MODULE ServeNodeProofs ---------------------------
(***************************************************************************)
(* Proofs about ServeNode, for any connections, shards, cap and calls: the *)
(* counters count what they stand for, a generation is unmapped once and   *)
(* never under a reader, the books of a connection add up, and nobody is   *)
(* left waiting.                                                           *)
(***************************************************************************)
EXTENDS ServeNode, Lemmas, FiniteSetTheorems

-----------------------------------------------------------------------------
(* The inductive invariant.                                                *)

Tasks == [pc : Phases, at : Nat \ {0}, gen : Gens \cup {NoGen}, over : BOOLEAN]
Frames == [kind : {"query", "ping", "cancel"}, reqid : Nat]
Answers == [kind : {"qresult", "ping", "busy"}, reqid : Nat]

\* The goroutine of request x, pinning or closing a generation that exists.
TaskTypes ==
  /\ task = [c \in Conn |-> task[c]]
  /\ \A c \in Conn : task[c] \in [1 .. Calls[c] -> Tasks]
  /\ \A c \in Conn : \A r \in 1 .. Calls[c] :
       task[c][r].pc \in {"pinned", "closing"} => task[c][r].gen \in Gens

\* A connection carries the requests its client has made, and no other.
FrameTypes ==
  /\ frames \in [Conn -> Seq(Frames)]
  /\ \A c \in Conn : \A i \in DOMAIN frames[c] : frames[c][i].reqid \in 1 .. reqid[c]

AnswerTypes ==
  /\ sent \in [Conn -> Seq(Answers)]
  /\ \A c \in Conn : \A i \in DOMAIN sent[c] : sent[c][i].reqid \in 1 .. reqid[c]

CallTypes ==
  /\ reqid \in [Conn -> Nat] /\ got \in [Conn -> Nat] /\ refusing \in [Conn -> Nat]
  /\ \A c \in Conn : reqid[c] <= Calls[c] /\ refusing[c] <= reqid[c]
  /\ FrameTypes /\ AnswerTypes

Types ==
  /\ cur \in [1 .. Shards -> 0 .. MaxGen]
  /\ refs \in [Gens -> Int] /\ closed \in [Gens -> Nat]
  /\ retired \subseteq Gens /\ draining \subseteq Gens
  /\ down \in BOOLEAN /\ doomed \subseteq Conn /\ waiting \subseteq Conn
  /\ conn \in [Conn -> {"new", "open", "closed"}]
  /\ inflight \in Int /\ workers \in Int
  /\ live \in [Conn -> SUBSET Nat] /\ cancelled \in [Conn -> SUBSET Nat]
  /\ marked \in [Conn -> SUBSET Nat]
  /\ TaskTypes /\ CallTypes

Refused == {c \in Conn : refusing[c] # 0}
Pins(g) == {x \in Running : At(x[1], x[2], "pinned") /\ task[x[1]][x[2]].gen = g}
Busy == {x \in Running : ~ (At(x[1], x[2], "start") \/ At(x[1], x[2], "release"))}

\* The counters count finite sets, and what was admitted fits under the cap.
Counts ==
  /\ IsFiniteSet(Running) /\ IsFiniteSet(Refused)
  /\ Cardinality(Running) <= Cap
  /\ \A g \in Gens : refs[g] = Cardinality(Pins(g))
  /\ inflight = Cardinality(Running) + Cardinality(Refused)
  /\ workers = Cap - Cardinality(Busy)

Closer(c, r, g) == task[c][r].pc = "closing" /\ task[c][r].gen = g
Closes(g) == \E c \in Conn : \E r \in 1 .. Calls[c] : Closer(c, r, g)

\* The life of generation g: it ends once, after it was retired and its last reader left,
\* in the hands of the loader, then of nobody, or of one query, then of nobody.
Ends(g) == closed[g] = 1 \/ g \in draining \/ Closes(g)

OneEnd(g) ==
  /\ closed[g] \in {0, 1}
  /\ closed[g] = 1 => g \notin draining /\ ~Closes(g)
  /\ g \in draining => ~Closes(g)
  /\ \A c, d \in Conn : \A r \in 1 .. Calls[c], q \in 1 .. Calls[d] :
       Closer(c, r, g) /\ Closer(d, q, g) => c = d /\ r = q

Lives(g) ==
  /\ (g \in retired <=> g[2] < cur[g[1]])
  /\ (Ends(g) <=> (g \in retired /\ refs[g] = 0))
  /\ OneEnd(g)

Registry == \A g \in Gens : Lives(g)

Alive == {"start", "shard", "pinned", "closing"}

Asked(c, r) == \E i \in DOMAIN frames[c] : frames[c][i].reqid = r /\ frames[c][i].kind # "cancel"
Answered(c, r) == \E i \in DOMAIN sent[c] : sent[c][i].reqid = r
Unread(c, r) == \E i \in got[c] + 1 .. Len(sent[c]) : sent[c][i].reqid = r

\* No request is asked twice, and none is answered twice.
AskedOnce(c) ==
  \A i, j \in DOMAIN frames[c] :
    (/\ frames[c][i].kind # "cancel" /\ frames[c][j].kind # "cancel"
     /\ frames[c][i].reqid = frames[c][j].reqid) => i = j

AnsweredOnce(c) == \A i, j \in DOMAIN sent[c] : sent[c][i].reqid = sent[c][j].reqid => i = j

\* A request is in one place: a frame, over the cap, in a goroutine, or answered.
OnePlace(c, r) ==
  /\ r > reqid[c] => task[c][r].pc = "none"
  /\ Asked(c, r) => task[c][r].pc = "none" /\ ~Answered(c, r) /\ refusing[c] # r
  /\ refusing[c] = r => task[c][r].pc = "none" /\ ~Answered(c, r)
  /\ Answered(c, r) => task[c][r].pc \in {"none", "return", "release", "done"}
  /\ r \in marked[c] => task[c][r].pc \notin {"none", "write"} /\ ~Answered(c, r)

\* The books of connection c: who is alive, who was cancelled, and every request once.
Books(c) ==
  /\ live[c] = {r \in 1 .. Calls[c] : task[c][r].pc \in Alive}
  /\ cancelled[c] = marked[c] \cap live[c]
  /\ \A r \in 1 .. Calls[c] : OnePlace(c, r)
  /\ AskedOnce(c) /\ AnsweredOnce(c)

\* A client waits on a connection that was opened, and reads what was sent.
Waits(c) == /\ got[c] <= Len(sent[c])
            /\ c \in waiting => conn[c] # "new" /\ reqid[c] # 0

ServeInv == /\ Types /\ Counts /\ Registry /\ NobodyForgotten
            /\ \A c \in Conn : Books(c) /\ Waits(c)

-----------------------------------------------------------------------------
(* One goroutine moves.                                                    *)

\* Request r of connection c goes on to v, and no other request moves.
Became(c, r, v) ==
  \A d \in Conn : \A q \in 1 .. Calls[d] :
    task'[d][q] = IF d = c /\ q = r THEN v ELSE task[d][q]

Holding(v) == v.pc \notin {"none", "done"}
Working(v) == v.pc \notin {"none", "done", "start", "release"}
Pinning(v, g) == v.pc = "pinned" /\ v.gen = g

\* A request is a connection and a number its client may use.
LEMMA Requests ==
  /\ \A x \in Request : x[1] \in Conn /\ x[2] \in 1 .. Calls[x[1]] /\ x = <<x[1], x[2]>>
  /\ \A c \in Conn : \A r \in 1 .. Calls[c] : <<c, r>> \in Request
BY DEF Request

\* An update of one task leaves the others alone, and the tasks well typed.
LEMMA TaskSet ==
  ASSUME TaskTypes, NEW c \in Conn, NEW r \in 1 .. Calls[c], NEW v \in Tasks,
         v.pc \in {"pinned", "closing"} => v.gen \in Gens,
         task' = [task EXCEPT ![c] = [task[c] EXCEPT ![r] = v]]
  PROVE  TaskTypes' /\ Became(c, r, v)
<1>1. /\ task = [d \in Conn |-> task[d]] /\ task[c] \in [1 .. Calls[c] -> Tasks]
      /\ \A d \in Conn : task[d] \in [1 .. Calls[d] -> Tasks]
  BY DEF TaskTypes
<1>2. /\ DOMAIN task = Conn /\ task' = [d \in Conn |-> task'[d]]
      /\ task'[c] = [task[c] EXCEPT ![r] = v]
      /\ \A d \in Conn : d # c => task'[d] = task[d]
  <2>1. DOMAIN task = Conn
    BY <1>1
  <2> QED BY <2>1
<1>3. task'[c] \in [1 .. Calls[c] -> Tasks] /\ task'[c][r] = v
      /\ \A q \in 1 .. Calls[c] : q # r => task'[c][q] = task[c][q]
  BY <1>1, <1>2
<1>4. Became(c, r, v)
  BY <1>2, <1>3 DEF Became
<1>5. ASSUME NEW d \in Conn, NEW q \in 1 .. Calls[d], task'[d][q].pc \in {"pinned", "closing"}
      PROVE  task'[d][q].gen \in Gens
  <2>1. CASE d = c /\ q = r
    BY <1>3, <1>5, <2>1
  <2>2. CASE ~(d = c /\ q = r)
    BY <1>4, <1>5, <2>2 DEF Became, TaskTypes
  <2> QED BY <2>1, <2>2
<1>6. \A d \in Conn : task'[d] \in [1 .. Calls[d] -> Tasks]
  BY <1>1, <1>2, <1>3
<1> QED BY <1>2, <1>4, <1>5, <1>6 DEF TaskTypes

\* Goto changes the place of the goroutine only.
LEMMA Goes ==
  ASSUME TaskTypes, NEW c \in Conn, NEW r \in 1 .. Calls[c], NEW pc \in Phases,
         pc \in {"pinned", "closing"} => task[c][r].gen \in Gens, Goto(c, r, pc)
  PROVE  /\ TaskTypes'
         /\ Became(c, r, [pc |-> pc, at |-> task[c][r].at, gen |-> task[c][r].gen,
                          over |-> task[c][r].over])
<1> DEFINE v == [pc |-> pc, at |-> task[c][r].at, gen |-> task[c][r].gen,
                 over |-> task[c][r].over]
<1>1. task[c][r] \in Tasks
  BY DEF TaskTypes
<1>2. v \in Tasks /\ [task[c][r] EXCEPT !.pc = pc] = v
  BY <1>1 DEF Tasks
<1>3. task' = [task EXCEPT ![c] = [task[c] EXCEPT ![r] = v]]
  BY <1>2 DEF Goto
<1> HIDE DEF v
<1>4. v.pc = pc /\ v.gen = task[c][r].gen
  BY DEF v
<1>5. TaskTypes' /\ Became(c, r, v)
  BY <1>2, <1>3, <1>4, TaskSet
<1> QED BY <1>5 DEF v

\* ToShard drops what the goroutine pinned.
LEMMA GoesToShard ==
  ASSUME TaskTypes, NEW c \in Conn, NEW r \in 1 .. Calls[c], NEW s \in Nat \ {0},
         ToShard(c, r, s)
  PROVE  TaskTypes' /\ Became(c, r, [pc |-> "shard", at |-> s, gen |-> NoGen,
                                      over |-> task[c][r].over])
<1> DEFINE v == [pc |-> "shard", at |-> s, gen |-> NoGen, over |-> task[c][r].over]
<1>0. task[c][r] \in Tasks
  BY DEF TaskTypes
<1>1. v \in Tasks /\ v.pc = "shard"
  BY <1>0 DEF Tasks, Phases
<1>2. task' = [task EXCEPT ![c] = [task[c] EXCEPT ![r] = v]]
  BY DEF ToShard
<1> HIDE DEF v
<1>3. TaskTypes' /\ Became(c, r, v)
  BY <1>1, <1>2, TaskSet
<1> QED BY <1>3 DEF v

\* The sets that the counters count lose or gain the request that moved.
LEMMA SetsMove ==
  ASSUME NEW c \in Conn, NEW r \in 1 .. Calls[c], NEW v, Became(c, r, v)
  PROVE  /\ Running' = IF Holding(v) THEN Running \cup {<<c, r>>} ELSE Running \ {<<c, r>>}
         /\ Busy' = IF Working(v) THEN Busy \cup {<<c, r>>} ELSE Busy \ {<<c, r>>}
         /\ \A g \in Gens : Pins(g)' = IF Pinning(v, g) THEN Pins(g) \cup {<<c, r>>}
                                                       ELSE Pins(g) \ {<<c, r>>}
<1> DEFINE x == <<c, r>>
           T(y) == task[y[1]][y[2]]
           TP(y) == task'[y[1]][y[2]]
<1>1. x \in Request /\ TP(x) = v
  BY Requests DEF Became
<1>2. \A y \in Request : y # x => TP(y) = T(y)
  <2> SUFFICES ASSUME NEW y \in Request, y # x PROVE TP(y) = T(y)
    OBVIOUS
  <2>1. y[1] \in Conn /\ y[2] \in 1 .. Calls[y[1]] /\ ~(y[1] = c /\ y[2] = r)
    BY Requests
  <2> QED BY <2>1 DEF Became
<1>3. /\ Running = {y \in Request : Holding(T(y))} /\ Running' = {y \in Request : Holding(TP(y))}
      /\ Busy = {y \in Request : Working(T(y))} /\ Busy' = {y \in Request : Working(TP(y))}
  BY DEF Running, Busy, Holding, Working, At
<1>4. \A g \in Gens : /\ Pins(g) = {y \in Request : Pinning(T(y), g)}
                      /\ Pins(g)' = {y \in Request : Pinning(TP(y), g)}
  BY DEF Running, Pins, Pinning, At
<1> HIDE DEF T, TP, x
<1>5. Running' = IF Holding(v) THEN Running \cup {x} ELSE Running \ {x}
  BY <1>1, <1>2, <1>3
<1>6. Busy' = IF Working(v) THEN Busy \cup {x} ELSE Busy \ {x}
  BY <1>1, <1>2, <1>3
<1>7. ASSUME NEW g \in Gens
      PROVE  Pins(g)' = IF Pinning(v, g) THEN Pins(g) \cup {x} ELSE Pins(g) \ {x}
  BY <1>1, <1>2, <1>4
<1> QED BY <1>5, <1>6, <1>7 DEF x

One(b) == IF b THEN 1 ELSE 0

\* The counts move by one with it.
LEMMA CountsMove ==
  ASSUME Counts, NEW c \in Conn, NEW r \in 1 .. Calls[c], NEW v, Became(c, r, v)
  PROVE  LET u == task[c][r] IN
         /\ IsFiniteSet(Running')
         /\ Cardinality(Running') = Cardinality(Running) + One(Holding(v)) - One(Holding(u))
         /\ Cardinality(Busy') = Cardinality(Busy) + One(Working(v)) - One(Working(u))
         /\ \A g \in Gens :
              Cardinality(Pins(g)') = Cardinality(Pins(g)) + One(Pinning(v, g)) - One(Pinning(u, g))
<1> DEFINE x == <<c, r>>
           u == task[c][r]
<1>1. ASSUME NEW S, IsFiniteSet(S), NEW S1, NEW b \in BOOLEAN, NEW a \in BOOLEAN,
             S1 = (IF b THEN S \cup {x} ELSE S \ {x}), x \in S <=> a
      PROVE  IsFiniteSet(S1) /\ Cardinality(S1) = Cardinality(S) + One(b) - One(a)
  <2> HIDE DEF x
  <2>1. CASE b
    BY <1>1, <2>1, FS_AddElement, FS_CardinalityType DEF One
  <2>2. CASE ~b
    BY <1>1, <2>2, FS_RemoveElement, FS_CardinalityType DEF One
  <2> QED BY <2>1, <2>2
<1>2. x \in Request /\ x[1] = c /\ x[2] = r
  BY Requests
<1>3. IsFiniteSet(Running) /\ IsFiniteSet(Busy) /\ \A g \in Gens : IsFiniteSet(Pins(g))
  BY FS_Subset DEF Counts, Busy, Pins
<1>4. x \in Running <=> Holding(u)
  BY <1>2 DEF Running, Holding
<1>5. x \in Busy <=> Working(u)
  BY <1>2 DEF Running, Busy, Working, At
<1>6. \A g \in Gens : x \in Pins(g) <=> Pinning(u, g)
  BY <1>2 DEF Running, Pins, Pinning, At
<1>7. /\ Running' = IF Holding(v) THEN Running \cup {x} ELSE Running \ {x}
      /\ Busy' = IF Working(v) THEN Busy \cup {x} ELSE Busy \ {x}
      /\ \A g \in Gens : Pins(g)' = IF Pinning(v, g) THEN Pins(g) \cup {x} ELSE Pins(g) \ {x}
  BY SetsMove
<1>8. \A w, g : /\ Holding(w) \in BOOLEAN /\ Working(w) \in BOOLEAN /\ Pinning(w, g) \in BOOLEAN
  BY DEF Holding, Working, Pinning
<1> HIDE DEF x, u
<1>9. IsFiniteSet(Running') /\ Cardinality(Running') = Cardinality(Running) + One(Holding(v)) - One(Holding(u))
  BY <1>1, <1>3, <1>4, <1>7, <1>8
<1>10. Cardinality(Busy') = Cardinality(Busy) + One(Working(v)) - One(Working(u))
  BY <1>1, <1>3, <1>5, <1>7, <1>8
<1>11. ASSUME NEW g \in Gens
       PROVE  Cardinality(Pins(g)') = Cardinality(Pins(g)) + One(Pinning(v, g)) - One(Pinning(u, g))
  BY <1>1, <1>3, <1>6, <1>7, <1>8
<1> QED BY <1>9, <1>10, <1>11 DEF u

\* A counter is a natural number, and counts at least whoever it counts.
LEMMA CountsAre ==
  ASSUME Counts
  PROVE  /\ Cardinality(Running) \in Nat /\ Cardinality(Busy) \in Nat
         /\ Cardinality(Refused) \in Nat /\ Cardinality(Busy) <= Cardinality(Running)
         /\ \A g \in Gens : Cardinality(Pins(g)) \in Nat
         /\ \A g \in Gens : \A c \in Conn : \A r \in 1 .. Calls[c] :
              Pinning(task[c][r], g) => Cardinality(Pins(g)) > 0
<1>1. IsFiniteSet(Running) /\ IsFiniteSet(Busy) /\ \A g \in Gens : IsFiniteSet(Pins(g))
  BY FS_Subset DEF Counts, Busy, Pins
<1>2. Cardinality(Busy) <= Cardinality(Running)
  <2>1. Busy \in SUBSET Running
    BY DEF Busy
  <2> QED BY <1>1, <2>1, FS_Subset
<1>3. \A g \in Gens : Cardinality(Pins(g)) \in Nat
  BY <1>1, FS_CardinalityType
<1>4. ASSUME NEW g \in Gens, NEW c \in Conn, NEW r \in 1 .. Calls[c], Pinning(task[c][r], g)
      PROVE  Cardinality(Pins(g)) > 0
  <2>1. <<c, r>> \in Pins(g)
    BY <1>4, Requests DEF Pins, Pinning, Running, At
  <2>2. Cardinality(Pins(g)) # 0
    BY <1>1, <2>1, FS_EmptySet
  <2> QED BY <1>3, <2>2
<1> QED BY <1>1, <1>2, <1>3, <1>4, FS_CardinalityType DEF Counts

\* Whoever was admitted finds a worker: those without one are under the cap as well.
LEMMA WorkerLeft ==
  ASSUME Counts, NEW x \in Running, At(x[1], x[2], "start")
  PROVE  workers > 0
<1>1. Busy \in SUBSET (Running \ {x})
  BY DEF Busy
<1>2. IsFiniteSet(Running \ {x}) /\ Cardinality(Running \ {x}) = Cardinality(Running) - 1
  BY FS_RemoveElement DEF Counts
<1>3. Cardinality(Busy) <= Cardinality(Running) - 1
  BY <1>1, <1>2, FS_Subset
<1> QED BY <1>3, CountsAre, ServeAssumption DEF Counts

-----------------------------------------------------------------------------
(* The frames and the answers of a connection.                             *)

\* The reader takes the first frame: the request in it is asked no more.
LEMMA FrameRead ==
  ASSUME FrameTypes, reqid' = reqid, NEW c \in Conn, NEW kind, Reads(c, kind), Consumed(c), AskedOnce(c)
  PROVE  LET r == Head(frames[c]).reqid IN
         /\ r \in 1 .. reqid[c] /\ FrameTypes'
         /\ kind # "cancel" => Asked(c, r)
         /\ \A d \in Conn : AskedOnce(d) => AskedOnce(d)'
         /\ \A d \in Conn : \A q :
              Asked(d, q)' <=> (Asked(d, q) /\ ~(d = c /\ kind # "cancel" /\ q = r))
<1> DEFINE f == frames[c]
           t == Tail(f)
           r == Head(f).reqid
<1>1. f \in Seq(Frames) /\ f # <<>> /\ Head(f).kind = kind
  BY DEF FrameTypes, Reads
<1>2. /\ t \in Seq(Frames) /\ Len(f) \in Nat /\ Len(f) >= 1 /\ Head(f) = f[1]
      /\ DOMAIN f = 1 .. Len(f) /\ DOMAIN t = 1 .. Len(f) - 1
      /\ \A i \in 1 .. Len(f) - 1 : t[i] = f[i + 1]
  BY <1>1
<1>3. frames' = [frames EXCEPT ![c] = t]
  BY DEF Consumed
<1>4. frames' \in [Conn -> Seq(Frames)] /\ frames'[c] = t /\ \A d \in Conn : d # c => frames'[d] = frames[d]
  BY <1>2, <1>3 DEF FrameTypes
<1>5. r \in 1 .. reqid[c]
  BY <1>2 DEF FrameTypes
<1>6. FrameTypes'
  <2>1. ASSUME NEW d \in Conn, NEW i \in DOMAIN frames'[d] PROVE frames'[d][i].reqid \in 1 .. reqid[d]
    <3>1. CASE d = c
      <4>1. i \in 1 .. Len(f) - 1 /\ i + 1 \in DOMAIN f /\ frames'[d][i] = f[i + 1]
        BY <1>2, <1>4, <2>1, <3>1
      <4> QED BY <3>1, <4>1 DEF FrameTypes
    <3>2. CASE d # c
      BY <1>4, <2>1, <3>2 DEF FrameTypes
    <3> QED BY <3>1, <3>2
  <2> QED BY <1>4, <2>1 DEF FrameTypes
<1>7. ASSUME kind # "cancel" PROVE Asked(c, r)
  BY <1>1, <1>2, <1>7 DEF Asked
<1> HIDE DEF r
<1>8. ASSUME NEW d \in Conn, AskedOnce(d) PROVE AskedOnce(d)'
  <2>1. CASE d = c
    <3> HIDE DEF t
    <3> SUFFICES ASSUME NEW i \in DOMAIN t, NEW j \in DOMAIN t, t[i].kind # "cancel",
                        t[j].kind # "cancel", t[i].reqid = t[j].reqid
                 PROVE  i = j
      BY <1>4, <2>1 DEF AskedOnce
    <3>1. /\ i + 1 \in DOMAIN f /\ j + 1 \in DOMAIN f /\ t[i] = f[i + 1] /\ t[j] = f[j + 1]
          /\ i \in Nat /\ j \in Nat
      BY <1>2
    <3>2. i + 1 = j + 1
      BY <1>8, <2>1, <3>1 DEF AskedOnce
    <3> QED BY <3>1, <3>2
  <2>2. CASE d # c
    BY <1>4, <1>8, <2>2 DEF AskedOnce
  <2> QED BY <2>1, <2>2
<1>9. ASSUME NEW d \in Conn, NEW q
      PROVE  Asked(d, q)' <=> (Asked(d, q) /\ ~(d = c /\ kind # "cancel" /\ q = r))
  <2>1. CASE d # c
    BY <1>4, <2>1 DEF Asked
  <2>2. ASSUME d = c, Asked(c, q)' PROVE Asked(c, q) /\ ~(kind # "cancel" /\ q = r)
    <3>1. PICK i \in DOMAIN t : t[i].reqid = q /\ t[i].kind # "cancel"
      BY <1>4, <2>2 DEF Asked
    <3>2. i + 1 \in DOMAIN f /\ t[i] = f[i + 1] /\ 1 \in DOMAIN f /\ i + 1 # 1
      BY <1>2
    <3> HIDE DEF t, f
    <3>3. Asked(c, q)
      BY <3>1, <3>2 DEF Asked, f
    <3>4. ASSUME kind # "cancel", q = r PROVE FALSE
      <4>1. f[1].kind # "cancel" /\ f[1].reqid = f[i + 1].reqid /\ f[i + 1].kind # "cancel"
        BY <1>1, <1>2, <3>1, <3>2, <3>4 DEF r
      <4> QED BY <3>2, <4>1 DEF AskedOnce, f
    <3> QED BY <3>3, <3>4
  <2>3. ASSUME d = c, Asked(c, q), ~(kind # "cancel" /\ q = r) PROVE Asked(c, q)'
    <3>1. PICK i \in DOMAIN f : f[i].reqid = q /\ f[i].kind # "cancel"
      BY <2>3 DEF Asked
    <3>2. i # 1
      BY <1>1, <1>2, <2>3, <3>1 DEF r
    <3>3. i - 1 \in DOMAIN t /\ t[i - 1] = f[i]
      BY <1>2, <3>2
    <3> HIDE DEF t, f
    <3> QED BY <1>4, <3>1, <3>3 DEF Asked
  <2> QED BY <2>1, <2>2, <2>3
<1> QED BY <1>5, <1>6, <1>7, <1>8, <1>9 DEF r

\* A client sends one frame more.
LEMMA FrameSent ==
  ASSUME FrameTypes, CallTypes, NEW c \in Conn, NEW f \in Frames, reqid' \in [Conn -> Nat],
         f.reqid \in 1 .. reqid'[c], \A d \in Conn : reqid'[d] >= reqid[d],
         frames' = [frames EXCEPT ![c] = Append(@, f)]
  PROVE  /\ FrameTypes'
         /\ \A d \in Conn : AskedOnce(d) /\ (d = c => f.kind = "cancel" \/ ~Asked(c, f.reqid))
                              => AskedOnce(d)'
         /\ \A d \in Conn : \A q :
              Asked(d, q)' <=> (Asked(d, q) \/ (d = c /\ f.kind # "cancel" /\ q = f.reqid))
<1> DEFINE a == frames[c]
           b == Append(a, f)
           n == Len(a)
<1>1. /\ a \in Seq(Frames) /\ b \in Seq(Frames) /\ n \in Nat
      /\ DOMAIN a = 1 .. n /\ DOMAIN b = 1 .. n + 1 /\ b[n + 1] = f
      /\ \A i \in 1 .. n : b[i] = a[i]
  BY DEF FrameTypes
<1>2. frames' \in [Conn -> Seq(Frames)] /\ frames'[c] = b /\ \A d \in Conn : d # c => frames'[d] = frames[d]
  BY <1>1 DEF FrameTypes
<1> HIDE DEF b, n
<1>3. FrameTypes'
  <2>1. ASSUME NEW d \in Conn, NEW i \in DOMAIN frames'[d] PROVE frames'[d][i].reqid \in 1 .. reqid'[d]
    <3>1. CASE d = c /\ i = n + 1
      BY <1>1, <1>2, <3>1
    <3>2. CASE ~(d = c /\ i = n + 1)
      <4>1. i \in DOMAIN frames[d] /\ frames'[d][i] = frames[d][i]
        BY <1>1, <1>2, <2>1, <3>2
      <4>2. frames[d][i].reqid \in 1 .. reqid[d]
        BY <4>1 DEF FrameTypes
      <4>3. reqid'[d] >= reqid[d] /\ reqid[d] \in Nat /\ reqid'[d] \in Nat
        BY DEF CallTypes
      <4> QED BY <4>1, <4>2, <4>3
    <3> QED BY <3>1, <3>2
  <2> QED BY <1>2, <2>1 DEF FrameTypes
<1>4. ASSUME NEW d \in Conn, AskedOnce(d), d = c => f.kind = "cancel" \/ ~Asked(c, f.reqid)
      PROVE  AskedOnce(d)'
  <2>1. CASE d = c
    <3> SUFFICES ASSUME NEW i \in DOMAIN b, NEW j \in DOMAIN b, b[i].kind # "cancel",
                        b[j].kind # "cancel", b[i].reqid = b[j].reqid
                 PROVE  i = j
      BY <1>2, <2>1 DEF AskedOnce
    <3>1. ASSUME NEW k \in DOMAIN b, k # n + 1 PROVE k \in DOMAIN a /\ b[k] = a[k]
      BY <1>1, <3>1
    <3>2. CASE i # n + 1 /\ j # n + 1
      BY <1>4, <2>1, <3>1, <3>2 DEF AskedOnce
    <3>3. ASSUME i = n + 1 \/ j = n + 1, i # j PROVE FALSE
      <4>1. f.kind # "cancel" /\ ~Asked(c, f.reqid)
        BY <1>1, <1>4, <2>1, <3>3
      <4>2. CASE i = n + 1
        <5>1. j \in DOMAIN a /\ a[j].reqid = f.reqid /\ a[j].kind # "cancel"
          BY <1>1, <3>1, <3>3, <4>2
        <5> QED BY <4>1, <5>1 DEF Asked
      <4>3. CASE j = n + 1
        <5>1. i \in DOMAIN a /\ a[i].reqid = f.reqid /\ a[i].kind # "cancel"
          BY <1>1, <3>1, <3>3, <4>3
        <5> QED BY <4>1, <5>1 DEF Asked
      <4> QED BY <3>3, <4>2, <4>3
    <3> QED BY <3>2, <3>3
  <2>2. CASE d # c
    BY <1>2, <1>4, <2>2 DEF AskedOnce
  <2> QED BY <2>1, <2>2
<1>5. ASSUME NEW d \in Conn, NEW q
      PROVE  Asked(d, q)' <=> (Asked(d, q) \/ (d = c /\ f.kind # "cancel" /\ q = f.reqid))
  <2>1. CASE d # c
    BY <1>2, <2>1 DEF Asked
  <2>2. ASSUME d = c, Asked(c, q)' PROVE Asked(c, q) \/ (f.kind # "cancel" /\ q = f.reqid)
    <3>1. PICK i \in DOMAIN b : b[i].reqid = q /\ b[i].kind # "cancel"
      BY <1>2, <2>2 DEF Asked
    <3>2. i = n + 1 \/ (i \in DOMAIN a /\ b[i] = a[i])
      BY <1>1
    <3> QED BY <1>1, <3>1, <3>2 DEF Asked
  <2>3. ASSUME d = c, Asked(c, q) PROVE Asked(c, q)'
    <3>1. PICK i \in DOMAIN a : a[i].reqid = q /\ a[i].kind # "cancel"
      BY <2>3 DEF Asked
    <3>2. i \in DOMAIN b /\ b[i] = a[i]
      BY <1>1
    <3> QED BY <1>2, <3>1, <3>2 DEF Asked
  <2>4. ASSUME d = c, f.kind # "cancel", q = f.reqid PROVE Asked(c, q)'
    <3>1. n + 1 \in DOMAIN b
      BY <1>1
    <3> QED BY <1>1, <1>2, <2>4, <3>1 DEF Asked
  <2> QED BY <2>1, <2>2, <2>3, <2>4
<1> QED BY <1>3, <1>4, <1>5

\* No answer is lost behind one to q, which the client of an open connection will read.
AnswerGoes(c, q) ==
  /\ \A d \in Conn : Len(sent'[d]) >= Len(sent[d]) /\ \A p : Unread(d, p) => Unread(d, p)'
  /\ conn[c] = "open" /\ got[c] <= Len(sent[c]) => Unread(c, q)'

\* An answer goes out on an open connection only.
LEMMA AnswerSent ==
  ASSUME AnswerTypes, CallTypes, UNCHANGED <<reqid, got>>, NEW c \in Conn, NEW f \in Answers,
         f.reqid \in 1 .. reqid[c], ~Answered(c, f.reqid), Write(c, f)
  PROVE  /\ AnswerTypes'
         /\ \A d \in Conn : AnsweredOnce(d) => AnsweredOnce(d)'
         /\ \A d \in Conn : \A q :
              Answered(d, q)' <=> (Answered(d, q) \/ (d = c /\ conn[c] = "open" /\ q = f.reqid))
         /\ AnswerGoes(c, f.reqid)
<1>1. CASE conn[c] # "open"
  <2>1. sent' = sent
    BY <1>1 DEF Write
  <2>2. \A d \in Conn : Len(sent[d]) \in Nat
    BY DEF AnswerTypes
  <2> QED BY <1>1, <2>1, <2>2 DEF AnswerTypes, AnsweredOnce, Answered, Unread, AnswerGoes
<1>2. CASE conn[c] = "open"
  <2> DEFINE a == sent[c]
             b == Append(a, f)
             n == Len(a)
  <2>1. /\ a \in Seq(Answers) /\ b \in Seq(Answers) /\ n \in Nat /\ Len(b) = n + 1
        /\ DOMAIN a = 1 .. n /\ DOMAIN b = 1 .. n + 1 /\ b[n + 1] = f
        /\ \A i \in 1 .. n : b[i] = a[i]
    BY DEF AnswerTypes
  <2>2. sent' = [sent EXCEPT ![c] = b]
    BY <1>2 DEF Write
  <2>3. sent' \in [Conn -> Seq(Answers)] /\ sent'[c] = b /\ \A d \in Conn : d # c => sent'[d] = sent[d]
    BY <2>1, <2>2 DEF AnswerTypes
  <2> HIDE DEF b, n
  <2>4. AnswerTypes'
    <3>1. ASSUME NEW d \in Conn, NEW i \in DOMAIN sent'[d] PROVE sent'[d][i].reqid \in 1 .. reqid[d]
      <4>1. CASE d = c /\ i = n + 1
        BY <2>1, <2>3, <4>1
      <4>2. CASE ~(d = c /\ i = n + 1)
        <5>1. d = c => i \in 1 .. n
          BY <2>1, <2>3, <4>2
        <5>2. i \in DOMAIN sent[d] /\ sent'[d][i] = sent[d][i]
          BY <2>1, <2>3, <5>1
        <5> QED BY <5>2 DEF AnswerTypes
      <4> QED BY <4>1, <4>2
    <3> QED BY <2>3, <3>1 DEF AnswerTypes
  <2>5. ASSUME NEW d \in Conn, AnsweredOnce(d) PROVE AnsweredOnce(d)'
    <3>1. CASE d = c
      <4> SUFFICES ASSUME NEW i \in DOMAIN b, NEW j \in DOMAIN b, b[i].reqid = b[j].reqid, i # j
                   PROVE  FALSE
        BY <2>3, <3>1 DEF AnsweredOnce
      <4>1. \A k \in DOMAIN b : k # n + 1 => k \in DOMAIN a /\ b[k] = a[k] /\ b[k].reqid # f.reqid
        BY <2>1 DEF Answered
      <4>2. i # n + 1 /\ j # n + 1
        BY <2>1, <4>1
      <4> QED BY <2>5, <3>1, <4>1, <4>2 DEF AnsweredOnce
    <3>2. CASE d # c
      BY <2>3, <2>5, <3>2 DEF AnsweredOnce
    <3> QED BY <3>1, <3>2
  <2>6. ASSUME NEW d \in Conn, NEW q
        PROVE  Answered(d, q)' <=> (Answered(d, q) \/ (d = c /\ q = f.reqid))
    <3>1. CASE d # c
      BY <2>3, <3>1 DEF Answered
    <3>2. CASE d = c
      <4>1. Answered(c, q)' <=> \E i \in DOMAIN b : b[i].reqid = q
        BY <2>3 DEF Answered
      <4>2. Answered(c, q) <=> \E i \in DOMAIN a : a[i].reqid = q
        BY DEF Answered
      <4>3. \A i \in DOMAIN b : i = n + 1 \/ (i \in DOMAIN a /\ b[i] = a[i])
        BY <2>1
      <4>4. n + 1 \in DOMAIN b /\ \A i \in DOMAIN a : i \in DOMAIN b /\ b[i] = a[i]
        BY <2>1
      <4> QED BY <2>1, <3>2, <4>1, <4>2, <4>3, <4>4
    <3> QED BY <3>1, <3>2
  <2>7. ASSUME NEW d \in Conn
        PROVE  Len(sent'[d]) >= Len(sent[d]) /\ \A q : Unread(d, q) => Unread(d, q)'
    <3>1. CASE d # c
      <4>1. sent'[d] = sent[d] /\ Len(sent[d]) \in Nat
        BY <2>3, <3>1 DEF AnswerTypes
      <4> QED BY <4>1 DEF Unread
    <3>2. ASSUME d = c PROVE Len(sent'[c]) >= Len(sent[c])
      BY <2>1, <2>3 DEF n
    <3>3. ASSUME d = c, NEW q, Unread(c, q) PROVE Unread(c, q)'
      <4>1. PICK i \in got[c] + 1 .. n : a[i].reqid = q
        BY <3>3 DEF Unread, n
      <4>2. got[c] \in Nat
        BY DEF CallTypes
      <4>3. i \in got[c] + 1 .. Len(b) /\ b[i] = a[i]
        BY <2>1, <4>1, <4>2
      <4> QED BY <2>3, <4>1, <4>3 DEF Unread
    <3> QED BY <3>1, <3>2, <3>3
  <2>8. ASSUME got[c] <= n PROVE Unread(c, f.reqid)'
    <3>1. got[c] \in Nat
      BY DEF CallTypes
    <3>2. n + 1 \in got[c] + 1 .. Len(b) /\ b[n + 1] = f
      BY <2>1, <2>8, <3>1
    <3> QED BY <2>3, <3>2 DEF Unread
  <2> QED BY <1>2, <2>4, <2>5, <2>6, <2>7, <2>8 DEF n, AnswerGoes
<1> QED BY <1>1, <1>2

-----------------------------------------------------------------------------
(* Where each step of a goroutine leads.                                   *)

\* Request r leaves one place for another, with generation g in hand and its hits kept.
Hop(c, r, from, to, g) ==
  /\ task[c][r].pc = from /\ TaskTypes'
  /\ \E v : Became(c, r, v) /\ v.pc = to /\ v.gen = g /\ (task[c][r].over => v.over)

\* A plain move of the goroutine to its next place is a hop that keeps its generation.
LEMMA GotoHops ==
  ASSUME TaskTypes, NEW c \in Conn, NEW r \in 1 .. Calls[c], NEW from, NEW to \in Phases,
         At(c, r, from), to \in {"pinned", "closing"} => task[c][r].gen \in Gens, Goto(c, r, to)
  PROVE  Hop(c, r, from, to, task[c][r].gen)
<1> DEFINE v == [pc |-> to, at |-> task[c][r].at, gen |-> task[c][r].gen,
                 over |-> task[c][r].over]
<1>1. TaskTypes' /\ Became(c, r, v)
  BY Goes
<1>2. v.pc = to /\ v.gen = task[c][r].gen /\ v.over = task[c][r].over
  OBVIOUS
<1> HIDE DEF v
<1> QED BY <1>1, <1>2 DEF Hop, At

\* Moving on to a shard is a hop that lets its generation go.
LEMMA ToShardHops ==
  ASSUME TaskTypes, NEW c \in Conn, NEW r \in 1 .. Calls[c], NEW from, NEW s \in Nat \ {0},
         At(c, r, from), ToShard(c, r, s)
  PROVE  Hop(c, r, from, "shard", NoGen)
<1> DEFINE v == [pc |-> "shard", at |-> s, gen |-> NoGen, over |-> task[c][r].over]
<1>1. TaskTypes' /\ Became(c, r, v)
  BY GoesToShard
<1>2. v.pc = "shard" /\ v.gen = NoGen /\ v.over = task[c][r].over
  OBVIOUS
<1> HIDE DEF v
<1> QED BY <1>1, <1>2 DEF Hop, At

\* Acquire takes a generation that is there, and is not retired.
LEMMA AcquireHops ==
  ASSUME Types, NEW c \in Conn, NEW r \in 1 .. Calls[c], Acquire(c, r)
  PROVE  LET g == <<task[c][r].at, cur[task[c][r].at]>> IN
         /\ g \in Gens /\ g[2] = cur[g[1]]
         /\ refs' = [refs EXCEPT ![g] = @ + 1] /\ Hop(c, r, "shard", "pinned", g)
<1> DEFINE s == task[c][r].at
           g == <<s, cur[s]>>
           v == [pc |-> "pinned", at |-> s, gen |-> g, over |-> task[c][r].over]
<1>1. task[c][r] \in Tasks /\ TaskTypes
  BY DEF Types, TaskTypes
<1>2. s \in 1 .. Shards /\ cur[s] \in 1 .. MaxGen
  <2>1. s \in 1 .. Shards
    BY <1>1, ServeAssumption DEF Acquire, HasShard, Tasks
  <2>2. cur[s] # 0 /\ cur \in [1 .. Shards -> 0 .. MaxGen] /\ MaxGen \in Nat
    BY ServeAssumption DEF Types, Acquire
  <2> QED BY <2>1, <2>2
<1>3. g \in Gens /\ g[1] = s /\ g[2] = cur[s]
  BY <1>2 DEF Gens
<1>4. v \in Tasks /\ v.pc = "pinned" /\ v.gen = g /\ v.over = task[c][r].over
  BY <1>1, <1>2, <1>3 DEF Tasks, Phases
<1>5. task' = [task EXCEPT ![c] = [task[c] EXCEPT ![r] = v]]
  <2>1. DOMAIN task = Conn /\ DOMAIN task[c] = 1 .. Calls[c]
    BY <1>1 DEF TaskTypes
  <2> DEFINE w == [task[c][r] EXCEPT !.pc = "pinned"]
             a == [task[c] EXCEPT ![r] = w]
             t == [task EXCEPT ![c] = a]
  <2>2. w = [pc |-> "pinned", at |-> s, gen |-> task[c][r].gen, over |-> task[c][r].over]
    BY <1>1 DEF Tasks
  <2>3. task' = [t EXCEPT ![c][r].gen = g]
    BY DEF Acquire
  <2> HIDE DEF s, g, w
  <2>4. t[c] = a /\ a[r] = w /\ [w EXCEPT !.gen = g] = v
    BY <2>1, <2>2
  <2> HIDE DEF v
  <2>5. [a EXCEPT ![r] = v] = [task[c] EXCEPT ![r] = v]
    BY <2>1
  <2> HIDE DEF a
  <2>6. [t EXCEPT ![c] = [a EXCEPT ![r] = v]] = [task EXCEPT ![c] = [a EXCEPT ![r] = v]]
    BY <2>1
  <2> HIDE DEF t
  <2>7. task' = [t EXCEPT ![c] = [a EXCEPT ![r] = v]]
    BY <2>3, <2>4
  <2> QED BY <2>5, <2>6, <2>7
<1> HIDE DEF v
<1>6. TaskTypes' /\ Became(c, r, v)
  <2> HIDE DEF g
  <2> QED BY <1>1, <1>3, <1>4, <1>5, TaskSet
<1>7. task[c][r].pc = "shard"
  BY DEF Acquire, HasShard, At
<1>8. refs' = [refs EXCEPT ![g] = @ + 1]
  BY DEF Acquire
<1> QED BY <1>3, <1>4, <1>6, <1>7, <1>8 DEF Hop

\* A traversal stays where it is, with more hits.
LEMMA SearchHops ==
  ASSUME Types, NEW c \in Conn, NEW r \in 1 .. Calls[c], Search(c, r)
  PROVE  Hop(c, r, "pinned", "pinned", task[c][r].gen)
<1> DEFINE v == [task[c][r] EXCEPT !.over = TRUE]
<1>1. TaskTypes /\ task[c][r] \in Tasks /\ task[c][r].pc = "pinned"
  BY DEF Types, TaskTypes, Search, At
<1>2. task[c][r].gen \in Gens
  BY <1>1 DEF TaskTypes
<1>3. v \in Tasks /\ v.pc = "pinned" /\ v.gen = task[c][r].gen /\ v.over
  BY <1>1 DEF Tasks
<1>4. task' = [task EXCEPT ![c] = [task[c] EXCEPT ![r] = v]]
  BY DEF Search
<1> HIDE DEF v
<1>5. TaskTypes' /\ Became(c, r, v)
  BY <1>1, <1>2, <1>3, <1>4, TaskSet
<1> QED BY <1>1, <1>3, <1>5 DEF Hop

\* Dropping the last pin of a retired generation leads to closing it, else to the next shard.
LEMMA ReleasePinHops ==
  ASSUME Types, NEW c \in Conn, NEW r \in 1 .. Calls[c], ReleasePin(c, r)
  PROVE  LET g == task[c][r].gen IN
         /\ g \in Gens /\ refs' = [refs EXCEPT ![g] = @ - 1]
         /\ IF Drained(g, refs[g] - 1) THEN Hop(c, r, "pinned", "closing", g)
                                       ELSE Hop(c, r, "pinned", "shard", NoGen)
<1> DEFINE g == task[c][r].gen
<1>1. TaskTypes /\ task[c][r] \in Tasks /\ At(c, r, "pinned")
  BY DEF Types, TaskTypes, ReleasePin
<1>2. g \in Gens
  BY <1>1 DEF TaskTypes, At
<1>3. refs' = [refs EXCEPT ![g] = @ - 1]
  BY DEF ReleasePin
<1>4. ASSUME Drained(g, refs[g] - 1) PROVE Hop(c, r, "pinned", "closing", g)
  <2>1. Goto(c, r, "closing") /\ "closing" \in Phases
    BY <1>4 DEF ReleasePin, Phases
  <2> QED BY <1>1, <1>2, <2>1, GotoHops
<1>5. ASSUME ~Drained(g, refs[g] - 1) PROVE Hop(c, r, "pinned", "shard", NoGen)
  <2>1. ToShard(c, r, task[c][r].at + 1)
    BY <1>5 DEF ReleasePin
  <2>2. task[c][r].at + 1 \in Nat \ {0}
    BY <1>1 DEF Tasks
  <2> QED BY <1>1, <2>1, <2>2, ToShardHops
<1> QED BY <1>2, <1>3, <1>4, <1>5

\* The release that found the generation drained closes it and moves on.
LEMMA CloseDrainedHops ==
  ASSUME Types, NEW c \in Conn, NEW r \in 1 .. Calls[c], CloseDrained(c, r)
  PROVE  LET g == task[c][r].gen IN
         /\ g \in Gens /\ closed' = [closed EXCEPT ![g] = @ + 1]
         /\ Hop(c, r, "closing", "shard", NoGen)
<1>1. TaskTypes /\ task[c][r] \in Tasks /\ At(c, r, "closing")
  BY DEF Types, TaskTypes, CloseDrained
<1>2. task[c][r].at + 1 \in Nat \ {0}
  BY <1>1 DEF Tasks
<1>3. task[c][r].gen \in Gens
  BY <1>1 DEF TaskTypes, At
<1>4. ToShard(c, r, task[c][r].at + 1) /\ closed' = [closed EXCEPT ![task[c][r].gen] = @ + 1]
  BY DEF CloseDrained
<1> QED BY <1>1, <1>2, <1>3, <1>4, ToShardHops

\* The other steps of a goroutine, which touch no generation.
LEMMA OtherHops ==
  ASSUME Types, NEW c \in Conn, NEW r \in 1 .. Calls[c]
  PROVE  LET g == task[c][r].gen IN
         /\ TakeWorker(c, r) => Hop(c, r, "start", "shard", g)
         /\ SkipShards(c, r) => Hop(c, r, "shard", "shard", NoGen)
         /\ NotMounted(c, r) => Hop(c, r, "shard", "shard", NoGen)
         /\ Finish(c, r) =>
              Hop(c, r, "shard", IF r \in cancelled[c] THEN "return" ELSE "write", g)
         /\ WriteResult(c, r) => Hop(c, r, "write", "return", g)
         /\ ReturnWorker(c, r) => Hop(c, r, "return", "release", g)
         /\ Release(c, r) => Hop(c, r, "release", "done", g)
<1> DEFINE g == task[c][r].gen
<1>1. TaskTypes /\ task[c][r].at \in Nat \ {0} /\ Shards \in Nat
  BY ServeAssumption DEF Types, TaskTypes, Tasks
<1>2. \A pc \in {"shard", "write", "return", "release", "done"} :
        pc \in Phases /\ pc \notin {"pinned", "closing"}
  BY DEF Phases
<1>3. ASSUME TakeWorker(c, r) PROVE Hop(c, r, "start", "shard", g)
  BY <1>1, <1>2, <1>3, GotoHops DEF TakeWorker
<1>4. ASSUME SkipShards(c, r) PROVE Hop(c, r, "shard", "shard", NoGen)
  <2>1. Shards + 1 \in Nat \ {0} /\ At(c, r, "shard") /\ ToShard(c, r, Shards + 1)
    BY <1>1, <1>4 DEF SkipShards, HasShard
  <2> QED BY <1>1, <2>1, ToShardHops
<1>5. ASSUME NotMounted(c, r) PROVE Hop(c, r, "shard", "shard", NoGen)
  <2>1. task[c][r].at + 1 \in Nat \ {0} /\ At(c, r, "shard") /\ ToShard(c, r, task[c][r].at + 1)
    BY <1>1, <1>5 DEF NotMounted, HasShard
  <2> QED BY <1>1, <2>1, ToShardHops
<1>6. ASSUME Finish(c, r)
      PROVE  Hop(c, r, "shard", IF r \in cancelled[c] THEN "return" ELSE "write", g)
  <2> DEFINE to == IF r \in cancelled[c] THEN "return" ELSE "write"
  <2>1. Goto(c, r, to) /\ At(c, r, "shard")
    BY <1>6 DEF Finish
  <2>2. to \in {"write", "return"}
    OBVIOUS
  <2> HIDE DEF to
  <2>3. Hop(c, r, "shard", to, g)
    BY <1>1, <1>2, <2>1, <2>2, GotoHops
  <2> QED BY <2>3 DEF to
<1>7. ASSUME WriteResult(c, r) PROVE Hop(c, r, "write", "return", g)
  BY <1>1, <1>2, <1>7, GotoHops DEF WriteResult
<1>8. ASSUME ReturnWorker(c, r) PROVE Hop(c, r, "return", "release", g)
  BY <1>1, <1>2, <1>8, GotoHops DEF ReturnWorker
<1>9. ASSUME Release(c, r) PROVE Hop(c, r, "release", "done", g)
  BY <1>1, <1>2, <1>9, GotoHops DEF Release
<1> QED BY <1>3, <1>4, <1>5, <1>6, <1>7, <1>8, <1>9

\* An admitted query gets its goroutine.
LEMMA AdmitHops ==
  ASSUME TaskTypes, NEW c \in Conn, NEW r \in 1 .. Calls[c], task[c][r].pc = "none",
         task' = [task EXCEPT ![c][r].pc = "start"]
  PROVE  Hop(c, r, "none", "start", task[c][r].gen)
<1>1. At(c, r, "none") /\ Goto(c, r, "start") /\ "start" \in Phases
  BY DEF At, Goto, Phases
<1> QED BY <1>1, GotoHops

-----------------------------------------------------------------------------
(* Generations: closed once, and only when nobody reads them.              *)

\* Who is about to close what, after one goroutine moved.
LEMMA ClosersMove ==
  ASSUME NEW c \in Conn, NEW r \in 1 .. Calls[c], NEW from, NEW to, NEW g, Hop(c, r, from, to, g)
  PROVE  /\ \A d \in Conn : \A q \in 1 .. Calls[d] : \A h :
              Closer(d, q, h)' <=> IF d = c /\ q = r THEN to = "closing" /\ g = h ELSE Closer(d, q, h)
         /\ \A h : Closer(c, r, h) => from = "closing"
BY DEF Hop, Became, Closer

\* A step to and from somewhere else leaves the lives of the generations as they are.
LEMMA QuietHop ==
  ASSUME Registry, NEW c \in Conn, NEW r \in 1 .. Calls[c], NEW from, NEW to, NEW g,
         Hop(c, r, from, to, g), from # "closing", to # "closing", UNCHANGED registry
  PROVE  Registry'
<1>1. \A d \in Conn : \A q \in 1 .. Calls[d] : \A h : Closer(d, q, h)' <=> Closer(d, q, h)
  BY ClosersMove
<1>2. \A h : Closes(h)' <=> Closes(h)
  BY <1>1 DEF Closes
<1>3. ASSUME NEW h \in Gens PROVE Lives(h)'
  <2>1. Lives(h)
    BY DEF Registry
  <2> QED BY <1>1, <1>2, <2>1 DEF Lives, Ends, OneEnd, registry
<1> QED BY <1>3 DEF Registry

\* A pin is taken on the current generation, which has not ended.
LEMMA AcquireLives ==
  ASSUME Types, Counts, Registry, NEW c \in Conn, NEW r \in 1 .. Calls[c], Acquire(c, r)
  PROVE  Registry'
<1> DEFINE g == <<task[c][r].at, cur[task[c][r].at]>>
<1>1. /\ g \in Gens /\ g[2] = cur[g[1]]
      /\ refs' = [refs EXCEPT ![g] = @ + 1] /\ Hop(c, r, "shard", "pinned", g)
  BY AcquireHops
<1>2. UNCHANGED <<cur, retired, closed, draining>>
  BY DEF Acquire
<1> HIDE DEF g
<1>3. \A d \in Conn : \A q \in 1 .. Calls[d] : \A h : Closer(d, q, h)' <=> Closer(d, q, h)
  BY <1>1, ClosersMove
<1>4. \A h : Closes(h)' <=> Closes(h)
  BY <1>3 DEF Closes
<1>5. ASSUME NEW h \in Gens PROVE Lives(h)'
  <2>1. Lives(h) /\ Lives(g)
    BY <1>1 DEF Registry
  <2>2. g \notin retired
    <3>1. g[2] \in Nat
      BY <1>1 DEF Gens
    <3> QED BY <1>1, <2>1, <3>1 DEF Lives
  <2>3. h # g => refs'[h] = refs[h]
    BY <1>1 DEF Types
  <2> QED BY <1>2, <1>3, <1>4, <2>1, <2>2, <2>3 DEF Lives, Ends, OneEnd
<1> QED BY <1>5 DEF Registry

\* The last pin of a retired generation makes the query that drops it the one to close it.
LEMMA ReleasePinLives ==
  ASSUME Types, Counts, Registry, NEW c \in Conn, NEW r \in 1 .. Calls[c], ReleasePin(c, r)
  PROVE  Registry'
<1>0. PICK g \in Gens : g = task[c][r].gen
  BY ReleasePinHops
<1> DEFINE last == Drained(g, refs[g] - 1)
<1>1. /\ refs' = [refs EXCEPT ![g] = @ - 1]
      /\ last => Hop(c, r, "pinned", "closing", g)
      /\ ~last => Hop(c, r, "pinned", "shard", NoGen)
  BY <1>0, ReleasePinHops
<1>2. UNCHANGED <<cur, retired, closed, draining>>
  BY DEF ReleasePin
<1>3. refs[g] \in Nat /\ refs[g] > 0
  <2>1. Pinning(task[c][r], g)
    BY <1>0 DEF ReleasePin, At, Pinning
  <2>2. Cardinality(Pins(g)) \in Nat /\ Cardinality(Pins(g)) > 0
    BY <1>1, <2>1, CountsAre
  <2> QED BY <1>1, <2>2 DEF Counts
<1>4. refs'[g] = refs[g] - 1 /\ \A h \in Gens : h # g => refs'[h] = refs[h]
  BY <1>1 DEF Types
<1>5. Lives(g) /\ ~Ends(g)
  BY <1>1, <1>3 DEF Registry, Lives
<1>6. last <=> (g \in retired /\ refs'[g] = 0)
  BY <1>4 DEF Drained
<1> HIDE DEF last
<1>7. \A d \in Conn : \A q \in 1 .. Calls[d] : \A h \in Gens :
        Closer(d, q, h)' <=> IF d = c /\ q = r THEN last /\ g = h ELSE Closer(d, q, h)
  <2>1. CASE last
    BY <1>1, <2>1, ClosersMove
  <2>2. CASE ~last
    BY <1>1, <2>2, ClosersMove
  <2> QED BY <2>1, <2>2
<1>8. \A h : ~Closer(c, r, h)
  BY DEF ReleasePin, At, Closer
<1>9. \A h \in Gens : h # g => /\ Closes(h)' <=> Closes(h)
                             /\ \A d \in Conn : \A q \in 1 .. Calls[d] : Closer(d, q, h)' <=> Closer(d, q, h)
  BY <1>7, <1>8 DEF Closes
<1>10. Closes(g)' <=> last
  BY <1>1, <1>5, <1>7 DEF Closes, Ends
<1>11. ASSUME NEW h \in Gens, h # g PROVE Lives(h)'
  <2>1. Lives(h)
    BY DEF Registry
  <2> QED BY <1>2, <1>4, <1>9, <1>11, <2>1 DEF Lives, Ends, OneEnd
<1>12. Lives(g)'
  <2>1. ~Closes(g) /\ closed[g] # 1 /\ g \notin draining
    BY <1>5 DEF Ends
  <2>2. OneEnd(g)'
    <3>1. \A d \in Conn : \A q \in 1 .. Calls[d] : Closer(d, q, g)' => d = c /\ q = r
      BY <1>1, <1>7, <2>1 DEF Closes
    <3> QED BY <1>2, <1>5, <2>1, <3>1 DEF OneEnd, Lives
  <2> QED BY <1>2, <1>5, <1>6, <1>10, <2>1, <2>2 DEF Lives, Ends
<1> QED BY <1>11, <1>12 DEF Registry

\* The query that was to close a generation closes it, and it alone.
LEMMA CloseDrainedLives ==
  ASSUME Types, Registry, NEW c \in Conn, NEW r \in 1 .. Calls[c], CloseDrained(c, r)
  PROVE  Registry'
<1>0. PICK g \in Gens : g = task[c][r].gen
  BY CloseDrainedHops
<1>1. closed' = [closed EXCEPT ![g] = @ + 1] /\ Hop(c, r, "closing", "shard", NoGen)
  BY <1>0, CloseDrainedHops
<1>2. UNCHANGED <<cur, refs, retired, draining>>
  BY DEF CloseDrained
<1>3. Closer(c, r, g)
  BY <1>0 DEF CloseDrained, At, Closer
<1>4. \A h : Closer(c, r, h) => h = g
  BY <1>0 DEF Closer
<1>5. closed'[g] = closed[g] + 1 /\ \A h \in Gens : h # g => closed'[h] = closed[h]
  BY <1>1 DEF Types
<1>6. Lives(g) /\ Closes(g) /\ closed[g] = 0 /\ g \notin draining
  BY <1>1, <1>3 DEF Registry, Lives, OneEnd, Closes
<1>7. \A d \in Conn : \A q \in 1 .. Calls[d] : \A h :
        Closer(d, q, h)' <=> (~(d = c /\ q = r) /\ Closer(d, q, h))
  BY <1>1, ClosersMove
<1>8. \A h : h # g => /\ Closes(h)' <=> Closes(h)
                      /\ \A d \in Conn : \A q \in 1 .. Calls[d] : Closer(d, q, h)' <=> Closer(d, q, h)
  BY <1>4, <1>7 DEF Closes
<1>9. ~Closes(g)'
  BY <1>3, <1>6, <1>7 DEF Closes, Lives, OneEnd
<1>10. ASSUME NEW h \in Gens, h # g PROVE Lives(h)'
  <2>1. Lives(h)
    BY DEF Registry
  <2> QED BY <1>2, <1>5, <1>8, <1>10, <2>1 DEF Lives, Ends, OneEnd
<1>11. Lives(g)'
  <2>1. OneEnd(g)'
    BY <1>2, <1>5, <1>6, <1>9 DEF OneEnd, Closes
  <2> QED BY <1>2, <1>5, <1>6, <2>1 DEF Lives, Ends
<1> QED BY <1>10, <1>11 DEF Registry

\* The generation that a publish retires was the current one, and had not ended.
LEMMA PublishLives ==
  ASSUME Types, Counts, Registry, NEW s \in 1 .. Shards, Publish(s)
  PROVE  Registry'
<1> DEFINE old == <<s, cur[s]>>
<1>1. cur[s] \in 0 .. MaxGen /\ cur[s] + 1 \in Nat /\ cur'[s] = cur[s] + 1
      /\ \A t \in 1 .. Shards : t # s => cur'[t] = cur[t]
  BY ServeAssumption DEF Types, Publish
<1>2. UNCHANGED <<refs, closed, task>>
  BY DEF Publish
<1>3. \A h : Closes(h)' <=> Closes(h)
  BY <1>2 DEF Closes, Closer
<1>4. \A d \in Conn : \A q \in 1 .. Calls[d] : \A h : Closer(d, q, h)' <=> Closer(d, q, h)
  BY <1>2 DEF Closer
<1>5. ASSUME NEW h \in Gens PROVE Lives(h)'
  <2>1. h[1] \in 1 .. Shards /\ h[2] \in 1 .. MaxGen /\ h = <<h[1], h[2]>>
    BY DEF Gens
  <2>2. Lives(h) /\ refs[h] \in Nat
    BY CountsAre DEF Registry, Counts
  <2>3. CASE h = old
    <3>1. h \notin retired /\ ~Ends(h) /\ cur[s] # 0
      <4>1. h[1] = s /\ h[2] = cur[s]
        BY <2>3
      <4> QED BY <1>1, <2>1, <2>2, <4>1 DEF Lives
    <3>2. h \in retired' /\ h[2] < cur'[h[1]]
      BY <1>1, <2>3, <3>1 DEF Publish
    <3>3. h \in draining' <=> refs[h] = 0
      BY <2>3, <3>1 DEF Publish, Ends
    <3> QED BY <1>2, <1>3, <1>4, <2>2, <3>1, <3>2, <3>3 DEF Lives, Ends, OneEnd
  <2>4. CASE h # old
    <3>1. (h \in retired' <=> h \in retired) /\ (h \in draining' <=> h \in draining)
      BY <2>4 DEF Publish
    <3>2. h[2] < cur'[h[1]] <=> h[2] < cur[h[1]]
      <4>1. CASE h[1] = s
        <5>1. h[2] # cur[s] /\ h[2] \in Nat /\ cur[s] \in Nat
          BY <1>1, <2>1, <2>4, <4>1
        <5> QED BY <1>1, <4>1, <5>1
      <4>2. CASE h[1] # s
        BY <1>1, <2>1, <4>2
      <4> QED BY <4>1, <4>2
    <3> QED BY <1>2, <1>3, <1>4, <2>2, <3>1, <3>2 DEF Lives, Ends, OneEnd
  <2> QED BY <2>3, <2>4
<1> QED BY <1>5 DEF Registry

\* The loader closes the generation it found idle.
LEMMA CloseIdleLives ==
  ASSUME Types, Registry, NEW g \in Gens, CloseIdle(g)
  PROVE  Registry'
<1>1. UNCHANGED <<cur, refs, retired, task>> /\ g \in draining /\ draining' = draining \ {g}
  BY DEF CloseIdle
<1>2. closed'[g] = closed[g] + 1 /\ \A h \in Gens : h # g => closed'[h] = closed[h]
  BY DEF CloseIdle, Types
<1>3. \A h : Closes(h)' <=> Closes(h)
  BY <1>1 DEF Closes, Closer
<1>4. \A d \in Conn : \A q \in 1 .. Calls[d] : \A h : Closer(d, q, h)' <=> Closer(d, q, h)
  BY <1>1 DEF Closer
<1>5. ASSUME NEW h \in Gens PROVE Lives(h)'
  <2>1. Lives(h)
    BY DEF Registry
  <2>2. CASE h = g
    <3>1. closed[g] = 0 /\ ~Closes(g) /\ Ends(g)
      BY <1>1, <2>1, <2>2 DEF Lives, OneEnd, Ends
    <3> QED BY <1>1, <1>2, <1>3, <1>4, <2>1, <2>2, <3>1 DEF Lives, Ends, OneEnd
  <2>3. CASE h # g
    BY <1>1, <1>2, <1>3, <1>4, <2>1, <2>3 DEF Lives, Ends, OneEnd
  <2> QED BY <2>2, <2>3
<1> QED BY <1>5 DEF Registry

\* A step that neither moves a goroutine nor touches the registry.
LEMMA StillLives == ASSUME Registry, UNCHANGED <<registry, task>> PROVE Registry'
BY DEF Registry, Lives, Ends, OneEnd, Closes, Closer, registry

\* The query at the head of the frames is nowhere else.
LEMMA ReadQueryHops ==
  ASSUME Types, NEW c \in Conn, Books(c), ReadQuery(c)
  PROVE  LET r == Head(frames[c]).reqid IN
         /\ r \in 1 .. reqid[c] /\ r \in 1 .. Calls[c] /\ r # 0
         /\ task[c][r].pc = "none" /\ refusing[c] = 0 /\ Asked(c, r)
         /\ ~OverCap(inflight + 1) => Hop(c, r, "none", "start", task[c][r].gen)
<1> DEFINE r == Head(frames[c]).reqid
<1>1. FrameTypes /\ CallTypes /\ TaskTypes /\ AskedOnce(c)
  BY DEF Types, CallTypes, Books
<1>2. reqid' = reqid /\ Reads(c, "query") /\ Consumed(c)
  BY DEF ReadQuery, client
<1>3. r \in 1 .. reqid[c] /\ Asked(c, r)
  BY <1>1, <1>2, FrameRead
<1>4. r \in 1 .. Calls[c] /\ r # 0
  <2>1. reqid[c] \in Nat /\ reqid[c] <= Calls[c] /\ Calls[c] \in Nat
    BY <1>1, ServeAssumption DEF CallTypes
  <2> HIDE DEF r
  <2> QED BY <1>3, <2>1
<1>5. task[c][r].pc = "none"
  BY <1>3, <1>4 DEF Books, OnePlace
<1>6. refusing[c] = 0
  BY <1>2 DEF Reads
<1>7. ASSUME ~OverCap(inflight + 1) PROVE Hop(c, r, "none", "start", task[c][r].gen)
  <2>1. task' = [task EXCEPT ![c][r].pc = "start"]
    BY <1>7 DEF ReadQuery
  <2> HIDE DEF r
  <2> QED BY <1>1, <1>4, <1>5, <2>1, AdmitHops
<1> QED BY <1>3, <1>4, <1>5, <1>6, <1>7

\* Every step keeps each generation's life: live, retired, then ended once.
LEMMA RegistryStep ==
  ASSUME Types, Counts, Registry, \A c \in Conn : Books(c), [Next]_vars
  PROVE  Registry'
<1>1. ASSUME NEW s \in 1 .. Shards, Publish(s) PROVE Registry'
  BY <1>1, PublishLives
<1>2. ASSUME NEW g \in Gens, CloseIdle(g) PROVE Registry'
  BY <1>2, CloseIdleLives
<1>3. ASSUME NEW c \in Conn, ReadQuery(c) PROVE Registry'
  <2> DEFINE r == Head(frames[c]).reqid
  <2>0. UNCHANGED registry
    BY <1>3 DEF ReadQuery
  <2>1. CASE OverCap(inflight + 1)
    <3>1. UNCHANGED <<registry, task>>
      BY <1>3, <2>1 DEF ReadQuery
    <3> QED BY <3>1, StillLives
  <2>2. CASE ~OverCap(inflight + 1)
    <3>1. r \in 1 .. Calls[c] /\ Hop(c, r, "none", "start", task[c][r].gen)
      BY <1>3, <2>2, ReadQueryHops
    <3> HIDE DEF r
    <3> QED BY <2>0, <3>1, QuietHop
  <2> QED BY <2>1, <2>2
<1>4. ASSUME NEW c \in Conn, NEW r \in 1 .. Calls[c], Goroutine(c, r) PROVE Registry'
  <2>1. CASE Acquire(c, r)
    BY <2>1, AcquireLives
  <2>2. CASE ReleasePin(c, r)
    BY <2>2, ReleasePinLives
  <2>3. CASE CloseDrained(c, r)
    BY <2>3, CloseDrainedLives
  <2>4. ASSUME \/ TakeWorker(c, r) \/ SkipShards(c, r) \/ NotMounted(c, r) \/ Finish(c, r)
               \/ WriteResult(c, r) \/ ReturnWorker(c, r) \/ Release(c, r) \/ Search(c, r)
        PROVE  Registry'
    <3>1. UNCHANGED registry
      BY <2>4 DEF TakeWorker, SkipShards, NotMounted, Finish, WriteResult, ReturnWorker, Release,
                  Search
    <3>2. \E from, to, g : Hop(c, r, from, to, g) /\ from # "closing" /\ to # "closing"
      <4>1. CASE Finish(c, r)
        <5>1. Hop(c, r, "shard", IF r \in cancelled[c] THEN "return" ELSE "write", task[c][r].gen)
          BY <4>1, OtherHops
        <5> QED BY <5>1
      <4>2. CASE SkipShards(c, r) \/ NotMounted(c, r)
        BY <4>2, OtherHops
      <4>3. CASE TakeWorker(c, r) \/ WriteResult(c, r)
        BY <4>3, OtherHops
      <4>4. CASE ReturnWorker(c, r) \/ Release(c, r)
        BY <4>4, OtherHops
      <4>5. CASE Search(c, r)
        BY <4>5, SearchHops
      <4> QED BY <2>4, <4>1, <4>2, <4>3, <4>4, <4>5
    <3> QED BY <3>1, <3>2, QuietHop
  <2> QED BY <1>4, <2>1, <2>2, <2>3, <2>4 DEF Goroutine
<1>5. ASSUME NEW c \in Conn,
             \/ Accept(c) \/ CloseConn(c) \/ Hangup(c) \/ Client(c)
             \/ ReadPing(c) \/ ReadCancel(c) \/ Refuse(c)
      PROVE  UNCHANGED <<registry, task>>
  BY <1>5 DEF Accept, CloseConn, Hangup, Client, CallStart, Receive, ReceiveFails, CancelSend,
              ReadPing, ReadCancel, Refuse
<1>6. ASSUME Close \/ UNCHANGED vars PROVE UNCHANGED <<registry, task>>
  BY <1>6 DEF Close, vars
<1> QED BY <1>1, <1>2, <1>3, <1>4, <1>5, <1>6, StillLives DEF Next, Reader

-----------------------------------------------------------------------------
(* Counters: each counts what it stands for.                               *)

\* The counts after a goroutine moved, by where it was and where it is.
LEMMA HopCounts ==
  ASSUME Counts, NEW c \in Conn, NEW r \in 1 .. Calls[c], NEW from, NEW to, NEW g,
         Hop(c, r, from, to, g)
  PROVE  /\ IsFiniteSet(Running')
         /\ Cardinality(Running') = Cardinality(Running) + One(to \notin {"none", "done"})
                                                         - One(from \notin {"none", "done"})
         /\ Cardinality(Busy') = Cardinality(Busy)
                                   + One(to \notin {"none", "done", "start", "release"})
                                   - One(from \notin {"none", "done", "start", "release"})
         /\ \A h \in Gens :
              Cardinality(Pins(h)') = Cardinality(Pins(h)) + One(to = "pinned" /\ g = h)
                                        - One(from = "pinned" /\ task[c][r].gen = h)
<1>1. PICK v : Became(c, r, v) /\ v.pc = to /\ v.gen = g
  BY DEF Hop
<1>2. task[c][r].pc = from
  BY DEF Hop
<1>3. /\ Holding(v) <=> to \notin {"none", "done"}
      /\ Holding(task[c][r]) <=> from \notin {"none", "done"}
      /\ Working(v) <=> to \notin {"none", "done", "start", "release"}
      /\ Working(task[c][r]) <=> from \notin {"none", "done", "start", "release"}
      /\ \A h : Pinning(v, h) <=> (to = "pinned" /\ g = h)
      /\ \A h : Pinning(task[c][r], h) <=> (from = "pinned" /\ task[c][r].gen = h)
  BY <1>1, <1>2 DEF Holding, Working, Pinning
<1>4. /\ IsFiniteSet(Running')
      /\ Cardinality(Running') = Cardinality(Running) + One(Holding(v)) - One(Holding(task[c][r]))
      /\ Cardinality(Busy') = Cardinality(Busy) + One(Working(v)) - One(Working(task[c][r]))
      /\ \A h \in Gens : Cardinality(Pins(h)') = Cardinality(Pins(h)) + One(Pinning(v, h))
                                                   - One(Pinning(task[c][r], h))
  BY <1>1, CountsMove
<1> QED BY <1>3, <1>4 DEF One

\* A goroutine that stays admitted, and pins and drops nothing, moves no count but the
\* one of the workers.
LEMMA HopStays ==
  ASSUME Counts, NEW c \in Conn, NEW r \in 1 .. Calls[c], NEW from, NEW to, NEW g,
         Hop(c, r, from, to, g), from \notin {"none", "done", "pinned"},
         to \notin {"none", "done", "pinned"}, UNCHANGED <<refs, inflight, refusing>>,
         workers' = workers + One(from \notin {"start", "release"})
                            - One(to \notin {"start", "release"})
  PROVE  Counts'
<1>1. /\ IsFiniteSet(Running') /\ Cardinality(Running') = Cardinality(Running)
      /\ Cardinality(Busy') = Cardinality(Busy) + One(to \notin {"start", "release"})
                                - One(from \notin {"start", "release"})
      /\ \A h \in Gens : Cardinality(Pins(h)') = Cardinality(Pins(h))
  BY HopCounts, CountsAre DEF One
<1>2. Refused' = Refused
  BY DEF Refused
<1>3. Cap \in Nat /\ Cardinality(Busy) \in Nat
  BY ServeAssumption, CountsAre
<1> QED BY <1>1, <1>2, <1>3 DEF Counts, One

\* A query read takes a slot of the cap, and its goroutine or its refusal holds it.
LEMMA ReadQueryCounts ==
  ASSUME Types, Counts, NEW c \in Conn, Books(c), ReadQuery(c)
  PROVE  Counts'
<1>1. PICK r \in 1 .. Calls[c] : /\ r = Head(frames[c]).reqid /\ r # 0 /\ refusing[c] = 0
                                 /\ ~OverCap(inflight + 1) => Hop(c, r, "none", "start", task[c][r].gen)
  BY ReadQueryHops
<1>2. UNCHANGED <<refs, workers>> /\ inflight' = inflight + 1
  BY DEF ReadQuery, registry
<1>3. /\ Cap \in Nat /\ Cardinality(Busy) \in Nat /\ Cardinality(Running) \in Nat
      /\ Cardinality(Refused) \in Nat
  BY ServeAssumption, CountsAre
<1>4. CASE OverCap(inflight + 1)
  <2>1. refusing' = [refusing EXCEPT ![c] = r] /\ task' = task
    BY <1>1, <1>4 DEF ReadQuery
  <2>2. Refused' = Refused \cup {c} /\ c \notin Refused
    BY <1>1, <2>1 DEF Refused, Types, CallTypes
  <2>3. IsFiniteSet(Refused') /\ Cardinality(Refused') = Cardinality(Refused) + 1
    BY <2>2, FS_AddElement DEF Counts
  <2>4. Running' = Running /\ Busy' = Busy /\ \A g : Pins(g)' = Pins(g)
    BY <2>1 DEF Running, Busy, Pins, At
  <2> QED BY <1>2, <1>3, <2>3, <2>4 DEF Counts
<1>5. CASE ~OverCap(inflight + 1)
  <2>1. refusing' = refusing
    BY <1>5 DEF ReadQuery
  <2>2. Refused' = Refused
    BY <2>1 DEF Refused
  <2>3. /\ IsFiniteSet(Running') /\ Cardinality(Running') = Cardinality(Running) + 1
        /\ Cardinality(Busy') = Cardinality(Busy)
        /\ \A h \in Gens : Cardinality(Pins(h)') = Cardinality(Pins(h))
    BY <1>1, <1>3, <1>5, HopCounts, CountsAre DEF One
  <2>4. Cardinality(Running) + 1 <= Cap
    BY <1>3, <1>5 DEF OverCap, Counts
  <2> QED BY <1>2, <1>3, <2>2, <2>3, <2>4 DEF Counts
<1> QED BY <1>4, <1>5

\* The busy answer gives its slot back.
LEMMA RefuseCounts ==
  ASSUME Types, Counts, NEW c \in Conn, Refuse(c)
  PROVE  Counts'
<1>1. /\ UNCHANGED <<refs, workers, task>> /\ inflight' = inflight - 1
      /\ refusing[c] # 0 /\ refusing' = [refusing EXCEPT ![c] = 0]
  BY DEF Refuse, registry
<1>2. Refused' = Refused \ {c} /\ c \in Refused
  BY <1>1 DEF Refused, Types, CallTypes
<1>3. IsFiniteSet(Refused') /\ Cardinality(Refused') = Cardinality(Refused) - 1
  BY <1>2, FS_RemoveElement DEF Counts
<1>4. Running' = Running /\ Busy' = Busy /\ \A g : Pins(g)' = Pins(g)
  BY <1>1 DEF Running, Busy, Pins, At
<1>5. Cardinality(Running) \in Nat /\ Cardinality(Refused) \in Nat
  BY CountsAre
<1> QED BY <1>1, <1>3, <1>4, <1>5 DEF Counts

\* A reference is taken with the pin it counts.
LEMMA AcquireCounts ==
  ASSUME Types, Counts, NEW c \in Conn, NEW r \in 1 .. Calls[c], Acquire(c, r)
  PROVE  Counts'
<1>1. PICK g \in Gens : /\ refs' = [refs EXCEPT ![g] = @ + 1]
                        /\ Hop(c, r, "shard", "pinned", g)
  BY AcquireHops
<1>2. UNCHANGED <<inflight, workers, refusing>>
  BY DEF Acquire, pool
<1>3. Refused' = Refused
  BY <1>2 DEF Refused
<1>4. /\ IsFiniteSet(Running') /\ Cardinality(Running') = Cardinality(Running)
      /\ Cardinality(Busy') = Cardinality(Busy)
      /\ \A h \in Gens : Cardinality(Pins(h)') = Cardinality(Pins(h)) + One(g = h)
  BY <1>1, HopCounts, CountsAre DEF One
<1>5. refs'[g] = refs[g] + 1 /\ \A h \in Gens : h # g => refs'[h] = refs[h]
  BY <1>1 DEF Types
<1>6. ASSUME NEW h \in Gens PROVE refs'[h] = Cardinality(Pins(h)')
  <2>1. Cardinality(Pins(h)) \in Nat /\ refs[h] = Cardinality(Pins(h))
    BY CountsAre DEF Counts
  <2> QED BY <1>4, <1>5, <2>1 DEF One
<1> QED BY <1>2, <1>3, <1>4, <1>6 DEF Counts

\* A traversal pins and drops nothing.
LEMMA SearchCounts ==
  ASSUME Types, Counts, NEW c \in Conn, NEW r \in 1 .. Calls[c], Search(c, r)
  PROVE  Counts'
<1>1. /\ Hop(c, r, "pinned", "pinned", task[c][r].gen)
      /\ UNCHANGED <<refs, inflight, workers, refusing>>
  BY SearchHops DEF Search, registry, pool
<1>2. Refused' = Refused
  BY <1>1 DEF Refused
<1>3. /\ IsFiniteSet(Running') /\ Cardinality(Running') = Cardinality(Running)
      /\ Cardinality(Busy') = Cardinality(Busy)
      /\ \A h \in Gens : Cardinality(Pins(h)') = Cardinality(Pins(h))
  BY <1>1, HopCounts, CountsAre DEF One
<1> QED BY <1>1, <1>2, <1>3 DEF Counts

\* A reference is dropped with the pin it counts.
LEMMA ReleasePinCounts ==
  ASSUME Types, Counts, NEW c \in Conn, NEW r \in 1 .. Calls[c], ReleasePin(c, r)
  PROVE  Counts'
<1>1. PICK g \in Gens : g = task[c][r].gen
  BY ReleasePinHops
<1>2. PICK to \in {"closing", "shard"}, h \in Gens \cup {NoGen} :
        refs' = [refs EXCEPT ![g] = @ - 1] /\ Hop(c, r, "pinned", to, h)
  BY <1>1, ReleasePinHops
<1>3. UNCHANGED <<inflight, workers, refusing>>
  BY DEF ReleasePin, pool
<1>4. Refused' = Refused
  BY <1>3 DEF Refused
<1>5. /\ IsFiniteSet(Running') /\ Cardinality(Running') = Cardinality(Running)
      /\ Cardinality(Busy') = Cardinality(Busy)
      /\ \A k \in Gens : Cardinality(Pins(k)') = Cardinality(Pins(k)) - One(g = k)
  BY <1>1, <1>2, HopCounts, CountsAre DEF One
<1>6. refs'[g] = refs[g] - 1 /\ \A k \in Gens : k # g => refs'[k] = refs[k]
  BY <1>2 DEF Types
<1>7. ASSUME NEW k \in Gens PROVE refs'[k] = Cardinality(Pins(k)')
  <2>1. Cardinality(Pins(k)) \in Nat /\ refs[k] = Cardinality(Pins(k))
    BY CountsAre DEF Counts
  <2> QED BY <1>5, <1>6, <2>1 DEF One
<1> QED BY <1>3, <1>4, <1>5, <1>7 DEF Counts

\* The slot goes back with the end of its goroutine.
LEMMA ReleaseCounts ==
  ASSUME Types, Counts, NEW c \in Conn, NEW r \in 1 .. Calls[c], Release(c, r)
  PROVE  Counts'
<1>1. Hop(c, r, "release", "done", task[c][r].gen)
  BY OtherHops
<1>2. UNCHANGED <<refs, workers, refusing>> /\ inflight' = inflight - 1
  BY DEF Release, registry
<1>3. Refused' = Refused
  BY <1>2 DEF Refused
<1>4. /\ IsFiniteSet(Running') /\ Cardinality(Running') = Cardinality(Running) - 1
      /\ Cardinality(Busy') = Cardinality(Busy)
      /\ \A h \in Gens : Cardinality(Pins(h)') = Cardinality(Pins(h))
  BY <1>1, HopCounts, CountsAre DEF One
<1>5. Cardinality(Running) \in Nat /\ Cardinality(Refused) \in Nat /\ Cap \in Nat
  BY CountsAre, ServeAssumption
<1> QED BY <1>2, <1>3, <1>4, <1>5 DEF Counts

\* Every step keeps the counters equal to what they count.
LEMMA CountsStep ==
  ASSUME Types, Counts, \A c \in Conn : Books(c), [Next]_vars
  PROVE  Counts'
<1>1. ASSUME UNCHANGED <<task, refs, inflight, workers, refusing>> PROVE Counts'
  BY <1>1 DEF Counts, Running, Busy, Pins, Refused, At
<1>2. ASSUME NEW c \in Conn, ReadQuery(c) \/ Refuse(c) PROVE Counts'
  BY <1>2, ReadQueryCounts, RefuseCounts
<1>3. ASSUME NEW c \in Conn, NEW r \in 1 .. Calls[c], Goroutine(c, r) PROVE Counts'
  <2> DEFINE g == task[c][r].gen
  <2>0. workers \in Int
    BY DEF Types
  <2>1. CASE Acquire(c, r) \/ Search(c, r) \/ ReleasePin(c, r) \/ Release(c, r)
    BY <2>1, AcquireCounts, SearchCounts, ReleasePinCounts, ReleaseCounts
  <2>2. CASE CloseDrained(c, r)
    <3>1. Hop(c, r, "closing", "shard", NoGen) /\ UNCHANGED <<refs, inflight, refusing, workers>>
      BY <2>2, CloseDrainedHops DEF CloseDrained, pool
    <3> QED BY <2>0, <3>1, HopStays DEF One
  <2>3. CASE SkipShards(c, r) \/ NotMounted(c, r)
    <3>1. Hop(c, r, "shard", "shard", NoGen) /\ UNCHANGED <<refs, inflight, refusing, workers>>
      BY <2>3, OtherHops DEF SkipShards, NotMounted, pool, registry
    <3> QED BY <2>0, <3>1, HopStays DEF One
  <2>4. CASE TakeWorker(c, r)
    <3>1. /\ Hop(c, r, "start", "shard", g) /\ UNCHANGED <<refs, inflight, refusing>>
          /\ workers' = workers - 1
      BY <2>4, OtherHops DEF TakeWorker, registry
    <3> QED BY <2>0, <3>1, HopStays DEF One
  <2>5. CASE Finish(c, r)
    <3> DEFINE to == IF r \in cancelled[c] THEN "return" ELSE "write"
    <3>1. Hop(c, r, "shard", to, g) /\ UNCHANGED <<refs, inflight, refusing, workers>>
      BY <2>5, OtherHops DEF Finish, registry, pool
    <3>2. to \in {"return", "write"}
      OBVIOUS
    <3> HIDE DEF to
    <3> QED BY <2>0, <3>1, <3>2, HopStays DEF One
  <2>6. CASE WriteResult(c, r)
    <3>1. Hop(c, r, "write", "return", g) /\ UNCHANGED <<refs, inflight, refusing, workers>>
      BY <2>6, OtherHops DEF WriteResult, registry, pool
    <3> QED BY <2>0, <3>1, HopStays DEF One
  <2>7. CASE ReturnWorker(c, r)
    <3>1. /\ Hop(c, r, "return", "release", g) /\ UNCHANGED <<refs, inflight, refusing>>
          /\ workers' = workers + 1
      BY <2>7, OtherHops DEF ReturnWorker, registry
    <3> QED BY <2>0, <3>1, HopStays DEF One
  <2> QED BY <1>3, <2>1, <2>2, <2>3, <2>4, <2>5, <2>6, <2>7 DEF Goroutine
<1>4. ASSUME NEW c \in Conn,
             \/ Accept(c) \/ CloseConn(c) \/ Hangup(c) \/ Client(c) \/ ReadPing(c) \/ ReadCancel(c)
      PROVE  UNCHANGED <<task, refs, inflight, workers, refusing>>
  BY <1>4 DEF Accept, CloseConn, Hangup, Client, CallStart, Receive, ReceiveFails, CancelSend,
              ReadPing, ReadCancel, registry, pool
<1>5. ASSUME \/ \E s \in 1 .. Shards : Publish(s)
             \/ \E g \in Gens : CloseIdle(g)
             \/ Close
             \/ UNCHANGED vars
      PROVE  UNCHANGED <<task, refs, inflight, workers, refusing>>
  BY <1>5 DEF Publish, CloseIdle, Close, vars, registry, pool
<1> QED BY <1>1, <1>2, <1>3, <1>4, <1>5 DEF Next, Reader

-----------------------------------------------------------------------------
(* The books of a connection.                                              *)

\* What the books are kept in.
ledgers == <<live, cancelled, marked, refusing, reqid>>

\* Frames and answers that nobody touched.
LEMMA SameFrames ==
  ASSUME UNCHANGED frames
  PROVE  \A d \in Conn : (AskedOnce(d) => AskedOnce(d)') /\ \A q : Asked(d, q)' <=> Asked(d, q)
BY DEF Asked, AskedOnce

\* The same holds of the answers.
LEMMA SameAnswers ==
  ASSUME UNCHANGED sent
  PROVE  \A d \in Conn : (AnsweredOnce(d) => AnsweredOnce(d)') /\ \A q : Answered(d, q)' <=> Answered(d, q)
BY DEF Answered, AnsweredOnce

\* The books of a connection that a step leaves alone.
LEMMA BooksKept ==
  ASSUME NEW d \in Conn, Books(d), live'[d] = live[d], cancelled'[d] = cancelled[d],
         marked'[d] = marked[d], refusing'[d] = refusing[d], reqid'[d] = reqid[d],
         \A q \in 1 .. Calls[d] : task'[d][q].pc = task[d][q].pc,
         \A q : Asked(d, q)' <=> Asked(d, q), \A q : Answered(d, q)' <=> Answered(d, q),
         AskedOnce(d)', AnsweredOnce(d)'
  PROVE  Books(d)'
<1>1. \A q \in 1 .. Calls[d] : OnePlace(d, q)'
  BY DEF Books, OnePlace
<1>2. live'[d] = {r \in 1 .. Calls[d] : task'[d][r].pc \in Alive}
  BY DEF Books
<1>3. cancelled'[d] = marked'[d] \cap live'[d]
  BY DEF Books
<1> QED BY <1>1, <1>2, <1>3 DEF Books

\* The books do not see how far an alive query has got.
LEMMA AliveHop ==
  ASSUME \A d \in Conn : Books(d), NEW c \in Conn, NEW r \in 1 .. Calls[c], NEW from, NEW to, NEW g,
         Hop(c, r, from, to, g), from \in Alive, to \in Alive, UNCHANGED <<ledgers, frames, sent>>
  PROVE  \A d \in Conn : Books(d)'
<1>1. task[c][r].pc = from /\ \A d \in Conn : \A q \in 1 .. Calls[d] :
        task'[d][q].pc = IF d = c /\ q = r THEN to ELSE task[d][q].pc
  BY DEF Hop, Became
<1>2. ASSUME NEW d \in Conn PROVE Books(d)'
  <2>1. Books(d) /\ AskedOnce(d)' /\ AnsweredOnce(d)'
    BY SameFrames, SameAnswers DEF Books
  <2>2. ASSUME NEW q \in 1 .. Calls[d] PROVE OnePlace(d, q)'
    <3>1. OnePlace(d, q) /\ (Asked(d, q)' <=> Asked(d, q))
          /\ (Answered(d, q)' <=> Answered(d, q))
      BY <2>1, SameFrames, SameAnswers DEF Books
    <3>2. CASE d = c /\ q = r
      <4>1. task[d][q].pc \in Alive /\ task'[d][q].pc \in Alive
        BY <1>1, <3>2
      <4> QED BY <3>1, <4>1 DEF OnePlace, Alive, ledgers
    <3>3. CASE ~(d = c /\ q = r)
      BY <1>1, <3>1, <3>3 DEF OnePlace, ledgers
    <3> QED BY <3>2, <3>3
  <2>3. live'[d] = {q \in 1 .. Calls[d] : task'[d][q].pc \in Alive}
    <3>1. \A q \in 1 .. Calls[d] : task'[d][q].pc \in Alive <=> task[d][q].pc \in Alive
      BY <1>1
    <3>2. live'[d] = live[d]
      BY DEF ledgers
    <3> QED BY <2>1, <3>1, <3>2 DEF Books
  <2> QED BY <2>1, <2>2, <2>3 DEF Books, ledgers
<1> QED BY <1>2

\* The query is over: it leaves the books, and one that was cancelled will not write.
LEMMA FinishBooks ==
  ASSUME Types, \A d \in Conn : Books(d), NEW c \in Conn, NEW r \in 1 .. Calls[c], Finish(c, r)
  PROVE  \A d \in Conn : Books(d)'
<1> DEFINE to == IF r \in cancelled[c] THEN "return" ELSE "write"
<1>1. /\ task[c][r].pc = "shard"
      /\ \A d \in Conn : \A q \in 1 .. Calls[d] :
           task'[d][q].pc = IF d = c /\ q = r THEN to ELSE task[d][q].pc
  <2>1. Hop(c, r, "shard", to, task[c][r].gen)
    BY OtherHops
  <2> HIDE DEF to
  <2> QED BY <2>1 DEF Hop, Became
<1>2. /\ UNCHANGED <<marked, refusing, reqid, frames, sent>>
      /\ live' = [live EXCEPT ![c] = @ \ {r}] /\ cancelled' = [cancelled EXCEPT ![c] = @ \ {r}]
  BY DEF Finish, client
<1>3. /\ live'[c] = live[c] \ {r} /\ cancelled'[c] = cancelled[c] \ {r}
      /\ \A d \in Conn : d # c => live'[d] = live[d] /\ cancelled'[d] = cancelled[d]
  BY <1>2 DEF Types
<1>4. /\ to \in {"return", "write"} /\ (to = "write" <=> r \notin cancelled[c])
      /\ r \in live[c] /\ (r \in cancelled[c] <=> r \in marked[c])
  BY <1>1 DEF Books, Alive
<1> HIDE DEF to
<1>5. ASSUME NEW d \in Conn PROVE Books(d)'
  <2>1. Books(d) /\ AskedOnce(d)' /\ AnsweredOnce(d)'
    BY <1>2, SameFrames, SameAnswers DEF Books
  <2>2. ASSUME NEW q \in 1 .. Calls[d] PROVE OnePlace(d, q)'
    <3>1. OnePlace(d, q) /\ (Asked(d, q)' <=> Asked(d, q))
          /\ (Answered(d, q)' <=> Answered(d, q))
      BY <1>2, <2>1, SameFrames, SameAnswers DEF Books
    <3>2. CASE d = c /\ q = r
      BY <1>1, <1>2, <1>4, <3>1, <3>2 DEF OnePlace
    <3>3. CASE ~(d = c /\ q = r)
      BY <1>1, <1>2, <3>1, <3>3 DEF OnePlace
    <3> QED BY <3>2, <3>3
  <2>3. live'[d] = {q \in 1 .. Calls[d] : task'[d][q].pc \in Alive}
    <3>1. "return" \notin Alive /\ "write" \notin Alive
      BY DEF Alive
    <3>2. live[d] = {q \in 1 .. Calls[d] : task[d][q].pc \in Alive}
      BY <2>1 DEF Books
    <3>3. \A q \in 1 .. Calls[d] :
            task'[d][q].pc \in Alive <=> (task[d][q].pc \in Alive /\ ~(d = c /\ q = r))
      BY <1>1, <1>4, <3>1
    <3> QED BY <1>3, <3>2, <3>3
  <2>4. cancelled'[d] = marked'[d] \cap live'[d]
    <3>1. cancelled[d] = marked[d] \cap live[d]
      BY <2>1 DEF Books
    <3> QED BY <1>2, <1>3, <3>1
  <2> QED BY <2>1, <2>2, <2>3, <2>4 DEF Books
<1> QED BY <1>5

\* A goroutine past its books: it writes its one answer, or steps towards its end.
LEMMA LateHop ==
  ASSUME \A d \in Conn : Books(d), NEW c \in Conn, NEW r \in 1 .. Calls[c], NEW from, NEW to, NEW g,
         Hop(c, r, from, to, g), from \in {"write", "return", "release"},
         to \in {"return", "release", "done"}, UNCHANGED <<ledgers, frames>>,
         \A d \in Conn : AnsweredOnce(d)',
         \A d \in Conn : \A q : (Answered(d, q)' <=> Answered(d, q))
                                  \/ (d = c /\ q = r /\ from = "write")
  PROVE  \A d \in Conn : Books(d)'
<1>1. task[c][r].pc = from /\ \A d \in Conn : \A q \in 1 .. Calls[d] :
        task'[d][q].pc = IF d = c /\ q = r THEN to ELSE task[d][q].pc
  BY DEF Hop, Became
<1>2. ASSUME NEW d \in Conn PROVE Books(d)'
  <2>1. Books(d) /\ AskedOnce(d)' /\ AnsweredOnce(d)'
    BY SameFrames DEF Books
  <2>2. ASSUME NEW q \in 1 .. Calls[d] PROVE OnePlace(d, q)'
    <3>1. OnePlace(d, q) /\ (Asked(d, q)' <=> Asked(d, q))
      BY <2>1, SameFrames DEF Books
    <3>2. CASE d = c /\ q = r
      <4>1. ~Asked(d, q)' /\ refusing[d] # q /\ ~(q > reqid[d])
        BY <1>1, <3>1, <3>2 DEF OnePlace
      <4>2. q \in marked[d] => from # "write" /\ ~Answered(d, q)
        BY <1>1, <3>1, <3>2 DEF OnePlace
      <4>3. q \in marked'[d] => ~Answered(d, q)'
        BY <3>2, <4>2 DEF ledgers
      <4> QED BY <1>1, <3>2, <4>1, <4>3 DEF OnePlace, ledgers
    <3>3. CASE ~(d = c /\ q = r)
      BY <1>1, <3>1, <3>3 DEF OnePlace, ledgers
    <3> QED BY <3>2, <3>3
  <2>3. live'[d] = {q \in 1 .. Calls[d] : task'[d][q].pc \in Alive}
    <3>1. \A q \in 1 .. Calls[d] : task'[d][q].pc \in Alive <=> task[d][q].pc \in Alive
      BY <1>1 DEF Alive
    <3>2. live'[d] = live[d]
      BY DEF ledgers
    <3> QED BY <2>1, <3>1, <3>2 DEF Books
  <2> QED BY <2>1, <2>2, <2>3 DEF Books, ledgers
<1> QED BY <1>2

\* A frame goes from the client to the reader: a query it refuses, or admits.
LEMMA ReadQueryBooks ==
  ASSUME Types, \A d \in Conn : Books(d), NEW c \in Conn, ReadQuery(c)
  PROVE  \A d \in Conn : Books(d)'
<1>1. PICK r \in 1 .. Calls[c] :
        /\ r = Head(frames[c]).reqid /\ r \in 1 .. reqid[c] /\ r # 0
        /\ task[c][r].pc = "none" /\ refusing[c] = 0 /\ Asked(c, r)
        /\ ~OverCap(inflight + 1) => Hop(c, r, "none", "start", task[c][r].gen)
  BY ReadQueryHops
<1>2. UNCHANGED <<cancelled, marked, sent, reqid>> /\ Reads(c, "query") /\ Consumed(c)
  BY DEF ReadQuery, client
<1>3. /\ \A d \in Conn : AskedOnce(d)'
      /\ \A d \in Conn : \A q : Asked(d, q)' <=> (Asked(d, q) /\ ~(d = c /\ q = r))
  BY <1>1, <1>2, FrameRead DEF Types, CallTypes, Books
<1>4. \A d \in Conn : AnsweredOnce(d)' /\ \A q : Answered(d, q)' <=> Answered(d, q)
  BY <1>2, SameAnswers DEF Books
<1>5. OnePlace(c, r) /\ r \notin marked[c] /\ ~Answered(c, r) /\ ~(r > reqid[c])
  <2>1. OnePlace(c, r)
    BY DEF Books
  <2>2. reqid[c] \in Nat
    BY DEF Types, CallTypes
  <2> QED BY <1>1, <2>1, <2>2 DEF OnePlace
<1>6. ASSUME NEW d \in Conn, d # c PROVE Books(d)'
  <2>1. live'[d] = live[d] /\ refusing'[d] = refusing[d]
    BY <1>6 DEF ReadQuery, Types, CallTypes
  <2>2. \A q \in 1 .. Calls[d] : task'[d][q].pc = task[d][q].pc
    BY <1>1, <1>6 DEF ReadQuery, Hop, Became
  <2>3. \A q : (Asked(d, q)' <=> Asked(d, q)) /\ (Answered(d, q)' <=> Answered(d, q))
    BY <1>3, <1>4, <1>6
  <2> QED BY <1>2, <1>3, <1>4, <2>1, <2>2, <2>3, BooksKept
<1>7. CASE OverCap(inflight + 1)
  <2>1. refusing' = [refusing EXCEPT ![c] = r] /\ UNCHANGED <<live, task>>
    BY <1>1, <1>7 DEF ReadQuery
  <2>2. refusing'[c] = r
    BY <2>1 DEF Types, CallTypes
  <2>3. ASSUME NEW q \in 1 .. Calls[c] PROVE OnePlace(c, q)'
    <3>1. OnePlace(c, q)
      BY DEF Books
    <3> QED BY <1>1, <1>2, <1>3, <1>4, <1>5, <2>1, <2>2, <3>1 DEF OnePlace
  <2>4. live'[c] = {q \in 1 .. Calls[c] : task'[c][q].pc \in Alive} /\ cancelled'[c] = marked'[c] \cap live'[c]
    BY <1>2, <2>1 DEF Books
  <2> QED BY <1>3, <1>4, <1>6, <2>3, <2>4 DEF Books
<1>8. CASE ~OverCap(inflight + 1)
  <2>1. live' = [live EXCEPT ![c] = @ \cup {r}] /\ refusing' = refusing
    BY <1>1, <1>8 DEF ReadQuery
  <2>2. live'[c] = live[c] \cup {r}
    BY <2>1 DEF Types
  <2>3. \A q \in 1 .. Calls[c] : task'[c][q].pc = IF q = r THEN "start" ELSE task[c][q].pc
    BY <1>1, <1>8 DEF Hop, Became
  <2>4. ASSUME NEW q \in 1 .. Calls[c] PROVE OnePlace(c, q)'
    <3>1. OnePlace(c, q)
      BY DEF Books
    <3>2. CASE q = r
      BY <1>1, <1>2, <1>3, <1>4, <1>5, <2>1, <2>3, <3>2 DEF OnePlace
    <3>3. CASE q # r
      BY <1>2, <1>3, <1>4, <2>1, <2>3, <3>1, <3>3 DEF OnePlace
    <3> QED BY <3>2, <3>3
  <2>5. live'[c] = {q \in 1 .. Calls[c] : task'[c][q].pc \in Alive} /\ cancelled'[c] = marked'[c] \cap live'[c]
    <3>1. /\ live[c] = {q \in 1 .. Calls[c] : task[c][q].pc \in Alive}
          /\ cancelled[c] = marked[c] \cap live[c]
      BY DEF Books
    <3>2. "start" \in Alive
      BY DEF Alive
    <3> QED BY <1>2, <1>5, <2>2, <2>3, <3>1, <3>2
  <2> QED BY <1>3, <1>4, <1>6, <2>4, <2>5 DEF Books
<1> QED BY <1>7, <1>8

\* A ping is answered where it is read.
LEMMA ReadPingBooks ==
  ASSUME Types, \A d \in Conn : Books(d), NEW c \in Conn, ReadPing(c)
  PROVE  /\ AnswerTypes' /\ \A d \in Conn : Books(d)'
         /\ \A q : q = Head(frames[c]).reqid => AnswerGoes(c, q)
<1> DEFINE r == Head(frames[c]).reqid
           f == [kind |-> "ping", reqid |-> r]
<1>1. /\ UNCHANGED <<ledgers, task, got>> /\ Reads(c, "ping") /\ Consumed(c) /\ Write(c, f)
  BY DEF ReadPing, client, books, ledgers
<1>2. reqid' = reqid /\ AskedOnce(c) /\ FrameTypes /\ CallTypes /\ AnswerTypes
  BY <1>1 DEF ledgers, Books, Types, CallTypes
<1>3. /\ r \in 1 .. reqid[c] /\ Asked(c, r)
      /\ \A d \in Conn : AskedOnce(d) => AskedOnce(d)'
      /\ \A d \in Conn : \A q : Asked(d, q)' <=> (Asked(d, q) /\ ~(d = c /\ q = r))
  BY <1>1, <1>2, FrameRead
<1>4. r \in 1 .. Calls[c] /\ OnePlace(c, r)
  <2>1. reqid[c] \in Nat /\ reqid[c] <= Calls[c] /\ Calls[c] \in Nat
    BY <1>2, ServeAssumption DEF CallTypes
  <2> HIDE DEF r
  <2>2. r \in 1 .. Calls[c]
    BY <1>3, <2>1
  <2> QED BY <2>2 DEF Books
<1>5. /\ task[c][r].pc = "none" /\ ~Answered(c, r) /\ refusing[c] # r /\ r \notin marked[c]
  BY <1>3, <1>4 DEF OnePlace
<1>6. f \in Answers /\ f.reqid = r
  <2>1. r \in Nat
    BY <1>3
  <2> QED BY <2>1 DEF Answers
<1> HIDE DEF r, f
<1>7. /\ AnswerTypes' /\ \A d \in Conn : AnsweredOnce(d) => AnsweredOnce(d)'
      /\ \A d \in Conn : \A q : Answered(d, q)' <=> (Answered(d, q) \/ (d = c /\ conn[c] = "open" /\ q = r))
  BY <1>1, <1>2, <1>3, <1>5, <1>6, AnswerSent
<1>8. ASSUME NEW d \in Conn PROVE Books(d)'
  <2>1. Books(d) /\ AskedOnce(d)' /\ AnsweredOnce(d)'
    BY <1>3, <1>7 DEF Books
  <2>2. ASSUME NEW q \in 1 .. Calls[d] PROVE OnePlace(d, q)'
    <3>1. OnePlace(d, q)
      BY <2>1 DEF Books
    <3>2. CASE d = c /\ q = r
      <4>1. ~Asked(d, q)' /\ task'[d][q].pc = "none" /\ refusing'[d] # q /\ q \notin marked'[d]
        BY <1>1, <1>3, <1>5, <3>2 DEF ledgers
      <4> QED BY <4>1 DEF OnePlace
    <3>3. CASE ~(d = c /\ q = r)
      <4>1. (Asked(d, q)' <=> Asked(d, q)) /\ (Answered(d, q)' <=> Answered(d, q))
        BY <1>3, <1>7, <3>3
      <4> QED BY <1>1, <3>1, <4>1 DEF OnePlace, ledgers
    <3> QED BY <3>2, <3>3
  <2>3. live'[d] = {q \in 1 .. Calls[d] : task'[d][q].pc \in Alive} /\ cancelled'[d] = marked'[d] \cap live'[d]
    BY <1>1, <2>1 DEF Books, ledgers
  <2> QED BY <2>1, <2>2, <2>3 DEF Books
<1>9. ASSUME NEW q, q = r PROVE AnswerGoes(c, q)
  BY <1>1, <1>2, <1>3, <1>5, <1>6, <1>9, AnswerSent
<1> QED BY <1>7, <1>8, <1>9 DEF r

\* A cancel marks the request it finds alive, and no other.
LEMMA ReadCancelBooks ==
  ASSUME Types, \A d \in Conn : Books(d), NEW c \in Conn, ReadCancel(c)
  PROVE  \A d \in Conn : Books(d)'
<1> DEFINE r == Head(frames[c]).reqid
<1>1. /\ UNCHANGED <<live, refusing, reqid, task, sent>> /\ Reads(c, "cancel") /\ Consumed(c)
      /\ cancelled' = IF r \in live[c] THEN [cancelled EXCEPT ![c] = @ \cup {r}] ELSE cancelled
      /\ marked' = IF r \in live[c] THEN [marked EXCEPT ![c] = @ \cup {r}] ELSE marked
  BY DEF ReadCancel, Cancel, client
<1>2. /\ \A d \in Conn : AskedOnce(d)'
      /\ \A d \in Conn : \A q : Asked(d, q)' <=> Asked(d, q)
  <2>1. FrameTypes /\ AskedOnce(c) /\ reqid' = reqid
    BY <1>1 DEF Types, CallTypes, Books
  <2>2. \A d \in Conn : AskedOnce(d)
    BY DEF Books
  <2> QED BY <1>1, <2>1, <2>2, FrameRead
<1>3. \A d \in Conn : AnsweredOnce(d)' /\ \A q : Answered(d, q)' <=> Answered(d, q)
  BY <1>1, SameAnswers DEF Books
<1> HIDE DEF r
<1>4. \A d \in Conn :
        /\ cancelled'[d] = IF d = c /\ r \in live[c] THEN cancelled[d] \cup {r} ELSE cancelled[d]
        /\ marked'[d] = IF d = c /\ r \in live[c] THEN marked[d] \cup {r} ELSE marked[d]
  BY <1>1 DEF Types
<1>5. ASSUME NEW d \in Conn PROVE Books(d)'
  <2>1. Books(d)
    OBVIOUS
  <2>2. ASSUME NEW q \in 1 .. Calls[d] PROVE OnePlace(d, q)'
    <3>1. OnePlace(d, q) /\ (Asked(d, q)' <=> Asked(d, q)) /\ (Answered(d, q)' <=> Answered(d, q))
      BY <1>2, <1>3, <2>1 DEF Books
    <3>2. CASE d = c /\ q = r /\ r \in live[c]
      <4>1. task[d][q].pc \in Alive
        BY <2>1, <3>2 DEF Books
      <4> QED BY <1>1, <3>1, <4>1 DEF OnePlace, Alive
    <3>3. CASE ~(d = c /\ q = r /\ r \in live[c])
      <4>1. q \in marked'[d] <=> q \in marked[d]
        BY <1>4, <3>3
      <4> QED BY <1>1, <3>1, <4>1 DEF OnePlace
    <3> QED BY <3>2, <3>3
  <2>3. cancelled'[d] = marked'[d] \cap live'[d]
    <3>1. cancelled[d] = marked[d] \cap live[d] /\ live'[d] = live[d]
      BY <1>1, <2>1 DEF Books
    <3> QED BY <1>4, <3>1
  <2>4. live'[d] = {q \in 1 .. Calls[d] : task'[d][q].pc \in Alive}
    BY <1>1, <2>1 DEF Books
  <2> QED BY <1>2, <1>3, <2>2, <2>3, <2>4 DEF Books
<1> QED BY <1>5

\* The refused query is answered, if anybody is left to answer.
LEMMA RefuseBooks ==
  ASSUME Types, \A d \in Conn : Books(d), NEW c \in Conn, Refuse(c)
  PROVE  /\ AnswerTypes' /\ \A d \in Conn : Books(d)'
         /\ \A q : q = refusing[c] => AnswerGoes(c, q)
<1> DEFINE r == refusing[c]
           f == [kind |-> "busy", reqid |-> r]
<1>1. /\ UNCHANGED <<live, cancelled, marked, reqid, got, task, frames>> /\ Write(c, f)
      /\ r # 0 /\ refusing' = [refusing EXCEPT ![c] = 0]
  BY DEF Refuse, client, books
<1>2. /\ r \in 1 .. reqid[c] /\ r \in 1 .. Calls[c] /\ refusing'[c] = 0
      /\ \A d \in Conn : d # c => refusing'[d] = refusing[d]
  <2>1. /\ refusing \in [Conn -> Nat] /\ r \in Nat /\ r <= reqid[c] /\ reqid[c] \in Nat
        /\ reqid[c] <= Calls[c] /\ Calls[c] \in Nat
    BY ServeAssumption DEF Types, CallTypes
  <2>2. refusing'[c] = 0 /\ \A d \in Conn : d # c => refusing'[d] = refusing[d]
    BY <1>1, <2>1
  <2> HIDE DEF r
  <2> QED BY <1>1, <2>1, <2>2
<1>3. /\ task[c][r].pc = "none" /\ ~Answered(c, r) /\ ~Asked(c, r) /\ r \notin marked[c]
      /\ \A q \in 1 .. Calls[c] : q = r => OnePlace(c, q)
  <2>1. OnePlace(c, r)
    BY <1>2 DEF Books
  <2> QED BY <2>1 DEF OnePlace
<1>4. f \in Answers /\ f.reqid = r /\ AnswerTypes /\ CallTypes
  BY <1>2 DEF Answers, Types, CallTypes
<1> HIDE DEF r, f
<1>5. /\ AnswerTypes' /\ \A d \in Conn : AnsweredOnce(d) => AnsweredOnce(d)'
      /\ \A d \in Conn : \A q : Answered(d, q)' <=> (Answered(d, q) \/ (d = c /\ conn[c] = "open" /\ q = r))
  BY <1>1, <1>2, <1>3, <1>4, AnswerSent
<1>6. ASSUME NEW d \in Conn PROVE Books(d)'
  <2>1. Books(d) /\ AskedOnce(d)' /\ AnsweredOnce(d)' /\ \A q : Asked(d, q)' <=> Asked(d, q)
    BY <1>1, <1>5, SameFrames DEF Books
  <2>2. ASSUME NEW q \in 1 .. Calls[d] PROVE OnePlace(d, q)'
    <3>1. OnePlace(d, q) /\ q # 0
      BY <2>1 DEF Books
    <3>2. CASE d = c /\ q = r
      <4>1. ~Asked(d, q)' /\ task'[d][q].pc = "none" /\ refusing'[d] # q /\ q \notin marked'[d]
        BY <1>1, <1>2, <1>3, <2>1, <3>1, <3>2
      <4> QED BY <4>1 DEF OnePlace
    <3>3. CASE ~(d = c /\ q = r)
      <4>1. (Asked(d, q)' <=> Asked(d, q)) /\ (Answered(d, q)' <=> Answered(d, q))
        BY <1>5, <2>1, <3>3
      <4>2. refusing'[d] = q => refusing[d] = q
        BY <1>2, <3>1
      <4> QED BY <1>1, <3>1, <4>1, <4>2 DEF OnePlace
    <3> QED BY <3>2, <3>3
  <2>3. live'[d] = {q \in 1 .. Calls[d] : task'[d][q].pc \in Alive} /\ cancelled'[d] = marked'[d] \cap live'[d]
    BY <1>1, <2>1 DEF Books
  <2> QED BY <2>1, <2>2, <2>3 DEF Books
<1>7. ASSUME NEW q, q = r PROVE AnswerGoes(c, q)
  BY <1>1, <1>2, <1>3, <1>4, <1>7, AnswerSent
<1> QED BY <1>5, <1>6, <1>7 DEF r

\* A call takes a number that nobody knows yet.
LEMMA CallStartBooks ==
  ASSUME Types, \A d \in Conn : Books(d), NEW c \in Conn, NEW kind \in {"query", "ping"},
         CallStart(c, kind)
  PROVE  /\ reqid' = [reqid EXCEPT ![c] = @ + 1] /\ reqid' \in [Conn -> Nat]
         /\ FrameTypes' /\ Asked(c, reqid[c])' /\ \A d \in Conn : Books(d)'
<1>9. reqid \in [Conn -> Nat] /\ \A d \in Conn : reqid[d] <= Calls[d] /\ Calls[d] \in Nat
  BY ServeAssumption DEF Types, CallTypes
<1>0. PICK r \in Nat : r = reqid[c] + 1
  BY <1>9
<1> DEFINE f == [kind |-> kind, reqid |-> reqid[c] + 1]
<1>1. /\ UNCHANGED <<live, cancelled, marked, refusing, task, sent>>
      /\ reqid' = [reqid EXCEPT ![c] = @ + 1] /\ reqid[c] < Calls[c]
      /\ frames' = [frames EXCEPT ![c] = Append(@, f)]
  BY DEF CallStart, books
<1>2. /\ reqid' \in [Conn -> Nat] /\ reqid'[c] = r /\ r \in 1 .. Calls[c] /\ r > reqid[c]
      /\ \A d \in Conn : (d # c => reqid'[d] = reqid[d]) /\ reqid[d] \in Nat /\ reqid'[d] >= reqid[d]
  BY <1>0, <1>1, <1>9
<1>3. ~Asked(c, r) /\ ~Answered(c, r) /\ refusing[c] # r
  BY <1>2 DEF Types, CallTypes, FrameTypes, AnswerTypes, Asked, Answered
<1>4. f \in Frames /\ f.reqid = r /\ f.kind # "cancel" /\ f.reqid \in 1 .. reqid'[c]
  BY <1>0, <1>2 DEF Frames
<1>5. FrameTypes /\ CallTypes
  BY DEF Types, CallTypes
<1> HIDE DEF f
<1>6. /\ FrameTypes' /\ \A d \in Conn : AskedOnce(d) => AskedOnce(d)'
      /\ \A d \in Conn : \A q : Asked(d, q)' <=> (Asked(d, q) \/ (d = c /\ q = r))
  <2>1. ~Asked(c, f.reqid) /\ \A d \in Conn : reqid'[d] >= reqid[d]
    BY <1>2, <1>3, <1>4
  <2>2. FrameTypes'
    BY <1>1, <1>2, <1>4, <1>5, <2>1, FrameSent
  <2>3. ASSUME NEW d \in Conn, AskedOnce(d) PROVE AskedOnce(d)'
    BY <1>1, <1>2, <1>4, <1>5, <2>1, <2>3, FrameSent
  <2>4. \A d \in Conn : \A q : Asked(d, q)' <=> (Asked(d, q) \/ (d = c /\ f.kind # "cancel" /\ q = f.reqid))
    BY <1>1, <1>2, <1>4, <1>5, <2>1, FrameSent
  <2> QED BY <1>4, <2>2, <2>3, <2>4
<1>7. ASSUME NEW d \in Conn PROVE Books(d)'
  <2>1. Books(d) /\ AskedOnce(d)' /\ AnsweredOnce(d)' /\ \A q : Answered(d, q)' <=> Answered(d, q)
    BY <1>1, <1>6, SameAnswers DEF Books
  <2>2. ASSUME NEW q \in 1 .. Calls[d] PROVE OnePlace(d, q)'
    <3>1. OnePlace(d, q) /\ (q > reqid'[d] => q > reqid[d])
      BY <1>2, <2>1 DEF Books
    <3>2. CASE d = c /\ q = r
      <4>1. task[d][q].pc = "none" /\ q \notin marked[d]
        BY <1>2, <3>1, <3>2 DEF OnePlace
      <4>2. ~Answered(d, q)' /\ refusing'[d] # q /\ task'[d][q].pc = "none" /\ q \notin marked'[d]
        BY <1>1, <1>3, <2>1, <3>2, <4>1
      <4> QED BY <4>2 DEF OnePlace
    <3>3. CASE ~(d = c /\ q = r)
      <4>1. (Asked(d, q)' <=> Asked(d, q)) /\ (Answered(d, q)' <=> Answered(d, q))
        BY <1>6, <2>1, <3>3
      <4> QED BY <1>1, <3>1, <4>1 DEF OnePlace
    <3> QED BY <3>2, <3>3
  <2>3. live'[d] = {q \in 1 .. Calls[d] : task'[d][q].pc \in Alive} /\ cancelled'[d] = marked'[d] \cap live'[d]
    BY <1>1, <2>1 DEF Books
  <2> QED BY <2>1, <2>2, <2>3 DEF Books
<1>8. Asked(c, reqid[c])'
  <2>1. Asked(c, r)'
    BY <1>6
  <2> QED BY <1>2, <2>1 DEF Asked
<1> QED BY <1>1, <1>2, <1>6, <1>7, <1>8

\* A cancel frame asks for nothing.
LEMMA CancelSendBooks ==
  ASSUME Types, \A d \in Conn : Books(d), NEW c \in Conn, CancelSend(c)
  PROVE  /\ FrameTypes' /\ \A d \in Conn : Books(d)'
         /\ \A d \in Conn : \A q : Asked(d, q)' <=> Asked(d, q)
<1> DEFINE f == [kind |-> "cancel", reqid |-> reqid[c]]
<1>1. /\ UNCHANGED <<ledgers, task, sent>> /\ reqid[c] > 0
      /\ frames' = [frames EXCEPT ![c] = Append(@, f)]
  BY DEF CancelSend, books, client, ledgers
<1>2. /\ reqid' = reqid /\ reqid' \in [Conn -> Nat] /\ \A d \in Conn : reqid[d] \in Nat
  BY <1>1 DEF ledgers, Types, CallTypes
<1>3. f \in Frames /\ f.kind = "cancel" /\ f.reqid \in 1 .. reqid'[c] /\ FrameTypes /\ CallTypes
  BY <1>1, <1>2 DEF Frames, Types, CallTypes
<1> HIDE DEF f
<1>4. /\ FrameTypes' /\ \A d \in Conn : AskedOnce(d) => AskedOnce(d)'
      /\ \A d \in Conn : \A q : Asked(d, q)' <=> Asked(d, q)
  <2>1. \A d \in Conn : reqid'[d] >= reqid[d]
    BY <1>2
  <2> QED BY <1>1, <1>2, <1>3, <2>1, FrameSent
<1>5. ASSUME NEW d \in Conn PROVE Books(d)'
  <2>1. AskedOnce(d)' /\ AnsweredOnce(d)' /\ \A q : Answered(d, q)' <=> Answered(d, q)
    BY <1>1, <1>4, SameAnswers DEF Books
  <2> QED BY <1>1, <1>4, <2>1, BooksKept DEF ledgers
<1> QED BY <1>4, <1>5

\* The result of a query is its first and only answer, if a frame carries it.
LEMMA WriteResultBooks ==
  ASSUME Types, \A d \in Conn : Books(d), NEW c \in Conn, NEW r \in 1 .. Calls[c], WriteResult(c, r)
  PROVE  /\ AnswerTypes' /\ \A d \in Conn : Books(d)'
         /\ IF task[c][r].over THEN UNCHANGED sent ELSE AnswerGoes(c, r)
<1> DEFINE f == [kind |-> "qresult", reqid |-> r]
<1>0. /\ UNCHANGED <<ledgers, got, frames>> /\ task[c][r].pc = "write"
      /\ Hop(c, r, "write", "return", task[c][r].gen)
      /\ IF task[c][r].over THEN UNCHANGED sent ELSE Write(c, f)
  BY OtherHops DEF WriteResult, client, books, ledgers, At
<1>9. CASE task[c][r].over
  <2>1. UNCHANGED sent
    BY <1>0, <1>9
  <2>2. AnswerTypes'
    BY <1>0, <2>1 DEF Types, CallTypes, AnswerTypes, ledgers
  <2>3. \A d \in Conn : AnsweredOnce(d)' /\ \A q : Answered(d, q)' <=> Answered(d, q)
    BY <2>1, SameAnswers DEF Books
  <2>4. UNCHANGED <<ledgers, frames>>
    BY <1>0
  <2>5. \A d \in Conn : Books(d)'
    BY <1>0, <2>3, <2>4, LateHop
  <2> QED BY <1>9, <2>1, <2>2, <2>5
<1> SUFFICES ASSUME ~task[c][r].over
             PROVE  AnswerTypes' /\ AnswerGoes(c, r) /\ \A d \in Conn : Books(d)'
  BY <1>9
<1>1. /\ UNCHANGED <<ledgers, got, frames>> /\ Write(c, f) /\ task[c][r].pc = "write"
      /\ Hop(c, r, "write", "return", task[c][r].gen)
  BY <1>0
<1>2. r \in 1 .. reqid[c] /\ ~Answered(c, r)
  <2>1. OnePlace(c, r) /\ reqid[c] \in Nat
    BY DEF Books, Types, CallTypes
  <2> QED BY <1>1, <2>1 DEF OnePlace
<1>3. f \in Answers /\ f.reqid = r /\ AnswerTypes /\ CallTypes /\ UNCHANGED <<reqid, got>>
  BY <1>1, <1>2 DEF Answers, Types, CallTypes, ledgers
<1> HIDE DEF f
<1>4. /\ AnswerTypes' /\ \A d \in Conn : AnsweredOnce(d) => AnsweredOnce(d)'
      /\ \A d \in Conn : \A q : Answered(d, q)' <=> (Answered(d, q) \/ (d = c /\ conn[c] = "open" /\ q = r))
  BY <1>1, <1>2, <1>3, AnswerSent
<1>5. /\ \A d \in Conn : AnsweredOnce(d)'
      /\ \A d \in Conn : \A q : (Answered(d, q)' <=> Answered(d, q)) \/ (d = c /\ q = r)
  BY <1>4 DEF Books
<1>6. UNCHANGED <<ledgers, frames>>
  BY <1>1
<1>7. \A d \in Conn : Books(d)'
  BY <1>1, <1>5, <1>6, LateHop
<1>8. AnswerGoes(c, r)
  BY <1>1, <1>2, <1>3, AnswerSent
<1> QED BY <1>4, <1>7, <1>8

\* A step that touches neither the books nor the connections' traffic.
LEMMA StillBooks ==
  ASSUME \A d \in Conn : Books(d), UNCHANGED <<ledgers, task, frames, sent>>
  PROVE  \A d \in Conn : Books(d)'
<1> SUFFICES ASSUME NEW d \in Conn PROVE Books(d)'
  OBVIOUS
<1>1. Books(d) /\ AskedOnce(d)' /\ AnsweredOnce(d)'
  BY SameFrames, SameAnswers DEF Books
<1> QED BY <1>1, SameFrames, SameAnswers, BooksKept DEF ledgers

\* No step of a query's goroutine spoils a connection's books.
LEMMA GoroutineBooks ==
  ASSUME Types, \A d \in Conn : Books(d), NEW c \in Conn, NEW r \in 1 .. Calls[c], Goroutine(c, r)
  PROVE  \A d \in Conn : Books(d)'
<1> DEFINE g == task[c][r].gen
<1>1. \A pc \in {"start", "shard", "pinned", "closing"} : pc \in Alive
  BY DEF Alive
<1>2. ASSUME \/ TakeWorker(c, r) \/ SkipShards(c, r) \/ NotMounted(c, r) \/ Acquire(c, r)
             \/ Search(c, r) \/ ReleasePin(c, r) \/ CloseDrained(c, r)
      PROVE  UNCHANGED <<ledgers, frames, sent>>
  BY <1>2 DEF TakeWorker, SkipShards, NotMounted, Acquire, Search, ReleasePin, CloseDrained, books,
              client, ledgers
<1>3. CASE TakeWorker(c, r)
  BY <1>1, <1>2, <1>3, OtherHops, AliveHop
<1>4. CASE SkipShards(c, r) \/ NotMounted(c, r)
  BY <1>1, <1>2, <1>4, OtherHops, AliveHop
<1>5. CASE Acquire(c, r)
  <2>1. \E h : Hop(c, r, "shard", "pinned", h)
    BY <1>5, AcquireHops
  <2> QED BY <1>1, <1>2, <1>5, <2>1, AliveHop
<1>6. CASE ReleasePin(c, r)
  <2>1. \E to \in {"closing", "shard"} : \E h : Hop(c, r, "pinned", to, h)
    BY <1>6, ReleasePinHops
  <2> QED BY <1>1, <1>2, <1>6, <2>1, AliveHop
<1>7. CASE CloseDrained(c, r)
  BY <1>1, <1>2, <1>7, CloseDrainedHops, AliveHop
<1>8. CASE ReturnWorker(c, r) \/ Release(c, r)
  <2>1. UNCHANGED <<ledgers, frames>> /\ sent' = sent
    BY <1>8 DEF ReturnWorker, Release, books, client, ledgers
  <2>2. \E from \in {"return", "release"}, to \in {"release", "done"} : Hop(c, r, from, to, g)
    BY <1>8, OtherHops
  <2>3. \A d \in Conn : AnsweredOnce(d)' /\ \A q : Answered(d, q)' <=> Answered(d, q)
    BY <2>1, SameAnswers DEF Books
  <2> HIDE DEF g
  <2> QED BY <2>1, <2>2, <2>3, LateHop
<1>9. CASE Search(c, r)
  BY <1>1, <1>2, <1>9, SearchHops, AliveHop
<1> QED BY <1>3, <1>4, <1>5, <1>6, <1>7, <1>8, <1>9, FinishBooks, WriteResultBooks DEF Goroutine

\* No step spoils a connection's books.
LEMMA BooksStep ==
  ASSUME Types, \A d \in Conn : Books(d), [Next]_vars
  PROVE  \A d \in Conn : Books(d)'
<1>1. ASSUME NEW c \in Conn, Reader(c) PROVE \A d \in Conn : Books(d)'
  BY <1>1, ReadPingBooks, ReadCancelBooks, ReadQueryBooks, RefuseBooks DEF Reader
<1>2. ASSUME NEW c \in Conn, Client(c) PROVE \A d \in Conn : Books(d)'
  <2>1. CASE \E kind \in {"query", "ping"} : CallStart(c, kind)
    BY <2>1, CallStartBooks
  <2>2. CASE CancelSend(c)
    BY <2>2, CancelSendBooks
  <2>3. CASE Receive(c) \/ ReceiveFails(c)
    BY <2>3, StillBooks DEF Receive, ReceiveFails, books, ledgers
  <2> QED BY <1>2, <2>1, <2>2, <2>3 DEF Client
<1>3. ASSUME NEW c \in Conn, Accept(c) \/ CloseConn(c) \/ Hangup(c)
      PROVE  UNCHANGED <<ledgers, task, frames, sent>>
  BY <1>3 DEF Accept, CloseConn, Hangup, books, client, ledgers
<1>4. ASSUME \/ \E s \in 1 .. Shards : Publish(s)
             \/ \E g \in Gens : CloseIdle(g)
             \/ Close
             \/ UNCHANGED vars
      PROVE  UNCHANGED <<ledgers, task, frames, sent>>
  BY <1>4 DEF Publish, CloseIdle, Close, vars, books, client, ledgers
<1> QED BY <1>1, <1>2, <1>3, <1>4, GoroutineBooks, StillBooks DEF Next

-----------------------------------------------------------------------------
(* The values of the variables.                                            *)

\* Every goroutine step leaves the tasks well typed.
LEMMA TaskTypesStep ==
  ASSUME Types, \A d \in Conn : Books(d), [Next]_vars
  PROVE  TaskTypes'
<1>1. ASSUME UNCHANGED task PROVE TaskTypes'
  BY <1>1 DEF Types, TaskTypes
<1>2. ASSUME NEW c \in Conn, ReadQuery(c) PROVE TaskTypes'
  <2>1. CASE OverCap(inflight + 1)
    BY <1>1, <1>2, <2>1 DEF ReadQuery
  <2>2. CASE ~OverCap(inflight + 1)
    BY <1>2, <2>2, ReadQueryHops DEF Hop
  <2> QED BY <2>1, <2>2
<1>3. ASSUME NEW c \in Conn, NEW r \in 1 .. Calls[c], Goroutine(c, r) PROVE TaskTypes'
  <2>1. CASE Acquire(c, r)
    BY <2>1, AcquireHops DEF Hop
  <2>2. CASE ReleasePin(c, r)
    BY <2>2, ReleasePinHops DEF Hop
  <2>3. CASE CloseDrained(c, r)
    BY <2>3, CloseDrainedHops DEF Hop
  <2>4. ASSUME \/ TakeWorker(c, r) \/ SkipShards(c, r) \/ NotMounted(c, r) \/ Finish(c, r)
               \/ WriteResult(c, r) \/ ReturnWorker(c, r) \/ Release(c, r) \/ Search(c, r)
        PROVE  TaskTypes'
    BY <2>4, OtherHops, SearchHops DEF Hop
  <2> QED BY <1>3, <2>1, <2>2, <2>3, <2>4 DEF Goroutine
<1>4. ASSUME NEW c \in Conn,
             \/ Accept(c) \/ CloseConn(c) \/ Hangup(c) \/ Client(c)
             \/ ReadPing(c) \/ ReadCancel(c) \/ Refuse(c)
      PROVE  UNCHANGED task
  BY <1>4 DEF Accept, CloseConn, Hangup, Client, CallStart, Receive, ReceiveFails, CancelSend,
              ReadPing, ReadCancel, Refuse
<1>5. ASSUME \/ \E s \in 1 .. Shards : Publish(s)
             \/ \E g \in Gens : CloseIdle(g)
             \/ Close
             \/ UNCHANGED vars
      PROVE  UNCHANGED task
  BY <1>5 DEF Publish, CloseIdle, Close, vars
<1> QED BY <1>1, <1>2, <1>3, <1>4, <1>5 DEF Next, Reader

\* Frames and answers are of requests the client has made.
LEMMA CallTypesStep ==
  ASSUME Types, \A d \in Conn : Books(d), [Next]_vars
  PROVE  CallTypes'
<1>0. /\ CallTypes /\ FrameTypes /\ AnswerTypes /\ \A d \in Conn : Calls[d] \in Nat
      /\ reqid \in [Conn -> Nat] /\ got \in [Conn -> Nat] /\ refusing \in [Conn -> Nat]
      /\ \A c \in Conn : reqid[c] <= Calls[c] /\ refusing[c] <= reqid[c]
  BY ServeAssumption DEF Types, CallTypes
<1>1. ASSUME UNCHANGED <<frames, reqid>> PROVE FrameTypes'
  BY <1>0, <1>1 DEF FrameTypes
<1>2. ASSUME UNCHANGED <<sent, reqid>> PROVE AnswerTypes'
  BY <1>0, <1>2 DEF AnswerTypes
<1>3. ASSUME UNCHANGED <<frames, sent, reqid, got, refusing>> PROVE CallTypes'
  BY <1>0, <1>1, <1>2, <1>3 DEF CallTypes
<1>4. ASSUME NEW c \in Conn, NEW kind, Reads(c, kind), Consumed(c), reqid' = reqid PROVE FrameTypes'
  BY <1>0, <1>4, FrameRead DEF Books
<1>5. ASSUME NEW c \in Conn, Reader(c) PROVE CallTypes'
  <2>1. CASE ReadPing(c)
    <3>1. UNCHANGED <<reqid, got, refusing>> /\ Reads(c, "ping") /\ Consumed(c)
      BY <2>1 DEF ReadPing, client
    <3> QED BY <1>0, <1>4, <2>1, <3>1, ReadPingBooks DEF CallTypes
  <2>2. CASE ReadCancel(c)
    <3>1. UNCHANGED <<reqid, got, refusing, sent>> /\ Reads(c, "cancel") /\ Consumed(c)
      BY <2>2 DEF ReadCancel, client
    <3> QED BY <1>0, <1>2, <1>4, <3>1 DEF CallTypes
  <2>3. CASE ReadQuery(c)
    <3>1. UNCHANGED <<reqid, got, sent>> /\ Reads(c, "query") /\ Consumed(c)
      BY <2>3 DEF ReadQuery, client
    <3>2. PICK r \in 1 .. reqid[c] : r = Head(frames[c]).reqid
      BY <2>3, ReadQueryHops
    <3>3. refusing' = refusing \/ refusing' = [refusing EXCEPT ![c] = r]
      BY <2>3, <3>2 DEF ReadQuery
    <3>4. refusing' \in [Conn -> Nat] /\ \A d \in Conn : refusing'[d] <= reqid[d]
      BY <1>0, <3>3
    <3> QED BY <1>0, <1>2, <1>4, <3>1, <3>4 DEF CallTypes
  <2>4. CASE Refuse(c)
    <3>1. UNCHANGED <<reqid, got, frames>> /\ refusing' = [refusing EXCEPT ![c] = 0]
      BY <2>4 DEF Refuse, client
    <3>2. refusing' \in [Conn -> Nat] /\ \A d \in Conn : refusing'[d] <= reqid[d]
      BY <1>0, <3>1
    <3> QED BY <1>0, <1>1, <2>4, <3>1, <3>2, RefuseBooks DEF CallTypes
  <2> QED BY <1>5, <2>1, <2>2, <2>3, <2>4 DEF Reader
<1>6. ASSUME NEW c \in Conn, NEW kind \in {"query", "ping"}, CallStart(c, kind) PROVE CallTypes'
  <2>1. /\ reqid[c] < Calls[c] /\ UNCHANGED <<got, refusing, sent>>
        /\ reqid' = [reqid EXCEPT ![c] = @ + 1] /\ FrameTypes'
    BY <1>6, CallStartBooks DEF CallStart
  <2>2. /\ reqid' \in [Conn -> Nat]
        /\ \A d \in Conn : reqid'[d] >= reqid[d] /\ reqid'[d] <= Calls[d] /\ reqid'[d] \in Nat
    BY <1>0, <2>1
  <2>3. \A d \in Conn : refusing'[d] <= reqid'[d]
    BY <1>0, <2>1, <2>2
  <2>4. AnswerTypes'
    <3>1. sent \in [Conn -> Seq(Answers)] /\ sent' = sent
      BY <1>0, <2>1 DEF AnswerTypes
    <3>2. ASSUME NEW d \in Conn, NEW i \in DOMAIN sent[d] PROVE sent[d][i].reqid \in 1 .. reqid'[d]
      <4>1. sent[d][i].reqid \in 1 .. reqid[d] /\ reqid[d] \in Nat
        BY <1>0 DEF AnswerTypes
      <4> QED BY <2>2, <4>1
    <3> QED BY <3>1, <3>2 DEF AnswerTypes
  <2> QED BY <1>0, <2>1, <2>2, <2>3, <2>4 DEF CallTypes
<1>7. ASSUME NEW c \in Conn, Receive(c) \/ ReceiveFails(c) \/ CancelSend(c) PROVE CallTypes'
  <2>1. CASE Receive(c)
    <3>1. UNCHANGED <<frames, sent, reqid, refusing>> /\ got' = [got EXCEPT ![c] = @ + 1]
      BY <2>1 DEF Receive
    <3>2. got' \in [Conn -> Nat]
      BY <1>0, <3>1
    <3> QED BY <1>0, <1>1, <1>2, <3>1, <3>2 DEF CallTypes
  <2>2. CASE ReceiveFails(c)
    BY <1>3, <2>2 DEF ReceiveFails
  <2>3. CASE CancelSend(c)
    <3>1. UNCHANGED <<sent, reqid, got, refusing>>
      BY <2>3 DEF CancelSend, client
    <3> QED BY <1>0, <1>2, <2>3, <3>1, CancelSendBooks DEF CallTypes
  <2> QED BY <1>7, <2>1, <2>2, <2>3
<1>8. ASSUME NEW c \in Conn, NEW r \in 1 .. Calls[c], Goroutine(c, r) PROVE CallTypes'
  <2>1. UNCHANGED <<frames, reqid, got, refusing>>
    BY <1>8 DEF Goroutine, TakeWorker, SkipShards, NotMounted, Acquire, Search, ReleasePin, CloseDrained, Finish,
                WriteResult, ReturnWorker, Release, client
  <2>2. CASE WriteResult(c, r)
    BY <1>0, <1>1, <2>1, <2>2, WriteResultBooks DEF CallTypes
  <2>3. CASE ~WriteResult(c, r)
    <3>1. UNCHANGED sent
      BY <1>8, <2>3 DEF Goroutine, TakeWorker, SkipShards, NotMounted, Acquire, Search, ReleasePin,
                        CloseDrained, Finish, ReturnWorker, Release
    <3> QED BY <1>3, <2>1, <3>1
  <2> QED BY <2>2, <2>3
<1>9. ASSUME NEW c \in Conn, Accept(c) \/ CloseConn(c) \/ Hangup(c) PROVE CallTypes'
  BY <1>3, <1>9 DEF Accept, CloseConn, Hangup, client
<1>10. ASSUME \/ \E s \in 1 .. Shards : Publish(s)
              \/ \E g \in Gens : CloseIdle(g)
              \/ Close
              \/ UNCHANGED vars
       PROVE  CallTypes'
  BY <1>3, <1>10 DEF Publish, CloseIdle, Close, vars, client
<1> QED BY <1>5, <1>6, <1>7, <1>8, <1>9, <1>10 DEF Next, Client

\* Every variable keeps its type.
LEMMA TypesStep ==
  ASSUME Types, \A d \in Conn : Books(d), [Next]_vars
  PROVE  Types'
<1> DEFINE GenTypes == /\ cur \in [1 .. Shards -> 0 .. MaxGen]
                       /\ refs \in [Gens -> Int] /\ closed \in [Gens -> Nat]
                       /\ retired \subseteq Gens /\ draining \subseteq Gens
           LinkTypes == /\ down \in BOOLEAN /\ doomed \subseteq Conn /\ waiting \subseteq Conn
                        /\ conn \in [Conn -> {"new", "open", "closed"}]
           PoolTypes == inflight \in Int /\ workers \in Int
           LedgerTypes == /\ live \in [Conn -> SUBSET Nat] /\ cancelled \in [Conn -> SUBSET Nat]
                          /\ marked \in [Conn -> SUBSET Nat]
<1>0. GenTypes /\ LinkTypes /\ PoolTypes /\ LedgerTypes
  BY DEF Types
<1>1. GenTypes'
  <2>1. ASSUME UNCHANGED registry PROVE GenTypes'
    BY <1>0, <2>1 DEF registry
  <2>2. ASSUME NEW s \in 1 .. Shards, Publish(s) PROVE GenTypes'
    <3>1. cur[s] \in 0 .. MaxGen /\ cur[s] + 1 \in 0 .. MaxGen /\ (cur[s] # 0 => <<s, cur[s]>> \in Gens)
      BY <1>0, <2>2, ServeAssumption DEF Publish, Gens
    <3>2. cur' = [cur EXCEPT ![s] = @ + 1] /\ UNCHANGED <<refs, closed>>
      BY <2>2 DEF Publish
    <3>3. retired' \subseteq Gens /\ draining' \subseteq Gens
      BY <1>0, <2>2, <3>1 DEF Publish
    <3> QED BY <1>0, <3>1, <3>2, <3>3
  <2>3. ASSUME NEW g \in Gens, CloseIdle(g) PROVE GenTypes'
    <3>1. /\ draining' \subseteq draining /\ UNCHANGED <<cur, refs, retired>>
          /\ closed' = [closed EXCEPT ![g] = @ + 1]
      BY <2>3 DEF CloseIdle
    <3> QED BY <1>0, <3>1
  <2>4. ASSUME NEW c \in Conn, NEW r \in 1 .. Calls[c], Goroutine(c, r) PROVE GenTypes'
    <3>1. CASE Acquire(c, r)
      <4>1. PICK g \in Gens : refs' = [refs EXCEPT ![g] = @ + 1]
        BY <3>1, AcquireHops
      <4>2. refs[g] + 1 \in Int
        BY <1>0
      <4>3. refs' \in [Gens -> Int]
        BY <1>0, <4>1, <4>2
      <4> QED BY <1>0, <3>1, <4>3 DEF Acquire
    <3>2. CASE ReleasePin(c, r)
      <4>1. PICK g \in Gens : refs' = [refs EXCEPT ![g] = @ - 1]
        BY <3>2, ReleasePinHops
      <4> QED BY <1>0, <3>2, <4>1 DEF ReleasePin
    <3>3. CASE CloseDrained(c, r)
      <4>1. PICK g \in Gens : closed' = [closed EXCEPT ![g] = @ + 1]
        BY <3>3, CloseDrainedHops
      <4> QED BY <1>0, <3>3, <4>1 DEF CloseDrained
    <3>4. CASE ~(Acquire(c, r) \/ ReleasePin(c, r) \/ CloseDrained(c, r))
      BY <2>1, <2>4, <3>4 DEF Goroutine, TakeWorker, SkipShards, NotMounted, Search, Finish, WriteResult,
                             ReturnWorker, Release
    <3> QED BY <3>1, <3>2, <3>3, <3>4
  <2>5. ASSUME NEW c \in Conn, \/ Accept(c) \/ CloseConn(c) \/ Hangup(c) \/ Reader(c) \/ Client(c)
        PROVE  UNCHANGED registry
    BY <2>5 DEF Accept, CloseConn, Hangup, Reader, ReadPing, ReadCancel, ReadQuery, Refuse,
                Client, CallStart, Receive, ReceiveFails, CancelSend
  <2>6. ASSUME Close \/ UNCHANGED vars PROVE UNCHANGED registry
    BY <2>6 DEF Close, vars
  <2> HIDE DEF GenTypes
  <2> QED BY <2>1, <2>2, <2>3, <2>4, <2>5, <2>6 DEF Next
<1>2. LinkTypes'
  <2>1. ASSUME UNCHANGED <<server, waiting>> PROVE LinkTypes'
    BY <1>0, <2>1 DEF server
  <2>2. ASSUME NEW c \in Conn, Accept(c) \/ CloseConn(c) \/ Hangup(c) PROVE LinkTypes'
    <3>1. /\ doomed' \subseteq Conn /\ UNCHANGED <<down, waiting>>
          /\ conn' = [conn EXCEPT ![c] = "open"] \/ conn' = [conn EXCEPT ![c] = "closed"]
      BY <1>0, <2>2 DEF Accept, CloseConn, Hangup, client
    <3> QED BY <1>0, <3>1
  <2>3. ASSUME Close PROVE LinkTypes'
    BY <1>0, <2>3 DEF Close, client
  <2>4. ASSUME NEW c \in Conn, Reader(c) \/ CancelSend(c) PROVE LinkTypes'
    BY <2>1, <2>4 DEF Reader, ReadPing, ReadCancel, ReadQuery, Refuse, CancelSend, client
  <2>5. ASSUME NEW c \in Conn, NEW kind, CallStart(c, kind) PROVE LinkTypes'
    BY <1>0, <2>5 DEF CallStart, server
  <2>6. ASSUME NEW c \in Conn, Receive(c) \/ ReceiveFails(c) PROVE LinkTypes'
    <3>1. UNCHANGED server /\ waiting' \subseteq waiting
      BY <2>6 DEF Receive, ReceiveFails
    <3> QED BY <1>0, <3>1 DEF server
  <2>7. ASSUME NEW c \in Conn, NEW r \in 1 .. Calls[c], Goroutine(c, r) PROVE LinkTypes'
    BY <2>1, <2>7 DEF Goroutine, TakeWorker, SkipShards, NotMounted, Acquire, Search, ReleasePin, CloseDrained,
                     Finish, WriteResult, ReturnWorker, Release, client
  <2>8. ASSUME \/ \E s \in 1 .. Shards : Publish(s)
               \/ \E g \in Gens : CloseIdle(g)
               \/ UNCHANGED vars
        PROVE  UNCHANGED <<server, waiting>>
    BY <2>8 DEF Publish, CloseIdle, vars, client
  <2> HIDE DEF LinkTypes
  <2> QED BY <2>1, <2>2, <2>3, <2>4, <2>5, <2>6, <2>7, <2>8 DEF Next, Client
<1>3. PoolTypes'
  <2>1. ASSUME NEW c \in Conn, NEW r \in 1 .. Calls[c], Goroutine(c, r) PROVE PoolTypes'
    <3>1. CASE \/ SkipShards(c, r) \/ NotMounted(c, r) \/ Acquire(c, r) \/ ReleasePin(c, r)
               \/ CloseDrained(c, r) \/ Finish(c, r) \/ WriteResult(c, r) \/ Search(c, r)
      BY <1>0, <3>1 DEF SkipShards, NotMounted, Acquire, Search, ReleasePin,
                        CloseDrained, Finish, WriteResult, pool
    <3>2. CASE TakeWorker(c, r) \/ ReturnWorker(c, r) \/ Release(c, r)
      BY <1>0, <3>2 DEF TakeWorker, ReturnWorker, Release
    <3> QED BY <2>1, <3>1, <3>2 DEF Goroutine
  <2>2. ASSUME NEW c \in Conn, ReadQuery(c) \/ Refuse(c) PROVE PoolTypes'
    BY <1>0, <2>2 DEF ReadQuery, Refuse
  <2>3. ASSUME NEW c \in Conn, \/ Accept(c) \/ CloseConn(c) \/ Hangup(c) \/ Client(c)
                               \/ ReadPing(c) \/ ReadCancel(c)
        PROVE  UNCHANGED pool
    BY <2>3 DEF Accept, CloseConn, Hangup, ReadPing, ReadCancel, Client, CallStart, Receive,
                ReceiveFails, CancelSend
  <2>4. ASSUME \/ \E s \in 1 .. Shards : Publish(s)
               \/ \E g \in Gens : CloseIdle(g)
               \/ Close
               \/ UNCHANGED vars
        PROVE  UNCHANGED pool
    BY <2>4 DEF Publish, CloseIdle, Close, vars
  <2>5. ASSUME UNCHANGED pool PROVE PoolTypes'
    BY <1>0, <2>5 DEF pool
  <2> HIDE DEF PoolTypes
  <2> QED BY <2>1, <2>2, <2>3, <2>4, <2>5 DEF Next, Reader
<1>4. LedgerTypes'
  <2>1. ASSUME UNCHANGED books PROVE LedgerTypes'
    BY <1>0, <2>1 DEF books
  <2>2. ASSUME NEW c \in Conn, ReadQuery(c) \/ ReadCancel(c) PROVE LedgerTypes'
    <3> DEFINE r == Head(frames[c]).reqid
    <3>1. r \in Nat
      <4>1. PICK kind : Reads(c, kind) /\ Consumed(c) /\ reqid' = reqid
        BY <2>2 DEF ReadQuery, ReadCancel, client
      <4>2. r \in 1 .. reqid[c]
        BY <4>1, FrameRead DEF Types, CallTypes, Books
      <4> QED BY <4>2
    <3>2. CASE ReadQuery(c)
      <4>1. UNCHANGED <<cancelled, marked>> /\ (live' = live \/ live' = [live EXCEPT ![c] = @ \cup {r}])
        BY <3>2 DEF ReadQuery
      <4> HIDE DEF r
      <4> QED BY <1>0, <3>1, <4>1
    <3>3. CASE ReadCancel(c)
      <4>1. /\ UNCHANGED live
            /\ cancelled' = cancelled \/ cancelled' = [cancelled EXCEPT ![c] = @ \cup {r}]
            /\ marked' = marked \/ marked' = [marked EXCEPT ![c] = @ \cup {r}]
        BY <3>3 DEF ReadCancel, Cancel
      <4> HIDE DEF r
      <4>2. cancelled' \in [Conn -> SUBSET Nat]
        <5>1. cancelled \in [Conn -> SUBSET Nat] /\ cancelled[c] \cup {r} \in SUBSET Nat
          BY <1>0, <3>1
        <5>2. cancelled' = cancelled \/ cancelled' = [cancelled EXCEPT ![c] = cancelled[c] \cup {r}]
          BY <4>1
        <5> QED BY <5>1, <5>2
      <4>3. marked' \in [Conn -> SUBSET Nat]
        <5>1. marked \in [Conn -> SUBSET Nat] /\ marked[c] \cup {r} \in SUBSET Nat
          BY <1>0, <3>1
        <5>2. marked' = marked \/ marked' = [marked EXCEPT ![c] = marked[c] \cup {r}]
          BY <4>1
        <5> QED BY <5>1, <5>2
      <4> QED BY <1>0, <4>1, <4>2, <4>3
    <3> QED BY <2>2, <3>2, <3>3
  <2>3. ASSUME NEW c \in Conn, NEW r \in 1 .. Calls[c], Finish(c, r) PROVE LedgerTypes'
    <3>1. /\ live' = [live EXCEPT ![c] = @ \ {r}] /\ cancelled' = [cancelled EXCEPT ![c] = @ \ {r}]
          /\ UNCHANGED marked
      BY <2>3 DEF Finish
    <3> QED BY <1>0, <3>1
  <2>4. ASSUME NEW c \in Conn, NEW r \in 1 .. Calls[c], Goroutine(c, r), ~Finish(c, r) PROVE UNCHANGED books
    BY <2>4 DEF Goroutine, TakeWorker, SkipShards, NotMounted, Acquire, Search, ReleasePin, CloseDrained,
                WriteResult, ReturnWorker, Release
  <2>5. ASSUME NEW c \in Conn, \/ Accept(c) \/ CloseConn(c) \/ Hangup(c) \/ Client(c)
                               \/ ReadPing(c) \/ Refuse(c)
        PROVE  UNCHANGED books
    BY <2>5 DEF Accept, CloseConn, Hangup, ReadPing, Refuse, Client, CallStart, Receive,
                ReceiveFails, CancelSend
  <2>6. ASSUME \/ \E s \in 1 .. Shards : Publish(s)
               \/ \E g \in Gens : CloseIdle(g)
               \/ Close
               \/ UNCHANGED vars
        PROVE  UNCHANGED books
    BY <2>6 DEF Publish, CloseIdle, Close, vars
  <2> HIDE DEF LedgerTypes
  <2> QED BY <2>1, <2>2, <2>3, <2>4, <2>5, <2>6 DEF Next, Reader
<1>5. TaskTypes' /\ CallTypes'
  BY TaskTypesStep, CallTypesStep
<1> QED BY <1>1, <1>2, <1>3, <1>4, <1>5 DEF Types

-----------------------------------------------------------------------------
(* Nobody is left waiting.                                                 *)

\* What is still on its way to the client of c for its call r.
Owed(c, r) ==
  \/ conn[c] = "closed" \/ r \in marked[c] \/ refusing[c] = r \/ Asked(c, r)
  \/ task[c][r].pc \in Alive \cup {"write"} \/ task[c][r].over \/ Unread(c, r)

\* CallIsOwed, call by call.
LEMMA OwedIs == CallIsOwed <=> \A c \in waiting : \A r : r = reqid[c] => Owed(c, r)
BY DEF CallIsOwed, Owed, Asked, Unread, Alive

\* A debt stays where no step of its own connection moves it on.
LEMMA OwedKept ==
  ASSUME NEW c \in Conn, NEW r, Owed(c, r), conn[c] = "closed" => conn'[c] = "closed",
         marked[c] \subseteq marked'[c], refusing[c] = r => refusing'[c] = r,
         Asked(c, r) => Asked(c, r)', Unread(c, r) => Unread(c, r)',
         task[c][r].pc \in Alive \cup {"write"} => task'[c][r].pc \in Alive \cup {"write"},
         task[c][r].over => task'[c][r].over
  PROVE  Owed(c, r)'
BY DEF Owed

\* Answers that nobody sent or read.
LEMMA SameUnread == ASSUME UNCHANGED <<sent, got>> PROVE \A d, q : Unread(d, q) => Unread(d, q)'
BY DEF Unread

\* The reader moves a request on, it does not lose it.
LEMMA ReaderOwed ==
  ASSUME Types, \A d \in Conn : Books(d) /\ Waits(d), NEW c \in Conn, Reader(c),
         NEW d \in waiting, NEW r, r = reqid[d], Owed(d, r)
  PROVE  Owed(d, r)'
<1>0. /\ d \in Conn /\ r \in Nat /\ r # 0 /\ r <= Calls[d] /\ conn[d] \in {"open", "closed"}
      /\ FrameTypes /\ \A e \in Conn : AskedOnce(e) /\ got[e] <= Len(sent[e]) /\ Calls[e] \in Nat
  BY ServeAssumption DEF Types, CallTypes, Waits, Books
<1>1. CASE ReadPing(c)
  <2>1. /\ UNCHANGED <<conn, marked, refusing, task, reqid>> /\ Reads(c, "ping") /\ Consumed(c)
    BY <1>1 DEF ReadPing, client, books, server
  <2>2. \A q : Asked(d, q)' <=> (Asked(d, q) /\ ~(d = c /\ q = Head(frames[c]).reqid))
    BY <1>0, <2>1, FrameRead
  <2>3. (\A q : Unread(d, q) => Unread(d, q)') /\ \A q : q = Head(frames[c]).reqid => Unread(c, q)'
    BY <1>0, <1>1, <2>1, ReadPingBooks DEF AnswerGoes, Reads
  <2>4. CASE d = c /\ r = Head(frames[c]).reqid
    BY <2>3, <2>4 DEF Owed
  <2>5. CASE ~(d = c /\ r = Head(frames[c]).reqid)
    BY <1>0, <2>1, <2>2, <2>3, <2>5, OwedKept
  <2> QED BY <2>4, <2>5
<1>2. CASE ReadCancel(c)
  <2>1. /\ UNCHANGED <<conn, refusing, task, sent, got, reqid>> /\ Reads(c, "cancel") /\ Consumed(c)
    BY <1>2 DEF ReadCancel, client, server
  <2>2. \A q : Asked(d, q)' <=> Asked(d, q)
    BY <1>0, <2>1, FrameRead
  <2>3. marked[d] \subseteq marked'[d]
    BY <1>0, <1>2 DEF ReadCancel, Types
  <2> QED BY <1>0, <2>1, <2>2, <2>3, OwedKept, SameUnread
<1>3. CASE ReadQuery(c)
  <2>1. PICK q \in 1 .. Calls[c] :
          /\ q = Head(frames[c]).reqid /\ task[c][q].pc = "none" /\ q # 0 /\ refusing[c] = 0
          /\ ~OverCap(inflight + 1) => Hop(c, q, "none", "start", task[c][q].gen)
    BY <1>3, ReadQueryHops
  <2>2. /\ UNCHANGED <<conn, marked, sent, got, reqid>> /\ Reads(c, "query") /\ Consumed(c)
    BY <1>3 DEF ReadQuery, client, server
  <2>3. \A p : Asked(d, p)' <=> (Asked(d, p) /\ ~(d = c /\ p = q))
    BY <1>0, <2>1, <2>2, FrameRead
  <2>4. CASE OverCap(inflight + 1)
    <3>1. refusing' = [refusing EXCEPT ![c] = q] /\ UNCHANGED task
      BY <1>3, <2>1, <2>4 DEF ReadQuery
    <3>2. refusing'[c] = q /\ (d # c => refusing'[d] = refusing[d])
      BY <1>0, <3>1 DEF Types, CallTypes
    <3>3. CASE d = c /\ r = q
      BY <3>2, <3>3 DEF Owed
    <3>4. CASE ~(d = c /\ r = q)
      <4>1. refusing[d] = r => refusing'[d] = r
        BY <1>0, <2>1, <3>2
      <4> QED BY <1>0, <2>2, <2>3, <3>1, <3>4, <4>1, OwedKept, SameUnread
    <3> QED BY <3>3, <3>4
  <2>5. CASE ~OverCap(inflight + 1)
    <3>1. refusing' = refusing
      BY <1>3, <2>5 DEF ReadQuery
    <3>2. \A p \in 1 .. Calls[d] :
            /\ task'[d][p].pc = IF d = c /\ p = q THEN "start" ELSE task[d][p].pc
            /\ task[d][p].over => task'[d][p].over
      BY <1>0, <2>1, <2>5 DEF Hop, Became
    <3>3. r \in 1 .. Calls[d]
      BY <1>0
    <3>4. CASE d = c /\ r = q
      BY <3>2, <3>3, <3>4 DEF Owed, Alive
    <3>5. CASE ~(d = c /\ r = q)
      BY <1>0, <2>2, <2>3, <3>1, <3>2, <3>3, <3>5, OwedKept, SameUnread
    <3> QED BY <3>4, <3>5
  <2> QED BY <2>4, <2>5
<1>4. CASE Refuse(c)
  <2>1. /\ UNCHANGED <<conn, marked, task, frames>> /\ refusing' = [refusing EXCEPT ![c] = 0]
    BY <1>4 DEF Refuse, books, server
  <2>2. \A q : Asked(d, q)' <=> Asked(d, q)
    BY <1>0, <2>1, SameFrames
  <2>3. /\ \A q : Unread(d, q) => Unread(d, q)'
        /\ \A q : q = refusing[c] => AnswerGoes(c, q)
    BY <1>0, <1>4, RefuseBooks DEF AnswerGoes
  <2>4. d # c => refusing'[d] = refusing[d]
    BY <1>0, <2>1 DEF Types, CallTypes
  <2>5. CASE d = c /\ refusing[c] = r
    <3>1. CASE conn[c] = "closed"
      BY <2>1, <2>5, <3>1 DEF Owed
    <3>2. CASE conn[c] = "open"
      <4>1. AnswerGoes(c, r)
        BY <2>3, <2>5
      <4>2. Unread(c, r)'
        BY <1>0, <3>2, <4>1 DEF AnswerGoes
      <4> QED BY <2>5, <4>2 DEF Owed
    <3> QED BY <1>0, <2>5, <3>1, <3>2
  <2>6. CASE ~(d = c /\ refusing[c] = r)
    BY <1>0, <2>1, <2>2, <2>3, <2>4, <2>6, OwedKept
  <2> QED BY <2>5, <2>6
<1> QED BY <1>1, <1>2, <1>3, <1>4 DEF Reader

\* A goroutine answers, or was silenced by a cancel, or lost its client.
LEMMA GoroutineOwed ==
  ASSUME Types, \A d \in Conn : Books(d) /\ Waits(d), NEW c \in Conn, NEW q \in 1 .. Calls[c],
         Goroutine(c, q), NEW d \in waiting, NEW r, r = reqid[d], Owed(d, r)
  PROVE  Owed(d, r)'
<1>0. /\ d \in Conn /\ r \in 1 .. Calls[d] /\ conn[d] \in {"open", "closed"} /\ got[d] <= Len(sent[d])
  BY ServeAssumption DEF Types, CallTypes, Waits
<1>1. UNCHANGED <<conn, marked, refusing, frames, reqid, got>>
  BY DEF Goroutine, TakeWorker, SkipShards, NotMounted, Acquire, Search, ReleasePin, CloseDrained, Finish,
         WriteResult, ReturnWorker, Release, books, client, server
<1>2. \A p : Asked(d, p) => Asked(d, p)'
  BY <1>0, <1>1, SameFrames
<1>3. ASSUME NEW from, NEW to, NEW g, Hop(c, q, from, to, g),
             from \in Alive \cup {"write"} => to \in Alive \cup {"write"}, UNCHANGED sent
      PROVE  Owed(d, r)'
  <2>1. /\ task[d][r].pc \in Alive \cup {"write"} => task'[d][r].pc \in Alive \cup {"write"}
        /\ task[d][r].over => task'[d][r].over
    BY <1>0, <1>3 DEF Hop, Became
  <2> QED BY <1>0, <1>1, <1>2, <1>3, <2>1, OwedKept, SameUnread
<1>4. \A pc \in {"start", "shard", "pinned", "closing"} : pc \in Alive
  BY DEF Alive
<1>5. ASSUME ~WriteResult(c, q) PROVE UNCHANGED sent
  BY <1>5 DEF Goroutine, TakeWorker, SkipShards, NotMounted, Acquire, Search, ReleasePin, CloseDrained, Finish,
              ReturnWorker, Release
<1>6. CASE \/ TakeWorker(c, q) \/ SkipShards(c, q) \/ NotMounted(c, q)
           \/ ReturnWorker(c, q) \/ Release(c, q)
  <2>1. UNCHANGED sent
    BY <1>6 DEF TakeWorker, SkipShards, NotMounted, ReturnWorker, Release
  <2>2. \E from, to, g : Hop(c, q, from, to, g) /\ (from \in Alive \cup {"write"} => to \in Alive)
    <3>1. CASE TakeWorker(c, q)
      BY <1>4, <3>1, OtherHops
    <3>2. CASE SkipShards(c, q) \/ NotMounted(c, q)
      BY <1>4, <3>2, OtherHops
    <3>3. CASE ReturnWorker(c, q)
      <4>1. "return" \notin Alive \cup {"write"}
        BY DEF Alive
      <4> QED BY <3>3, <4>1, OtherHops
    <3>4. CASE Release(c, q)
      <4>1. "release" \notin Alive \cup {"write"}
        BY DEF Alive
      <4> QED BY <3>4, <4>1, OtherHops
    <3> QED BY <1>6, <3>1, <3>2, <3>3, <3>4
  <2> QED BY <1>3, <2>1, <2>2
<1>7. CASE Acquire(c, q)
  <2>1. UNCHANGED sent /\ \E g : Hop(c, q, "shard", "pinned", g)
    BY <1>7, AcquireHops DEF Acquire
  <2> QED BY <1>3, <1>4, <2>1
<1>8. CASE ReleasePin(c, q)
  <2>1. UNCHANGED sent /\ \E to \in {"closing", "shard"} : \E g : Hop(c, q, "pinned", to, g)
    BY <1>8, ReleasePinHops DEF ReleasePin
  <2> QED BY <1>3, <1>4, <2>1
<1>9. CASE CloseDrained(c, q)
  <2>1. UNCHANGED sent /\ Hop(c, q, "closing", "shard", NoGen)
    BY <1>9, CloseDrainedHops DEF CloseDrained
  <2> QED BY <1>3, <1>4, <2>1
<1>10. CASE Finish(c, q)
  <2>1. UNCHANGED sent /\ Hop(c, q, "shard", IF q \in cancelled[c] THEN "return" ELSE "write", task[c][q].gen)
    BY <1>10, OtherHops DEF Finish
  <2>2. CASE q \in cancelled[c]
    <3>1. q \in marked[c]
      BY <2>2 DEF Books
    <3>2. CASE d = c /\ r = q
      BY <1>1, <3>1, <3>2 DEF Owed
    <3>3. CASE ~(d = c /\ r = q)
      <4>1. task'[d][r] = task[d][r]
        BY <1>0, <2>1, <3>3 DEF Hop, Became
      <4> QED BY <1>0, <1>1, <1>2, <2>1, <4>1, OwedKept, SameUnread
    <3> QED BY <3>2, <3>3
  <2>3. CASE q \notin cancelled[c]
    BY <1>3, <2>1, <2>3
  <2> QED BY <2>2, <2>3
<1>11. CASE WriteResult(c, q)
  <2>1. /\ Hop(c, q, "write", "return", task[c][q].gen)
        /\ IF task[c][q].over THEN UNCHANGED sent ELSE AnswerGoes(c, q)
    BY <1>11, OtherHops, WriteResultBooks
  <2>2. CASE d = c /\ r = q
    <3>1. CASE conn[c] = "closed"
      BY <1>1, <2>2, <3>1 DEF Owed
    <3>2. CASE conn[c] = "open" /\ ~task[c][q].over
      BY <1>0, <2>1, <2>2, <3>2 DEF AnswerGoes, Owed
    <3>3. CASE task[c][q].over
      <4>1. task'[c][q].over
        BY <2>1, <3>3 DEF Hop, Became
      <4> QED BY <2>2, <4>1 DEF Owed
    <3> QED BY <1>0, <2>2, <3>1, <3>2, <3>3
  <2>3. CASE ~(d = c /\ r = q)
    <3>1. task'[d][r] = task[d][r]
      BY <1>0, <2>1, <2>3 DEF Hop, Became
    <3>2. Unread(d, r) => Unread(d, r)'
      BY <1>0, <1>1, <2>1, SameUnread DEF AnswerGoes
    <3> QED BY <1>0, <1>1, <1>2, <3>1, <3>2, OwedKept
  <2> QED BY <2>2, <2>3
<1>12. CASE Search(c, q)
  <2>1. UNCHANGED sent /\ Hop(c, q, "pinned", "pinned", task[c][q].gen)
    BY <1>12, SearchHops DEF Search
  <2> QED BY <1>3, <1>4, <2>1
<1> QED BY <1>6, <1>7, <1>8, <1>9, <1>10, <1>11, <1>12 DEF Goroutine

\* The client reads every answer in turn, and passes over late ones only.
LEMMA ReceiveOwed ==
  ASSUME Types, NEW c \in Conn, Receive(c), NEW d \in waiting', NEW r, r = reqid[d], Owed(d, r)
  PROVE  Owed(d, r)'
<1>1. /\ UNCHANGED <<conn, marked, refusing, task, frames, sent>>
      /\ got' = [got EXCEPT ![c] = @ + 1] /\ got \in [Conn -> Nat]
      /\ d = c => sent[c][got[c] + 1].reqid # r
  BY DEF Receive, books, server, Types, CallTypes
<1>2. d \in Conn
  BY DEF Receive, Types
<1>3. ASSUME Unread(d, r) PROVE Unread(d, r)'
  <2>1. PICK i \in got[d] + 1 .. Len(sent[d]) : sent[d][i].reqid = r
    BY <1>3 DEF Unread
  <2>2. Len(sent[d]) \in Nat
    BY <1>2 DEF Types, CallTypes, AnswerTypes
  <2>3. i \in got'[d] + 1 .. Len(sent[d])
    <3>1. CASE d = c
      <4>1. i # got[c] + 1 /\ got'[c] = got[c] + 1 /\ got[c] \in Nat
        BY <1>1, <2>1, <3>1
      <4> QED BY <2>1, <2>2, <3>1, <4>1
    <3>2. CASE d # c
      BY <1>1, <1>2, <2>1, <3>2
    <3> QED BY <3>1, <3>2
  <2> QED BY <1>1, <2>1, <2>3 DEF Unread
<1>4. Asked(d, r) => Asked(d, r)'
  BY <1>1, <1>2, SameFrames
<1> QED BY <1>1, <1>2, <1>3, <1>4, OwedKept

\* As long as a call waits, some party keeps owing it the answer.
LEMMA OwedStep ==
  ASSUME Types, \A d \in Conn : Books(d) /\ Waits(d), CallIsOwed, [Next]_vars
  PROVE  CallIsOwed'
<1> SUFFICES ASSUME NEW d \in waiting', NEW r, r = reqid'[d] PROVE Owed(d, r)'
  <2>1. CallIsOwed' <=> \A d \in waiting' : \A r : r = reqid'[d] => Owed(d, r)'
    BY DEF CallIsOwed, Owed, Asked, Unread, Alive
  <2> QED BY <2>1
<1>1. ASSUME d \in waiting, r = reqid[d] PROVE Owed(d, r) /\ d \in Conn
  BY <1>1, OwedIs DEF Types
<1>2. ASSUME UNCHANGED <<waiting, reqid, marked, refusing, task, frames, sent, got>>,
             \A e \in Conn : conn[e] = "closed" => conn'[e] = "closed"
      PROVE  Owed(d, r)'
  BY <1>1, <1>2, SameFrames, SameUnread, OwedKept
<1>3. ASSUME NEW c \in Conn, Reader(c) PROVE Owed(d, r)'
  <2>1. UNCHANGED <<waiting, reqid>>
    BY <1>3 DEF Reader, ReadPing, ReadCancel, ReadQuery, Refuse, client
  <2> QED BY <1>1, <1>3, <2>1, ReaderOwed
<1>4. ASSUME NEW c \in Conn, NEW q \in 1 .. Calls[c], Goroutine(c, q) PROVE Owed(d, r)'
  <2>1. UNCHANGED <<waiting, reqid>>
    BY <1>4 DEF Goroutine, TakeWorker, SkipShards, NotMounted, Acquire, Search, ReleasePin, CloseDrained, Finish,
                WriteResult, ReturnWorker, Release, client
  <2> QED BY <1>1, <1>4, <2>1, GoroutineOwed
<1>5. ASSUME NEW c \in Conn, NEW kind \in {"query", "ping"}, CallStart(c, kind) PROVE Owed(d, r)'
  <2>1. /\ reqid' = [reqid EXCEPT ![c] = @ + 1] /\ Asked(c, reqid[c])' /\ waiting' = waiting \cup {c}
        /\ UNCHANGED <<conn, marked, refusing, task, sent, got>>
        /\ frames' = [frames EXCEPT ![c] = Append(@, [kind |-> kind, reqid |-> reqid[c] + 1])]
    BY <1>5, CallStartBooks DEF CallStart, books, server
  <2>2. CASE d = c
    <3>1. Asked(c, r)'
      <4>1. \A q : q = reqid'[c] => Asked(c, q)'
        BY <2>1 DEF Asked
      <4> QED BY <2>2, <4>1
    <3> QED BY <2>2, <3>1 DEF Owed
  <2>3. CASE d # c
    <3>1. d \in waiting /\ d \in Conn /\ r = reqid[d] /\ frames'[d] = frames[d]
      BY <2>1, <2>3 DEF Types, CallTypes, FrameTypes
    <3>2. Asked(d, r) => Asked(d, r)'
      BY <3>1 DEF Asked
    <3> QED BY <1>1, <2>1, <3>1, <3>2, OwedKept, SameUnread
  <2> QED BY <2>2, <2>3
<1>6. ASSUME NEW c \in Conn, Receive(c) PROVE Owed(d, r)'
  <2>1. waiting' \subseteq waiting /\ reqid' = reqid
    BY <1>6 DEF Receive
  <2> QED BY <1>1, <1>6, <2>1, ReceiveOwed
<1>7. ASSUME NEW c \in Conn, ReceiveFails(c) PROVE Owed(d, r)'
  <2>1. /\ waiting' \subseteq waiting
        /\ UNCHANGED <<conn, reqid, marked, refusing, task, frames, sent, got>>
    BY <1>7 DEF ReceiveFails, books, server
  <2> QED BY <1>1, <2>1, SameFrames, SameUnread, OwedKept
<1>8. ASSUME NEW c \in Conn, CancelSend(c) PROVE Owed(d, r)'
  <2>1. UNCHANGED <<conn, waiting, reqid, marked, refusing, task, sent, got>>
    BY <1>8 DEF CancelSend, books, server, client
  <2> QED BY <1>1, <1>8, <2>1, CancelSendBooks, SameUnread, OwedKept
<1>9. ASSUME NEW c \in Conn, Accept(c) \/ CloseConn(c) \/ Hangup(c) PROVE Owed(d, r)'
  <2>1. UNCHANGED <<waiting, reqid, marked, refusing, task, frames, sent, got>>
    BY <1>9 DEF Accept, CloseConn, Hangup, books, client
  <2>2. \A e \in Conn : conn[e] = "closed" => conn'[e] = "closed"
    BY <1>9 DEF Accept, CloseConn, Hangup, Types
  <2> QED BY <1>2, <2>1, <2>2
<1>10. ASSUME \/ \E s \in 1 .. Shards : Publish(s)
              \/ \E g \in Gens : CloseIdle(g)
              \/ Close
              \/ UNCHANGED vars
       PROVE  Owed(d, r)'
  <2>1. UNCHANGED <<conn, waiting, reqid, marked, refusing, task, frames, sent, got>>
    BY <1>10 DEF Publish, CloseIdle, Close, vars, books, client, server
  <2> QED BY <1>2, <2>1
<1> QED BY <1>3, <1>4, <1>5, <1>6, <1>7, <1>8, <1>9, <1>10 DEF Next, Client

\* A client reads no further than what was sent, and waits for a call it made.
LEMMA WaitsStep ==
  ASSUME Types, \A d \in Conn : Books(d) /\ Waits(d), [Next]_vars
  PROVE  \A d \in Conn : Waits(d)'
<1>0. /\ conn \in [Conn -> {"new", "open", "closed"}] /\ reqid \in [Conn -> Nat] /\ got \in [Conn -> Nat]
      /\ \A d \in Conn : Len(sent[d]) \in Nat
  BY DEF Types, CallTypes, AnswerTypes
<1>1. ASSUME waiting' \subseteq waiting, UNCHANGED <<got, sent, reqid>>,
             \A d \in Conn : conn[d] # "new" => conn'[d] # "new"
      PROVE  \A d \in Conn : Waits(d)'
  BY <1>1 DEF Waits
<1>2. ASSUME NEW c \in Conn, Reader(c) PROVE \A d \in Conn : Waits(d)'
  <2>1. UNCHANGED <<waiting, reqid, got, conn>>
    BY <1>2 DEF Reader, ReadPing, ReadCancel, ReadQuery, Refuse, client, server
  <2>2. UNCHANGED sent \/ \E q : AnswerGoes(c, q)
    BY <1>2, ReadPingBooks, RefuseBooks DEF Reader, ReadCancel, ReadQuery
  <2>3. AnswerTypes'
    BY CallTypesStep DEF CallTypes
  <2>4. \A d \in Conn : Len(sent'[d]) \in Nat /\ Len(sent'[d]) >= Len(sent[d])
    BY <1>0, <2>2, <2>3 DEF AnswerGoes, AnswerTypes
  <2> QED BY <1>0, <2>1, <2>4 DEF Waits
<1>3. ASSUME NEW c \in Conn, NEW q \in 1 .. Calls[c], Goroutine(c, q) PROVE \A d \in Conn : Waits(d)'
  <2>1. UNCHANGED <<waiting, reqid, got, conn>>
    BY <1>3 DEF Goroutine, TakeWorker, SkipShards, NotMounted, Acquire, Search, ReleasePin, CloseDrained, Finish,
                WriteResult, ReturnWorker, Release, client, server
  <2>2. CASE WriteResult(c, q)
    <3>1. AnswerTypes'
      BY CallTypesStep DEF CallTypes
    <3>2. UNCHANGED sent \/ AnswerGoes(c, q)
      BY <2>2, WriteResultBooks
    <3>3. \A d \in Conn : Len(sent'[d]) \in Nat /\ Len(sent'[d]) >= Len(sent[d])
      BY <1>0, <3>1, <3>2 DEF AnswerGoes, AnswerTypes
    <3> QED BY <1>0, <2>1, <3>3 DEF Waits
  <2>3. CASE ~WriteResult(c, q)
    <3>1. UNCHANGED sent
      BY <1>3, <2>3 DEF Goroutine, TakeWorker, SkipShards, NotMounted, Acquire, Search, ReleasePin, CloseDrained,
                        Finish, ReturnWorker, Release
    <3> QED BY <1>1, <2>1, <3>1
  <2> QED BY <2>2, <2>3
<1>4. ASSUME NEW c \in Conn, NEW kind \in {"query", "ping"}, CallStart(c, kind)
      PROVE  \A d \in Conn : Waits(d)'
  <2>1. /\ conn[c] = "open" /\ UNCHANGED <<conn, got, sent>> /\ waiting' = waiting \cup {c}
        /\ reqid' = [reqid EXCEPT ![c] = @ + 1]
    BY <1>4 DEF CallStart, server
  <2>2. \A d \in Conn : reqid'[d] >= reqid[d] /\ reqid'[c] # 0 /\ reqid'[d] \in Nat
    BY <1>0, <2>1
  <2> QED BY <1>0, <2>1, <2>2 DEF Waits
<1>5. ASSUME NEW c \in Conn, Receive(c) PROVE \A d \in Conn : Waits(d)'
  <2>1. /\ UNCHANGED <<conn, sent, reqid>> /\ waiting' \subseteq waiting /\ got[c] < Len(sent[c])
        /\ got' = [got EXCEPT ![c] = @ + 1]
    BY <1>5 DEF Receive, server
  <2>2. \A d \in Conn : got'[d] <= Len(sent[d])
    BY <1>0, <2>1 DEF Waits
  <2> QED BY <1>0, <2>1, <2>2 DEF Waits
<1>6. ASSUME NEW c \in Conn,
             Accept(c) \/ CloseConn(c) \/ Hangup(c) \/ ReceiveFails(c) \/ CancelSend(c)
      PROVE  \A d \in Conn : Waits(d)'
  <2>1. UNCHANGED <<got, sent, reqid>> /\ waiting' \subseteq waiting
    BY <1>6 DEF Accept, CloseConn, Hangup, ReceiveFails, CancelSend, client
  <2>2. \A d \in Conn : conn[d] # "new" => conn'[d] # "new"
    BY <1>0, <1>6 DEF Accept, CloseConn, Hangup, ReceiveFails, CancelSend, server
  <2> QED BY <1>1, <2>1, <2>2
<1>7. ASSUME \/ \E s \in 1 .. Shards : Publish(s)
             \/ \E g \in Gens : CloseIdle(g)
             \/ Close
             \/ UNCHANGED vars
      PROVE  \A d \in Conn : Waits(d)'
  BY <1>1, <1>7 DEF Publish, CloseIdle, Close, vars, client, server
<1> QED BY <1>2, <1>3, <1>4, <1>5, <1>6, <1>7 DEF Next, Client

\* Close leaves no connection behind: those it did not see find the flag.
LEMMA CloseStep ==
  ASSUME Types, CloseReachesAll, [Next]_vars
  PROVE  CloseReachesAll'
<1>1. ASSUME UNCHANGED <<down, conn, doomed>> PROVE CloseReachesAll'
  BY <1>1 DEF CloseReachesAll
<1>2. ASSUME NEW c \in Conn, Accept(c) \/ CloseConn(c) \/ Hangup(c) PROVE CloseReachesAll'
  BY <1>2 DEF Accept, CloseConn, Hangup, CloseReachesAll, Types
<1>3. ASSUME Close PROVE CloseReachesAll'
  BY <1>3 DEF Close, CloseReachesAll
<1>4. ASSUME NEW c \in Conn, Reader(c) \/ Client(c) PROVE UNCHANGED <<down, conn, doomed>>
  BY <1>4 DEF Reader, ReadPing, ReadCancel, ReadQuery, Refuse, Client, CallStart, Receive, ReceiveFails,
              CancelSend, server
<1>5. ASSUME NEW c \in Conn, NEW q \in 1 .. Calls[c], Goroutine(c, q) PROVE UNCHANGED <<down, conn, doomed>>
  BY <1>5 DEF Goroutine, TakeWorker, SkipShards, NotMounted, Acquire, Search, ReleasePin, CloseDrained, Finish,
              WriteResult, ReturnWorker, Release, server
<1>6. ASSUME \/ \E s \in 1 .. Shards : Publish(s)
             \/ \E g \in Gens : CloseIdle(g)
             \/ UNCHANGED vars
      PROVE  UNCHANGED <<down, conn, doomed>>
  BY <1>6 DEF Publish, CloseIdle, vars, server
<1> QED BY <1>1, <1>2, <1>3, <1>4, <1>5, <1>6 DEF Next

-----------------------------------------------------------------------------
(* The theorems.                                                           *)

\* An idle node satisfies the invariant.
LEMMA InitServe == ASSUME Init PROVE ServeInv
<1>0. MaxGen \in Nat /\ Cap \in Nat \ {0} /\ Calls \in [Conn -> Nat] /\ Shards \in Nat
  BY ServeAssumption
<1>1. task = [c \in Conn |-> [r \in 1 .. Calls[c] |-> Idle]]
  BY DEF Init
<1>2. \A c \in Conn : \A r \in 1 .. Calls[c] : task[c][r] = Idle
  BY <1>1
<1>3. Idle \in Tasks /\ Idle.pc = "none"
  BY DEF Idle, Tasks, Phases
<1>4. TaskTypes
  BY <1>1, <1>2, <1>3 DEF TaskTypes
<1>5. FrameTypes /\ AnswerTypes
  BY DEF Init, FrameTypes, AnswerTypes
<1>6. CallTypes
  BY <1>0, <1>5 DEF Init, CallTypes
<1>7. Types
  <2>1. cur \in [1 .. Shards -> 0 .. MaxGen]
    BY <1>0 DEF Init
  <2>2. refs \in [Gens -> Int] /\ closed \in [Gens -> Nat] /\ retired \subseteq Gens /\ draining \subseteq Gens
    BY DEF Init
  <2>3. /\ down \in BOOLEAN /\ doomed \subseteq Conn /\ waiting \subseteq Conn
        /\ conn \in [Conn -> {"new", "open", "closed"}]
    BY DEF Init
  <2>4. inflight \in Int /\ workers \in Int
    BY <1>0 DEF Init
  <2>5. /\ live \in [Conn -> SUBSET Nat] /\ cancelled \in [Conn -> SUBSET Nat]
        /\ marked \in [Conn -> SUBSET Nat]
    BY DEF Init
  <2> QED BY <1>4, <1>6, <2>1, <2>2, <2>3, <2>4, <2>5 DEF Types
<1>8. Running = {}
  BY <1>2, <1>3, Requests DEF Running
<1>9. Busy = {} /\ Refused = {} /\ \A g : Pins(g) = {}
  BY <1>8 DEF Init, Busy, Refused, Pins
<1>10. Counts
  <2>1. inflight = 0 /\ workers = Cap /\ \A g \in Gens : refs[g] = 0
    BY DEF Init
  <2>2. IsFiniteSet({}) /\ Cardinality({}) = 0
    BY FS_EmptySet
  <2>3. \A g \in Gens : refs[g] = Cardinality(Pins(g))
    BY <1>9, <2>1, <2>2
  <2> QED BY <1>0, <1>8, <1>9, <2>1, <2>2, <2>3 DEF Counts
<1>11. \A d \in Conn : \A q \in 1 .. Calls[d] : \A h : ~Closer(d, q, h)
  BY <1>2, <1>3 DEF Closer
<1>12. ASSUME NEW g \in Gens PROVE Lives(g)
  <2>1. g[1] \in 1 .. Shards /\ g[2] \in 1 .. MaxGen
    BY DEF Gens
  <2>2. g \notin retired /\ ~(g[2] < cur[g[1]])
    BY <1>0, <2>1 DEF Init
  <2>3. ~Closes(g) /\ closed[g] = 0 /\ g \notin draining
    BY <1>11 DEF Init, Closes
  <2> QED BY <1>11, <2>2, <2>3 DEF Lives, Ends, OneEnd
<1>13. ASSUME NEW c \in Conn PROVE Books(c) /\ Waits(c)
  <2>1. /\ live[c] = {} /\ cancelled[c] = {} /\ marked[c] = {} /\ refusing[c] = 0 /\ reqid[c] = 0
        /\ frames[c] = <<>> /\ sent[c] = <<>> /\ got[c] = 0 /\ c \notin waiting
    BY DEF Init
  <2>2. \A q : ~Asked(c, q) /\ ~Answered(c, q)
    BY <2>1 DEF Asked, Answered
  <2>3. \A q \in 1 .. Calls[c] : OnePlace(c, q)
    BY <1>2, <1>3, <2>1, <2>2 DEF OnePlace
  <2>4. live[c] = {q \in 1 .. Calls[c] : task[c][q].pc \in Alive}
    BY <1>2, <1>3, <2>1 DEF Alive
  <2>5. AskedOnce(c) /\ AnsweredOnce(c)
    BY <2>1 DEF AskedOnce, AnsweredOnce
  <2>6. Waits(c)
    BY <2>1 DEF Waits
  <2> QED BY <2>1, <2>3, <2>4, <2>5, <2>6 DEF Books
<1>14. NobodyForgotten
  BY DEF Init, NobodyForgotten, CallIsOwed, CloseReachesAll
<1> QED BY <1>7, <1>10, <1>12, <1>13, <1>14 DEF ServeInv, Registry

\* The counters, the lives of the generations and the books of the connections hold
\* together whatever publishes, queries, cancels, hangups and closes there are.
THEOREM ServeInvariant == Spec => []ServeInv
<1>1. Init => ServeInv
  BY InitServe
<1>2. ServeInv /\ [Next]_vars => ServeInv'
  <2> SUFFICES ASSUME ServeInv, [Next]_vars PROVE ServeInv'
    OBVIOUS
  <2>1. /\ Types /\ Counts /\ Registry /\ CallIsOwed /\ CloseReachesAll
        /\ \A d \in Conn : Books(d) /\ Waits(d)
    BY DEF ServeInv, NobodyForgotten
  <2>2. Types' /\ (\A d \in Conn : Books(d)')
    BY <2>1, TypesStep, BooksStep
  <2>3. Counts' /\ Registry'
    BY <2>1, CountsStep, RegistryStep
  <2>4. (\A d \in Conn : Waits(d)') /\ CallIsOwed' /\ CloseReachesAll'
    BY <2>1, WaitsStep, OwedStep, CloseStep
  <2> QED BY <2>2, <2>3, <2>4 DEF ServeInv, NobodyForgotten
<1> QED BY <1>1, <1>2, PTL DEF Spec

\* Every counter of a serve node is the count it stands for: the references of a
\* generation its readers, the in-flight number the queries that hold or ask for a slot,
\* the pool what the admitted leave of it.
THEOREM ServeTypes == Spec => []TypeOK
<1>1. ServeInv => TypeOK
  <2> SUFFICES ASSUME ServeInv PROVE TypeOK
    OBVIOUS
  <2>1. \A x \in Request : task[x[1]][x[2]].pc \in Phases
    BY Requests DEF ServeInv, Types, TaskTypes, Tasks
  <2>2. /\ \A g \in Gens : refs[g] = Cardinality({x \in Running : /\ At(x[1], x[2], "pinned")
                                                                /\ task[x[1]][x[2]].gen = g})
        /\ inflight = Cardinality(Running) + Cardinality({c \in Conn : refusing[c] # 0})
        /\ workers = Cap - Cardinality({x \in Running : ~ (At(x[1], x[2], "start")
                                                           \/ At(x[1], x[2], "release"))})
    BY DEF ServeInv, Counts, Pins, Refused, Busy
  <2> QED BY <2>1, <2>2 DEF ServeInv, Types, TypeOK
<1> QED BY ServeInvariant, <1>1, PTL

\* A generation is never unmapped under a query that reads it, never twice, and never
\* left without somebody who will unmap it.
THEOREM PinSafeAlways == Spec => []PinSafe
<1>1. ServeInv => PinSafe
  <2> SUFFICES ASSUME ServeInv PROVE PinSafe
    OBVIOUS
  <2>1. \A g \in Gens : Lives(g)
    BY DEF ServeInv, Registry
  <2>2. PinnedIsOpen
    <3> SUFFICES ASSUME NEW x \in Running, At(x[1], x[2], "pinned")
                 PROVE  closed[task[x[1]][x[2]].gen] = 0
      BY DEF PinnedIsOpen
    <3>1. x[1] \in Conn /\ x[2] \in 1 .. Calls[x[1]]
      BY Requests DEF Running
    <3>2. PICK g \in Gens : g = task[x[1]][x[2]].gen
      BY <3>1 DEF ServeInv, Types, TaskTypes, At
    <3>3. Pinning(task[x[1]][x[2]], g)
      BY <3>2 DEF Pinning, At
    <3>4. refs[g] > 0 /\ refs[g] \in Nat
      BY <3>1, <3>3, CountsAre DEF ServeInv, Counts
    <3> QED BY <2>1, <3>2, <3>4 DEF Lives, Ends, OneEnd
  <2>3. ClosedOnce
    <3>1. \A g \in Gens : closed[g] <= 1
      BY <2>1 DEF Lives, OneEnd
    <3>2. ASSUME NEW s \in 1 .. Shards, cur[s] # 0 PROVE closed[<<s, cur[s]>>] = 0
      <4>1. <<s, cur[s]>> \in Gens /\ cur[s] \in Nat
        BY <3>2, ServeAssumption DEF ServeInv, Types, Gens
      <4>2. PICK g \in Gens : g = <<s, cur[s]>>
        BY <4>1
      <4>3. g \notin retired
        BY <2>1, <4>1, <4>2 DEF Lives
      <4> QED BY <2>1, <4>2, <4>3 DEF Lives, Ends, OneEnd
    <3> QED BY <3>1, <3>2 DEF ClosedOnce
  <2>4. RetiredIsOwed
    <3> SUFFICES ASSUME NEW g \in retired
                 PROVE  \/ closed[g] = 1 \/ refs[g] > 0 \/ g \in draining
                        \/ \E x \in Running : At(x[1], x[2], "closing") /\ task[x[1]][x[2]].gen = g
      BY DEF RetiredIsOwed
    <3>1. g \in Gens /\ refs[g] \in Nat
      BY CountsAre DEF ServeInv, Types, Counts
    <3>2. CASE Closes(g)
      <4>0. PICK c \in Conn : \E r \in 1 .. Calls[c] : Closer(c, r, g)
        BY <3>2 DEF Closes
      <4>1. PICK r \in 1 .. Calls[c] : Closer(c, r, g)
        BY <4>0
      <4>2. <<c, r>> \in Running /\ At(c, r, "closing") /\ task[c][r].gen = g
        BY <4>1, Requests DEF Running, Closer, At
      <4> QED BY <4>2
    <3>3. CASE ~Closes(g)
      BY <2>1, <3>1, <3>3 DEF Lives, Ends
    <3> QED BY <3>2, <3>3
  <2> QED BY <2>2, <2>3, <2>4 DEF PinSafe
<1> QED BY ServeInvariant, <1>1, PTL

\* No admitted query waits for a worker, no cancelled one is answered, no call is
\* answered twice, and a finished query leaves nothing behind.
THEOREM BooksBalanceAlways == Spec => []BooksBalance
<1>1. ServeInv => BooksBalance
  <2> SUFFICES ASSUME ServeInv PROVE BooksBalance
    OBVIOUS
  <2>1. WorkersSuffice
    BY WorkerLeft DEF ServeInv, WorkersSuffice
  <2>2. ASSUME NEW c \in Conn
        PROVE  /\ cancelled[c] \subseteq live[c]
               /\ \A r \in live[c] : <<c, r>> \in Running
               /\ \A i \in DOMAIN sent[c] :
                    /\ sent[c][i].kind = "qresult" => sent[c][i].reqid \notin marked[c]
                    /\ \A j \in DOMAIN sent[c] : sent[c][i].reqid = sent[c][j].reqid => i = j
    <3>1. Books(c) /\ AnsweredOnce(c)
      BY DEF ServeInv, Books
    <3>2. \A r \in live[c] : <<c, r>> \in Running
      BY <3>1, Requests DEF Books, Running, Alive
    <3>3. ASSUME NEW i \in DOMAIN sent[c] PROVE sent[c][i].reqid \notin marked[c]
      <4>1. sent[c][i].reqid \in 1 .. Calls[c]
        <5>1. sent[c][i].reqid \in 1 .. reqid[c] /\ reqid[c] \in Nat /\ reqid[c] <= Calls[c] /\ Calls[c] \in Nat
          BY ServeAssumption DEF ServeInv, Types, CallTypes, AnswerTypes
        <5> QED BY <5>1
      <4>2. Answered(c, sent[c][i].reqid)
        BY DEF Answered
      <4> QED BY <3>1, <4>1, <4>2 DEF Books, OnePlace
    <3> QED BY <3>1, <3>2, <3>3 DEF Books, AnsweredOnce
  <2> QED BY <2>1, <2>2 DEF BooksBalance, CancelBooks
<1> QED BY ServeInvariant, <1>1, PTL

\* A client inside a call has its answer coming, and Close reaches every connection.
THEOREM NobodyForgottenAlways == Spec => []NobodyForgotten
<1>1. ServeInv => NobodyForgotten
  BY DEF ServeInv
<1> QED BY ServeInvariant, <1>1, PTL
=============================================================================
