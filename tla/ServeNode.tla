------------------------------ MODULE ServeNode ------------------------------
(***************************************************************************)
(* A serve node: the generation registry of src/serve/registry.go, and the *)
(* connections, admission, workers and cancellation of                     *)
(* src/serve/server.go with the synchronous client of the same file.       *)
(*                                                                         *)
(* A reader per connection takes frames in order. A query over the         *)
(* in-flight cap is refused; any other gets a goroutine, which takes a     *)
(* worker, pins one generation per shard while it reads it, and answers    *)
(* unless it was cancelled. A loader publishes generations meanwhile. One  *)
(* action is one critical section, one atomic operation or one write.      *)
(***************************************************************************)
EXTENDS Integers, Sequences, FiniteSets

CONSTANTS
  Conn,      \* the connections, one client each
  Shards,    \* the number of shards a query lists
  Cap,       \* ServerOptions.MaxInflight
  K,         \* K[c]: how many results the queries of client c want
  MaxResultEntries,  \* wire's maxResultEntries: how many one QRESULT frame carries
  Calls,     \* bound: Calls[c], how many calls the client of c makes
  MaxGen     \* bound: generations published per shard

ASSUME ServeAssumption == /\ Shards \in Nat /\ Calls \in [Conn -> Nat] /\ MaxGen \in Nat
                          /\ Cap \in Nat \ {0}
                          /\ K \in [Conn -> Nat \ {0}] /\ MaxResultEntries \in Nat \ {0}

VARIABLES
  cur,        \* cur[s]: the generation Registry.shards names; 0 while none is mounted
  refs,       \* refs[g]: genRef.refs
  retired,    \* the generations a publish replaced
  closed,     \* closed[g]: how often g's Mount was closed
  draining,   \* the generations Publish found idle and is about to close
  down,       \* Server.closed
  conn,       \* conn[c]: not accepted yet, open, or closed
  doomed,     \* the connections Server.Close saw open and has still to close
  inflight,   \* Server.inflight
  workers,    \* how many workers lie in the pool
  refusing,   \* refusing[c]: the request c's reader counted over the cap; 0 if none
  live,       \* live[c]: conn.live
  cancelled,  \* cancelled[c]: conn.cancelled
  task,       \* task[c][r]: the goroutine of request r
  frames,     \* frames[c]: frames on their way to the server
  sent,       \* sent[c]: every answer written on c
  got,        \* got[c]: how many answers the client has read
  reqid,      \* reqid[c]: Client.reqid
  waiting,    \* the clients inside Query or Ping
  marked      \* history: marked[c]: the requests a cancel found alive

registry == <<cur, refs, retired, closed, draining>>
books == <<live, cancelled, marked>>
pool == <<inflight, workers>>
client == <<got, reqid, waiting>>
server == <<down, conn, doomed>>
vars == <<registry, books, pool, client, server, refusing, task, frames, sent>>

Gens == (1 .. Shards) \X (1 .. MaxGen)
NoGen == <<0, 0>>

\* over: the merged hits have outgrown what one QRESULT frame carries.
Idle == [pc |-> "none", at |-> 1, gen |-> NoGen, over |-> FALSE]

\* The requests whose goroutine runs, from its start to the release of its slot.
Request == UNION {{c} \X (1 .. Calls[c]) : c \in Conn}
Running == {x \in Request : task[x[1]][x[2]].pc \notin {"none", "done"}}

Init ==
  /\ cur = [s \in 1 .. Shards |-> 0]
  /\ refs = [g \in Gens |-> 0] /\ closed = [g \in Gens |-> 0]
  /\ retired = {} /\ draining = {}
  /\ down = FALSE /\ doomed = {}
  /\ conn = [c \in Conn |-> "new"]
  /\ inflight = 0 /\ workers = Cap
  /\ refusing = [c \in Conn |-> 0]
  /\ live = [c \in Conn |-> {}] /\ cancelled = [c \in Conn |-> {}]
  /\ marked = [c \in Conn |-> {}]
  /\ task = [c \in Conn |-> [r \in 1 .. Calls[c] |-> Idle]]
  /\ frames = [c \in Conn |-> <<>>] /\ sent = [c \in Conn |-> <<>>]
  /\ got = [c \in Conn |-> 0] /\ reqid = [c \in Conn |-> 0]
  /\ waiting = {}

-----------------------------------------------------------------------------
(* The registry.                                                           *)

\* Mutant: a retired generation closes although others still read it.
DrainedRetired(g, n) == g \in retired

\* Generation g, with n references left, was the last query's to close.
Drained(g, n) == g \in retired /\ n = 0

\* Publish: under the lock, a new generation becomes current and the old one retires.
Publish(s) ==
  /\ cur[s] < MaxGen
  /\ cur' = [cur EXCEPT ![s] = @ + 1]
  /\ LET old == <<s, cur[s]>> IN
     IF cur[s] = 0 THEN UNCHANGED <<retired, draining>>
     ELSE /\ retired' = retired \cup {old}
          /\ draining' = IF refs[old] = 0 THEN draining \cup {old} ELSE draining
  /\ UNCHANGED <<refs, closed, books, pool, client, server, refusing, task, frames, sent>>

\* Publish, out of the lock: the idle old generation is unmapped.
CloseIdle(g) ==
  /\ g \in draining
  /\ draining' = draining \ {g}
  /\ closed' = [closed EXCEPT ![g] = @ + 1]
  /\ UNCHANGED <<cur, refs, retired, books, pool, client, server, refusing, task,
                 frames, sent>>

-----------------------------------------------------------------------------
(* Connections.                                                            *)

\* Mutant: a connection accepted while the server closes is served.
AcceptUnchecked(c) ==
  /\ conn[c] = "new"
  /\ conn' = [conn EXCEPT ![c] = "open"]
  /\ UNCHANGED <<registry, books, pool, client, down, doomed, refusing, task, frames, sent>>

\* Serve registers an accepted connection, unless the server was closed meanwhile.
Accept(c) ==
  /\ conn[c] = "new"
  /\ conn' = [conn EXCEPT ![c] = IF down THEN "closed" ELSE "open"]
  /\ UNCHANGED <<registry, books, pool, client, down, doomed, refusing, task, frames, sent>>

\* Server.Close: the flag and the list of connections under the lock, then each.
Close ==
  /\ ~down /\ down' = TRUE
  /\ doomed' = {c \in Conn : conn[c] = "open"}
  /\ UNCHANGED <<registry, books, pool, client, conn, refusing, task, frames, sent>>

CloseConn(c) ==
  /\ c \in doomed /\ doomed' = doomed \ {c}
  /\ conn' = [conn EXCEPT ![c] = "closed"]
  /\ UNCHANGED <<registry, books, pool, client, down, refusing, task, frames, sent>>

\* The peer goes away, or its frames are malformed: the reader returns.
Hangup(c) ==
  /\ conn[c] = "open"
  /\ conn' = [conn EXCEPT ![c] = "closed"]
  /\ UNCHANGED <<registry, books, pool, client, down, doomed, refusing, task, frames, sent>>

\* conn.write: an answer, lost if the connection is closed.
Write(c, f) == sent' = IF conn[c] = "open" THEN [sent EXCEPT ![c] = Append(@, f)] ELSE sent

-----------------------------------------------------------------------------
(* The reader of a connection.                                             *)

Reads(c, kind) == /\ conn[c] = "open" /\ refusing[c] = 0
                  /\ frames[c] # <<>> /\ Head(frames[c]).kind = kind

Consumed(c) == frames' = [frames EXCEPT ![c] = Tail(@)]

ReadPing(c) ==
  /\ Reads(c, "ping") /\ Consumed(c)
  /\ Write(c, [kind |-> "ping", reqid |-> Head(frames[c]).reqid])
  /\ UNCHANGED <<registry, books, pool, client, server, refusing, task>>

\* conn.cancel: a request that is not alive is not remembered.
Cancel(c, r) ==
  cancelled' = IF r \in live[c] THEN [cancelled EXCEPT ![c] = @ \cup {r}] ELSE cancelled

ReadCancel(c) ==
  /\ Reads(c, "cancel") /\ Consumed(c)
  /\ LET r == Head(frames[c]).reqid IN
     /\ Cancel(c, r)
     /\ marked' = IF r \in live[c] THEN [marked EXCEPT ![c] = @ \cup {r}] ELSE marked
  /\ UNCHANGED <<registry, live, pool, client, server, refusing, task, sent>>

OverCap(n) == n > Cap

\* admit counts the query and looks: over the cap it is refused, else it is alive and
\* gets its goroutine.
ReadQuery(c) ==
  /\ Reads(c, "query") /\ Consumed(c)
  /\ inflight' = inflight + 1
  /\ LET r == Head(frames[c]).reqid IN
     IF OverCap(inflight + 1)
     THEN /\ refusing' = [refusing EXCEPT ![c] = r]
          /\ UNCHANGED <<live, task>>
     ELSE /\ live' = [live EXCEPT ![c] = @ \cup {r}]
          /\ task' = [task EXCEPT ![c][r].pc = "start"]
          /\ UNCHANGED refusing
  /\ UNCHANGED <<registry, cancelled, marked, workers, client, server, sent>>

\* Mutant: a refused query stays on the count.
RefuseKeepsSlot(c) ==
  /\ refusing[c] # 0
  /\ Write(c, [kind |-> "busy", reqid |-> refusing[c]])
  /\ refusing' = [refusing EXCEPT ![c] = 0]
  /\ UNCHANGED <<registry, books, pool, client, server, task, frames>>

\* The refused query is taken off the count and answered BUSY.
Refuse(c) ==
  /\ refusing[c] # 0
  /\ inflight' = inflight - 1
  /\ Write(c, [kind |-> "busy", reqid |-> refusing[c]])
  /\ refusing' = [refusing EXCEPT ![c] = 0]
  /\ UNCHANGED <<registry, books, workers, client, server, task, frames>>

-----------------------------------------------------------------------------
(* The goroutine of request r.                                             *)

At(c, r, pc) == task[c][r].pc = pc
Goto(c, r, pc) == task' = [task EXCEPT ![c][r].pc = pc]

\* The goroutine goes on to shard s; past the last one it finishes.
ToShard(c, r, s) ==
  task' = [task EXCEPT ![c][r] = [pc |-> "shard", at |-> s, gen |-> NoGen, over |-> @.over]]

TakeWorker(c, r) ==
  /\ At(c, r, "start") /\ workers > 0
  /\ workers' = workers - 1
  /\ Goto(c, r, "shard")
  /\ UNCHANGED <<registry, books, inflight, client, server, refusing, frames, sent>>

HasShard(c, r) == At(c, r, "shard") /\ task[c][r].at <= Shards

\* The budget is spent: this shard and the rest are skipped.
SkipShards(c, r) ==
  /\ HasShard(c, r) /\ ToShard(c, r, Shards + 1)
  /\ UNCHANGED <<registry, books, pool, client, server, refusing, frames, sent>>

\* Acquire finds no generation mounted.
NotMounted(c, r) ==
  /\ HasShard(c, r) /\ cur[task[c][r].at] = 0
  /\ ToShard(c, r, task[c][r].at + 1)
  /\ UNCHANGED <<registry, books, pool, client, server, refusing, frames, sent>>

Acquire(c, r) ==
  LET s == task[c][r].at IN
  /\ HasShard(c, r) /\ cur[s] # 0
  /\ refs' = [refs EXCEPT ![<<s, cur[s]>>] = @ + 1]
  /\ task' = [task EXCEPT ![c][r].pc = "pinned", ![c][r].gen = <<s, cur[s]>>]
  /\ UNCHANGED <<cur, retired, closed, draining, books, pool, client, server, refusing,
                 frames, sent>>

\* The traversal finds hits. mergeHits keeps at most K of all the shards', and only a K
\* over maxResultEntries lets them outgrow a frame.
Search(c, r) ==
  /\ At(c, r, "pinned") /\ K[c] > MaxResultEntries /\ ~task[c][r].over
  /\ task' = [task EXCEPT ![c][r] = [@ EXCEPT !.over = TRUE]]
  /\ UNCHANGED <<registry, books, pool, client, server, refusing, frames, sent>>

\* The traversal is over, well or with an error; release drops the pin, and the last
\* one of a retired generation goes on to close it.
ReleasePin(c, r) ==
  /\ At(c, r, "pinned")
  /\ LET g == task[c][r].gen IN
     /\ refs' = [refs EXCEPT ![g] = @ - 1]
     /\ IF Drained(g, refs[g] - 1) THEN Goto(c, r, "closing")
                                   ELSE ToShard(c, r, task[c][r].at + 1)
  /\ UNCHANGED <<cur, retired, closed, draining, books, pool, client, server, refusing,
                 frames, sent>>

CloseDrained(c, r) ==
  /\ At(c, r, "closing")
  /\ closed' = [closed EXCEPT ![task[c][r].gen] = @ + 1]
  /\ ToShard(c, r, task[c][r].at + 1)
  /\ UNCHANGED <<cur, refs, retired, draining, books, pool, client, server, refusing,
                 frames, sent>>

\* Mutant: finish forgets the request before it asks whether it was cancelled.
FinishForgets(c, r) ==
  /\ At(c, r, "shard") /\ task[c][r].at > Shards
  /\ live' = [live EXCEPT ![c] = @ \ {r}]
  /\ cancelled' = [cancelled EXCEPT ![c] = @ \ {r}]
  /\ Goto(c, r, "write")
  /\ UNCHANGED <<registry, marked, pool, client, server, refusing, frames, sent>>

\* conn.finish: the request is no longer alive; a cancelled one writes nothing.
Finish(c, r) ==
  /\ At(c, r, "shard") /\ task[c][r].at > Shards
  /\ live' = [live EXCEPT ![c] = @ \ {r}]
  /\ cancelled' = [cancelled EXCEPT ![c] = @ \ {r}]
  /\ Goto(c, r, IF r \in cancelled[c] THEN "return" ELSE "write")
  /\ UNCHANGED <<registry, marked, pool, client, server, refusing, frames, sent>>

\* AppendQResult refuses more entries than a frame carries, and execute returns without
\* a word.
WriteResult(c, r) ==
  /\ At(c, r, "write")
  /\ IF task[c][r].over THEN UNCHANGED sent
                        ELSE Write(c, [kind |-> "qresult", reqid |-> r])
  /\ Goto(c, r, "return")
  /\ UNCHANGED <<registry, books, pool, client, server, refusing, frames>>

ReturnWorker(c, r) ==
  /\ At(c, r, "return")
  /\ workers' = workers + 1
  /\ Goto(c, r, "release")
  /\ UNCHANGED <<registry, books, inflight, client, server, refusing, frames, sent>>

Release(c, r) ==
  /\ At(c, r, "release")
  /\ inflight' = inflight - 1
  /\ Goto(c, r, "done")
  /\ UNCHANGED <<registry, books, workers, client, server, refusing, frames, sent>>

-----------------------------------------------------------------------------
(* The client: one call at a time, and a Cancel from beside it.            *)

CallStart(c, kind) ==
  /\ conn[c] = "open" /\ c \notin waiting /\ reqid[c] < Calls[c]
  /\ reqid' = [reqid EXCEPT ![c] = @ + 1]
  /\ waiting' = waiting \cup {c}
  /\ frames' = [frames EXCEPT ![c] = Append(@, [kind |-> kind, reqid |-> reqid[c] + 1])]
  /\ UNCHANGED <<registry, books, pool, got, server, refusing, task, sent>>

\* The client reads a frame: the answer to its call, or a late one it passes over.
Receive(c) ==
  /\ c \in waiting /\ got[c] < Len(sent[c])
  /\ got' = [got EXCEPT ![c] = @ + 1]
  /\ waiting' = IF sent[c][got[c] + 1].reqid = reqid[c] THEN waiting \ {c} ELSE waiting
  /\ UNCHANGED <<registry, books, pool, reqid, server, refusing, task, frames, sent>>

\* The connection is gone, and with it the call and any answer still under way.
ReceiveFails(c) ==
  /\ c \in waiting /\ conn[c] = "closed"
  /\ waiting' = waiting \ {c}
  /\ UNCHANGED <<registry, books, pool, got, reqid, server, refusing, task, frames, sent>>

\* Client.Cancel names the last call's reqid; one Cancel per call.
CancelSend(c) ==
  LET f == [kind |-> "cancel", reqid |-> reqid[c]] IN
  /\ conn[c] = "open" /\ reqid[c] > 0
  /\ \A i \in DOMAIN frames[c] : frames[c][i] # f
  /\ reqid[c] \notin marked[c]
  /\ frames' = [frames EXCEPT ![c] = Append(@, f)]
  /\ UNCHANGED <<registry, books, pool, client, server, refusing, task, sent>>

-----------------------------------------------------------------------------
Reader(c) == ReadPing(c) \/ ReadCancel(c) \/ ReadQuery(c) \/ Refuse(c)

Goroutine(c, r) == \/ TakeWorker(c, r) \/ SkipShards(c, r) \/ NotMounted(c, r)
                   \/ Acquire(c, r) \/ Search(c, r) \/ ReleasePin(c, r) \/ CloseDrained(c, r)
                   \/ Finish(c, r) \/ WriteResult(c, r)
                   \/ ReturnWorker(c, r) \/ Release(c, r)

Client(c) == \/ \E kind \in {"query", "ping"} : CallStart(c, kind)
             \/ Receive(c) \/ ReceiveFails(c) \/ CancelSend(c)

Next == \/ \E s \in 1 .. Shards : Publish(s)
        \/ \E g \in Gens : CloseIdle(g)
        \/ Close
        \/ \E c \in Conn : \/ Accept(c) \/ CloseConn(c) \/ Hangup(c)
                           \/ Reader(c) \/ Client(c)
                           \/ \E r \in 1 .. Calls[c] : Goroutine(c, r)

Spec == Init /\ [][Next]_vars

-----------------------------------------------------------------------------
(* Properties.                                                             *)

Phases == {"none", "start", "shard", "pinned", "closing", "write", "return", "release", "done"}

\* The values the variables take, and the counters that are counts: references of
\* pins, the in-flight number of queries holding or asking for a slot, the pool of
\* workers not taken.
TypeOK ==
  /\ cur \in [1 .. Shards -> 0 .. MaxGen]
  /\ retired \subseteq Gens /\ draining \subseteq Gens
  /\ down \in BOOLEAN
  /\ conn \in [Conn -> {"new", "open", "closed"}]
  /\ \A x \in Request : task[x[1]][x[2]].pc \in Phases
  /\ \A g \in Gens :
       refs[g] = Cardinality({x \in Running : /\ At(x[1], x[2], "pinned")
                                              /\ task[x[1]][x[2]].gen = g})
  /\ inflight = Cardinality(Running) + Cardinality({c \in Conn : refusing[c] # 0})
  /\ workers = Cap - Cardinality({x \in Running : ~ (At(x[1], x[2], "start")
                                                     \/ At(x[1], x[2], "release"))})

\* A query never reads an unmapped generation, however publishes, releases and
\* closes interleave ("unmaps only when its last query drains").
PinnedIsOpen ==
  \A x \in Running : At(x[1], x[2], "pinned") => closed[task[x[1]][x[2]].gen] = 0

\* No generation is closed twice, and the current one is not closed at all.
ClosedOnce ==
  /\ \A g \in Gens : closed[g] <= 1
  /\ \A s \in 1 .. Shards : cur[s] # 0 => closed[<<s, cur[s]>>] = 0

\* Whoever was admitted finds a worker at once: "one per in-flight slot".
WorkersSuffice == \A x \in Running : At(x[1], x[2], "start") => workers > 0

\* A query a cancel found alive is never answered, one that ran to its end leaves
\* nothing in the books, and no call is answered twice.
CancelBooks ==
  \A c \in Conn :
    /\ cancelled[c] \subseteq live[c]
    /\ \A r \in live[c] : <<c, r>> \in Running
    /\ \A i \in DOMAIN sent[c] :
         /\ sent[c][i].kind = "qresult" => sent[c][i].reqid \notin marked[c]
         /\ \A j \in DOMAIN sent[c] : sent[c][i].reqid = sent[c][j].reqid => i = j

\* Every retired generation is closed or has somebody left who will close it: a query
\* that still pins it, the loader, or the query that dropped the last pin.
RetiredIsOwed ==
  \A g \in retired : \/ closed[g] = 1 \/ refs[g] > 0 \/ g \in draining
                     \/ \E x \in Running : /\ At(x[1], x[2], "closing")
                                           /\ task[x[1]][x[2]].gen = g

\* A generation lives as long as somebody reads it and no longer: never closed under a
\* query, closed once, and never left without somebody who will close it.
PinSafe == PinnedIsOpen /\ ClosedOnce /\ RetiredIsOwed

\* The server's books: no admitted query waits for a worker, and cancels, answers and
\* queries under way add up.
BooksBalance == WorkersSuffice /\ CancelBooks

\* A client inside a call has its answer coming: its frame, its goroutine or its
\* answer is still on the way, unless its own Cancel silenced it, the connection is
\* gone, or its query found more hits than a frame carries.
CallIsOwed ==
  \A c \in waiting : LET r == reqid[c] IN
    \/ conn[c] = "closed" \/ r \in marked[c] \/ refusing[c] = r \/ task[c][r].over
    \/ \E i \in DOMAIN frames[c] : frames[c][i].reqid = r /\ frames[c][i].kind # "cancel"
    \/ task[c][r].pc \in {"start", "shard", "pinned", "closing", "write"}
    \/ \E i \in got[c] + 1 .. Len(sent[c]) : sent[c][i].reqid = r

\* A closed server leaves no connection open, those accepted while it closed included.
CloseReachesAll == down => \A c \in Conn : conn[c] = "open" => c \in doomed

\* Nobody is left waiting: neither a client for its answer nor Close for a connection.
NobodyForgotten == CallIsOwed /\ CloseReachesAll
=============================================================================
