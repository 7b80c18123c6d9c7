----------------------------- MODULE ReadPlanner -----------------------------
(***************************************************************************)
(* The read planner of src/serve/planner.go over the buffer pool of        *)
(* bufpool.go: a query issues batches of block reads, a fixed number of    *)
(* workers reads them into pooled buffers, and the query takes the         *)
(* completions in the order they come and hands the buffers back.          *)
(*                                                                         *)
(* A block is its tag. A buffer holds the tag of the block last read into  *)
(* it, 0 before. A large block is one no buffer can take.                  *)
(***************************************************************************)
EXTENDS Integers, FiniteSets, SequencesExt

CONSTANTS
  Depth,            \* the workers
  MaxOutstanding,   \* maxOutstanding: what each channel can queue
  Large,            \* the tags of the blocks longer than a buffer
  Broken,           \* the tags whose read fails
  MaxReads          \* bound: blocks issued

ASSUME PlannerAssumption == Depth \in Nat \ {0} /\ MaxOutstanding \in Nat \ {0}

VARIABLES
  batch,     \* the blocks the query's Issue has still to queue
  issued,    \* blocks the query has asked for
  reqCh,     \* the request channel
  busy,      \* busy[w]: the block and buffer worker w is reading with; Idle; Gone
  outCh,     \* the completion channel
  inflight,  \* Planner.inflight
  holding,   \* the completions the query is decoding
  answers,   \* what it decoded, by tag
  buffers,   \* the contents of every buffer allocated so far
  pool,      \* the buffers in the pool
  closed     \* whether Close has closed reqCh

plannerVars == <<batch, issued, reqCh, busy, outCh, inflight, holding, answers, buffers, pool, closed>>

Idle == [tag |-> 0, buf |-> 0]
Gone == [tag |-> -1, buf |-> 0]
Worker == 1 .. Depth

PlannerIdle ==
  /\ batch = <<>> /\ issued = 0 /\ reqCh = <<>> /\ busy = [w \in Worker |-> Idle] /\ outCh = <<>>
  /\ inflight = 0 /\ holding = {} /\ answers = <<>> /\ buffers = <<>> /\ pool = {} /\ closed = FALSE

-----------------------------------------------------------------------------
(* The query's goroutine.                                                  *)

Outstanding == inflight + Len(batch)

\* The traversal's next batch, within the planner's bound.
NewBatch(n) ==
  /\ ~closed /\ batch = <<>> /\ issued + n <= MaxReads /\ Outstanding + n <= MaxOutstanding
  /\ issued' = issued + n /\ batch' = [i \in 1 .. n |-> issued + i]
  /\ UNCHANGED <<reqCh, busy, outCh, inflight, holding, answers, buffers, pool, closed>>

CanIssue ==
  /\ batch # <<>>
  /\ IF Head(batch) \in Large THEN Len(outCh) < MaxOutstanding ELSE Len(reqCh) < MaxOutstanding

\* One turn of Issue: a block too large completes at once. Either channel may be full.
Issue ==
  /\ CanIssue
  /\ LET tag == Head(batch) IN
     IF tag \in Large
     THEN outCh' = Append(outCh, [tag |-> tag, buf |-> 0, err |-> TRUE]) /\ UNCHANGED reqCh
     ELSE reqCh' = Append(reqCh, tag) /\ UNCHANGED outCh
  /\ inflight' = inflight + 1 /\ batch' = Tail(batch)
  /\ UNCHANGED <<issued, busy, holding, answers, buffers, pool, closed>>

CanNext == batch = <<>> /\ inflight > 0 /\ outCh # <<>>

Next_ ==
  /\ CanNext
  /\ holding' = holding \cup {Head(outCh)} /\ outCh' = Tail(outCh) /\ inflight' = inflight - 1
  /\ UNCHANGED <<batch, issued, reqCh, busy, answers, buffers, pool, closed>>

Put(b) == pool \cup (IF b = 0 THEN {} ELSE {b})

\* The query decodes what it holds and releases the buffer.
Release(c) ==
  /\ answers' = [t \in DOMAIN answers \cup {c.tag} |->
                   IF t # c.tag THEN answers[t] ELSE IF c.err THEN 0 ELSE buffers[c.buf]]
  /\ holding' = holding \ {c} /\ pool' = Put(c.buf)
  /\ UNCHANGED <<batch, issued, reqCh, busy, outCh, inflight, buffers, closed>>

Close ==
  /\ ~closed /\ batch = <<>> /\ inflight = 0 /\ holding = {}
  /\ closed' = TRUE
  /\ UNCHANGED <<batch, issued, reqCh, busy, outCh, inflight, holding, answers, buffers, pool>>

-----------------------------------------------------------------------------
(* A worker.                                                               *)

CanTake(w) == busy[w] = Idle /\ reqCh # <<>>
CanRead(w) == busy[w] \notin {Idle, Gone} /\ Len(outCh) < MaxOutstanding

\* It takes a request and a buffer, from the pool or a new one: the pool may keep none.
Take(w) ==
  /\ CanTake(w)
  /\ reqCh' = Tail(reqCh)
  /\ \/ \E b \in pool : /\ busy' = [busy EXCEPT ![w] = [tag |-> Head(reqCh), buf |-> b]]
                        /\ pool' = pool \ {b} /\ UNCHANGED buffers
     \/ /\ pool = {} /\ buffers' = Append(buffers, 0)
        /\ busy' = [busy EXCEPT ![w] = [tag |-> Head(reqCh), buf |-> Len(buffers')]] /\ UNCHANGED pool
  /\ UNCHANGED <<batch, issued, outCh, inflight, holding, answers, closed>>

\* Mutant: a read that failed gives its buffer back itself, and the completion names it too.
ReadReturnsBuffer(w) ==
  LET r == busy[w] IN
  /\ CanRead(w)
  /\ buffers' = IF r.tag \in Broken THEN buffers ELSE [buffers EXCEPT ![r.buf] = r.tag]
  /\ pool' = IF r.tag \in Broken THEN Put(r.buf) ELSE pool
  /\ outCh' = Append(outCh, [tag |-> r.tag, buf |-> r.buf, err |-> r.tag \in Broken])
  /\ busy' = [busy EXCEPT ![w] = Idle]
  /\ UNCHANGED <<batch, issued, reqCh, inflight, holding, answers, closed>>

\* ReadAt and the send of the completion.
Read(w) ==
  LET r == busy[w] IN
  /\ CanRead(w)
  /\ buffers' = IF r.tag \in Broken THEN buffers ELSE [buffers EXCEPT ![r.buf] = r.tag]
  /\ outCh' = Append(outCh, [tag |-> r.tag, buf |-> r.buf, err |-> r.tag \in Broken])
  /\ busy' = [busy EXCEPT ![w] = Idle]
  /\ UNCHANGED <<batch, issued, reqCh, inflight, holding, answers, pool, closed>>

Leave(w) ==
  /\ closed /\ busy[w] = Idle /\ reqCh = <<>>
  /\ busy' = [busy EXCEPT ![w] = Gone]
  /\ UNCHANGED <<batch, issued, reqCh, outCh, inflight, holding, answers, buffers, pool, closed>>

Work == Issue \/ Next_ \/ (\E c \in holding : Release(c)) \/ \E w \in Worker : Take(w) \/ Read(w)

PlannerNext == Work \/ (\E n \in 1 .. MaxReads : NewBatch(n)) \/ Close \/ \E w \in Worker : Leave(w)

PlannerSpec == PlannerIdle /\ [][PlannerNext]_plannerVars

-----------------------------------------------------------------------------
Decoding == {c.buf : c \in holding} \ {0}
Reading == {busy[w].buf : w \in Worker} \ {0}
Queued == {outCh[i].buf : i \in DOMAIN outCh} \ {0}
Places == <<pool, Decoding, Reading, Queued>>

\* What each of these waits for.
CanWork == CanIssue \/ CanNext \/ holding # {} \/ \E w \in Worker : CanTake(w) \/ CanRead(w)

Underway == Outstanding > 0 \/ holding # {}

ReadsHold ==
  /\ Outstanding = Len(batch) + Len(reqCh) + Len(outCh) + Cardinality({w \in Worker : busy[w].tag > 0})
  /\ \A t \in DOMAIN answers : answers[t] = IF t \in Large \cup Broken THEN 0 ELSE t
  /\ \A c \in holding : ~c.err => buffers[c.buf] = c.tag
  /\ Cardinality(Reading) = Cardinality({w \in Worker : busy[w].buf # 0})
  /\ \A i, j \in DOMAIN Places : i # j => Places[i] \cap Places[j] = {}
  /\ ~Underway => DOMAIN answers = 1 .. issued

\* Every block asked for comes back exactly once, with its own bytes: a buffer is in one
\* place, the pool, a worker, the channel or the query's hands; the count of reads in flight
\* is what is under way, so Next stops neither early nor late; and as long as anything is
\* under way somebody can move.
EachReadOnce == ReadsHold /\ (Underway => CanWork)
=============================================================================
