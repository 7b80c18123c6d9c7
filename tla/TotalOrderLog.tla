--------------------------- MODULE TotalOrderLog ---------------------------
(***************************************************************************)
(* What the chain package promises its callers, with no bucket, no PUT and *)
(* no retry in sight: one log that only grows at its tail, every staged    *)
(* batch in it at most once, the batches of one writer in the order it     *)
(* staged them, every handle walking the log one batch at a time, and an   *)
(* append acknowledged only for a batch that is in the log and that the    *)
(* appending handle has itself walked past.                                *)
(*                                                                         *)
(* ChainLog implements this specification as long as a PUT is decided by   *)
(* the time its client hears about it; MCChainOnce checks that with TLC    *)
(* and ChainLogProofs proves it.                                           *)
(***************************************************************************)
EXTENDS Integers

CONSTANT Writer      \* the processes that open a handle on the chain

VARIABLES
  log,     \* partial function from sequence numbers to batches
  pos,     \* pos[w]: the next sequence handle w reads or contends for
  acked    \* the <<seq, batch>> pairs some Append returned

vars == <<log, pos, acked>>

\* The batches of one writer are ordered by the life (incarnation) that
\* staged them, then by batch id.
Older(a, b) == \/ a.incarnation < b.incarnation
               \/ a.incarnation = b.incarnation /\ a.batchID < b.batchID

\* The candidates for the first free sequence number.
Frontier == {0} \cup {s + 1 : s \in DOMAIN log}

IsTail(s) == /\ s \notin DOMAIN log
             /\ \A t \in 0 .. (s - 1) : t \in DOMAIN log

Init == /\ log = [s \in {} |-> s]
        /\ pos = [w \in Writer |-> 0]
        /\ acked = {}

\* One batch joins the log at its tail: a batch of its writer newer than every
\* batch of that writer the log already holds, so never a repeat.
Land == \E s \in Frontier :
          /\ IsTail(s)
          /\ DOMAIN log' = DOMAIN log \cup {s}
          /\ \A t \in DOMAIN log : log'[t] = log[t]
          /\ log'[s].writer \in Writer
          /\ \A t \in DOMAIN log :
               log[t].writer = log'[s].writer => Older(log[t], log'[s])

\* A handle walks past the batch at its position, which is in the log by then.
Advance(w) == /\ pos' = [pos EXCEPT ![w] = @ + 1]
              /\ pos[w] \in DOMAIN log'

\* An append is acknowledged by the step that walks its handle past the batch.
Acknowledge(w) ==
  /\ Advance(w)
  /\ log'[pos[w]].writer = w
  /\ acked' = acked \cup {<<pos[w], log'[pos[w]]>>}

\* A process (re)opens its handle somewhere inside the log.
Reopen(w) == \E s \in Frontier :
               /\ \A t \in 0 .. (s - 1) : t \in DOMAIN log
               /\ pos' = [pos EXCEPT ![w] = s]

Next == /\ Land \/ UNCHANGED log
        /\ \/ \E w \in Writer : Acknowledge(w)
           \/ /\ UNCHANGED acked
              /\ \/ \E w \in Writer : Advance(w) \/ Reopen(w)
                 \/ UNCHANGED pos

Spec == Init /\ [][Next]_vars
=============================================================================
