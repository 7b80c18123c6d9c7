----------------------------- MODULE RootStore ------------------------------
(***************************************************************************)
(* The database root and its two discovery paths: src/chain/root.go over   *)
(* the conditional PUTs of src/s3c/s3c.go.                                 *)
(*                                                                         *)
(* Stores share one prefix. In cas mode the root is one object replaced    *)
(* under If-Match; in seq mode it is the dense sequence rootv/<seq16>      *)
(* whose newest object is the truth. Both are the sequence of the roots    *)
(* written so far: cas mode only ever reads the last one, and its etag is  *)
(* that root's content. One action is one request and its answer.          *)
(***************************************************************************)
EXTENDS Integers, Sequences

CONSTANTS
  Store,      \* the processes with a RootStore; also RootStore.writer
  NoRoot,     \* a store that has read no root; a call that has returned none
  Ckpts,      \* the checkpoint slots the pointer is advanced to
  MaxFault,   \* bound: PUTs whose answer does not tell their outcome
  MaxRestart  \* bound: restarts, taken together

ASSUME RootAssumption == /\ Ckpts \subseteq Nat \ {0}
                         /\ MaxFault \in Nat /\ MaxRestart \in Nat

VARIABLES
  seq,        \* whether the provider lacks If-Match: every store's seq flag
  versions,   \* the roots written so far, oldest first
  delayed,    \* PUTs still on their way after their client timed out
  faults, restarts,
  pc,         \* pc[p]: where p is inside Create, Load or Advance
  target,     \* target[p]: the checkpoint its Advance wants; 0 for a plain Load
  cur,        \* cur[p]: the root last read: s.etag in cas mode, s.cur in seq mode
  next,       \* next[p]: s.next, the first rootv sequence not probed yet
  answer      \* answer[p]: the root p's last successful call returned

vars == <<seq, versions, delayed, faults, restarts, pc, target, cur, next, answer>>
countVars == <<seq, restarts>>

Phase == {"idle", "create", "load", "write"}

\* Root, less the parameters that never change once the database is created.
Root(p, c) == [writer |-> p, ckpt |-> c]

Newest == versions[Len(versions)]

\* The bucket accepts root r from a store that read root e and probed n objects:
\* rootv/n is free, or the root's content is still what the store read.
Put(e, n, r) == /\ IF seq THEN n = Len(versions)
                   ELSE versions # <<>> /\ Newest = e
                /\ versions' = Append(versions, r)

\* Create's PUT: If-None-Match on the root object, or on rootv/0.
PutFirst(r) == versions = <<>> /\ versions' = <<r>>

Init == /\ seq \in BOOLEAN
        /\ versions = <<>> /\ delayed = {} /\ faults = 0 /\ restarts = 0
        /\ pc = [p \in Store |-> "idle"]
        /\ target = [p \in Store |-> 0]
        /\ cur = [p \in Store |-> NoRoot]
        /\ next = [p \in Store |-> 0]
        /\ answer = [p \in Store |-> NoRoot]

\* p goes on to another phase of its call, or returns from it.
Goto(p, phase) ==
  /\ pc' = [pc EXCEPT ![p] = phase]
  /\ target' = IF phase = "idle" THEN [target EXCEPT ![p] = 0] ELSE target

-----------------------------------------------------------------------------
(* Create.                                                                 *)

CreateStart(p) ==
  /\ pc[p] = "idle"
  /\ Goto(p, "create")
  /\ UNCHANGED <<countVars, versions, delayed, faults, cur, next, answer>>

\* The store keeps the etag, or the root and the position behind it.
Created(p) == /\ cur' = [cur EXCEPT ![p] = Root(p, 0)]
              /\ next' = [next EXCEPT ![p] = IF seq THEN 1 ELSE @]

CreateWins(p) ==
  /\ pc[p] = "create" /\ PutFirst(Root(p, 0))
  /\ Created(p) /\ Goto(p, "idle")
  /\ UNCHANGED <<countVars, delayed, faults, answer>>

\* 412, a refusal, or an outcome in doubt: the error goes to the caller.
CreateFails(p) ==
  /\ pc[p] = "create" /\ Goto(p, "idle")
  /\ UNCHANGED <<countVars, versions, delayed, faults, cur, next, answer>>

CreateInDoubt(p) ==
  /\ pc[p] = "create" /\ faults < MaxFault
  /\ faults' = faults + 1 /\ Goto(p, "idle")
  /\ PutFirst(Root(p, 0))
  /\ UNCHANGED <<countVars, delayed, cur, next, answer>>

-----------------------------------------------------------------------------
(* Load: one GET in cas mode, GET-next-until-404 in seq mode.              *)

\* Mutant: Advance is given the slot behind the checkpoint.
CallStartBehind(p, c) ==
  /\ pc[p] = "idle"
  /\ target' = [target EXCEPT ![p] = c + 1]
  /\ pc' = [pc EXCEPT ![p] = "load"]
  /\ UNCHANGED <<countVars, versions, delayed, faults, cur, next, answer>>

\* A plain Load (c = 0), or the Load an Advance begins with.
CallStart(p, c) ==
  /\ pc[p] = "idle"
  /\ target' = [target EXCEPT ![p] = c]
  /\ pc' = [pc EXCEPT ![p] = "load"]
  /\ UNCHANGED <<countVars, versions, delayed, faults, cur, next, answer>>

\* Advance goes on to write only if the root is short of the target.
Behind(p, r) == r.ckpt < target[p]

\* Load has root r: a plain Load, and an Advance with nothing to do, return it.
Loaded(p, r) == /\ Goto(p, IF Behind(p, r) THEN "write" ELSE "idle")
                /\ answer' = [answer EXCEPT ![p] = IF Behind(p, r) THEN @ ELSE r]

LoadRoot(p) ==
  /\ pc[p] = "load" /\ ~seq /\ versions # <<>>
  /\ cur' = [cur EXCEPT ![p] = Newest]
  /\ Loaded(p, Newest)
  /\ UNCHANGED <<countVars, versions, delayed, faults, next>>

ProbeFound(p) ==
  /\ pc[p] = "load" /\ seq /\ next[p] < Len(versions)
  /\ cur' = [cur EXCEPT ![p] = versions[next[p] + 1]]
  /\ next' = [next EXCEPT ![p] = @ + 1]
  /\ UNCHANGED <<countVars, versions, delayed, faults, pc, target, answer>>

\* Mutant: the first root found is taken for the newest.
ProbeOnce(p) ==
  /\ pc[p] = "load" /\ seq /\ cur[p] # NoRoot
  /\ Loaded(p, cur[p])
  /\ UNCHANGED <<countVars, versions, delayed, faults, cur, next>>

ProbeEnd(p) ==
  /\ pc[p] = "load" /\ seq /\ next[p] >= Len(versions) /\ cur[p] # NoRoot
  /\ Loaded(p, cur[p])
  /\ UNCHANGED <<countVars, versions, delayed, faults, cur, next>>

\* No database lives under the prefix, or a GET failed for good.
LoadFails(p) ==
  /\ pc[p] = "load" /\ Goto(p, "idle")
  /\ UNCHANGED <<countVars, versions, delayed, faults, cur, next, answer>>

-----------------------------------------------------------------------------
(* Advance's write.                                                        *)

Advanced(p) == Root(p, target[p])

\* s.etag, or s.cur and s.next, after a write that won.
Written(p) == /\ cur' = [cur EXCEPT ![p] = Advanced(p)]
              /\ next' = [next EXCEPT ![p] = IF seq THEN @ + 1 ELSE @]

WriteWins(p) ==
  /\ pc[p] = "write" /\ Put(cur[p], next[p], Advanced(p))
  /\ Written(p)
  /\ answer' = [answer EXCEPT ![p] = Advanced(p)]
  /\ Goto(p, "idle")
  /\ UNCHANGED <<countVars, delayed, faults>>

\* Mutant: the write is repeated without a look.
WriteLosesInPlace(p) ==
  /\ pc[p] = "write"
  /\ IF seq THEN next[p] < Len(versions) ELSE cur[p] # Newest
  /\ Goto(p, "write")
  /\ UNCHANGED <<countVars, versions, delayed, faults, cur, next, answer>>

\* 412: load again and look.
WriteLoses(p) ==
  /\ pc[p] = "write"
  /\ IF seq THEN next[p] < Len(versions) ELSE cur[p] # Newest
  /\ Goto(p, "load")
  /\ UNCHANGED <<countVars, versions, delayed, faults, cur, next, answer>>

WriteRefused(p) ==
  /\ pc[p] = "write" /\ Goto(p, "idle")
  /\ UNCHANGED <<countVars, versions, delayed, faults, cur, next, answer>>

\* Mutant: an outcome in doubt is taken for success.
DoubtIsSuccess(p) ==
  /\ pc[p] = "write" /\ faults < MaxFault
  /\ faults' = faults + 1 /\ Goto(p, "idle")
  /\ answer' = [answer EXCEPT ![p] = Advanced(p)]
  /\ UNCHANGED <<countVars, cur, next>>

\* A transport failure: Advance loads again, whether the write landed or not.
WriteInDoubt(p) ==
  /\ pc[p] = "write" /\ faults < MaxFault
  /\ faults' = faults + 1 /\ Goto(p, "load")
  /\ UNCHANGED <<countVars, cur, next, answer>>

WriteTimesOutLanded(p) ==
  WriteInDoubt(p) /\ Put(cur[p], next[p], Advanced(p)) /\ UNCHANGED delayed

WriteTimesOutLost(p) == WriteInDoubt(p) /\ UNCHANGED <<versions, delayed>>

WriteTimesOutDelayed(p) ==
  /\ WriteInDoubt(p)
  /\ delayed' = delayed \cup {[etag |-> cur[p], seq |-> next[p], root |-> Advanced(p)]}
  /\ UNCHANGED versions

\* A 5xx answers a PUT that landed; client.do sends it again.
WriteRejectedLanded(p) ==
  /\ pc[p] = "write" /\ faults < MaxFault
  /\ faults' = faults + 1
  /\ Put(cur[p], next[p], Advanced(p))
  /\ UNCHANGED <<countVars, delayed, pc, target, cur, next, answer>>

\* The bucket executes a PUT its client has given up on: its condition holds or not.
LateLand(d) ==
  /\ delayed' = delayed \ {d}
  /\ \/ Put(d.etag, d.seq, d.root)
     \/ UNCHANGED versions
  /\ UNCHANGED <<countVars, faults, pc, target, cur, next, answer>>

\* The process restarts with a new store.
Restart(p) ==
  /\ restarts < MaxRestart /\ restarts' = restarts + 1
  /\ Goto(p, "idle")
  /\ cur' = [cur EXCEPT ![p] = NoRoot]
  /\ next' = [next EXCEPT ![p] = 0]
  /\ UNCHANGED <<seq, versions, delayed, faults, answer>>

-----------------------------------------------------------------------------
Next == \/ \E p \in Store :
             \/ CreateStart(p) \/ CreateWins(p) \/ CreateFails(p) \/ CreateInDoubt(p)
             \/ \E c \in Ckpts \cup {0} : CallStart(p, c)
             \/ LoadRoot(p) \/ ProbeFound(p) \/ ProbeEnd(p) \/ LoadFails(p)
             \/ WriteWins(p) \/ WriteLoses(p) \/ WriteRefused(p)
             \/ WriteTimesOutLanded(p) \/ WriteTimesOutLost(p) \/ WriteTimesOutDelayed(p)
             \/ WriteRejectedLanded(p)
             \/ Restart(p)
        \/ \E d \in delayed : LateLand(d)

Spec == Init /\ [][Next]_vars

\* A store's own requests are answered; refusals, time-outs and restarts are not owed.
Progress(p) == \/ CreateWins(p) \/ CreateFails(p)
               \/ LoadRoot(p) \/ ProbeFound(p) \/ ProbeEnd(p)
               \/ versions = <<>> /\ LoadFails(p)
               \/ WriteWins(p) \/ WriteLoses(p)

FairSpec == Spec /\ \A p \in Store : WF_vars(Progress(p))

-----------------------------------------------------------------------------
(* Properties.                                                             *)

Roots == [writer : Store, ckpt : Nat]

\* The values the variables take.
TypeOK ==
  /\ seq \in BOOLEAN
  /\ versions \in Seq(Roots)
  /\ \A d \in delayed : d.etag \in Roots /\ d.seq \in Nat /\ d.root \in Roots
  /\ faults \in Nat /\ restarts \in Nat
  /\ pc \in [Store -> Phase]
  /\ target \in [Store -> Ckpts \cup {0}]
  /\ cur \in [Store -> Roots \cup {NoRoot}]
  /\ next \in [Store -> Nat]
  /\ answer \in [Store -> Roots \cup {NoRoot}]

\* The checkpoint pointer never goes back and is never written twice to one place:
\* whoever races, whatever times out or lands late ("Forward-only").
RootForward ==
  \A s, t \in 1 .. Len(versions) : s < t => versions[s].ckpt < versions[t].ckpt

\* What a call returned was the root of the database, not one that never landed.
AnswersAreRoots ==
  \A p \in Store : answer[p] # NoRoot => \E s \in 1 .. Len(versions) : versions[s] = answer[p]

\* One process is never told an older pointer than it was told before, restarts
\* included, and an Advance that succeeds leaves the pointer at its target or past it.
AnswersForward ==
  [][\A p \in Store :
       /\ answer[p] # NoRoot => answer'[p].ckpt >= answer[p].ckpt
       /\ answer'[p] # answer[p] => answer'[p].ckpt >= target[p]]_vars

\* A seq-mode store has probed no further than the roots there are, and holds the last
\* one it probed; a cas-mode store holds a root that was current once.
StoreIsBehind ==
  \A p \in Store : cur[p] # NoRoot =>
    IF seq THEN next[p] \in 1 .. Len(versions) /\ cur[p] = versions[next[p]]
    ELSE \E s \in 1 .. Len(versions) : cur[p] = versions[s]

\* The roots there are, those returned and those held are one forward sequence.
RootsHold == RootForward /\ AnswersAreRoots /\ StoreIsBehind

\* Every call returns: an Advance that keeps losing does so to pointers that keep
\* growing.
CallsReturn == \A p \in Store : pc[p] # "idle" ~> pc[p] = "idle"
=============================================================================
