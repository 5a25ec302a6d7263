---------------------------- MODULE CondMonitor ----------------------------
(***************************************************************************)
(* What CondVar promises: the mutex and condition variable of musl seen as *)
(* the queue of waiters and the owner of module Monitor.                   *)
(***************************************************************************)
EXTENDS CondVar

(* The futexes, the linked list and the barriers keep the promise of module  *)
(* Monitor: a call takes effect at one of its steps, a signal sent while     *)
(* threads wait releases the one that has waited longest, and none that has  *)
(* stopped waiting.                                                          *)
Effective(t) ==
  \/ pc[t] \in {"handoff", "requeue", "drain", "release", "wakefirst"}
  \/ pc[t] = "wake" /\ Calling(t, {"unlock"})

M == INSTANCE Monitor WITH
  script <- [t \in Threads |-> IF Effective(t) THEN Tail(script[t]) ELSE script[t]],
  owner  <- IF holds = {} THEN NIL ELSE CHOOSE t \in Threads : t \in holds,
  phase  <- [t \in Threads |->
               IF state[t] = "none" \/ pc[t] \in {"handoff", "requeue"}
                 THEN "out" ELSE state[t]],
  queue  <- SelectSeq(SubSeq(Walk, 1, Size),
                      LAMBDA p : p # NIL /\ state[p] = "waiting")

ImplementsMonitor == M!Spec
=============================================================================
