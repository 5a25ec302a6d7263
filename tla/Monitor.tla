------------------------------ MODULE Monitor ------------------------------
(***************************************************************************)
(* What a mutex and a condition variable promise to the threads that call  *)
(* them: one owner at a time, and a queue of waiters of which a signal     *)
(* releases the oldest and a broadcast all.                                *)
(***************************************************************************)
EXTENDS Sequences

CONSTANTS Threads, Scripts, NIL

VARIABLES
  script,     (* the calls each thread has still to make                    *)
  owner,      (* of the mutex, or NIL                                       *)
  phase,      (* of the wait each thread is in, or "out"                    *)
  queue       (* the threads that a signal can release, the oldest first    *)

vars == <<script, owner, phase, queue>>

Init ==
  /\ script \in Scripts
  /\ owner = NIL
  /\ phase = [t \in Threads |-> "out"]
  /\ queue = << >>

Calls(t, op) == script[t] # << >> /\ Head(script[t]) \in op
Finish(t)    == script' = [script EXCEPT ![t] = Tail(@)]
Become(S, p) == phase' = [t \in Threads |-> IF t \in S THEN p ELSE phase[t]]

Lock(t) ==
  /\ Calls(t, {"lock"}) /\ owner = NIL
  /\ owner' = t
  /\ Finish(t)
  /\ UNCHANGED <<phase, queue>>

Unlock(t) ==
  /\ Calls(t, {"unlock"}) /\ owner = t
  /\ owner' = NIL
  /\ Finish(t)
  /\ UNCHANGED <<phase, queue>>

(* A wait: the thread queues up, gives the mutex up, is signaled or stops    *)
(* waiting, and is back once it has the mutex again.                         *)
Wait(t) ==
  /\ Calls(t, {"wait", "timedwait"}) /\ phase[t] = "out" /\ owner = t
  /\ Become({t}, "waiting")
  /\ queue' = Append(queue, t)
  /\ UNCHANGED <<script, owner>>

GiveUpMutex(t) ==
  /\ owner = t /\ phase[t] # "out"
  /\ owner' = NIL
  /\ UNCHANGED <<script, phase, queue>>

StopWaiting(t) ==
  /\ Calls(t, {"timedwait"}) /\ phase[t] = "waiting" /\ owner # t
  /\ Become({t}, "leaving")
  /\ queue' = SelectSeq(queue, LAMBDA s : s # t)
  /\ UNCHANGED <<script, owner>>

Back(t) ==
  /\ phase[t] \in {"signaled", "leaving"} /\ owner = NIL
  /\ owner' = t
  /\ Become({t}, "out")
  /\ Finish(t)
  /\ UNCHANGED queue

Signal(t) ==
  /\ Calls(t, {"signal"})
  /\ \/ queue = << >> /\ UNCHANGED <<phase, queue>>
     \/ /\ queue # << >>
        /\ Become({Head(queue)}, "signaled")
        /\ queue' = Tail(queue)
  /\ Finish(t)
  /\ UNCHANGED owner

Broadcast(t) ==
  /\ Calls(t, {"broadcast"})
  /\ Become({queue[i] : i \in DOMAIN queue}, "signaled")
  /\ queue' = << >>
  /\ Finish(t)
  /\ UNCHANGED owner

Next == \E t \in Threads :
  \/ Lock(t) \/ Unlock(t) \/ Wait(t) \/ GiveUpMutex(t) \/ StopWaiting(t)
  \/ Back(t) \/ Signal(t) \/ Broadcast(t)

Spec == Init /\ [][Next]_vars
=============================================================================
