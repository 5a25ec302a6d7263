----------------------------- MODULE CondVarInv -----------------------------
(***************************************************************************)
(* The invariants that musl's mutex and condition variable keep, for any   *)
(* number of threads: who holds the mutex (IInv), how the nodes are linked *)
(* and counted (JInv), and who sleeps where (KInv). Each of them needs the *)
(* ones before it.                                                         *)
(***************************************************************************)
EXTENDS CondVar, CondNodes

Held(t) == IF t \in holds THEN 1 ELSE 0

(* Where a thread is: in the loop of a lock, apart from the mutex or with it *)
(* inside a wait, or in a signal.                                            *)
Locking   == {"trylock", "look", "count", "mark", "sleep", "woken"}
Apart     == {"wait", "decide", "leave", "notify", "barrier", "barrierwait", "relock"}
Inside    == {"unlock", "handoff", "requeue"}
Signaling == {"drain", "release", "wakefirst"}

(* Who has the mutex is where a holder can be, with calls to come that keep  *)
(* the rules.                                                                *)
ThreadOK(t) ==
  /\ pc[t] = "call" => Disciplined(script[t], Held(t))
  /\ pc[t] \in Locking =>
       /\ t \notin holds
       /\ \/ Calling(t, {"lock"}) /\ Disciplined(script[t], 0)
          \/ Calling(t, Waits) /\ Disciplined(script[t], 1)
  /\ pc[t] \in {"count", "mark"} => reg[t] # 0
  /\ pc[t] \in {"swap", "wake"} =>
       /\ (t \in holds) <=> (pc[t] = "swap")
       /\ Calling(t, {"unlock"} \cup Waits) /\ Disciplined(script[t], 1)
  /\ pc[t] \in Apart => t \notin holds /\ Calling(t, Waits) /\ Disciplined(script[t], 1)
  /\ pc[t] \in Inside => t \in holds /\ Calling(t, Waits) /\ Disciplined(script[t], 1)
  /\ pc[t] \in Signaling =>
       Calling(t, {"signal", "broadcast"}) /\ Disciplined(script[t], Held(t))

Types ==
  /\ script \in [Threads -> Seq(Calls)] /\ pc \in [Threads -> Labels]
  /\ DOMAIN reg = Threads /\ lock \in 0..2 /\ holds \subseteq Threads

IInv == Types /\ MutualExclusion /\ \A t \in Threads : ThreadOK(t)

(* A step of t leaves the calls of the other threads as they are.            *)
Alone(t) ==
  /\ Types'
  /\ \A s \in Threads \ {t} :
       /\ pc'[s] = pc[s] /\ script'[s] = script[s] /\ reg'[s] = reg[s]
       /\ (s \in holds') <=> (s \in holds)

(* What is where: the list of the condition variable, the leaving and the    *)
(* signaled nodes of the groups, and of those the ones whose barrier has     *)
(* been opened.  A node is gone from its group with the hand-over.           *)
Past   == {"relock", "handoff", "requeue"} \cup Locking
Parked == {"unlock", "swap", "wake", "wait", "decide"}

Queued    == {p \in Threads : state[p] = "waiting" \/ (pc[p] = "leave" /\ notify[p] = NIL)}
Leaving   == {p \in Threads : pc[p] = "leave" /\ notify[p] # NIL}
Signaled  == {p \in Threads : state[p] = "signaled" /\ pc[p] # "requeue"}
Opened    == {p \in Signaled : barrier[p] = 0 \/ pc[p] \in Past}
Members   == Queued \cup Leaving \cup Signaled
Signalers == {t \in Threads : pc[t] \in {"drain", "release"}}

(* The leaving waiters that a signaler waits for; the threads that have      *)
(* counted themselves as waiters of the mutex; the signaled ones that a      *)
(* count is passed on to with the opening of their barrier.                  *)
Pending(t) == {p \in Threads : notify[p] = t /\ pc[p] \in {"leave", "notify"}}
Counted    == {p \in Threads : pc[p] \in {"mark", "sleep", "woken"}}
Baton      == {p \in Opened : next[p] # NIL}

InWait(p) == pc[p] \notin {"call"} \cup Signaling /\ Calling(p, Waits)

Status(p) ==
  /\ (state[p] = "none") <=> ~InWait(p)
  /\ state[p] = "waiting" => pc[p] \in Parked /\ barrier[p] = 2
  /\ state[p] = "leaving" => pc[p] \in {"leave", "notify"} \cup Past
  /\ state[p] = "signaled" =>
       /\ pc[p] \in Parked \cup {"barrier", "barrierwait"} \cup Past
       /\ pc[p] \notin Past => barrier[p] \in {0, 2}
  /\ notify[p] # NIL => state[p] = "leaving"
  /\ state[p] = "none" => prev[p] = NIL
  /\ pc[p] = "release" => first[p] # NIL

Statuses == \A p \in Threads : Status(p)

Refs == \A t \in Threads :
  ref[t] = Cardinality(Pending(t)) /\ (Pending(t) # {} => pc[t] = "drain")

Count == waiters = Cardinality(Counted) + Cardinality(Baton)

Lists == ListsOf(Queued, Leaving, Signaled, Members \ Opened, Signalers,
                 notify, prev, next, head, tail, first)

JInv == TypeOK /\ Statuses /\ Refs /\ Count /\ Lists

(* What a signal writes: the nodes that it visits, the one it stops at,      *)
(* those that it signals and the oldest of them.                             *)
Signals(t, V, rest, hits, f) ==
  /\ hits = {p \in V : state[p] = "waiting"}
  /\ pc[t] = "call" /\ asleep[t] = "no" /\ script' = script /\ reg' = reg /\ waiters' = waiters
  /\ lock' = lock /\ holds' = holds
  /\ barrier' = barrier /\ asleep' = asleep /\ pc' = [pc EXCEPT ![t] = "drain"]
  /\ state' = [p \in Threads |-> IF p \in hits THEN "signaled" ELSE state[p]]
  /\ notify' = [p \in Threads |-> IF p \in V \ hits THEN t ELSE notify[p]]
  /\ ref' = [ref EXCEPT ![t] = Cardinality(V \ hits)]
  /\ first' = [first EXCEPT ![t] = f]
  /\ prev' = [p \in Threads |-> IF rest # NIL /\ p = next[rest] THEN NIL ELSE prev[p]]
  /\ next' = [p \in Threads |-> IF p = rest THEN NIL ELSE next[p]]
  /\ head' = (IF rest = NIL THEN NIL ELSE head) /\ tail' = rest

-----------------------------------------------------------------------------
(* Sleeping.  A signaler sleeps while it is waited for; who sleeps on the    *)
(* mutex has counted itself as a waiter or been given a count; and a         *)
(* signaled waiter that sleeps on its barrier, though that is open, is about *)
(* to be woken or requeued.                                                  *)
Prods(t, p) ==
  \/ pc[t] = "wakefirst" /\ first[t] = p /\ reg[t] = 2
  \/ pc[t] = "requeue" /\ state[t] = "signaled" /\ prev[t] = p

Sleepy(p) ==
  /\ asleep[p] = "ref" => pc[p] = "drain" /\ ref[p] # 0
  /\ asleep[p] = "barrier" => pc[p] \in {"wait", "barrierwait"}
  /\ asleep[p] = "mutex" => pc[p] = "woken" \/ (pc[p] \in {"wait", "barrierwait"} /\ p \in Baton)
  /\ asleep[p] = "barrier" /\ p \in Opened => \E t \in Threads : Prods(t, p)

Sleepers == \A p \in Threads : Sleepy(p)

(* The thread that is requeued has its barrier open, and a count to have.    *)
Handing == \A t \in Threads :
  pc[t] = "requeue" /\ state[t] = "signaled" /\ prev[t] # NIL =>
    prev[t] \in Opened /\ next[prev[t]] # NIL

(* The threads that will look at the mutex.  While it is free and others     *)
(* sleep on it there is one, and whoever is about to free it will wake one.  *)
Competes(p) == asleep[p] = "no" /\ (pc[p] \in Locking \cup {"relock", "wake"} \/ p \in Opened)
OnMutex == {p \in Threads : asleep[p] = "mutex"}

Contention ==
  OnMutex # {} =>
    /\ lock = 0 => \E p \in Threads : Competes(p)
    /\ \A h \in holds : pc[h] = "swap" => reg[h] # 0 \/ lock = 2

KInv == Sleepers /\ Handing /\ Contention

(* What a step of another thread leaves alone: always, and mostly.           *)
Calm(p) ==
  /\ pc'[p] = pc[p] /\ reg'[p] = reg[p] /\ first'[p] = first[p]
  /\ pc[p] = "requeue" => prev'[p] = prev[p] /\ state'[p] = state[p]
  /\ p \in Opened => p \in Opened' /\ next'[p] = next[p]

Rested(p) ==
  /\ asleep'[p] \in {asleep[p], "no"}
  /\ ref'[p] = ref[p] \/ (asleep'[p] = "ref" => ref'[p] # 0)
  /\ p \in Opened' => p \in Opened
=============================================================================
