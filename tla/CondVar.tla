------------------------------ MODULE CondVar ------------------------------
(***************************************************************************)
(* The condition variable of the bundled musl with the mutex it is used    *)
(* with: pthread_cond_timedwait, __private_cond_signal and the NORMAL      *)
(* mutex (musl-1.1.16/src/thread), private to the process.  Threads run    *)
(* scripts of calls.  One step is one access to shared memory or one futex *)
(* call; the list of waiters, guarded by _c_lock, is worked on in one.     *)
(***************************************************************************)
EXTENDS CondThreads

CONSTANT
  Scripts     (* the calls each thread makes: a set of functions            *)

Waits == {"wait", "timedwait"}
Calls == {"lock", "unlock", "signal", "broadcast"} \cup Waits

(* The calls of s keep the rules for a caller that has the mutex (h = 1) or  *)
(* not: it is locked by those who do not have it, and unlocked and waited    *)
(* with by the one who has.                                                  *)
Disciplined(s, h) ==
  \E o \in [1..(Len(s) + 1) -> {0, 1}] :
    /\ o[1] = h
    /\ \A i \in 1..Len(s) :
         /\ s[i] = "lock" => o[i] = 0 /\ o[i + 1] = 1
         /\ s[i] = "unlock" => o[i] = 1 /\ o[i + 1] = 0
         /\ s[i] \in Waits => o[i] = 1 /\ o[i + 1] = 1
         /\ s[i] \in {"signal", "broadcast"} => o[i] = o[i + 1]

ASSUME CondConstants ==
  /\ Scripts \subseteq [Threads -> Seq(Calls)]
  /\ \A s \in Scripts : \A t \in Threads : Disciplined(s[t], 0)

VARIABLES
  script,     (* calls each thread has still to finish, the current first   *)
  pc,         (* where in it the thread is; "call" before its first step    *)
  reg,        (* the local that a mutex operation keeps between steps       *)
  lock, waiters,                       (* _m_lock: 0, EBUSY as 1, and with  *)
                                       (* the contended bit 2; _m_waiters   *)
  holds,      (* the threads that have the mutex                            *)
  head, tail,                          (* _c_head, _c_tail                  *)
  prev, next, state, barrier, notify,  (* struct waiter, of each thread     *)
  ref, first,                          (* locals of __private_cond_signal   *)
  asleep      (* the futex each thread sleeps on, or "no"                   *)

mutex == <<lock, waiters, holds>>
list  == <<head, tail, prev, next>>
nodes == <<list, state, notify>>
sig   == <<ref, first>>
vars  == <<script, pc, reg, mutex, nodes, barrier, sig, asleep>>

Init ==
  /\ script \in Scripts
  /\ pc = [t \in Threads |-> "call"]
  /\ reg = [t \in Threads |-> 0]
  /\ lock = 0 /\ waiters = 0 /\ holds = {}
  /\ head = NIL /\ tail = NIL
  /\ prev = [t \in Threads |-> NIL] /\ next = prev
  /\ state = [t \in Threads |-> "none"] /\ barrier = reg
  /\ notify = prev /\ ref = reg /\ first = prev
  /\ asleep = [t \in Threads |-> "no"]

Calling(t, op) == script[t] # << >> /\ Head(script[t]) \in op
At(t, label)   == pc[t] = label /\ asleep[t] = "no"
Goto(t, label) == pc' = [pc EXCEPT ![t] = label]
Return(t)      == Goto(t, "call") /\ script' = [script EXCEPT ![t] = Tail(@)]

(* The kernel: FUTEX_WAKE of one thread asleep on the mutex, if there is     *)
(* one, which one being its choice; FUTEX_WAIT if the word has the value.    *)
WakeMutex ==
  LET sleepers == {s \in Threads : asleep[s] = "mutex"}
  IN  IF sleepers = {} THEN UNCHANGED asleep
      ELSE \E s \in sleepers : asleep' = [asleep EXCEPT ![s] = "no"]

FutexWait(t, word, futex) ==
  asleep' = [asleep EXCEPT ![t] = IF word THEN futex ELSE "no"]

-----------------------------------------------------------------------------
(* pthread_mutex_lock, called by the client or to relock behind a wait.      *)

(* Mutant: a lock that nobody waits for is taken.                            *)
Free_Uncontended == lock # 2

Free == lock = 0

Acquired(t) ==
  /\ Free /\ lock' = 1 /\ holds' = holds \cup {t}
  /\ IF Calling(t, {"lock"}) THEN Return(t)
     ELSE Goto(t, "handoff") /\ UNCHANGED script
  /\ UNCHANGED <<waiters, reg>>

Busy(t, label) == ~Free /\ Goto(t, label) /\ UNCHANGED <<mutex, reg, script>>

mutex_lock(t) ==
  /\ \/ At(t, "call") /\ Calling(t, {"lock"})
     \/ At(t, "relock")
  /\ Acquired(t) \/ Busy(t, "trylock")
  /\ UNCHANGED <<nodes, barrier, sig, asleep>>

mutex_trylock(t) ==
  /\ At(t, "trylock")
  /\ Acquired(t) \/ Busy(t, "look")
  /\ UNCHANGED <<nodes, barrier, sig, asleep>>

(* The rest of a turn of the loop in pthread_mutex_timedlock.                *)
LookAtLock(t) ==
  /\ At(t, "look")
  /\ reg' = [reg EXCEPT ![t] = lock]
  /\ Goto(t, IF lock = 0 THEN "trylock" ELSE "count")
  /\ UNCHANGED <<script, mutex, nodes, barrier, sig, asleep>>

CountWaiter(t) ==
  /\ At(t, "count")
  /\ waiters' = waiters + 1
  /\ Goto(t, "mark")
  /\ UNCHANGED <<script, reg, lock, holds, nodes, barrier, sig, asleep>>

MarkContended(t) ==
  /\ At(t, "mark")
  /\ lock' = IF lock = reg[t] THEN 2 ELSE lock
  /\ Goto(t, "sleep")
  /\ UNCHANGED <<script, reg, waiters, holds, nodes, barrier, sig, asleep>>

SleepOnMutex(t) ==
  /\ At(t, "sleep")
  /\ FutexWait(t, lock = 2, "mutex")
  /\ Goto(t, "woken")
  /\ UNCHANGED <<script, reg, mutex, nodes, barrier, sig>>

WokenFromMutex(t) ==
  /\ At(t, "woken")
  /\ waiters' = waiters - 1
  /\ Goto(t, "trylock")
  /\ UNCHANGED <<script, reg, lock, holds, nodes, barrier, sig, asleep>>

(* pthread_mutex_unlock, called by the client or by a wait.                  *)
mutex_unlock(t) ==
  /\ \/ At(t, "call") /\ Calling(t, {"unlock"})
     \/ At(t, "unlock")
  /\ reg' = [reg EXCEPT ![t] = waiters]
  /\ Goto(t, "swap")
  /\ UNCHANGED <<script, mutex, nodes, barrier, sig, asleep>>

Unlocked(t) ==
  IF Calling(t, {"unlock"}) THEN Return(t)
  ELSE Goto(t, "wait") /\ UNCHANGED script

(* Mutants: only the contended bit counts; only the waiters do.              *)
MustWake_Contended(t) == lock = 2
MustWake_Waiters(t)   == reg[t] # 0

(* Whether the thread that gives the mutex up wakes another.                 *)
MustWake(t) == reg[t] # 0 \/ lock = 2

SwapLock(t) ==
  /\ At(t, "swap")
  /\ lock' = 0 /\ holds' = holds \ {t}
  /\ IF MustWake(t) THEN Goto(t, "wake") /\ UNCHANGED script ELSE Unlocked(t)
  /\ UNCHANGED <<reg, waiters, nodes, barrier, sig, asleep>>

WakeOne(t) ==
  /\ At(t, "wake")
  /\ WakeMutex
  /\ Unlocked(t)
  /\ UNCHANGED <<reg, mutex, nodes, barrier, sig>>

-----------------------------------------------------------------------------
(* pthread_cond_timedwait                                                    *)

(* The waiter puts its node at the head of the list.                         *)
Enqueue(t) ==
  /\ At(t, "call") /\ Calling(t, Waits)
  /\ barrier' = [barrier EXCEPT ![t] = 2]
  /\ state' = [state EXCEPT ![t] = "waiting"]
  /\ next' = [next EXCEPT ![t] = head]
  /\ prev' = [p \in Threads |-> IF p = head /\ tail # NIL THEN t ELSE prev[p]]
  /\ head' = t
  /\ tail' = IF tail = NIL THEN t ELSE tail
  /\ Goto(t, "unlock")
  /\ UNCHANGED <<script, reg, mutex, notify, sig, asleep>>

(* A turn of the loop around __timedwait_cp: the thread sleeps as long as    *)
(* its barrier is closed.                                                    *)
SleepOnBarrier(t) ==
  /\ At(t, "wait")
  /\ FutexWait(t, barrier[t] = 2, "barrier")
  /\ Goto(t, IF barrier[t] = 2 THEN "wait" ELSE "decide")
  /\ UNCHANGED <<script, reg, mutex, nodes, barrier, sig>>

(* ETIMEDOUT, before the thread sleeps or while it does, be it on its        *)
(* barrier or on the mutex it was requeued to.                               *)
Timeout(t) ==
  /\ pc[t] = "wait" /\ Calling(t, {"timedwait"})
  /\ asleep' = [asleep EXCEPT ![t] = "no"]
  /\ Goto(t, "decide")
  /\ UNCHANGED <<script, reg, mutex, nodes, barrier, sig>>

(* a_cas(&node.state, WAITING, LEAVING)                                      *)
Decide(t) ==
  /\ At(t, "decide")
  /\ \/ /\ state[t] = "waiting"
        /\ state' = [state EXCEPT ![t] = "leaving"]
        /\ Goto(t, "leave")
     \/ state[t] = "signaled" /\ Goto(t, "barrier") /\ UNCHANGED state
  /\ UNCHANGED <<script, reg, mutex, list, notify, barrier, sig, asleep>>

(* The waiter that was not signaled takes its node from whichever list it    *)
(* is in.                                                                    *)
Leave(t) ==
  /\ At(t, "leave")
  /\ head' = IF head = t THEN next[t] ELSE head
  /\ next' = [p \in Threads |->
                IF head # t /\ p = prev[t] THEN next[t] ELSE next[p]]
  /\ tail' = IF tail = t THEN prev[t] ELSE tail
  /\ prev' = [p \in Threads |->
                IF tail # t /\ p = next[t] THEN prev[t] ELSE prev[p]]
  /\ Goto(t, "notify")
  /\ UNCHANGED <<script, reg, mutex, state, notify, barrier, sig, asleep>>

(* A signal that saw it leaving waits for it to be gone.  The decrement and  *)
(* the wake of the last one are one step: nobody else changes ref.           *)
Notify(t) ==
  /\ At(t, "notify")
  /\ \/ notify[t] = NIL /\ UNCHANGED <<ref, asleep>>
     \/ /\ notify[t] # NIL
        /\ ref' = [ref EXCEPT ![notify[t]] = @ - 1]
        /\ asleep' = IF ref'[notify[t]] = 0
                       THEN [asleep EXCEPT ![notify[t]] = "no"] ELSE asleep
  /\ Goto(t, "relock")
  /\ UNCHANGED <<script, reg, mutex, nodes, barrier, first>>

(* lock(&node.barrier).  It is 0 or, closed, 2: a_cas(l, 1, 2) does nothing. *)
LockBarrier(t) ==
  /\ At(t, "barrier")
  /\ \/ /\ barrier[t] = 0
        /\ barrier' = [barrier EXCEPT ![t] = 1]
        /\ Goto(t, "relock")
     \/ /\ barrier[t] # 0
        /\ Goto(t, "barrierwait")
        /\ UNCHANGED barrier
  /\ UNCHANGED <<script, reg, mutex, nodes, sig, asleep>>

(* The loop in it: the thread sleeps while the barrier is closed, and takes  *)
(* it with a_cas(l, 0, 2).                                                   *)
WaitForBarrier(t) ==
  /\ At(t, "barrierwait")
  /\ \/ /\ barrier[t] = 0
        /\ barrier' = [barrier EXCEPT ![t] = 2]
        /\ Goto(t, "relock")
        /\ UNCHANGED asleep
     \/ /\ barrier[t] # 0
        /\ FutexWait(t, barrier[t] = 2, "barrier")
        /\ UNCHANGED <<pc, barrier>>
  /\ UNCHANGED <<script, reg, mutex, nodes, sig>>

(* With the mutex again: the first of a group adds itself to the waiters of  *)
(* the mutex for all of them, and each opens the barrier of the next, the    *)
(* last taking the count back.  Only the holder of the mutex reads waiters.  *)
(* Mutant: the first does not add itself.                                    *)
Joins_Never(t) == 0

Joins(t) == IF state[t] = "signaled" /\ next[t] = NIL THEN 1 ELSE 0
Leaves(t) == IF state[t] = "signaled" /\ prev[t] = NIL THEN 1 ELSE 0

Heir(t) == IF state[t] = "signaled" THEN prev[t] ELSE NIL

OpenBarrier(t) ==
  /\ At(t, "handoff")
  /\ waiters' = waiters + Joins(t) - Leaves(t)
  /\ barrier' = [s \in Threads |-> IF s = Heir(t) THEN 0 ELSE barrier[s]]
  /\ Goto(t, "requeue")
  /\ UNCHANGED <<script, reg, lock, holds, nodes, sig, asleep>>

(* FUTEX_REQUEUE from the barrier of the next to the mutex; the node is gone *)
(* with the return.                                                          *)
Requeue(t) ==
  /\ At(t, "requeue")
  /\ asleep' = [s \in Threads |->
                  IF s = Heir(t) /\ asleep[s] = "barrier" THEN "mutex" ELSE asleep[s]]
  /\ state' = [state EXCEPT ![t] = "none"]
  /\ barrier' = [barrier EXCEPT ![t] = 0]
  /\ prev' = [prev EXCEPT ![t] = NIL] /\ next' = [next EXCEPT ![t] = NIL]
  /\ notify' = [notify EXCEPT ![t] = NIL]
  /\ Return(t)
  /\ UNCHANGED <<reg, mutex, head, tail, sig>>

-----------------------------------------------------------------------------
(* __private_cond_signal                                                     *)

(* The nodes from the tail on, and how many of them the loop visits: up to   *)
(* the first that it can signal, or all of them in a broadcast.              *)
Size == Cardinality(Threads)

Walk ==
  LET node[k \in 1..(Size + 1)] ==
        IF k = 1 THEN tail
        ELSE IF node[k - 1] = NIL THEN NIL ELSE prev[node[k - 1]]
  IN  node

(* Mutant: a waiter that is leaving counts as signaled.                      *)
CanSignal_Leaving(walk) == {k \in 1..Size : walk[k] # NIL}

CanSignal(walk) == {k \in 1..Size : walk[k] # NIL /\ state[walk[k]] = "waiting"}

LastVisited(walk, all) ==
  IF all \/ CanSignal(walk) = {} THEN Size
  ELSE CHOOSE k \in CanSignal(walk) : \A j \in CanSignal(walk) : k <= j

(* The loop over the list and its split, under _c_lock.                      *)
cond_signal(t) ==
  /\ At(t, "call") /\ Calling(t, {"signal", "broadcast"})
  /\ LET walk    == Walk
         last    == LastVisited(walk, Calling(t, {"broadcast"}))
         visited == {walk[k] : k \in 1..last} \ {NIL}
         rest    == walk[last + 1]
         hits    == {p \in visited : state[p] = "waiting"}
     IN  /\ state' = [p \in Threads |-> IF p \in hits THEN "signaled" ELSE state[p]]
         /\ notify' = [p \in Threads |-> IF p \in visited \ hits THEN t ELSE notify[p]]
         /\ ref' = [ref EXCEPT ![t] = Cardinality(visited \ hits)]
         /\ first' = [first EXCEPT ![t] =
                        IF hits = {} THEN NIL ELSE walk[LastVisited(walk, FALSE)]]
         /\ prev' = [p \in Threads |->
                       IF rest # NIL /\ p = next[rest] THEN NIL ELSE prev[p]]
         /\ next' = [p \in Threads |-> IF p = rest THEN NIL ELSE next[p]]
         /\ head' = IF rest = NIL THEN NIL ELSE head
         /\ tail' = rest
  /\ Goto(t, "drain")
  /\ UNCHANGED <<script, reg, mutex, barrier, asleep>>

(* Mutant: it does not wait.                                                 *)
Drained_Always(t) == TRUE

Drained(t) == ref[t] = 0

(* It waits for the leaving waiters that it has seen to be gone.             *)
Drain(t) ==
  /\ At(t, "drain")
  /\ \/ ~Drained(t) /\ FutexWait(t, TRUE, "ref") /\ UNCHANGED <<script, pc>>
     \/ /\ Drained(t) /\ UNCHANGED asleep
        /\ IF first[t] = NIL THEN Return(t) ELSE Goto(t, "release") /\ UNCHANGED script
  /\ UNCHANGED <<reg, mutex, nodes, barrier, sig>>

(* unlock(&first->barrier): the swap, and the wake, by which time the waiter *)
(* may be gone or in another wait.                                           *)
ReleaseFirst(t) ==
  /\ At(t, "release")
  /\ reg' = [reg EXCEPT ![t] = barrier[first[t]]]
  /\ barrier' = [barrier EXCEPT ![first[t]] = 0]
  /\ Goto(t, "wakefirst")
  /\ UNCHANGED <<script, mutex, nodes, sig, asleep>>

WakeFirst(t) ==
  /\ At(t, "wakefirst")
  /\ asleep' = [s \in Threads |->
                  IF s = first[t] /\ reg[t] = 2 /\ asleep[s] = "barrier"
                    THEN "no" ELSE asleep[s]]
  /\ first' = [first EXCEPT ![t] = NIL]
  /\ Return(t)
  /\ UNCHANGED <<reg, mutex, nodes, barrier, ref>>

-----------------------------------------------------------------------------
Run(t) ==
  \/ mutex_lock(t) \/ mutex_trylock(t) \/ LookAtLock(t) \/ CountWaiter(t)
  \/ MarkContended(t) \/ SleepOnMutex(t) \/ WokenFromMutex(t)
  \/ mutex_unlock(t) \/ SwapLock(t) \/ WakeOne(t)
  \/ Enqueue(t) \/ SleepOnBarrier(t) \/ Decide(t) \/ Leave(t) \/ Notify(t)
  \/ LockBarrier(t) \/ WaitForBarrier(t) \/ OpenBarrier(t) \/ Requeue(t)
  \/ cond_signal(t) \/ Drain(t) \/ ReleaseFirst(t) \/ WakeFirst(t)

Next == \E t \in Threads : Run(t) \/ Timeout(t)

Spec == Init /\ [][Next]_vars

(* The kernel runs every thread that is not asleep.                          *)
FairSpec == Spec /\ \A t \in Threads : WF_vars(Run(t))

-----------------------------------------------------------------------------
(* Every word of the mutex, the condition variable and the nodes has its     *)
(* type.                                                                     *)
Labels == {"call", "trylock", "look", "count", "mark", "sleep", "woken", "swap",
           "wake", "unlock", "wait", "decide", "leave", "notify", "barrier", "barrierwait",
           "relock", "handoff", "requeue", "drain", "release", "wakefirst"}
TypeOK ==
  /\ script \in [Threads -> Seq(Calls)] /\ pc \in [Threads -> Labels]
  /\ reg \in [Threads -> Nat] /\ ref \in [Threads -> Nat]
  /\ lock \in 0..2 /\ waiters \in Nat /\ holds \subseteq Threads
  /\ head \in Pointer /\ tail \in Pointer
  /\ {prev, next, notify, first} \subseteq [Threads -> Pointer]
  /\ state \in [Threads -> {"none", "waiting", "signaled", "leaving"}]
  /\ barrier \in [Threads -> 0..2]
  /\ asleep \in [Threads -> {"no", "mutex", "barrier", "ref"}]

(* One thread at a time has the mutex, across pthread_cond_timedwait's       *)
(* unlock and relock too, and while one has it _m_lock is not 0.             *)
MutualExclusion ==
  /\ \A s, t \in holds : s = t
  /\ (holds = {}) <=> (lock = 0)

(* No wakeup is lost in pthread_mutex_unlock, __private_cond_signal or the   *)
(* hand-over between waiters: when no thread can go on, and none of those    *)
(* that are done has kept the mutex, the ones asleep wait on the condition   *)
(* variable for a signal that nobody sent.                                   *)
NoLostWakeup ==
  (\A t \in Threads : asleep[t] # "no" \/ (script[t] = << >> /\ t \notin holds)) =>
    \A t \in Threads : asleep[t] # "no" => state[t] = "waiting" /\ asleep[t] = "barrier"

(* The node of a waiter is on its stack, and so is the signaler's ref: what  *)
(* another thread is about to write to belongs to a call that has not        *)
(* returned, and every node the condition variable links to is waiting.      *)
NoDangling ==
  /\ \A t \in Threads :
       /\ pc[t] = "release" => state[first[t]] = "signaled"
       /\ pc[t] = "handoff" /\ Heir(t) # NIL => state[Heir(t)] = "signaled"
       /\ pc[t] = "notify" /\ notify[t] # NIL =>
            pc[notify[t]] = "drain" /\ ref[notify[t]] > 0
  /\ \A k \in 1..Size : Walk[k] # NIL => state[Walk[k]] \in {"waiting", "leaving"}

(* A thread that was signaled comes back from pthread_cond_timedwait.        *)
SignaledReturns ==
  \A t \in Threads : (state[t] = "signaled") ~> (state[t] = "none")
=============================================================================
