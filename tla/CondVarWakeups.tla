--------------------------- MODULE CondVarWakeups ---------------------------
(***************************************************************************)
(* Signals and wakeups of musl's condition variable.  JInv of CondVarInv   *)
(* is kept by the hand-over between waiters and by the steps of signalers  *)
(* too, so that the nodes have their types and are in use.  Then no thread *)
(* sleeps for good: KInv is kept by every step, and when all threads sleep *)
(* or are done it leaves only waiters that nobody has signaled.            *)
(***************************************************************************)
EXTENDS CondVarProofs

USE SMTT(30)

(* The places at which the loop of __private_cond_signal stops.              *)
LEMMA SignalPlaces ==
  ASSUME NEW t \in Threads, NEW all \in BOOLEAN, NEW W
  PROVE  /\ LastVisited(W, all) \in 1..Size
         /\ \E i \in 1..Size : CanSignal(W) # {} =>
              /\ i = LastVisited(W, FALSE) /\ i \in CanSignal(W) /\ i <= LastVisited(W, all)
              /\ \A j \in CanSignal(W) : i <= j
<1>1. Size \in Nat /\ 1 \in 1..Size /\ Size \in 1..Size
  BY SizeNat
<1> DEFINE C == CanSignal(W)
           P(k) == \A j \in C : k <= j
<1>2. C \subseteq Nat /\ C \subseteq 1..Size
  BY <1>1 DEF CanSignal
<1>3. CASE C = {}
  BY <1>1, <1>3, Zenon DEF LastVisited
<1>4. CASE C # {}
  <2>1. \E k \in C : P(k)
    BY <1>2, <1>4, Least, Zenon
  <2>2. LastVisited(W, FALSE) = CHOOSE k \in C : P(k)
    BY <1>4, Zenon DEF LastVisited
  <2>3. LastVisited(W, FALSE) \in C /\ P(LastVisited(W, FALSE))
    <3> HIDE DEF P, C
    <3> QED
      BY <2>1, <2>2, Zenon
  <2>4. LastVisited(W, all) = Size \/ LastVisited(W, all) = LastVisited(W, FALSE)
    <3>1. CASE all
      BY <3>1, Zenon DEF LastVisited
    <3>2. CASE all = FALSE
      BY <3>2, Zenon
    <3> QED
      BY <3>1, <3>2, Zenon
  <2>5. PICK a, b : a = LastVisited(W, FALSE) /\ b = LastVisited(W, all)
    BY Zenon
  <2>6. a \in C /\ P(a) /\ (b = Size \/ b = a)
    BY <2>3, <2>4, <2>5, Zenon
  <2>7. a \in 1..Size /\ b \in 1..Size /\ a <= b
    BY <1>1, <1>2, <2>6
  <2> QED
    BY <2>5, <2>6, <2>7, Zenon
<1> QED
  BY <1>3, <1>4, Zenon

LEMMA SignalWrites ==
  ASSUME JInv, NEW t \in Threads, cond_signal(t)
  PROVE  \E W, last, V, rest, hits, f :
           /\ \E i : Visits(W, Size, last, V, rest, hits, f, i, tail, prev)
           /\ Signals(t, V, rest, hits, f)
<1>t. /\ pc \in [Threads -> Labels] /\ head \in Pointer /\ tail \in Pointer
      /\ prev \in [Threads -> Pointer] /\ next \in [Threads -> Pointer]
      /\ notify \in [Threads -> Pointer] /\ first \in [Threads -> Pointer]
      /\ state \in [Threads -> {"none", "waiting", "signaled", "leaving"}]
      /\ barrier \in [Threads -> 0..2] /\ ref \in [Threads -> Nat]
  BY TypesOf, Zenon
<1> DEFINE Seen(w, l) == {w[k] : k \in 1..l} \ {NIL}
           Hit(v) == {p \in v : state[p] = "waiting"}
           Oldest(w, h) == IF h = {} THEN NIL ELSE w[LastVisited(w, FALSE)]
           Writes(v, b, h, o) ==
             /\ state' = [p \in Threads |-> IF p \in h THEN "signaled" ELSE state[p]]
             /\ notify' = [p \in Threads |-> IF p \in v \ h THEN t ELSE notify[p]]
             /\ ref' = [ref EXCEPT ![t] = Cardinality(v \ h)]
             /\ first' = [first EXCEPT ![t] = o]
             /\ prev' = [p \in Threads |-> IF b # NIL /\ p = next[b] THEN NIL ELSE prev[p]]
             /\ next' = [p \in Threads |-> IF p = b THEN NIL ELSE next[p]]
             /\ head' = (IF b = NIL THEN NIL ELSE head) /\ tail' = b
           place == LastVisited(Walk, Calling(t, {"broadcast"}))
<1>s. Writes(Seen(Walk, place), Walk[place + 1], Hit(Seen(Walk, place)),
             Oldest(Walk, Hit(Seen(Walk, place))))
  BY Zenon DEF cond_signal
<1> HIDE DEF Seen, Hit, Oldest, Writes, place
<1>w. PICK W, all : W = Walk /\ all = Calling(t, {"broadcast"})
  BY Zenon
<1>a. PICK last, C : last = LastVisited(W, all) /\ C = CanSignal(W)
  BY Zenon
<1>v. PICK V, rest : V = Seen(W, last) /\ rest = W[last + 1]
  BY Zenon
<1>h. PICK hits : hits = Hit(V)
  BY Zenon
<1>o. PICK f : f = Oldest(W, hits)
  BY Zenon
<1>b. V = {W[k] : k \in 1..last} \ {NIL} /\ rest = W[last + 1]
  BY <1>v, Zenon DEF Seen
<1>c. hits = {p \in V : state[p] = "waiting"}
  BY <1>h, Zenon DEF Hit
<1>d. f = IF hits = {} THEN NIL ELSE W[LastVisited(W, FALSE)]
  BY <1>o, Zenon DEF Oldest
<1>e. Writes(V, rest, hits, f)
  <2>1. place = last
    BY <1>w, <1>a, Zenon DEF place
  <2> QED
    BY <1>s, <1>w, <1>v, <1>h, <1>o, <2>1, Zenon
<1>0. Signals(t, V, rest, hits, f)
  <2>1. /\ pc[t] = "call" /\ asleep[t] = "no" /\ script' = script /\ reg' = reg /\ waiters' = waiters
        /\ lock' = lock /\ holds' = holds
        /\ barrier' = barrier /\ asleep' = asleep /\ pc' = [pc EXCEPT ![t] = "drain"]
    BY Zenon DEF cond_signal, At, Goto, mutex
  <2> QED
    BY <1>c, <1>e, <2>1, Zenon DEF Signals, Writes
<1>3. \E i : Visits(W, Size, last, V, rest, hits, f, i, tail, prev)
  <2>1. Follows(W, Size, tail, prev) /\ Size \in Nat
    BY <1>t, <1>w, WalkFollows, SizeNat, Zenon
  <2>2. all \in BOOLEAN
    BY <1>w, Zenon DEF Calling
  <2>3. last \in 1..Size
    BY <1>a, <2>2, SignalPlaces, ZenonT(40)
  <2>4. PICK i \in 1..Size : C # {} => /\ i = LastVisited(W, FALSE) /\ i \in C /\ i <= last
                                       /\ \A j \in C : i <= j
    BY <1>a, <2>2, SignalPlaces, Zenon
  <2>5. hits \subseteq V
    BY <1>c, Zenon
  <2>6. \A k \in 1..last : W[k] \in hits => k \in C
    BY <1>a, <1>b, <1>c, <2>1, <2>3 DEF CanSignal
  <2>7. hits # {} => C # {}
    BY <1>b, <1>c, <2>6, Zenon
  <2>8. C # {} => W[i] \in hits
    <3> SUFFICES ASSUME C # {} PROVE W[i] \in hits
      BY Zenon
    <3>0. i \in C /\ i <= last
      BY <2>4, Zenon
    <3>1. i \in C /\ i \in 1..last
      BY <2>1, <2>3, <3>0
    <3>2. W[i] # NIL /\ state[W[i]] = "waiting"
      BY <1>a, <3>1, Zenon DEF CanSignal
    <3> QED
      BY <1>b, <1>c, <3>1, <3>2, ZenonT(40)
  <2>9. hits # {} => f # NIL /\ f = W[i] /\ \A k \in 1..last : W[k] \in hits => i <= k
    <3>1. hits # {} => f = W[i] /\ W[i] \in hits
      BY <1>d, <2>4, <2>7, <2>8, ZenonT(40)
    <3>2. NIL \notin hits
      BY <1>b, <1>c, Zenon
    <3> QED
      BY <2>4, <2>6, <2>7, <3>1, <3>2, ZenonT(40)
  <2>10. f # NIL => f \in hits
    BY <1>d, <2>4, <2>7, <2>8, Zenon
  <2> QED
    BY <1>b, <2>1, <2>3, <2>5, <2>9, <2>10, ZenonT(40) DEF Visits
<1> QED
  BY <1>0, <1>3, Zenon

LEMMA RunJInv ==
  ASSUME IInv, JInv, NEW t \in Threads, Run(t) \/ Timeout(t)
  PROVE  JInv'
<1>0. Types'
  BY RunIInv, Zenon DEF IInv
<1>1. CASE WaiterStep(t)
  BY <1>1, WaiterJInv, Zenon
(* lock(&node.barrier).                                                      *)
<1>2. CASE LockBarrier(t) \/ WaitForBarrier(t)
  <2> USE <1>0, <1>2
  <2>0. /\ pc[t] \in {"barrier", "barrierwait"} /\ script' = script /\ reg' = reg
        /\ waiters' = waiters /\ lock' = lock
        /\ holds' = holds /\ head' = head /\ tail' = tail /\ prev' = prev /\ next' = next
        /\ state' = state /\ notify' = notify /\ ref' = ref /\ first' = first
    BY Zenon DEF LockBarrier, WaitForBarrier, At, mutex, nodes, list, sig
  <2>t. /\ pc \in [Threads -> Labels] /\ barrier \in [Threads -> 0..2]
        /\ reg \in [Threads -> Nat] /\ asleep \in [Threads -> {"no", "mutex", "barrier", "ref"}]
    BY TypesOf, Zenon
  <2>s. state[t] = "signaled"
    BY <2>0, StateAt, Zenon
  <2>1. CASE barrier[t] = 0
    <3>1. /\ \E b \in {1, 2} : barrier' = [barrier EXCEPT ![t] = b]
          /\ pc' = [pc EXCEPT ![t] = "relock"] /\ asleep' = asleep
      BY <2>1, Zenon DEF LockBarrier, WaitForBarrier, Goto
    <3>2. /\ pc'[t] = "relock" /\ "relock" \in Past
          /\ \A s \in Threads : s # t => pc'[s] = pc[s] /\ barrier'[s] = barrier[s]
      BY <2>t, <3>1, Zenon DEF Past
    <3>3. TypeOK'
      <4>1. barrier' \in [Threads -> 0..2]
        BY <2>t, <3>1
      <4> QED
        BY <2>0, <2>t, <3>1, <4>1, ZenonT(40) DEF JInv, TypeOK, Types
    <3>4. Queued' = Queued /\ Leaving' = Leaving
      BY <2>0, <3>2, Zenon DEF Queued, Leaving
    <3>5. Signaled' = Signaled
      BY <2>0, <3>2, Zenon DEF Signaled
    <3>6. Opened' = Opened
      <4>1. \A s \in Threads : (barrier'[s] = 0 \/ pc'[s] \in Past) <=> (barrier[s] = 0 \/ pc[s] \in Past)
        BY <2>1, <3>2, Zenon
      <4> QED
        BY <3>5, <4>1, Zenon DEF Opened, Signaled
    <3>7. Signalers' = Signalers /\ Counted' = Counted
      BY <2>0, <3>2, Zenon DEF Signalers, Counted
    <3>8. ASSUME NEW u \in Threads PROVE Pending(u)' = Pending(u) /\ (Pending(u) # {} => pc'[u] = "drain")
      <4>1. Pending(u)' = Pending(u)
        BY <2>0, <3>2, Zenon DEF Pending
      <4>2. Pending(u) # {} => pc[u] = "drain"
        BY Zenon DEF JInv, Refs
      <4> QED
        BY <2>0, <3>2, <4>1, <4>2, Zenon
    <3>9. Status(t)'
      <4>1. Status(t)
        BY Facts, Zenon
      <4>2. InWait(t)
        BY <2>s, <4>1, Zenon DEF Status
      <4>3. InWait(t)'
        BY <2>0, <3>2, <4>2, Zenon DEF InWait, Calling, Signaling
      <4> QED
        BY <2>0, <2>s, <3>2, <4>1, <4>3, Zenon DEF Status
    <3>10. Statuses'
      BY <2>0, <3>2, <3>9, OthersStatus, Zenon
    <3> QED
      BY <2>0, <3>3, <3>4, <3>5, <3>6, <3>7, <3>8, <3>10, SameNodes, ZenonT(40)
  <2>2. CASE barrier[t] # 0
    <3>1. /\ pc' = [pc EXCEPT ![t] = "barrierwait"] /\ barrier' = barrier
          /\ asleep' \in [Threads -> {"no", "mutex", "barrier", "ref"}]
      <4>1. CASE LockBarrier(t)
        BY <2>2, <2>t, <4>1, Zenon DEF LockBarrier, Goto
      <4>2. CASE WaitForBarrier(t)
        <5>1. /\ pc[t] = "barrierwait" /\ pc' = pc /\ barrier' = barrier
              /\ asleep' = [asleep EXCEPT ![t] = IF barrier[t] = 2 THEN "barrier" ELSE "no"]
          BY <2>2, <4>2, Zenon DEF WaitForBarrier, FutexWait, At
        <5>2. asleep' \in [Threads -> {"no", "mutex", "barrier", "ref"}]
          BY <2>t, <5>1, Zenon
        <5>3. pc' = [pc EXCEPT ![t] = "barrierwait"]
          BY <2>t, <5>1, Zenon
        <5> QED
          BY <5>1, <5>2, <5>3, Zenon
      <4> QED
        BY <4>1, <4>2, Zenon
    <3>2. UNCHANGED <<nodes, barrier, sig>>
      BY <2>0, <3>1, Zenon DEF nodes, list, sig
    <3> QED
      BY <2>0, <2>s, <2>t, <3>1, <3>2, WaitMoveJInv, Zenon
  <2> QED
    BY <2>1, <2>2, Zenon
(* A waiter that has the mutex again opens the barrier of the next.          *)
<1>3. CASE OpenBarrier(t)
  <2> USE <1>0, <1>3
  <2>0. /\ pc[t] = "handoff" /\ script' = script /\ reg' = reg /\ head' = head /\ tail' = tail
        /\ prev' = prev /\ next' = next /\ state' = state /\ notify' = notify /\ ref' = ref
        /\ first' = first /\ asleep' = asleep /\ waiters' = waiters + Joins(t) - Leaves(t)
        /\ barrier' = [s \in Threads |-> IF s = Heir(t) THEN 0 ELSE barrier[s]]
        /\ pc' = [pc EXCEPT ![t] = "requeue"]
    BY Zenon DEF OpenBarrier, At, Goto, sig, nodes, list
  <2>t. /\ pc \in [Threads -> Labels] /\ prev \in [Threads -> Pointer] /\ next \in [Threads -> Pointer]
        /\ barrier \in [Threads -> 0..2] /\ waiters \in Nat
    BY TypesOf, Zenon
  <2>1. pc'[t] = "requeue" /\ \A s \in Threads : s # t => pc'[s] = pc[s]
    BY <2>0, <2>t, Zenon
  <2>2. state[t] \in {"signaled", "leaving"} /\ t # NIL /\ NIL \notin Threads
    BY <2>0, StateAt, ThreadConstants, Zenon
  <2>3. Queued' = Queued /\ Leaving' = Leaving
    BY <2>0, <2>1, Zenon DEF Queued, Leaving
  <2>4. Signalers' = Signalers /\ Counted' = Counted
    BY <2>0, <2>1, Zenon DEF Signalers, Counted
  <2>5. ASSUME NEW u \in Threads PROVE Pending(u)' = Pending(u) /\ (Pending(u) # {} => pc'[u] = "drain")
    <3>1. Pending(u)' = Pending(u)
      BY <2>0, <2>1, Zenon DEF Pending
    <3>2. Pending(u) # {} => pc[u] = "drain"
      BY Zenon DEF JInv, Refs
    <3> QED
      BY <2>0, <2>1, <3>1, <3>2, Zenon
  <2>6. \A s \in Threads : s # Heir(t) => barrier'[s] = barrier[s]
    BY <2>0, Zenon
  <2>7. ASSUME Heir(t) # NIL => state[Heir(t)] = "signaled" PROVE Statuses'
    <3>0. Status(t)
      BY Facts, Zenon
    <3>1. InWait(t)'
      BY <2>0, <2>1, <2>2, <3>0, Zenon DEF Status, InWait, Calling, Signaling
    <3>2. Status(t)'
      BY <2>0, <2>1, <2>2, <3>0, <3>1, Zenon DEF Status, Past
    <3>3. ASSUME NEW s \in Threads PROVE barrier'[s] = barrier[s] \/ (state[s] = "signaled" /\ barrier'[s] = 0)
      BY <2>0, <2>2, <2>7, Zenon
    <3> QED
      BY <2>0, <2>1, <3>2, <3>3, NearStatus, ZenonT(40)
  <2>8. ASSUME waiters' \in Nat PROVE TypeOK'
    <3>1. barrier' \in [Threads -> 0..2]
      BY <2>0, <2>t
    <3> QED
      BY <2>0, <2>8, <3>1, Zenon DEF JInv, TypeOK, Types
  <2>9. CASE state[t] = "leaving"
    <3>1. Heir(t) = NIL /\ Joins(t) = 0 /\ Leaves(t) = 0
      BY <2>9, Zenon DEF Heir, Joins, Leaves
    <3>2. waiters' = waiters /\ \A s \in Threads : barrier'[s] = barrier[s]
      BY <2>0, <2>2, <2>6, <2>t, <3>1
    <3>3. Signaled' = Signaled /\ t \notin Signaled
      BY <2>0, <2>1, <2>9, Zenon DEF Signaled
    <3>4. Opened' = Opened
      BY <2>1, <3>2, <3>3, Zenon DEF Opened, Signaled
    <3>5. TypeOK' /\ Statuses'
      BY <2>7, <2>8, <2>t, <3>1, <3>2, ZenonT(40)
    <3> QED
      BY <2>0, <2>3, <2>4, <2>5, <3>2, <3>3, <3>4, <3>5, SameNodes, ZenonT(40)
  <2>10. CASE state[t] = "signaled"
    <3>1. PICK h \in Pointer : h = prev[t]
      BY <2>t, Zenon
    <3>2. Heir(t) = h
      BY <2>10, <3>1, Zenon DEF Heir
    <3>3. t \in Signaled /\ t \in Opened /\ t \in Members
      BY <2>0, <2>10, Zenon DEF Signaled, Opened, Past, Members
    <3>4. /\ h # NIL => h \in Signaled /\ h \notin Opened /\ h # t /\ next[h] = t
          /\ ListsOf(Queued, Leaving, Signaled \ {t}, (Members \ Opened) \ {h}, Signalers,
                     notify, prev, next, head, tail, first)
      <4>1. Signalers \subseteq Threads /\ t \in (Queued \cup Leaving \cup Signaled) \ (Members \ Opened)
        BY <3>3, Zenon DEF Signalers, Members
      <4>2. HandsOver(Queued, Leaving, Signaled, Members \ Opened, Signalers,
                      notify, prev, next, head, tail, first, t)
        BY <2>t, <4>1, Zenon DEF HandsOver, JInv, Lists
      <4>3. /\ prev[t] # NIL => prev[t] \in Signaled /\ prev[t] \in Members \ Opened /\ prev[t] # t /\ next[prev[t]] = t
            /\ ListsOf(Queued, Leaving, Signaled \ {t}, (Members \ Opened) \ {prev[t]}, Signalers,
                     notify, prev, next, head, tail, first)
        <5>1. HandedOver(Queued, Leaving, Signaled, Members \ Opened, Signalers,
                         notify, prev, next, head, tail, first, t)
          BY <4>2, HandoverLists, Zenon
        <5> QED
          BY <5>1, Zenon DEF HandedOver
      <4> QED
        BY <3>1, <4>3, Zenon
    <3>5. h # NIL => h \in Threads /\ state[h] = "signaled"
      BY <3>4, Zenon DEF Signaled
    <3>6. Signaled' = Signaled \ {t}
      BY <2>0, <2>1, Zenon DEF Signaled
    <3>7. Opened' = (Opened \ {t}) \cup ({h} \ {NIL})
      <4>1. \A s \in Threads : s # t => pc'[s] = pc[s] /\ (barrier'[s] = 0 <=> s = h \/ barrier[s] = 0)
        BY <2>0, <2>1, <2>t, <3>2, Zenon
      <4>2. \A s \in Threads : s \in Opened' <=> s \in (Opened \ {t}) \cup ({h} \ {NIL})
        BY <2>2, <3>4, <3>5, <3>6, <4>1, Zenon DEF Opened, Signaled
      <4>3. Opened' \subseteq Threads /\ (Opened \ {t}) \cup ({h} \ {NIL}) \subseteq Threads
        BY <3>5, Zenon DEF Opened, Signaled
      <4> QED
        BY <4>2, <4>3, Zenon
    <3>8. Lists'
      <4>1. Members' \ Opened' = (Members \ Opened) \ {h}
        <5>1. Members' = Members \ {t}
          <6>1. t \notin Queued /\ t \notin Leaving
            BY <2>0, <2>10, Zenon DEF Queued, Leaving
          <6> QED
            BY <2>3, <3>6, <6>1, Zenon DEF Members
        <5>2. NIL \notin Members
          BY <2>2, Shape, Zenon
        <5> QED
          BY <3>3, <3>7, <5>1, <5>2, Zenon
      <4> QED
        BY <2>0, <2>3, <2>4, <3>4, <3>6, <4>1, ZenonT(40) DEF Lists
    <3>9. Refs'
      BY <2>0, <2>5, Zenon DEF JInv, Refs
    <3>10. Count' /\ waiters' \in Nat
      <4>0. /\ waiters = Cardinality(Counted) + Cardinality(Baton) /\ Counted \in SUBSET Threads
            /\ Baton \in SUBSET Threads /\ Baton \ {t} \in SUBSET Threads
        BY Zenon DEF JInv, Count, Counted, Baton, Opened, Signaled
      <4>1. Cardinality(Counted) \in Nat /\ Cardinality(Baton) \in Nat /\ Cardinality(Baton \ {t}) \in Nat
        BY <4>0, Cards, Zenon
      <4>2. Baton' = (Baton \ {t}) \cup ({h} \ {NIL})
        BY <2>0, <2>2, <3>4, <3>7, Zenon DEF Baton
      <4>3. h # NIL => h \notin Baton
        BY <3>4, Zenon DEF Baton
      <4>4. Cardinality(Baton \ {t}) = Cardinality(Baton) - (IF next[t] = NIL THEN 0 ELSE 1)
        <5>1. t \in Baton <=> next[t] # NIL
          BY <3>3, Zenon DEF Baton
        <5>2. CASE next[t] = NIL
          <6>1. Baton \ {t} = Baton
            BY <5>1, <5>2, Zenon
          <6> QED
            BY <4>1, <5>2, <6>1
        <5>3. CASE next[t] # NIL
          <6>1. Cardinality(Baton \ {t}) = Cardinality(Baton) - 1
            BY <4>0, <5>1, <5>3, Cards, Zenon
          <6> QED
            BY <5>3, <6>1, Zenon
        <5> QED
          BY <5>2, <5>3, Zenon
      <4>5. Cardinality(Baton') = Cardinality(Baton \ {t}) + (IF h = NIL THEN 0 ELSE 1)
        <5>1. CASE h = NIL
          <6>1. Baton' = Baton \ {t}
            BY <4>2, <5>1, Zenon
          <6> QED
            BY <4>1, <5>1, <6>1
        <5>2. CASE h # NIL
          <6>1. h \in Threads \ (Baton \ {t}) /\ Baton' = (Baton \ {t}) \cup {h}
            BY <3>5, <4>2, <4>3, <5>2, Zenon
          <6>2. Cardinality((Baton \ {t}) \cup {h}) = Cardinality(Baton \ {t}) + 1
            BY <4>0, <6>1, Cards, Zenon
          <6> QED
            BY <5>2, <6>1, <6>2, Zenon
        <5> QED
          BY <5>1, <5>2, Zenon
      <4>6. /\ Joins(t) = (IF next[t] = NIL THEN 1 ELSE 0) /\ Leaves(t) = (IF h = NIL THEN 1 ELSE 0)
        BY <2>10, <3>1, Zenon DEF Joins, Leaves
      <4>7. waiters' = Cardinality(Counted) + Cardinality(Baton') /\ waiters' \in Nat
        BY <2>0, <4>0, <4>1, <4>4, <4>5, <4>6
      <4> QED
        BY <2>4, <4>7, Zenon DEF Count
    <3>11. TypeOK' /\ Statuses'
      BY <2>7, <2>8, <3>2, <3>5, <3>10, Zenon
    <3> QED
      BY <3>8, <3>9, <3>10, <3>11, Zenon DEF JInv
  <2> QED
    BY <2>2, <2>9, <2>10, Zenon
(* Behind the hand-over the node is gone.                                    *)
<1>4. CASE Requeue(t)
  <2> USE <1>0, <1>4
  <2>0. /\ pc[t] = "requeue" /\ reg' = reg /\ waiters' = waiters /\ head' = head /\ tail' = tail
        /\ ref' = ref /\ first' = first /\ pc' = [pc EXCEPT ![t] = "call"]
        /\ script' = [script EXCEPT ![t] = Tail(@)] /\ state' = [state EXCEPT ![t] = "none"]
        /\ barrier' = [barrier EXCEPT ![t] = 0] /\ prev' = [prev EXCEPT ![t] = NIL]
        /\ next' = [next EXCEPT ![t] = NIL] /\ notify' = [notify EXCEPT ![t] = NIL]
        /\ asleep' = [s \in Threads |->
                        IF s = Heir(t) /\ asleep[s] = "barrier" THEN "mutex" ELSE asleep[s]]
    BY Zenon DEF Requeue, At, Return, Goto, mutex, sig
  <2>t. /\ script \in [Threads -> Seq(Calls)] /\ pc \in [Threads -> Labels]
        /\ prev \in [Threads -> Pointer] /\ next \in [Threads -> Pointer]
        /\ notify \in [Threads -> Pointer] /\ first \in [Threads -> Pointer]
        /\ state \in [Threads -> {"none", "waiting", "signaled", "leaving"}]
        /\ barrier \in [Threads -> 0..2]
        /\ asleep \in [Threads -> {"no", "mutex", "barrier", "ref"}]
    BY TypesOf, Zenon
  <2>1. /\ pc'[t] = "call" /\ state'[t] = "none" /\ prev'[t] = NIL /\ notify'[t] = NIL
        /\ \A s \in Threads : s # t =>
             /\ pc'[s] = pc[s] /\ script'[s] = script[s] /\ state'[s] = state[s] /\ barrier'[s] = barrier[s]
             /\ notify'[s] = notify[s] /\ prev'[s] = prev[s] /\ next'[s] = next[s]
    BY <2>0, <2>t, Zenon
  <2>2. state[t] \in {"signaled", "leaving"} /\ t # NIL /\ NIL \notin Threads
    BY <2>0, StateAt, ThreadConstants, Zenon
  <2>3. TypeOK'
    <3>1. prev' \in [Threads -> Pointer] /\ next' \in [Threads -> Pointer] /\ notify' \in [Threads -> Pointer]
      BY <2>0, <2>t, Zenon DEF Pointer
    <3>2. /\ state' \in [Threads -> {"none", "waiting", "signaled", "leaving"}]
          /\ barrier' \in [Threads -> 0..2]
      BY <2>0, <2>t
    <3>3. asleep' \in [Threads -> {"no", "mutex", "barrier", "ref"}]
      BY <2>0, <2>t, Zenon
    <3>4. {prev', next', notify', first'} \subseteq [Threads -> Pointer]
      BY <2>0, <2>t, <3>1, ZenonT(40)
    <3> QED
      BY <2>0, <3>2, <3>3, <3>4, ZenonT(40) DEF JInv, TypeOK, Types
  <2>4. Queued' = Queued /\ Leaving' = Leaving
    BY <2>0, <2>1, <2>2 DEF Queued, Leaving
  <2>5. Signaled' = Signaled /\ t \notin Signaled /\ t \notin Queued /\ t \notin Leaving
    BY <2>0, <2>1, <2>2 DEF Signaled, Queued, Leaving
  <2>6. Opened' = Opened
    <3>1. \A s \in Signaled : (barrier'[s] = 0 \/ pc'[s] \in Past) <=> (barrier[s] = 0 \/ pc[s] \in Past)
      BY <2>1, <2>5, Zenon DEF Signaled
    <3> QED
      BY <2>5, <3>1, Zenon DEF Opened
  <2>7. Signalers' = Signalers /\ Counted' = Counted
    BY <2>0, <2>1, Zenon DEF Signalers, Counted
  <2>8. ASSUME NEW u \in Threads PROVE Pending(u)' = Pending(u) /\ (Pending(u) # {} => pc'[u] = "drain")
    <3>1. Pending(u)' = Pending(u)
      BY <2>0, <2>1, <2>2, Zenon DEF Pending
    <3>2. Pending(u) # {} => pc[u] = "drain"
      BY Zenon DEF JInv, Refs
    <3> QED
      BY <2>0, <2>1, <3>1, <3>2, Zenon
  <2>9. Status(t)'
    BY <2>1, Zenon DEF Status, InWait
  <2>10. Statuses'
    BY <2>0, <2>1, <2>9, OthersStatus, Zenon
  <2>11. \A p \in Members : notify'[p] = notify[p] /\ prev'[p] = prev[p] /\ next'[p] = next[p]
    BY <2>1, <2>5, ZenonT(40) DEF Members, Queued, Leaving, Signaled
  <2> QED
    BY <2>0, <2>3, <2>4, <2>5, <2>6, <2>7, <2>8, <2>10, <2>11, SameNodes, ZenonT(40)
(* A signal splits the visited nodes off.                                    *)
<1>5. CASE cond_signal(t)
  <2> USE <1>0, <1>5
  <2>t. /\ pc \in [Threads -> Labels] /\ head \in Pointer /\ tail \in Pointer
        /\ prev \in [Threads -> Pointer] /\ next \in [Threads -> Pointer]
        /\ notify \in [Threads -> Pointer] /\ first \in [Threads -> Pointer]
        /\ state \in [Threads -> {"none", "waiting", "signaled", "leaving"}]
        /\ barrier \in [Threads -> 0..2] /\ ref \in [Threads -> Nat]
    BY TypesOf, Zenon
  <2>3. PICK W, last, V, rest, hits, f :
          /\ \E i : Visits(W, Size, last, V, rest, hits, f, i, tail, prev)
          /\ Signals(t, V, rest, hits, f)
    BY SignalWrites, Zenon
  <2>c. hits = {p \in V : state[p] = "waiting"}
    BY <2>3, Zenon DEF Signals
  <2>0. /\ pc[t] = "call" /\ script' = script /\ reg' = reg /\ waiters' = waiters
        /\ barrier' = barrier /\ asleep' = asleep /\ pc' = [pc EXCEPT ![t] = "drain"]
        /\ state' = [p \in Threads |-> IF p \in hits THEN "signaled" ELSE state[p]]
        /\ notify' = [p \in Threads |-> IF p \in V \ hits THEN t ELSE notify[p]]
        /\ ref' = [ref EXCEPT ![t] = Cardinality(V \ hits)]
        /\ first' = [first EXCEPT ![t] = f]
        /\ prev' = [p \in Threads |-> IF rest # NIL /\ p = next[rest] THEN NIL ELSE prev[p]]
        /\ next' = [p \in Threads |-> IF p = rest THEN NIL ELSE next[p]]
        /\ head' = (IF rest = NIL THEN NIL ELSE head) /\ tail' = rest
    BY <2>3, Zenon DEF Signals
  <2>1. pc'[t] = "drain" /\ \A s \in Threads : s # t => pc'[s] = pc[s]
    BY <2>0, <2>t, Zenon
  <2>2. state[t] = "none" /\ notify[t] = NIL /\ prev[t] = NIL /\ t # NIL /\ NIL \notin Threads
    BY <2>0, StateAt, ThreadConstants, Zenon
  <2>4. /\ V \subseteq Queued /\ rest \in (Queued \ V) \cup {NIL}
        /\ ListsOf(Queued \ V, Leaving \cup (V \ hits), Signaled \cup hits, Members \ Opened, Signalers \cup {t},
                   notify', prev', next', head', rest, first')
    <3>1. ListsOf(Queued, Leaving, Signaled, Members \ Opened, Signalers, notify, prev, next, head, tail, first)
      BY Zenon DEF JInv, Lists
    <3>2. Signalers \subseteq Threads /\ t \notin Signalers
      BY <2>0, Zenon DEF Signalers
    <3>3. \A p \in Leaving : notify[p] # t
      <4>1. Pending(t) = {}
        BY <2>0, Zenon DEF JInv, Refs
      <4> QED
        BY <4>1, Zenon DEF Leaving, Pending
    <3>4. Pointers(notify, prev, next, head, tail, first)
      BY <2>t, Zenon DEF Pointers
    <3>5. Marks(t, V, rest, hits, f, head, notify, prev, next, first, head', notify', prev', next', first')
      BY <2>0, Zenon DEF Marks
    <3> QED
      BY <2>3, <3>1, <3>2, <3>3, <3>4, <3>5, SplitLists, ZenonT(40)
  <2>5. /\ hits \subseteq V /\ V \subseteq Threads /\ t \notin V
        /\ \A p \in hits : state[p] = "waiting" /\ pc[p] \in Parked /\ barrier[p] = 2 /\ notify[p] = NIL
        /\ \A p \in V \ hits : state[p] = "leaving" /\ pc[p] = "leave" /\ notify[p] = NIL
    <3>1. hits \subseteq V /\ V \subseteq Threads /\ t \notin V
      BY <2>0, <2>2, <2>4, <2>c, ZenonT(40) DEF Queued
    <3>2. ASSUME NEW p \in hits
          PROVE  state[p] = "waiting" /\ pc[p] \in Parked /\ barrier[p] = 2 /\ notify[p] = NIL
      <4>1. state[p] = "waiting" /\ p \in Threads
        BY <2>c, <3>1, Zenon
      <4>2. Status(p)
        BY <4>1, Zenon DEF JInv, Statuses
      <4> QED
        BY <4>1, <4>2, Zenon DEF Status
    <3>3. ASSUME NEW p \in V \ hits PROVE state[p] = "leaving" /\ pc[p] = "leave" /\ notify[p] = NIL
      <4>1. p \in Threads /\ pc[p] = "leave" /\ notify[p] = NIL
        BY <2>4, <2>c, <3>1, Zenon DEF Queued
      <4> QED
        BY <4>1, StateAt, Zenon
    <3> QED
      BY <3>1, <3>2, <3>3, Zenon
  <2>6. /\ \A p \in hits : state'[p] = "signaled" /\ notify'[p] = NIL
        /\ \A p \in V \ hits : state'[p] = "leaving" /\ notify'[p] = t
        /\ \A p \in Threads \ V : state'[p] = state[p] /\ notify'[p] = notify[p]
        /\ \A p \in V : pc'[p] = pc[p]
    BY <2>0, <2>1, <2>5, Zenon
  <2>7. TypeOK'
    <3>1. prev' \in [Threads -> Pointer] /\ next' \in [Threads -> Pointer] /\ notify' \in [Threads -> Pointer]
      BY <2>0, <2>t, Zenon DEF Pointer
    <3>2. head' \in Pointer /\ tail' \in Pointer
      BY <2>0, <2>4, <2>t, Zenon DEF Pointer, Queued
    <3>3. state' \in [Threads -> {"none", "waiting", "signaled", "leaving"}]
      BY <2>0, <2>t, Zenon
    <3>4. first' \in [Threads -> Pointer]
      <4>1. f \in Pointer
        BY <2>3, <2>5, Zenon DEF Visits, Pointer
      <4> QED
        BY <2>0, <2>t, <4>1, Zenon
    <3>5. ref' \in [Threads -> Nat]
      <4>1. Cardinality(V \ hits) \in Nat
        BY <2>5, Cards, Zenon
      <4> QED
        BY <2>0, <2>t, <4>1, Zenon
    <3>6. {prev', next', notify', first'} \subseteq [Threads -> Pointer]
      BY <3>1, <3>4, Zenon
    <3> QED
      BY <2>0, <3>2, <3>3, <3>5, <3>6, ZenonT(40) DEF JInv, TypeOK, Types
  <2>8. Queued' = Queued \ V
    <3>1. ASSUME NEW p \in Threads PROVE p \in Queued' <=> p \in Queued \ V
      <4>1. CASE p \in hits
        BY <2>5, <2>6, <4>1, Zenon DEF Queued, Parked
      <4>2. CASE p \in V \ hits
        BY <2>2, <2>5, <2>6, <4>2, Zenon DEF Queued
      <4>3. CASE p \notin V
        BY <2>0, <2>1, <2>2, <2>6, <4>3, Zenon DEF Queued
      <4> QED
        BY <4>1, <4>2, <4>3, Zenon
    <3> QED
      BY <3>1, Zenon DEF Queued
  <2>9. Leaving' = Leaving \cup (V \ hits)
    <3>1. ASSUME NEW p \in Threads PROVE p \in Leaving' <=> p \in Leaving \cup (V \ hits)
      <4>1. CASE p \in hits
        BY <2>5, <2>6, <4>1, Zenon DEF Leaving, Parked
      <4>2. CASE p \in V \ hits
        BY <2>2, <2>5, <2>6, <4>2, Zenon DEF Leaving
      <4>3. CASE p \notin V
        BY <2>0, <2>1, <2>2, <2>6, <4>3, ZenonT(40) DEF Leaving
      <4> QED
        BY <4>1, <4>2, <4>3, Zenon
    <3> QED
      BY <2>5, <3>1, Zenon DEF Leaving
  <2>10. Signaled' = Signaled \cup hits
    <3>1. ASSUME NEW p \in Threads PROVE p \in Signaled' <=> p \in Signaled \cup hits
      <4>1. CASE p \in hits
        BY <2>5, <2>6, <4>1, Zenon DEF Signaled, Parked
      <4>2. CASE p \in V \ hits
        BY <2>2, <2>5, <2>6, <4>2, Zenon DEF Signaled
      <4>3. CASE p \notin V
        BY <2>0, <2>1, <2>2, <2>5, <2>6, <4>3, ZenonT(40) DEF Signaled
      <4> QED
        BY <4>1, <4>2, <4>3, Zenon
    <3> QED
      BY <2>5, <3>1, Zenon DEF Signaled
  <2>11. Opened' = Opened
    <3>1. ASSUME NEW p \in Threads PROVE p \in Opened' <=> p \in Opened
      <4>1. CASE p \in hits
        <5>1. p \notin Signaled /\ barrier'[p] = 2 /\ pc'[p] \notin Past
          BY <2>0, <2>5, <2>6, <4>1, Zenon DEF Signaled, Parked, Past, Locking
        <5> QED
          BY <5>1 DEF Opened
      <4>2. CASE p \notin hits
        <5>1. p \in Signaled' <=> p \in Signaled
          BY <2>10, <4>2, Zenon
        <5>2. p \in Signaled => pc'[p] = pc[p]
          BY <2>1, <2>2, Zenon DEF Signaled
        <5> QED
          BY <2>0, <5>1, <5>2, Zenon DEF Opened
      <4> QED
        BY <4>1, <4>2, Zenon
    <3> QED
      BY <3>1, Zenon DEF Opened, Signaled
  <2>12. Signalers' = Signalers \cup {t} /\ Counted' = Counted
    BY <2>0, <2>1, Zenon DEF Signalers, Counted
  <2>13. Statuses'
    <3>1. Status(t)'
      <4>1. state'[t] = "none" /\ notify'[t] = NIL /\ prev'[t] = NIL
        BY <2>0, <2>2, <2>5, <2>6, Zenon
      <4> QED
        BY <2>1, <2>2, <4>1, Zenon DEF Status, InWait, Signaling
    <3>2. ASSUME NEW s \in Threads, s # t PROVE Status(s)'
      <4>1. /\ Status(s) /\ pc'[s] = pc[s] /\ script'[s] = script[s] /\ barrier'[s] = barrier[s]
            /\ first'[s] = first[s] /\ InWait(s)' = InWait(s) /\ prev'[s] \in {NIL, prev[s]}
        BY <2>0, <2>1, <2>t, <3>2, ZenonT(40) DEF JInv, Statuses, InWait, Calling
      <4>2. CASE s \in hits
        <5>1. InWait(s) /\ pc[s] # "release"
          BY <2>5, <4>1, <4>2, Zenon DEF Status, Parked
        <5> QED
          BY <2>5, <2>6, <4>1, <4>2, <5>1, ZenonT(40) DEF Status
      <4>3. CASE s \in V \ hits
        BY <2>2, <2>5, <2>6, <4>1, <4>3, ZenonT(40) DEF Status
      <4>4. CASE s \notin V
        BY <2>6, <4>1, <4>4, Zenon DEF Status
      <4> QED
        BY <4>2, <4>3, <4>4, Zenon
    <3> QED
      BY <3>1, <3>2, Zenon DEF Statuses
  <2>14. Refs'
    <3>1. Pending(t) = {} /\ \A u \in Threads : Pending(u) # {} => pc[u] = "drain"
      BY <2>0, Zenon DEF JInv, Refs
    <3>2. Pending(t)' = V \ hits
      <4>1. ASSUME NEW p \in Threads PROVE p \in Pending(t)' <=> p \in V \ hits
        <5>1. CASE p \in hits
          BY <2>2, <2>6, <5>1, Zenon DEF Pending
        <5>2. CASE p \in V \ hits
          BY <2>5, <2>6, <5>2, Zenon DEF Pending
        <5>3. CASE p \notin V
          BY <2>1, <2>2, <2>6, <3>1, <5>3, ZenonT(40) DEF Pending
        <5> QED
          BY <5>1, <5>2, <5>3, Zenon
      <4> QED
        BY <2>5, <4>1, Zenon DEF Pending
    <3>3. ASSUME NEW u \in Threads, u # t PROVE Pending(u)' = Pending(u)
      <4>1. ASSUME NEW p \in Threads PROVE p \in Pending(u)' <=> p \in Pending(u)
        <5>1. CASE p \in hits
          BY <2>2, <2>5, <2>6, <5>1, ZenonT(40) DEF Pending
        <5>2. CASE p \in V \ hits
          BY <2>2, <2>5, <2>6, <3>3, <5>2 DEF Pending
        <5>3. CASE p \notin V
          BY <2>0, <2>1, <2>2, <2>6, <5>3, ZenonT(40) DEF Pending
        <5> QED
          BY <5>1, <5>2, <5>3, Zenon
      <4> QED
        BY <4>1, Zenon DEF Pending
    <3>4. ASSUME NEW u \in Threads
          PROVE  ref'[u] = Cardinality(Pending(u)') /\ (Pending(u)' # {} => pc'[u] = "drain")
      <4>1. CASE u = t
        BY <2>0, <2>1, <2>t, <3>2, <4>1, ZenonT(40)
      <4>2. CASE u # t
        <5>1. ref[u] = Cardinality(Pending(u)) /\ ref'[u] = ref[u]
          BY <2>0, <2>t, <4>2, Zenon DEF JInv, Refs
        <5> QED
          BY <2>1, <3>1, <3>3, <4>2, <5>1, ZenonT(40)
      <4> QED
        BY <4>1, <4>2, Zenon
    <3> QED
      BY <3>4, Zenon DEF Refs
  <2>15. Count'
    <3>1. ASSUME NEW p \in Opened PROVE next'[p] = next[p]
      <4>1. p \in Threads /\ p # rest
        <5>1. p \in Signaled /\ p \in Members
          BY ZenonT(40) DEF Opened, Members
        <5> QED
          BY <2>4, <5>1, MemberState, ThreadConstants, ZenonT(40)
      <4> QED
        BY <2>0, <4>1, Zenon
    <3>2. Baton' = Baton
      BY <2>11, <3>1, Zenon DEF Baton
    <3> QED
      BY <2>0, <2>12, <3>2, Zenon DEF JInv, Count
  <2>16. Lists'
    <3>1. Members' \ Opened' = Members \ Opened
      <4>1. Members' = Members
        BY <2>4, <2>5, <2>8, <2>9, <2>10, ZenonT(40) DEF Members
      <4> QED
        BY <2>11, <4>1, Zenon
    <3> QED
      BY <2>0, <2>4, <2>8, <2>9, <2>10, <2>12, <3>1, ZenonT(40) DEF Lists
  <2> QED
    BY <2>7, <2>13, <2>14, <2>15, <2>16, Zenon DEF JInv
(* The signaler waits, and goes on when all that were leaving are gone.      *)
<1>6. CASE Drain(t) \/ WakeFirst(t)
  <2> USE <1>0, <1>6
  <2>0. /\ pc[t] \in {"drain", "wakefirst"} /\ reg' = reg /\ waiters' = waiters
        /\ head' = head /\ tail' = tail /\ prev' = prev /\ next' = next /\ state' = state
        /\ notify' = notify /\ barrier' = barrier /\ ref' = ref
    BY Zenon DEF Drain, WakeFirst, At, mutex, nodes, list, sig
  <2>t. /\ pc \in [Threads -> Labels] /\ script \in [Threads -> Seq(Calls)]
        /\ first \in [Threads -> Pointer] /\ asleep \in [Threads -> {"no", "mutex", "barrier", "ref"}]
        /\ prev \in [Threads -> Pointer] /\ next \in [Threads -> Pointer]
        /\ notify \in [Threads -> Pointer]
    BY TypesOf, Zenon
  <2>1. /\ \E l \in {"drain", "call", "release"} : pc' = [pc EXCEPT ![t] = l]
        /\ pc'[t] = "drain" => pc[t] = "drain"
        /\ \A s \in Threads : s # t => script'[s] = script[s] /\ first'[s] = first[s]
        /\ first'[t] \in {first[t], NIL} /\ DOMAIN first' = Threads
        /\ asleep' \in [Threads -> {"no", "mutex", "barrier", "ref"}]
        /\ pc'[t] # pc[t] => pc[t] = "wakefirst" \/ ref[t] = 0
        /\ pc'[t] \in {"drain", "release"} => pc[t] = "drain" /\ first' = first
        /\ pc'[t] = "call" => pc[t] = "wakefirst" \/ first[t] = NIL
        /\ pc'[t] = "release" => first[t] # NIL
        /\ first' \in [Threads -> Pointer]
    <3>1. CASE Drain(t)
      <4>1. pc[t] = "drain" /\ first' = first
        BY <3>1, Zenon DEF Drain, At, sig
      <4>2. CASE ~Drained(t)
        <5>1. pc' = pc /\ script' = script /\ asleep' = [asleep EXCEPT ![t] = "ref"]
          BY <3>1, <4>2, Zenon DEF Drain, FutexWait
        <5>2. pc' = [pc EXCEPT ![t] = "drain"] /\ asleep' \in [Threads -> {"no", "mutex", "barrier", "ref"}]
          BY <2>t, <4>1, <5>1, Zenon
        <5> QED
          BY <2>t, <4>1, <5>1, <5>2, Zenon
      <4>3. CASE Drained(t) /\ first[t] = NIL
        <5>1. pc' = [pc EXCEPT ![t] = "call"] /\ script' = [script EXCEPT ![t] = Tail(@)] /\ asleep' = asleep
          BY <3>1, <4>3, Zenon DEF Drain, Return, Goto
        <5> QED
          BY <2>t, <4>1, <4>3, <5>1, Zenon DEF Drained
      <4>4. CASE Drained(t) /\ first[t] # NIL
        <5>1. pc' = [pc EXCEPT ![t] = "release"] /\ script' = script /\ asleep' = asleep
          BY <3>1, <4>4, Zenon DEF Drain, Goto
        <5> QED
          BY <2>t, <4>1, <4>4, <5>1, ZenonT(40) DEF Drained
      <4> QED
        BY <4>2, <4>3, <4>4, ZenonT(40)
    <3>2. CASE WakeFirst(t)
      <4>1. /\ pc[t] = "wakefirst" /\ first' = [first EXCEPT ![t] = NIL]
            /\ pc' = [pc EXCEPT ![t] = "call"] /\ script' = [script EXCEPT ![t] = Tail(@)]
            /\ asleep' = [s \in Threads |-> IF s = first[t] /\ reg[t] = 2 /\ asleep[s] = "barrier"
                                              THEN "no" ELSE asleep[s]]
        BY <3>2, Zenon DEF WakeFirst, At, Return, Goto
      <4>2. asleep' \in [Threads -> {"no", "mutex", "barrier", "ref"}]
        BY <2>t, <4>1, Zenon
      <4>3. first' \in [Threads -> Pointer]
        BY <2>t, <4>1, Zenon DEF Pointer
      <4> QED
        BY <2>t, <4>1, <4>2, <4>3, Zenon
    <3> QED
      BY <3>1, <3>2, Zenon
  <2>2. /\ pc'[t] \in {"drain", "call", "release"} /\ \A s \in Threads : s # t => pc'[s] = pc[s]
    BY <2>1, <2>t, Zenon
  <2>3. state[t] = "none" /\ notify[t] = NIL /\ prev[t] = NIL /\ t # NIL /\ NIL \notin Threads
    BY <2>0, StateAt, ThreadConstants, Zenon DEF Signaling
  <2>4. Queued' = Queued /\ Leaving' = Leaving
    BY <2>0, <2>2, <2>3, Zenon DEF Queued, Leaving
  <2>5. Signaled' = Signaled /\ t \notin Signaled
    BY <2>0, <2>2, <2>3, Zenon DEF Signaled
  <2>6. Opened' = Opened
    BY <2>0, <2>2, <2>5, Zenon DEF Opened, Signaled
  <2>7. Counted' = Counted
    BY <2>0, <2>2, Zenon DEF Counted
  <2>8. /\ Signalers' \subseteq Signalers /\ \A u \in Signalers \ Signalers' : first[u] = NIL
        /\ \A u \in Signalers' : first'[u] = first[u]
    <3>1. \A s \in Threads : s # t => (s \in Signalers' <=> s \in Signalers)
      BY <2>2, Zenon DEF Signalers
    <3>2. t \in Signalers' => t \in Signalers /\ first'[t] = first[t]
      BY <2>1, Zenon DEF Signalers
    <3>3. t \in Signalers /\ t \notin Signalers' => first[t] = NIL
      BY <2>0, <2>1, <2>2, Zenon DEF Signalers
    <3>4. Signalers \subseteq Threads /\ Signalers' \subseteq Threads
      BY Zenon DEF Signalers
    <3> QED
      BY <2>1, <3>1, <3>2, <3>3, <3>4, ZenonT(40)
  <2>9. ASSUME NEW u \in Threads PROVE Pending(u)' = Pending(u) /\ (Pending(u) # {} => pc'[u] = "drain")
    <3>1. Pending(u)' = Pending(u)
      BY <2>0, <2>2, <2>3, Zenon DEF Pending
    <3>2. ref[u] = Cardinality(Pending(u)) /\ (Pending(u) # {} => pc[u] = "drain")
      BY Zenon DEF JInv, Refs
    <3>3. Pending(u) # {} => ref[u] # 0
      <4>1. Pending(u) \in SUBSET Threads
        BY Zenon DEF Pending
      <4> QED
        BY <3>2, <4>1, Cards, Zenon
    <3>4. Pending(u) # {} => pc'[u] = "drain"
      BY <2>1, <2>2, <3>2, <3>3, Zenon
    <3> QED
      BY <3>1, <3>4, Zenon
  <2>10. TypeOK'
    <3>1. {prev', next', notify', first'} \subseteq [Threads -> Pointer]
      BY <2>0, <2>1, <2>t, Zenon
    <3> QED
      BY <2>0, <2>1, <3>1, Zenon DEF JInv, TypeOK, Types
  <2>11. Statuses'
    <3>1. Status(t)'
      BY <2>0, <2>1, <2>2, <2>3, Zenon DEF Status, InWait, Signaling
    <3> QED
      BY <2>0, <2>1, <2>2, <3>1, OthersStatus, ZenonT(40)
  <2>12. \A p \in Members : notify'[p] = notify[p] /\ prev'[p] = prev[p] /\ next'[p] = next[p]
    BY <2>0, Zenon
  <2> QED
    BY <2>0, <2>4, <2>5, <2>6, <2>7, <2>8, <2>9, <2>10, <2>11, <2>12, SameNodes, ZenonT(40)
(* The signaler opens the barrier of the first that it has signaled.         *)
<1>7. CASE ReleaseFirst(t)
  <2> USE <1>0, <1>7
  <2>0. /\ pc[t] = "release" /\ script' = script /\ waiters' = waiters /\ head' = head /\ tail' = tail
        /\ prev' = prev /\ next' = next /\ state' = state /\ notify' = notify /\ ref' = ref
        /\ first' = first /\ asleep' = asleep
        /\ reg' = [reg EXCEPT ![t] = barrier[first[t]]] /\ barrier' = [barrier EXCEPT ![first[t]] = 0]
        /\ pc' = [pc EXCEPT ![t] = "wakefirst"]
    BY Zenon DEF ReleaseFirst, At, Goto, mutex, sig, nodes, list
  <2>t. /\ pc \in [Threads -> Labels] /\ prev \in [Threads -> Pointer] /\ next \in [Threads -> Pointer]
        /\ reg \in [Threads -> Nat] /\ barrier \in [Threads -> 0..2] /\ first \in [Threads -> Pointer]
    BY TypesOf, Zenon
  <2>1. pc'[t] = "wakefirst" /\ \A s \in Threads : s # t => pc'[s] = pc[s]
    BY <2>0, <2>t, Zenon
  <2>2. state[t] = "none" /\ notify[t] = NIL /\ prev[t] = NIL /\ t # NIL /\ NIL \notin Threads /\ first[t] # NIL
    <3>1. Status(t)
      BY Facts, Zenon
    <3> QED
      BY <2>0, <3>1, StateAt, ThreadConstants, ZenonT(40) DEF Signaling, Status
  <2>3. PICK f \in Threads : f = first[t]
    BY <2>2, <2>t, Zenon DEF Pointer
  <2>4. ASSUME NEW u \in Threads PROVE Pending(u)' = Pending(u) /\ (Pending(u) # {} => pc'[u] = "drain")
    <3>1. Pending(u)' = Pending(u)
      BY <2>0, <2>1, Zenon DEF Pending
    <3>2. Pending(u) # {} => pc[u] = "drain"
      BY Zenon DEF JInv, Refs
    <3> QED
      BY <2>0, <2>1, <3>1, <3>2, Zenon
  <2>5. /\ f \in Signaled /\ f \in Members \ Opened /\ next[f] = NIL
        /\ ListsOf(Queued, Leaving, Signaled, (Members \ Opened) \ {f}, Signalers \ {t},
                   notify, prev, next, head, tail, first)
    <3>1. ListsOf(Queued, Leaving, Signaled, Members \ Opened, Signalers, notify, prev, next, head, tail, first)
      BY Zenon DEF JInv, Lists
    <3>2. t \in Signalers
      BY <2>0, Zenon DEF Signalers
    <3>3. \A p \in Leaving : notify[p] # t
      <4>1. Pending(t) = {}
        BY <2>0, Zenon DEF JInv, Refs
      <4> QED
        BY <4>1, Zenon DEF Leaving, Pending
    <3>4. /\ first[t] \in Signaled /\ first[t] \in Members \ Opened /\ next[first[t]] = NIL
          /\ ListsOf(Queued, Leaving, Signaled, (Members \ Opened) \ {first[t]}, Signalers \ {t},
                     notify, prev, next, head, tail, first)
      BY <2>2, <2>t, <3>1, <3>2, <3>3, ReleaseLists, ZenonT(40)
    <3> QED
      BY <2>3, <3>4, Zenon
  <2>6. state[f] = "signaled" /\ f # t
    BY <2>2, <2>5, Zenon DEF Signaled
  <2>7. barrier' = [barrier EXCEPT ![f] = 0] /\ reg' = [reg EXCEPT ![t] = barrier[f]]
    BY <2>0, <2>3, Zenon
  <2>8. TypeOK'
    <3>1. barrier' \in [Threads -> 0..2] /\ reg' \in [Threads -> Nat]
      BY <2>7, <2>t
    <3> QED
      BY <2>0, <3>1, Zenon DEF JInv, TypeOK, Types
  <2>9. Queued' = Queued /\ Leaving' = Leaving
    BY <2>0, <2>1, Zenon DEF Queued, Leaving
  <2>10. Signaled' = Signaled
    BY <2>0, <2>1, <2>2, Zenon DEF Signaled
  <2>11. Opened' = Opened \cup {f}
    <3>1. \A s \in Signaled : pc'[s] = pc[s] /\ (barrier'[s] = 0 <=> s = f \/ barrier[s] = 0)
      BY <2>1, <2>2, <2>7, <2>t, Zenon DEF Signaled
    <3> QED
      BY <2>5, <2>10, <3>1, Zenon DEF Opened
  <2>12. Signalers' = Signalers \ {t} /\ Counted' = Counted
    BY <2>0, <2>1, Zenon DEF Signalers, Counted
  <2>13. Statuses'
    <3>1. Status(t)'
      BY <2>0, <2>1, <2>2, Zenon DEF Status, InWait, Signaling
    <3>2. \A s \in Threads : barrier'[s] = barrier[s] \/ (state[s] = "signaled" /\ barrier'[s] = 0)
      BY <2>6, <2>7, <2>t, Zenon
    <3> QED
      BY <2>0, <2>1, <3>1, <3>2, NearStatus, ZenonT(40)
  <2>14. Refs'
    BY <2>0, <2>4, Zenon DEF JInv, Refs
  <2>15. Count'
    <3>1. Baton' = Baton
      BY <2>0, <2>5, <2>11, Zenon DEF Baton
    <3> QED
      BY <2>0, <2>12, <3>1, Zenon DEF JInv, Count
  <2>16. Lists'
    <3>1. Members' \ Opened' = (Members \ Opened) \ {f}
      BY <2>9, <2>10, <2>11, Zenon DEF Members
    <3> QED
      BY <2>0, <2>5, <2>9, <2>10, <2>12, <3>1, ZenonT(40) DEF Lists
  <2> QED
    BY <2>8, <2>13, <2>14, <2>15, <2>16, ZenonT(40) DEF JInv
<1> QED
  BY <1>1, <1>2, <1>3, <1>4, <1>5, <1>6, <1>7, ZenonT(40) DEF Run, WaiterStep

LEMMA ListsInductive == Spec => [](IInv /\ JInv)
<1>1. IInv /\ JInv /\ [Next]_vars => JInv'
  <2>1. ASSUME JInv, UNCHANGED vars PROVE JInv'
    <3>1. /\ script' = script /\ pc' = pc /\ reg' = reg /\ lock' = lock /\ waiters' = waiters
          /\ holds' = holds /\ head' = head /\ tail' = tail /\ prev' = prev /\ next' = next
          /\ state' = state /\ barrier' = barrier /\ notify' = notify /\ ref' = ref
          /\ first' = first /\ asleep' = asleep
      BY <2>1, Zenon DEF vars, mutex, nodes, list, sig
    <3>2. TypeOK' /\ Statuses'
      BY <2>1, <3>1, Zenon DEF JInv, TypeOK, Statuses, Status, InWait, Calling
    <3>3. /\ Queued' = Queued /\ Leaving' = Leaving /\ Signaled' = Signaled /\ Opened' = Opened
          /\ Signalers' = Signalers /\ Counted' = Counted
      BY <3>1, Zenon DEF Queued, Leaving, Signaled, Opened, Signalers, Counted
    <3>4. ASSUME NEW u \in Threads
          PROVE  Pending(u)' = Pending(u) /\ (Pending(u) # {} => pc'[u] = "drain")
      BY <2>1, <3>1, Zenon DEF Pending, JInv, Refs
    <3> QED
      BY <2>1, <3>1, <3>2, <3>3, <3>4, SameNodes, Zenon
  <2> QED
    BY <2>1, RunJInv, Zenon DEF Next
<1> QED
  BY <1>1, Inductive, InitJInv, PTL DEF Spec

(* However many threads there are: every word has its type.  In particular   *)
(* neither the count of the mutex's waiters nor a signaler's ref goes below  *)
(* 0, though one thread adds to it and another takes away.                   *)
THEOREM TypeCorrect == Spec => []TypeOK
<1>1. JInv => TypeOK
  BY Zenon DEF JInv
<1> QED
  BY <1>1, ListsInductive, PTL

(* No thread writes to the node or to the ref of a call that has returned.   *)
THEOREM NodesInUse == Spec => []NoDangling
<1>1. ASSUME IInv, JInv PROVE NoDangling
  <2>1. PICK g, r, n : Built(Queued, Leaving, Signaled, Members, Members \ Opened, Signalers,
                             notify, prev, next, head, tail, first, g, r, n)
    BY <1>1, Zenon DEF JInv, Lists, ListsOf, Members
  <2>t. /\ prev \in [Threads -> Pointer] /\ next \in [Threads -> Pointer] /\ tail \in Pointer
        /\ notify \in [Threads -> Pointer] /\ NIL \notin Threads
    BY <1>1, TypesOf, ThreadConstants, Zenon
  <2>2. ASSUME NEW t \in Threads, pc[t] = "release" PROVE state[first[t]] = "signaled"
    <3>1. t \in Signalers /\ Status(t)
      BY <1>1, <2>2, Zenon DEF Signalers, JInv, Statuses
    <3>2. first[t] # NIL
      BY <2>2, <3>1, Zenon DEF Status
    <3>3. first[t] \in Signaled
      BY <2>1, <3>1, <3>2, Zenon DEF Built, Led
    <3> QED
      BY <3>3, Zenon DEF Signaled
  <2>3. ASSUME NEW t \in Threads, pc[t] = "handoff", Heir(t) # NIL PROVE state[Heir(t)] = "signaled"
    <3>1. state[t] = "signaled" /\ Heir(t) = prev[t]
      BY <2>3, Zenon DEF Heir
    <3>2. HandsOver(Queued, Leaving, Signaled, Members \ Opened, Signalers,
                    notify, prev, next, head, tail, first, t)
      <4>1. t \in (Queued \cup Leaving \cup Signaled) \ (Members \ Opened) /\ Signalers \subseteq Threads
        BY <2>3, <3>1, Zenon DEF Members, Signaled, Opened, Past, Signalers
      <4> QED
        BY <1>1, <2>t, <4>1, Zenon DEF HandsOver, JInv, Lists
    <3>3. /\ prev[t] # NIL => prev[t] \in Signaled /\ prev[t] \in Members \ Opened /\ prev[t] # t /\ next[prev[t]] = t
          /\ ListsOf(Queued, Leaving, Signaled \ {t}, (Members \ Opened) \ {prev[t]}, Signalers,
                     notify, prev, next, head, tail, first)
      <4>1. HandedOver(Queued, Leaving, Signaled, Members \ Opened, Signalers,
                       notify, prev, next, head, tail, first, t)
        BY <3>2, HandoverLists, Zenon
      <4> QED
        BY <4>1, Zenon DEF HandedOver
    <3> QED
      BY <2>3, <3>1, <3>3, Zenon DEF Signaled
  <2>4. ASSUME NEW t \in Threads, pc[t] = "notify", notify[t] # NIL
        PROVE  pc[notify[t]] = "drain" /\ ref[notify[t]] > 0
    <3>1. PICK u \in Threads : u = notify[t]
      BY <2>4, <2>t, Zenon DEF Pointer
    <3>2. t \in Pending(u) /\ Pending(u) \in SUBSET Threads
      BY <2>4, <3>1, Zenon DEF Pending
    <3>3. ref[u] = Cardinality(Pending(u)) /\ pc[u] = "drain"
      BY <1>1, <3>2, Zenon DEF JInv, Refs
    <3>4. Cardinality(Pending(u)) \in Nat /\ Cardinality(Pending(u)) # 0
      BY <3>2, Cards, Zenon
    <3> QED
      BY <3>1, <3>3, <3>4
  <2>5. ASSUME NEW k \in 1..Size, Walk[k] # NIL PROVE state[Walk[k]] \in {"waiting", "leaving"}
    <3>1. Size \in Nat /\ Follows(Walk, Size, tail, prev)
      BY <2>t, SizeNat, WalkFollows, Zenon
    <3>2. Rising(Walk, Size, Queued, next, r)
      BY <2>1, <2>t, <3>1, WalkRises, ZenonT(40) DEF Built
    <3>3. Walk[k] \in Queued
      BY <2>5, <3>1, <3>2 DEF Rising
    <3>4. Walk[k] \in Members
      BY <3>3, Zenon DEF Members
    <3> QED
      BY <1>1, <3>3, <3>4, MemberState, Zenon
  <2> QED
    BY <2>2, <2>3, <2>4, <2>5, Zenon DEF NoDangling
<1> QED
  BY <1>1, ListsInductive, PTL

-----------------------------------------------------------------------------
(* Sleeping and waking.                                                      *)

LEMMA InitKInv == Init => KInv
<1> SUFFICES ASSUME Init PROVE KInv
  BY Zenon
<1>1. Sleepers /\ Handing
  BY Zenon DEF Init, Sleepers, Sleepy, Handing
<1>2. OnMutex = {}
  BY Zenon DEF Init, OnMutex
<1> QED
  BY <1>1, <1>2, Zenon DEF KInv, Contention

LEMMA RestedSleeps ==
  ASSUME Sleepers, NEW t \in Threads, NEW p \in Threads, p # t, Rested(p), ~Prods(t, p),
         \A u \in Threads : u # t => Calm(u)
  PROVE  Sleepy(p)'
<1>1. Sleepy(p) /\ Calm(p)
  BY Zenon DEF Sleepers
<1>2. p \in Baton => p \in Baton'
  BY <1>1, Zenon DEF Calm, Baton
<1>3. /\ asleep'[p] = "ref" => pc'[p] = "drain" /\ ref'[p] # 0
      /\ asleep'[p] = "barrier" => pc'[p] \in {"wait", "barrierwait"}
      /\ asleep'[p] = "mutex" => pc'[p] = "woken" \/ (pc'[p] \in {"wait", "barrierwait"} /\ p \in Baton')
  BY <1>1, <1>2, Zenon DEF Calm, Rested, Sleepy
<1>4. ASSUME asleep'[p] = "barrier", p \in Opened' PROVE \E u \in Threads : Prods(u, p)'
  <2>1. asleep[p] = "barrier" /\ p \in Opened
    BY <1>4, Zenon DEF Rested
  <2>2. PICK u \in Threads : Prods(u, p)
    BY <1>1, <2>1, Zenon DEF Sleepy
  <2>3. u # t /\ Calm(u)
    BY <2>2, Zenon
  <2>4. Prods(u, p)'
    BY <2>2, <2>3, Zenon DEF Calm, Prods
  <2> QED
    BY <2>4, Zenon
<1> QED
  BY <1>3, <1>4, Zenon DEF Sleepy

LEMMA CalmHanding ==
  ASSUME Handing, NEW t \in Threads, \A p \in Threads : p # t => Calm(p),
         t \in Opened => t \in Opened' /\ next'[t] = next[t],
         pc'[t] # "requeue"
  PROVE  Handing'
<1> SUFFICES ASSUME NEW u \in Threads, pc'[u] = "requeue", state'[u] = "signaled", prev'[u] # NIL
             PROVE  prev'[u] \in Opened' /\ next'[prev'[u]] # NIL
  BY Zenon DEF Handing
<1>1. u # t /\ Calm(u)
  BY Zenon
<1>2. pc[u] = "requeue" /\ prev'[u] = prev[u] /\ state[u] = "signaled"
  BY <1>1, Zenon DEF Calm
<1>3. prev[u] \in Opened /\ next[prev[u]] # NIL /\ prev[u] \in Threads
  BY <1>2, Zenon DEF Handing, Opened, Signaled
<1>4. prev[u] \in Opened' /\ next'[prev[u]] = next[prev[u]]
  BY <1>3, Zenon DEF Calm
<1> QED
  BY <1>2, <1>3, <1>4, Zenon

(* A step that nobody falls asleep on the mutex in.                          *)
LEMMA CalmContention ==
  ASSUME Contention, NEW t \in Threads,
         \A p \in Threads : p # t => Calm(p) /\ (asleep'[p] = asleep[p] \/ (asleep[p] # "no" /\ asleep'[p] = "no")),
         asleep'[t] = "mutex" => asleep[t] = "mutex",
         lock' = lock \/ (lock # 0 /\ lock' = 2), holds' = holds, holds \subseteq Threads,
         lock = 0 /\ Competes(t) => Competes(t)',
         OnMutex # {} /\ t \in holds /\ pc'[t] = "swap" => reg'[t] # 0 \/ lock' = 2
  PROVE  Contention'
<1>0. ASSUME NEW p \in Threads, p # t
      PROVE  /\ pc'[p] = pc[p] /\ reg'[p] = reg[p] /\ (asleep'[p] = "mutex" => asleep[p] = "mutex")
             /\ Competes(p) => Competes(p)'
  BY <1>0, Zenon DEF Calm, Competes
<1>1. OnMutex' # {} => OnMutex # {}
  BY <1>0, ZenonT(40) DEF OnMutex
<1>2. ASSUME OnMutex' # {}, lock' = 0 PROVE \E p \in Threads : Competes(p)'
  <2>1. lock = 0
    BY <1>2
  <2>2. PICK p \in Threads : Competes(p)
    BY <1>1, <1>2, <2>1, Zenon DEF Contention
  <2>3. Competes(p)'
    <3>1. CASE p = t
      BY <2>1, <2>2, <3>1, Zenon
    <3>2. CASE p # t
      BY <1>0, <2>2, <3>2, Zenon
    <3> QED
      BY <3>1, <3>2, Zenon
  <2> QED
    BY <2>3, Zenon
<1>3. ASSUME OnMutex' # {}, NEW h \in holds', pc'[h] = "swap" PROVE reg'[h] # 0 \/ lock' = 2
  <2>1. CASE h = t
    BY <1>1, <1>3, <2>1, Zenon
  <2>2. CASE h # t
    <3>1. pc[h] = "swap" /\ reg'[h] = reg[h]
      BY <1>0, <1>3, <2>2, Zenon
    <3>2. reg[h] # 0 \/ lock = 2
      BY <1>1, <1>3, <3>1, Zenon DEF Contention
    <3> QED
      BY <3>1, <3>2, Zenon
  <2> QED
    BY <2>1, <2>2, Zenon
<1> QED
  BY <1>2, <1>3, Zenon DEF Contention

(* A step that leaves the other threads alone but may wake some.             *)
LEMMA CalmStep ==
  ASSUME KInv, NEW t \in Threads, Sleepy(t)', \A p \in Threads : p # t => Calm(p) /\ Rested(p),
         pc[t] \notin {"wakefirst", "requeue"}, pc'[t] # "requeue",
         t \in Opened => t \in Opened' /\ next'[t] = next[t],
         asleep'[t] = "mutex" => asleep[t] = "mutex",
         lock' = lock \/ (lock # 0 /\ lock' = 2), holds' = holds, holds \subseteq Threads,
         lock = 0 /\ Competes(t) => Competes(t)',
         OnMutex # {} /\ t \in holds /\ pc'[t] = "swap" => reg'[t] # 0 \/ lock' = 2
  PROVE  KInv'
<1>0. Sleepers /\ Handing /\ Contention
  BY Zenon DEF KInv
<1>1. Sleepers'
  <2>1. ASSUME NEW p \in Threads, p # t PROVE Sleepy(p)'
    <3>1. Rested(p) /\ ~Prods(t, p)
      BY <2>1, Zenon DEF Prods
    <3> QED
      BY <1>0, <2>1, <3>1, RestedSleeps, Zenon
  <2> QED
    BY <2>1, Zenon DEF Sleepers
<1>2. Handing'
  BY <1>0, CalmHanding, Zenon
<1>3. Contention'
  <2>1. ASSUME NEW p \in Threads, p # t
        PROVE  Calm(p) /\ (asleep'[p] = asleep[p] \/ (asleep[p] # "no" /\ asleep'[p] = "no"))
    BY <2>1, Zenon DEF Rested
  <2> QED
    BY <1>0, <2>1, CalmContention, Zenon
<1> QED
  BY <1>1, <1>2, <1>3, Zenon DEF KInv

(* A thread that a step of another leaves alone.                             *)
LEMMA CalmOther ==
  ASSUME NEW p \in Threads, pc'[p] = pc[p], reg'[p] = reg[p], first'[p] = first[p],
         state'[p] = state[p], barrier'[p] = barrier[p], next'[p] = next[p], prev'[p] = prev[p],
         ref'[p] = ref[p], asleep'[p] \in {asleep[p], "no"}
  PROVE  Calm(p) /\ Rested(p)
<1>1. p \in Opened' <=> p \in Opened
  BY Zenon DEF Opened, Signaled
<1> QED
  BY <1>1, Zenon DEF Calm, Rested

(* Whose barrier is open keeps it open until it hands over.                  *)
LEMMA StaysOpened ==
  ASSUME NEW t \in Threads, state' = state, pc'[t] # "requeue",
         barrier'[t] = 0 \/ pc'[t] \in Past \/ (barrier'[t] = barrier[t] /\ pc[t] \notin Past)
  PROVE  t \in Opened => t \in Opened'
  BY Zenon DEF Opened, Signaled

(* A step of t that leaves the nodes alone and that t is awake behind.       *)
LEMMA AwakeStep ==
  ASSUME IInv, KInv, NEW t \in Threads, UNCHANGED <<nodes, barrier, sig>>,
         \A p \in Threads : p # t => pc'[p] = pc[p] /\ reg'[p] = reg[p] /\ asleep'[p] = asleep[p],
         asleep'[t] = "no", pc[t] \notin {"wakefirst", "requeue"}, pc'[t] # "requeue",
         pc'[t] \in Past \/ (barrier[t] = 0 \/ pc[t] \notin Past),
         lock' = lock \/ (lock # 0 /\ lock' = 2), holds' = holds,
         \/ lock # 0
         \/ pc'[t] \in Locking \cup {"relock", "wake"}
         \/ pc[t] \notin Locking \cup {"relock", "wake"},
         OnMutex # {} /\ t \in holds /\ pc'[t] = "swap" => reg'[t] # 0 \/ lock' = 2
  PROVE  KInv'
<1>0. /\ state' = state /\ barrier' = barrier /\ next' = next /\ prev' = prev /\ ref' = ref /\ first' = first
      /\ holds \subseteq Threads
  BY Zenon DEF nodes, list, sig, IInv, Types
<1>1. \A p \in Threads : p # t => Calm(p) /\ Rested(p)
  BY <1>0, CalmOther, Zenon
<1>2. Sleepy(t)'
  BY Zenon DEF Sleepy
<1>3. t \in Opened => t \in Opened'
  BY <1>0, StaysOpened, Zenon
<1>4. lock = 0 /\ Competes(t) => Competes(t)'
  BY <1>3, Zenon DEF Competes
<1> QED
  BY <1>0, <1>1, <1>2, <1>3, <1>4, CalmStep, Zenon

(* The mutex is taken, or found taken.                                       *)
LEMMA AcquireKInv ==
  ASSUME IInv, JInv, KInv, NEW t \in Threads, NEW label \in {"trylock", "look"},
         pc[t] \in {"call", "relock", "trylock"}, asleep[t] = "no",
         Acquired(t) \/ Busy(t, label), UNCHANGED <<nodes, barrier, sig, asleep>>
  PROVE  KInv'
<1>0. /\ state' = state /\ barrier' = barrier /\ next' = next /\ prev' = prev /\ ref' = ref /\ first' = first
      /\ asleep' = asleep /\ reg' = reg /\ pc \in [Threads -> Labels] /\ holds \subseteq Threads
  BY TypesOf, Zenon DEF nodes, list, sig, IInv, Types, Acquired, Busy
<1>1. CASE Busy(t, label)
  <2>1. pc' = [pc EXCEPT ![t] = label] /\ lock' = lock /\ holds' = holds /\ lock # 0
    BY <1>1, Zenon DEF Busy, Free, Goto, mutex
  <2> QED
    BY <1>0, <2>1, AwakeStep, Zenon DEF Past, Locking
<1>2. CASE Acquired(t)
  <2>1. /\ lock = 0 /\ lock' = 1 /\ holds' = holds \cup {t} /\ pc'[t] \in {"call", "handoff"}
        /\ Calling(t, {"lock"}) => pc'[t] = "call"
        /\ ~Calling(t, {"lock"}) => pc'[t] = "handoff"
        /\ \A p \in Threads : p # t => pc'[p] = pc[p]
    BY <1>0, <1>2, Zenon DEF Acquired, Free, Goto, Return
  <2>2. holds = {}
    BY <2>1, Zenon DEF IInv, MutualExclusion
  <2>3. \A p \in Threads : p # t => Calm(p) /\ Rested(p)
    BY <1>0, <2>1, CalmOther, Zenon
  <2>4. Sleepy(t)' /\ pc[t] \notin {"wakefirst", "requeue"}
    BY <1>0, Zenon DEF Sleepy
  <2>5. t \in Opened => pc'[t] = "handoff"
    <3>1. Status(t)
      BY Facts, Zenon
    <3>2. Calling(t, {"lock"}) => ~Calling(t, Waits)
      BY Zenon DEF Calling, Waits
    <3>3. Calling(t, {"lock"}) => state[t] = "none"
      BY <3>1, <3>2, Zenon DEF Status, InWait
    <3> QED
      BY <2>1, <3>3, Zenon DEF Opened, Signaled
  <2>6. t \in Opened => t \in Opened' /\ next'[t] = next[t]
    BY <1>0, <2>5, Zenon DEF Opened, Signaled, Past
  <2>7. Contention'
    BY <2>1, <2>2 DEF Contention
  <2>8. Sleepers'
    <3>1. ASSUME NEW p \in Threads, p # t PROVE Sleepy(p)'
      <4>1. Rested(p) /\ ~Prods(t, p) /\ Sleepers
        BY <2>3, <2>4, <3>1, Zenon DEF Prods, KInv
      <4> QED
        BY <2>3, <3>1, <4>1, RestedSleeps, Zenon
    <3> QED
      BY <2>4, <3>1, Zenon DEF Sleepers
  <2>9. Handing'
    <3>1. Handing /\ pc'[t] # "requeue"
      BY <2>1, Zenon DEF KInv
    <3> QED
      BY <2>3, <2>6, <3>1, CalmHanding, Zenon
  <2> QED
    BY <2>7, <2>8, <2>9, Zenon DEF KInv
<1> QED
  BY <1>1, <1>2, Zenon

(* Who sleeps on the mutex is counted in its waiters.                        *)
LEMMA SleepersCounted ==
  ASSUME JInv, Sleepers, OnMutex # {}
  PROVE  waiters # 0
<1>1. PICK p \in Threads : asleep[p] = "mutex"
  BY Zenon DEF OnMutex
<1>2. p \in Counted \/ p \in Baton
  BY <1>1, Zenon DEF Sleepers, Sleepy, Counted
<1>3. Counted \in SUBSET Threads /\ Baton \in SUBSET Threads
  BY Zenon DEF Counted, Baton, Opened, Signaled
<1>4. /\ Cardinality(Counted) \in Nat /\ (Cardinality(Counted) = 0 <=> Counted = {})
      /\ Cardinality(Baton) \in Nat /\ (Cardinality(Baton) = 0 <=> Baton = {})
  BY <1>3, Cards, Zenon
<1> QED
  BY <1>2, <1>4 DEF JInv, Count

(* The one that a waiter hands over to.                                      *)
LEMMA HeirWaits ==
  ASSUME IInv, JInv, NEW t \in Threads, pc[t] = "handoff", Heir(t) # NIL
  PROVE  /\ Heir(t) \in Signaled /\ Heir(t) \notin Opened /\ Heir(t) # t /\ Heir(t) \in Threads
         /\ next[Heir(t)] = t /\ state[t] = "signaled" /\ Heir(t) = prev[t]
<1>0. /\ prev \in [Threads -> Pointer] /\ next \in [Threads -> Pointer] /\ tail \in Pointer
      /\ notify \in [Threads -> Pointer] /\ NIL \notin Threads
  BY TypesOf, ThreadConstants, Zenon
<1>1. state[t] = "signaled" /\ Heir(t) = prev[t]
  BY Zenon DEF Heir
<1>2. HandsOver(Queued, Leaving, Signaled, Members \ Opened, Signalers,
                notify, prev, next, head, tail, first, t)
  <2>1. t \in (Queued \cup Leaving \cup Signaled) \ (Members \ Opened) /\ Signalers \subseteq Threads
    BY <1>1, Zenon DEF Members, Signaled, Opened, Past, Signalers
  <2> QED
    BY <1>0, <2>1, Zenon DEF HandsOver, JInv, Lists
<1>3. /\ prev[t] # NIL => prev[t] \in Signaled /\ prev[t] \in Members \ Opened /\ prev[t] # t /\ next[prev[t]] = t
      /\ ListsOf(Queued, Leaving, Signaled \ {t}, (Members \ Opened) \ {prev[t]}, Signalers,
                 notify, prev, next, head, tail, first)
  <2>1. HandedOver(Queued, Leaving, Signaled, Members \ Opened, Signalers,
                   notify, prev, next, head, tail, first, t)
    BY <1>2, HandoverLists, Zenon
  <2> QED
    BY <2>1, Zenon DEF HandedOver
<1> QED
  BY <1>1, <1>3, Zenon DEF Signaled

(* The one that a signaler releases.                                         *)
LEMMA FirstWaits ==
  ASSUME IInv, JInv, NEW t \in Threads, pc[t] = "release"
  PROVE  /\ first[t] \in Signaled /\ first[t] \notin Opened /\ first[t] # t /\ first[t] \in Threads
         /\ barrier[first[t]] = 2
<1>1. PICK g, r, n : Built(Queued, Leaving, Signaled, Members, Members \ Opened, Signalers,
                           notify, prev, next, head, tail, first, g, r, n)
  BY Zenon DEF JInv, Lists, ListsOf, Members
<1>2. t \in Signalers /\ first[t] # NIL
  BY Zenon DEF Signalers, JInv, Statuses, Status
<1>3. first[t] \in Signaled /\ first[t] \in Members \ Opened
  BY <1>1, <1>2, Zenon DEF Built, Led
<1>4. first[t] # t /\ first[t] \in Threads
  BY <1>3, StateAt, Zenon DEF Signaled, Signaling
<1>5. barrier[first[t]] = 2
  <2>1. Status(first[t])
    BY <1>4, Zenon DEF JInv, Statuses
  <2> QED
    BY <1>3, <2>1, Zenon DEF Status, Signaled, Opened
<1> QED
  BY <1>3, <1>4, <1>5, Zenon

LEMMA RunKInv ==
  ASSUME IInv, JInv, KInv, NEW t \in Threads, Run(t) \/ Timeout(t)
  PROVE  KInv'
<1>1. CASE mutex_lock(t) \/ mutex_trylock(t)
  <2>1. /\ \E label \in {"trylock", "look"} : Acquired(t) \/ Busy(t, label)
        /\ UNCHANGED <<nodes, barrier, sig, asleep>> /\ asleep[t] = "no"
        /\ pc[t] \in {"call", "relock", "trylock"}
    BY <1>1, Zenon DEF mutex_lock, mutex_trylock, At
  <2> QED
    BY <2>1, AcquireKInv, Zenon
(* A turn of the loop in pthread_mutex_timedlock.                            *)
<1>2. CASE LookAtLock(t) \/ CountWaiter(t) \/ MarkContended(t) \/ SleepOnMutex(t) \/ WokenFromMutex(t)
  <2> USE <1>2
  <2>0. /\ UNCHANGED <<nodes, barrier, sig>> /\ holds' = holds /\ asleep[t] = "no"
        /\ pc[t] \in Locking /\ pc[t] \notin {"wakefirst", "requeue"}
        /\ \E label \in Locking : pc' = [pc EXCEPT ![t] = label]
    BY Zenon DEF LookAtLock, CountWaiter, MarkContended, SleepOnMutex, WokenFromMutex, At, Goto,
       mutex,
       Locking
  <2>t. /\ pc \in [Threads -> Labels] /\ reg \in [Threads -> Nat] /\ holds \subseteq Threads
        /\ asleep \in [Threads -> {"no", "mutex", "barrier", "ref"}]
    BY TypesOf, Zenon DEF IInv, Types
  <2>1. /\ pc'[t] \in Locking /\ pc'[t] \in Past /\ pc'[t] # "requeue" /\ pc'[t] # "swap"
        /\ \A p \in Threads : p # t => pc'[p] = pc[p]
    BY <2>0, <2>t, Zenon DEF Locking, Past
  <2>2. CASE asleep' = asleep
    <3>1. \A p \in Threads : p # t => reg'[p] = reg[p]
      BY <2>t, Zenon DEF LookAtLock, CountWaiter, MarkContended, SleepOnMutex, WokenFromMutex
    <3>2. lock' = lock \/ (lock # 0 /\ lock' = 2)
      <4>1. CASE MarkContended(t)
        <5>1. reg[t] # 0
          BY <4>1, Zenon DEF MarkContended, At, IInv, ThreadOK
        <5> QED
          BY <4>1, <5>1, Zenon DEF MarkContended
      <4>2. CASE ~MarkContended(t)
        BY <4>2, Zenon DEF LookAtLock, CountWaiter, SleepOnMutex, WokenFromMutex, mutex
      <4> QED
        BY <4>1, <4>2, Zenon
    <3> QED
      BY <2>0, <2>1, <2>2, <3>1, <3>2, AwakeStep, ZenonT(40)
  <2>3. CASE SleepOnMutex(t)
    <3>0. /\ asleep' = [asleep EXCEPT ![t] = IF lock = 2 THEN "mutex" ELSE "no"]
          /\ lock' = lock /\ reg' = reg /\ pc' = [pc EXCEPT ![t] = "woken"]
      BY <2>3, Zenon DEF SleepOnMutex, FutexWait, mutex, Goto
    <3>1. CASE lock # 2
      <4>1. asleep' = asleep
        BY <2>0, <2>t, <3>0, <3>1, Zenon
      <4> QED
        BY <2>2, <4>1, Zenon
    <3>2. CASE lock = 2
      <4>0. /\ state' = state /\ barrier' = barrier /\ next' = next /\ prev' = prev /\ ref' = ref
            /\ first' = first /\ pc'[t] = "woken" /\ asleep'[t] = "mutex"
            /\ \A p \in Threads : p # t => asleep'[p] = asleep[p]
        BY <2>0, <2>t, <3>0, <3>2, Zenon DEF nodes, list, sig
      <4>1. \A p \in Threads : p # t => Calm(p) /\ Rested(p)
        BY <2>1, <3>0, <4>0, CalmOther, Zenon
      <4>2. Sleepy(t)'
        BY <4>0, Zenon DEF Sleepy
      <4>3. Sleepers'
        <5>1. ASSUME NEW p \in Threads, p # t PROVE Sleepy(p)'
          <6>1. Rested(p) /\ ~Prods(t, p) /\ Sleepers
            BY <2>0, <4>1, <5>1, Zenon DEF Prods, KInv
          <6> QED
            BY <4>1, <5>1, <6>1, RestedSleeps, Zenon
        <5> QED
          BY <4>2, <5>1, Zenon DEF Sleepers
      <4>4. t \in Opened => t \in Opened' /\ next'[t] = next[t]
        BY <2>1, <4>0, StaysOpened, Zenon
      <4>5. Handing'
        <5>1. Handing
          BY Zenon DEF KInv
        <5> QED
          BY <2>1, <4>1, <4>4, <5>1, CalmHanding, Zenon
      <4>6. Contention'
        BY <3>0, <3>2 DEF Contention
      <4> QED
        BY <4>3, <4>5, <4>6, Zenon DEF KInv
    <3> QED
      BY <3>1, <3>2, Zenon
  <2> QED
    BY <2>2, <2>3, Zenon DEF LookAtLock, CountWaiter, MarkContended, WokenFromMutex
(* The mutex is given up: whoever is behind it is seen to.                   *)
<1>3. CASE mutex_unlock(t) \/ SwapLock(t) \/ WakeOne(t)
  <2> USE <1>3
  <2>t. /\ pc \in [Threads -> Labels] /\ reg \in [Threads -> Nat] /\ holds \subseteq Threads
        /\ asleep \in [Threads -> {"no", "mutex", "barrier", "ref"}]
    BY TypesOf, Zenon DEF IInv, Types
  <2>0. /\ state' = state /\ barrier' = barrier /\ next' = next /\ prev' = prev /\ ref' = ref /\ first' = first
        /\ asleep[t] = "no" /\ pc[t] \in {"call", "unlock", "swap", "wake"}
        /\ pc'[t] \in {"swap", "wake", "wait", "call"}
        /\ \A p \in Threads : p # t => pc'[p] = pc[p] /\ reg'[p] = reg[p]
    <3>1. UNCHANGED <<nodes, barrier, sig>> /\ asleep[t] = "no" /\ pc[t] \in {"call", "unlock", "swap", "wake"}
      BY Zenon DEF mutex_unlock, SwapLock, WakeOne, At
    <3>2. \E label \in {"swap", "wake", "wait", "call"} : pc' = [pc EXCEPT ![t] = label]
      BY Zenon DEF mutex_unlock, SwapLock, WakeOne, Unlocked, Return, Goto
    <3>3. \A p \in Threads : p # t => reg'[p] = reg[p]
      BY <2>t, Zenon DEF mutex_unlock, SwapLock, WakeOne
    <3> QED
      BY <2>t, <3>1, <3>2, <3>3, Zenon DEF nodes, list, sig
  <2>k. Sleepers /\ Handing /\ Contention
    BY Zenon DEF KInv
  <2>1. CASE mutex_unlock(t)
    <3>1. /\ UNCHANGED <<nodes, barrier, sig>> /\ asleep' = asleep /\ lock' = lock /\ holds' = holds
          /\ reg' = [reg EXCEPT ![t] = waiters] /\ pc' = [pc EXCEPT ![t] = "swap"]
          /\ pc[t] \in {"call", "unlock"}
      BY <2>1, Zenon DEF mutex_unlock, Goto, mutex, At
    <3>2. OnMutex # {} => reg'[t] # 0
      BY <2>k, <2>t, <3>1, SleepersCounted, Zenon
    <3> QED
      BY <2>0, <3>1, <3>2, AwakeStep, Zenon DEF Past, Locking
  <2>o. ASSUME SwapLock(t) \/ WakeOne(t), \A p \in Threads : asleep'[p] \in {asleep[p], "no"}
        PROVE  Sleepers' /\ Handing' /\ \A p \in Threads : p # t => Calm(p) /\ Rested(p)
    <3>1. \A p \in Threads : p # t => Calm(p) /\ Rested(p)
      BY <2>0, <2>o, CalmOther, Zenon
    <3>2. Sleepy(t)'
      BY <2>0, <2>o, Zenon DEF Sleepy
    <3>3. ASSUME NEW p \in Threads, p # t PROVE Sleepy(p)'
      <4>1. Rested(p) /\ ~Prods(t, p)
        BY <2>0, <3>1, <3>3, Zenon DEF Prods
      <4> QED
        BY <2>k, <3>1, <3>3, <4>1, RestedSleeps, ZenonT(40)
    <3>4. t \in Opened => t \in Opened' /\ next'[t] = next[t]
      BY <2>0, StaysOpened, Zenon DEF Past, Locking, SwapLock, WakeOne, At
    <3>5. Handing'
      <4>1. pc'[t] # "requeue"
        BY <2>0, Zenon
      <4> QED
        BY <2>k, <3>1, <3>4, <4>1, CalmHanding, Zenon
    <3> QED
      BY <3>1, <3>2, <3>3, <3>5, Zenon DEF Sleepers
  <2>2. CASE SwapLock(t)
    <3>1. /\ pc[t] = "swap" /\ lock' = 0 /\ holds' = holds \ {t} /\ asleep' = asleep
          /\ MustWake(t) => pc' = [pc EXCEPT ![t] = "wake"]
      BY <2>2, Zenon DEF SwapLock, At, Goto
    <3>2. t \in holds /\ \A s, u \in holds : s = u
      BY <3>1, Zenon DEF IInv, ThreadOK, MutualExclusion
    <3>3. holds' = {} /\ OnMutex' = OnMutex
      BY <3>1, <3>2, Zenon DEF OnMutex
    <3>4. OnMutex # {} => Competes(t)'
      <4> SUFFICES ASSUME OnMutex # {} PROVE Competes(t)'
        BY Zenon
      <4>1. MustWake(t)
        BY <2>k, <3>1, <3>2, Zenon DEF Contention, MustWake
      <4>2. pc'[t] = "wake" /\ asleep'[t] = "no"
        BY <2>0, <2>t, <3>1, <4>1, Zenon
      <4> QED
        BY <4>2, Zenon DEF Competes
    <3>5. Contention'
      BY <3>3, <3>4, Zenon DEF Contention
    <3> QED
      BY <2>2, <2>o, <3>1, <3>5, Zenon DEF KInv
  <2>3. CASE WakeOne(t)
    <3>0. WakeMutex /\ lock' = lock /\ holds' = holds /\ pc'[t] \in {"call", "wait"} /\ pc[t] = "wake"
      BY <2>3, <2>t, Zenon DEF WakeOne, mutex, Unlocked, Return, Goto, At
    <3>1. CASE OnMutex = {}
      <4>1. asleep' = asleep
        BY <3>0, <3>1, Zenon DEF WakeMutex, OnMutex
      <4>2. Contention'
        BY <3>1, <4>1, Zenon DEF Contention, OnMutex
      <4> QED
        BY <2>3, <2>o, <4>1, <4>2, Zenon DEF KInv
    <3>2. CASE OnMutex # {}
      <4>1. PICK s \in Threads : asleep[s] = "mutex" /\ asleep' = [asleep EXCEPT ![s] = "no"]
        BY <3>0, <3>2, Zenon DEF WakeMutex, OnMutex
      <4>2. s # t /\ asleep'[s] = "no" /\ pc'[s] = pc[s] /\ \A p \in Threads : asleep'[p] \in {asleep[p], "no"}
        BY <2>0, <2>t, <4>1, Zenon
      <4>3. Calm(s) /\ Rested(s) /\ Sleepers' /\ Handing'
        BY <2>3, <2>o, <4>2, Zenon
      <4>4. Competes(s)'
        <5>1. pc[s] \in Locking \/ s \in Opened
          BY <2>k, <4>1, Zenon DEF Sleepers, Sleepy, Baton, Locking
        <5> QED
          BY <4>2, <4>3, <5>1, Zenon DEF Competes, Calm
      <4>5. \A h \in holds' : pc'[h] = "swap" => reg'[h] # 0 \/ lock' = 2
        <5>1. \A h \in holds : pc[h] = "swap" => reg[h] # 0 \/ lock = 2
          BY <2>k, <3>2, Zenon DEF Contention
        <5> QED
          BY <2>0, <2>t, <3>0, <5>1, Zenon
      <4>6. Contention'
        BY <4>4, <4>5, Zenon DEF Contention
      <4> QED
        BY <4>3, <4>6, Zenon DEF KInv
    <3> QED
      BY <3>1, <3>2, Zenon
  <2> QED
    BY <2>1, <2>2, <2>3, Zenon
(* A waiter enters the list.                                                 *)
<1>4. CASE Enqueue(t)
  <2> USE <1>4
  <2>0. /\ pc[t] = "call" /\ asleep[t] = "no" /\ reg' = reg /\ lock' = lock /\ holds' = holds
        /\ ref' = ref /\ first' = first /\ asleep' = asleep
        /\ barrier' = [barrier EXCEPT ![t] = 2] /\ state' = [state EXCEPT ![t] = "waiting"]
        /\ next' = [next EXCEPT ![t] = head] /\ pc' = [pc EXCEPT ![t] = "unlock"]
        /\ prev' = [p \in Threads |-> IF p = head /\ tail # NIL THEN t ELSE prev[p]]
    BY Zenon DEF Enqueue, At, Goto, mutex, sig
  <2>t. /\ pc \in [Threads -> Labels] /\ prev \in [Threads -> Pointer] /\ next \in [Threads -> Pointer]
        /\ state \in [Threads -> {"none", "waiting", "signaled", "leaving"}]
        /\ barrier \in [Threads -> 0..2] /\ holds \subseteq Threads
    BY TypesOf, Zenon DEF IInv, Types
  <2>1. state[t] = "none" /\ t \notin Opened /\ ~Competes(t)
    <3>1. state[t] = "none"
      BY <2>0, StateAt, Zenon
    <3> QED
      BY <2>0, <3>1, Zenon DEF Opened, Signaled, Competes, Locking
  <2>2. ASSUME NEW p \in Threads, p # t PROVE Calm(p) /\ Rested(p)
    <3>1. pc[p] = "requeue" => prev'[p] = prev[p]
      <4>1. pc[p] = "requeue" => state[p] # "waiting" /\ state[p] \in {"signaled", "leaving"}
        BY StateAt, Zenon
      <4>2. head \in Queued \cup {NIL}
        BY Shape, Zenon
      <4> QED
        BY <2>0, <4>1, <4>2, ThreadConstants, Zenon DEF Queued
    <3>2. p \in Opened' <=> p \in Opened
      BY <2>0, <2>t, <2>2, Zenon DEF Opened, Signaled
    <3> QED
      BY <2>0, <2>t, <2>2, <3>1, <3>2, Zenon DEF Calm, Rested
  <2>3. Sleepy(t)' /\ pc'[t] = "unlock" /\ asleep'[t] = "no"
    BY <2>0, <2>t, Zenon DEF Sleepy
  <2> QED
    BY <2>0, <2>1, <2>2, <2>3, <2>t, CalmStep, ZenonT(40)
(* A waiter sleeps on its barrier, gives up on it, or decides.               *)
<1>5. CASE SleepOnBarrier(t) \/ Timeout(t) \/ Decide(t) \/ Drain(t)
  <2> USE <1>5
  <2>t. /\ pc \in [Threads -> Labels] /\ holds \subseteq Threads
        /\ state \in [Threads -> {"none", "waiting", "signaled", "leaving"}]
        /\ asleep \in [Threads -> {"no", "mutex", "barrier", "ref"}]
    BY TypesOf, Zenon DEF IInv, Types
  <2>0. /\ barrier' = barrier /\ next' = next /\ prev' = prev /\ ref' = ref /\ first' = first
        /\ lock' = lock /\ holds' = holds /\ reg' = reg
        /\ pc[t] \in {"wait", "decide", "drain"}
        /\ pc'[t] \in {"wait", "decide", "leave", "barrier", "drain", "call", "release"}
        /\ \A p \in Threads : p # t => pc'[p] = pc[p] /\ asleep'[p] = asleep[p] /\ state'[p] = state[p]
    <3>1. /\ barrier' = barrier /\ reg' = reg /\ UNCHANGED mutex /\ UNCHANGED list /\ UNCHANGED sig
          /\ pc[t] \in {"wait", "decide", "drain"}
      BY Zenon DEF SleepOnBarrier, Timeout, Decide, Drain, At, nodes
    <3>2. \A p \in Threads : p # t => asleep'[p] = asleep[p]
      BY <2>t, Zenon DEF SleepOnBarrier, Timeout, Decide, Drain, FutexWait
    <3>3. \A p \in Threads : p # t => state'[p] = state[p]
      BY <2>t, Zenon DEF SleepOnBarrier, Timeout, Decide, Drain, nodes
    <3>4. pc' = pc \/ \E label \in {"wait", "decide", "leave", "barrier", "call", "release"} : pc' = [pc EXCEPT ![t] = label]
      BY Zenon DEF SleepOnBarrier, Timeout, Decide, Drain, Goto, Return
    <3> QED
      BY <2>t, <3>1, <3>2, <3>3, <3>4, Zenon DEF mutex, list, sig
  <2>1. \A p \in Threads : p # t => Calm(p) /\ Rested(p)
    BY <2>0, CalmOther, Zenon
  <2>2. pc[t] \notin Past /\ pc[t] \notin Locking \cup {"relock", "wake"} /\ pc'[t] \notin {"requeue", "swap"}
    BY <2>0, Zenon DEF Past, Locking
  <2>3. CASE SleepOnBarrier(t)
    <3>1. /\ state' = state /\ pc[t] = "wait" /\ asleep[t] = "no"
          /\ barrier[t] = 2 => pc'[t] = "wait" /\ asleep'[t] = "barrier"
          /\ barrier[t] # 2 => pc'[t] = "decide" /\ asleep'[t] = "no"
      BY <2>3, <2>t, Zenon DEF SleepOnBarrier, At, FutexWait, Goto, nodes
    <3>2. t \in Opened => t \in Opened' /\ barrier[t] = 0
      BY <2>0, <2>2, <3>1, Zenon DEF Opened, Signaled
    <3>3. barrier[t] = 2 => t \notin Opened'
      BY <2>0, <2>2, <3>1 DEF Opened, Signaled, Past, Locking
    <3>4. Sleepy(t)'
      BY <3>1, <3>3, Zenon DEF Sleepy
    <3>5. Competes(t) => Competes(t)'
      BY <2>2, <3>1, <3>2 DEF Competes
    <3>6. asleep'[t] # "mutex"
      BY <3>1, Zenon
    <3> QED
      BY <2>0, <2>1, <2>2, <2>t, <3>2, <3>4, <3>5, <3>6, CalmStep, ZenonT(40)
  <2>4. CASE Timeout(t)
    <3>1. state' = state /\ pc'[t] = "decide" /\ asleep'[t] = "no" /\ pc[t] = "wait"
      BY <2>4, <2>t, Zenon DEF Timeout, Goto, nodes
    <3>2. t \in Opened => t \in Opened'
      BY <2>0, <2>2, <3>1, StaysOpened, Zenon
    <3>3. Sleepy(t)'
      BY <3>1, Zenon DEF Sleepy
    <3>5. Competes(t) => Competes(t)'
      BY <2>2, <3>1, <3>2, Zenon DEF Competes
    <3> QED
      BY <2>0, <2>1, <2>2, <2>t, <3>1, <3>2, <3>3, <3>5, CalmStep, ZenonT(40)
  <2>5. CASE Decide(t)
    <3>1. asleep'[t] = "no" /\ (state[t] = "signaled" => state' = state)
      BY <2>5, <2>t, Zenon DEF Decide, At
    <3>2. t \in Opened => t \in Opened'
      BY <2>0, <2>2, <3>1, StaysOpened, ZenonT(40) DEF Opened, Signaled
    <3>3. Sleepy(t)'
      BY <3>1, Zenon DEF Sleepy
    <3>5. Competes(t) => Competes(t)'
      BY <2>2, <3>1, <3>2, ZenonT(40) DEF Competes
    <3> QED
      BY <2>0, <2>1, <2>2, <2>t, <3>1, <3>2, <3>3, <3>5, CalmStep, ZenonT(40)
  <2>6. CASE Drain(t)
    <3>1. /\ pc[t] = "drain" /\ state' = state /\ asleep[t] = "no"
          /\ \/ ref[t] # 0 /\ asleep'[t] = "ref" /\ pc'[t] = "drain"
             \/ asleep'[t] = "no"
      BY <2>6, <2>t, Zenon DEF Drain, At, FutexWait, Drained, nodes
    <3>2. t \notin Opened
      BY <3>1, StateAt, Zenon DEF Opened, Signaled, Signaling
    <3>3. Sleepy(t)'
      BY <2>0, <3>1, Zenon DEF Sleepy
    <3>4. ~Competes(t) /\ asleep'[t] # "mutex"
      BY <2>2, <3>1, <3>2, Zenon DEF Competes
    <3> QED
      BY <2>0, <2>1, <2>2, <2>t, <3>2, <3>3, <3>4, CalmStep, ZenonT(40)
  <2> QED
    BY <2>3, <2>4, <2>5, <2>6, Zenon
(* A waiter takes its node from a list.                                      *)
<1>6. CASE Leave(t)
  <2> USE <1>6
  <2>0. /\ pc[t] = "leave" /\ asleep[t] = "no" /\ reg' = reg /\ lock' = lock /\ holds' = holds /\ state' = state
        /\ barrier' = barrier /\ ref' = ref /\ first' = first /\ asleep' = asleep
        /\ next' = [p \in Threads |-> IF head # t /\ p = prev[t] THEN next[t] ELSE next[p]]
        /\ prev' = [p \in Threads |-> IF tail # t /\ p = next[t] THEN prev[t] ELSE prev[p]]
        /\ pc' = [pc EXCEPT ![t] = "notify"]
    BY Zenon DEF Leave, At, Goto, mutex, sig
  <2>t. pc \in [Threads -> Labels] /\ NIL \notin Threads /\ holds \subseteq Threads
    BY TypesOf, ThreadConstants, Zenon DEF IInv, Types
  <2>1. state[t] = "leaving" /\ t \in Members \ Opened /\ ~Competes(t)
    <3>1. state[t] = "leaving"
      BY <2>0, StateAt, Zenon
    <3> QED
      BY <2>0, <3>1, Zenon DEF Members, Queued, Leaving, Opened, Signaled, Competes, Locking
  <2>2. ASSUME NEW p \in Threads, p # t PROVE Calm(p) /\ Rested(p)
    <3>1. pc[p] = "requeue" => prev'[p] = prev[p]
      <4>1. p = next[t] => p \in Members
        BY <2>1, <2>t, Shape, Zenon
      <4>2. p \in Members => pc[p] # "requeue"
        BY MemberState, StateAt, Zenon DEF Members, Queued, Leaving, Signaled
      <4> QED
        BY <2>0, <4>1, <4>2, Zenon
    <3>2. p \in Opened' <=> p \in Opened
      BY <2>0, <2>t, <2>2, ZenonT(40) DEF Opened, Signaled
    <3>3. p \in Opened => next'[p] = next[p]
      <4>1. p = prev[t] => p \notin Opened
        BY <2>1, <2>t, Shape, Zenon
      <4> QED
        BY <2>0, <4>1, Zenon
    <3> QED
      BY <2>0, <2>t, <2>2, <3>1, <3>2, <3>3, ZenonT(40) DEF Calm, Rested
  <2>3. Sleepy(t)' /\ pc'[t] = "notify" /\ asleep'[t] = "no"
    BY <2>0, <2>t, Zenon DEF Sleepy
  <2> QED
    BY <2>0, <2>1, <2>2, <2>3, <2>t, CalmStep, ZenonT(40)
(* It lets the signaler that waits for it go on.                             *)
<1>7. CASE Notify(t)
  <2> USE <1>7
  <2>0. /\ pc[t] = "notify" /\ asleep[t] = "no" /\ reg' = reg /\ lock' = lock /\ holds' = holds /\ state' = state
        /\ barrier' = barrier /\ first' = first /\ next' = next /\ prev' = prev /\ pc' = [pc EXCEPT ![t] = "relock"]
    BY Zenon DEF Notify, At, Goto, mutex, nodes, list
  <2>t. /\ pc \in [Threads -> Labels] /\ holds \subseteq Threads /\ ref \in [Threads -> Nat]
        /\ asleep \in [Threads -> {"no", "mutex", "barrier", "ref"}] /\ notify \in [Threads -> Pointer]
    BY TypesOf, Zenon DEF IInv, Types
  <2>1. ASSUME NEW p \in Threads
        PROVE  asleep'[p] \in {asleep[p], "no"} /\ (ref'[p] = ref[p] \/ (asleep'[p] = "ref" => ref'[p] # 0))
    <3>1. CASE notify[t] = NIL
      BY <3>1, Zenon DEF Notify
    <3>2. CASE notify[t] # NIL
      <4>1. PICK u \in Threads : u = notify[t]
        BY <2>t, <3>2, Zenon DEF Pointer
      <4>2. /\ ref' = [ref EXCEPT ![u] = @ - 1]
            /\ asleep' = IF ref'[u] = 0 THEN [asleep EXCEPT ![u] = "no"] ELSE asleep
        BY <3>2, <4>1, Zenon DEF Notify
      <4> QED
        BY <2>t, <4>2, Zenon
    <3> QED
      BY <3>1, <3>2, Zenon
  <2>2. ASSUME NEW p \in Threads, p # t PROVE Calm(p) /\ Rested(p)
    <3>1. p \in Opened' <=> p \in Opened
      BY <2>0, <2>t, <2>2, Zenon DEF Opened, Signaled
    <3> QED
      BY <2>0, <2>1, <2>t, <2>2, <3>1, ZenonT(40) DEF Calm, Rested
  <2>3. Sleepy(t)' /\ pc'[t] = "relock" /\ asleep'[t] = "no"
    BY <2>0, <2>1, <2>t, Zenon DEF Sleepy
  <2>4. Competes(t)' /\ (t \in Opened => t \in Opened')
    BY <2>0, <2>3, Zenon DEF Competes, Opened, Signaled, Past
  <2> QED
    BY <2>0, <2>2, <2>3, <2>4, <2>t, CalmStep, ZenonT(40)
(* A signaled waiter takes its barrier, or sleeps on it.                     *)
<1>8. CASE LockBarrier(t) \/ WaitForBarrier(t)
  <2> USE <1>8
  <2>t. /\ pc \in [Threads -> Labels] /\ holds \subseteq Threads /\ barrier \in [Threads -> 0..2]
        /\ asleep \in [Threads -> {"no", "mutex", "barrier", "ref"}]
    BY TypesOf, Zenon DEF IInv, Types
  <2>0. /\ state' = state /\ next' = next /\ prev' = prev /\ ref' = ref /\ first' = first
        /\ lock' = lock /\ holds' = holds /\ reg' = reg
        /\ pc[t] \in {"barrier", "barrierwait"} /\ asleep[t] = "no"
    BY Zenon DEF LockBarrier, WaitForBarrier, At, mutex, nodes, list, sig
  <2>1. \A p \in Threads : p # t => pc'[p] = pc[p] /\ barrier'[p] = barrier[p] /\ asleep'[p] = asleep[p]
    BY <2>t, Zenon DEF LockBarrier, WaitForBarrier, Goto, FutexWait
  <2>2. /\ barrier[t] = 0 => pc'[t] = "relock" /\ asleep'[t] = "no"
        /\ barrier[t] # 0 => /\ pc'[t] = "barrierwait" /\ barrier'[t] = barrier[t]
                             /\ asleep'[t] \in {"no", "barrier"}
    <3>1. CASE LockBarrier(t)
      BY <2>0, <2>t, <3>1, Zenon DEF LockBarrier, Goto
    <3>2. CASE WaitForBarrier(t)
      BY <2>0, <2>t, <3>2, Zenon DEF WaitForBarrier, Goto, FutexWait, At
    <3> QED
      BY <3>1, <3>2, Zenon
  <2>3. \A p \in Threads : p # t => Calm(p) /\ Rested(p)
    BY <2>0, <2>1, CalmOther, Zenon
  <2>4. t \in Opened => barrier[t] = 0
    BY <2>0, Zenon DEF Opened, Past, Locking
  <2>5. barrier[t] = 0 => Competes(t)' /\ (t \in Opened => t \in Opened')
    BY <2>0, <2>2, Zenon DEF Competes, Opened, Signaled, Past
  <2>6. barrier[t] # 0 => t \notin Opened' /\ ~Competes(t)
    BY <2>0, <2>2, <2>4, Zenon DEF Opened, Past, Locking, Competes
  <2>7. Sleepy(t)'
    BY <2>2, <2>6, Zenon DEF Sleepy
  <2>8. /\ asleep'[t] # "mutex" /\ pc'[t] \notin {"requeue", "swap"} /\ pc[t] \notin {"wakefirst", "requeue"}
        /\ (t \in Opened => t \in Opened' /\ next'[t] = next[t]) /\ (Competes(t) => Competes(t)')
    BY <2>0, <2>2, <2>4, <2>5, <2>6, Zenon
  <2> QED
    BY <2>0, <2>3, <2>7, <2>8, <2>t, CalmStep, ZenonT(40)
(* A waiter opens the barrier of the next.                                   *)
<1>9. CASE OpenBarrier(t)
  <2> USE <1>9
  <2>0. /\ pc[t] = "handoff" /\ asleep[t] = "no" /\ reg' = reg /\ prev' = prev /\ next' = next /\ state' = state
        /\ ref' = ref /\ first' = first /\ asleep' = asleep /\ lock' = lock /\ holds' = holds
        /\ barrier' = [s \in Threads |-> IF s = Heir(t) THEN 0 ELSE barrier[s]]
        /\ pc' = [pc EXCEPT ![t] = "requeue"]
    BY Zenon DEF OpenBarrier, At, Goto, sig, nodes, list
  <2>t. pc \in [Threads -> Labels] /\ holds \subseteq Threads /\ NIL \notin Threads
    BY TypesOf, ThreadConstants, Zenon DEF IInv, Types
  <2>k. Sleepers /\ Handing /\ Contention
    BY Zenon DEF KInv
  <2>1. t \in holds /\ lock # 0 /\ \A s, u \in holds : s = u
    BY <2>0, Zenon DEF IInv, ThreadOK, Inside, MutualExclusion
  <2>2. pc'[t] = "requeue" /\ \A p \in Threads : p # t => pc'[p] = pc[p]
    BY <2>0, <2>t, Zenon
  <2>3. ASSUME NEW p \in Threads, p # t PROVE Calm(p) /\ (p # Heir(t) => Rested(p))
    <3>1. p \in Opened => p \in Opened'
      BY <2>0, <2>2, <2>3, Zenon DEF Opened, Signaled
    <3>2. p # Heir(t) => (p \in Opened' => p \in Opened)
      BY <2>0, <2>2, <2>3, Zenon DEF Opened, Signaled
    <3> QED
      BY <2>0, <2>2, <2>3, <3>1, <3>2, Zenon DEF Calm, Rested
  <2>4. Sleepy(t)'
    BY <2>0, Zenon DEF Sleepy
  <2>5. ASSUME NEW p \in Threads, p = Heir(t), p # t PROVE Sleepy(p)'
    <3>1. Heir(t) # NIL
      BY <2>5, <2>t, Zenon
    <3>2. state[t] = "signaled" /\ prev[t] = p
      BY <2>0, <2>5, <3>1, HeirWaits, ZenonT(40)
    <3>3. Sleepy(p)
      BY <2>k, Zenon DEF Sleepers
    <3>4. Prods(t, p)'
      BY <2>0, <2>2, <3>2, Zenon DEF Prods
    <3>5. p \in Baton => p \in Baton'
      BY <2>3, <2>5, Zenon DEF Calm, Baton
    <3>6. pc'[p] = pc[p]
      BY <2>2, <2>5, Zenon
    <3> QED
      BY <2>0, <3>3, <3>4, <3>5, <3>6, Zenon DEF Sleepy
  <2>6. Sleepers'
    <3>1. ASSUME NEW p \in Threads, p # t, p # Heir(t) PROVE Sleepy(p)'
      <4>1. Rested(p) /\ ~Prods(t, p)
        BY <2>0, <2>3, <3>1, Zenon DEF Prods
      <4> QED
        BY <2>k, <2>3, <3>1, <4>1, RestedSleeps, Zenon
    <3> QED
      BY <2>4, <2>5, <3>1, Zenon DEF Sleepers
  <2>7. Handing'
    <3>1. ASSUME NEW u \in Threads, pc'[u] = "requeue", state'[u] = "signaled", prev'[u] # NIL
          PROVE  prev'[u] \in Opened' /\ next'[prev'[u]] # NIL
      <4>1. u = t
        <5>1. pc[u] = "requeue" => u \in holds
          BY Zenon DEF IInv, ThreadOK, Inside
        <5> QED
          BY <2>1, <2>2, <3>1, <5>1, Zenon
      <4>2. Heir(t) = prev[t] /\ Heir(t) # NIL
        BY <2>0, <3>1, <4>1, Zenon DEF Heir
      <4>3. Heir(t) \in Signaled /\ Heir(t) # t /\ next[Heir(t)] = t /\ Heir(t) \in Threads
        BY <2>0, <4>2, HeirWaits, Zenon
      <4>4. Heir(t) \in Opened'
        BY <2>0, <2>2, <4>3, Zenon DEF Opened, Signaled
      <4> QED
        BY <2>0, <2>t, <4>1, <4>2, <4>3, <4>4, Zenon
    <3> QED
      BY <3>1, Zenon DEF Handing
  <2>8. Contention'
    <3>1. /\ \A p \in Threads : p # t => Calm(p) /\ (asleep'[p] = asleep[p] \/ (asleep[p] # "no" /\ asleep'[p] = "no"))
          /\ asleep'[t] = asleep[t] /\ pc'[t] # "swap"
      BY <2>0, <2>2, <2>3, ZenonT(40)
    <3> QED
      BY <2>0, <2>1, <2>k, <2>t, <3>1, CalmContention, Zenon
  <2> QED
    BY <2>6, <2>7, <2>8, Zenon DEF KInv
(* It has the next wait for the mutex instead of its barrier, and returns.   *)
<1>10. CASE Requeue(t)
  <2> USE <1>10
  <2>0. /\ pc[t] = "requeue" /\ asleep[t] = "no" /\ reg' = reg /\ ref' = ref /\ first' = first
        /\ lock' = lock /\ holds' = holds
        /\ asleep' = [s \in Threads |-> IF s = Heir(t) /\ asleep[s] = "barrier" THEN "mutex" ELSE asleep[s]]
        /\ state' = [state EXCEPT ![t] = "none"] /\ barrier' = [barrier EXCEPT ![t] = 0]
        /\ prev' = [prev EXCEPT ![t] = NIL] /\ next' = [next EXCEPT ![t] = NIL]
        /\ pc' = [pc EXCEPT ![t] = "call"]
    BY Zenon DEF Requeue, At, Goto, Return, sig, mutex
  <2>t. /\ pc \in [Threads -> Labels] /\ holds \subseteq Threads /\ NIL \notin Threads
        /\ prev \in [Threads -> Pointer] /\ next \in [Threads -> Pointer] /\ barrier \in [Threads -> 0..2]
        /\ state \in [Threads -> {"none", "waiting", "signaled", "leaving"}]
    BY TypesOf, ThreadConstants, Zenon DEF IInv, Types
  <2>k. Sleepers /\ Handing /\ Contention
    BY Zenon DEF KInv
  <2>1. t \in holds /\ lock # 0 /\ (\A s, u \in holds : s = u) /\ t \notin Opened
    BY <2>0, Zenon DEF IInv, ThreadOK, Inside, MutualExclusion, Opened, Signaled
  <2>2. /\ pc'[t] = "call"
        /\ \A p \in Threads : p # t => /\ pc'[p] = pc[p] /\ state'[p] = state[p] /\ barrier'[p] = barrier[p]
                                       /\ prev'[p] = prev[p] /\ next'[p] = next[p]
    BY <2>0, <2>t, Zenon
  <2>3. ASSUME NEW p \in Threads, p # t PROVE Calm(p) /\ (p # Heir(t) => Rested(p))
    <3>1. p \in Opened <=> p \in Opened'
      BY <2>2, <2>3, Zenon DEF Opened, Signaled
    <3> QED
      BY <2>0, <2>2, <2>3, <3>1, ZenonT(40) DEF Calm, Rested
  <2>4. Sleepy(t)'
    BY <2>0, Zenon DEF Sleepy
  <2>5. ASSUME NEW p \in Threads, p = Heir(t), p # t PROVE Sleepy(p)'
    <3>1. state[t] = "signaled" /\ prev[t] = p
      BY <2>5, <2>t, Zenon DEF Heir
    <3>2. p \in Opened /\ next[p] # NIL
      BY <2>0, <2>k, <2>t, <3>1, ZenonT(40) DEF Handing
    <3>3. p \in Baton'
      BY <2>3, <2>5, <3>2, ZenonT(40) DEF Calm, Baton
    <3>4. Sleepy(p)
      BY <2>k, Zenon DEF Sleepers
    <3>5. /\ pc'[p] = pc[p] /\ ref'[p] = ref[p]
          /\ asleep[p] = "barrier" => asleep'[p] = "mutex"
          /\ asleep[p] # "barrier" => asleep'[p] = asleep[p]
      BY <2>0, <2>2, <2>5, ZenonT(40)
    <3> QED
      BY <3>3, <3>4, <3>5, Zenon DEF Sleepy
  <2>6. Sleepers'
    <3>1. ASSUME NEW p \in Threads, p # t, p # Heir(t) PROVE Sleepy(p)'
      <4>1. Rested(p) /\ ~Prods(t, p)
        BY <2>0, <2>3, <3>1, ZenonT(40) DEF Prods, Heir
      <4> QED
        BY <2>k, <2>3, <3>1, <4>1, RestedSleeps, Zenon
    <3> QED
      BY <2>4, <2>5, <3>1, Zenon DEF Sleepers
  <2>7. Handing'
    BY <2>k, <2>1, <2>2, <2>3, CalmHanding, ZenonT(40)
  <2>8. Contention'
    BY <2>0, <2>1, <2>2, Zenon DEF Contention
  <2> QED
    BY <2>6, <2>7, <2>8, Zenon DEF KInv
(* A signal splits the visited nodes off: none of them has its barrier open. *)
<1>11. CASE cond_signal(t)
  <2> USE <1>11
  <2>t. /\ pc \in [Threads -> Labels] /\ prev \in [Threads -> Pointer] /\ next \in [Threads -> Pointer]
        /\ first \in [Threads -> Pointer] /\ ref \in [Threads -> Nat]
        /\ holds \subseteq Threads /\ NIL \notin Threads
    BY TypesOf, ThreadConstants, Zenon DEF IInv, Types
  <2>1. PICK W, last, V, rest, hits, f :
          /\ \E i : Visits(W, Size, last, V, rest, hits, f, i, tail, prev)
          /\ Signals(t, V, rest, hits, f)
    BY SignalWrites, Zenon
  <2>0. /\ pc[t] = "call" /\ asleep[t] = "no" /\ reg' = reg /\ lock' = lock /\ holds' = holds
        /\ barrier' = barrier /\ asleep' = asleep /\ pc' = [pc EXCEPT ![t] = "drain"]
        /\ hits = {p \in V : state[p] = "waiting"}
        /\ state' = [p \in Threads |-> IF p \in hits THEN "signaled" ELSE state[p]]
        /\ ref' = [ref EXCEPT ![t] = Cardinality(V \ hits)] /\ first' = [first EXCEPT ![t] = f]
        /\ prev' = [p \in Threads |-> IF rest # NIL /\ p = next[rest] THEN NIL ELSE prev[p]]
        /\ next' = [p \in Threads |-> IF p = rest THEN NIL ELSE next[p]]
    BY <2>1, Zenon DEF Signals
  <2>2. rest \in Queued \cup {NIL}
    <3>1. PICK g, r, n : Built(Queued, Leaving, Signaled, Members, Members \ Opened, Signalers,
                               notify, prev, next, head, tail, first, g, r, n)
      BY Zenon DEF JInv, Lists, ListsOf, Members
    <3>2. Follows(W, Size, tail, prev) /\ Size \in Nat /\ last \in 1..Size /\ rest = W[last + 1]
      BY <2>1, Zenon DEF Visits
    <3>3. Rising(W, Size, Queued, next, r)
      BY <2>t, <3>1, <3>2, WalkRises, ZenonT(40) DEF Built
    <3> QED
      BY <3>2, <3>3 DEF Rising
  <2>3. rest # NIL => rest \in Members \ Opened
    BY <2>2, MemberState, Zenon DEF Members, Opened
  <2>4. state[t] = "none" /\ t \notin Opened /\ ~Competes(t)
    <3>1. state[t] = "none"
      BY <2>0, StateAt, Zenon
    <3> QED
      BY <2>0, <3>1, Zenon DEF Opened, Signaled, Competes, Locking
  <2>5. ASSUME NEW p \in Threads, p # t PROVE Calm(p) /\ Rested(p)
    <3>0. pc'[p] = pc[p] /\ barrier'[p] = barrier[p]
      BY <2>0, <2>t, <2>5, Zenon
    <3>1. pc[p] = "requeue" => prev'[p] = prev[p] /\ state'[p] = state[p]
      <4>1. rest # NIL /\ p = next[rest] => p \in Members
        BY <2>3, <2>t, Shape, ZenonT(40)
      <4>2. p \in Members => pc[p] # "requeue"
        BY MemberState, StateAt, Zenon DEF Members, Queued, Leaving, Signaled
      <4>3. pc[p] = "requeue" => state[p] # "waiting"
        BY StateAt, Zenon
      <4> QED
        BY <2>0, <4>1, <4>2, <4>3, ZenonT(40)
    <3>2. p \in Opened' <=> p \in Opened
      <4>1. CASE p \in hits
        <5>1. state[p] = "waiting" /\ Status(p)
          BY <2>0, <4>1, Zenon DEF JInv, Statuses
        <5>2. barrier[p] = 2 /\ pc[p] \notin Past
          BY <5>1, Zenon DEF Status, Parked, Past, Locking
        <5> QED
          BY <3>0, <5>1, <5>2 DEF Opened, Signaled
      <4>2. CASE p \notin hits
        BY <2>0, <3>0, <4>2, ZenonT(40) DEF Opened, Signaled
      <4> QED
        BY <4>1, <4>2, Zenon
    <3>3. p \in Opened => next'[p] = next[p]
      BY <2>0, <2>3, <2>t, Zenon
    <3> QED
      BY <2>0, <2>t, <2>5, <3>0, <3>1, <3>2, <3>3, ZenonT(40) DEF Calm, Rested
  <2>6. Sleepy(t)' /\ pc'[t] = "drain" /\ asleep'[t] = "no"
    BY <2>0, <2>t, ZenonT(40) DEF Sleepy
  <2> QED
    BY <2>0, <2>4, <2>5, <2>6, <2>t, CalmStep, ZenonT(40)
(* A signaler opens the barrier of the first.                                *)
<1>12. CASE ReleaseFirst(t)
  <2> USE <1>12
  <2>0. /\ pc[t] = "release" /\ asleep[t] = "no" /\ ref' = ref /\ first' = first /\ asleep' = asleep
        /\ lock' = lock /\ holds' = holds /\ prev' = prev /\ next' = next /\ state' = state
        /\ reg' = [reg EXCEPT ![t] = barrier[first[t]]]
        /\ barrier' = [barrier EXCEPT ![first[t]] = 0]
        /\ pc' = [pc EXCEPT ![t] = "wakefirst"]
    BY Zenon DEF ReleaseFirst, At, Goto, sig, mutex, nodes, list
  <2>t. /\ pc \in [Threads -> Labels] /\ holds \subseteq Threads /\ reg \in [Threads -> Nat]
        /\ barrier \in [Threads -> 0..2]
    BY TypesOf, Zenon DEF IInv, Types
  <2>k. Sleepers /\ Handing /\ Contention
    BY Zenon DEF KInv
  <2>f. PICK f \in Threads : f = first[t] /\ f \notin Opened /\ f # t /\ barrier[f] = 2
    BY <2>0, FirstWaits, Zenon
  <2>1. /\ pc'[t] = "wakefirst" /\ reg'[t] = 2 /\ first'[t] = f
        /\ \A p \in Threads : p # t => pc'[p] = pc[p] /\ reg'[p] = reg[p]
        /\ \A p \in Threads : p # f => barrier'[p] = barrier[p]
    BY <2>0, <2>t, <2>f, Zenon
  <2>2. t \notin Opened /\ ~Competes(t)
    <3>1. state[t] = "none"
      BY <2>0, StateAt, Zenon DEF Signaling
    <3> QED
      BY <2>0, <3>1, Zenon DEF Opened, Signaled, Competes, Locking
  <2>3. ASSUME NEW p \in Threads, p # t PROVE Calm(p) /\ (p # f => Rested(p))
    <3>1. (p \in Opened => p \in Opened') /\ (p # f => (p \in Opened' => p \in Opened))
      BY <2>0, <2>1, <2>3, <2>f, Zenon DEF Opened, Signaled
    <3> QED
      BY <2>0, <2>1, <2>3, <3>1, Zenon DEF Calm, Rested
  <2>4. Sleepy(t)'
    BY <2>0, Zenon DEF Sleepy
  <2>5. Sleepy(f)'
    <3>1. Prods(t, f)' /\ Sleepy(f) /\ pc'[f] = pc[f]
      BY <2>1, <2>f, <2>k, Zenon DEF Prods, Sleepers
    <3>2. f \in Baton => f \in Baton'
      BY <2>3, <2>f, ZenonT(40) DEF Calm, Baton
    <3> QED
      BY <2>0, <3>1, <3>2, Zenon DEF Sleepy
  <2>6. Sleepers'
    <3>1. ASSUME NEW p \in Threads, p # t, p # f PROVE Sleepy(p)'
      <4>1. Rested(p) /\ ~Prods(t, p)
        BY <2>0, <2>3, <3>1, Zenon DEF Prods
      <4> QED
        BY <2>k, <2>3, <3>1, <4>1, RestedSleeps, ZenonT(40)
    <3> QED
      BY <2>4, <2>5, <3>1, Zenon DEF Sleepers
  <2>7. Handing'
    BY <2>k, <2>1, <2>2, <2>3, CalmHanding, ZenonT(40)
  <2>8. Contention'
    <3>1. /\ \A p \in Threads : p # t => Calm(p) /\ (asleep'[p] = asleep[p] \/ (asleep[p] # "no" /\ asleep'[p] = "no"))
          /\ asleep'[t] = asleep[t] /\ pc'[t] # "swap"
      BY <2>0, <2>1, <2>3, ZenonT(40)
    <3> QED
      BY <2>0, <2>2, <2>k, <2>t, <3>1, CalmContention, ZenonT(40)
  <2> QED
    BY <2>6, <2>7, <2>8, ZenonT(40) DEF KInv
(* It wakes the thread that slept on it.                                     *)
<1>13. CASE WakeFirst(t)
  <2> USE <1>13
  <2>0. /\ pc[t] = "wakefirst" /\ asleep[t] = "no" /\ reg' = reg /\ ref' = ref /\ barrier' = barrier
        /\ lock' = lock /\ holds' = holds /\ prev' = prev /\ next' = next /\ state' = state
        /\ asleep' = [s \in Threads |-> IF s = first[t] /\ reg[t] = 2 /\ asleep[s] = "barrier"
                                          THEN "no" ELSE asleep[s]]
        /\ first' = [first EXCEPT ![t] = NIL] /\ pc' = [pc EXCEPT ![t] = "call"]
    BY Zenon DEF WakeFirst, At, Goto, Return, mutex, nodes, list
  <2>t. pc \in [Threads -> Labels] /\ holds \subseteq Threads /\ first \in [Threads -> Pointer]
    BY TypesOf, Zenon DEF IInv, Types
  <2>k. Sleepers /\ Handing /\ Contention
    BY Zenon DEF KInv
  <2>1. /\ pc'[t] = "call" /\ asleep'[t] = "no"
        /\ \A p \in Threads : p # t => pc'[p] = pc[p] /\ first'[p] = first[p]
        /\ \A p \in Threads : asleep'[p] = asleep[p] \/ (asleep[p] # "no" /\ asleep'[p] = "no")
    BY <2>0, <2>t, Zenon
  <2>2. t \notin Opened /\ ~Competes(t)
    <3>1. state[t] = "none"
      BY <2>0, StateAt, Zenon DEF Signaling
    <3> QED
      BY <2>0, <3>1, Zenon DEF Opened, Signaled, Competes, Locking
  <2>3. \A p \in Threads : p # t => Calm(p) /\ Rested(p)
    BY <2>0, <2>1, CalmOther, ZenonT(40)
  <2>4. Sleepy(t)'
    BY <2>1, Zenon DEF Sleepy
  <2>5. ASSUME NEW p \in Threads, p # t PROVE Sleepy(p)'
    <3>1. CASE ~Prods(t, p)
      <4>1. Rested(p)
        BY <2>3, <2>5, Zenon
      <4> QED
        BY <2>k, <2>3, <2>5, <3>1, <4>1, RestedSleeps, ZenonT(40)
    <3>2. CASE Prods(t, p)
      <4>1. asleep'[p] # "barrier"
        BY <2>0, <3>2, Zenon DEF Prods
      <4>2. Sleepy(p) /\ Calm(p) /\ Rested(p)
        BY <2>3, <2>5, <2>k, Zenon DEF Sleepers
      <4>3. p \in Baton => p \in Baton'
        BY <4>2, Zenon DEF Calm, Baton
      <4> QED
        BY <4>1, <4>2, <4>3, Zenon DEF Sleepy, Calm, Rested
    <3> QED
      BY <3>1, <3>2, Zenon
  <2>6. Sleepers'
    BY <2>4, <2>5, Zenon DEF Sleepers
  <2>7. Handing'
    BY <2>k, <2>1, <2>2, <2>3, CalmHanding, ZenonT(40)
  <2>8. Contention'
    <3>1. asleep'[t] = "no" /\ pc'[t] # "swap"
      BY <2>1, Zenon
    <3> QED
      BY <2>0, <2>1, <2>2, <2>3, <2>k, <2>t, <3>1, CalmContention, ZenonT(40)
  <2> QED
    BY <2>6, <2>7, <2>8, Zenon DEF KInv
<1> QED
  BY <1>1, <1>2, <1>3, <1>4, <1>5, <1>6, <1>7, <1>8, <1>9, <1>10, <1>11, <1>12, <1>13, ZenonT(40)
     DEF Run

LEMMA SleepInductive == Spec => [](IInv /\ JInv /\ KInv)
<1>1. IInv /\ JInv /\ KInv /\ [Next]_vars => KInv'
  <2>1. ASSUME KInv, UNCHANGED vars PROVE KInv'
    <3>1. /\ pc' = pc /\ reg' = reg /\ lock' = lock /\ holds' = holds /\ prev' = prev /\ next' = next
          /\ state' = state /\ barrier' = barrier /\ ref' = ref /\ first' = first /\ asleep' = asleep
      BY <2>1, Zenon DEF vars, mutex, nodes, list, sig
    <3>2. Opened' = Opened /\ Baton' = Baton /\ OnMutex' = OnMutex
      BY <3>1, Zenon DEF Opened, Signaled, Baton, OnMutex
    <3>3. \A u, p \in Threads : Prods(u, p)' <=> Prods(u, p)
      BY <3>1, Zenon DEF Prods
    <3>4. Sleepers'
      BY <2>1, <3>1, <3>2, <3>3, Zenon DEF KInv, Sleepers, Sleepy
    <3>5. Handing' /\ Contention'
      BY <2>1, <3>1, <3>2, Zenon DEF KInv, Handing, Contention, Competes
    <3> QED
      BY <3>4, <3>5, Zenon DEF KInv
  <2> QED
    BY <2>1, RunKInv, Zenon DEF Next
<1> QED
  BY <1>1, ListsInductive, InitKInv, PTL DEF Spec

(* A signaled waiter stands behind one whose barrier is open, or behind a    *)
(* signaler that will open the first.                                        *)
LEMMA SomeoneReleases ==
  ASSUME JInv, NEW p \in Signaled
  PROVE  Signalers # {} \/ Opened # {}
<1> SUFFICES ASSUME Signalers = {}, Opened = {} PROVE FALSE
  BY Zenon
<1>1. PICK g, r, n : Built(Queued, Leaving, Signaled, Members, Members \ Opened, Signalers,
                           notify, prev, next, head, tail, first, g, r, n)
  BY Zenon DEF JInv, Lists, ListsOf, Members
<1>2. /\ Sets(Queued, Leaving, Signaled, Members, Members \ Opened) /\ Ghosts(g, r, n)
      /\ Linked(Members, Members \ Opened, prev, next, g, r)
      /\ Grouped(Queued, Leaving, Members, Members \ Opened, notify, next, g)
      /\ Led(Signaled, Members \ Opened, Signalers, first, g, r)
  BY <1>1, Zenon DEF Built
<1>3. Members \ Opened = Members
  BY Zenon
<1> DEFINE Orphan(q) == q \in Signaled /\ g[q] = {NIL}
           Ranks == {r[q] : q \in {s \in Signaled : g[s] = {NIL}}}
<1>4. Orphan(p)
  <2>1. p \in Members /\ p \in Threads /\ p \notin Queued
    BY <1>2, Zenon DEF Sets
  <2>2. g[p] \in Groups /\ g[p] # {}
    BY <1>2, <2>1, Zenon DEF Ghosts, Grouped
  <2>3. PICK u \in Pointer : g[p] = {u}
    BY <2>2, Zenon DEF Groups
  <2>4. u \notin Threads
    BY <1>2, <2>3, Zenon DEF Led
  <2> QED
    BY <2>3, <2>4, Zenon DEF Pointer
<1>5. ASSUME NEW q, Orphan(q) PROVE \E s : Orphan(s) /\ r[s] < r[q]
  <2>1. q \in Members /\ q \in Members \ Opened
    BY <1>5, <1>3, Zenon DEF Members
  <2>2. next[q] # NIL
    BY <1>2, <1>5, <2>1, Zenon DEF Grouped
  <2>3. next[q] \in Members /\ g[next[q]] = g[q] /\ r[next[q]] < r[q]
    BY <1>2, <2>1, <2>2, Zenon DEF Linked
  <2>4. next[q] \notin Queued
    BY <1>2, <1>5, <2>3, Zenon DEF Grouped
  <2>5. next[q] \notin Leaving
    <3>1. ASSUME next[q] \in Leaving PROVE FALSE
      <4>1. notify[next[q]] \in Threads /\ g[next[q]] = {notify[next[q]]}
        BY <1>2, <3>1, Zenon DEF Grouped
      <4>2. NIL \in {notify[next[q]]}
        BY <1>5, <2>3, <4>1, ZenonT(40)
      <4> QED
        BY <4>1, <4>2, ThreadConstants, Zenon
    <3> QED
      BY <3>1, Zenon
  <2>6. Orphan(next[q])
    BY <1>5, <2>3, <2>4, <2>5, Zenon DEF Members
  <2> QED
    BY <2>3, <2>6, Zenon
<1>6. Ranks \subseteq Nat /\ Ranks # {}
  BY <1>2, <1>4, Zenon DEF Ghosts, Signaled
<1> HIDE DEF Ranks
<1>7. PICK x \in Ranks : \A y \in Ranks : x <= y
  BY <1>6, Least, Zenon
<1>8. PICK q : Orphan(q) /\ x = r[q]
  BY <1>7, ZenonT(40) DEF Ranks
<1>9. PICK s : Orphan(s) /\ r[s] < r[q]
  BY <1>5, <1>8, Zenon
<1>10. r[s] \in Ranks /\ r[q] \in Nat /\ r[s] \in Nat /\ r[q] <= r[s]
  <2>1. r[s] \in Ranks
    BY <1>9, Zenon DEF Ranks
  <2> QED
    BY <1>6, <1>7, <1>8, <2>1, ZenonT(40)
<1> DEFINE a == r[q]
           b == r[s]
<1>11. a \in Nat /\ b \in Nat /\ a <= b /\ b < a
  BY <1>9, <1>10, Zenon
<1> HIDE DEF a, b
<1> QED
  BY <1>11

(* However many threads there are, no wakeup is lost: neither by the mutex,  *)
(* nor by a signal, nor where one waiter hands over to the next.             *)
THEOREM WakeupsArrive == Spec => []NoLostWakeup
<1>1. ASSUME IInv, JInv, KInv,
             \A t \in Threads : asleep[t] # "no" \/ (script[t] = << >> /\ t \notin holds),
             NEW p \in Threads, asleep[p] # "no"
      PROVE  state[p] = "waiting" /\ asleep[p] = "barrier"
  <2>0. /\ pc \in [Threads -> Labels] /\ ref \in [Threads -> Nat]
        /\ asleep \in [Threads -> {"no", "mutex", "barrier", "ref"}]
        /\ state \in [Threads -> {"none", "waiting", "signaled", "leaving"}]
    BY <1>1, TypesOf, Zenon
  <2>k. Sleepers /\ Contention
    BY <1>1, Zenon DEF KInv
  <2>1. ASSUME NEW q \in Threads, pc[q] # "call" PROVE asleep[q] # "no"
    <3>1. script[q] # << >>
      BY <1>1, <2>0, <2>1, ZenonT(40) DEF IInv, ThreadOK, Calling, Labels, Locking, Apart, Inside,
         Signaling
    <3> QED
      BY <1>1, <3>1, Zenon
  <2>2. ASSUME NEW q \in Threads, pc[q] \in {"leave", "notify", "wakefirst", "requeue", "release"} PROVE FALSE
    <3>1. Sleepy(q) /\ asleep[q] \in {"mutex", "barrier", "ref"}
      BY <2>0, <2>1, <2>2, <2>k, ZenonT(40) DEF Sleepers
    <3> QED
      BY <2>2, <3>1, Zenon DEF Sleepy
  <2>3. ASSUME NEW q \in Threads PROVE asleep[q] # "ref"
    <3>1. SUFFICES ASSUME asleep[q] = "ref" PROVE FALSE
      BY Zenon
    <3>2. ref[q] # 0
      BY <2>k, <3>1, Zenon DEF Sleepers, Sleepy
    <3>3. Pending(q) # {}
      <4>1. ref[q] = Cardinality(Pending(q)) /\ Pending(q) \in SUBSET Threads
        BY <1>1, Zenon DEF JInv, Refs, Pending
      <4> QED
        BY <3>2, <4>1, Cards, ZenonT(40)
    <3> QED
      BY <2>2, <3>3, Zenon DEF Pending
  <2>4. OnMutex = {}
    <3>1. SUFFICES ASSUME OnMutex # {} PROVE FALSE
      BY Zenon
    <3>2. CASE lock = 0
      <4>1. PICK q \in Threads : Competes(q)
        BY <2>k, <3>1, <3>2, ZenonT(40) DEF Contention
      <4>2. pc[q] = "call"
        BY <2>1, <4>1, Zenon DEF Competes
      <4>3. state[q] = "none"
        BY <1>1, <4>2, StateAt, Zenon
      <4> QED
        BY <4>1, <4>2, <4>3, ZenonT(40) DEF Competes, Locking, Opened, Signaled
    <3>3. CASE lock # 0
      <4>1. PICK h \in Threads : h \in holds
        BY <1>1, <3>3, Zenon DEF IInv, MutualExclusion, Types
      <4>2. asleep[h] \in {"mutex", "barrier"} /\ Sleepy(h) /\ ThreadOK(h)
        BY <1>1, <2>0, <2>3, <2>k, <4>1, ZenonT(40) DEF Sleepers, IInv
      <4> QED
        BY <4>1, <4>2, Zenon DEF Sleepy, ThreadOK, Locking, Apart
    <3> QED
      BY <3>2, <3>3, Zenon
  <2>5. \A q \in Threads : asleep[q] \in {"no", "barrier"}
    BY <2>0, <2>3, <2>4, ZenonT(40) DEF OnMutex
  <2>6. Opened = {}
    <3>1. SUFFICES ASSUME NEW q \in Threads, q \in Opened PROVE FALSE
      BY Zenon DEF Opened, Signaled
    <3>2. pc[q] # "call"
      BY <1>1, <3>1, StateAt, ZenonT(40) DEF Opened, Signaled
    <3>3. asleep[q] = "barrier"
      BY <2>1, <2>5, <3>2, ZenonT(40)
    <3>4. PICK u \in Threads : Prods(u, q)
      BY <2>k, <3>1, <3>3, Zenon DEF Sleepers, Sleepy
    <3> QED
      BY <2>2, <3>4, ZenonT(40) DEF Prods
  <2>7. Signalers = {}
    <3>1. SUFFICES ASSUME NEW u \in Threads, pc[u] \in {"drain", "release"} PROVE FALSE
      BY Zenon DEF Signalers
    <3>2. asleep[u] = "barrier" /\ Sleepy(u)
      BY <2>1, <2>5, <2>k, <3>1, ZenonT(40) DEF Sleepers
    <3> QED
      BY <3>1, <3>2, Zenon DEF Sleepy
  <2>8. asleep[p] = "barrier" /\ pc[p] \in {"wait", "barrierwait"}
    BY <1>1, <2>5, <2>k, ZenonT(40) DEF Sleepers, Sleepy
  <2>9. p \notin Signaled
    BY <1>1, <2>6, <2>7, SomeoneReleases, ZenonT(40)
  <2>10. state[p] \in {"waiting", "signaled"}
    <3>1. ThreadOK(p) /\ Status(p)
      BY <1>1, Facts, Zenon
    <3>2. InWait(p)
      BY <2>8, <3>1, Zenon DEF ThreadOK, Apart, InWait, Signaling
    <3> QED
      BY <2>0, <2>8, <3>1, <3>2, ZenonT(40) DEF Status, Past, Locking
  <2> QED
    BY <2>8, <2>9, <2>10, ZenonT(40) DEF Signaled
<1>2. IInv /\ JInv /\ KInv => NoLostWakeup
  BY <1>1, Zenon DEF NoLostWakeup
<1> QED
  BY <1>2, SleepInductive, PTL
=============================================================================
