--------------------------- MODULE CondVarProofs ----------------------------
(***************************************************************************)
(* musl's mutex and condition variable, for any number of threads and any  *)
(* calls that keep the rules of their callers: one owner.                  *)
(*                                                                         *)
(* The first part is about the lists of CondNodes apart from the threads:  *)
(* what a waiter that enters, one that leaves, a signal that splits a      *)
(* group off and a hand-over do to them.  The walk of a signaler from the  *)
(* tail meets each node of the list once, from the oldest to the newest.   *)
(* Then IInv of CondVarInv is shown to be kept by every step, and JInv by  *)
(* the steps on the mutex and of waiters; CondVarWakeups has the others.   *)
(*                                                                         *)
(* Least and Induction are the least number principle and induction over   *)
(* the natural numbers, in a form that can be used for a set.              *)
(***************************************************************************)
EXTENDS CondVarInv, FiniteSetTheorems, WellFoundedInduction, TLAPS

USE SMTT(30)

-----------------------------------------------------------------------------
LEMMA EnqueueLinks ==
  ASSUME NEW I, NEW L, NEW S, NEW N, NEW F, NEW g, NEW r, NEW n, NEW nt, NEW A, NEW fst,
         NEW hd \in Pointer, NEW tl \in Pointer,
         NEW pv \in [Threads -> Pointer], NEW nx \in [Threads -> Pointer],
         Built(I, L, S, N, F, A, nt, pv, nx, hd, tl, fst, g, r, n),
         NEW t \in Threads, t \notin N, pv[t] = NIL,
         NEW pv2, NEW nx2, NEW g2, NEW r2, Enqueues(t, hd, tl, pv, nx, g, r, n, pv2, nx2, g2, r2)
  PROVE  Built(I \cup {t}, L, S, N \cup {t}, F \cup {t}, A, nt, pv2, nx2,
               t, IF tl = NIL THEN t ELSE tl, fst, g2, r2, n + 1)
<1>a. /\ Sets(I, L, S, N, F) /\ Ghosts(g, r, n)
      /\ Linked(N, F, pv, nx, g, r) /\ Ends(I, hd, tl, pv, nx)
      /\ Grouped(I, L, N, F, nt, nx, g) /\ Led(S, F, A, fst, g, r)
  BY Zenon DEF Built
<1>b. /\ pv2 = [p \in Threads |-> IF p = hd /\ tl # NIL THEN t ELSE pv[p]]
      /\ nx2 = [nx EXCEPT ![t] = hd]
      /\ g2 = [g EXCEPT ![t] = {}] /\ r2 = [r EXCEPT ![t] = n]
  BY Zenon DEF Enqueues
<1>0. t # NIL /\ t \notin I /\ t \notin L /\ t \notin S /\ t \notin F /\ hd # t /\ tl # t
  BY <1>a, ThreadConstants, Zenon DEF Sets, Ends
<1>1. /\ pv2[t] = NIL /\ nx2[t] = hd /\ g2[t] = {} /\ r2[t] = n
      /\ \A p \in Threads : p # t => nx2[p] = nx[p] /\ g2[p] = g[p] /\ r2[p] = r[p]
      /\ \A p \in Threads : p # hd => pv2[p] = pv[p]
      /\ hd # NIL => pv2[hd] = t /\ hd \in Threads /\ hd \in I
  <2>1. hd # NIL => hd \in Threads /\ hd \in I /\ tl # NIL
    BY <1>a, Zenon DEF Sets, Ends
  <2> QED
    BY <1>a, <1>b, <1>0, <2>1, Zenon DEF Ghosts
<1>2. Sets(I \cup {t}, L, S, N \cup {t}, F \cup {t})
  BY <1>a, <1>0, Zenon DEF Sets
<1>3. Ghosts(g2, r2, n + 1)
  <2>1. g2 \in [Threads -> Groups]
    BY <1>a, <1>b, Zenon DEF Ghosts, Groups
  <2>2. r2 \in [Threads -> Nat] /\ n + 1 \in Nat
    BY <1>a, <1>b DEF Ghosts
  <2>3. ASSUME NEW p \in Threads PROVE r2[p] < n + 1
    <3>1. r[p] \in Nat /\ r[p] < n /\ n \in Nat /\ (r2[p] = r[p] \/ r2[p] = n)
      BY <1>a, <1>1, Zenon DEF Ghosts
    <3> QED
      BY <3>1
  <2> QED
    BY <1>a, <2>1, <2>2, <2>3, Zenon DEF Ghosts
<1>4. Linked(N \cup {t}, F \cup {t}, pv2, nx2, g2, r2)
  <2>1. ASSUME NEW p \in N \cup {t}, pv2[p] # NIL
        PROVE  pv2[p] \in F \cup {t} /\ nx2[pv2[p]] = p /\ g2[pv2[p]] = g2[p]
    <3>0. p \in N /\ p # t /\ p \in Threads
      BY <1>a, <1>0, <1>1, <2>1, Zenon DEF Sets
    <3>1. CASE p = hd
      <4>1. p \in I /\ pv2[p] = t /\ g[p] = {}
        <5>1. hd # NIL
          BY <3>0, <3>1, ThreadConstants, Zenon
        <5> QED
          BY <1>a, <1>1, <3>0, <3>1, <5>1, Zenon DEF Grouped
      <4> QED
        BY <1>1, <3>0, <3>1, <4>1, Zenon
    <3>2. CASE p # hd
      <4>1. pv2[p] = pv[p] /\ pv[p] \in F /\ nx[pv[p]] = p /\ g[pv[p]] = g[p]
        BY <1>a, <1>1, <2>1, <3>0, <3>2, Zenon DEF Linked
      <4>2. pv[p] \in Threads /\ pv[p] # t
        BY <1>a, <1>0, <4>1, Zenon DEF Sets
      <4> QED
        BY <1>1, <3>0, <4>1, <4>2, ZenonT(40)
    <3> QED
      BY <3>1, <3>2, Zenon
  <2>2. ASSUME NEW p \in F \cup {t}, nx2[p] # NIL
        PROVE  /\ nx2[p] \in N \cup {t} /\ pv2[nx2[p]] = p
               /\ g2[nx2[p]] = g2[p] /\ r2[nx2[p]] < r2[p]
    <3>1. CASE p = t
      <4>1. hd # NIL /\ hd \in Threads /\ hd \in I /\ hd \in N /\ g[hd] = {} /\ pv2[hd] = t /\ r[hd] < n
        BY <1>a, <1>1, <2>2, <3>1, Zenon DEF Sets, Grouped, Ghosts
      <4> QED
        BY <1>0, <1>1, <3>1, <4>1, Zenon
    <3>2. CASE p # t
      <4>1. p \in F /\ p \in Threads /\ nx2[p] = nx[p]
        BY <1>a, <1>1, <3>2, Zenon DEF Sets
      <4>2. nx[p] \in N /\ pv[nx[p]] = p /\ g[nx[p]] = g[p] /\ r[nx[p]] < r[p]
        BY <1>a, <2>2, <4>1, Zenon DEF Linked
      <4>3. nx[p] \in Threads /\ nx[p] # t /\ p # NIL
        BY <1>a, <1>0, <4>1, <4>2, ThreadConstants, Zenon DEF Sets
      <4>4. nx[p] # hd
        <5>1. hd # NIL => pv[hd] = NIL
          BY <1>a, <1>1, Zenon DEF Ends
        <5> QED
          BY <4>2, <4>3, <5>1, ThreadConstants, Zenon
      <4> QED
        BY <1>1, <3>2, <4>1, <4>2, <4>3, <4>4, ZenonT(40)
    <3> QED
      BY <3>1, <3>2, Zenon
  <2> QED
    BY <1>a, <2>1, <2>2, Zenon DEF Linked
<1>5. Ends(I \cup {t}, t, IF tl = NIL THEN t ELSE tl, pv2, nx2)
  <2>1. ASSUME NEW p \in I
        PROVE  /\ pv2[p] # NIL /\ p # t
               /\ nx2[p] = NIL <=> p = (IF tl = NIL THEN t ELSE tl)
    <3>1. p \in Threads /\ p # t /\ nx2[p] = nx[p]
      BY <1>a, <1>0, <1>1, Zenon DEF Sets
    <3>2. (pv[p] = NIL <=> p = hd) /\ (nx[p] = NIL <=> p = tl) /\ p # NIL
      BY <1>a, <3>1, ThreadConstants, Zenon DEF Ends
    <3>3. pv2[p] # NIL
      BY <1>0, <1>1, <3>1, <3>2, Zenon
    <3> QED
      BY <3>1, <3>2, <3>3, Zenon
  <2>2. /\ t \in I \cup {t} /\ (IF tl = NIL THEN t ELSE tl) \in I \cup {t}
        /\ t # NIL /\ (IF tl = NIL THEN t ELSE tl) # NIL
    BY <1>a, <1>0, Zenon DEF Ends
  <2>3. nx2[t] = NIL <=> t = (IF tl = NIL THEN t ELSE tl)
    BY <1>a, <1>0, <1>1, Zenon DEF Ends
  <2> QED
    BY <1>a, <1>1, <2>1, <2>2, <2>3, Zenon DEF Ends
<1>6. Grouped(I \cup {t}, L, N \cup {t}, F \cup {t}, nt, nx2, g2)
  <2>1. \A p \in N \cup {t} : p \in I \cup {t} <=> g2[p] = {}
    BY <1>a, <1>0, <1>1, Zenon DEF Grouped, Sets
  <2>2. \A p \in L : nt[p] \in Threads /\ g2[p] = {nt[p]}
    BY <1>a, <1>0, <1>1, Zenon DEF Grouped, Sets
  <2>3. \A p \in (N \cup {t}) \ (F \cup {t}) : g2[p] = {NIL}
    BY <1>a, <1>0, <1>1, Zenon DEF Grouped, Sets
  <2>4. ASSUME NEW p \in F \cup {t}, NEW q \in F \cup {t},
               g2[p] = g2[q], g2[p] # {NIL}, nx2[p] = NIL, nx2[q] = NIL
        PROVE  p = q
    <3>1. CASE p # t /\ q # t
      <4>1. p \in F /\ q \in F /\ p \in Threads /\ q \in Threads
        BY <1>a, <3>1, Zenon DEF Sets
      <4>2. g[p] = g[q] /\ g[p] # {NIL} /\ nx[p] = NIL /\ nx[q] = NIL
        BY <1>1, <2>4, <3>1, <4>1, Zenon
      <4> QED
        BY <1>a, <4>1, <4>2, Zenon DEF Grouped
    <3>2. ASSUME NEW x \in F, g2[x] = {}, nx2[x] = NIL, hd = NIL PROVE FALSE
      <4>1. x \in Threads /\ x # t /\ x \in N /\ g[x] = {} /\ nx[x] = NIL
        BY <1>a, <1>0, <1>1, <3>2, Zenon DEF Sets
      <4>2. x \in I /\ x = tl /\ tl = NIL
        BY <1>a, <3>2, <4>1, Zenon DEF Grouped, Ends
      <4> QED
        BY <4>1, <4>2, ThreadConstants, Zenon
    <3>3. CASE p = t /\ q # t
      BY <1>1, <2>4, <3>2, <3>3, Zenon
    <3>4. CASE q = t /\ p # t
      BY <1>1, <2>4, <3>2, <3>4, Zenon
    <3> QED
      BY <3>1, <3>3, <3>4, Zenon
  <2>5. \A p \in F \cup {t} : g2[p] = {NIL} => nx2[p] # NIL
    BY <1>a, <1>0, <1>1, Zenon DEF Grouped, Sets
  <2> QED
    BY <1>a, <2>1, <2>2, <2>3, <2>4, <2>5, Zenon DEF Grouped
<1>7. Led(S, F \cup {t}, A, fst, g2, r2)
  <2>1. ASSUME NEW p \in S, NEW u \in Threads, g2[p] = {u}
        PROVE  u \in A /\ fst[u] # NIL /\ r2[fst[u]] <= r2[p]
    <3>1. p \in Threads /\ p # t /\ g[p] = {u} /\ r2[p] = r[p]
      BY <1>a, <1>0, <1>1, <2>1, Zenon DEF Sets
    <3>2. u \in A /\ fst[u] # NIL /\ r[fst[u]] <= r[p] /\ fst[u] \in S
      BY <1>a, <3>1, Zenon DEF Led
    <3>3. r2[fst[u]] = r[fst[u]]
      BY <1>a, <1>0, <1>1, <3>2, Zenon DEF Sets
    <3> QED
      BY <3>1, <3>2, <3>3, Zenon
  <2>2. ASSUME NEW u \in A, fst[u] # NIL
        PROVE  fst[u] \in S /\ fst[u] \in F \cup {t} /\ g2[fst[u]] = {u}
    <3>1. fst[u] \in S /\ fst[u] \in F /\ g[fst[u]] = {u}
      BY <1>a, <2>2, Zenon DEF Led
    <3>2. fst[u] \in Threads /\ fst[u] # t
      BY <1>a, <1>0, <3>1, Zenon DEF Sets
    <3> QED
      BY <1>1, <3>1, <3>2, Zenon
  <2> QED
    BY <1>a, <2>1, <2>2, Zenon DEF Led
<1> QED
  BY <1>2, <1>3, <1>4, <1>5, <1>6, <1>7, Zenon DEF Built

LEMMA LeaveLinks ==
  ASSUME NEW I, NEW L, NEW S, NEW N, NEW F, NEW g, NEW r, NEW n, NEW nt, NEW A, NEW fst,
         NEW hd \in Pointer, NEW tl \in Pointer,
         NEW pv \in [Threads -> Pointer], NEW nx \in [Threads -> Pointer],
         Built(I, L, S, N, F, A, nt, pv, nx, hd, tl, fst, g, r, n),
         NEW t \in I \cup L,
         NEW hd2, NEW tl2, NEW pv2, NEW nx2, Unlinks(t, hd, tl, pv, nx, hd2, tl2, pv2, nx2)
  PROVE  Built(I \ {t}, L \ {t}, S, N \ {t}, F \ {t}, A, nt, pv2, nx2, hd2, tl2, fst, g, r, n)
<1>a. /\ Sets(I, L, S, N, F) /\ Ghosts(g, r, n)
      /\ Linked(N, F, pv, nx, g, r) /\ Ends(I, hd, tl, pv, nx)
      /\ Grouped(I, L, N, F, nt, nx, g) /\ Led(S, F, A, fst, g, r)
  BY Zenon DEF Built
<1>b. /\ hd2 = IF hd = t THEN nx[t] ELSE hd
      /\ tl2 = IF tl = t THEN pv[t] ELSE tl
      /\ nx2 = [p \in Threads |-> IF hd # t /\ p = pv[t] THEN nx[t] ELSE nx[p]]
      /\ pv2 = [p \in Threads |-> IF tl # t /\ p = nx[t] THEN pv[t] ELSE pv[p]]
  BY Zenon DEF Unlinks
<1> DEFINE a == pv[t]
           b == nx[t]
<1>0. t \in Threads /\ t # NIL /\ t \in F /\ t \in N /\ t \notin S /\ NIL \notin Threads
  BY <1>a, ThreadConstants, Zenon DEF Sets
<1>1. /\ a # NIL => a \in F /\ a \in Threads /\ nx[a] = t /\ g[a] = g[t] /\ r[t] < r[a]
      /\ b # NIL => b \in N /\ b \in Threads /\ pv[b] = t /\ g[b] = g[t] /\ r[b] < r[t]
  <2>1. a # NIL => a \in F /\ nx[a] = t /\ g[a] = g[t]
    BY <1>a, <1>0, Zenon DEF Linked
  <2>2. a # NIL => r[nx[a]] < r[a]
    BY <1>a, <1>0, <2>1, Zenon DEF Linked
  <2>3. b # NIL => b \in N /\ pv[b] = t /\ g[b] = g[t] /\ r[b] < r[t]
    BY <1>a, <1>0, Zenon DEF Linked
  <2>4. F \subseteq Threads /\ N \subseteq Threads
    BY <1>a, Zenon DEF Sets
  <2> QED
    BY <2>1, <2>2, <2>3, <2>4, Zenon
<1>r. \A p \in Threads : r[p] \in Nat
  BY <1>a, Zenon DEF Ghosts
<1>2. a # t /\ b # t
  BY <1>0, <1>1, <1>r
<1>3. /\ t \in I => (a = NIL <=> t = hd) /\ (b = NIL <=> t = tl) /\ g[t] = {}
      /\ t \notin I => hd # t /\ tl # t /\ t \in L /\ g[t] # {}
  BY <1>a, <1>0, Zenon DEF Ends, Grouped
<1>4. ASSUME NEW p \in Threads
      PROVE  /\ p = a => nx2[p] = b
             /\ p # a => nx2[p] = nx[p]
             /\ p = b => pv2[p] = a
             /\ p # b => pv2[p] = pv[p]
  BY <1>b, <1>0, <1>3, Zenon
<1> HIDE DEF a, b
<1>5. Sets(I \ {t}, L \ {t}, S, N \ {t}, F \ {t})
  BY <1>a, <1>0, Zenon DEF Sets
<1>6. Linked(N \ {t}, F \ {t}, pv2, nx2, g, r)
  <2>1. ASSUME NEW p \in N \ {t}, pv2[p] # NIL
        PROVE  pv2[p] \in F \ {t} /\ nx2[pv2[p]] = p /\ g[pv2[p]] = g[p]
    <3>0. p \in Threads /\ p \in N /\ p # NIL /\ p # t
      BY <1>a, <1>0, Zenon DEF Sets
    <3>1. CASE p = b
      <4>1. pv2[p] = a /\ a # NIL
        BY <1>4, <2>1, <3>0, <3>1, Zenon
      <4> QED
        BY <1>1, <1>2, <1>4, <3>0, <3>1, <4>1, Zenon
    <3>2. CASE p # b
      <4>1. pv2[p] = pv[p]
        BY <1>4, <3>0, <3>2, Zenon
      <4>2. pv[p] \in F /\ nx[pv[p]] = p /\ g[pv[p]] = g[p]
        BY <1>a, <2>1, <3>0, <4>1, Zenon DEF Linked
      <4>3. pv[p] \in Threads /\ pv[p] # t
        BY <1>a, <3>2, <4>2, Zenon DEF Sets, b
      <4>4. pv[p] # a
        BY <1>0, <1>1, <3>0, <4>2, <4>3, Zenon
      <4> QED
        BY <1>4, <4>1, <4>2, <4>3, <4>4, Zenon
    <3> QED
      BY <3>1, <3>2, Zenon
  <2>2. ASSUME NEW p \in F \ {t}, nx2[p] # NIL
        PROVE  nx2[p] \in N \ {t} /\ pv2[nx2[p]] = p /\ g[nx2[p]] = g[p] /\ r[nx2[p]] < r[p]
    <3>0. p \in Threads /\ p \in F /\ p # NIL /\ p # t
      BY <1>a, <1>0, Zenon DEF Sets
    <3>1. CASE p = a
      <4>1. nx2[p] = b /\ b # NIL
        BY <1>4, <2>2, <3>0, <3>1, Zenon
      <4>2. b \in N /\ b # t /\ g[b] = g[a] /\ pv2[b] = a
        BY <1>1, <1>2, <1>4, <3>0, <3>1, <4>1, Zenon
      <4>3. r[b] < r[a]
        BY <1>0, <1>1, <1>r, <3>0, <3>1, <4>1
      <4> QED
        BY <3>1, <4>1, <4>2, <4>3, Zenon
    <3>2. CASE p # a
      <4>1. nx2[p] = nx[p]
        BY <1>4, <3>0, <3>2, Zenon
      <4>2. nx[p] \in N /\ pv[nx[p]] = p /\ g[nx[p]] = g[p] /\ r[nx[p]] < r[p]
        BY <1>a, <2>2, <3>0, <4>1, Zenon DEF Linked
      <4>3. nx[p] \in Threads /\ nx[p] # t
        BY <1>a, <3>2, <4>2, Zenon DEF Sets, a
      <4>4. nx[p] # b
        BY <1>0, <1>1, <3>0, <4>2, <4>3, Zenon
      <4> QED
        BY <1>4, <4>1, <4>2, <4>3, <4>4, Zenon
    <3> QED
      BY <3>1, <3>2, Zenon
  <2> QED
    BY <1>a, <2>1, <2>2, Zenon DEF Linked
<1>7. Ends(I \ {t}, hd2, tl2, pv2, nx2)
  <2>1. a # NIL /\ t \in I => a \in I
    BY <1>a, <1>1, <1>3, Zenon DEF Grouped, Sets
  <2>2. b # NIL /\ t \in I => b \in I
    BY <1>a, <1>1, <1>3, Zenon DEF Grouped, Sets
  <2>3. hd2 = (IF hd = t THEN b ELSE hd) /\ tl2 = (IF tl = t THEN a ELSE tl)
    BY <1>b, Zenon DEF a, b
  <2>4. hd \in I \cup {NIL} /\ tl \in I \cup {NIL} /\ (hd = NIL <=> tl = NIL)
    BY <1>a, Zenon DEF Ends
  <2>5. hd2 \in (I \ {t}) \cup {NIL} /\ tl2 \in (I \ {t}) \cup {NIL}
    BY <1>2, <1>3, <2>1, <2>2, <2>3, <2>4, Zenon
  <2>6. hd2 = NIL <=> tl2 = NIL
    BY <1>0, <1>3, <2>3, <2>4, Zenon
  <2>7. ASSUME NEW p \in I \ {t}
        PROVE  (pv2[p] = NIL <=> p = hd2) /\ (nx2[p] = NIL <=> p = tl2)
    <3>0. p \in Threads /\ p \in I /\ p \in N /\ p # NIL /\ p # t /\ g[p] = {}
      BY <1>a, <1>0 DEF Sets, Grouped
    <3>1. (pv[p] = NIL <=> p = hd) /\ (nx[p] = NIL <=> p = tl)
      BY <1>a, <3>0, Zenon DEF Ends
    <3>2. p = a \/ p = b => t \in I
      BY <1>0, <1>1, <1>3, <3>0, Zenon
    <3>3. pv2[p] = NIL <=> p = hd2
      <4>1. CASE p = b
        <5>1. pv2[p] = a /\ pv[p] = t /\ t \in I
          BY <1>1, <1>4, <3>0, <3>2, <4>1, Zenon
        <5>2. p # hd
          BY <1>0, <3>1, <5>1, Zenon
        <5>3. hd = t <=> p = hd2
          BY <2>3, <4>1, <5>2, Zenon
        <5> QED
          BY <1>3, <5>1, <5>3, Zenon
      <4>2. CASE p # b
        <5>1. pv2[p] = pv[p]
          BY <1>4, <3>0, <4>2, Zenon
        <5>2. p = hd <=> p = hd2
          BY <2>3, <3>0, <4>2, Zenon
        <5> QED
          BY <3>1, <5>1, <5>2, Zenon
      <4> QED
        BY <4>1, <4>2, Zenon
    <3>4. nx2[p] = NIL <=> p = tl2
      <4>1. CASE p = a
        <5>1. nx2[p] = b /\ nx[p] = t /\ t \in I
          BY <1>1, <1>4, <3>0, <3>2, <4>1, Zenon
        <5>2. p # tl
          BY <1>0, <3>1, <5>1, Zenon
        <5>3. tl = t <=> p = tl2
          BY <2>3, <4>1, <5>2, Zenon
        <5> QED
          BY <1>3, <5>1, <5>3, Zenon
      <4>2. CASE p # a
        <5>1. nx2[p] = nx[p]
          BY <1>4, <3>0, <4>2, Zenon
        <5>2. p = tl <=> p = tl2
          BY <2>3, <3>0, <4>2, Zenon
        <5> QED
          BY <3>1, <5>1, <5>2, Zenon
      <4> QED
        BY <4>1, <4>2, Zenon
    <3> QED
      BY <3>3, <3>4, Zenon
  <2> QED
    BY <1>a, <2>5, <2>6, <2>7, Zenon DEF Ends
<1>8. Grouped(I \ {t}, L \ {t}, N \ {t}, F \ {t}, nt, nx2, g)
  <2>0. g[t] # {NIL}
    <3>1. CASE t \in I
      BY <1>3, <3>1, Zenon
    <3>2. CASE t \notin I
      <4>1. g[t] = {nt[t]} /\ nt[t] \in Threads
        BY <1>a, <1>3, <3>2, Zenon DEF Grouped
      <4> QED
        BY <1>0, <4>1, Zenon
    <3> QED
      BY <3>1, <3>2, Zenon
  <2>1. \A p \in N \ {t} : p \in I \ {t} <=> g[p] = {}
    BY <1>a, Zenon DEF Grouped
  <2>2. \A p \in L \ {t} : nt[p] \in Threads /\ g[p] = {nt[p]}
    BY <1>a, Zenon DEF Grouped
  <2>3. \A p \in (N \ {t}) \ (F \ {t}) : g[p] = {NIL}
    BY <1>a, Zenon DEF Grouped
  <2>4. ASSUME NEW p \in F \ {t}, NEW q \in F \ {t},
               g[p] = g[q], g[p] # {NIL}, nx2[p] = NIL, nx2[q] = NIL
        PROVE  p = q
    <3>0. p \in Threads /\ q \in Threads /\ p \in F /\ q \in F /\ p # t /\ q # t
      BY <1>a, Zenon DEF Sets
    <3>u. \A x, y \in F : g[x] = g[y] /\ g[x] # {NIL} /\ nx[x] = NIL /\ nx[y] = NIL => x = y
      BY <1>a, Zenon DEF Grouped
    <3>1. CASE p # a /\ q # a
      BY <1>4, <2>4, <3>0, <3>1, <3>u, Zenon
    <3>2. ASSUME NEW x \in F, x \in Threads, x # t, x # a, g[x] = g[a], nx2[x] = NIL,
                 a # NIL, b = NIL
          PROVE  FALSE
      <4>1. nx[x] = NIL /\ nx[t] = NIL /\ g[x] = g[t]
        BY <1>1, <1>4, <3>2, Zenon DEF b
      <4> QED
        BY <1>0, <2>0, <3>2, <3>u, <4>1, Zenon
    <3>3. CASE p = a /\ q # a
      BY <1>0, <1>4, <2>4, <3>0, <3>2, <3>3, Zenon
    <3>4. CASE q = a /\ p # a
      BY <1>0, <1>4, <2>4, <3>0, <3>2, <3>4, Zenon
    <3> QED
      BY <3>1, <3>3, <3>4, Zenon
  <2>5. ASSUME NEW p \in F \ {t}, g[p] = {NIL} PROVE nx2[p] # NIL
    <3>1. p \in Threads /\ p \in F /\ p # a /\ nx[p] # NIL
      BY <1>a, <1>0, <1>1, <2>0, <2>5 DEF Sets, Grouped
    <3> QED
      BY <1>4, <3>1, Zenon
  <2> QED
    BY <1>a, <2>1, <2>2, <2>3, <2>4, <2>5, Zenon DEF Grouped
<1>9. Led(S, F \ {t}, A, fst, g, r)
  BY <1>a, <1>0, Zenon DEF Led
<1> QED
  BY <1>5, <1>6, <1>7, <1>8, <1>9, Zenon DEF Built

LEMMA ReleaseLinks ==
  ASSUME NEW I, NEW L, NEW S, NEW N, NEW F, NEW g, NEW r, NEW n, NEW nt, NEW A, NEW fst,
         NEW hd, NEW tl, NEW pv \in [Threads -> Pointer], NEW nx \in [Threads -> Pointer],
         Built(I, L, S, N, F, A, nt, pv, nx, hd, tl, fst, g, r, n),
         NEW t \in Threads, t \in A, fst[t] # NIL, \A p \in L : nt[p] # t,
         NEW g2, Opens(t, g, g2)
  PROVE  /\ fst[t] \in S /\ fst[t] \in F /\ nx[fst[t]] = NIL
         /\ Built(I, L, S, N, F \ {fst[t]}, A \ {t}, nt, pv, nx, hd, tl, fst, g2, r, n)
<1>a. /\ Sets(I, L, S, N, F) /\ Ghosts(g, r, n)
      /\ Linked(N, F, pv, nx, g, r) /\ Ends(I, hd, tl, pv, nx)
      /\ Grouped(I, L, N, F, nt, nx, g) /\ Led(S, F, A, fst, g, r)
  BY Zenon DEF Built
<1>b. g2 = [p \in Threads |-> IF g[p] = {t} THEN {NIL} ELSE g[p]]
  BY Zenon DEF Opens
<1> DEFINE f == fst[t]
<1>0. t # NIL /\ NIL \notin Threads /\ N \subseteq Threads /\ F \subseteq N /\ N = I \cup L \cup S
  BY <1>a, ThreadConstants, Zenon DEF Sets
<1>1. f \in S /\ f \in F /\ g[f] = {t} /\ f \in Threads /\ f # NIL
  BY <1>a, <1>0, Zenon DEF Led
<1>r. \A p \in Threads : r[p] \in Nat
  BY <1>a, Zenon DEF Ghosts
<1>2. nx[f] = NIL
  <2> SUFFICES ASSUME nx[f] # NIL PROVE FALSE
    BY Zenon
  <2>1. nx[f] \in N /\ g[nx[f]] = {t} /\ r[nx[f]] < r[f]
    BY <1>a, <1>1, Zenon DEF Linked
  <2>2. nx[f] \in S
    <3>1. nx[f] \notin I
      BY <1>a, <2>1, Zenon DEF Grouped
    <3>2. nx[f] \notin L
      <4> SUFFICES ASSUME nx[f] \in L PROVE FALSE
        BY Zenon
      <4>1. g[nx[f]] = {nt[nx[f]]} /\ nt[nx[f]] # t
        BY <1>a, Zenon DEF Grouped
      <4> QED
        BY <2>1, <4>1, Zenon
    <3> QED
      BY <1>0, <2>1, <3>1, <3>2, Zenon
  <2>3. r[f] <= r[nx[f]]
    BY <1>a, <2>1, <2>2, Zenon DEF Led
  <2>4. r[f] \in Nat /\ r[nx[f]] \in Nat
    BY <1>0, <1>1, <1>r, <2>1, Zenon
  <2> QED
    BY <2>1, <2>3, <2>4
<1>3. ASSUME NEW p \in Threads
      PROVE  /\ g[p] = {t} => g2[p] = {NIL}
             /\ g[p] # {t} => g2[p] = g[p]
  BY <1>b, Zenon
<1>4. Sets(I, L, S, N, F \ {f})
  BY <1>a, <1>1, Zenon DEF Sets
<1>5. Ghosts(g2, r, n)
  <2>1. g2 \in [Threads -> Groups]
    <3>1. {NIL} \in Groups
      BY Zenon DEF Groups, Pointer
    <3> QED
      BY <1>a, <1>b, <3>1, Zenon DEF Ghosts
  <2> QED
    BY <1>a, <2>1, Zenon DEF Ghosts
<1> HIDE DEF f
<1>6. Linked(N, F \ {f}, pv, nx, g2, r)
  <2>1. ASSUME NEW p \in N, pv[p] # NIL
        PROVE  pv[p] \in F \ {f} /\ nx[pv[p]] = p /\ g2[pv[p]] = g2[p]
    <3>1. pv[p] \in F /\ nx[pv[p]] = p /\ g[pv[p]] = g[p]
      BY <1>a, <2>1, Zenon DEF Linked
    <3>2. p \in Threads /\ pv[p] \in Threads /\ pv[p] # f
      BY <1>0, <1>2, <3>1, Zenon
    <3> QED
      BY <1>3, <3>1, <3>2, Zenon
  <2>2. ASSUME NEW p \in F \ {f}, nx[p] # NIL
        PROVE  nx[p] \in N /\ pv[nx[p]] = p /\ g2[nx[p]] = g2[p] /\ r[nx[p]] < r[p]
    <3>1. nx[p] \in N /\ pv[nx[p]] = p /\ g[nx[p]] = g[p] /\ r[nx[p]] < r[p]
      BY <1>a, <2>2, Zenon DEF Linked
    <3>2. p \in Threads /\ nx[p] \in Threads
      BY <1>0, <3>1, Zenon
    <3> QED
      BY <1>3, <3>1, <3>2, Zenon
  <2> QED
    BY <1>a, <2>1, <2>2, Zenon DEF Linked
<1>7. Grouped(I, L, N, F \ {f}, nt, nx, g2)
  <2>1. ASSUME NEW p \in N PROVE p \in I <=> g2[p] = {}
    BY <1>a, <1>0, <1>3, Zenon DEF Grouped
  <2>2. ASSUME NEW p \in L PROVE nt[p] \in Threads /\ g2[p] = {nt[p]}
    BY <1>a, <1>0, <1>3 DEF Grouped
  <2>3. ASSUME NEW p \in N \ (F \ {f}) PROVE g2[p] = {NIL}
    <3>1. CASE p = f
      BY <1>1, <1>3, <3>1, Zenon
    <3>2. CASE p # f
      <4>1. p \in Threads /\ g[p] = {NIL}
        BY <1>a, <1>0, <3>2, Zenon DEF Grouped
      <4> QED
        BY <1>3, <4>1, Zenon
    <3> QED
      BY <3>1, <3>2, Zenon
  <2>4. ASSUME NEW p \in F \ {f}, NEW q \in F \ {f},
               g2[p] = g2[q], g2[p] # {NIL}, nx[p] = NIL, nx[q] = NIL
        PROVE  p = q
    <3>1. p \in Threads /\ q \in Threads /\ p \in F /\ q \in F
      BY <1>0, Zenon
    <3>2. g[p] = g[q] /\ g[p] # {NIL}
      BY <1>3, <2>4, <3>1, Zenon
    <3> QED
      BY <1>a, <2>4, <3>1, <3>2, Zenon DEF Grouped
  <2>5. ASSUME NEW p \in F \ {f}, g2[p] = {NIL} PROVE nx[p] # NIL
    <3>1. p \in Threads /\ p \in F /\ p # f
      BY <1>0, Zenon
    <3>2. CASE g[p] = {t}
      <4>1. g[f] = g[p] /\ g[p] # {NIL}
        BY <1>0, <1>1, <3>2, Zenon
      <4> QED
        BY <1>a, <1>1, <1>2, <3>1, <4>1, Zenon DEF Grouped
    <3>3. CASE g[p] # {t}
      <4>1. g[p] = {NIL}
        BY <1>3, <2>5, <3>1, <3>3, Zenon
      <4> QED
        BY <1>a, <3>1, <4>1, Zenon DEF Grouped
    <3> QED
      BY <3>2, <3>3, Zenon
  <2> QED
    BY <1>a, <2>1, <2>2, <2>3, <2>4, <2>5, Zenon DEF Grouped
<1>8. Led(S, F \ {f}, A \ {t}, fst, g2, r)
  <2>1. ASSUME NEW p \in S, NEW u \in Threads, g2[p] = {u}
        PROVE  u \in A \ {t} /\ fst[u] # NIL /\ r[fst[u]] <= r[p]
    <3>1. p \in Threads /\ u # NIL
      BY <1>0, Zenon
    <3>2. g[p] = {u} /\ u # t
      BY <1>3, <2>1, <3>1, Zenon
    <3> QED
      BY <1>a, <3>2, Zenon DEF Led
  <2>2. ASSUME NEW u \in A \ {t}, fst[u] # NIL
        PROVE  fst[u] \in S /\ fst[u] \in F \ {f} /\ g2[fst[u]] = {u}
    <3>1. fst[u] \in S /\ fst[u] \in F /\ g[fst[u]] = {u} /\ u # t
      BY <1>a, <2>2, Zenon DEF Led
    <3>2. fst[u] # f /\ fst[u] \in Threads /\ g[fst[u]] # {t}
      BY <1>0, <1>1, <3>1, Zenon
    <3> QED
      BY <1>3, <3>1, <3>2, Zenon
  <2> QED
    BY <1>a, <2>1, <2>2, Zenon DEF Led
<1> QED
  BY <1>1, <1>2, <1>4, <1>5, <1>6, <1>7, <1>8, Zenon DEF f, Built

(* A signaled waiter that has the mutex again hands on to the next of its    *)
(* group, which is signaled too.                                             *)
LEMMA HandoverLinks ==
  ASSUME NEW I, NEW L, NEW S, NEW N, NEW F, NEW g, NEW r, NEW n, NEW nt, NEW A, NEW fst,
         NEW hd, NEW tl, NEW pv \in [Threads -> Pointer], NEW nx \in [Threads -> Pointer],
         Built(I, L, S, N, F, A, nt, pv, nx, hd, tl, fst, g, r, n),
         A \subseteq Threads, NEW t \in N \ F
  PROVE  /\ pv[t] # NIL => pv[t] \in S /\ pv[t] \in F /\ pv[t] # t /\ nx[pv[t]] = t
         /\ Built(I, L, S \ {t}, N \ {t}, F \ {pv[t]}, A, nt, pv, nx, hd, tl, fst, g, r, n)
<1>a. /\ Sets(I, L, S, N, F) /\ Ghosts(g, r, n)
      /\ Linked(N, F, pv, nx, g, r) /\ Ends(I, hd, tl, pv, nx)
      /\ Grouped(I, L, N, F, nt, nx, g) /\ Led(S, F, A, fst, g, r)
  BY Zenon DEF Built
<1> DEFINE h == pv[t]
<1>0. /\ t \in Threads /\ t \in S /\ NIL \notin Threads /\ N \subseteq Threads /\ F \subseteq N
      /\ N = I \cup L \cup S /\ t \notin I /\ t \notin L
  BY <1>a, ThreadConstants, Zenon DEF Sets
<1>1. g[t] = {NIL}
  BY <1>a, Zenon DEF Grouped
<1>2. h # NIL => h \in S /\ h \in F /\ h # t /\ nx[h] = t /\ g[h] = {NIL} /\ h \notin I /\ h \notin L
  <2> SUFFICES ASSUME h # NIL
               PROVE  h \in S /\ h \in F /\ h # t /\ nx[h] = t /\ g[h] = {NIL} /\ h \notin I /\ h \notin L
    BY Zenon
  <2>1. h \in F /\ nx[h] = t /\ g[h] = {NIL}
    BY <1>a, <1>0, <1>1, Zenon DEF Linked
  <2>2. h \notin I
    BY <1>a, <1>0, <2>1, Zenon DEF Grouped
  <2>3. h \notin L
    <3> SUFFICES ASSUME h \in L PROVE FALSE
      BY Zenon
    <3>1. g[h] = {nt[h]} /\ nt[h] \in Threads
      BY <1>a, Zenon DEF Grouped
    <3> QED
      BY <1>0, <2>1, <3>1, Zenon
  <2> QED
    BY <1>0, <2>1, <2>2, <2>3, Zenon
<1> HIDE DEF h
<1>3. Sets(I, L, S \ {t}, N \ {t}, F \ {h})
  <2>1. h \notin I /\ h \notin L
    BY <1>0, <1>2, Zenon
  <2>2. N \ F \subseteq S /\ I \subseteq F /\ L \subseteq F /\ I \cap L = {} /\ I \cap S = {} /\ L \cap S = {}
    BY <1>a, Zenon DEF Sets
  <2>3. \A p \in (N \ {t}) \ (F \ {h}) : p \in S \ {t}
    BY <1>0, <1>2, <2>2, Zenon
  <2> QED
    BY <1>a, <1>0, <2>1, <2>2, <2>3, Zenon DEF Sets
<1>4. Linked(N \ {t}, F \ {h}, pv, nx, g, r)
  <2>1. ASSUME NEW p \in N \ {t}, pv[p] # NIL
        PROVE  pv[p] \in F \ {h} /\ nx[pv[p]] = p /\ g[pv[p]] = g[p]
    <3>1. pv[p] \in F /\ nx[pv[p]] = p /\ g[pv[p]] = g[p]
      BY <1>a, <2>1, Zenon DEF Linked
    <3> QED
      BY <1>0, <1>2, <2>1, <3>1, Zenon
  <2>2. ASSUME NEW p \in F \ {h}, nx[p] # NIL
        PROVE  nx[p] \in N \ {t} /\ pv[nx[p]] = p /\ g[nx[p]] = g[p] /\ r[nx[p]] < r[p]
    <3>1. nx[p] \in N /\ pv[nx[p]] = p /\ g[nx[p]] = g[p] /\ r[nx[p]] < r[p]
      BY <1>a, <2>2, Zenon DEF Linked
    <3>2. nx[p] # t
      BY <3>1, Zenon DEF h
    <3> QED
      BY <3>1, <3>2, Zenon
  <2> QED
    BY <1>a, <2>1, <2>2, Zenon DEF Linked
<1>5. Grouped(I, L, N \ {t}, F \ {h}, nt, nx, g)
  <2>1. ASSUME NEW p \in (N \ {t}) \ (F \ {h}) PROVE g[p] = {NIL}
    <3>1. p = h \/ p \in N \ F
      BY <1>0, Zenon
    <3>2. p = h => h # NIL
      BY <1>0, Zenon
    <3>3. p \in N \ F => g[p] = {NIL}
      BY <1>a, Zenon DEF Grouped
    <3> QED
      BY <1>2, <3>1, <3>2, <3>3, Zenon
  <2> QED
    BY <1>a, <2>1, Zenon DEF Grouped
<1>6. Led(S \ {t}, F \ {h}, A, fst, g, r)
  <2>1. ASSUME NEW u \in A, fst[u] # NIL
        PROVE  fst[u] \in S \ {t} /\ fst[u] \in F \ {h} /\ g[fst[u]] = {u}
    <3>1. fst[u] \in S /\ fst[u] \in F /\ g[fst[u]] = {u}
      BY <1>a, <2>1, Zenon DEF Led
    <3>2. fst[u] # t
      BY <3>1, Zenon
    <3>3. fst[u] # h
      <4> SUFFICES ASSUME fst[u] = h PROVE FALSE
        BY Zenon
      <4>1. u \in Threads /\ g[h] = {NIL}
        BY <1>0, <1>2, <3>1, Zenon
      <4> QED
        BY <1>0, <3>1, <4>1, Zenon
    <3> QED
      BY <3>1, <3>2, <3>3, Zenon
  <2> QED
    BY <1>a, <2>1, Zenon DEF Led
<1> QED
  BY <1>2, <1>3, <1>4, <1>5, <1>6, Zenon DEF h, Built

LEMMA SplitLinks ==
  ASSUME NEW I, NEW L, NEW S, NEW N, NEW F, NEW g, NEW r, NEW n, NEW A,
         NEW nt, NEW fst, NEW hd, NEW tl, NEW pv, NEW nx,
         NEW V, NEW rest, NEW hits, NEW f, NEW t,
         Parts(I, L, S, N, F, A, nt, pv, nx, hd, tl, fst, g, r, n, V, rest, hits, f, t),
         NEW hd2, NEW nt2, NEW pv2, NEW nx2, NEW fst2, NEW g2,
         Splits(t, V, rest, hits, f, hd, nt, pv, nx, fst, g, hd2, nt2, pv2, nx2, fst2, g2)
  PROVE  Built(I \ V, L \cup (V \ hits), S \cup hits, N, F, A \cup {t}, nt2, pv2, nx2, hd2, rest, fst2, g2, r, n)
<1>a. /\ Built(I, L, S, N, F, A, nt, pv, nx, hd, tl, fst, g, r, n)
      /\ Split(I, V, rest, hd, tl, pv, nx)
      /\ t \in Threads /\ A \subseteq Threads /\ hits \subseteq V
  BY Zenon DEF Parts
<1>b. /\ Sets(I, L, S, N, F) /\ Ghosts(g, r, n)
      /\ Linked(N, F, pv, nx, g, r) /\ Ends(I, hd, tl, pv, nx)
      /\ Grouped(I, L, N, F, nt, nx, g) /\ Led(S, F, A, fst, g, r)
  BY <1>a, Zenon DEF Built
<1>c. /\ nt \in [Threads -> Pointer] /\ fst \in [Threads -> Pointer]
      /\ pv \in [Threads -> Pointer] /\ nx \in [Threads -> Pointer]
      /\ hd \in Pointer /\ tl \in Pointer
  BY Zenon DEF Parts, Pointers
<1>d. hd2 = IF rest = NIL THEN NIL ELSE hd
  BY Zenon DEF Splits
<1>e. /\ pv2 = [p \in Threads |-> IF rest # NIL /\ p = nx[rest] THEN NIL ELSE pv[p]]
      /\ nx2 = [p \in Threads |-> IF p = rest THEN NIL ELSE nx[p]]
      /\ nt2 = [p \in Threads |-> IF p \in V \ hits THEN t ELSE nt[p]]
      /\ g2 = [p \in Threads |-> IF p \in V THEN {t} ELSE g[p]]
      /\ fst2 = [fst EXCEPT ![t] = f]
  BY Zenon DEF Splits
<1>f. /\ \A p \in N : g[p] # {t}
      /\ f # NIL => f \in hits
      /\ \A p \in hits : f # NIL /\ r[f] <= r[p]
  BY Zenon DEF Parts, Unused, Leads
<1>0. /\ NIL \notin Threads /\ N \subseteq Threads /\ F \subseteq N /\ I \subseteq F /\ L \subseteq F /\ S \subseteq N
      /\ I \cap L = {} /\ I \cap S = {} /\ L \cap S = {} /\ N = I \cup L \cup S /\ N \ F \subseteq S
      /\ V \subseteq I /\ hits \subseteq V /\ t # NIL
  BY <1>a, <1>b, ThreadConstants, Zenon DEF Sets, Split
<1>1. /\ rest # NIL => rest \in I /\ rest \in F /\ rest \in Threads /\ rest \notin V /\ nx[rest] \in V
      /\ NIL \notin V
  BY <1>a, <1>0, Zenon DEF Split
<1>2. /\ \A p \in Threads : p \in V => g2[p] = {t}
      /\ \A p \in Threads : p \notin V => g2[p] = g[p]
      /\ \A p \in Threads : p = rest => nx2[p] = NIL
      /\ \A p \in Threads : p # rest => nx2[p] = nx[p]
      /\ \A p \in Threads : rest # NIL /\ p = nx[rest] => pv2[p] = NIL
      /\ \A p \in Threads : ~(rest # NIL /\ p = nx[rest]) => pv2[p] = pv[p]
      /\ \A p \in Threads : p \in V \ hits => nt2[p] = t
      /\ \A p \in Threads : p \notin V => nt2[p] = nt[p]
      /\ fst2[t] = f /\ \A u \in Threads : u # t => fst2[u] = fst[u]
  BY <1>a, <1>b, <1>c, <1>d, <1>e, <1>f, Zenon
<1>v. \A p \in V : pv[p] \in V \cup {rest} /\ nx[p] \in V \cup {NIL}
  BY <1>a, Zenon DEF Split
<1>3. Sets(I \ V, L \cup (V \ hits), S \cup hits, N, F)
  BY <1>b, <1>0, Zenon DEF Sets
<1>4. Ghosts(g2, r, n)
  <2>1. {t} \in Groups
    BY <1>a, Zenon DEF Groups, Pointer
  <2>2. g2 \in [Threads -> Groups]
    BY <1>b, <1>e, <2>1, Zenon DEF Ghosts
  <2> QED
    BY <1>b, <2>2, Zenon DEF Ghosts
<1>5. Linked(N, F, pv2, nx2, g2, r)
  <2>1. ASSUME NEW p \in N, pv2[p] # NIL
        PROVE  pv2[p] \in F /\ nx2[pv2[p]] = p /\ g2[pv2[p]] = g2[p]
    <3>0. p \in Threads /\ p # NIL
      BY <1>0, Zenon
    <3>1. pv2[p] = pv[p] /\ ~(rest # NIL /\ p = nx[rest])
      BY <1>2, <2>1, <3>0, Zenon
    <3>2. pv[p] \in F /\ nx[pv[p]] = p /\ g[pv[p]] = g[p]
      BY <1>b, <2>1, <3>1, Zenon DEF Linked
    <3>3. pv[p] \in Threads /\ pv[p] # rest
      BY <1>0, <3>1, <3>2, Zenon
    <3>4. p \in V <=> pv[p] \in V
      <4>1. p \in V => pv[p] \in V
        BY <1>v, <3>3, Zenon
      <4>2. pv[p] \in V => p \in V
        BY <1>v, <3>0, <3>2, Zenon
      <4> QED
        BY <4>1, <4>2, Zenon
    <3> QED
      BY <1>b, <1>2, <3>0, <3>1, <3>2, <3>3, <3>4, ZenonT(40)
  <2>2. ASSUME NEW p \in F, nx2[p] # NIL
        PROVE  nx2[p] \in N /\ pv2[nx2[p]] = p /\ g2[nx2[p]] = g2[p] /\ r[nx2[p]] < r[p]
    <3>0. p \in Threads /\ p # NIL
      BY <1>0, Zenon
    <3>1. nx2[p] = nx[p] /\ p # rest
      BY <1>2, <2>2, <3>0, Zenon
    <3>2. nx[p] \in N /\ pv[nx[p]] = p /\ g[nx[p]] = g[p] /\ r[nx[p]] < r[p]
      BY <1>b, <2>2, <3>1, Zenon DEF Linked
    <3>3. nx[p] \in Threads /\ nx[p] # NIL
      BY <1>0, <3>2, Zenon
    <3>4. ~(rest # NIL /\ nx[p] = nx[rest])
      <4> SUFFICES ASSUME rest # NIL, nx[p] = nx[rest] PROVE FALSE
        BY Zenon
      <4>1. pv[nx[rest]] = rest
        BY <1>b, <1>1, <3>3, Zenon DEF Linked
      <4> QED
        BY <3>1, <3>2, <4>1, Zenon
    <3>5. p \in V <=> nx[p] \in V
      <4>1. p \in V => nx[p] \in V
        BY <1>v, <3>3, Zenon
      <4>2. nx[p] \in V => p \in V
        BY <1>v, <3>1, <3>2, Zenon
      <4> QED
        BY <4>1, <4>2, Zenon
    <3>6. pv2[nx[p]] = p
      BY <1>2, <3>2, <3>3, <3>4, Zenon
    <3>7. g2[nx[p]] = g2[p]
      BY <1>2, <3>0, <3>2, <3>3, <3>5, Zenon
    <3> QED
      BY <3>1, <3>2, <3>6, <3>7, Zenon
  <2> QED
    BY <1>b, <2>1, <2>2, Zenon DEF Linked
<1>6. Ends(I \ V, IF rest = NIL THEN NIL ELSE hd, rest, pv2, nx2)
  <2>1. tl \in V \cup {NIL} /\ (tl = NIL => V = {}) /\ (rest = NIL => hd \in V \cup {NIL})
    BY <1>a, Zenon DEF Split
  <2>2. hd \in I \cup {NIL} /\ (hd = NIL <=> tl = NIL)
    BY <1>b, Zenon DEF Ends
  <2>3. rest # NIL => hd \in I \ V
    <3> SUFFICES ASSUME rest # NIL PROVE hd \in I \ V
      BY Zenon
    <3>1. hd # NIL /\ hd \in I
      BY <1>1, <2>1, <2>2, Zenon
    <3>2. pv[hd] = NIL
      BY <1>b, <3>1, Zenon DEF Ends
    <3>3. hd \notin V
      BY <1>1, <1>v, <3>2, Zenon
    <3> QED
      BY <3>1, <3>3, Zenon
  <2>4. ASSUME NEW p \in I \ V
        PROVE  (pv2[p] = NIL <=> p = (IF rest = NIL THEN NIL ELSE hd)) /\ (nx2[p] = NIL <=> p = rest)
    <3>0. p \in Threads /\ p # NIL /\ p \in I /\ p \notin V
      BY <1>0, Zenon
    <3>1. (pv[p] = NIL <=> p = hd) /\ (nx[p] = NIL <=> p = tl)
      BY <1>b, <3>0, Zenon DEF Ends
    <3>2. pv2[p] = pv[p]
      BY <1>1, <1>2, <3>0, Zenon
    <3>3. pv2[p] = NIL <=> p = (IF rest = NIL THEN NIL ELSE hd)
      BY <2>1, <3>0, <3>1, <3>2, Zenon
    <3>4. nx2[p] = NIL <=> p = rest
      BY <1>2, <2>1, <3>0, <3>1, Zenon
    <3> QED
      BY <3>3, <3>4, Zenon
  <2>5. /\ (IF rest = NIL THEN NIL ELSE hd) \in (I \ V) \cup {NIL}
        /\ rest \in (I \ V) \cup {NIL}
        /\ (IF rest = NIL THEN NIL ELSE hd) = NIL <=> rest = NIL
    BY <1>0, <1>1, <2>3, Zenon
  <2> QED
    BY <1>b, <2>4, <2>5, Zenon DEF Ends
<1>7. Grouped(I \ V, L \cup (V \ hits), N, F, nt2, nx2, g2)
  <2>1. ASSUME NEW p \in N PROVE p \in I \ V <=> g2[p] = {}
    <3>1. p \in Threads /\ (p \in I <=> g[p] = {})
      BY <1>b, <1>0, Zenon DEF Grouped
    <3> QED
      BY <1>2, <3>1, Zenon
  <2>2. ASSUME NEW p \in L \cup (V \ hits) PROVE nt2[p] \in Threads /\ g2[p] = {nt2[p]}
    <3>1. CASE p \in L
      <4>1. p \in Threads /\ p \notin V /\ nt[p] \in Threads /\ g[p] = {nt[p]}
        BY <1>b, <1>0, <3>1, Zenon DEF Grouped
      <4> QED
        BY <1>2, <4>1, Zenon
    <3>2. CASE p \in V \ hits
      <4>1. p \in Threads
        BY <1>0, <3>2, Zenon
      <4> QED
        BY <1>a, <1>2, <3>2, <4>1, Zenon
    <3> QED
      BY <3>1, <3>2, Zenon
  <2>3. ASSUME NEW p \in N \ F PROVE g2[p] = {NIL}
    <3>1. p \in Threads /\ p \notin V
      BY <1>0, Zenon
    <3>2. g[p] = {NIL}
      BY <1>b, Zenon DEF Grouped
    <3> QED
      BY <1>2, <3>1, <3>2, Zenon
  <2>4. ASSUME NEW p \in F, NEW q \in F,
               g2[p] = g2[q], g2[p] # {NIL}, nx2[p] = NIL, nx2[q] = NIL
        PROVE  p = q
    <3>0. p \in Threads /\ q \in Threads /\ p \in N /\ q \in N
      BY <1>0, Zenon
    <3>u. \A x, y \in F : g[x] = g[y] /\ g[x] # {NIL} /\ nx[x] = NIL /\ nx[y] = NIL => x = y
      BY <1>b, Zenon DEF Grouped
    <3>i. \A x \in N : x \in I <=> g[x] = {}
      BY <1>b, Zenon DEF Grouped
    <3>1. CASE p \in V /\ q \in V
      <4>1. p # rest /\ q # rest /\ g[p] = {} /\ g[q] = {}
        BY <1>0, <1>1, <3>0, <3>1, <3>i, Zenon
      <4>2. nx[p] = NIL /\ nx[q] = NIL
        BY <1>2, <2>4, <3>0, <4>1, Zenon
      <4>3. {} # {NIL}
        BY Zenon
      <4> QED
        BY <3>u, <4>1, <4>2, <4>3, Zenon
    <3>2. CASE p \in V /\ q \notin V
      BY <1>f, <1>2, <2>4, <3>0, <3>2
    <3>3. CASE p \notin V /\ q \in V
      BY <1>f, <1>2, <2>4, <3>0, <3>3
    <3>4. ASSUME NEW x \in F, x \notin V, x # rest, g2[x] = g2[rest], nx2[x] = NIL, rest # NIL
          PROVE  FALSE
      <4>1. x \in Threads /\ x \in N /\ nx[x] = NIL /\ g[x] = g[rest]
        BY <1>0, <1>1, <1>2, <3>4, Zenon
      <4>2. x \in I
        BY <1>0, <1>1, <3>4, <3>i, <4>1, Zenon
      <4>3. x = tl
        BY <1>b, <4>1, <4>2, Zenon DEF Ends
      <4> QED
        BY <1>a, <1>0, <3>4, <4>1, <4>3, Zenon DEF Split
    <3>5. CASE p \notin V /\ q \notin V /\ p # rest /\ q # rest
      BY <1>2, <2>4, <3>0, <3>5, <3>u, ZenonT(40)
    <3>6. CASE p \notin V /\ q \notin V /\ p = rest /\ q # rest
      BY <1>0, <2>4, <3>0, <3>4, <3>6, Zenon
    <3>7. CASE p \notin V /\ q \notin V /\ p # rest /\ q = rest
      BY <1>0, <2>4, <3>0, <3>4, <3>7, Zenon
    <3> QED
      BY <3>1, <3>2, <3>3, <3>5, <3>6, <3>7, Zenon
  <2>5. ASSUME NEW p \in F, g2[p] = {NIL} PROVE nx2[p] # NIL
    <3>1. p \in Threads /\ p \in N
      BY <1>0, Zenon
    <3>2. p \notin V
      BY <1>0, <1>2, <2>5, <3>1, Zenon
    <3>3. g[p] = {NIL}
      BY <1>2, <2>5, <3>1, <3>2, Zenon
    <3>4. p \notin I /\ nx[p] # NIL
      BY <1>b, <3>1, <3>3, Zenon DEF Grouped
    <3>5. p # rest
      BY <1>0, <1>1, <3>1, <3>4, Zenon
    <3> QED
      BY <1>2, <3>1, <3>4, <3>5, Zenon
  <2> QED
    BY <1>b, <2>1, <2>2, <2>3, <2>4, <2>5, Zenon DEF Grouped
<1>8. Led(S \cup hits, F, A \cup {t}, fst2, g2, r)
  <2>1. ASSUME NEW p \in S \cup hits, NEW u \in Threads, g2[p] = {u}
        PROVE  u \in A \cup {t} /\ fst2[u] # NIL /\ r[fst2[u]] <= r[p]
    <3>1. CASE p \in hits
      <4>0. p \in V /\ p \in Threads
        BY <1>0, <3>1, Zenon
      <4>1. p \in Threads /\ u = t
        <5>1. g2[p] = {t}
          BY <1>2, <4>0, Zenon
        <5> QED
          BY <2>1, <4>0, <5>1, Zenon
      <4> QED
        BY <1>f, <1>2, <3>1, <4>1, Zenon
    <3>2. CASE p \in S
      <4>1. p \in Threads /\ p \in N /\ p \notin V
        BY <1>0, <3>2, Zenon
      <4>2. g[p] = {u} /\ u # t
        BY <1>f, <1>2, <2>1, <4>1, Zenon
      <4>3. u \in A /\ fst[u] # NIL /\ r[fst[u]] <= r[p]
        BY <1>b, <3>2, <4>2, Zenon DEF Led
      <4> QED
        BY <1>2, <4>2, <4>3, Zenon
    <3> QED
      BY <3>1, <3>2, Zenon
  <2>2. ASSUME NEW u \in A \cup {t}, fst2[u] # NIL
        PROVE  fst2[u] \in S \cup hits /\ fst2[u] \in F /\ g2[fst2[u]] = {u}
    <3>1. CASE u = t
      BY <1>f, <1>0, <1>2, <2>2, <3>1, Zenon
    <3>2. CASE u # t
      <4>1. u \in A /\ fst2[u] = fst[u] /\ fst[u] # NIL
        BY <1>a, <1>2, <2>2, <3>2, Zenon
      <4>2. fst[u] \in S /\ fst[u] \in F /\ g[fst[u]] = {u}
        BY <1>b, <4>1, Zenon DEF Led
      <4>3. fst[u] \in Threads /\ fst[u] \notin V
        BY <1>0, <4>2, Zenon
      <4> QED
        BY <1>2, <4>1, <4>2, <4>3, Zenon
    <3> QED
      BY <3>1, <3>2, Zenon
  <2> QED
    BY <1>b, <2>1, <2>2, Zenon DEF Led
<1> QED
  BY <1>a, <1>d, <1>3, <1>4, <1>5, <1>6, <1>7, <1>8, Zenon DEF Built

-----------------------------------------------------------------------------
(* A non-empty set of numbers has a least one.                               *)
LEMMA Least ==
  ASSUME NEW S, S \subseteq Nat, S # {}
  PROVE  \E x \in S : \A y \in S : x <= y
<1>1. IsWellFoundedOn(OpToRel(<, Nat), Nat)
  BY NatLessThanWellFounded, Zenon
<1>2. PICK x \in S : \A y \in S : ~(<<y, x>> \in OpToRel(<, Nat))
  BY <1>1, WFMin, Zenon
<1>3. \A y \in S : ~(y < x)
  BY <1>2, Zenon DEF OpToRel
<1> QED
  BY <1>3

(* Induction, with the property as a set.                                    *)
LEMMA Induction ==
  ASSUME NEW G, 0 \in G, \A n \in Nat : n \in G => n + 1 \in G
  PROVE  \A n \in Nat : n \in G
<1> SUFFICES ASSUME NEW m \in Nat, m \notin G PROVE FALSE
  BY Zenon
<1>0. {k \in Nat : k \notin G} # {} /\ {k \in Nat : k \notin G} \subseteq Nat
  BY Zenon
<1>1. PICK n \in {k \in Nat : k \notin G} : \A y \in {k \in Nat : k \notin G} : n <= y
  BY <1>0, Least, Zenon
<1>2. n # 0
  BY <1>1, Zenon
<1>3. n - 1 \in Nat /\ n - 1 \in G
  BY <1>1, <1>2
<1> QED
  BY <1>1, <1>3

(* Following prev from a node is a sequence of pointers of any length.       *)
LEMMA Follow ==
  ASSUME NEW n \in Nat, NEW tl \in Pointer, NEW pv \in [Threads -> Pointer]
  PROVE  \E f : f = [k \in 1..(n + 1) |->
                       IF k = 1 THEN tl ELSE IF f[k - 1] = NIL THEN NIL ELSE pv[f[k - 1]]]
<1> DEFINE Nxt(p) == IF p = NIL THEN NIL ELSE pv[p]
           Path(m, f) == /\ DOMAIN f = 1..(m + 1) /\ f = [k \in 1..(m + 1) |-> f[k]] /\ f[1] = tl
                         /\ \A k \in 2..(m + 1) : f[k] = Nxt(f[k - 1])
           G == {m \in Nat : \E f : Path(m, f)}
<1> HIDE DEF Nxt
<1>1. 0 \in G
  <2>1. Path(0, [k \in 1..1 |-> tl])
    OBVIOUS
  <2> QED
    BY <2>1, Zenon
<1>2. ASSUME NEW m \in Nat, m \in G PROVE m + 1 \in G
  <2>1. PICK f : Path(m, f)
    BY <1>2, Zenon
  <2> DEFINE h == [k \in 1..(m + 2) |-> IF k = m + 2 THEN Nxt(f[m + 1]) ELSE f[k]]
  <2>2. DOMAIN h = 1..(m + 2) /\ h = [k \in 1..(m + 2) |-> h[k]] /\ h[1] = tl
    BY <2>1
  <2>3. ASSUME NEW k \in 2..(m + 2) PROVE h[k] = Nxt(h[k - 1])
    <3>1. CASE k = m + 2
      BY <3>1
    <3>2. CASE k # m + 2
      <4>1. k \in 2..(m + 1) /\ k - 1 \in 1..(m + 2) /\ k - 1 # m + 2
        BY <3>2
      <4>2. h[k] = f[k] /\ h[k - 1] = f[k - 1]
        BY <3>2, <4>1
      <4>3. f[k] = Nxt(f[k - 1])
        BY <2>1, <4>1, Zenon
      <4> QED
        BY <4>2, <4>3, Zenon
    <3> QED
      BY <3>1, <3>2, Zenon
  <2>4. m + 1 + 1 = m + 2 /\ m + 1 \in Nat
    OBVIOUS
  <2> HIDE DEF h
  <2>5. Path(m + 1, h)
    BY <2>2, <2>3, <2>4, Zenon
  <2> QED
    BY <2>4, <2>5, Zenon
<1> HIDE DEF G
<1>3. n \in G
  BY <1>1, <1>2, Induction, Zenon
<1>4. PICK f : Path(n, f)
  BY <1>3, Zenon DEF G
<1>5. \A k \in 1..(n + 1) :
        f[k] = IF k = 1 THEN tl ELSE IF f[k - 1] = NIL THEN NIL ELSE pv[f[k - 1]]
  <2> SUFFICES ASSUME NEW k \in 1..(n + 1)
               PROVE  f[k] = IF k = 1 THEN tl ELSE IF f[k - 1] = NIL THEN NIL ELSE pv[f[k - 1]]
    BY Zenon
  <2>1. CASE k = 1
    BY <1>4, <2>1, Zenon
  <2>2. CASE k # 1
    <3>1. k \in 2..(n + 1)
      BY <2>2
    <3> QED
      BY <1>4, <2>2, <3>1, Zenon DEF Nxt
  <2> QED
    BY <2>1, <2>2, Zenon
<1>6. f = [k \in 1..(n + 1) |->
             IF k = 1 THEN tl ELSE IF f[k - 1] = NIL THEN NIL ELSE pv[f[k - 1]]]
  BY <1>4, <1>5, Zenon
<1> QED
  BY <1>6, Zenon

LEMMA WalkRises ==
  ASSUME NEW I, NEW L, NEW S, NEW N, NEW F, NEW g, NEW r, NEW n, NEW nt,
         NEW hd, NEW tl, NEW pv \in [Threads -> Pointer], NEW nx \in [Threads -> Pointer],
         Sets(I, L, S, N, F), Ghosts(g, r, n), Linked(N, F, pv, nx, g, r), Ends(I, hd, tl, pv, nx),
         Grouped(I, L, N, F, nt, nx, g),
         NEW m \in Nat, NEW W, Follows(W, m, tl, pv)
  PROVE  Rising(W, m, I, nx, r)
<1>0. I \subseteq N /\ I \subseteq F /\ F \subseteq N /\ N \subseteq Threads /\ NIL \notin Threads
  BY ThreadConstants, Zenon DEF Sets
<1>f. ASSUME NEW k \in 1..m
      PROVE  (W[k] = NIL => W[k + 1] = NIL) /\ (W[k] # NIL => W[k + 1] = pv[W[k]])
  BY Zenon DEF Follows
<1>1. ASSUME NEW p \in I, pv[p] # NIL
      PROVE  pv[p] \in I /\ nx[pv[p]] = p /\ r[p] < r[pv[p]]
  <2>1. pv[p] \in F /\ nx[pv[p]] = p /\ g[pv[p]] = g[p]
    BY <1>0, <1>1, Zenon DEF Linked
  <2>2. nx[pv[p]] # NIL
    BY <1>0, <2>1, Zenon
  <2>3. r[nx[pv[p]]] < r[pv[p]]
    BY <2>1, <2>2, Zenon DEF Linked
  <2>4. pv[p] \in I
    BY <1>0, <2>1, Zenon DEF Grouped
  <2> QED
    BY <2>1, <2>3, <2>4, Zenon
<1>2. ASSUME NEW k \in 1..(m + 1) PROVE W[k] \in I \cup {NIL}
  <2> DEFINE G == {i \in Nat : i <= m => W[i + 1] \in I \cup {NIL}}
  <2>1. 0 \in G
    BY DEF Follows, Ends
  <2>2. ASSUME NEW i \in Nat, i \in G PROVE i + 1 \in G
    <3> SUFFICES ASSUME i + 1 <= m PROVE W[(i + 1) + 1] \in I \cup {NIL}
      OBVIOUS
    <3>1. W[i + 1] \in I \cup {NIL} /\ i + 1 \in 1..m
      BY <2>2
    <3> QED
      BY <1>1, <1>f, <3>1, Zenon
  <2> HIDE DEF G
  <2>3. \A i \in Nat : i \in G
    BY <2>1, <2>2, Induction, Zenon
  <2>4. k - 1 \in Nat /\ k - 1 <= m /\ (k - 1) + 1 = k
    OBVIOUS
  <2>5. k - 1 \in G
    BY <2>3, <2>4, Zenon
  <2> QED
    BY <2>4, <2>5, Zenon DEF G
<1>3. ASSUME NEW k \in 1..m, W[k + 1] # NIL
      PROVE  W[k] # NIL /\ nx[W[k + 1]] = W[k] /\ r[W[k]] < r[W[k + 1]]
  <2>1. W[k] # NIL /\ W[k + 1] = pv[W[k]] /\ k \in 1..(m + 1)
    BY <1>3, <1>f
  <2>2. W[k] \in I
    BY <1>2, <2>1, Zenon
  <2> QED
    BY <1>1, <1>3, <2>1, <2>2, Zenon
<1>r. \A p \in Threads : r[p] \in Nat
  BY Zenon DEF Ghosts
<1>4. ASSUME NEW j \in 1..(m + 1), NEW k \in 1..(m + 1), j < k, W[k] # NIL
      PROVE  W[j] # NIL /\ r[W[j]] < r[W[k]]
  <2> DEFINE Below(i) == j + (i + 1) <= m + 1 /\ W[j + (i + 1)] # NIL
                           => W[j] # NIL /\ r[W[j]] < r[W[j + (i + 1)]]
             G == {i \in Nat : Below(i)}
  <2>1. 0 \in G
    <3> SUFFICES ASSUME j + 1 <= m + 1, W[j + 1] # NIL
                 PROVE  W[j] # NIL /\ r[W[j]] < r[W[j + 1]]
      OBVIOUS
    <3>1. j \in 1..m
      OBVIOUS
    <3> QED
      BY <1>3, <3>1, Zenon
  <2>2. ASSUME NEW i \in Nat, i \in G PROVE i + 1 \in G
    <3>0. j + ((i + 1) + 1) = (j + (i + 1)) + 1 /\ i + 1 \in Nat
      OBVIOUS
    <3> DEFINE x == j + (i + 1)
    <3>a. Below(i)
      BY <2>2, Zenon
    <3> HIDE DEF x
    <3> SUFFICES ASSUME x + 1 <= m + 1, W[x + 1] # NIL
                 PROVE  W[j] # NIL /\ r[W[j]] < r[W[x + 1]]
      BY <3>0, Zenon DEF x
    <3>1. x \in 1..m /\ x <= m + 1
      BY DEF x
    <3>2. W[x] # NIL /\ r[W[x]] < r[W[x + 1]]
      BY <1>3, <3>1, Zenon
    <3>3. W[j] # NIL /\ r[W[j]] < r[W[x]]
      BY <3>a, <3>1, <3>2, ZenonT(40) DEF x
    <3>4. x \in 1..(m + 1) /\ x + 1 \in 1..(m + 1)
      BY <3>1
    <3>5. W[j] \in Threads /\ W[x] \in Threads /\ W[x + 1] \in Threads
      BY <1>0, <1>2, <3>2, <3>3, <3>4, ZenonT(40)
    <3>6. r[W[j]] \in Nat /\ r[W[x]] \in Nat /\ r[W[x + 1]] \in Nat
      BY <1>r, <3>5, Zenon
    <3> QED
      BY <3>2, <3>3, <3>6
  <2> HIDE DEF G
  <2>3. \A i \in Nat : i \in G
    BY <2>1, <2>2, Induction, Zenon
  <2>4. k - j - 1 \in Nat /\ j + ((k - j - 1) + 1) = k /\ k <= m + 1
    BY <1>4
  <2>5. k - j - 1 \in G
    BY <2>3, <2>4, Zenon
  <2>6. Below(k - j - 1)
    BY <2>5, Zenon DEF G
  <2> QED
    BY <1>4, <2>4, <2>6, Zenon
<1> QED
  BY <1>2, <1>3, <1>4, Zenon DEF Rising

(* The visited nodes are the end of the list.                                *)
LEMMA WalkSplits ==
  ASSUME NEW I, NEW L, NEW S, NEW N, NEW F, NEW g, NEW r, NEW n, NEW nt,
         NEW hd, NEW tl, NEW pv \in [Threads -> Pointer], NEW nx \in [Threads -> Pointer],
         Sets(I, L, S, N, F), Ghosts(g, r, n), Linked(N, F, pv, nx, g, r), Ends(I, hd, tl, pv, nx),
         Grouped(I, L, N, F, nt, nx, g),
         NEW m \in Nat, NEW W, Follows(W, m, tl, pv), NEW last \in 1..m
  PROVE  Split(I, {W[k] : k \in 1..last} \ {NIL}, W[last + 1], hd, tl, pv, nx)
<1> DEFINE V == {W[k] : k \in 1..last} \ {NIL}
           rest == W[last + 1]
<1>0. NIL \notin I
  BY ThreadConstants, Zenon DEF Sets
<1>r. \A p \in I : r[p] \in Nat
  BY Zenon DEF Ghosts, Sets
<1>w. Rising(W, m, I, nx, r)
  BY WalkRises, Zenon
<1>1. ASSUME NEW k \in 1..(m + 1) PROVE W[k] \in I \cup {NIL}
  BY <1>w, Zenon DEF Rising
<1>2. ASSUME NEW k \in 1..m, W[k + 1] # NIL PROVE W[k] # NIL /\ nx[W[k + 1]] = W[k]
  BY <1>2, <1>w, Zenon DEF Rising
<1>3. ASSUME NEW j \in 1..(m + 1), NEW k \in 1..(m + 1), j < k, W[k] # NIL
      PROVE  W[j] # NIL /\ r[W[j]] < r[W[k]]
  BY <1>3, <1>w, Zenon DEF Rising
<1>f. ASSUME NEW k \in 1..m, W[k] # NIL PROVE W[k + 1] = pv[W[k]]
  BY <1>f, Zenon DEF Follows
<1>4. \A k \in 1..last : k \in 1..m /\ k \in 1..(m + 1) /\ (W[k] # NIL => W[k] \in V)
  OBVIOUS
<1>5. last + 1 \in 1..(m + 1) /\ 1 \in 1..last /\ last \in 1..last /\ W[1] = tl
  BY DEF Follows
<1>v. ASSUME NEW p \in V PROVE \E k \in 1..last : p = W[k] /\ p # NIL
  BY Zenon
<1>6. V \subseteq I
  BY <1>1, <1>4, <1>v, Zenon
<1> HIDE DEF V, rest
<1>7. rest \in (I \ V) \cup {NIL}
  <2> SUFFICES ASSUME rest # NIL, rest \in V PROVE FALSE
    BY <1>1, <1>5, Zenon DEF rest
  <2>1. PICK k \in 1..last : rest = W[k]
    BY <1>v, Zenon
  <2>2. k < last + 1 /\ k \in 1..(m + 1)
    BY <1>4
  <2>3. r[W[k]] < r[W[last + 1]] /\ W[k] = W[last + 1]
    BY <1>3, <1>5, <2>1, <2>2, Zenon DEF rest
  <2>4. W[k] \in I
    BY <1>1, <2>1, <2>2, Zenon
  <2> QED
    BY <1>r, <2>3, <2>4
<1>8. tl \in V \cup {NIL} /\ (tl = NIL => V = {})
  <2>1. tl \in V \cup {NIL}
    BY <1>4, <1>5, Zenon
  <2>2. ASSUME tl = NIL, NEW p \in V PROVE FALSE
    <3>1. PICK k \in 1..last : p = W[k] /\ p # NIL
      BY <1>v, Zenon
    <3>2. k # 1
      BY <1>5, <2>2, <3>1, Zenon
    <3>3. 1 < k /\ 1 \in 1..(m + 1) /\ k \in 1..(m + 1)
      BY <1>4, <1>5, <3>2
    <3> QED
      BY <1>3, <1>5, <2>2, <3>1, <3>3, Zenon
  <2> QED
    BY <2>1, <2>2, Zenon
<1>9. ASSUME NEW p \in V PROVE pv[p] \in V \cup {rest} /\ nx[p] \in V \cup {NIL}
  <2>1. PICK k \in 1..last : p = W[k] /\ p # NIL
    BY <1>v, Zenon
  <2>2. k \in 1..m /\ k \in 1..(m + 1) /\ k + 1 \in 1..(m + 1) /\ W[k + 1] = pv[p]
    BY <1>4, <1>f, <2>1
  <2>3. pv[p] \in V \cup {rest}
    <3>1. CASE k = last
      BY <2>2, <3>1, Zenon DEF rest
    <3>2. CASE k # last /\ W[k + 1] # NIL
      <4>1. k + 1 \in 1..last
        BY <3>2
      <4> QED
        BY <1>4, <2>2, <3>2, <4>1, Zenon
    <3>3. CASE k # last /\ W[k + 1] = NIL
      <4>1. k + 1 < last + 1
        BY <3>3
      <4>2. W[last + 1] = NIL
        BY <1>3, <1>5, <2>2, <3>3, <4>1, Zenon
      <4> QED
        BY <2>2, <3>3, <4>2, Zenon DEF rest
    <3> QED
      BY <3>1, <3>2, <3>3, Zenon
  <2>4. nx[p] \in V \cup {NIL}
    <3>1. CASE k = 1
      <4>1. p = tl /\ p \in I
        BY <1>5, <1>6, <2>1, <3>1, Zenon
      <4>2. nx[p] = NIL
        BY <4>1, Zenon DEF Ends
      <4> QED
        BY <4>2, Zenon
    <3>2. CASE k # 1
      <4>1. k - 1 \in 1..m /\ k - 1 \in 1..last /\ (k - 1) + 1 = k
        BY <3>2
      <4>2. W[k - 1] # NIL /\ nx[p] = W[k - 1]
        BY <1>2, <2>1, <4>1, Zenon
      <4> QED
        BY <1>4, <4>1, <4>2, Zenon
    <3> QED
      BY <3>1, <3>2, Zenon
  <2> QED
    BY <2>3, <2>4, Zenon
<1>10. rest # NIL => nx[rest] \in V
  BY <1>2, <1>4, <1>5, Zenon DEF rest
<1>11. rest = NIL => hd \in V \cup {NIL}
  <2> SUFFICES ASSUME rest = NIL, hd # NIL PROVE hd \in V
    BY Zenon
  <2>1. tl # NIL
    BY Zenon DEF Ends
  <2> DEFINE E == {k \in Nat : k \in 1..(last + 1) /\ W[k] = NIL}
  <2>2. last + 1 \in E
    BY <1>5 DEF rest
  <2>3. PICK k \in E : \A j \in E : k <= j
    <3>1. E \subseteq Nat /\ E # {}
      BY <2>2, Zenon
    <3> HIDE DEF E
    <3> QED
      BY <3>1, Least, Zenon
  <2>4. k # 1 /\ k \in 1..(last + 1) /\ W[k] = NIL
    BY <1>5, <2>1, <2>3, Zenon
  <2>5. k - 1 \in 1..last /\ (k - 1) + 1 = k /\ k - 1 \in Nat /\ k - 1 \in 1..(last + 1)
    BY <2>4
  <2>6. W[k - 1] # NIL
    <3> SUFFICES ASSUME W[k - 1] = NIL PROVE FALSE
      BY Zenon
    <3>1. k - 1 \in E
      BY <2>5, Zenon
    <3>2. k <= k - 1 /\ k \in Nat
      BY <2>3, <3>1, Zenon
    <3> QED
      BY <3>2
  <2>7. pv[W[k - 1]] = NIL /\ W[k - 1] \in V
    BY <1>4, <1>f, <2>4, <2>5, <2>6, Zenon
  <2>8. W[k - 1] \in I
    BY <1>6, <2>7, Zenon
  <2>9. W[k - 1] = hd
    BY <2>7, <2>8, Zenon DEF Ends
  <2> QED
    BY <2>7, <2>9, Zenon
<1>12. Split(I, V, rest, hd, tl, pv, nx)
  BY <1>6, <1>7, <1>8, <1>9, <1>10, <1>11, Zenon DEF Split
<1> QED
  BY <1>12, Zenon DEF V, rest

LEMMA SameLists ==
  ASSUME NEW I, NEW L, NEW S, NEW F, NEW A, NEW nt, NEW pv, NEW nx, NEW hd, NEW tl, NEW fst,
         ListsOf(I, L, S, F, A, nt, pv, nx, hd, tl, fst),
         NEW A2, NEW fst2, SameFirst(A, fst, A2, fst2),
         NEW nt2, NEW pv2, NEW nx2, SameIn(I \cup L \cup S, nt, pv, nx, nt2, pv2, nx2)
  PROVE  ListsOf(I, L, S, F, A2, nt2, pv2, nx2, hd, tl, fst2)
<1>0. /\ A2 \subseteq A /\ A \subseteq Threads /\ \A u \in A \ A2 : fst[u] = NIL
      /\ \A u \in A2 : fst2[u] = fst[u]
  BY Zenon DEF SameFirst
<1> DEFINE N == I \cup L \cup S
<1> HIDE DEF N
<1>1. PICK g, r, n :
        /\ Sets(I, L, S, N, F) /\ Ghosts(g, r, n)
        /\ Linked(N, F, pv, nx, g, r) /\ Ends(I, hd, tl, pv, nx)
        /\ Grouped(I, L, N, F, nt, nx, g) /\ Led(S, F, A, fst, g, r)
  BY Zenon DEF ListsOf, Built, N
<1>2. /\ \A p \in N : nt2[p] = nt[p] /\ pv2[p] = pv[p] /\ nx2[p] = nx[p]
      /\ F \subseteq N /\ I \subseteq N /\ L \subseteq N
  BY <1>1, Zenon DEF Sets, SameIn, N
<1>3. Linked(N, F, pv2, nx2, g, r)
  BY <1>1, <1>2 DEF Linked
<1>4. Ends(I, hd, tl, pv2, nx2)
  BY <1>1, <1>2, Zenon DEF Ends
<1>5. Grouped(I, L, N, F, nt2, nx2, g)
  <2>1. /\ \A p \in N : p \in I <=> g[p] = {}
        /\ \A p \in L : nt2[p] \in Threads /\ g[p] = {nt2[p]}
        /\ \A p \in N \ F : g[p] = {NIL}
    BY <1>1, <1>2, Zenon DEF Grouped
  <2>2. ASSUME NEW p \in F, NEW q \in F, g[p] = g[q], g[p] # {NIL}, nx2[p] = NIL, nx2[q] = NIL
        PROVE  p = q
    <3>1. nx[p] = NIL /\ nx[q] = NIL
      BY <1>2, <2>2, Zenon
    <3> QED
      BY <1>1, <2>2, <3>1, Zenon DEF Grouped
  <2>3. ASSUME NEW p \in F, g[p] = {NIL} PROVE nx2[p] # NIL
    <3>1. nx[p] # NIL
      BY <1>1, <2>3, Zenon DEF Grouped
    <3> QED
      BY <1>2, <3>1, Zenon
  <2> QED
    BY <2>1, <2>2, <2>3, Zenon DEF Grouped
<1>6. Led(S, F, A2, fst2, g, r)
  <2>1. ASSUME NEW p \in S, NEW u \in Threads, g[p] = {u}
        PROVE  u \in A2 /\ fst2[u] # NIL /\ r[fst2[u]] <= r[p]
    <3>1. u \in A /\ fst[u] # NIL /\ r[fst[u]] <= r[p]
      BY <1>1, <2>1, Zenon DEF Led
    <3> QED
      BY <1>0, <3>1, Zenon
  <2>2. ASSUME NEW u \in A2, fst2[u] # NIL PROVE fst2[u] \in S /\ fst2[u] \in F /\ g[fst2[u]] = {u}
    <3>1. u \in A /\ fst2[u] = fst[u]
      BY <1>0, Zenon
    <3> QED
      BY <1>1, <2>2, <3>1, Zenon DEF Led
  <2> QED
    BY <2>1, <2>2, Zenon DEF Led
<1> QED
  BY <1>1, <1>3, <1>4, <1>5, <1>6, Zenon DEF ListsOf, Built, N

(* The counts of finite sets of threads.                                     *)
LEMMA Cards ==
  ASSUME NEW X \in SUBSET Threads
  PROVE  /\ Cardinality(X) \in Nat /\ (Cardinality(X) = 0 <=> X = {})
         /\ \A t \in Threads \ X : Cardinality(X \cup {t}) = Cardinality(X) + 1
         /\ \A t \in X : Cardinality(X \ {t}) = Cardinality(X) - 1
<1>1. IsFiniteSet(X)
  BY ThreadConstants, FS_Subset, Zenon
<1>2. Cardinality(X) \in Nat /\ (Cardinality(X) = 0 <=> X = {})
  BY <1>1, FS_CardinalityType, FS_EmptySet, Zenon
<1>3. ASSUME NEW t \in Threads \ X PROVE Cardinality(X \cup {t}) = Cardinality(X) + 1
  BY <1>1, FS_AddElement, Zenon
<1>4. ASSUME NEW t \in X PROVE Cardinality(X \ {t}) = Cardinality(X) - 1
  BY <1>1, FS_RemoveElement, Zenon
<1> QED
  BY <1>2, <1>3, <1>4, Zenon

-----------------------------------------------------------------------------
(* The operations on the lists, with the groups and ranks chosen for them.   *)
LEMMA EnqueueLists ==
  ASSUME NEW I, NEW L, NEW S, NEW F, NEW A, NEW nt, NEW fst, NEW hd \in Pointer, NEW tl \in Pointer,
         NEW pv \in [Threads -> Pointer], NEW nx \in [Threads -> Pointer],
         ListsOf(I, L, S, F, A, nt, pv, nx, hd, tl, fst),
         NEW t \in Threads, t \notin I \cup L \cup S, pv[t] = NIL,
         NEW pv2, pv2 = [p \in Threads |-> IF p = hd /\ tl # NIL THEN t ELSE pv[p]],
         NEW nx2, nx2 = [nx EXCEPT ![t] = hd]
  PROVE  ListsOf(I \cup {t}, L, S, F \cup {t}, A, nt, pv2, nx2, t, IF tl = NIL THEN t ELSE tl, fst)
<1> DEFINE N == I \cup L \cup S
<1>n. (I \cup {t}) \cup L \cup S = N \cup {t}
  BY Zenon
<1> HIDE DEF N
<1>1. PICK g, r, n : Built(I, L, S, N, F, A, nt, pv, nx, hd, tl, fst, g, r, n)
  BY Zenon DEF ListsOf, N
<1>2. PICK g2, r2 : Enqueues(t, hd, tl, pv, nx, g, r, n, pv2, nx2, g2, r2)
  BY Zenon DEF Enqueues
<1>3. Built(I \cup {t}, L, S, N \cup {t}, F \cup {t}, A, nt, pv2, nx2,
            t, IF tl = NIL THEN t ELSE tl, fst, g2, r2, n + 1)
  <2>1. t \notin N
    BY Zenon DEF N
  <2> QED
    BY <1>1, <1>2, <2>1, EnqueueLinks, Zenon
<1> QED
  BY <1>3, <1>n, Zenon DEF ListsOf

LEMMA LeaveLists ==
  ASSUME NEW I, NEW L, NEW S, NEW F, NEW A, NEW nt, NEW fst, NEW hd \in Pointer, NEW tl \in Pointer,
         NEW pv \in [Threads -> Pointer], NEW nx \in [Threads -> Pointer],
         ListsOf(I, L, S, F, A, nt, pv, nx, hd, tl, fst), NEW t \in I \cup L,
         NEW hd2, NEW tl2, NEW pv2, NEW nx2, Unlinks(t, hd, tl, pv, nx, hd2, tl2, pv2, nx2)
  PROVE  ListsOf(I \ {t}, L \ {t}, S, F \ {t}, A, nt, pv2, nx2, hd2, tl2, fst)
<1> DEFINE N == I \cup L \cup S
<1> HIDE DEF N
<1>1. PICK g, r, n : Built(I, L, S, N, F, A, nt, pv, nx, hd, tl, fst, g, r, n)
  BY Zenon DEF ListsOf, N
<1>3. Built(I \ {t}, L \ {t}, S, N \ {t}, F \ {t}, A, nt, pv2, nx2, hd2, tl2, fst, g, r, n)
  BY <1>1, LeaveLinks, Zenon
<1>4. (I \ {t}) \cup (L \ {t}) \cup S = N \ {t}
  BY <1>1, Zenon DEF Built, Sets, N
<1>5. Built(I \ {t}, L \ {t}, S, (I \ {t}) \cup (L \ {t}) \cup S, F \ {t}, A, nt,
            pv2, nx2, hd2, tl2, fst, g, r, n)
  BY <1>3, <1>4, Zenon
<1> QED
  BY <1>5, Zenon DEF ListsOf

LEMMA ReleaseLists ==
  ASSUME NEW I, NEW L, NEW S, NEW F, NEW A, NEW nt, NEW fst, NEW hd, NEW tl,
         NEW pv \in [Threads -> Pointer], NEW nx \in [Threads -> Pointer],
         ListsOf(I, L, S, F, A, nt, pv, nx, hd, tl, fst),
         NEW t \in Threads, t \in A, fst[t] # NIL, \A p \in L : nt[p] # t
  PROVE  /\ fst[t] \in S /\ fst[t] \in F /\ nx[fst[t]] = NIL
         /\ ListsOf(I, L, S, F \ {fst[t]}, A \ {t}, nt, pv, nx, hd, tl, fst)
<1> DEFINE N == I \cup L \cup S
<1> HIDE DEF N
<1>1. PICK g, r, n : Built(I, L, S, N, F, A, nt, pv, nx, hd, tl, fst, g, r, n)
  BY Zenon DEF ListsOf, N
<1>2. PICK g2 : Opens(t, g, g2)
  BY Zenon DEF Opens
<1>3. /\ fst[t] \in S /\ fst[t] \in F /\ nx[fst[t]] = NIL
      /\ Built(I, L, S, N, F \ {fst[t]}, A \ {t}, nt, pv, nx, hd, tl, fst, g2, r, n)
  BY <1>1, <1>2, ReleaseLinks, Zenon
<1> QED
  BY <1>3, Zenon DEF ListsOf, N

LEMMA HandoverLists ==
  ASSUME NEW I, NEW L, NEW S, NEW F, NEW A, NEW nt, NEW fst, NEW hd, NEW tl, NEW pv, NEW nx, NEW t,
         HandsOver(I, L, S, F, A, nt, pv, nx, hd, tl, fst, t)
  PROVE  HandedOver(I, L, S, F, A, nt, pv, nx, hd, tl, fst, t)
<1> DEFINE N == I \cup L \cup S
<1>t. /\ t \in N \ F /\ A \subseteq Threads
      /\ pv \in [Threads -> Pointer] /\ nx \in [Threads -> Pointer]
  BY Zenon DEF HandsOver
<1> HIDE DEF N
<1>1. PICK g, r, n : Built(I, L, S, N, F, A, nt, pv, nx, hd, tl, fst, g, r, n)
  BY Zenon DEF HandsOver, ListsOf, N
<1>2. /\ pv[t] # NIL => pv[t] \in S /\ pv[t] \in F /\ pv[t] # t /\ nx[pv[t]] = t
      /\ Built(I, L, S \ {t}, N \ {t}, F \ {pv[t]}, A, nt, pv, nx, hd, tl, fst, g, r, n)
  BY <1>1, <1>t, HandoverLinks, ZenonT(40)
<1>3. I \cup L \cup (S \ {t}) = N \ {t}
  BY <1>1, <1>t, Zenon DEF Built, Sets, N
<1>4. Built(I, L, S \ {t}, I \cup L \cup (S \ {t}), F \ {pv[t]}, A, nt, pv, nx, hd, tl, fst,
            g, r, n)
  BY <1>2, <1>3, Zenon
<1> QED
  BY <1>2, <1>4, Zenon DEF HandedOver, ListsOf

LEMMA SplitLists ==
  ASSUME NEW I, NEW L, NEW S, NEW F, NEW A, NEW nt, NEW fst, NEW hd, NEW tl, NEW pv, NEW nx,
         Pointers(nt, pv, nx, hd, tl, fst), ListsOf(I, L, S, F, A, nt, pv, nx, hd, tl, fst),
         A \subseteq Threads, NEW t \in Threads, t \notin A, \A p \in L : nt[p] # t,
         NEW W, NEW m, NEW last, NEW V, NEW rest, NEW hits, NEW f, NEW i,
         Visits(W, m, last, V, rest, hits, f, i, tl, pv),
         NEW hd2, NEW nt2, NEW pv2, NEW nx2, NEW fst2,
         Marks(t, V, rest, hits, f, hd, nt, pv, nx, fst, hd2, nt2, pv2, nx2, fst2)
  PROVE  /\ V \subseteq I /\ rest \in (I \ V) \cup {NIL}
         /\ ListsOf(I \ V, L \cup (V \ hits), S \cup hits, F, A \cup {t}, nt2, pv2, nx2, hd2, rest, fst2)
<1>v. /\ Follows(W, m, tl, pv) /\ m \in Nat /\ last \in 1..m /\ i \in 1..m
      /\ V = {W[k] : k \in 1..last} \ {NIL} /\ rest = W[last + 1] /\ hits \subseteq V
      /\ f # NIL => f \in hits
      /\ hits # {} => f # NIL /\ f = W[i] /\ \A k \in 1..last : W[k] \in hits => i <= k
  BY Zenon DEF Visits
<1>p. /\ nt \in [Threads -> Pointer] /\ fst \in [Threads -> Pointer]
      /\ pv \in [Threads -> Pointer] /\ nx \in [Threads -> Pointer]
  BY Zenon DEF Pointers
<1> DEFINE N == I \cup L \cup S
<1> HIDE DEF N
<1>1. PICK g, r, n : Built(I, L, S, N, F, A, nt, pv, nx, hd, tl, fst, g, r, n)
  BY Zenon DEF ListsOf, N
<1>2. Split(I, V, rest, hd, tl, pv, nx)
  BY <1>1, <1>p, <1>v, WalkSplits, Zenon DEF Built
<1>3. \A p \in N : g[p] # {t}
  <2> SUFFICES ASSUME NEW p \in N, g[p] = {t} PROVE FALSE
    BY Zenon
  <2>1. p \notin I
    BY <1>1, Zenon DEF Built, Grouped
  <2>2. p \notin L
    <3> SUFFICES ASSUME p \in L PROVE FALSE
      BY Zenon
    <3>1. g[p] = {nt[p]} /\ nt[p] # t
      BY <1>1, Zenon DEF Built, Grouped
    <3> QED
      BY <3>1, Zenon
  <2>3. p \in S
    BY <2>1, <2>2, Zenon DEF N
  <2> QED
    BY <1>1, <2>3, Zenon DEF Built, Led
<1>4. ASSUME NEW p \in hits PROVE f # NIL /\ r[f] <= r[p]
  <2>1. Rising(W, m, I, nx, r)
    BY <1>1, <1>p, <1>v, WalkRises, Zenon DEF Built
  <2>2. PICK k \in 1..last : p = W[k] /\ p # NIL
    BY <1>v, Zenon
  <2>3. f # NIL /\ f = W[i] /\ i <= k /\ i \in 1..(m + 1) /\ k \in 1..(m + 1)
    BY <1>v, <2>2
  <2>4. i = k \/ r[W[i]] < r[W[k]]
    BY <2>1, <2>2, <2>3 DEF Rising
  <2>5. f \in Threads /\ p \in Threads
    BY <1>1, <1>2, <1>v, <2>3, Zenon DEF Built, Sets, Split
  <2>6. r[f] \in Nat /\ r[p] \in Nat
    BY <1>1, <2>5, Zenon DEF Built, Ghosts
  <2> QED
    BY <2>2, <2>3, <2>4, <2>6
<1>5. PICK g2 : Splits(t, V, rest, hits, f, hd, nt, pv, nx, fst, g, hd2, nt2, pv2, nx2, fst2, g2)
  BY Zenon DEF Marks, Splits
<1>6. Built(I \ V, L \cup (V \ hits), S \cup hits, N, F, A \cup {t}, nt2, pv2, nx2,
            hd2, rest, fst2, g2, r, n)
  <2>1. Unused(N, g, t) /\ Leads(f, hits, r)
    BY <1>3, <1>4, <1>v, Zenon DEF Unused, Leads
  <2>2. Parts(I, L, S, N, F, A, nt, pv, nx, hd, tl, fst, g, r, n, V, rest, hits, f, t)
    BY <1>1, <1>2, <1>v, <2>1, Zenon DEF Parts
  <2> QED
    BY <1>5, <2>2, SplitLinks, ZenonT(40)
<1>7. (I \ V) \cup (L \cup (V \ hits)) \cup (S \cup hits) = N
  BY <1>2, <1>v, Zenon DEF N, Split
<1>8. V \subseteq I /\ rest \in (I \ V) \cup {NIL}
  BY <1>2, Zenon DEF Split
<1> QED
  BY <1>6, <1>7, <1>8, Zenon DEF ListsOf

-----------------------------------------------------------------------------
(* One owner, types and nodes.                                               *)

(* A caller that keeps the rules goes on keeping them behind each call.      *)
LEMMA NextCall ==
  ASSUME NEW s \in Seq(Calls), NEW h \in {0, 1}, Disciplined(s, h), s # << >>
  PROVE  /\ Tail(s) \in Seq(Calls) /\ Head(s) \in Calls
         /\ Head(s) = "lock" => h = 0 /\ Disciplined(Tail(s), 1)
         /\ Head(s) = "unlock" => h = 1 /\ Disciplined(Tail(s), 0)
         /\ Head(s) \in Waits => h = 1 /\ Disciplined(Tail(s), 1)
         /\ Head(s) \in {"signal", "broadcast"} => Disciplined(Tail(s), h)
<1>1. PICK o \in [1..(Len(s) + 1) -> {0, 1}] :
        /\ o[1] = h
        /\ \A i \in 1..Len(s) :
             /\ s[i] = "lock" => o[i] = 0 /\ o[i + 1] = 1
             /\ s[i] = "unlock" => o[i] = 1 /\ o[i + 1] = 0
             /\ s[i] \in Waits => o[i] = 1 /\ o[i + 1] = 1
             /\ s[i] \in {"signal", "broadcast"} => o[i] = o[i + 1]
  BY Zenon DEF Disciplined
<1>2. /\ Len(s) \in Nat /\ Len(s) >= 1 /\ Tail(s) \in Seq(Calls) /\ Head(s) \in Calls
      /\ Head(s) = s[1] /\ Len(Tail(s)) = Len(s) - 1
      /\ \A i \in 1..(Len(s) - 1) : Tail(s)[i] = s[i + 1]
  OBVIOUS
<1> DEFINE u == [i \in 1..(Len(Tail(s)) + 1) |-> o[i + 1]]
<1>3. u \in [1..(Len(Tail(s)) + 1) -> {0, 1}] /\ u[1] = o[2]
      /\ \A i \in 1..Len(s) : u[i] = o[i + 1]
  BY <1>2
<1>4. ASSUME NEW i \in 1..Len(Tail(s))
      PROVE  /\ Tail(s)[i] = "lock" => u[i] = 0 /\ u[i + 1] = 1
             /\ Tail(s)[i] = "unlock" => u[i] = 1 /\ u[i + 1] = 0
             /\ Tail(s)[i] \in Waits => u[i] = 1 /\ u[i + 1] = 1
             /\ Tail(s)[i] \in {"signal", "broadcast"} => u[i] = u[i + 1]
  <2>1. i + 1 \in 1..Len(s) /\ Tail(s)[i] = s[i + 1] /\ u[i] = o[i + 1] /\ u[i + 1] = o[(i + 1) + 1]
    BY <1>2, <1>3
  <2> QED
    BY <1>1, <2>1, Zenon
<1>5. Disciplined(Tail(s), o[2])
  BY <1>3, <1>4, ZenonT(30) DEF Disciplined
<1>6. QED
  BY <1>1, <1>2, <1>5

-----------------------------------------------------------------------------
LEMMA InitIInv == Init => IInv
<1> SUFFICES ASSUME Init PROVE IInv
  BY Zenon
<1>1. Types /\ MutualExclusion
  BY CondConstants, ThreadConstants DEF Init, Types, MutualExclusion, Labels
<1>2. ASSUME NEW t \in Threads PROVE ThreadOK(t)
  BY CondConstants, ThreadConstants, Zenon DEF Init, ThreadOK, Held, Locking, Apart, Inside,
     Signaling
<1>3. QED
  BY <1>1, <1>2, Zenon DEF IInv

LEMMA OthersKept ==
  ASSUME IInv, NEW t \in Threads, Alone(t), ThreadOK(t)', MutualExclusion'
  PROVE  IInv'
<1>1. ASSUME NEW s \in Threads, s # t PROVE ThreadOK(s)'
  <2>1. /\ pc'[s] = pc[s] /\ script'[s] = script[s] /\ reg'[s] = reg[s]
        /\ (s \in holds') <=> (s \in holds)
    <3>1. s \in Threads \ {t}
      BY <1>1, Zenon
    <3> QED
      BY <3>1, Zenon DEF Alone
  <2>2. Held(s)' = Held(s)
    BY <2>1, Zenon DEF Held
  <2>3. ThreadOK(s)
    BY Zenon DEF IInv
  <2> QED
    BY <2>1, <2>2, <2>3, Zenon DEF ThreadOK, Calling
<1>2. QED
  BY <1>1, Zenon DEF IInv, Alone

(* A try to take the mutex, by a call of pthread_mutex_lock or behind a      *)
(* wait, keeps IInv.                                                         *)
LEMMA Acquiring ==
  ASSUME IInv, NEW t \in Threads, t \notin holds, pc[t] \in Labels,
         NEW label \in {"trylock", "look"}, Acquired(t) \/ Busy(t, label),
         \/ Calling(t, {"lock"}) /\ Disciplined(script[t], 0)
         \/ Calling(t, Waits) /\ Disciplined(script[t], 1)
  PROVE  IInv'
<1>0. Types /\ MutualExclusion /\ script[t] \in Seq(Calls) /\ script[t] # << >>
  BY Zenon DEF IInv, Types, Calling
<1>1. CASE Acquired(t) /\ Calling(t, {"lock"})
  <2>1. /\ pc' = [pc EXCEPT ![t] = "call"] /\ script' = [script EXCEPT ![t] = Tail(@)]
        /\ lock = 0 /\ lock' = 1 /\ holds' = holds \cup {t} /\ reg' = reg
    BY <1>1, Zenon DEF Acquired, Return, Goto, Free
  <2>2. Tail(script[t]) \in Seq(Calls) /\ Disciplined(Tail(script[t]), 1)
    <3>1. Head(script[t]) = "lock" /\ Head(script[t]) \notin Waits
      BY <1>1, Zenon DEF Calling, Waits
    <3>2. Disciplined(script[t], 0)
      BY <1>1, <3>1, Zenon DEF Calling
    <3> QED
      BY <1>0, <3>1, <3>2, NextCall, Zenon
  <2>3. Alone(t)
    BY <1>0, <2>1, <2>2 DEF Alone, Types, Labels
  <2>4. ThreadOK(t)'
    BY <1>0, <2>1, <2>2, Zenon DEF Types, ThreadOK, Held, Locking, Apart, Inside, Signaling
  <2>5. MutualExclusion'
    BY <1>0, <2>1 DEF MutualExclusion
  <2> QED
    BY <2>3, <2>4, <2>5, OthersKept, Zenon
<1>2. CASE Acquired(t) /\ ~Calling(t, {"lock"})
  <2>1. /\ pc' = [pc EXCEPT ![t] = "handoff"] /\ script' = script
        /\ lock = 0 /\ lock' = 1 /\ holds' = holds \cup {t} /\ reg' = reg
    BY <1>2, Zenon DEF Acquired, Goto, Free
  <2>2. Calling(t, Waits) /\ Disciplined(script[t], 1)
    BY <1>2, Zenon
  <2>3. Alone(t)
    BY <1>0, <2>1 DEF Alone, Types, Labels
  <2>4. ThreadOK(t)'
    BY <1>0, <2>1, <2>2, Zenon DEF Types, ThreadOK, Calling, Locking, Apart, Inside, Signaling
  <2>5. MutualExclusion'
    BY <1>0, <2>1 DEF MutualExclusion
  <2> QED
    BY <2>3, <2>4, <2>5, OthersKept, Zenon
<1>3. CASE Busy(t, label)
  <2>1. /\ pc' = [pc EXCEPT ![t] = label] /\ script' = script
        /\ lock' = lock /\ holds' = holds /\ reg' = reg
    BY <1>3, Zenon DEF Busy, Goto, mutex
  <2>2. Alone(t)
    BY <1>0, <2>1, Zenon DEF Alone, Types, Labels
  <2>3. ThreadOK(t)'
    BY <1>0, <2>1, Zenon DEF Types, ThreadOK, Calling, Locking, Apart, Inside, Signaling
  <2>4. MutualExclusion'
    BY <1>0, <2>1, Zenon DEF MutualExclusion
  <2> QED
    BY <2>2, <2>3, <2>4, OthersKept, Zenon
<1>4. QED
  BY <1>1, <1>2, <1>3, Zenon

(* Every step of the mutex and the condition variable keeps IInv.            *)
LEMMA RunIInv ==
  ASSUME IInv, NEW t \in Threads, Run(t) \/ Timeout(t)
  PROVE  IInv'
<1> DEFINE Now == ThreadOK(t)' /\ MutualExclusion'
<1>0. /\ Types /\ MutualExclusion /\ ThreadOK(t)
      /\ pc[t] \in Labels /\ script[t] \in Seq(Calls) /\ Held(t) \in {0, 1}
  BY Zenon DEF IInv, Types, Held
<1>c. ASSUME script[t] # << >>, NEW h \in {0, 1}, Disciplined(script[t], h)
      PROVE  /\ Tail(script[t]) \in Seq(Calls) /\ Head(script[t]) \in Calls
             /\ Head(script[t]) = "lock" => h = 0 /\ Disciplined(Tail(script[t]), 1)
             /\ Head(script[t]) = "unlock" => h = 1 /\ Disciplined(Tail(script[t]), 0)
             /\ Head(script[t]) \in Waits => h = 1 /\ Disciplined(Tail(script[t]), 1)
             /\ Head(script[t]) \in {"signal", "broadcast"} => Disciplined(Tail(script[t]), h)
  BY <1>0, <1>c, NextCall, Zenon
<1> USE DEF Goto, Return, At, Alone, Types
<1>1. CASE mutex_lock(t)
  <2>1. CASE pc[t] = "call" /\ Calling(t, {"lock"})
    <3>1. Disciplined(script[t], Held(t)) /\ script[t] # << >> /\ Head(script[t]) = "lock"
      BY <1>0, <2>1, Zenon DEF ThreadOK, Calling
    <3>2. Held(t) = 0
      BY <1>0, <1>c, <3>1, Zenon
    <3>3. t \notin holds
      BY <3>2 DEF Held
    <3> QED
      BY <1>0, <1>1, <2>1, <3>1, <3>2, <3>3, Acquiring, ZenonT(40) DEF mutex_lock
  <2>2. CASE pc[t] = "relock"
    <3>1. t \notin holds /\ Calling(t, Waits) /\ Disciplined(script[t], 1)
      BY <1>0, <2>2, ZenonT(40) DEF ThreadOK, Apart
    <3> QED
      BY <1>0, <1>1, <3>1, Acquiring, ZenonT(40) DEF mutex_lock
  <2> QED
    BY <1>1, <2>1, <2>2, Zenon DEF mutex_lock
<1>2. CASE mutex_trylock(t)
  <2>1. /\ t \notin holds
        /\ \/ Calling(t, {"lock"}) /\ Disciplined(script[t], 0)
           \/ Calling(t, Waits) /\ Disciplined(script[t], 1)
    BY <1>0, <1>2, Zenon DEF mutex_trylock, ThreadOK, Locking
  <2> QED
    BY <1>0, <1>2, <2>1, Acquiring, ZenonT(40) DEF mutex_trylock
<1>3. CASE LookAtLock(t)
  <2>1. Alone(t)
    BY <1>0, <1>3, Zenon DEF LookAtLock, mutex, Labels
  <2>2. ThreadOK(t)'
    BY <1>0, <1>3, Zenon DEF LookAtLock, mutex, ThreadOK, Calling, Held, Locking, Apart, Inside,
       Signaling,
       Waits
  <2>3. MutualExclusion'
    BY <1>0, <1>3, ZenonT(40) DEF LookAtLock, mutex, MutualExclusion
  <2> QED
    BY <2>1, <2>2, <2>3, OthersKept, ZenonT(40)
<1>4. CASE CountWaiter(t)
  <2>1. Alone(t)
    BY <1>0, <1>4, Zenon DEF CountWaiter, mutex, Labels
  <2>2. ThreadOK(t)'
    BY <1>0, <1>4, Zenon DEF CountWaiter, mutex, ThreadOK, Calling, Held, Locking, Apart, Inside,
       Signaling,
       Waits
  <2>3. MutualExclusion'
    BY <1>0, <1>4, ZenonT(40) DEF CountWaiter, mutex, MutualExclusion
  <2> QED
    BY <2>1, <2>2, <2>3, OthersKept, Zenon
<1>5. CASE MarkContended(t)
  <2>1. Alone(t)
    BY <1>0, <1>5 DEF MarkContended, mutex, Labels
  <2>2. ThreadOK(t)'
    BY <1>0, <1>5, Zenon DEF MarkContended, mutex, ThreadOK, Calling, Held, Locking, Apart, Inside,
       Signaling,
       Waits
  <2>3. MutualExclusion'
    BY <1>0, <1>5 DEF MarkContended, mutex, MutualExclusion, ThreadOK
  <2> QED
    BY <2>1, <2>2, <2>3, OthersKept, Zenon
<1>6. CASE SleepOnMutex(t)
  <2>1. Alone(t)
    BY <1>0, <1>6, Zenon DEF SleepOnMutex, mutex, Labels
  <2>2. ThreadOK(t)'
    BY <1>0, <1>6, Zenon DEF SleepOnMutex, mutex, ThreadOK, Calling, Held, Locking, Apart, Inside,
       Signaling,
       Waits
  <2>3. MutualExclusion'
    BY <1>0, <1>6, ZenonT(40) DEF SleepOnMutex, mutex, MutualExclusion
  <2> QED
    BY <2>1, <2>2, <2>3, OthersKept, Zenon
<1>7. CASE WokenFromMutex(t)
  <2>1. Alone(t)
    BY <1>0, <1>7, Zenon DEF WokenFromMutex, mutex, Labels
  <2>2. ThreadOK(t)'
    BY <1>0, <1>7, Zenon DEF WokenFromMutex, mutex, ThreadOK, Calling, Held, Locking, Apart, Inside,
       Signaling, Waits
  <2>3. MutualExclusion'
    BY <1>0, <1>7, ZenonT(40) DEF WokenFromMutex, mutex, MutualExclusion
  <2> QED
    BY <2>1, <2>2, <2>3, OthersKept, Zenon
<1>8. CASE mutex_unlock(t)
  <2>1. Alone(t)
    BY <1>0, <1>8, Zenon DEF mutex_unlock, mutex, Labels
  <2>2. ThreadOK(t)'
    BY <1>0, <1>c, <1>8 DEF mutex_unlock, mutex, ThreadOK, Calling, Held, Locking, Apart,
       Inside, Signaling,
       Waits
  <2>3. MutualExclusion'
    BY <1>0, <1>8, ZenonT(40) DEF mutex_unlock, mutex, MutualExclusion
  <2> QED
    BY <2>1, <2>2, <2>3, OthersKept, Zenon
<1>9. CASE SwapLock(t)
  <2>0. /\ pc[t] = "swap" /\ t \in holds /\ script[t] # << >> /\ Disciplined(script[t], 1)
        /\ Head(script[t]) \in {"unlock"} \cup Waits
        /\ lock' = 0 /\ holds' = holds \ {t} /\ reg' = reg
    BY <1>0, <1>9, Zenon DEF SwapLock, ThreadOK, Calling
  <2>1. \/ pc' = [pc EXCEPT ![t] = "wake"] /\ script' = script
        \/ /\ pc' = [pc EXCEPT ![t] = "call"] /\ script' = [script EXCEPT ![t] = Tail(@)]
           /\ Head(script[t]) = "unlock"
        \/ /\ pc' = [pc EXCEPT ![t] = "wait"] /\ script' = script
           /\ Head(script[t]) \in Waits
    BY <1>9, <2>0, Zenon DEF SwapLock, Unlocked, Calling
  <2>2. Alone(t)
    <3>1. Tail(script[t]) \in Seq(Calls)
      BY <1>0, <2>0
    <3>2. pc' \in [Threads -> Labels] /\ \A s \in Threads \ {t} : pc'[s] = pc[s]
      BY <1>0, <2>1, Zenon DEF Labels
    <3>3. script' \in [Threads -> Seq(Calls)] /\ \A s \in Threads \ {t} : script'[s] = script[s]
      BY <1>0, <2>1, <3>1, ZenonT(30)
    <3> QED
      BY <1>0, <2>0, <3>2, <3>3
  <2>3. ThreadOK(t)'
    BY <1>0, <1>c, <2>0, <2>1, ZenonT(40) DEF ThreadOK, Calling, Held, Locking, Apart, Inside,
       Signaling,
       Waits
  <2>4. MutualExclusion'
    BY <1>0, <2>0, Zenon DEF MutualExclusion
  <2> QED
    BY <2>2, <2>3, <2>4, OthersKept, Zenon
<1>10. CASE WakeOne(t)
  <2>1. Alone(t)
    BY <1>0, <1>c, <1>10, ZenonT(40) DEF WakeOne, mutex, Labels, Unlocked, ThreadOK, Calling,
       Inside,
       Signaling, Waits
  <2>2. ThreadOK(t)'
    BY <1>0, <1>c, <1>10, ZenonT(40) DEF WakeOne, mutex, Unlocked, ThreadOK, Calling, Held, Locking,
       Apart,
       Inside, Signaling, Waits
  <2>3. MutualExclusion'
    BY <1>0, <1>10 DEF WakeOne, mutex, MutualExclusion
  <2> QED
    BY <2>1, <2>2, <2>3, OthersKept, Zenon
<1>11. CASE Enqueue(t)
  <2>1. Alone(t)
    BY <1>0, <1>11, Zenon DEF Enqueue, mutex, Labels
  <2>2. ThreadOK(t)'
    BY <1>0, <1>c, <1>11 DEF Enqueue, mutex, ThreadOK, Calling, Held, Locking, Apart, Inside,
       Signaling, Waits
  <2>3. MutualExclusion'
    BY <1>0, <1>11, Zenon DEF Enqueue, mutex, MutualExclusion
  <2> QED
    BY <2>1, <2>2, <2>3, OthersKept, Zenon
<1>12. CASE SleepOnBarrier(t)
  <2>1. Alone(t)
    BY <1>0, <1>12, Zenon DEF SleepOnBarrier, mutex, Labels
  <2>2. ThreadOK(t)'
    BY <1>0, <1>12, Zenon DEF SleepOnBarrier, mutex, ThreadOK, Calling, Held, Locking, Apart,
       Inside,
       Signaling, Waits
  <2>3. MutualExclusion'
    BY <1>0, <1>12, Zenon DEF SleepOnBarrier, mutex, MutualExclusion
  <2> QED
    BY <2>1, <2>2, <2>3, OthersKept, Zenon
<1>13. CASE Decide(t)
  <2>1. Alone(t)
    BY <1>0, <1>13, ZenonT(30) DEF Decide, mutex, Labels
  <2>2. ThreadOK(t)'
    BY <1>0, <1>13, Zenon DEF Decide, mutex, ThreadOK, Calling, Held, Locking, Apart, Inside,
       Signaling, Waits
  <2>3. MutualExclusion'
    BY <1>0, <1>13, ZenonT(40) DEF Decide, mutex, MutualExclusion
  <2> QED
    BY <2>1, <2>2, <2>3, OthersKept, Zenon
<1>14. CASE Leave(t)
  <2>1. Alone(t)
    BY <1>0, <1>14, Zenon DEF Leave, mutex, Labels
  <2>2. ThreadOK(t)'
    BY <1>0, <1>14, Zenon DEF Leave, mutex, ThreadOK, Calling, Held, Locking, Apart, Inside,
       Signaling, Waits
  <2>3. MutualExclusion'
    BY <1>0, <1>14, ZenonT(40) DEF Leave, mutex, MutualExclusion
  <2> QED
    BY <2>1, <2>2, <2>3, OthersKept, Zenon
<1>15. CASE Notify(t)
  <2>1. Alone(t)
    BY <1>0, <1>15 DEF Notify, mutex, Labels
  <2>2. ThreadOK(t)'
    BY <1>0, <1>15, Zenon DEF Notify, mutex, ThreadOK, Calling, Held, Locking, Apart, Inside,
       Signaling, Waits
  <2>3. MutualExclusion'
    BY <1>0, <1>15, ZenonT(40) DEF Notify, mutex, MutualExclusion
  <2> QED
    BY <2>1, <2>2, <2>3, OthersKept, Zenon
<1>16. CASE LockBarrier(t)
  <2>1. Alone(t)
    BY <1>0, <1>16 DEF LockBarrier, mutex, Labels
  <2>2. ThreadOK(t)'
    BY <1>0, <1>16, Zenon DEF LockBarrier, mutex, ThreadOK, Calling, Held, Locking, Apart, Inside,
       Signaling,
       Waits
  <2>3. MutualExclusion'
    BY <1>0, <1>16, ZenonT(40) DEF LockBarrier, mutex, MutualExclusion
  <2> QED
    BY <2>1, <2>2, <2>3, OthersKept, Zenon
<1>17. CASE OpenBarrier(t)
  <2>1. Alone(t)
    BY <1>0, <1>17 DEF OpenBarrier, mutex, Labels
  <2>2. ThreadOK(t)'
    BY <1>0, <1>17 DEF OpenBarrier, mutex, ThreadOK, Calling, Held, Locking, Apart,
       Inside,
       Signaling, Waits
  <2>3. MutualExclusion'
    BY <1>0, <1>17 DEF OpenBarrier, mutex, MutualExclusion
  <2> QED
    BY <2>1, <2>2, <2>3, OthersKept, Zenon
<1>18. CASE Requeue(t)
  <2>0. lock' = lock /\ holds' = holds
    BY <1>18, ZenonT(40) DEF Requeue, mutex
  <2>1. Alone(t)
    BY <1>0, <1>c, <1>18 DEF Requeue, mutex, Labels, ThreadOK, Calling, Inside, Signaling,
       Waits
  <2>2. ThreadOK(t)'
    BY <1>0, <1>c, <1>18 DEF Requeue, mutex, ThreadOK, Calling, Held, Locking, Apart,
       Inside,
       Signaling, Waits
  <2>3. MutualExclusion'
    BY <1>0, <2>0, ZenonT(40) DEF MutualExclusion
  <2> QED
    BY <2>1, <2>2, <2>3, OthersKept, Zenon
<1>19. CASE cond_signal(t)
  <2>0. /\ pc' = [pc EXCEPT ![t] = "drain"]
        /\ script' = script /\ reg' = reg /\ lock' = lock /\ holds' = holds
    BY <1>19, ZenonT(30) DEF cond_signal, mutex
  <2>1. Alone(t)
    BY <1>0, <2>0 DEF Labels
  <2>2. ThreadOK(t)'
    BY <1>0, <1>c, <1>19, ZenonT(30) DEF cond_signal, mutex, ThreadOK, Calling, Held, Locking,
       Apart, Inside,
       Signaling, Waits
  <2>3. MutualExclusion'
    BY <1>0, <2>0, ZenonT(40) DEF MutualExclusion
  <2> QED
    BY <2>1, <2>2, <2>3, OthersKept, Zenon
<1>20. CASE Drain(t)
  <2>1. Alone(t)
    BY <1>0, <1>c, <1>20, ZenonT(40) DEF Drain, mutex, Labels, ThreadOK, Calling, Inside, Signaling,
       Waits
  <2>2. ThreadOK(t)'
    BY <1>0, <1>c, <1>20, ZenonT(30) DEF Drain, mutex, ThreadOK, Calling, Held, Locking, Apart,
       Inside,
       Signaling, Waits
  <2>3. MutualExclusion'
    BY <1>0, <1>20, ZenonT(40) DEF Drain, mutex, MutualExclusion
  <2> QED
    BY <2>1, <2>2, <2>3, OthersKept, Zenon
<1>21. CASE ReleaseFirst(t)
  <2>1. Alone(t)
    BY <1>0, <1>21 DEF ReleaseFirst, mutex, Labels
  <2>2. ThreadOK(t)'
    BY <1>0, <1>21, Zenon DEF ReleaseFirst, mutex, ThreadOK, Calling, Held, Locking, Apart, Inside,
       Signaling,
       Waits
  <2>3. MutualExclusion'
    BY <1>0, <1>21, ZenonT(40) DEF ReleaseFirst, mutex, MutualExclusion
  <2> QED
    BY <2>1, <2>2, <2>3, OthersKept, Zenon
<1>22. CASE WakeFirst(t)
  <2>1. Alone(t)
    BY <1>0, <1>c, <1>22 DEF WakeFirst, mutex, Labels, ThreadOK, Calling, Inside,
       Signaling, Waits
  <2>2. ThreadOK(t)'
    BY <1>0, <1>c, <1>22 DEF WakeFirst, mutex, ThreadOK, Calling, Held, Locking, Apart,
       Inside,
       Signaling, Waits
  <2>3. MutualExclusion'
    BY <1>0, <1>22, Zenon DEF WakeFirst, mutex, MutualExclusion
  <2> QED
    BY <2>1, <2>2, <2>3, OthersKept, Zenon
<1>23. CASE Timeout(t)
  <2>1. Alone(t)
    BY <1>0, <1>23, Zenon DEF Timeout, mutex, Labels
  <2>2. ThreadOK(t)'
    BY <1>0, <1>23, Zenon DEF Timeout, mutex, ThreadOK, Calling, Held, Locking, Apart, Inside,
       Signaling,
       Waits
  <2>3. MutualExclusion'
    BY <1>0, <1>23, Zenon DEF Timeout, mutex, MutualExclusion
  <2> QED
    BY <2>1, <2>2, <2>3, OthersKept, Zenon
<1>24. CASE WaitForBarrier(t)
  <2>1. Alone(t)
    BY <1>0, <1>24 DEF WaitForBarrier, mutex, Labels
  <2>2. ThreadOK(t)'
    BY <1>0, <1>24 DEF WaitForBarrier, mutex, ThreadOK, Calling, Held, Locking, Apart,
       Inside,
       Signaling, Waits
  <2>3. MutualExclusion'
    BY <1>0, <1>24, Zenon DEF WaitForBarrier, mutex, MutualExclusion
  <2> QED
    BY <2>1, <2>2, <2>3, OthersKept, Zenon
<1>25. QED
  BY <1>1, <1>2, <1>3, <1>4, <1>5, <1>6, <1>7, <1>8, <1>9, <1>10, <1>11, <1>12, <1>13, <1>14, <1>15,
     <1>16,
     <1>17, <1>18, <1>19, <1>20, <1>21, <1>22, <1>23, <1>24 DEF Run

LEMMA Inductive == Spec => []IInv
<1>1. IInv /\ [Next]_vars => IInv'
  <2>1. ASSUME IInv, UNCHANGED vars PROVE IInv'
    BY <2>1, Zenon DEF IInv, vars, mutex, Types, MutualExclusion, ThreadOK, Held, Calling
  <2> QED
    BY <2>1, RunIInv, Zenon DEF Next
<1> QED
  BY <1>1, InitIInv, PTL DEF Spec

(* However many threads lock, unlock, wait, time out and signal, in whatever *)
(* order their futex calls interleave, one at a time has the mutex.          *)
THEOREM OneOwner == Spec => []MutualExclusion
<1>1. IInv => MutualExclusion
  BY Zenon DEF IInv
<1> QED
  BY <1>1, Inductive, PTL

LEMMA SizeNat == Size \in Nat /\ (Threads # {} => Size >= 1)
<1>1. IsFiniteSet(Threads)
  BY ThreadConstants, Zenon
<1>2. Size \in Nat /\ (Size = 0 <=> Threads = {})
  BY <1>1, FS_CardinalityType, FS_EmptySet, Zenon DEF Size
<1> QED
  BY <1>2

LEMMA WalkFollows ==
  ASSUME tail \in Pointer, prev \in [Threads -> Pointer]
  PROVE  Follows(Walk, Size, tail, prev)
<1> DEFINE P(f) == f = [k \in 1..(Size + 1) |->
                          IF k = 1 THEN tail ELSE IF f[k - 1] = NIL THEN NIL ELSE prev[f[k - 1]]]
<1>0. Size \in Nat
  BY SizeNat, Zenon
<1>1. PICK w : P(w)
  BY <1>0, Follow, ZenonT(40)
<1>2. Walk = CHOOSE f : P(f)
  BY Zenon DEF Walk
<1>3. P(Walk)
  <2> HIDE DEF P
  <2> QED
    BY <1>1, <1>2, Zenon
<1>4. \A k \in 1..(Size + 1) :
        Walk[k] = IF k = 1 THEN tail ELSE IF Walk[k - 1] = NIL THEN NIL ELSE prev[Walk[k - 1]]
  BY <1>3, Zenon
<1>5. Walk[1] = tail
  BY <1>0, <1>4
<1>6. ASSUME NEW k \in 1..Size
      PROVE  Walk[k + 1] = IF Walk[k] = NIL THEN NIL ELSE prev[Walk[k]]
  <2>1. k + 1 \in 1..(Size + 1) /\ k + 1 # 1 /\ (k + 1) - 1 = k
    BY <1>0
  <2> QED
    BY <1>4, <2>1, Zenon
<1> QED
  BY <1>5, <1>6, Zenon DEF Follows

-----------------------------------------------------------------------------
LEMMA InitJInv == Init => JInv
<1> SUFFICES ASSUME Init PROVE JInv
  BY Zenon
<1>0. NIL \notin Threads
  BY CondConstants, ThreadConstants, ZenonT(40)
<1>1. TypeOK
  <2>1. pc \in [Threads -> Labels] /\ asleep \in [Threads -> {"no", "mutex", "barrier", "ref"}]
    BY Zenon DEF Init, Labels
  <2>2. {prev, next, notify, first} \subseteq [Threads -> Pointer]
    BY Zenon DEF Init, Pointer
  <2> QED
    BY <2>1, <2>2, CondConstants, ThreadConstants DEF Init, TypeOK, Pointer
<1>2. Statuses
  BY Zenon DEF Init, Statuses, Status, InWait, Signaling
<1>3. Queued = {} /\ Leaving = {} /\ Signaled = {} /\ Opened = {} /\ Members = {} /\ Signalers = {}
  BY Zenon DEF Init, Queued, Leaving, Signaled, Opened, Members, Signalers
<1>4. Baton = {} /\ Counted = {} /\ \A t \in Threads : Pending(t) = {}
  BY <1>3, Zenon DEF Init, Baton, Counted, Pending
<1>5. Refs /\ Count
  BY <1>4, FS_EmptySet DEF Init, Refs, Count
<1>6. Lists
  <2> DEFINE g == [p \in Threads |-> {}]
             r == [p \in Threads |-> 0]
  <2>1. Ghosts(g, r, 1)
    BY DEF Ghosts, Groups
  <2>2. Members \ Opened = {} /\ {} \cup {} \cup {} = {}
    BY <1>3, Zenon
  <2> HIDE DEF g, r
  <2>3. /\ Sets({}, {}, {}, {}, {}) /\ Linked({}, {}, prev, next, g, r)
        /\ Ends({}, head, tail, prev, next) /\ Grouped({}, {}, {}, {}, notify, next, g)
        /\ Led({}, {}, {}, first, g, r)
    BY Zenon DEF Init, Sets, Linked, Ends, Grouped, Led
  <2> QED
    BY <1>3, <2>1, <2>2, <2>3, Zenon DEF Lists, ListsOf, Built
<1> QED
  BY <1>1, <1>2, <1>5, <1>6, Zenon DEF JInv

(* A step of t that touches no node, and stays on its side of the points     *)
(* that the lists and the counts are about.                                  *)
LEMMA QuietStep ==
  ASSUME JInv, Types', NEW t \in Threads, NEW l \in Labels, pc' = [pc EXCEPT ![t] = l],
         UNCHANGED <<nodes, barrier, sig>>, Status(t)',
         \A s \in Threads : s # t => script'[s] = script[s],
         {pc[t], l} \cap {"leave", "notify", "requeue", "drain", "release"} = {},
         state[t] = "signaled" => (pc[t] \in Past <=> l \in Past),
         reg' \in [Threads -> Nat],
         asleep' \in [Threads -> {"no", "mutex", "barrier", "ref"}],
         \/ waiters' = waiters /\ (t \in Counted <=> l \in {"mark", "sleep", "woken"})
         \/ waiters' = waiters + 1 /\ t \notin Counted /\ l \in {"mark", "sleep", "woken"}
         \/ waiters' = waiters - 1 /\ t \in Counted /\ l \notin {"mark", "sleep", "woken"}
  PROVE  JInv'
<1>0. /\ head' = head /\ tail' = tail /\ prev' = prev /\ next' = next /\ state' = state
      /\ notify' = notify /\ barrier' = barrier /\ ref' = ref /\ first' = first
  BY Zenon DEF nodes, list, sig
<1>p. /\ pc \in [Threads -> Labels] /\ pc'[t] = l /\ pc'[t] \notin {"leave", "notify", "requeue", "drain", "release"}
      /\ pc[t] \notin {"leave", "notify", "requeue", "drain", "release"}
      /\ \A s \in Threads : s # t => pc'[s] = pc[s]
  BY Zenon DEF JInv, TypeOK
<1>1. /\ Queued' = Queued /\ Leaving' = Leaving /\ Signaled' = Signaled /\ Signalers' = Signalers
      /\ \A u \in Threads : Pending(u)' = Pending(u)
  <2>1. \A s \in Threads : /\ pc'[s] = "leave" <=> pc[s] = "leave"
                           /\ pc'[s] = "requeue" <=> pc[s] = "requeue"
                           /\ pc'[s] \in {"drain", "release"} <=> pc[s] \in {"drain", "release"}
                           /\ pc'[s] \in {"leave", "notify"} <=> pc[s] \in {"leave", "notify"}
    BY <1>p, Zenon
  <2>2. Queued' = Queued /\ Leaving' = Leaving
    BY <1>0, <2>1, Zenon DEF Queued, Leaving
  <2>3. Signaled' = Signaled
    BY <1>0, <2>1, Zenon DEF Signaled
  <2>4. Signalers' = Signalers
    BY <2>1, Zenon DEF Signalers
  <2>5. ASSUME NEW u \in Threads PROVE Pending(u)' = Pending(u)
    BY <1>0, <2>1, Zenon DEF Pending
  <2> QED
    BY <2>2, <2>3, <2>4, <2>5, Zenon
<1>2. Opened' = Opened /\ Baton' = Baton /\ Members' = Members
  <2>1. \A s \in Signaled : pc'[s] \in Past <=> pc[s] \in Past
    BY <1>p, Zenon DEF Signaled
  <2>2. Opened' = Opened
    BY <1>0, <1>1, <2>1, Zenon DEF Opened
  <2> QED
    BY <1>0, <1>1, <2>2, Zenon DEF Baton, Members
<1>3. Statuses'
  <2>1. ASSUME NEW s \in Threads, s # t PROVE Status(s)'
    <3>1. pc'[s] = pc[s] /\ script'[s] = script[s] /\ Status(s)
      BY <1>p, <2>1, Zenon DEF JInv, Statuses
    <3> QED
      BY <1>0, <3>1, Zenon DEF Status, InWait, Calling
  <2> QED
    BY <2>1, Zenon DEF Statuses
<1>4. Refs'
  <2>1. ASSUME NEW u \in Threads
        PROVE  ref'[u] = Cardinality(Pending(u)') /\ (Pending(u)' # {} => pc'[u] = "drain")
    <3>1. ref[u] = Cardinality(Pending(u)) /\ (Pending(u) # {} => pc[u] = "drain")
      BY Zenon DEF JInv, Refs
    <3>2. pc[u] = "drain" => pc'[u] = "drain"
      BY <1>p, Zenon
    <3> QED
      BY <1>0, <1>1, <3>1, <3>2, ZenonT(40)
  <2> QED
    BY <2>1, Zenon DEF Refs
<1>5. Count' /\ waiters' \in Nat
  <2>0. /\ waiters = Cardinality(Counted) + Cardinality(Baton)
        /\ Counted \in SUBSET Threads /\ Baton \in SUBSET Threads
    BY Zenon DEF JInv, Count, Counted, Baton, Opened, Signaled
  <2>1. Cardinality(Counted) \in Nat /\ Cardinality(Baton) \in Nat
    BY <2>0, Cards, Zenon
  <2>2. \A s \in Threads : s # t => (s \in Counted' <=> s \in Counted)
    BY <1>p, Zenon DEF Counted
  <2>3. t \in Counted' <=> l \in {"mark", "sleep", "woken"}
    BY <1>p, ZenonT(40) DEF Counted
  <2>4. CASE waiters' = waiters /\ (t \in Counted <=> l \in {"mark", "sleep", "woken"})
    <3>1. Counted' = Counted
      BY <2>2, <2>3, <2>4, ZenonT(40) DEF Counted
    <3> QED
      BY <1>2, <2>0, <2>1, <2>4, <3>1 DEF Count
  <2>5. CASE waiters' = waiters + 1 /\ t \notin Counted /\ l \in {"mark", "sleep", "woken"}
    <3>1. Counted' = Counted \cup {t}
      BY <2>2, <2>3, <2>5, Zenon DEF Counted
    <3>2. Cardinality(Counted') = Cardinality(Counted) + 1
      BY <2>0, <2>5, <3>1, Cards, ZenonT(40)
    <3> QED
      BY <1>2, <2>0, <2>1, <2>5, <3>2 DEF Count
  <2>6. CASE waiters' = waiters - 1 /\ t \in Counted /\ l \notin {"mark", "sleep", "woken"}
    <3>1. Counted' = Counted \ {t}
      BY <2>2, <2>3, <2>6, ZenonT(40) DEF Counted
    <3>2. Cardinality(Counted') = Cardinality(Counted) - 1 /\ Cardinality(Counted) # 0
      BY <2>0, <2>6, <3>1, Cards, ZenonT(40)
    <3> QED
      BY <1>2, <2>0, <2>1, <2>6, <3>2 DEF Count
  <2> QED
    BY <2>4, <2>5, <2>6, Zenon
<1>6. Lists'
  BY <1>0, <1>1, <1>2, ZenonT(40) DEF JInv, Lists
<1>7. TypeOK'
  BY <1>0, <1>5, Zenon DEF JInv, TypeOK, Types
<1> QED
  BY <1>3, <1>4, <1>5, <1>6, <1>7, ZenonT(40) DEF JInv

(* What the invariants say of the thread that makes a step.                  *)
LEMMA Facts ==
  ASSUME IInv, JInv, NEW t \in Threads
  PROVE  /\ ThreadOK(t) /\ Status(t) /\ Types /\ TypeOK /\ script[t] \in Seq(Calls) /\ pc[t] \in Labels
         /\ state[t] \in {"none", "waiting", "signaled", "leaving"} /\ t # NIL /\ NIL \notin Threads
         /\ barrier[t] \in 0..2 /\ waiters \in Nat /\ reg \in [Threads -> Nat] /\ lock \in 0..2
         /\ pc \in [Threads -> Labels] /\ script \in [Threads -> Seq(Calls)]
         /\ asleep \in [Threads -> {"no", "mutex", "barrier", "ref"}]
  BY ThreadConstants, Zenon DEF IInv, JInv, Types, TypeOK, Statuses

(* Taking the mutex, or finding it taken.                                    *)
LEMMA AcquireJInv ==
  ASSUME IInv, Types', JInv, NEW t \in Threads, NEW label \in {"trylock", "look"},
         \/ pc[t] = "call" /\ Calling(t, {"lock"})
         \/ pc[t] \in {"relock", "trylock"},
         Acquired(t) \/ Busy(t, label), UNCHANGED <<nodes, barrier, sig, asleep>>
  PROVE  JInv'
<1>0. /\ ThreadOK(t) /\ Status(t) /\ script[t] \in Seq(Calls) /\ pc[t] \in Labels
      /\ state[t] \in {"none", "waiting", "signaled", "leaving"} /\ waiters \in Nat
      /\ reg \in [Threads -> Nat] /\ asleep \in [Threads -> {"no", "mutex", "barrier", "ref"}]
      /\ pc \in [Threads -> Labels] /\ script \in [Threads -> Seq(Calls)]
  BY Facts, Zenon
<1>1. /\ state' = state /\ notify' = notify /\ prev' = prev /\ barrier' = barrier
      /\ asleep' = asleep /\ reg' = reg /\ waiters' = waiters
  BY Zenon DEF nodes, list, Acquired, Busy, mutex
<1>c. t \notin Counted
  BY Zenon DEF Counted
<1>w. \/ Calling(t, {"lock"}) /\ ~Calling(t, Waits) /\ state[t] = "none"
      \/ ~Calling(t, {"lock"}) /\ Calling(t, Waits) /\ pc[t] \in {"relock", "trylock"} /\ state[t] \in {"signaled", "leaving"}
  <2>1. Calling(t, {"lock"}) => ~Calling(t, Waits)
    BY Zenon DEF Calling, Waits
  <2>2. pc[t] = "call" => Calling(t, {"lock"})
    BY Zenon
  <2>3. pc[t] \in {"relock", "trylock"} => Calling(t, {"lock"}) \/ Calling(t, Waits)
    BY <1>0, Zenon DEF ThreadOK, Locking, Apart
  <2>4. Calling(t, {"lock"}) => state[t] = "none"
    BY <1>0, <2>1, Zenon DEF Status, InWait
  <2>5. Calling(t, Waits) /\ pc[t] \in {"relock", "trylock"} => state[t] \in {"signaled", "leaving"}
    BY <1>0, Zenon DEF Status, InWait, Signaling, Parked
  <2> QED
    BY <2>1, <2>2, <2>3, <2>4, <2>5, ZenonT(40)
<1>2. CASE Acquired(t) /\ Calling(t, {"lock"})
  <2>1. pc' = [pc EXCEPT ![t] = "call"] /\ script' = [script EXCEPT ![t] = Tail(@)]
    BY <1>2, Zenon DEF Acquired, Return, Goto
  <2>2. Status(t)'
    BY <1>0, <1>1, <1>2, <1>w, <2>1, Zenon DEF Status, InWait
  <2>3. "call" \in Labels /\ \A s \in Threads : s # t => script'[s] = script[s]
    BY <1>0, <2>1, Zenon DEF Labels
  <2> QED
    BY <1>0, <1>1, <1>2, <1>c, <1>w, <2>1, <2>2, <2>3, QuietStep, ZenonT(40)
<1>3. CASE Acquired(t) /\ ~Calling(t, {"lock"})
  <2>1. pc' = [pc EXCEPT ![t] = "handoff"] /\ script' = script
    BY <1>3, Zenon DEF Acquired, Goto
  <2>2. Status(t)'
    BY <1>0, <1>1, <1>3, <1>w, <2>1, Zenon DEF Status, InWait, Past, Signaling, Calling
  <2>3. "handoff" \in Labels /\ pc[t] \in Past /\ "handoff" \in Past
    BY <1>3, <1>w, Zenon DEF Labels, Past, Locking
  <2> QED
    BY <1>0, <1>1, <1>3, <1>c, <1>w, <2>1, <2>2, <2>3, QuietStep, ZenonT(40)
<1>4. CASE Busy(t, label)
  <2>1. pc' = [pc EXCEPT ![t] = label] /\ script' = script
    BY <1>4, Zenon DEF Busy, Goto
  <2>2. label \in Past /\ label \in Labels /\ (state[t] = "signaled" => pc[t] \in Past)
    BY <1>w, Zenon DEF Past, Locking, Labels
  <2>3. Status(t)'
    BY <1>0, <1>1, <1>w, <2>1, <2>2, Zenon DEF Status, InWait, Past, Signaling, Calling
  <2> QED
    BY <1>0, <1>1, <1>c, <1>w, <2>1, <2>2, <2>3, QuietStep, ZenonT(40)
<1> QED
  BY <1>2, <1>3, <1>4, Zenon

(* A step within the first part of a wait, up to the point where a signaled  *)
(* thread has its barrier.                                                   *)
LEMMA WaitMoveJInv ==
  ASSUME IInv, Types', JInv, NEW t \in Threads,
         NEW l \in Parked \cup {"barrier", "barrierwait"}, l \notin Parked => state[t] = "signaled",
         pc[t] \in Parked \cup {"barrier", "barrierwait"},
         pc' = [pc EXCEPT ![t] = l], script' = script, waiters' = waiters,
         UNCHANGED <<nodes, barrier, sig>>, reg' \in [Threads -> Nat],
         asleep' \in [Threads -> {"no", "mutex", "barrier", "ref"}]
  PROVE  JInv'
<1>0. /\ ThreadOK(t) /\ Status(t) /\ script[t] \in Seq(Calls) /\ pc[t] \in Labels
      /\ state[t] \in {"none", "waiting", "signaled", "leaving"}
      /\ pc \in [Threads -> Labels] /\ script \in [Threads -> Seq(Calls)]
  BY Facts, Zenon
<1>1. /\ state' = state /\ notify' = notify /\ prev' = prev /\ barrier' = barrier
      /\ pc'[t] = l /\ Calling(t, Waits)' = Calling(t, Waits)
  BY <1>0, Zenon DEF nodes, list, Calling
<1>2. l \in Labels /\ l \notin Past /\ pc[t] \notin Past /\ t \notin Counted /\ l \notin {"mark", "sleep", "woken"}
  BY Zenon DEF Labels, Past, Locking, Parked, Counted
<1>3. {pc[t], l} \cap {"leave", "notify", "requeue", "drain", "release"} = {}
  BY Zenon DEF Parked
<1>4. state[t] # "leaving" /\ InWait(t)' = InWait(t)
  BY <1>0, <1>1, <1>2, Zenon DEF Status, Parked, Locking, InWait, Signaling
<1>5. Status(t)'
  <2>1. pc'[t] # "release"
    BY <1>1, Zenon DEF Parked
  <2> QED
    BY <1>0, <1>1, <1>2, <1>4, <2>1, Zenon DEF Status
<1> QED
  BY <1>0, <1>2, <1>3, <1>5, QuietStep, Zenon

(* The futex wake of one thread that sleeps on the mutex.                    *)
LEMMA WakeMutexTyped ==
  ASSUME WakeMutex, asleep \in [Threads -> {"no", "mutex", "barrier", "ref"}]
  PROVE  asleep' \in [Threads -> {"no", "mutex", "barrier", "ref"}]
<1>1. asleep' = asleep \/ \E s \in Threads : asleep' = [asleep EXCEPT ![s] = "no"]
  BY Zenon DEF WakeMutex
<1> QED
  BY <1>1, Zenon

(* A step of t that leaves every node in its list, and every count.          *)
LEMMA SameNodes ==
  ASSUME JInv, TypeOK', Statuses',
         Queued' = Queued, Leaving' = Leaving, Signaled' = Signaled, Opened' = Opened,
         Signalers' \subseteq Signalers, \A u \in Signalers \ Signalers' : first[u] = NIL,
         \A u \in Signalers' : first'[u] = first[u],
         \A p \in Members : notify'[p] = notify[p] /\ prev'[p] = prev[p] /\ next'[p] = next[p],
         head' = head, tail' = tail, ref' = ref,
         \A u \in Threads : Pending(u)' = Pending(u) /\ (Pending(u) # {} => pc'[u] = "drain"),
         Counted' = Counted, waiters' = waiters
  PROVE  JInv'
<1>1. Refs'
  <2>1. ASSUME NEW u \in Threads
        PROVE  ref'[u] = Cardinality(Pending(u)') /\ (Pending(u)' # {} => pc'[u] = "drain")
    <3>1. ref[u] = Cardinality(Pending(u))
      BY Zenon DEF JInv, Refs
    <3> QED
      BY <3>1, Zenon
  <2> QED
    BY <2>1, Zenon DEF Refs
<1>2. Members' = Members /\ Opened \subseteq Members
  BY Zenon DEF Members, Opened
<1>3. Baton' = Baton
  BY <1>2, Zenon DEF Baton
<1>4. Count'
  BY <1>3, Zenon DEF JInv, Count
<1>5. Lists'
  <2>1. ListsOf(Queued, Leaving, Signaled, Members \ Opened, Signalers, notify, prev, next, head, tail, first)
    BY Zenon DEF JInv, Lists
  <2>2. Signalers \subseteq Threads /\ Members = Queued \cup Leaving \cup Signaled
    BY Zenon DEF Signalers, Members
  <2>3. ListsOf(Queued, Leaving, Signaled, Members \ Opened, Signalers',
                notify', prev', next', head, tail, first')
    <3>1. SameIn(Queued \cup Leaving \cup Signaled, notify, prev, next, notify', prev', next')
      BY <2>2, Zenon DEF SameIn
    <3>2. SameFirst(Signalers, first, Signalers', first')
      BY <2>2, Zenon DEF SameFirst
    <3> QED
      BY <2>1, <3>1, <3>2, SameLists, Zenon
  <2> QED
    BY <1>2, <2>3, Zenon DEF Lists
<1> QED
  BY <1>1, <1>4, <1>5, Zenon DEF JInv

LEMMA OthersStatus ==
  ASSUME JInv, NEW t \in Threads, Status(t)',
         \A s \in Threads : s # t =>
           /\ pc'[s] = pc[s] /\ script'[s] = script[s] /\ state'[s] = state[s] /\ barrier'[s] = barrier[s]
           /\ notify'[s] = notify[s] /\ prev'[s] = prev[s] /\ first'[s] = first[s]
  PROVE  Statuses'
<1>1. ASSUME NEW s \in Threads, s # t PROVE Status(s)'
  <2>1. Status(s)
    BY Zenon DEF JInv, Statuses
  <2> QED
    BY <1>1, <2>1, Zenon DEF Status, InWait, Calling
<1> QED
  BY <1>1, Zenon DEF Statuses

(* What a label says of the state of the node.                               *)
LEMMA StateAt ==
  ASSUME IInv, JInv, NEW t \in Threads
  PROVE  /\ pc[t] \in {"call"} \cup Signaling => state[t] = "none"
         /\ pc[t] = "decide" => state[t] \in {"waiting", "signaled"}
         /\ pc[t] \in {"leave", "notify"} => state[t] = "leaving"
         /\ pc[t] \in {"barrier", "barrierwait"} => state[t] = "signaled"
         /\ pc[t] \in {"handoff", "requeue"} => state[t] \in {"signaled", "leaving"}
         /\ state[t] = "none" => notify[t] = NIL /\ prev[t] = NIL
<1>0. ThreadOK(t) /\ Status(t) /\ state[t] \in {"none", "waiting", "signaled", "leaving"}
  BY Facts, Zenon
<1>1. pc[t] \in {"call"} \cup Signaling => state[t] = "none"
  BY <1>0, Zenon DEF Status, InWait
<1>2. pc[t] \in {"decide", "leave", "notify", "barrier", "barrierwait", "handoff", "requeue"} => state[t] # "none"
  BY <1>0, Zenon DEF Status, InWait, ThreadOK, Apart, Inside, Signaling
<1>3. /\ pc[t] = "decide" => state[t] # "leaving"
      /\ pc[t] \in {"leave", "notify"} => state[t] # "waiting" /\ state[t] # "signaled"
      /\ pc[t] \in {"barrier", "barrierwait"} => state[t] # "waiting" /\ state[t] # "leaving"
      /\ pc[t] \in {"handoff", "requeue"} => state[t] # "waiting"
  BY <1>0, Zenon DEF Status, Past, Locking, Parked
<1>4. state[t] = "none" => notify[t] = NIL /\ prev[t] = NIL
  BY <1>0, Zenon DEF Status
<1> QED
  BY <1>0, <1>1, <1>2, <1>3, <1>4, Zenon

(* The parts of a type-correct state that a step may change.                 *)
LEMMA TypesOf ==
  ASSUME JInv
  PROVE  /\ script \in [Threads -> Seq(Calls)] /\ pc \in [Threads -> Labels]
         /\ reg \in [Threads -> Nat] /\ ref \in [Threads -> Nat] /\ waiters \in Nat
         /\ head \in Pointer /\ tail \in Pointer
         /\ prev \in [Threads -> Pointer] /\ next \in [Threads -> Pointer]
         /\ notify \in [Threads -> Pointer] /\ first \in [Threads -> Pointer]
         /\ state \in [Threads -> {"none", "waiting", "signaled", "leaving"}]
         /\ barrier \in [Threads -> 0..2]
         /\ asleep \in [Threads -> {"no", "mutex", "barrier", "ref"}]
  BY Zenon DEF JInv, TypeOK

(* What the lists say of the pointers of the condition variable.             *)
LEMMA Shape ==
  ASSUME JInv
  PROVE  /\ head \in Queued \cup {NIL} /\ tail \in Queued \cup {NIL} /\ NIL \notin Threads
         /\ Members \subseteq Threads /\ Opened \subseteq Signaled
         /\ \A p \in Members : prev[p] # NIL => prev[p] \in Members \ Opened
         /\ \A p \in Members \ Opened : next[p] # NIL => next[p] \in Members
<1>1. PICK g, r, n : Built(Queued, Leaving, Signaled, Members, Members \ Opened, Signalers,
                           notify, prev, next, head, tail, first, g, r, n)
  BY Zenon DEF JInv, Lists, ListsOf, Members
<1>2. head \in Queued \cup {NIL} /\ tail \in Queued \cup {NIL}
  BY <1>1, Zenon DEF Built, Ends
<1>3. \A p \in Members : prev[p] # NIL => prev[p] \in Members \ Opened
  BY <1>1, Zenon DEF Built, Linked
<1>4. \A p \in Members \ Opened : next[p] # NIL => next[p] \in Members
  BY <1>1, Zenon DEF Built, Linked
<1>5. Members \subseteq Threads /\ Opened \subseteq Signaled
  BY Zenon DEF Members, Queued, Leaving, Signaled, Opened
<1> QED
  BY <1>2, <1>3, <1>4, <1>5, ThreadConstants, Zenon

(* A node in a list is that of a thread in a wait.                           *)
LEMMA MemberState ==
  ASSUME IInv, JInv, NEW p \in Members
  PROVE  /\ state[p] # "none" /\ p \in Threads
         /\ p \in Queued \cup Leaving => state[p] \in {"waiting", "leaving"} /\ p \notin Signaled
         /\ p \in Signaled => state[p] = "signaled"
<1>1. p \in Threads /\ (pc[p] = "leave" => state[p] = "leaving")
  BY StateAt, Zenon DEF Members, Queued, Leaving, Signaled
<1> QED
  BY <1>1, Zenon DEF Members, Queued, Leaving, Signaled

(* A thread in a wait whose links, or whose barrier, a step of t writes.     *)
LEMMA NearStatus ==
  ASSUME JInv, NEW t \in Threads, Status(t)',
         \A s \in Threads : s # t =>
           /\ pc'[s] = pc[s] /\ script'[s] = script[s] /\ state'[s] = state[s]
           /\ notify'[s] = notify[s] /\ first'[s] = first[s]
           /\ prev'[s] = prev[s] \/ state[s] # "none"
           /\ barrier'[s] = barrier[s] \/ (state[s] = "signaled" /\ barrier'[s] = 0)
  PROVE  Statuses'
<1>1. ASSUME NEW s \in Threads, s # t PROVE Status(s)'
  <2>1. Status(s)
    BY Zenon DEF JInv, Statuses
  <2>2. InWait(s)' = InWait(s)
    BY <1>1, Zenon DEF InWait, Calling
  <2> QED
    BY <1>1, <2>1, <2>2, Zenon DEF Status
<1> QED
  BY <1>1, Zenon DEF Statuses

(* The steps of a thread that locks or unlocks the mutex, or that waits, up  *)
(* to the point where it has left the list.                                  *)
WaiterStep(t) ==
  \/ mutex_lock(t) \/ mutex_trylock(t)
  \/ LookAtLock(t) \/ CountWaiter(t) \/ MarkContended(t) \/ SleepOnMutex(t)
  \/ WokenFromMutex(t)
  \/ mutex_unlock(t) \/ SwapLock(t) \/ WakeOne(t)
  \/ Enqueue(t)
  \/ SleepOnBarrier(t) \/ Timeout(t)
  \/ Decide(t)
  \/ Leave(t)
  \/ Notify(t)

LEMMA WaiterJInv ==
  ASSUME IInv, JInv, NEW t \in Threads, WaiterStep(t)
  PROVE  JInv'
<1>0. Types'
  BY RunIInv, Zenon DEF IInv, WaiterStep, Run
<1>1. CASE mutex_lock(t) \/ mutex_trylock(t)
  <2>1. /\ \E label \in {"trylock", "look"} : Acquired(t) \/ Busy(t, label)
        /\ UNCHANGED <<nodes, barrier, sig, asleep>>
        /\ \/ pc[t] = "call" /\ Calling(t, {"lock"})
           \/ pc[t] \in {"relock", "trylock"}
    BY <1>1, Zenon DEF mutex_lock, mutex_trylock, At
  <2> QED
    BY <1>0, <2>1, AcquireJInv, Zenon
(* The loop of pthread_mutex_timedlock.                                      *)
<1>2. CASE LookAtLock(t) \/ CountWaiter(t) \/ MarkContended(t) \/ SleepOnMutex(t) \/ WokenFromMutex(t)
  <2> USE <1>0, <1>2
  <2>0. /\ ThreadOK(t) /\ Status(t) /\ script[t] \in Seq(Calls) /\ pc[t] \in Labels
        /\ state[t] \in {"none", "waiting", "signaled", "leaving"} /\ waiters \in Nat /\ lock \in 0..2
        /\ reg \in [Threads -> Nat] /\ asleep \in [Threads -> {"no", "mutex", "barrier", "ref"}]
        /\ pc \in [Threads -> Labels] /\ script \in [Threads -> Seq(Calls)]
    BY Facts, Zenon
  <2> DEFINE Moves(l) == /\ pc' = [pc EXCEPT ![t] = l] /\ script' = script
                         /\ UNCHANGED <<nodes, barrier, sig>> /\ reg' \in [Threads -> Nat]
                         /\ asleep' \in [Threads -> {"no", "mutex", "barrier", "ref"}]
  <2>1. ASSUME NEW l \in {"trylock", "count", "mark", "sleep", "woken"}, pc[t] \in Locking, Moves(l),
               \/ waiters' = waiters /\ (t \in Counted <=> l \in {"mark", "sleep", "woken"})
               \/ waiters' = waiters + 1 /\ t \notin Counted /\ l \in {"mark", "sleep", "woken"}
               \/ waiters' = waiters - 1 /\ t \in Counted /\ l \notin {"mark", "sleep", "woken"}
        PROVE  JInv'
    <3>1. /\ state' = state /\ notify' = notify /\ prev' = prev /\ barrier' = barrier
          /\ pc'[t] = l /\ Calling(t, Waits)' = Calling(t, Waits)
      BY <2>0, <2>1, Zenon DEF nodes, list, Calling
    <3>2. l \in Past /\ l \in Labels /\ pc[t] \in Past /\ l \in Locking
      BY <2>1, Zenon DEF Past, Labels, Locking
    <3>3. {pc[t], l} \cap {"leave", "notify", "requeue", "drain", "release"} = {}
      BY <2>1, Zenon DEF Locking
    <3>4. state[t] # "waiting" /\ InWait(t)' = InWait(t)
      BY <2>0, <2>1, <3>1, <3>2, ZenonT(40) DEF Status, Parked, Locking, InWait, Signaling
    <3>5. Status(t)'
      BY <2>0, <2>1, <3>1, <3>2, <3>4, ZenonT(40) DEF Status
    <3> QED
      BY <2>0, <2>1, <3>2, <3>3, <3>5, QuietStep, ZenonT(40)
  <2>2. CASE LookAtLock(t)
    <3>1. pc[t] \in Locking /\ t \notin Counted /\ waiters' = waiters
      BY <2>0, <2>2, Zenon DEF LookAtLock, At, Locking, Counted, mutex
    <3>2. CASE lock = 0
      <4>1. Moves("trylock")
        BY <2>0, <2>2, <3>2, Zenon DEF LookAtLock, Goto
      <4> QED
        BY <2>1, <3>1, <4>1, Zenon
    <3>3. CASE lock # 0
      <4>1. Moves("count")
        BY <2>0, <2>2, <3>3 DEF LookAtLock, Goto
      <4> QED
        BY <2>1, <3>1, <4>1, Zenon
    <3> QED
      BY <3>2, <3>3, Zenon
  <2>3. CASE CountWaiter(t)
    <3>1. pc[t] \in Locking /\ t \notin Counted /\ waiters' = waiters + 1 /\ Moves("mark")
      BY <2>0, <2>3, Zenon DEF CountWaiter, At, Goto, Locking, Counted, mutex
    <3> QED
      BY <2>1, <3>1, Zenon
  <2>4. CASE MarkContended(t)
    <3>1. pc[t] \in Locking /\ t \in Counted /\ waiters' = waiters /\ Moves("sleep")
      BY <2>0, <2>4, Zenon DEF MarkContended, At, Goto, Locking, Counted, mutex
    <3> QED
      BY <2>1, <3>1, Zenon
  <2>5. CASE SleepOnMutex(t)
    <3>1. pc[t] \in Locking /\ t \in Counted /\ waiters' = waiters /\ Moves("woken")
      BY <2>0, <2>5, Zenon DEF SleepOnMutex, FutexWait, At, Goto, Locking, Counted, mutex
    <3> QED
      BY <2>1, <3>1, Zenon
  <2>6. CASE WokenFromMutex(t)
    <3>1. pc[t] \in Locking /\ t \in Counted /\ waiters' = waiters - 1 /\ Moves("trylock")
      BY <2>0, <2>6, Zenon DEF WokenFromMutex, At, Goto, Locking, Counted, mutex
    <3> QED
      BY <2>1, <3>1, Zenon
  <2> QED
    BY <2>2, <2>3, <2>4, <2>5, <2>6, ZenonT(40)
(* pthread_mutex_unlock.                                                     *)
<1>3. CASE mutex_unlock(t) \/ SwapLock(t) \/ WakeOne(t)
  <2> USE <1>0, <1>3
  <2>0. /\ ThreadOK(t) /\ Status(t) /\ script[t] \in Seq(Calls) /\ pc[t] \in Labels
        /\ state[t] \in {"none", "waiting", "signaled", "leaving"} /\ waiters \in Nat
        /\ reg \in [Threads -> Nat] /\ asleep \in [Threads -> {"no", "mutex", "barrier", "ref"}]
        /\ pc \in [Threads -> Labels] /\ script \in [Threads -> Seq(Calls)]
    BY Facts, Zenon
  <2> DEFINE Kept == /\ UNCHANGED <<nodes, barrier, sig>> /\ reg' \in [Threads -> Nat] /\ waiters' = waiters
                     /\ asleep' \in [Threads -> {"no", "mutex", "barrier", "ref"}]
  <2>u. Calling(t, {"unlock"}) => ~Calling(t, Waits) /\ state[t] = "none"
    BY <2>0, Zenon DEF Calling, Waits, Status, InWait
  <2>1. ASSUME Kept, pc' = [pc EXCEPT ![t] = "swap"], script' = script, pc[t] = "call", Calling(t, {"unlock"})
        PROVE  JInv'
    <3>1. Status(t)'
      BY <2>0, <2>1, <2>u, Zenon DEF Status, InWait, Calling, nodes, list
    <3>2. t \notin Counted /\ "swap" \in Labels
      BY <2>1, Zenon DEF Counted, Labels
    <3> QED
      BY <2>0, <2>1, <2>u, <3>1, <3>2, QuietStep, ZenonT(40)
  <2>2. ASSUME Kept, pc[t] \in {"swap", "wake"}, Unlocked(t) PROVE JInv'
    <3>1. CASE Calling(t, {"unlock"})
      <4>1. pc' = [pc EXCEPT ![t] = "call"] /\ script' = [script EXCEPT ![t] = Tail(@)]
        BY <2>2, <3>1, Zenon DEF Unlocked, Return, Goto
      <4>2. Status(t)'
        BY <2>0, <2>2, <2>u, <3>1, <4>1, Zenon DEF Status, InWait, nodes, list
      <4>3. "call" \in Labels /\ t \notin Counted /\ \A s \in Threads : s # t => script'[s] = script[s]
        BY <2>0, <2>2, <4>1, Zenon DEF Labels, Counted
      <4>4. {pc[t], "call"} \cap {"leave", "notify", "requeue", "drain", "release"} = {}
        BY <2>2, Zenon
      <4> QED
        BY <2>0, <2>2, <2>u, <3>1, <4>1, <4>2, <4>3, <4>4, QuietStep, ZenonT(40)
    <3>2. CASE ~Calling(t, {"unlock"})
      <4>1. pc' = [pc EXCEPT ![t] = "wait"] /\ script' = script /\ pc[t] \in Parked /\ "wait" \in Parked
        BY <2>2, <3>2, Zenon DEF Unlocked, Goto, Parked
      <4> QED
        BY <2>2, <4>1, WaitMoveJInv, Zenon
    <3> QED
      BY <3>1, <3>2, Zenon
  <2>3. CASE mutex_unlock(t)
    <3>1. /\ Kept /\ pc' = [pc EXCEPT ![t] = "swap"] /\ script' = script
          /\ (pc[t] = "call" /\ Calling(t, {"unlock"})) \/ pc[t] = "unlock"
      BY <2>0, <2>3, Zenon DEF mutex_unlock, At, Goto, mutex
    <3>2. CASE pc[t] = "unlock"
      <4>1. pc[t] \in Parked /\ "swap" \in Parked
        BY <3>2, Zenon DEF Parked
      <4> QED
        BY <3>1, <4>1, WaitMoveJInv, Zenon
    <3> QED
      BY <2>1, <3>1, <3>2, Zenon
  <2>4. CASE SwapLock(t)
    <3>1. Kept /\ pc[t] = "swap"
      BY <2>0, <2>4, Zenon DEF SwapLock, At
    <3>2. CASE MustWake(t)
      <4>1. pc' = [pc EXCEPT ![t] = "wake"] /\ script' = script /\ pc[t] \in Parked /\ "wake" \in Parked
        BY <2>4, <3>1, <3>2, Zenon DEF SwapLock, Goto, Parked
      <4> QED
        BY <3>1, <4>1, WaitMoveJInv, Zenon
    <3>3. CASE ~MustWake(t)
      BY <2>2, <2>4, <3>1, <3>3, Zenon DEF SwapLock
    <3> QED
      BY <3>2, <3>3, Zenon
  <2>5. CASE WakeOne(t)
    <3>1. Kept /\ pc[t] = "wake" /\ Unlocked(t)
      BY <2>0, <2>5, WakeMutexTyped, Zenon DEF WakeOne, At, mutex
    <3> QED
      BY <2>2, <3>1, Zenon
  <2> QED
    BY <2>3, <2>4, <2>5, Zenon
(* A waiter enters the list.                                                 *)
<1>4. CASE Enqueue(t)
  <2> USE <1>0, <1>4
  <2>0. /\ pc[t] = "call" /\ Calling(t, Waits) /\ script' = script /\ reg' = reg /\ waiters' = waiters
        /\ notify' = notify /\ ref' = ref /\ first' = first /\ asleep' = asleep
        /\ barrier' = [barrier EXCEPT ![t] = 2] /\ state' = [state EXCEPT ![t] = "waiting"]
        /\ next' = [next EXCEPT ![t] = head]
        /\ prev' = [p \in Threads |-> IF p = head /\ tail # NIL THEN t ELSE prev[p]]
        /\ head' = t /\ tail' = (IF tail = NIL THEN t ELSE tail) /\ pc' = [pc EXCEPT ![t] = "unlock"]
    BY Zenon DEF Enqueue, At, Goto, mutex, sig
  <2>t. /\ pc \in [Threads -> Labels] /\ head \in Pointer /\ tail \in Pointer
        /\ prev \in [Threads -> Pointer] /\ next \in [Threads -> Pointer]
        /\ notify \in [Threads -> Pointer] /\ first \in [Threads -> Pointer]
        /\ state \in [Threads -> {"none", "waiting", "signaled", "leaving"}]
        /\ barrier \in [Threads -> 0..2]
    BY TypesOf, Zenon
  <2>1. /\ pc'[t] = "unlock" /\ state'[t] = "waiting" /\ barrier'[t] = 2
        /\ \A s \in Threads : s # t =>
             pc'[s] = pc[s] /\ state'[s] = state[s] /\ barrier'[s] = barrier[s] /\ next'[s] = next[s]
    BY <2>0, <2>t, Zenon
  <2>2. state[t] = "none" /\ notify[t] = NIL /\ prev[t] = NIL /\ t # NIL
    BY <2>0, StateAt, ThreadConstants, Zenon
  <2>3. t \notin Members /\ t \notin Queued /\ t \notin Signaled /\ t \notin Opened
    BY <2>0, <2>2, Zenon DEF Members, Queued, Leaving, Signaled, Opened
  <2>4. TypeOK'
    <3>1. prev' \in [Threads -> Pointer] /\ next' \in [Threads -> Pointer]
      BY <2>0, <2>t, Zenon DEF Pointer
    <3>2. head' \in Pointer /\ tail' \in Pointer
      BY <2>0, <2>t, Zenon DEF Pointer
    <3>3. /\ state' \in [Threads -> {"none", "waiting", "signaled", "leaving"}]
          /\ barrier' \in [Threads -> 0..2]
      BY <2>0, <2>t
    <3>4. {prev', next', notify', first'} \subseteq [Threads -> Pointer]
      BY <2>0, <2>t, <3>1, Zenon
    <3> QED
      BY <2>0, <3>2, <3>3, <3>4, Zenon DEF JInv, TypeOK, Types
  <2>5. Queued' = Queued \cup {t} /\ Leaving' = Leaving
    BY <2>0, <2>1, ZenonT(40) DEF Queued, Leaving
  <2>6. Signaled' = Signaled
    BY <2>0, <2>1, <2>2, ZenonT(40) DEF Signaled
  <2>7. Opened' = Opened
    BY <2>1, <2>3, <2>6, Zenon DEF Opened, Signaled
  <2>8. Signalers' = Signalers /\ Counted' = Counted
    BY <2>0, <2>1, Zenon DEF Signalers, Counted
  <2>9. ASSUME NEW u \in Threads PROVE Pending(u)' = Pending(u) /\ (Pending(u) # {} => pc'[u] = "drain")
    <3>1. Pending(u)' = Pending(u)
      BY <2>0, <2>1, Zenon DEF Pending
    <3>2. Pending(u) # {} => pc[u] = "drain"
      BY Zenon DEF JInv, Refs
    <3> QED
      BY <2>0, <2>1, <3>1, <3>2, Zenon
  <2>10. Statuses'
    <3>1. InWait(t)'
      BY <2>0, <2>1, Zenon DEF InWait, Calling, Signaling
    <3>2. Status(t)'
      BY <2>0, <2>1, <2>2, <3>1, Zenon DEF Status, Parked
    <3>3. ASSUME NEW s \in Threads, s # t PROVE prev'[s] = prev[s] \/ state[s] # "none"
      <4>1. s = head => s \in Members
        BY Shape, ThreadConstants, Zenon DEF Members
      <4> QED
        BY <2>0, <4>1, MemberState, Zenon
    <3> QED
      BY <2>0, <2>1, <3>2, <3>3, NearStatus, ZenonT(40)
  <2>11. Refs'
    BY <2>0, <2>9, Zenon DEF JInv, Refs
  <2>12. Count'
    <3>1. Baton' = Baton
      BY <2>1, <2>3, <2>7, Zenon DEF Baton, Opened, Signaled
    <3> QED
      BY <2>0, <2>8, <3>1, Zenon DEF JInv, Count
  <2>13. Lists'
    <3>1. ListsOf(Queued, Leaving, Signaled, Members \ Opened, Signalers, notify, prev, next, head, tail, first)
      BY Zenon DEF JInv, Lists
    <3>2. ListsOf(Queued \cup {t}, Leaving, Signaled, (Members \ Opened) \cup {t}, Signalers, notify,
                  prev', next', t, IF tail = NIL THEN t ELSE tail, first)
      <4>1. t \notin Queued \cup Leaving \cup Signaled
        BY <2>3, Zenon DEF Members
      <4> QED
        BY <2>0, <2>2, <2>t, <3>1, <4>1, EnqueueLists, ZenonT(40)
    <3>3. Members' \ Opened' = (Members \ Opened) \cup {t}
      BY <2>3, <2>5, <2>6, <2>7, Zenon DEF Members
    <3> QED
      BY <2>0, <2>5, <2>6, <2>8, <3>2, <3>3, Zenon DEF Lists
  <2> QED
    BY <2>4, <2>10, <2>11, <2>12, <2>13, Zenon DEF JInv
(* The loop around __timedwait_cp, and its timeout.                          *)
<1>5. CASE SleepOnBarrier(t) \/ Timeout(t)
  <2> USE <1>0, <1>5
  <2>0. asleep \in [Threads -> {"no", "mutex", "barrier", "ref"}] /\ reg \in [Threads -> Nat]
    BY Facts, Zenon
  <2>1. /\ script' = script /\ waiters' = waiters /\ UNCHANGED <<nodes, barrier, sig>>
        /\ reg' \in [Threads -> Nat] /\ asleep' \in [Threads -> {"no", "mutex", "barrier", "ref"}]
        /\ pc[t] \in Parked
        /\ pc' = [pc EXCEPT ![t] = "wait"] \/ pc' = [pc EXCEPT ![t] = "decide"]
    BY <2>0, Zenon DEF SleepOnBarrier, Timeout, At, Goto, FutexWait, mutex, Parked
  <2>2. "wait" \in Parked /\ "decide" \in Parked
    BY Zenon DEF Parked
  <2> QED
    BY <2>1, <2>2, WaitMoveJInv, Zenon
(* A waiter decides that it leaves, or finds that it was signaled.           *)
<1>6. CASE Decide(t)
  <2> USE <1>0, <1>6
  <2>0. /\ pc[t] = "decide" /\ script' = script /\ reg' = reg /\ waiters' = waiters /\ lock' = lock
        /\ holds' = holds /\ head' = head /\ tail' = tail /\ prev' = prev /\ next' = next
        /\ notify' = notify /\ barrier' = barrier /\ ref' = ref /\ first' = first /\ asleep' = asleep
    BY Zenon DEF Decide, At, mutex, list, sig
  <2>t. /\ pc \in [Threads -> Labels] /\ state \in [Threads -> {"none", "waiting", "signaled", "leaving"}]
        /\ reg \in [Threads -> Nat] /\ asleep \in [Threads -> {"no", "mutex", "barrier", "ref"}]
    BY TypesOf, Zenon
  <2>1. CASE state[t] = "waiting"
    <3>1. state' = [state EXCEPT ![t] = "leaving"] /\ pc' = [pc EXCEPT ![t] = "leave"]
      BY <2>1, Zenon DEF Decide, Goto
    <3>2. /\ pc'[t] = "leave" /\ state'[t] = "leaving" /\ notify[t] = NIL /\ t # NIL /\ NIL \notin Threads
          /\ \A s \in Threads : s # t => pc'[s] = pc[s] /\ state'[s] = state[s]
      <4>1. Status(t)
        BY Facts, Zenon
      <4> QED
        BY <2>1, <2>t, <3>1, <4>1, ThreadConstants, Zenon DEF Status
    <3>3. TypeOK'
      BY <2>0, <2>t, <3>1, Zenon DEF JInv, TypeOK, Types
    <3>4. Queued' = Queued /\ Leaving' = Leaving
      BY <2>0, <2>1, <3>2, Zenon DEF Queued, Leaving
    <3>5. Signaled' = Signaled
      BY <2>0, <2>1, <3>2, Zenon DEF Signaled
    <3>6. Opened' = Opened
      BY <2>0, <2>1, <3>2, <3>5, Zenon DEF Opened, Signaled
    <3>7. Signalers' = Signalers /\ Counted' = Counted
      BY <2>0, <3>2, Zenon DEF Signalers, Counted
    <3>8. ASSUME NEW u \in Threads PROVE Pending(u)' = Pending(u) /\ (Pending(u) # {} => pc'[u] = "drain")
      <4>1. Pending(u)' = Pending(u)
        BY <2>0, <3>2, Zenon DEF Pending
      <4>2. Pending(u) # {} => pc[u] = "drain"
        BY Zenon DEF JInv, Refs
      <4> QED
        BY <2>0, <3>2, <4>1, <4>2, Zenon
    <3>9. Status(t)'
      <4>1. Status(t)
        BY Facts, Zenon
      <4>2. InWait(t)
        BY <2>1, <4>1, Zenon DEF Status
      <4>3. InWait(t)'
        BY <2>0, <3>2, <4>2, Zenon DEF InWait, Calling, Signaling
      <4> QED
        BY <3>2, <4>3, Zenon DEF Status
    <3>10. Statuses'
      BY <2>0, <3>2, <3>9, OthersStatus, Zenon
    <3> QED
      BY <2>0, <3>3, <3>4, <3>5, <3>6, <3>7, <3>8, <3>10, SameNodes, ZenonT(40)
  <2>2. CASE state[t] # "waiting"
    <3>1. state[t] = "signaled" /\ state' = state /\ pc' = [pc EXCEPT ![t] = "barrier"]
      BY <2>2, Zenon DEF Decide, Goto
    <3>2. UNCHANGED <<nodes, barrier, sig>> /\ pc[t] \in Parked
      BY <2>0, <3>1, Zenon DEF nodes, list, sig, Parked
    <3> QED
      BY <2>0, <2>t, <3>1, <3>2, WaitMoveJInv, ZenonT(40)
  <2> QED
    BY <2>1, <2>2, Zenon
(* A leaving waiter takes its node from the list it is in.                   *)
<1>7. CASE Leave(t)
  <2> USE <1>0, <1>7
  <2>0. /\ pc[t] = "leave" /\ script' = script /\ reg' = reg /\ waiters' = waiters /\ state' = state
        /\ notify' = notify /\ barrier' = barrier /\ ref' = ref /\ first' = first /\ asleep' = asleep
        /\ head' = (IF head = t THEN next[t] ELSE head)
        /\ tail' = (IF tail = t THEN prev[t] ELSE tail)
        /\ next' = [p \in Threads |-> IF head # t /\ p = prev[t] THEN next[t] ELSE next[p]]
        /\ prev' = [p \in Threads |-> IF tail # t /\ p = next[t] THEN prev[t] ELSE prev[p]]
        /\ pc' = [pc EXCEPT ![t] = "notify"]
    BY Zenon DEF Leave, At, Goto, mutex, sig
  <2>t. /\ pc \in [Threads -> Labels] /\ head \in Pointer /\ tail \in Pointer
        /\ prev \in [Threads -> Pointer] /\ next \in [Threads -> Pointer]
        /\ notify \in [Threads -> Pointer] /\ first \in [Threads -> Pointer]
    BY TypesOf, Zenon
  <2>1. pc'[t] = "notify" /\ \A s \in Threads : s # t => pc'[s] = pc[s]
    BY <2>0, <2>t, Zenon
  <2>2. state[t] = "leaving" /\ t # NIL /\ NIL \notin Threads
    BY <2>0, StateAt, ThreadConstants, Zenon
  <2>3. t \in Queued \cup Leaving /\ t \in Members /\ t \notin Signaled /\ t \notin Opened
    BY <2>0, <2>2, Zenon DEF Members, Queued, Leaving, Signaled, Opened
  <2>4. TypeOK'
    <3>1. prev' \in [Threads -> Pointer] /\ next' \in [Threads -> Pointer]
      BY <2>0, <2>t, Zenon
    <3>2. head' \in Pointer /\ tail' \in Pointer
      BY <2>0, <2>t, Zenon
    <3>3. {prev', next', notify', first'} \subseteq [Threads -> Pointer]
      BY <2>0, <2>t, <3>1, Zenon
    <3> QED
      BY <2>0, <3>2, <3>3, Zenon DEF JInv, TypeOK, Types
  <2>5. Queued' = Queued \ {t} /\ Leaving' = Leaving \ {t}
    BY <2>0, <2>1, <2>2, Zenon DEF Queued, Leaving
  <2>6. Signaled' = Signaled
    BY <2>0, <2>1, <2>2, Zenon DEF Signaled
  <2>7. Opened' = Opened
    BY <2>0, <2>1, <2>3, <2>6, ZenonT(40) DEF Opened, Signaled
  <2>8. Signalers' = Signalers /\ Counted' = Counted
    BY <2>0, <2>1, Zenon DEF Signalers, Counted
  <2>9. ASSUME NEW u \in Threads PROVE Pending(u)' = Pending(u) /\ (Pending(u) # {} => pc'[u] = "drain")
    <3>1. Pending(u)' = Pending(u)
      BY <2>0, <2>1, Zenon DEF Pending
    <3>2. Pending(u) # {} => pc[u] = "drain"
      BY Zenon DEF JInv, Refs
    <3> QED
      BY <2>0, <2>1, <3>1, <3>2, Zenon
  <2>10. Statuses'
    <3>0. Status(t)
      BY Facts, Zenon
    <3>1. InWait(t)'
      BY <2>0, <2>1, <2>2, <3>0, Zenon DEF Status, InWait, Calling, Signaling
    <3>2. Status(t)'
      BY <2>0, <2>1, <2>2, <3>1, Zenon DEF Status
    <3>3. ASSUME NEW s \in Threads, s # t PROVE prev'[s] = prev[s] \/ state[s] # "none"
      <4>1. s = next[t] => s \in Members
        BY <2>2, <2>3, Shape, Zenon
      <4> QED
        BY <2>0, <4>1, MemberState, Zenon
    <3> QED
      BY <2>0, <2>1, <3>2, <3>3, NearStatus, ZenonT(40)
  <2>11. Refs'
    BY <2>0, <2>9, Zenon DEF JInv, Refs
  <2>12. Count'
    <3>1. ASSUME NEW p \in Opened PROVE next'[p] = next[p]
      <4>1. p \in Threads /\ p # prev[t]
        BY <2>2, <2>3, Shape, Zenon DEF Opened, Signaled
      <4> QED
        BY <2>0, <4>1, Zenon
    <3>2. Baton' = Baton
      BY <2>7, <3>1, Zenon DEF Baton
    <3> QED
      BY <2>0, <2>8, <3>2, Zenon DEF JInv, Count
  <2>13. Lists'
    <3>1. ListsOf(Queued, Leaving, Signaled, Members \ Opened, Signalers, notify, prev, next, head, tail, first)
      BY Zenon DEF JInv, Lists
    <3>2. ListsOf(Queued \ {t}, Leaving \ {t}, Signaled, (Members \ Opened) \ {t}, Signalers, notify,
                  prev', next', head', tail', first)
      <4>1. Unlinks(t, head, tail, prev, next, head', tail', prev', next')
        BY <2>0, Zenon DEF Unlinks
      <4> QED
        BY <2>3, <2>t, <3>1, <4>1, LeaveLists, Zenon
    <3>3. Members' \ Opened' = (Members \ Opened) \ {t}
      BY <2>3, <2>5, <2>6, <2>7, Zenon DEF Members
    <3> QED
      BY <2>0, <2>5, <2>6, <2>8, <3>2, <3>3, ZenonT(40) DEF Lists
  <2> QED
    BY <2>4, <2>10, <2>11, <2>12, <2>13, ZenonT(40) DEF JInv
(* A leaving waiter tells the signaler that has seen it leave.               *)
<1>8. CASE Notify(t)
  <2> USE <1>0, <1>8
  <2>0. /\ pc[t] = "notify" /\ script' = script /\ reg' = reg /\ waiters' = waiters
        /\ head' = head /\ tail' = tail /\ prev' = prev /\ next' = next /\ state' = state
        /\ notify' = notify /\ barrier' = barrier /\ first' = first /\ pc' = [pc EXCEPT ![t] = "relock"]
    BY Zenon DEF Notify, At, Goto, mutex, nodes, list
  <2>t. /\ pc \in [Threads -> Labels] /\ notify \in [Threads -> Pointer] /\ ref \in [Threads -> Nat]
        /\ asleep \in [Threads -> {"no", "mutex", "barrier", "ref"}]
    BY TypesOf, Zenon
  <2>1. /\ pc'[t] = "relock" /\ "relock" \in Past
        /\ \A s \in Threads : s # t => pc'[s] = pc[s]
    BY <2>0, <2>t, Zenon DEF Past
  <2>2. state[t] = "leaving" /\ t # NIL /\ NIL \notin Threads
    BY <2>0, StateAt, ThreadConstants, Zenon
  <2>4. Queued' = Queued /\ Leaving' = Leaving
    BY <2>0, <2>1, Zenon DEF Queued, Leaving
  <2>5. Signaled' = Signaled
    BY <2>0, <2>1, Zenon DEF Signaled
  <2>6. Opened' = Opened
    <3>1. \A s \in Signaled : pc'[s] \in Past <=> pc[s] \in Past
      BY <2>1, <2>2, Zenon DEF Signaled
    <3> QED
      BY <2>0, <2>5, <3>1, Zenon DEF Opened
  <2>7. Signalers' = Signalers /\ Counted' = Counted
    BY <2>0, <2>1, Zenon DEF Signalers, Counted
  <2>9. Status(t)'
    <3>1. Status(t)
      BY Facts, Zenon
    <3>2. InWait(t)
      BY <2>2, <3>1, Zenon DEF Status
    <3>3. InWait(t)'
      BY <2>0, <2>1, <3>2, Zenon DEF InWait, Calling, Signaling
    <3> QED
      BY <2>0, <2>1, <2>2, <3>1, <3>3, ZenonT(40) DEF Status
  <2>10. Statuses'
    BY <2>0, <2>1, <2>9, OthersStatus, Zenon
  <2>11. CASE notify[t] = NIL
    <3>0. ref' = ref /\ asleep' = asleep
      BY <2>11, Zenon DEF Notify
    <3>1. TypeOK'
      BY <2>0, <3>0, Zenon DEF JInv, TypeOK, Types
    <3>2. ASSUME NEW u \in Threads PROVE Pending(u)' = Pending(u) /\ (Pending(u) # {} => pc'[u] = "drain")
      <4>1. Pending(u)' = Pending(u)
        BY <2>0, <2>1, <2>2, <2>11, Zenon DEF Pending
      <4>2. Pending(u) # {} => pc[u] = "drain"
        BY Zenon DEF JInv, Refs
      <4> QED
        BY <2>0, <2>1, <4>1, <4>2, Zenon
    <3> QED
      BY <2>0, <3>0, <3>1, <3>2, <2>4, <2>5, <2>6, <2>7, <2>10, SameNodes, ZenonT(40)
  <2>12. CASE notify[t] # NIL
    <3>u. PICK u \in Threads : u = notify[t]
      BY <2>12, <2>t, Zenon DEF Pointer
    <3>0. /\ ref' = [ref EXCEPT ![u] = @ - 1]
          /\ asleep' = IF ref'[u] = 0 THEN [asleep EXCEPT ![u] = "no"] ELSE asleep
      BY <2>12, <3>u, Zenon DEF Notify
    <3>1. t \in Pending(u) /\ Pending(u) \in SUBSET Threads
      BY <2>0, <3>u, Zenon DEF Pending
    <3>2. /\ ref[u] = Cardinality(Pending(u)) /\ pc[u] = "drain"
      BY <3>0, <3>1, Zenon DEF JInv, Refs
    <3>3. /\ Cardinality(Pending(u)) \in Nat /\ Cardinality(Pending(u)) # 0
          /\ Cardinality(Pending(u) \ {t}) = Cardinality(Pending(u)) - 1
      BY <3>1, Cards, Zenon
    <3>4. Pending(u)' = Pending(u) \ {t}
      BY <2>0, <2>1, Zenon DEF Pending
    <3>5. ASSUME NEW v \in Threads, v # u PROVE Pending(v)' = Pending(v)
      <4>1. t \notin Pending(v) /\ t \notin Pending(v)'
        BY <2>0, <3>5, <3>u, Zenon DEF Pending
      <4> QED
        BY <2>0, <2>1, <4>1, Zenon DEF Pending
    <3>6. Refs'
      <4>1. ASSUME NEW v \in Threads
            PROVE  ref'[v] = Cardinality(Pending(v)') /\ (Pending(v)' # {} => pc'[v] = "drain")
        <5>1. CASE v = u
          <6>1. u # t
            BY <2>0, <3>2, Zenon
          <6> QED
            BY <2>1, <2>t, <3>0, <3>2, <3>3, <3>4, <5>1, <6>1, ZenonT(40)
        <5>2. CASE v # u
          <6>1. ref[v] = Cardinality(Pending(v)) /\ (Pending(v) # {} => pc[v] = "drain")
            BY Zenon DEF JInv, Refs
          <6>2. ref'[v] = ref[v]
            BY <2>t, <3>0, <5>2, Zenon
          <6> QED
            BY <2>0, <2>1, <3>5, <5>2, <6>1, <6>2, ZenonT(40)
        <5> QED
          BY <5>1, <5>2, Zenon
      <4> QED
        BY <4>1, Zenon DEF Refs
    <3>7. TypeOK'
      <4>1. ref' \in [Threads -> Nat]
        <5>1. ref[u] - 1 \in Nat
          BY <3>2, <3>3
        <5> QED
          BY <2>t, <3>0, <5>1, Zenon
      <4>2. asleep' \in [Threads -> {"no", "mutex", "barrier", "ref"}]
        BY <2>t, <3>0, Zenon
      <4> QED
        BY <2>0, <4>1, <4>2, Zenon DEF JInv, TypeOK, Types
    <3>8. Members' = Members /\ Baton' = Baton
      BY <2>0, <2>4, <2>5, <2>6, Zenon DEF Members, Baton
    <3>9. Count' /\ Lists'
      BY <2>0, <2>4, <2>5, <2>6, <2>7, <3>8, ZenonT(40) DEF JInv, Count, Lists
    <3> QED
      BY <2>10, <3>6, <3>7, <3>9, Zenon DEF JInv
  <2> QED
    BY <2>11, <2>12, Zenon
<1> QED
  BY <1>1, <1>2, <1>3, <1>4, <1>5, <1>6, <1>7, <1>8, ZenonT(40) DEF WaiterStep
=============================================================================
