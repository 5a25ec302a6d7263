----------------------------- MODULE CondNodes ------------------------------
(***************************************************************************)
(* The lists that the nodes of the waiting threads are in, seen apart from *)
(* the steps that change them: what it takes for the links to be those of  *)
(* the condition variable's list and of the groups that signals have split *)
(* off from it, and how a step may change them.                            *)
(***************************************************************************)
EXTENDS CondThreads

(* The lists of nodes.  N are the nodes that are linked, F those of them     *)
(* whose barrier has not been opened; I is the list of the condition         *)
(* variable, L are the leaving nodes and S the signaled ones of the groups   *)
(* that signals have split off.  g says which group a node is of: none, {},  *)
(* one that its signaler t still waits with, {t}, or one that hands the      *)
(* mutex on, {NIL}.  r grows from the oldest node to the newest.             *)
Linked(N, F, pv, nx, g, r) ==
  /\ \A p \in N : pv[p] # NIL => pv[p] \in F /\ nx[pv[p]] = p /\ g[pv[p]] = g[p]
  /\ \A p \in F : nx[p] # NIL =>
       nx[p] \in N /\ pv[nx[p]] = p /\ g[nx[p]] = g[p] /\ r[nx[p]] < r[p]

Ends(I, hd, tl, pv, nx) ==
  /\ hd \in I \cup {NIL} /\ tl \in I \cup {NIL} /\ (hd = NIL <=> tl = NIL)
  /\ \A p \in I : (pv[p] = NIL <=> p = hd) /\ (nx[p] = NIL <=> p = tl)

Grouped(I, L, N, F, nt, nx, g) ==
  /\ \A p \in N : p \in I <=> g[p] = {}
  /\ \A p \in L : nt[p] \in Threads /\ g[p] = {nt[p]}
  /\ \A p \in N \ F : g[p] = {NIL}
  /\ \A p, q \in F : g[p] = g[q] /\ g[p] # {NIL} /\ nx[p] = NIL /\ nx[q] = NIL => p = q
  /\ \A p \in F : g[p] = {NIL} => nx[p] # NIL

(* Each signaler waits with its group, and its first is the oldest signaled. *)
Led(S, F, A, fst, g, r) ==
  /\ \A p \in S : \A t \in Threads : g[p] = {t} => t \in A /\ fst[t] # NIL /\ r[fst[t]] <= r[p]
  /\ \A t \in A : fst[t] # NIL => fst[t] \in S /\ fst[t] \in F /\ g[fst[t]] = {t}

Sets(I, L, S, N, F) ==
  /\ N \subseteq Threads /\ F \subseteq N /\ I \subseteq F /\ L \subseteq F /\ S \subseteq N
  /\ N = I \cup L \cup S /\ N \ F \subseteq S
  /\ I \cap L = {} /\ I \cap S = {} /\ L \cap S = {}

Groups == {{}} \cup {{p} : p \in Pointer}
Ghosts(g, r, n) ==
  /\ g \in [Threads -> Groups] /\ r \in [Threads -> Nat] /\ n \in Nat
  /\ \A p \in Threads : r[p] < n

Built(I, L, S, N, F, A, nt, pv, nx, hd, tl, fst, g, r, n) ==
  /\ Sets(I, L, S, N, F) /\ Ghosts(g, r, n)
  /\ Linked(N, F, pv, nx, g, r) /\ Ends(I, hd, tl, pv, nx)
  /\ Grouped(I, L, N, F, nt, nx, g) /\ Led(S, F, A, fst, g, r)

(* A waiter puts its node at the head of the list.                           *)
Enqueues(t, hd, tl, pv, nx, g, r, n, pv2, nx2, g2, r2) ==
  /\ pv2 = [p \in Threads |-> IF p = hd /\ tl # NIL THEN t ELSE pv[p]]
  /\ nx2 = [nx EXCEPT ![t] = hd]
  /\ g2 = [g EXCEPT ![t] = {}] /\ r2 = [r EXCEPT ![t] = n]

(* A waiter that stops waiting takes its node out of the list it is in.      *)
Unlinks(t, hd, tl, pv, nx, hd2, tl2, pv2, nx2) ==
  /\ hd2 = IF hd = t THEN nx[t] ELSE hd
  /\ tl2 = IF tl = t THEN pv[t] ELSE tl
  /\ nx2 = [p \in Threads |-> IF hd # t /\ p = pv[t] THEN nx[t] ELSE nx[p]]
  /\ pv2 = [p \in Threads |-> IF tl # t /\ p = nx[t] THEN pv[t] ELSE pv[p]]

(* A signaler opens the barrier of the first of its group, once all that     *)
(* were leaving are gone from it.                                            *)
Opens(t, g, g2) == g2 = [p \in Threads |-> IF g[p] = {t} THEN {NIL} ELSE g[p]]

(* A signal splits the visited nodes V off the end of the list: those it     *)
(* hit are signaled, the others are leaving and will tell it.                *)
Split(I, V, rest, hd, tl, pv, nx) ==
  /\ V \subseteq I /\ rest \in (I \ V) \cup {NIL}
  /\ tl \in V \cup {NIL} /\ (tl = NIL => V = {})
  /\ \A p \in V : pv[p] \in V \cup {rest} /\ nx[p] \in V \cup {NIL}
  /\ rest # NIL => nx[rest] \in V
  /\ rest = NIL => hd \in V \cup {NIL}

Splits(t, V, rest, hits, f, hd, nt, pv, nx, fst, g, hd2, nt2, pv2, nx2, fst2, g2) ==
  /\ hd2 = IF rest = NIL THEN NIL ELSE hd
  /\ pv2 = [p \in Threads |-> IF rest # NIL /\ p = nx[rest] THEN NIL ELSE pv[p]]
  /\ nx2 = [p \in Threads |-> IF p = rest THEN NIL ELSE nx[p]]
  /\ nt2 = [p \in Threads |-> IF p \in V \ hits THEN t ELSE nt[p]]
  /\ g2 = [p \in Threads |-> IF p \in V THEN {t} ELSE g[p]]
  /\ fst2 = [fst EXCEPT ![t] = f]

Pointers(nt, pv, nx, hd, tl, fst) ==
  /\ nt \in [Threads -> Pointer] /\ fst \in [Threads -> Pointer]
  /\ pv \in [Threads -> Pointer] /\ nx \in [Threads -> Pointer]
  /\ hd \in Pointer /\ tl \in Pointer
Unused(N, g, t) == \A p \in N : g[p] # {t}
Leads(f, hits, r) ==
  /\ f # NIL => f \in hits
  /\ \A p \in hits : f # NIL /\ r[f] <= r[p]

Parts(I, L, S, N, F, A, nt, pv, nx, hd, tl, fst, g, r, n, V, rest, hits, f, t) ==
  /\ Built(I, L, S, N, F, A, nt, pv, nx, hd, tl, fst, g, r, n)
  /\ Pointers(nt, pv, nx, hd, tl, fst) /\ Split(I, V, rest, hd, tl, pv, nx)
  /\ t \in Threads /\ A \subseteq Threads /\ hits \subseteq V
  /\ Unused(N, g, t) /\ Leads(f, hits, r)

(* What Walk is: it follows prev from the tail on.                           *)
Follows(W, m, tl, pv) ==
  /\ W[1] = tl
  /\ \A k \in 1..m : W[k + 1] = IF W[k] = NIL THEN NIL ELSE pv[W[k]]

(* Along the walk are the nodes of the list, each newer than the one before. *)
Rising(W, m, I, nx, r) ==
  /\ \A k \in 1..(m + 1) : W[k] \in I \cup {NIL}
  /\ \A k \in 1..m : W[k + 1] # NIL => W[k] # NIL /\ nx[W[k + 1]] = W[k]
  /\ \A j, k \in 1..(m + 1) : j < k /\ W[k] # NIL => W[j] # NIL /\ r[W[j]] < r[W[k]]

(* The links are those of lists, for some groups and ranks of the nodes.     *)
ListsOf(I, L, S, F, A, nt, pv, nx, hd, tl, fst) ==
  \E g, r, n : Built(I, L, S, I \cup L \cup S, F, A, nt, pv, nx, hd, tl, fst, g, r, n)

(* t is signaled and past its barrier: it can hand over.                     *)
HandsOver(I, L, S, F, A, nt, pv, nx, hd, tl, fst, t) ==
  /\ pv \in [Threads -> Pointer] /\ nx \in [Threads -> Pointer]
  /\ ListsOf(I, L, S, F, A, nt, pv, nx, hd, tl, fst)
  /\ A \subseteq Threads /\ t \in (I \cup L \cup S) \ F

(* Then the next one to go, if any, is the waiter behind it on its list.     *)
HandedOver(I, L, S, F, A, nt, pv, nx, hd, tl, fst, t) ==
  /\ pv[t] # NIL => pv[t] \in S /\ pv[t] \in F /\ pv[t] # t /\ nx[pv[t]] = t
  /\ ListsOf(I, L, S \ {t}, F \ {pv[t]}, A, nt, pv, nx, hd, tl, fst)

(* The lists are as they were when their nodes and signalers are.            *)
SameIn(N, nt, pv, nx, nt2, pv2, nx2) ==
  \A p \in N : nt2[p] = nt[p] /\ pv2[p] = pv[p] /\ nx2[p] = nx[p]

SameFirst(A, fst, A2, fst2) ==
  /\ A2 \subseteq A /\ A \subseteq Threads
  /\ \A u \in A \ A2 : fst[u] = NIL
  /\ \A u \in A2 : fst2[u] = fst[u]

(* W is the walk from the tail on, the first last places of it the visited   *)
(* nodes V, rest the one behind them; hits are those of V that are signaled, *)
(* and f is the one of them at the least place, i.                           *)
Visits(W, m, last, V, rest, hits, f, i, tl, pv) ==
  /\ Follows(W, m, tl, pv) /\ m \in Nat /\ last \in 1..m /\ i \in 1..m
  /\ V = {W[k] : k \in 1..last} \ {NIL} /\ rest = W[last + 1] /\ hits \subseteq V
  /\ f # NIL => f \in hits
  /\ hits # {} => f # NIL /\ f = W[i] /\ \A k \in 1..last : W[k] \in hits => i <= k

Marks(t, V, rest, hits, f, hd, nt, pv, nx, fst, hd2, nt2, pv2, nx2, fst2) ==
  /\ hd2 = IF rest = NIL THEN NIL ELSE hd
  /\ pv2 = [p \in Threads |-> IF rest # NIL /\ p = nx[rest] THEN NIL ELSE pv[p]]
  /\ nx2 = [p \in Threads |-> IF p = rest THEN NIL ELSE nx[p]]
  /\ nt2 = [p \in Threads |-> IF p \in V \ hits THEN t ELSE nt[p]]
  /\ fst2 = [fst EXCEPT ![t] = f]
=============================================================================
