---------------------------- MODULE CondThreads ----------------------------
(***************************************************************************)
(* The threads that use a condition variable.  Each has at most one struct *)
(* waiter, on its stack, so that a pointer to one is the thread or NIL.    *)
(***************************************************************************)
EXTENDS Integers, Sequences, FiniteSets

CONSTANTS
  Threads,
  NIL         (* the null pointer                                           *)

ASSUME ThreadConstants == NIL \notin Threads /\ IsFiniteSet(Threads)

Pointer == Threads \cup {NIL}
=============================================================================
