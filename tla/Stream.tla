------------------------------- MODULE Stream -------------------------------
(***************************************************************************)
(* What struct stream of tools/stream/stream.h promises to its caller.     *)
(*                                                                         *)
(* read(s, consume, need, &len) drops the first consume bytes of what the  *)
(* previous call returned and returns a window of the bytes that follow:   *)
(* at least need of them unless the stream ends or fails first.  The bytes *)
(* are their offsets 0 .. Total - 1 in the data behind the stream.         *)
(***************************************************************************)
EXTENDS Naturals

CONSTANTS
  Total,     (* bytes behind the stream                                     *)
  Needs      (* values callers pass for need                                *)

VARIABLES
  pos,       (* bytes consumed so far                                       *)
  view,      (* the window returned last: its i-th byte, counted from 0     *)
  len,       (* *plen                                                       *)
  call,      (* "idle", or "busy" while a read is under way                 *)
  want,      (* need of that read                                           *)
  failed     (* a read has failed                                           *)

svars == <<pos, view, len, call, want, failed>>

Window(start, n) == [i \in 0..(n - 1) |-> start + i]

Init ==
  /\ pos = 0 /\ len = 0 /\ view = Window(0, 0)
  /\ call = "idle" /\ want = 0 /\ failed = FALSE

Call(consume, need) ==
  /\ call = "idle"
  /\ consume \in 0..len
  /\ call' = "busy" /\ want' = need
  /\ pos' = pos + consume
  /\ len' = 0 /\ view' = Window(0, 0)
  /\ UNCHANGED failed

(* A stream that has failed may still hand out bytes it had, never others.   *)
Return(n) ==
  /\ call = "busy"
  /\ pos + n <= Total
  /\ n >= want \/ pos + n = Total \/ failed
  /\ call' = "idle"
  /\ len' = n /\ view' = Window(pos, n)
  /\ UNCHANGED <<pos, want, failed>>

(* A read that fails may hand out bytes too, fewer than were asked for.      *)
Fail(n) ==
  /\ call = "busy"
  /\ pos + n <= Total
  /\ call' = "idle" /\ failed' = TRUE
  /\ len' = n /\ view' = Window(pos, n)
  /\ UNCHANGED <<pos, want>>

Next ==
  \/ \E consume \in 0..len, need \in Needs : Call(consume, need)
  \/ \E n \in 0..Total : Return(n) \/ Fail(n)

Spec == Init /\ [][Next]_svars
=============================================================================
