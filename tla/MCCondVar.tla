----------------------------- MODULE MCCondVar -----------------------------
EXTENDS CondMonitor, TLC
CONSTANTS t1, t2, t3

Waiter(wait) == <<"lock", wait, "unlock">>
Under(signal) == <<"lock", signal, "unlock">>

(* Two waiters, of which one may time out, and a third thread that signals   *)
(* twice or wakes all, with or without the mutex.                            *)
MCScripts ==
  {t1 :> Waiter(c[1]) @@ t2 :> Waiter("timedwait") @@ t3 :> c[2] :
     c \in {<<"wait", Under("broadcast")>>, <<"timedwait", <<"broadcast">>>>,
            <<"wait", <<"signal", "signal">>>>}}
=============================================================================
