SPECIFICATION FairSpec
CONSTANTS
  t1 = t1
  t2 = t2
  t3 = t3
  NIL = NIL
  Threads = {t1, t2, t3}
  Scripts <- MCScripts
INVARIANTS TypeOK MutualExclusion NoLostWakeup NoDangling
PROPERTIES ImplementsMonitor SignaledReturns
CHECK_DEADLOCK FALSE
