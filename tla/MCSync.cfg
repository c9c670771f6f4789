CONSTANTS
  Servers = {s1, s2}
  Main = main
  Fds = {1, 2, 3, 4, 5, 6, 7}
  number = 3
  None = None
  Caller = {t1, t2, t3}
  MaxDepth = 3
  MaxTimeouts = 2
  Parts = {"queue", "mutex", "once", "cnd"}
SPECIFICATION FairAnySpec
INVARIANTS NoLostWakeup LocksAndWaits OnceOnly
PROPERTIES ImplementsBoundedQueue Served OnceReturns
