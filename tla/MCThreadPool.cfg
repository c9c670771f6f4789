CONSTANTS
  Workers = {w1, w2}
  Clients = {c1}
  Main = main
  Tasks = {t1, t2, t3, t4}
  QueueSize = 2
  CallersFirst = TRUE
  MaxSpurious = 1
  None = None
SPECIFICATION FairSpec
INVARIANTS FifoRing WorkConserving NoUseAfterFree GracefulDrains
PROPERTIES ImplementsTaskPool AcceptedRuns DestroyReturns
