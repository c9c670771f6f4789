CONSTANTS
  Tasks = {t1, t2}
  Workers = {w1, w2}
  Info = Info
  NULL = NULL
  Lengths = {1, 3}
  IntBits = 2
  MaxFile = 3
SPECIFICATION AnySpec
INVARIANTS OneTransfer CounterBalanced HandlerIsOwn RowFollowsTask CleanExit FileFollowsProgress
SYMMETRY Symmetric
