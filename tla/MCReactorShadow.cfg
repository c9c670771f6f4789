CONSTANTS
  PoolSize = 1
  Conns = {c1, c2}
  Fds = {0}
  PairCapacity = 1
  None = None
SPECIFICATION Spec
INVARIANTS Attended
CHECK_DEADLOCK FALSE
