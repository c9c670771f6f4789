CONSTANTS
  PoolSize = 1
  Conns = {c1, c2}
  Fds = {0, 1}
  PairCapacity = 1
  None = None
SPECIFICATION FairSpec
PROPERTIES Served
