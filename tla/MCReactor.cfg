CONSTANTS
  PoolSize = 2
  Conns = {c1, c2}
  Fds = {0}
  PairCapacity = 1
  None = None
SPECIFICATION Spec
SYMMETRY Symmetric
INVARIANTS TypeOK NoLostWakeup RightConnection AttendedUnlessShadowed
PROPERTIES UnsetWindow
