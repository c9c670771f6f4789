CONSTANTS
  Byte = {a, b}
  Garbage = Garbage
  InitSize = 3
  Chunks <- SmallChunks
  MaxSize = 6
  Parts = {"buffer", "http", "alive", "rot"}
  Conns = {c1, c2}
  Url = {u1, u2}
  Page = u1
  MaxRequests = 2
  Room = 1
  None = None
  KEEP_ALIVE_TIME = 10
  KEEP_ALIVE_INTERVAL = 3
  KEEP_ALIVE_PROBETIMES = 3
  SleepingTimes = {0, 2, 7, 8, 9, 12}
  Jitter = 1
  FD_INIT_SIZE = 2
  MAX_LINE = 2
  Window = 1
  MaxBytes = 3
SPECIFICATION FairAnySpec
INVARIANTS AnswersFollowRequests GivenUpRightly StreamEchoed
PROPERTIES ImplementsByteQueue WholeRequestsAnswered LossNoticed LineSentBack
CHECK_DEADLOCK FALSE
