CONSTANTS
  Parts = {"parser", "values", "number", "string", "array", "frames", "lines", "edge", "keys"}
  Block = {1, 2, 3, 4, 5}
  InitSize = 2
  ValueBytes = 3
  MemberBytes = 5
  MaxText = 8
  MaxBlank = 1
  Root = {v1, v2}
  Cell = {1, 2, 3}
  None = None
  Unset = Unset
  MaxCapacity = 2
  Scalars = {"null"}
  MaxNumber = 5
  Units = {0, 31, 34, 127, 128, 2047, 2048, 55295, 55296, 56319, 56320, 57343, 57344, 65535}
  Literals = {1, 47, 65}
  Escapes = {34, 92, 47, 98, 110, 120}
  MaxPieces = 3
  INIT_POLL_SIZE = 4
  INIT_MAP_SIZE = 2
  LastFd = 5
  Word = 2
  DataSize = 3
  Letters = {1, 2}
  MaxLines = 2
  BufferSize = 3
  Length = 4
  MaxTyped = 5
  Client = {c1, c2}
  Listener = Listener
  MAXEVENTS = 2
  BufSize = 2
  MaxSent = 3
  MAX_CHAR = 4
  MaxKeys = 5
SYMMETRY Sym
SPECIFICATION AnySpec
INVARIANTS StackOfCalls OwnedOnce TextsReadRight BlocksSafe ServedRight
CHECK_DEADLOCK FALSE
