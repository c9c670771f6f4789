CONSTANTS
  Servers = {s1, s2}
  Main = main
  Fds = {1, 2, 3, 4}
  number = 2
  None = None
  Caller = {t1, t2, t3}
  MaxDepth = 3
  MaxTimeouts = 2
  Parts = {"queue"}
SPECIFICATION AnySpec
PROPERTIES WaitsOnlyWhenEmpty
