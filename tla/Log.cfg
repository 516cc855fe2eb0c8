SPECIFICATION FairSpec
CONSTANTS
  Blocks = {b1, b2, b3}
  Values = {0, 1}
  Procs = {p1, p2, p3}
  MAXOPBLOCKS = 1
  LOGSIZE = 2
  NLOG = 3
  Nobody = Nobody
INVARIANTS
  LogSafe
PROPERTIES
  ImplementsAtomicDisk
  SomeOpBegins
