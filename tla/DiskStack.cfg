SPECIFICATION Spec
CONSTANTS
  Procs = {p1, p2}
  Bufs = {b1, b2}
  Blocks = {k1, k2, k3}
  Values = {v1, v2}
  NUM = 8
  None = None
  NoIO = NoIO
SYMMETRY Symmetry
INVARIANT CacheConsistent
PROPERTIES ImplementsBlockStore
CHECK_DEADLOCK FALSE
