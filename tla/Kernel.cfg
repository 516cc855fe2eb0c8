SPECIFICATION Spec
CONSTANTS
  Procs = {p1, p2}
  Nobody = Nobody
  UINT = 4
  MaxN = 3
  PIPESIZE = 2
  INPUT_BUF = 2
  NFRAMES = 20
  FAN = 2
  MAXPAGE = 8
  MaxSize = 4
  DiskProcs = {q1, q2, q3}
  Bufs = {b1, b2, b3}
  Blocks = {k1}
  Values = {v1}
  NUM = 8
  None = None
  NoIO = NoIO
  NPROC = 3
  FsProcs = {r1, r2}
  Names = {a, b}
  NInodes = 3
  MaxOpen = 1
  MaxLinks = 2
  Opens = {a, b}
  Files = {a, b}
  NBlocks = 4
  BSIZE = 2
  NDIRECT = 1
  BPB = 1
  MAXOPBLOCKS = 6
  Sizes = {1, 4}
  Torn = Torn
SYMMETRY Symmetry
INVARIANTS
  PipeSafe ReaderSleeps FramesConserved DescriptorsAccounted
    FilesSafe
PROPERTIES
  ImplementsFifo ImplementsLineEditor ImplementsByteFile
CHECK_DEADLOCK FALSE
