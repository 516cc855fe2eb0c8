SPECIFICATION Spec
CONSTANTS
  NT = 2
  Tids = {1, 2, 3, 4}
  DiskProcs = {1, 2}
  Bufs = {b1, b2}
  Blocks = {k1}
  Values = {v1}
  NUM = 8
  None = None
  NoIO = NoIO
  NPROC = 3
  NCPU = 2
  QUANTUM = 1
  Writers = {w1, w2}
  UART_TX_BUF_SIZE = 2
PROPERTIES
  JoinReturns ProcessEnds QueuedReturns RunnableRuns PutcWoken
CHECK_DEADLOCK FALSE
