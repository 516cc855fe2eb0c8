SPECIFICATION Spec
CONSTANTS
  NT = 2
  Tids = {1, 2, 3, 4}
INVARIANTS
  NotFreedWhileRunning
CHECK_DEADLOCK FALSE
