SPECIFICATION Spec
CONSTANTS
  Threads = {t1}
  Killers = {k1}
  Sigs = {1, 2}
  Masks = {{}}
  Actions = {"user"}
  NCPU = 1
INVARIANTS HandlersDoNotNest
CHECK_DEADLOCK FALSE
