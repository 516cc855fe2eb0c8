SPECIFICATION Spec
CONSTANTS
  NT = 3
  Tids = {1, 2, 3, 4}
INVARIANTS
  NoLostWakeup
  SomebodyEnds
PROPERTIES
  EndsAlone
CHECK_DEADLOCK FALSE
