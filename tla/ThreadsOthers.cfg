SPECIFICATION FairSpec
CONSTANTS
  NT = 2
  Tids = {1, 2, 3, 4}
PROPERTIES
  OthersDie
CHECK_DEADLOCK FALSE
