SPECIFICATION FairSpec
CONSTANTS
  N = 3
  NSem = 1
  CPUs = {c1, c2}
  MaxUnits = 2
  NoThread = NoThread
INVARIANTS
  UnitsConserved
  NoLostWakeup
  SchedSafe
PROPERTIES
  ImplementsCountingSem
  SleeperWoken
