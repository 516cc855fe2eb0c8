SPECIFICATION Spec
CONSTANTS
  NPROC = 3
  NCPU = 2
  QUANTUM = 1
  ALPHA = 50
  Policies = {"DEFAULT", "FCFS", "SRT", "CFSD"}
  Decays = {1, 5}
  NORMALP = 5
  IntBits = 5
  MaxTicks <- CountedTicks
  UsedCPUs <- SchedCPUs
 
PROPERTIES NobodyForgotten ChoosesLeast
CHECK_DEADLOCK FALSE
