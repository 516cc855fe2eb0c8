SPECIFICATION Spec
CONSTANTS
  MAX_PSYC_PAGES = 2
  MAX_TOTAL_PAGES = 4
  Policies = {"NFUA", "LAPA", "SCFIFO"}
  AGE_BITS = 2
  MaxPage = 5
  MaxCalls = 3
INVARIANTS TableConsistent ContentsSurvive 
PROPERTIES VictimIsRight
CHECK_DEADLOCK FALSE
