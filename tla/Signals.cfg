SPECIFICATION FairSpec
CONSTANTS
  Threads = {t1, t2}
  Killers = {k1}
  Sigs = {9, 17, 19}
  Masks = {{}, {9, 17, 19}}
  Actions = {"SIG_IGN", "user"}
  NCPU = 1
INVARIANTS KillAndStopUnblocked StoppedIsWatched
PROPERTIES PendingIsExact ContinueResumes KillEnds
CHECK_DEADLOCK FALSE
