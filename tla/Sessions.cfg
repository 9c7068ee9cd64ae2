SPECIFICATION FairSpec
CONSTANTS
  None = None
  s1 = s1
  p1 = p1
  Sessions = {s1, s2}
  Pids = {p1, p2}
  MaxRuns = 2
  MaxScan = 1
  ChainFails = TRUE
  Sleeps = FALSE

INVARIANTS OpenRunKept
PROPERTIES OwnRunsOnly EndRunHealsOne
CHECK_DEADLOCK FALSE
