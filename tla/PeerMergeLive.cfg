SPECIFICATION FairSpec
CONSTANTS
  t1 = t1
  t2 = t2
  None = None
  Sessions = {s1, s2}
  Operators = {op}
  Tokens = {k1, k2}
  Tasks <- MCTasks
  Registered = {t2}
  Prior <- MCPrior
  ReclaimLive = {}
PROPERTY LockEventuallyFreed
CHECK_DEADLOCK FALSE
