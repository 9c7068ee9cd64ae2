SPECIFICATION Spec
CONSTANTS
  t1 = t1
  t2 = t2
  None = None
  Sessions = {s1, s2, s3}
  Operators = {op}
  Tokens = {k1, k2, k3}
  Tasks <- MCTasks
  Registered <- MCTasks
  Prior <- MCPrior
  ReclaimLive = {}
SYMMETRY MCSymmetry
INVARIANTS GuardedMergesInOrder
   
PROPERTIES SerialSpec
CHECK_DEADLOCK FALSE
