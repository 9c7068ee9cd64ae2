SPECIFICATION Spec
CONSTANTS
  t1 = t1
  t2 = t2
  None = None
  Sessions = {s1, s2}
  Operators = {op1, op2}
  Tokens = {k1, k2}
  Tasks <- MCOneTask
  Registered <- MCOneTask
  Prior <- MCNoPrior
  ReclaimLive = {"claimed", "failed"}
SYMMETRY MCSymmetry
INVARIANT CompletedIsMerged
CHECK_DEADLOCK FALSE
