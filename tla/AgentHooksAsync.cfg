SPECIFICATION Spec
CONSTANTS
  reviewer = reviewer
  worker = worker
  m = m
  Main = Main
  None = None
  ToolUses = {u1, u2}
  Agents = {reviewer, worker}
  Modes = {m}
  MainKinds <- MCPlain
  ExplicitAgents = {}
  MaxCommands = 2
  Async = TRUE
  HookKills = TRUE
SYMMETRY MCSymmetry
INVARIANT NothingLateAfterFinish
PROPERTIES StepLogSpec
CHECK_DEADLOCK FALSE
