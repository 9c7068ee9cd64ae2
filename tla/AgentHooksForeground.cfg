SPECIFICATION Spec
CONSTANTS
  reviewer = reviewer
  worker = worker
  m = m
  Main = Main
  None = None
  ToolUses = {u1, u2, u3}
  Agents = {reviewer, worker}
  Modes = {m}
  MainKinds <- MCBoth
  ExplicitAgents = {}
  MaxCommands = 1
  Async = FALSE
  HookKills = TRUE
SYMMETRY MCSymmetry
INVARIANTS ReceiptsIntact ReceiptCorrelated OneOutcome
CHECK_DEADLOCK FALSE
