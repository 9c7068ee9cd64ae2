SPECIFICATION FairSpec
CONSTANTS
  reviewer = reviewer
  worker = worker
  m = m
  Main = Main
  None = None
  ToolUses = {u1, u2}
  Agents = {reviewer, worker}
  Modes = {m}
  MainKinds <- MCModeful
  ExplicitAgents = {worker}
  MaxCommands = 2
  Async = FALSE
  HookKills = FALSE
PROPERTIES StepsClose
CHECK_DEADLOCK FALSE
