SPECIFICATION Spec
CONSTANTS
  NTasks = 2
  Story <- MCStory
  MaxCommits = 1
  NChanges = 1
  RecoveryLimit = 1
  Chains <- MCChains
  OtherMarks = {"running"}
INVARIANT BlockedRunStops
CHECK_DEADLOCK FALSE
