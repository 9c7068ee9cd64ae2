SPECIFICATION Spec
CONSTANTS
  NTasks = 2
  Story <- MCStory
  MaxCommits = 1
  NChanges = 1
  RecoveryLimit = 1
  Chains <- MCChains
  OtherMarks = {"running", "blocked"}
INVARIANTS NoDirtyHandover ReceiptInBounds NonPassNeverCompletes
  WorkHasOpenStep
PROPERTIES LineSpec
CHECK_DEADLOCK FALSE
