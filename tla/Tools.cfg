SPECIFICATION Spec
CONSTANTS
  None = None
  Whole = Whole
  Broken = Broken
  Damaged = Damaged
  Main = Main
  Unknown = Unknown
  a = a
  b = b
  x = x
  y = y
  login = login
  src = src
  testdir = testdir
  Manifests <- MCManifests
  ScreenStates = {"shown", "empty"}
  MaxJourneys = 3
  MaxDamaged = 1
  Callers = {"build-worker", "architect", "validator"}
  OverrideFiles <- MCOverrideFiles
  Scopes <- MCScopes
  Commands <- MCCommands
  SourceFiles <- MCSourceFiles
  Presets <- MCPresets
  Contracts <- MCContracts
  TestRoot = testdir
  NumStories = 2
  MaxIssues = 4
  Triaged = {2}
  Issues = {1, 2}
  IssueKinds <- MCIssueKinds
  Bodies <- MCBodies
  MaxDenials = 2
  Workers = {1, 2}
  TotalTimeout = 2
  IdleTimeout = 1
  Answers <- MCAnswers
  Launches = {1, 2}
  Providers = {"codex-headless", "claude-headless"}
  MaxRuns = 2
  Observations <- MCObservations
VIEW MCView
INVARIANTS
  SkipBacked
  CloseReadySound
  RolesApart
  StoryOnce
  RetainedLabelSeen
  
  RetriedOnce
  CacheExact
PROPERTIES
  GuardKept
  
  RegisteredTested
  TriageKept
  
CHECK_DEADLOCK FALSE
