SPECIFICATION FairSpec
CONSTANTS
  N = 4
  MCMaxCap = 3
  Places = {1, 2, 3, 4, 5}
  Risky = {5}
  Unknown = Unknown
  Batches <- MCBatches
  Normalized <- MCNormalized
  HighRisks <- MCHighRisks
  Caps <- MCCaps
INVARIANTS WavesIndependent DepsFirst
PROPERTIES PlanFinishes
CHECK_DEADLOCK FALSE
