SPECIFICATION FairSpec
CONSTANTS
  None = None
  Kinds = {"validator", "acceptance", "worker"}
  Heads = {h1, h2}
  Texts <- MCPlainTexts
  LaneLite = TRUE
  Careless = FALSE
PROPERTIES CloseVerified BoundaryRespected StopLeavesWork VerifiedRunCloses
CHECK_DEADLOCK FALSE
