SPECIFICATION FairSpec
CONSTANTS
  Codes <- TwoCodes
  RobotTokens <- MaybeConfigured
  LossPolicy = "pause"
  MaxAttempt = 2
  MaxFaults = 2
  ReadOutcomes <- Works
  SaveOutcomes <- MayFail
  ClearOutcomes <- Works
  LoopMayFail = FALSE
INVARIANTS
  TypeOK
  UpIsAuthenticated
PROPERTIES
  GetsBack
  LostLinkPauses
