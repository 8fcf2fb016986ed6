SPECIFICATION FairSpec
CONSTANTS
  NoFrame = NoFrame
  Views <- MCViews
  ScaleX = 2
  ScaleY = 2
  Width = 12
  Height = 4
  CenterBand = 4
  MinArea = 8
  SlowArea = 16
  StopArea = 24
  Full = 4
  CruiseSpeed = 3
  SlowSpeed = 1
  TurnSpeed = 2
  DecisionMaxSpeed = 4
  SafetyMaxSpeed = 2
  FullScale = 45
  Deadband = 5
  StopDistance = 1
  RequireRangeSensor = FALSE
  Navigations <- MCNavigations
  FrameStale = 0
  StaleAfter = 1
  MaxIntentAge = 1
  ErrorLimit = 2
  Metrics <- MCMetrics
INVARIANTS
  TypeOK
  OneLateResult
  MotionIsWarranted
PROPERTIES
  BlindStops
  SightReturns
