SPECIFICATION FairSpec
CONSTANTS
  Commitments = {c1, c2}
  None = None
  Pickup = 0
  Drop = 1
  Path <- MCPath
  Strays = {3}
  MaxAge = 1
  MaxClock = 2
  MaxFaults = 1
  WriteOutcomes = {TRUE, FALSE}
  ArrivalRadius = 0
  MinFixRate = 1
  RateUnit = 2
  MaxGap = 2
  CorridorWidth = 0
  MaxSpeed = 1
INVARIANTS HandoverReportedOnce
PROPERTIES LeaseIsDriven ClaimIsProven NothingStaysUnsaid
CHECK_DEADLOCK FALSE
