\* Without faults: a fix goes on the track of another commitment that is still on record.
SPECIFICATION Spec
CONSTANTS
  Commitments = {c1, c2}
  None = None
  Pickup = 0
  Drop = 1
  Path <- MCPath
  Strays = {3}
  MaxAge = 1
  MaxClock = 3
  MaxFaults = 0
  WriteOutcomes = {TRUE}
  ArrivalRadius = 0
  MinFixRate = 1
  RateUnit = 2
  MaxGap = 2
  CorridorWidth = 0
  MaxSpeed = 1
PROPERTIES ClaimMeetsEvidenceBar
CHECK_DEADLOCK FALSE
