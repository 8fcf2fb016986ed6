SPECIFICATION Spec
CONSTANTS
  Tasks <- TwoDeliveries
  CustodySensing = TRUE
  Places <- Town
  PickupPath <- Pickups
  DropPath <- Drops
  LocalPaths <- ToBase
  Home <- Nowhere
  Far <- OffTheRoad
  Inferred <- NoInference
  Scenes <- ClearOrNot
  OffRouteAfter = 2
  BlockedAfter = 2
INVARIANTS
  TypeOK
  NeverDrivesHalted
  NavigatesItsLeg
  AcquiredAtPickup
  DeliveredWithParcel
PROPERTIES
  LegNeverRestarts
