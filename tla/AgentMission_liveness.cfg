SPECIFICATION FairSpec
CONSTANTS
  Tasks <- OneDelivery
  CustodySensing = TRUE
  Places <- Town
  PickupPath <- Pickups
  DropPath <- Drops
  LocalPaths <- NoRoutes
  Home <- Nowhere
  Far <- NoPairs
  Inferred <- NoInference
  Scenes <- ClearOrNot
  OffRouteAfter = 2
  BlockedAfter = 2
PROPERTIES
  MissionEnds
