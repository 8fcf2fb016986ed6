SPECIFICATION FairSpec
CONSTANTS
  SeqMax = 6
  MaxPending = 2
  MaxTimeouts = 2
  TransmitEnabled = TRUE
  MotionEnabled = FALSE
  MaxConnections = 2
  MaxBoots = 1
  MaxUptime = 0
  MaxFaults = 2
  MaxWire = 2
  BadProto <- NoBoots
  DriveOutcomes <- Always
PROPERTIES
  Recovers
  StopEnds
