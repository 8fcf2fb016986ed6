SPECIFICATION Spec
CONSTANTS
  SeqMax = 6
  MaxPending = 1
  MaxTimeouts = 2
  TransmitEnabled = TRUE
  MotionEnabled = TRUE
  MaxConnections = 2
  MaxBoots = 2
  MaxUptime = 1
  MaxFaults = 1
  MaxWire = 1
  BadProto <- SecondBoot
  DriveOutcomes <- Either
INVARIANTS
  TypeOK
  NothingReplayed
  MotionIsNewToEsp
  ProvenByFreshPing
PROPERTIES
  NewestOnce
