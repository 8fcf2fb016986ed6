SPECIFICATION FairSpec
CONSTANTS
  Sentences <- MCSentences
  Intents <- MCIntents
  MinMove = 2
  MinSpeed = 2
  StaleAfter = 1
  MaxStep = 2
  MaxClock = 4
INVARIANTS
  TypeOK
  MeasuredSinceOpened
  PoseOfThisRun
PROPERTIES
  ReceiverIsFollowed
