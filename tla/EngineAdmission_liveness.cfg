\* Fair handlers that may interleave at an emit, redelivery until settled, one restart, a hold queue of one, disk sound.
SPECIFICATION FairSpec
CONSTANTS
  c1 = c1  c2 = c2  t1 = t1  None = None
  Commitments <- MCCommitments
  Tasks <- MCTasks
  Envelopes <- ShortOutbox
  MaxRecords = 2
  MaxOutboxIds = 2
  MaxHeld = 1
  MaxRestarts = 1
  EmitYields = TRUE
  EmitOutcomes = {TRUE}
  WriteOutcomes = {TRUE}
  LoadOutcomes = {TRUE}
  ValidOutcomes = {TRUE, FALSE}
  ExpiryOutcomes = {FALSE}
  FeasibleOutcomes = {TRUE}
PROPERTIES
  EveryEnvelopeSettles
  OfferIsAnswered
