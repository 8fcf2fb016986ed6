\* Crashes, write failures, lost emits, expiry, a hold queue of one.
SPECIFICATION Spec
CONSTANTS
  c1 = c1  c2 = c2  t1 = t1  None = None
  Commitments <- MCCommitments
  Tasks <- MCTasks
  Envelopes <- MCEnvelopes
  MaxRecords = 2
  MaxOutboxIds = 2
  MaxHeld = 1
  MaxRestarts = 1
  EmitYields = FALSE
  EmitOutcomes = {TRUE, FALSE}
  WriteOutcomes = {TRUE, FALSE}
  LoadOutcomes = {TRUE}
  ValidOutcomes = {TRUE, FALSE}
  ExpiryOutcomes = {TRUE, FALSE}
  FeasibleOutcomes = {TRUE, FALSE}
INVARIANTS
  TypeOK
  AppliedOnceInOrder
  AckedIsPersisted
PROPERTIES
  KeepsContract
