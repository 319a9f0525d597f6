SPECIFICATION FairDeletionSpec
CONSTANTS
  Login = {l1}
  Request = {r1}
  Rate = {f1}
  NoRate = NoRate
  Patch <- StatusPatches
  Deletion = {d1}
  Worker = {w1}
  InstantRetry = FALSE
INVARIANTS
  DeletionTypeOK
  ArchivedIsPurged
  PurgeIsRecorded
  RowsAreTrue
  ProfilesAreTrue
PROPERTIES
  CompletedIsApplied
