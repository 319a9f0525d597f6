SPECIFICATION DeletionSpec
CONSTANTS
  Login = {l1}
  Request = {r1}
  Rate = {}
  NoRate = NoRate
  Patch <- LeaderPatches
  Deletion = {d1}
  Worker = {w1, w2}
  InstantRetry = TRUE
INVARIANTS
  NoneAlive
