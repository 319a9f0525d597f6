SPECIFICATION FairAllocationSpec
CONSTANTS
  Handlers = {h1}
  Allocations = {1, 2}
  Leaders = {l1}
  Quota = 1
INVARIANTS
  AllocationTypeOK
  KnownBeforeActive
  EndedIsTrue
  ProcessedIsEnded
PROPERTIES
  StoppingHeals
  PendingIsApplied
