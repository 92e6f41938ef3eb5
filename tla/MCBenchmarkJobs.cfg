CONSTANTS
  Ids = {i1}
  Limit = 1
  Window = 2
  Second = 2
  Limiters = {"memory", "sqlite"}
  MaxTime = 3
  MaxCount = 2
  Requests = {r1, r2}
  Runner = runner
  Closer = closer
  MaxJobs = 1
  SaveFails = TRUE
SPECIFICATION FairSpec
INVARIANTS TypeOK SlotIsHeld AckedSurvive BurstBounded RetryIsEnough
PROPERTY SlotFreed
