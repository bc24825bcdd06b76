CONSTANTS
  w1 = w1
  w2 = w2
  j1 = j1
  j2 = j2
  Workers = {w1, w2}
  Jobs = {j1, j2}
  Refused = {j2}
  Skewed = {}
  Store = "redis"
  SlowRuns = FALSE
  NoJob = NoJob
  FaultBudget <- CrashesAndTimeouts
SPECIFICATION FairSpec
INVARIANT AtMostOneBooking ExclusiveRun
PROPERTY KeepsPromise 
CHECK_DEADLOCK FALSE
