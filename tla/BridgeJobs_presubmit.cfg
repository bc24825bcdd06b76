CONSTANTS
  w1 = w1
  w2 = w2
  j1 = j1
  j2 = j2
  Workers = {w1}
  Jobs = {j1}
  Refused = {}
  Skewed = {}
  Store = "postgres"
  SlowRuns = FALSE
  NoJob = NoJob
  FaultBudget <- CrashOnly
SPECIFICATION Spec
INVARIANT PreSubmitFailureNotBooked
CHECK_DEADLOCK FALSE
