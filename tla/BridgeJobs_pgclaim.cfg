CONSTANTS
  w1 = w1
  w2 = w2
  j1 = j1
  j2 = j2
  Workers = {w1, w2}
  Jobs = {j1}
  Refused = {}
  Skewed = {}
  Store = "postgres"
  SlowRuns = FALSE
  NoJob = NoJob
  FaultBudget <- NoFaults
SPECIFICATION Spec
INVARIANT AtMostOneBooking
CHECK_DEADLOCK FALSE
