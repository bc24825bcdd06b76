CONSTANTS
  w1 = w1
  w2 = w2
  j1 = j1
  j2 = j2
  Workers = {w1, w2}
  Jobs = {j1}
  Refused = {}
  Skewed = {w2}
  Store = "postgres"
  SlowRuns = TRUE
  NoJob = NoJob
  FaultBudget <- OneOfEach
SPECIFICATION Spec
INVARIANT TypeOK JournalIsTruthful SucceededWasBooked
CHECK_DEADLOCK FALSE
