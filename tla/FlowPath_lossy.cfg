CONSTANTS
  N = 4
  SegmentOf <- FourSegments
  EffectfulOnce = {4}
  Compensable = {}
  Needs <- FourNeeds
  Reentries <- BackEdge
  Leases = 3
  LostAppends = 1
  FailedReads = 0
  Appenders = {r1, r2}
  MaxRetries = 2
  Retention = 1
  LastDay = 3
  MaxCommits = 4
  Offers = {s1, s2}
  Asked = s1
  FreshPage = FALSE
  MaxLeases = 3
  MaxSteps = 3
  Keys = {k}
  Segments = {seg1, seg2}
  MaxEdges = 2
SPECIFICATION FlowPathSpec
INVARIANT FlowPathTypeOK NothingMissing AttemptsIncrease
INVARIANT RowsAreARecentPast RetriesMeetRacers
INVARIANT OnlyProvenAppointments  
INVARIANT AcceptsWhatRuns
CHECK_DEADLOCK FALSE
