CONSTANTS
  N = 5
  SegmentOf <- FiveSegments
  EffectfulOnce = {4}
  Compensable = {2}
  Needs <- FiveNeeds
  Reentries <- NoCrossingEdges
  Leases = 2
  LostAppends = 0
  FailedReads = 0
SPECIFICATION FairSpec
INVARIANT BoundNeverTrips EffectfulOnceRunsOnce
PROPERTY EveryRunEnds
CHECK_DEADLOCK FALSE
