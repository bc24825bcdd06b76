CONSTANTS
  FreshFor = 2
  ExpiresAfter = 4
  Floor = 0
  CacheTtl = 2
  Window = 2
  Lease = 2
  RunLimit = 1
  MaxAge = 6
  Sampled = FALSE
  Crashes = 1
  NumCandidates = 3
  MaxJobs = 2
  MaxPolls = 1
  StoreClock = "same"
  NumGroups = 3
  Weights <- SomeWeights
  MaxSize = 3
  WeightCap = 3
  Ops = {o1, o2}
  NoOp = NoOp
  Servers = {server}
  Consumers = {c1, c2}
  NoHolder = NoHolder
  LeaseBound = 2
  CrashBound = 1
  Overruns = FALSE
  SlowClaims = FALSE
SPECIFICATION HeartbeatPathSpec
INVARIANT HeartbeatPathTypeOK HonestStamp ServedWithinExpiry
INVARIANT LimitIsExact FairShares
INVARIANT ClaimsExclusive 
PROPERTY ActsLikeATable
SYMMETRY AnyConsumer
CHECK_DEADLOCK FALSE
