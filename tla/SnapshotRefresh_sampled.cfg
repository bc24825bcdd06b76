CONSTANTS
  FreshFor = 2
  ExpiresAfter = 2
  Floor = 0
  CacheTtl = 1
  Window = 2
  Lease = 1
  RunLimit = 0
  MaxAge = 3
  Sampled = TRUE
  Crashes = 1
SPECIFICATION FairSpec
PROPERTY FreshDataReturns
CHECK_DEADLOCK FALSE
