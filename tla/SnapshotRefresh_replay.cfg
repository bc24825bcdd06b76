CONSTANTS
  FreshFor = 2
  ExpiresAfter = 4
  Floor = 0
  CacheTtl = 2
  Window = 2
  Lease = 2
  RunLimit = 1
  MaxAge = 6
  Sampled = TRUE
  Crashes = 0
SPECIFICATION Spec
INVARIANT HonestStamp
CHECK_DEADLOCK FALSE
