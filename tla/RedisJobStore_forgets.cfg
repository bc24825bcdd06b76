CONSTANTS
  Ops = {o1, o2}
  NoOp = NoOp
  Servers = {server}
  Consumers = {c1, c2}
  NoHolder = NoHolder
  LeaseBound = 2
  CrashBound = 0
  Overruns = FALSE
  SlowClaims = FALSE
SPECIFICATION StoreSpec
INVARIANT NoJobIsForgotten
SYMMETRY AnyConsumer
CHECK_DEADLOCK FALSE
