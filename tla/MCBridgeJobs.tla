---------------------------- MODULE MCBridgeJobs ----------------------------
(* Small instances of BridgeJobs for TLC.                                  *)
EXTENDS BridgeJobs, TLC

CONSTANTS j1, j2, w1, w2

Faults(crash, timeout, append, read, store) ==
  [crash |-> crash, timeout |-> timeout, append |-> append, read |-> read,
   store |-> store]

CrashesAndTimeouts == Faults(2, 2, 0, 0, 0)
OneOfEach == Faults(1, 1, 1, 1, 1)
NoFaults == Faults(0, 0, 0, 0, 0)
CrashOnly == Faults(1, 0, 0, 0, 0)

=============================================================================
