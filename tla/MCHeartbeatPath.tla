-------------------------- MODULE MCHeartbeatPath --------------------------
(* A small instance of HeartbeatPath for TLC.                               *)
EXTENDS HeartbeatPath, MCSnapshotRefresh, MCRedisJobStore

\* Weights below the range, in it, and above WeightCap.
SomeWeights == {-1, 1, 2, 5}
=============================================================================
