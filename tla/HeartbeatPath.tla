--------------------------- MODULE HeartbeatPath ---------------------------
(* SnapshotRefresh and, beside it, what its heartbeat consists of when      *)
(* there is more than one snapshot: the pass that decides which of many     *)
(* candidates get a refresh job (Heartbeat), the order it works in          *)
(* (HeartbeatOrder), and the store that the jobs are put into              *)
(* (RedisJobStore).  The four share no state.  A behaviour is one of any of *)
(* them, so that their states add up and do not multiply; `part' says       *)
(* which, from the start.                                                   *)
EXTENDS SnapshotRefresh, Heartbeat, HeartbeatOrder, RedisJobStore

VARIABLE part

HeartbeatPathInit ==
  /\ Init /\ HeartbeatInit /\ OrderInit /\ StoreInit
  /\ part \in {"snapshot", "pass", "order", "store"}
  /\ part # "order" => \A g \in Groups : weight[g] = 1 /\ size[g] = 0

HeartbeatPathNext ==
  \/ /\ part = "snapshot" /\ Next
     /\ UNCHANGED <<heartbeatVars, orderVars, storeVars, part>>
  \/ /\ part = "pass" /\ HeartbeatNext
     /\ UNCHANGED <<vars, orderVars, storeVars, part>>
  \/ /\ part = "order" /\ PickNext
     /\ UNCHANGED <<vars, heartbeatVars, storeVars, part>>
  \/ /\ part = "store" /\ StoreNext
     /\ UNCHANGED <<vars, heartbeatVars, orderVars, part>>

HeartbeatPathSpec ==
  /\ HeartbeatPathInit
  /\ [][HeartbeatPathNext]_<<vars, heartbeatVars, orderVars, storeVars, part>>

\* The type invariants of the four.
HeartbeatPathTypeOK ==
  TypeOK /\ HeartbeatTypeOK /\ OrderTypeOK /\ StoreTypeOK
=============================================================================
