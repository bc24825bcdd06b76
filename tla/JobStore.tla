------------------------------ MODULE JobStore ------------------------------
(***************************************************************************)
(* What a BridgeAsyncStore promises about its job records (async/store.ts, *)
(* where each operation is one synchronous update of a map): a record is   *)
(* created once, is claimed only when it is queued or its lease has run    *)
(* out, and is finished or given back only by the holder of a live lease;  *)
(* a finished one may be queued again.                                     *)
(***************************************************************************)
CONSTANT Ops

VARIABLES
  record,  \* status of the operation's record
  held     \* is it under a lease that has not run out?

tableVars == <<record, held>>

TableInit ==
  /\ record = [o \in Ops |-> "absent"]
  /\ held = [o \in Ops |-> FALSE]

Becomes(o, status, lease) ==
  /\ record' = [record EXCEPT ![o] = status]
  /\ held' = [held EXCEPT ![o] = lease]

\* enqueueJob.
Create(o) == record[o] = "absent" /\ Becomes(o, "queued", FALSE)

\* markJobRunning.
Take(o) ==
  /\ record[o] = "queued" \/ (record[o] = "running" /\ ~held[o])
  /\ Becomes(o, "running", TRUE)

\* completeJob, failJob; requeueJob by the worker.
Finish(o) == record[o] = "running" /\ held[o] /\ Becomes(o, "ended", FALSE)
GiveBack(o) == record[o] = "running" /\ held[o] /\ Becomes(o, "queued", FALSE)

\* requeueJob by the heartbeat.
Again(o) == record[o] = "ended" /\ Becomes(o, "queued", FALSE)

\* Time passes.
Lapse(o) == record[o] = "running" /\ held[o] /\ Becomes(o, "running", FALSE)

TableNext ==
  \E o \in Ops :
    Create(o) \/ Take(o) \/ Finish(o) \/ GiveBack(o) \/ Again(o) \/ Lapse(o)

TableSpec == TableInit /\ [][TableNext]_tableVars
=============================================================================
