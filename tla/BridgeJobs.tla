----------------------------- MODULE BridgeJobs -----------------------------
(***************************************************************************)
(* The durable booking queue: a bridge job store drained by worker loops.  *)
(* A worker lists ready jobs, claims one (markJobRunning), makes sure the  *)
(* slot snapshot is fresh, passes the executor's guards, and runs the      *)
(* booking flow, which submits the booking at the vendor exactly when its  *)
(* journal shows no earlier submit.  The outcome is written back with      *)
(* completeJob, failJob or requeueJob, none of which looks at the lease.   *)
(*                                                                         *)
(* One `await' of the code is one action, so every interleaving of several *)
(* workers, a crash between any two awaits and the expiry of a lease while *)
(* its holder is still running are behaviours of the model.  The fold over *)
(* the plan is abstracted to its three stages that resume and status       *)
(* mapping tell apart: the replayable wizard segments, the effectful-once  *)
(* submit, and the extract-confirmation read.                              *)
(***************************************************************************)
EXTENDS Naturals, FiniteSets

CONSTANTS
  Workers,        \* worker loops (a process with concurrency n is n of them)
  Jobs,           \* booking_create_with_payment jobs, enqueued at the start
  Refused,        \* jobs whose command the executor's guards always refuse
  Skewed,         \* workers whose flow has another plan hash than the jobs
  Store,          \* which BridgeAsyncStore: "memory", "postgres" or "redis"
  SlowRuns,       \* may a run outlast its five minute lease?
  NoJob,          \* the absence of a job
  FaultBudget     \* how often each kind of fault happens

FaultKind == {"crash", "timeout", "append", "read", "store"}

ASSUME ConfigAssumption ==
  /\ Refused \subseteq Jobs
  /\ Skewed \subseteq Workers
  /\ Store \in {"memory", "postgres", "redis"}
  /\ SlowRuns \in BOOLEAN
  /\ NoJob \notin Jobs
  /\ FaultBudget \in [FaultKind -> Nat]

VARIABLES
  status,    \* job record: BridgeJobRecord.status
  leased,    \* job record: is leasedUntil still in the future?
  evidence,  \* journal: submit rows seen, a subset of {"started", "completed"}
  boundary,  \* journal: stage of the last segment-boundary row with a delta
  pc,        \* worker: the await it stands at
  job,       \* worker: the job it is executing
  listed,    \* worker: jobs of the current drain not executed yet
  reached,   \* worker: last stage this run journalled as started
  verdict,   \* worker: the status it is about to write
  landed,    \* vendor: bookings actually made for the job
  faults     \* what is left of FaultBudget

jobVars == <<status, leased>>
journal == <<evidence, boundary>>
runVars == <<job, reached, verdict>>
vars == <<status, leased, evidence, boundary, pc, job, listed, reached,
          verdict, landed, faults>>

Terminal == {"succeeded", "failed_pre_submit", "reconcile_required"}
Status == {"queued", "running"} \cup Terminal
Stage == {"none", "wizard", "submit", "confirm"}
Verdict == Terminal \cup {"queued", "none"}
Running == {"refresh", "gate", "probe", "resume", "wizard", "submit",
            "clicking", "clicked", "confirm", "settle"}
PC == Running \cup {"idle", "ended"}

TypeOK ==
  /\ status \in [Jobs -> Status]
  /\ leased \in [Jobs -> BOOLEAN]
  /\ evidence \in [Jobs -> SUBSET {"started", "completed"}]
  /\ boundary \in [Jobs -> Stage]
  /\ pc \in [Workers -> PC]
  /\ job \in [Workers -> Jobs \cup {NoJob}]
  /\ \A w \in Workers : job[w] \in Jobs <=> pc[w] \in Running
  /\ listed \in [Workers -> SUBSET Jobs]
  /\ reached \in [Workers -> Stage]
  /\ verdict \in [Workers -> Verdict]
  /\ \A w \in Workers : pc[w] = "settle" => verdict[w] # "none"
  /\ landed \in [Jobs -> Nat]
  /\ faults \in [FaultKind -> Nat]

Init ==
  /\ status = [j \in Jobs |-> "queued"]
  /\ leased = [j \in Jobs |-> FALSE]
  /\ evidence = [j \in Jobs |-> {}]
  /\ boundary = [j \in Jobs |-> "none"]
  /\ pc = [w \in Workers |-> "idle"]
  /\ job = [w \in Workers |-> NoJob]
  /\ listed = [w \in Workers |-> {}]
  /\ reached = [w \in Workers |-> "none"]
  /\ verdict = [w \in Workers |-> "none"]
  /\ landed = [j \in Jobs |-> 0]
  /\ faults = FaultBudget

-----------------------------------------------------------------------------
(* Helpers.                                                                *)

Spend(kind) == faults[kind] > 0 /\ faults' = [faults EXCEPT ![kind] = @ - 1]

Goto(w, at) == pc' = [pc EXCEPT ![w] = at]

\* Variant for mutation: an expired lease is not listed again.
ReadyQueuedOnly(j) == status[j] = "queued"

\* listReadyJobs: queued, or running under a lease that has run out.
Ready(j) == status[j] = "queued" \/ (status[j] = "running" /\ ~leased[j])

\* Variant for mutation: no store looks at the lease.
ClaimableAnyLease(j) == status[j] \notin Terminal

\* The condition each store's markJobRunning puts on the record.
Claimable(j) ==
  CASE Store = "memory"   -> TRUE
    [] Store = "postgres" -> status[j] \notin Terminal
    [] Store = "redis"    -> status[j] \notin Terminal
                             /\ ~(status[j] = "running" /\ leased[j])

\* RECONCILE_BOUNDARY_STEP_IDS: which status a failure of this stage maps to.
StatusForStep(stage) ==
  IF stage \in {"submit", "confirm"} THEN "reconcile_required"
                                     ELSE "failed_pre_submit"

\* The run is over; what is left is the store call that records it.
Conclude(w, outcome) ==
  /\ Goto(w, "settle")
  /\ verdict' = [verdict EXCEPT ![w] = outcome]

\* Variant for mutation: confirmation is taken for granted.
ConfirmedBlindly(w) == TRUE

\* extractConfirmation finds a confirmation only if the vendor has booked.
Confirmed(w) == landed[job[w]] > 0

\* Variant for mutation: appends are fired and forgotten.
JournalForgotten(rowWritten, rowLost) ==
  (rowWritten \/ rowLost) /\ UNCHANGED faults

\* A journal append: it happens, or it fails and the run carries on.
Journal(rowWritten, rowLost) ==
  \/ rowWritten /\ UNCHANGED faults
  \/ rowLost /\ Spend("append")

-----------------------------------------------------------------------------
(* The drain loop and the job store.                                       *)

\* drainReadyBridgeJobs lists; an empty list is a poll that changes nothing.
List(w) ==
  /\ pc[w] = "idle" /\ listed[w] = {}
  /\ \E j \in Jobs : Ready(j)
  /\ listed' = [listed EXCEPT ![w] = {j \in Jobs : Ready(j)}]
  /\ UNCHANGED <<jobVars, journal, pc, runVars, landed, faults>>

\* executeBridgeJob: markJobRunning took the job.
Claim(w, j) ==
  /\ pc[w] = "idle" /\ j \in listed[w]
  /\ Claimable(j)
  /\ status' = [status EXCEPT ![j] = "running"]
  /\ leased' = [leased EXCEPT ![j] = TRUE]
  /\ job' = [job EXCEPT ![w] = j]
  /\ listed' = [listed EXCEPT ![w] = @ \ {j}]
  /\ reached' = [reached EXCEPT ![w] = "none"]
  /\ Goto(w, "refresh")
  /\ UNCHANGED <<journal, verdict, landed, faults>>

\* markJobRunning returned null: the drain goes on with the next job.
Skip(w, j) ==
  /\ pc[w] = "idle" /\ j \in listed[w]
  /\ ~Claimable(j)
  /\ listed' = [listed EXCEPT ![w] = @ \ {j}]
  /\ UNCHANGED <<jobVars, journal, pc, runVars, landed, faults>>

\* completeJob, failJob, requeueJob: by operation id only.  requeueJob also
\* clears the lease.
Settle(w) ==
  /\ pc[w] = "settle"
  /\ status' = [status EXCEPT ![job[w]] = verdict[w]]
  /\ leased' = [leased EXCEPT ![job[w]] = @ /\ verdict[w] # "queued"]
  /\ Goto(w, "idle")
  /\ job' = [job EXCEPT ![w] = NoJob]
  /\ verdict' = [verdict EXCEPT ![w] = "none"]
  /\ UNCHANGED <<journal, listed, reached, landed, faults>>

\* Five minutes have passed since the claim.
Expire(j) ==
  /\ status[j] = "running" /\ leased[j]
  /\ SlowRuns \/ \A w \in Workers : job[w] # j
  /\ leased' = [leased EXCEPT ![j] = FALSE]
  /\ UNCHANGED <<status, journal, pc, runVars, listed, landed, faults>>

\* Variant for mutation: the job stays with the worker.
DropKeepsJob(w, at) ==
  /\ Goto(w, at)
  /\ listed' = [listed EXCEPT ![w] = {}]
  /\ verdict' = [verdict EXCEPT ![w] = "none"]
  /\ UNCHANGED <<jobVars, journal, job, reached, landed>>

\* What a worker loop forgets when it ends.
Drop(w, at) ==
  /\ Goto(w, at)
  /\ job' = [job EXCEPT ![w] = NoJob]
  /\ listed' = [listed EXCEPT ![w] = {}]
  /\ verdict' = [verdict EXCEPT ![w] = "none"]
  /\ UNCHANGED <<jobVars, journal, reached, landed>>

\* The process dies and is started again.
Crash(w) == pc[w] # "ended" /\ Spend("crash") /\ Drop(w, "idle")

\* A store call rejects.  Nothing between it and runBridgeWorkerLoop catches
\* the rejection (completeJob is returned, not awaited, inside the try), so
\* the loop is over and nothing starts it again.
StoreRejects(w) ==
  pc[w] \in {"idle", "settle"} /\ Spend("store") /\ Drop(w, "ended")

-----------------------------------------------------------------------------
(* One run of a booking job.                                               *)

\* ensureFreshSlotSnapshot: the snapshot is fresh or was refreshed in time;
\* the wait ran out (requeueJob); or the refresh threw (failJob).
EnsureFreshSlotSnapshot(w) ==
  /\ pc[w] = "refresh"
  /\ \/ Goto(w, "gate") /\ UNCHANGED <<verdict, faults>>
     \/ Conclude(w, "queued") /\ Spend("timeout")
     \/ Conclude(w, "failed_pre_submit") /\ UNCHANGED faults
  /\ UNCHANGED <<jobVars, journal, job, listed, reached, landed>>

\* createBookingWithPayment: REST path, missing coupon or payment gate.
Refuse(w) ==
  /\ pc[w] = "gate" /\ job[w] \in Refused
  /\ Conclude(w, "failed_pre_submit")
  /\ UNCHANGED <<jobVars, journal, job, listed, reached, landed, faults>>

\* checkFlowPlanSkew on a worker with another plan.  An unreadable journal
\* counts as an empty one.
PlanSkew(w) ==
  /\ pc[w] = "gate" /\ job[w] \notin Refused /\ w \in Skewed
  /\ \/ /\ Conclude(w, IF "started" \in evidence[job[w]]
                         THEN "reconcile_required" ELSE "queued")
        /\ UNCHANGED faults
     \/ Conclude(w, "queued") /\ Spend("read")
  /\ UNCHANGED <<jobVars, journal, job, listed, reached, landed>>

\* executeBookingThroughFlow reads the journal: a submit that started and did
\* not complete goes to the confirmation probe, never to the fold.
ConfirmationGate(w) ==
  /\ pc[w] = "gate" /\ job[w] \notin Refused /\ w \notin Skewed
  /\ \/ /\ Goto(w, IF evidence[job[w]] = {"started"} THEN "probe" ELSE "resume")
        /\ UNCHANGED faults
     \/ Goto(w, "resume") /\ Spend("read")
  /\ UNCHANGED <<jobVars, journal, runVars, listed, landed>>

\* probeConfirmationGate: the vendor shows the confirmation, or it does not.
Probe(w) ==
  /\ pc[w] = "probe"
  /\ \/ /\ Confirmed(w)
        /\ Conclude(w, "succeeded")
        /\ Journal(
             evidence' = [evidence EXCEPT ![job[w]] = @ \cup {"completed"}],
             UNCHANGED evidence)
     \/ Conclude(w, "reconcile_required") /\ UNCHANGED <<evidence, faults>>
  /\ UNCHANGED <<jobVars, boundary, job, listed, reached, landed>>

\* runFlow with resume: a second journal read fixes the stage to start from;
\* it refuses to re-run a submit that the journal knows of.
ResumeFrom(w, b, rows) ==
  \/ /\ b \in {"none", "wizard"} /\ rows # {}
     /\ Conclude(w, "reconcile_required")
  \/ /\ b \in {"none", "wizard"} /\ rows = {}
     /\ Goto(w, IF b = "none" THEN "wizard" ELSE "submit")
     /\ UNCHANGED verdict
  \/ b = "submit" /\ Goto(w, "confirm") /\ UNCHANGED verdict
  \/ b = "confirm" /\ Conclude(w, "succeeded")

Resume(w) ==
  /\ pc[w] = "resume"
  /\ \/ ResumeFrom(w, boundary[job[w]], evidence[job[w]]) /\ UNCHANGED faults
     \/ ResumeFrom(w, "none", {}) /\ Spend("read")
  /\ UNCHANGED <<jobVars, journal, job, listed, reached, landed>>

\* The browser session of a segment does not open.  The status follows the
\* last stage that this run has started.
SessionFails(w) ==
  /\ pc[w] \in {"wizard", "submit", "confirm"}
  /\ Conclude(w, StatusForStep(reached[w]))
  /\ UNCHANGED <<jobVars, journal, job, listed, reached, landed, faults>>

\* navigate, fill-form and the payment bypass, up to its $0 proof.
RunWizard(w) ==
  /\ pc[w] = "wizard"
  /\ reached' = [reached EXCEPT ![w] = "wizard"]
  /\ \/ /\ Goto(w, "submit") /\ UNCHANGED verdict
        /\ Journal(boundary' = [boundary EXCEPT ![job[w]] = "wizard"],
                  UNCHANGED boundary)
     \/ Conclude(w, "failed_pre_submit") /\ UNCHANGED <<boundary, faults>>
  /\ UNCHANGED <<jobVars, evidence, job, listed, landed>>

\* The `started' row of the submit step is appended before its click.
StartSubmit(w) ==
  /\ pc[w] = "submit"
  /\ reached' = [reached EXCEPT ![w] = "submit"]
  /\ Goto(w, "clicking")
  /\ Journal(evidence' = [evidence EXCEPT ![job[w]] = @ \cup {"started"}],
            UNCHANGED evidence)
  /\ UNCHANGED <<jobVars, boundary, job, listed, verdict, landed>>

\* The click: the vendor may have booked although the step failed.
ClickSubmit(w) ==
  /\ pc[w] = "clicking"
  /\ \/ /\ landed' = [landed EXCEPT ![job[w]] = @ + 1]
        /\ \/ Goto(w, "clicked") /\ UNCHANGED verdict
           \/ Conclude(w, "reconcile_required")
     \/ Conclude(w, "reconcile_required") /\ UNCHANGED landed
  /\ UNCHANGED <<jobVars, journal, job, listed, reached, faults>>

\* The `completed' row of the submit step, which closes its segment.
FinishSubmit(w) ==
  /\ pc[w] = "clicked"
  /\ Goto(w, "confirm")
  /\ Journal(/\ evidence' = [evidence EXCEPT ![job[w]] = @ \cup {"completed"}]
            /\ boundary' = [boundary EXCEPT ![job[w]] = "submit"],
            UNCHANGED journal)
  /\ UNCHANGED <<jobVars, runVars, listed, landed>>

\* extract-confirmation, a read: it finds a confirmation only if there is one.
ExtractConfirmation(w) ==
  /\ pc[w] = "confirm"
  /\ reached' = [reached EXCEPT ![w] = "confirm"]
  /\ \/ /\ Confirmed(w)
        /\ Conclude(w, "succeeded")
        /\ Journal(boundary' = [boundary EXCEPT ![job[w]] = "confirm"],
                  UNCHANGED boundary)
     \/ Conclude(w, "reconcile_required") /\ UNCHANGED <<boundary, faults>>
  /\ UNCHANGED <<jobVars, evidence, job, listed, landed>>

-----------------------------------------------------------------------------
Run(w) ==
  \/ EnsureFreshSlotSnapshot(w) \/ Refuse(w) \/ PlanSkew(w)
  \/ ConfirmationGate(w) \/ Probe(w) \/ Resume(w) \/ SessionFails(w)
  \/ RunWizard(w) \/ StartSubmit(w) \/ ClickSubmit(w) \/ FinishSubmit(w)
  \/ ExtractConfirmation(w) \/ Settle(w)

Drain(w) == List(w) \/ \E j \in Jobs : Claim(w, j) \/ Skip(w, j)

Next ==
  \/ \E w \in Workers : Drain(w) \/ Run(w) \/ Crash(w) \/ StoreRejects(w)
  \/ \E j \in Jobs : Expire(j)

Spec == Init /\ [][Next]_vars

\* A live loop keeps polling and its awaits end (every browser step, store
\* call and refresh wait has a timeout); time passes.
FairSpec ==
  /\ Spec
  /\ \A w \in Workers : WF_vars(Drain(w)) /\ WF_vars(Run(w))
  /\ \A j \in Jobs : WF_vars(Expire(j))

-----------------------------------------------------------------------------
(* Properties.                                                             *)

\* The journal speaks the truth about the vendor: a submit it calls completed,
\* or a boundary at or past submit, is a booking that was really made.  Holds
\* whatever the number of workers, the leases and the faults (run.ts,
\* flow-runner.ts: which rows are appended, and when).
JournalIsTruthful ==
  \A j \in Jobs :
    "completed" \in evidence[j] \/ boundary[j] \in {"submit", "confirm"}
      => landed[j] > 0

\* A job reported as succeeded was booked at the vendor, even when it was
\* resumed, probed, run twice or overwritten by a stale worker.
SucceededWasBooked ==
  \A j \in Jobs : status[j] = "succeeded" => landed[j] > 0

\* Never a silent re-submit: one job is at most one vendor booking, across
\* crashes, re-leases and requeues (step.ts, effectful-once).
AtMostOneBooking == \A j \in Jobs : landed[j] <= 1

\* No two workers execute the same job at the same time (the claim of
\* markJobRunning).
ExclusiveRun ==
  \A v, w \in Workers : pc[v] \in Running /\ job[v] = job[w] => v = w

\* The queue keeps what BookingJob promises: at most one booking, success only
\* for a booked job, and no step of any worker rewrites a terminal status
\* (completeJob, failJob and requeueJob update by operation id alone).
Promise == INSTANCE BookingJob WITH
  Jobs <- Jobs, status <- status, landed <- landed
KeepsPromise == Promise!Spec

\* failed_pre_submit means what it says: nothing was booked
\* (RECONCILE_BOUNDARY_STEP_IDS in flow-runner.ts).
PreSubmitFailureNotBooked ==
  \A j \in Jobs : status[j] = "failed_pre_submit" => landed[j] = 0

\* Every job ends in a terminal status and stays there, as long as a worker
\* loop is alive to poll (runBridgeWorkerLoop, lease expiry).
EveryJobSettles == \A j \in Jobs : <>[](status[j] \in Terminal)
=============================================================================
