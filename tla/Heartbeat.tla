------------------------------ MODULE Heartbeat ------------------------------
(***************************************************************************)
(* The availability heartbeat (server/handler.ts): one pass over the       *)
(* candidates, in the order of HeartbeatOrder, that enqueues a refresh job *)
(* for each stale one, up to a limit; the readiness check; and wait-ready, *)
(* which runs both again and again until everything is fresh.  A candidate *)
(* is one kind, service and scope.  Its job is the one its idempotency key *)
(* leads to in the current window; workers and other readers are the       *)
(* environment.  SnapshotRefresh has one candidate in detail.              *)
(***************************************************************************)
EXTENDS Naturals, FiniteSets

CONSTANTS
  NumCandidates,  \* candidates of the request
  MaxJobs,        \* maxJobs
  MaxPolls,       \* polls until wait-ready's timeout
  StoreClock      \* the store's clock as the server sees it: "same", "behind"

ASSUME HeartbeatAssumption ==
  /\ NumCandidates \in Nat /\ MaxJobs \in Nat \ {0} /\ MaxPolls \in Nat
  /\ StoreClock \in {"same", "behind"}

Candidates == 1..NumCandidates

VARIABLES
  fresh,     \* candidates whose snapshot is fresh
  refresh,   \* candidate: status of its job in this window
  errand,    \* "none", "heartbeat", "readiness" or "wait_ready"
  step,      \* where the request stands
  next,      \* the candidate it looks at
  fetched,   \* the job record it got from enqueueJob
  isNew,     \* and whether the store created it just then
  submitted, \* the pass's count against maxJobs
  acted,     \* candidates for which this pass created or requeued a job
  limited,   \* candidates it skipped for the limit
  seen,      \* candidates the readiness check found fresh
  polls      \* polls of wait-ready so far

jobTable == <<fresh, refresh>>
passVars == <<fetched, isNew, submitted, acted, limited>>
heartbeatVars == <<jobTable, errand, step, next, passVars, seen, polls>>

RefreshStatus == {"absent", "pending", "succeeded", "retryable", "refused"}

HeartbeatTypeOK ==
  /\ fresh \subseteq Candidates
  /\ refresh \in [Candidates -> RefreshStatus]
  /\ errand \in {"none", "heartbeat", "readiness", "wait_ready"}
  /\ step \in {"idle", "snapshot", "enqueue", "requeue", "check", "queue",
               "sleep", "ready", "not_ready", "accepted"}
  /\ next \in 1..(NumCandidates + 1)
  /\ fetched \in RefreshStatus /\ isNew \in BOOLEAN
  /\ submitted \in 0..NumCandidates
  /\ acted \subseteq Candidates /\ limited \subseteq Candidates
  /\ seen \subseteq Candidates /\ polls \in 0..MaxPolls

HeartbeatInit ==
  /\ fresh = {} /\ refresh = [c \in Candidates |-> "absent"]
  /\ errand = "none" /\ step = "idle" /\ next = 1
  /\ fetched = "absent" /\ isNew = FALSE /\ submitted = 0
  /\ acted = {} /\ limited = {} /\ seen = {} /\ polls = 0

-----------------------------------------------------------------------------
(* The environment.                                                        *)

\* A worker finishes a refresh job: with a fresh snapshot, or with a failure that
\* may be retried or not.
WorkerFinishes ==
  /\ \E c \in Candidates :
       /\ refresh[c] = "pending"
       /\ \/ refresh' = [refresh EXCEPT ![c] = "succeeded"]
             /\ fresh' = fresh \cup {c}
          \/ \E failure \in {"retryable", "refused"} :
               refresh' = [refresh EXCEPT ![c] = failure] /\ UNCHANGED fresh
  /\ UNCHANGED <<errand, step, next, passVars, seen, polls>>

\* Time passes: a snapshot falls below the freshness floor, or the window of the
\* idempotency key ends.
SnapshotAges ==
  /\ \E c \in fresh : fresh' = fresh \ {c}
  /\ UNCHANGED <<refresh, errand, step, next, passVars, seen, polls>>

WindowEnds ==
  /\ \E c \in Candidates : refresh[c] # "absent"
  /\ refresh' = [c \in Candidates |-> "absent"]
  /\ UNCHANGED <<fresh, errand, step, next, passVars, seen, polls>>

-----------------------------------------------------------------------------
(* Requests.                                                               *)

\* A pass starts with nothing counted.
StartPass ==
  /\ step' = "snapshot" /\ next' = 1 /\ submitted' = 0
  /\ acted' = {} /\ limited' = {} /\ seen' = {}
  /\ UNCHANGED <<fetched, isNew>>

\* The check of evaluateAvailabilityReadiness.
StartCheck ==
  step' = "check" /\ next' = 1 /\ seen' = {}

Ask ==
  /\ step = "idle"
  /\ errand' \in {"heartbeat", "readiness", "wait_ready"}
  /\ IF errand' = "readiness" THEN StartCheck /\ UNCHANGED passVars ELSE StartPass
  /\ UNCHANGED <<jobTable, polls>>

\* Behind the last candidate, a heartbeat replies and wait-ready checks.
Advance(c) ==
  IF c < NumCandidates THEN step' = "snapshot" /\ next' = c + 1 /\ UNCHANGED seen
  ELSE IF errand = "heartbeat" THEN step' = "accepted" /\ UNCHANGED <<next, seen>>
  ELSE StartCheck

-----------------------------------------------------------------------------
(* runAvailabilityHeartbeat, the body of its loop.                         *)

LimitReached == submitted >= MaxJobs

LookAtSnapshot ==
  /\ step = "snapshot" /\ next <= NumCandidates
  /\ \/ next \in fresh /\ Advance(next) /\ UNCHANGED passVars
     \/ /\ next \notin fresh /\ LimitReached
        /\ limited' = limited \cup {next}
        /\ Advance(next) /\ UNCHANGED <<fetched, isNew, submitted, acted>>
     \/ /\ next \notin fresh /\ ~LimitReached
        /\ step' = "enqueue" /\ UNCHANGED <<next, passVars, seen>>
  /\ UNCHANGED <<jobTable, errand, polls>>

\* `deduped' is what was created before the call, by the store's clock.
Deduped(created) == ~created \/ StoreClock = "behind"

\* isRetryableHeartbeatFailure, or a deduped job that has succeeded.
WantsRequeue(status, created) ==
  status = "retryable" \/ (status = "succeeded" /\ Deduped(created))

\* enqueueJob: a new job, or the one that is there.
EnqueueRefresh ==
  /\ step = "enqueue"
  /\ isNew' = (refresh[next] = "absent")
  /\ refresh' = [refresh EXCEPT ![next] = IF @ = "absent" THEN "pending" ELSE @]
  /\ fetched' = refresh'[next]
  /\ acted' = IF isNew' THEN acted \cup {next} ELSE acted
  /\ IF WantsRequeue(fetched', isNew')
       THEN step' = "requeue" /\ UNCHANGED <<next, seen, submitted>>
       ELSE /\ submitted' = IF Deduped(isNew') THEN submitted ELSE submitted + 1
            /\ Advance(next)
  /\ UNCHANGED <<fresh, errand, limited, polls>>

\* Variant for mutation: a requeued job does not count.
RequeueUncounted ==
  /\ step = "requeue"
  /\ refresh' = [refresh EXCEPT ![next] = IF @ = "absent" THEN @ ELSE "pending"]
  /\ acted' = acted \cup {next}
  /\ Advance(next)
  /\ UNCHANGED <<fresh, errand, fetched, isNew, submitted, limited, polls>>

\* requeueJob, by operation id: of the window the key was in.  It counts, unless
\* the record is gone.
RequeueRefresh ==
  /\ step = "requeue"
  /\ \/ /\ refresh' = [refresh EXCEPT ![next] =
                        IF @ = "absent" THEN @ ELSE "pending"]
        /\ acted' = acted \cup {next} /\ submitted' = submitted + 1
     \/ UNCHANGED <<refresh, acted, submitted>>
  /\ Advance(next)
  /\ UNCHANGED <<fresh, errand, fetched, isNew, limited, polls>>

-----------------------------------------------------------------------------
(* evaluateAvailabilityReadiness and handleAvailabilityWaitReady.          *)

CheckScope ==
  /\ step = "check" /\ next <= NumCandidates
  /\ seen' = IF next \in fresh THEN seen \cup {next} ELSE seen
  /\ IF next < NumCandidates THEN next' = next + 1 /\ UNCHANGED step
                             ELSE step' = "queue" /\ UNCHANGED next
  /\ UNCHANGED <<jobTable, errand, passVars, polls>>

\* getQueueStats: is the oldest job that can be run too old?  If there is one.
QueueTooOld ==
  IF \E c \in Candidates : refresh[c] = "pending" THEN BOOLEAN ELSE {FALSE}

\* A job that waits too long blocks readiness, too.  wait-ready sleeps and starts
\* over, until its time is up.
CheckQueue ==
  /\ step = "queue"
  /\ \E tooOld \in QueueTooOld :
       step' = IF seen = Candidates /\ ~tooOld THEN "ready"
               ELSE IF errand = "wait_ready" /\ polls < MaxPolls THEN "sleep"
               ELSE "not_ready"
  /\ UNCHANGED <<jobTable, errand, next, passVars, seen, polls>>

PollAgain ==
  /\ step = "sleep"
  /\ polls' = polls + 1
  /\ StartPass
  /\ UNCHANGED <<jobTable, errand>>

Reply ==
  /\ step \in {"ready", "not_ready", "accepted"}
  /\ errand' = "none" /\ step' = "idle" /\ next' = 1
  /\ fetched' = "absent" /\ isNew' = FALSE /\ submitted' = 0
  /\ acted' = {} /\ limited' = {} /\ seen' = {} /\ polls' = 0
  /\ UNCHANGED jobTable

-----------------------------------------------------------------------------
HeartbeatNext ==
  \/ WorkerFinishes \/ SnapshotAges \/ WindowEnds
  \/ Ask \/ LookAtSnapshot \/ EnqueueRefresh \/ RequeueRefresh
  \/ CheckScope \/ CheckQueue \/ PollAgain \/ Reply

HeartbeatSpec == HeartbeatInit /\ [][HeartbeatNext]_heartbeatVars

-----------------------------------------------------------------------------
\* A pass never puts more jobs into the queue than allowed, whether it creates or
\* requeues them and whatever workers do meanwhile, and it leaves a candidate out
\* only when it has put as many there (maxJobs, submittedJobs).
LimitIsExact ==
  /\ Cardinality(acted) <= MaxJobs
  /\ limited # {} => Cardinality(acted) = MaxJobs
=============================================================================
