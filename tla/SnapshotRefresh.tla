-------------------------- MODULE SnapshotRefresh --------------------------
(***************************************************************************)
(* How an availability snapshot of one service and scope is kept fresh,    *)
(* and what its readers are served: the snapshot-first request handlers    *)
(* with their read cache, the prewarm and refresh jobs, the heartbeat that *)
(* enqueues and requeues refresh jobs under time-bucketed idempotency keys,*)
(* and the worker that runs a refresh job through the journalled read flow.*)
(*                                                                         *)
(* Time is counted in ticks and every datum is represented by its age:     *)
(* `data' is how long ago the availability was really read at the vendor,  *)
(* `stamp' how long ago the snapshot says it was (observedAt).  Ages       *)
(* saturate at MaxAge, where a snapshot is as good as missing.             *)
(***************************************************************************)
EXTENDS Naturals

CONSTANTS
  FreshFor,      \* staleAt - observedAt
  ExpiresAfter,  \* expiresAt - observedAt
  Floor,         \* the heartbeat calls a snapshot fresh up to this age
  CacheTtl,      \* READ_CACHE_TTL_SECONDS
  Window,        \* heartbeat idempotency window
  Lease,         \* how long a job is leased
  RunLimit,      \* bound: ticks between a read and the write of its result
  MaxAge,        \* bound: ages beyond it are not told apart
  Sampled,       \* are read flows journalled (BRIDGE_FLOW_JOURNAL_SAMPLE)?
  Crashes        \* bound: how often the worker process dies

ASSUME TimeAssumption ==
  /\ {FreshFor, ExpiresAfter, Floor, CacheTtl, Window, Lease, RunLimit,
      MaxAge, Crashes} \subseteq Nat
  /\ Window > 0 /\ Lease <= Window 
  /\ FreshFor <= ExpiresAfter /\ CacheTtl <= ExpiresAfter
  /\ MaxAge > ExpiresAfter + RunLimit
  /\ Sampled \in BOOLEAN

VARIABLES
  phase,     \* ticks since the idempotency bucket began
  stamp,     \* snapshot: age of observedAt
  data,      \* snapshot: age of the value
  ttl,       \* read cache: ticks before the entry expires, 0 when there is none
  cached,    \* read cache: age of the value
  status,    \* job -> BridgeJobRecord.status, "none" before it is enqueued
  leaseLeft, \* job -> ticks before its lease runs out
  recorded,  \* job -> age of the value in its journal's boundary row
  wpc, wjob, wdata, wheld,   \* worker: where it is, its job, value and ticks
  hpc, hbucket,              \* heartbeat: where it is, its job
  rpc, rheld,                \* a request that reads live, ticks since it read
  crashes

snapshot == <<stamp, data>>
cache == <<ttl, cached>>
jobs == <<status, leaseLeft, recorded>>
worker == <<wpc, wjob, wdata, wheld>>
heartbeat == <<hpc, hbucket>>
request == <<rpc, rheld>>
vars == <<phase, snapshot, cache, jobs, worker, heartbeat, request, crashes>>

\* The prewarm job's key has no time bucket.  Of the heartbeat's jobs only the
\* current and the last bucket's can still be alive.
Bucket == {"current", "last"}
Job == {"prewarm"} \cup Bucket
NotRecorded == MaxAge + 1
Age == 0..MaxAge
Runnable == {"queued", "running"}
JobStatus == Runnable \cup {"none", "succeeded", "failed_pre_submit"}

TypeOK ==
  /\ phase \in 0..(Window - 1)
  /\ stamp \in Age /\ data \in Age
  /\ ttl \in 0..CacheTtl /\ cached \in Age
  /\ status \in [Job -> JobStatus]
  /\ leaseLeft \in [Job -> 0..Lease]
  /\ recorded \in [Job -> Age \cup {NotRecorded}]
  /\ wpc \in {"idle", "read", "cache", "upsert", "complete"}
  /\ wjob \in Job /\ wdata \in Age /\ wheld \in 0..RunLimit
  /\ hpc \in {"idle", "enqueue", "requeue"} /\ hbucket \in Bucket
  /\ rpc \in {"idle", "read", "record"}
  /\ rheld \in 0..RunLimit
  /\ crashes \in 0..Crashes

Init ==
  /\ phase = 0
  /\ stamp = MaxAge /\ data = MaxAge
  /\ ttl = 0 /\ cached = 0
  /\ status = [j \in Job |-> "none"]
  /\ leaseLeft = [j \in Job |-> 0]
  /\ recorded = [j \in Job |-> NotRecorded]
  /\ wpc = "idle" /\ wjob = "prewarm" /\ wdata = 0 /\ wheld = 0
  /\ hpc = "idle" /\ hbucket = "current"
  /\ rpc = "idle" /\ rheld = 0
  /\ crashes = 0

-----------------------------------------------------------------------------
(* Time.                                                                   *)

Older(age) == IF age < MaxAge THEN age + 1 ELSE age
Less(n) == IF n > 0 THEN n - 1 ELSE 0
OlderRow(row) == IF row = NotRecorded THEN row ELSE Older(row)
Busy == wpc \in {"cache", "upsert"}

\* A new idempotency bucket begins: its job has never been enqueued.  Bound:
\* the last bucket's job has ended by then, and so has a heartbeat about it.
Shift(f, new) == [f EXCEPT !["last"] = f["current"], !["current"] = new]
ShiftName(j) == IF j = "current" THEN "last" ELSE j

\* A value that was read and not yet written may be held for RunLimit ticks.
Tick ==
  /\ Busy => wheld < RunLimit
  /\ rpc = "record" => rheld < RunLimit
  /\ stamp' = Older(stamp) /\ data' = Older(data)
  /\ ttl' = Less(ttl) /\ cached' = IF ttl > 1 THEN Older(cached) ELSE 0
  /\ wdata' = IF Busy THEN Older(wdata) ELSE 0
  /\ wheld' = IF Busy THEN wheld + 1 ELSE 0
  /\ rheld' = IF rpc = "record" THEN rheld + 1 ELSE 0
  /\ UNCHANGED <<wpc, hpc, rpc, crashes>>
  /\ LET lease == [j \in Job |-> Less(leaseLeft[j])]
         rows == [j \in Job |-> OlderRow(recorded[j])]
     IN IF phase + 1 < Window
          THEN /\ phase' = phase + 1
               /\ leaseLeft' = lease /\ recorded' = rows
               /\ UNCHANGED <<status, wjob, hbucket>>
          ELSE /\ status["last"] \notin Runnable
               /\ hpc = "idle" \/ hbucket = "current"
               /\ phase' = 0
               /\ status' = Shift(status, "none")
               /\ leaseLeft' = Shift(lease, 0)
               /\ recorded' = Shift(rows, NotRecorded)
               /\ wjob' = ShiftName(wjob) /\ hbucket' = ShiftName(hbucket)

-----------------------------------------------------------------------------
(* The request handlers of availability dates and slots.                   *)

\* Variant for mutation: an expired snapshot is still served.
NeverExpired == stamp < MaxAge

\* classifyAvailabilitySnapshotFreshness: fresh up to FreshFor, stale up to
\* ExpiresAfter, then expired.
Usable == stamp < ExpiresAfter
Stale == stamp >= FreshFor

\* runCachedBridgeRead: the read cache answers.
ServeCached ==
  /\ rpc = "idle" /\ ttl > 0
  /\ UNCHANGED <<phase, snapshot, cache, jobs, worker, heartbeat, request,
                 crashes>>

\* enqueueJob returns the record that has the idempotency key, if there is one.
Enqueue(j) ==
  /\ status' = [status EXCEPT ![j] = IF @ = "none" THEN "queued" ELSE @]
  /\ UNCHANGED <<leaseLeft, recorded>>

\* readAvailabilitySnapshotLayer: a usable snapshot is served and not cached; a
\* stale one also enqueues the prewarm job.
ServeSnapshot ==
  /\ rpc = "idle" /\ ttl = 0 /\ Usable
  /\ IF Stale THEN Enqueue("prewarm") ELSE UNCHANGED jobs
  /\ UNCHANGED <<phase, snapshot, cache, worker, heartbeat, request, crashes>>

\* A missing or expired snapshot: the handler reads at the vendor.
StartLiveRead ==
  /\ rpc = "idle" /\ ttl = 0 /\ ~Usable
  /\ rpc' = "read"
  /\ UNCHANGED <<phase, snapshot, cache, jobs, worker, heartbeat, rheld,
                 crashes>>

\* The read succeeds and fills the read cache, or it fails.
LiveRead ==
  /\ rpc = "read"
  /\ \/ /\ rpc' = "record" /\ rheld' = 0
        /\ ttl' = CacheTtl /\ cached' = 0
     \/ rpc' = "idle" /\ UNCHANGED <<rheld, cache>>
  /\ UNCHANGED <<phase, snapshot, jobs, worker, heartbeat, crashes>>

\* recordAvailabilitySnapshot stamps what was read as observed now; its failure
\* is logged.
RecordSnapshot ==
  /\ rpc = "record"
  /\ \/ stamp' = 0 /\ data' = rheld
     \/ UNCHANGED snapshot
  /\ rpc' = "idle" /\ rheld' = 0
  /\ UNCHANGED <<phase, cache, jobs, worker, heartbeat, crashes>>

-----------------------------------------------------------------------------
(* The heartbeat, and wait-ready, which runs it on every poll.             *)

\* Variant for mutation: a service without a snapshot is skipped, too.
CheckFreshnessOfOld ==
  /\ hpc = "idle" /\ stamp > Floor /\ stamp < MaxAge
  /\ hpc' = "enqueue" /\ hbucket' = "current"
  /\ UNCHANGED <<phase, snapshot, cache, jobs, worker, request, crashes>>

\* The snapshot is read; a fresh one is skipped.
CheckFreshness ==
  /\ hpc = "idle" /\ stamp > Floor
  /\ hpc' = "enqueue" /\ hbucket' = "current"
  /\ UNCHANGED <<phase, snapshot, cache, jobs, worker, request, crashes>>

\* A deduplicated record that succeeded, or failed retryably, is queued again.
Requeues(saw) == saw \in {"succeeded", "failed_pre_submit"}

\* The job of the bucket is enqueued, or its record is returned as it is.
EnqueueHeartbeat ==
  /\ hpc = "enqueue"
  /\ Enqueue(hbucket)
  /\ IF Requeues(status[hbucket])
       THEN hpc' = "requeue" ELSE hpc' = "idle"
  /\ UNCHANGED <<hbucket, phase, snapshot, cache, worker, request, crashes>>

\* requeueJob, by operation id: whatever has become of the job meanwhile.
Requeue ==
  /\ hpc = "requeue"
  /\ status' = [status EXCEPT ![hbucket] = "queued"]
  /\ hpc' = "idle"
  /\ UNCHANGED <<phase, snapshot, cache, leaseLeft, recorded, worker, hbucket,
                 request, crashes>>

-----------------------------------------------------------------------------
(* The worker: a refresh job of the queue.                                 *)

\* Variant for mutation: the lease is one tick too long.
ClaimTooLong(j) ==
  /\ wpc = "idle" /\ status[j] = "queued"
  /\ status' = [status EXCEPT ![j] = "running"]
  /\ leaseLeft' = [leaseLeft EXCEPT ![j] = Lease + 1]
  /\ wpc' = "read" /\ wjob' = j
  /\ UNCHANGED <<phase, snapshot, cache, recorded, wdata, wheld, heartbeat,
                 request, crashes>>

ClaimRefresh(j) ==
  /\ wpc = "idle"
  /\ status[j] = "queued" \/ (status[j] = "running" /\ leaseLeft[j] = 0)
  /\ status' = [status EXCEPT ![j] = "running"]
  /\ leaseLeft' = [leaseLeft EXCEPT ![j] = Lease]
  /\ wpc' = "read" /\ wjob' = j
  /\ UNCHANGED <<phase, snapshot, cache, recorded, wdata, wheld, heartbeat,
                 request, crashes>>

\* executeReadThroughFlow: a journal whose boundary row covers the one step of
\* the read flow makes the run skip it and return the journalled value.
Replays(j) == recorded[j] # NotRecorded

\* Variant for mutation: the run returns what the snapshot already holds.
ReadFromSnapshot ==
  /\ wpc = "read" /\ ~Replays(wjob)
  /\ wdata' = data /\ recorded' = recorded
  /\ wpc' = "cache" /\ wheld' = 0
  /\ UNCHANGED <<phase, snapshot, cache, status, leaseLeft, wjob, heartbeat,
                 request, crashes>>

ReadVendor ==
  /\ wpc = "read" /\ ~Replays(wjob)
  /\ wdata' = 0
  /\ recorded' = [recorded EXCEPT ![wjob] = IF Sampled THEN 0 ELSE @]
  /\ wpc' = "cache" /\ wheld' = 0
  /\ UNCHANGED <<phase, snapshot, cache, status, leaseLeft, wjob, heartbeat,
                 request, crashes>>

ReplayJournal ==
  /\ wpc = "read" /\ Replays(wjob)
  /\ wdata' = recorded[wjob]
  /\ wpc' = "cache" /\ wheld' = 0
  /\ UNCHANGED <<phase, snapshot, cache, jobs, wjob, heartbeat, request,
                 crashes>>

\* The read fails, or the store does: a retryable failed_pre_submit.
JobFails ==
  /\ (wpc = "read" /\ ~Replays(wjob)) \/ wpc = "upsert"
  /\ status' = [status EXCEPT ![wjob] = "failed_pre_submit"]
  /\ wpc' = "idle" /\ wdata' = 0 /\ wheld' = 0
  /\ leaseLeft' = [leaseLeft EXCEPT ![wjob] = 0]
  /\ UNCHANGED <<phase, snapshot, cache, recorded, wjob, heartbeat, request,
                 crashes>>

\* writeReadCache; its failure is logged.
WriteReadCache ==
  /\ wpc = "cache"
  /\ \/ ttl' = CacheTtl /\ cached' = wdata
     \/ UNCHANGED cache
  /\ wpc' = "upsert"
  /\ UNCHANGED <<phase, snapshot, jobs, wjob, wdata, wheld, heartbeat,
                 request, crashes>>

\* upsertAvailabilitySnapshot with snapshotTimestamps(new Date()).
UpsertSnapshot ==
  /\ wpc = "upsert"
  /\ stamp' = 0 /\ data' = wdata
  /\ wpc' = "complete" /\ wdata' = 0 /\ wheld' = 0
  /\ UNCHANGED <<phase, cache, jobs, wjob, heartbeat, request, crashes>>

Complete ==
  /\ wpc = "complete"
  /\ status' = [status EXCEPT ![wjob] = "succeeded"]
  /\ wpc' = "idle"
  /\ leaseLeft' = [leaseLeft EXCEPT ![wjob] = 0]
  /\ UNCHANGED <<phase, snapshot, cache, recorded, wjob, wdata, wheld,
                 heartbeat, request, crashes>>

\* Bound: the last bucket's job is not crashed, so that it ends in its window.
Crash ==
  /\ wpc # "idle" /\ crashes < Crashes /\ wjob # "last"
  /\ crashes' = crashes + 1
  /\ wpc' = "idle" /\ wdata' = 0 /\ wheld' = 0
  /\ UNCHANGED <<phase, snapshot, cache, jobs, wjob, heartbeat, request>>

-----------------------------------------------------------------------------
Request == ServeCached \/ ServeSnapshot \/ StartLiveRead
Respond == LiveRead \/ RecordSnapshot
Heartbeat == CheckFreshness \/ EnqueueHeartbeat \/ Requeue
Work ==
  \/ \E j \in Job : ClaimRefresh(j)
  \/ ReadVendor \/ ReplayJournal \/ JobFails \/ WriteReadCache
  \/ UpsertSnapshot \/ Complete

Next == Tick \/ Request \/ Respond \/ Heartbeat \/ Work \/ Crash

Spec == Init /\ [][Next]_vars

\* Time passes; the heartbeat is called again and again (it is an operator's
\* cron entry point); handlers and the worker loop get on with their awaits;
\* the drain lists the oldest job first, so no ready job is passed over for
\* ever; a vendor that is read again and again answers some time; and the store
\* does not refuse every write of a fresh read.
FairSpec ==
  /\ Spec
  /\ SF_vars(Tick) /\ WF_vars(Heartbeat) /\ WF_vars(Respond) /\ WF_vars(Work)
  /\ \A j \in Job : SF_vars(ClaimRefresh(j))
  /\ SF_vars(ReadVendor)
  /\ SF_vars(UpsertSnapshot /\ wdata <= RunLimit)

-----------------------------------------------------------------------------
(* Properties.                                                             *)

\* A snapshot was really read when it says it was observed, give or take the
\* time between a read and its write (snapshotTimestamps; README, snapshot
\* freshness).
HonestStamp == data <= stamp + RunLimit

\* What is served, whether by the read cache or from a fresh or stale snapshot,
\* was read at the vendor no longer ago than a snapshot may live, by whatever
\* path it came there: live read or refresh job (readUsableAvailabilitySnapshot,
\* writeReadCache).
ServableWithin(limit) ==
  /\ ttl > 0 => cached <= limit
  /\ Usable => data <= limit
ServedWithinExpiry == ServableWithin(ExpiresAfter + RunLimit)

\* As long as the heartbeat is called, data that was really just read comes
\* back again and again: no stale stamp, ended job or dead letter keeps it away
\* for good (runAvailabilityHeartbeat).
FreshDataReturns == []<>(data <= RunLimit)
=============================================================================
