---------------------------- MODULE RedisJobStore ----------------------------
(***************************************************************************)
(* The job records of the Redis store (async/redis-store.ts) at the grain  *)
(* of Redis commands.  A job is a JSON value under its id, an entry of the *)
(* sorted set `ready' whose score says when to look at it, and perhaps an  *)
(* idempotency key; a claim holds a lock of its own.  No operation spans   *)
(* its commands with a transaction, so whatever happens between two of     *)
(* them is a behaviour here: other clients, crashes and time.             *)
(*                                                                         *)
(* Servers enqueue one job under one idempotency key, again and again, and *)
(* requeue it once it has ended, as the heartbeat does; they also enqueue  *)
(* without a key.  Workers list, claim, run and settle.                    *)
(***************************************************************************)
EXTENDS Naturals, FiniteSets

CONSTANTS
  Ops,          \* operation ids
  NoOp,         \* none
  Servers,      \* processes that enqueue
  Consumers,    \* worker loops
  NoHolder,     \* a claim lock that nobody holds
  LeaseBound,   \* bound on claims
  CrashBound,   \* bound on crashes
  Overruns,     \* may a run outlast its lease of five minutes?
  SlowClaims    \* may a claim outlast its lock of five seconds?

Clients == Servers \cup Consumers
Leases == 1..LeaseBound

ASSUME StoreAssumption ==
  /\ NoOp \notin Ops /\ NoHolder \notin Consumers
  /\ Servers \cap Consumers = {}
  /\ LeaseBound \in Nat /\ CrashBound \in Nat
  /\ Overruns \in BOOLEAN /\ SlowClaims \in BOOLEAN

VARIABLES
  record,   \* Redis, job:<id>: the status
  leaseOf,  \* Redis, job:<id>: the lease it names, by number
  ready,    \* Redis, jobs:ready: the ids in it
  score,    \* Redis, jobs:ready: the lease whose end is the score, 0 for earlier
  keyed,    \* Redis, idempotency:<key>: an id
  lock,     \* Redis, claim:<id>: the worker whose token it holds
  live,     \* leases that have not run out
  leases,   \* leases handed out so far
  at,       \* client: the command that comes next
  op,       \* client: the operation it deals with
  mine,     \* worker: the lease it was given
  scanned,  \* worker: ids of the listing that have not been looked at
  batch,     \* worker: jobs of the listing that have not been executed
  made,     \* ids that were created under the idempotency key
  deaths    \* crashes so far

redis == <<record, leaseOf, ready, score, keyed, lock>>
time == <<live, leases, deaths>>
clientVars == <<at, op, mine, scanned, batch>>
storeVars == <<redis, time, clientVars, made>>

Marking == {"mark_read", "mark_drop", "mark_write", "mark_index", "unlock"}
Holding == {"mark_index", "unlock_run", "run", "unindex", "reindex"}
ServerAt == {"idle", "set_key", "get_key", "read_keyed", "del_key", "write_job",
             "index_job", "requeue", "index_requeued"}
WorkerAt == {"idle", "scan", "unlist", "drain"} \cup Marking \cup Holding

StoreTypeOK ==
  /\ record \in [Ops -> {"absent", "queued", "running", "ended"}]
  /\ leaseOf \in [Ops -> Leases \cup {0}]
  /\ ready \subseteq Ops /\ score \in [Ops -> Leases \cup {0}]
  /\ keyed \in Ops \cup {NoOp}
  /\ lock \in [Ops -> Consumers \cup {NoHolder}]
  /\ live \subseteq 1..leases /\ leases \in 0..LeaseBound
  /\ deaths \in 0..CrashBound
  /\ at \in [Clients -> ServerAt \cup WorkerAt]
  /\ op \in [Clients -> Ops \cup {NoOp}]
  /\ mine \in [Consumers -> Leases \cup {0}]
  /\ scanned \in [Consumers -> SUBSET Ops]
  /\ batch \in [Consumers -> SUBSET Ops]
  /\ made \subseteq Ops

StoreInit ==
  /\ record = [o \in Ops |-> "absent"] /\ leaseOf = [o \in Ops |-> 0]
  /\ ready = {} /\ score = [o \in Ops |-> 0] /\ keyed = NoOp
  /\ lock = [o \in Ops |-> NoHolder]
  /\ live = {} /\ leases = 0 /\ deaths = 0
  /\ at = [c \in Clients |-> "idle"] /\ op = [c \in Clients |-> NoOp]
  /\ mine = [w \in Consumers |-> 0]
  /\ scanned = [w \in Consumers |-> {}] /\ batch = [w \in Consumers |-> {}]
  /\ made = {}

-----------------------------------------------------------------------------
(* Helpers.                                                                *)

\* Client c goes on to a command about o.
Goes(c, to, o) == at' = [at EXCEPT ![c] = to] /\ op' = [op EXCEPT ![c] = o]

\* It answers, and waits for its next call.
Returns(c) == Goes(c, "idle", NoOp)

\* zadd and zrem.
Index(o, lease) ==
  ready' = ready \cup {o} /\ score' = [score EXCEPT ![o] = lease]
Unindex(o) == ready' = ready \ {o} /\ UNCHANGED score

\* A lease ends when its end has passed; 0 has always passed.
Due(o) == o \in ready /\ score[o] \notin live
Eligible(o) ==
  record[o] = "queued" \/ (record[o] = "running" /\ leaseOf[o] \notin live)

\* randomUUID: an id that nobody has used.
Fresh(o) ==
  /\ record[o] = "absent" /\ o # keyed
  /\ \A c \in Clients : op[c] # o

\* What the sub-actions of one client leave alone.
SameWorkers == UNCHANGED <<mine, scanned, batch>>
SameJobs == UNCHANGED <<record, leaseOf>>
SameIndex == UNCHANGED <<ready, score>>

-----------------------------------------------------------------------------
(* enqueueJob, and requeueJob behind it.                                   *)

\* Variant for mutation: the key is taken whoever has it.
TakeKeyAlways(c) ==
  /\ at[c] \in {"idle", "set_key"}
  /\ \E o \in Ops : Fresh(o) /\ keyed' = o /\ Goes(c, "write_job", o)
  /\ SameJobs /\ SameIndex /\ SameWorkers /\ UNCHANGED <<lock, time, made>>

\* SET NX of the idempotency key, with an id that nothing is stored under yet.
TakeKey(c) ==
  /\ at[c] \in {"idle", "set_key"}
  /\ \/ /\ keyed = NoOp
        /\ \E o \in Ops : Fresh(o) /\ keyed' = o /\ Goes(c, "write_job", o)
     \/ /\ keyed # NoOp
        /\ UNCHANGED keyed /\ Goes(c, "get_key", NoOp)
  /\ SameJobs /\ SameIndex /\ SameWorkers /\ UNCHANGED <<lock, time, made>>

EnqueueWithoutKey(c) ==
  /\ at[c] = "idle"
  /\ \E o \in Ops : Fresh(o) /\ Goes(c, "write_job", o)
  /\ UNCHANGED <<redis, time, mine, scanned, batch, made>>

GetKey(c) ==
  /\ at[c] = "get_key"
  /\ Goes(c, IF keyed = NoOp THEN "del_key" ELSE "read_keyed", keyed)
  /\ UNCHANGED <<redis, time, mine, scanned, batch, made>>

\* Variant for mutation: the heartbeat requeues whatever it finds.
RequeueAnything(c) ==
  /\ at[c] = "read_keyed"
  /\ CASE record[op[c]] = "absent" -> Goes(c, "del_key", NoOp)
       [] OTHER -> Goes(c, "requeue", op[c])
  /\ UNCHANGED <<redis, time, mine, scanned, batch, made>>

\* The job the key stands for, if it is there: the heartbeat requeues it when it
\* has ended and leaves it alone otherwise.
ReadKeyed(c) ==
  /\ at[c] = "read_keyed"
  /\ CASE record[op[c]] = "absent" -> Goes(c, "del_key", NoOp)
       [] record[op[c]] = "ended" -> Goes(c, "requeue", op[c])
       [] OTHER -> Returns(c)
  /\ UNCHANGED <<redis, time, mine, scanned, batch, made>>

\* A key without a job is deleted, and the call starts again.
DelKey(c) ==
  /\ at[c] = "del_key"
  /\ keyed' = NoOp /\ Goes(c, "set_key", NoOp)
  /\ SameJobs /\ SameIndex /\ SameWorkers /\ UNCHANGED <<lock, time, made>>

WriteJob(c) ==
  /\ at[c] = "write_job"
  /\ record' = [record EXCEPT ![op[c]] = "queued"]
  /\ made' = IF keyed = op[c] THEN made \cup {op[c]} ELSE made
  /\ Goes(c, "index_job", op[c])
  /\ SameIndex /\ SameWorkers /\ UNCHANGED <<leaseOf, keyed, lock, time>>

\* requeueJob looks at nothing but the record's existence.
WriteRequeued(c) ==
  /\ at[c] = "requeue"
  /\ record' = [record EXCEPT ![op[c]] = "queued"]
  /\ leaseOf' = [leaseOf EXCEPT ![op[c]] = 0]
  /\ Goes(c, "index_requeued", op[c])
  /\ SameIndex /\ SameWorkers /\ UNCHANGED <<keyed, lock, time, made>>

IndexJob(c) ==
  /\ at[c] \in {"index_job", "index_requeued"}
  /\ Index(op[c], 0) /\ Returns(c)
  /\ SameJobs /\ SameWorkers /\ UNCHANGED <<keyed, lock, time, made>>

-----------------------------------------------------------------------------
(* listReadyJobs.                                                          *)

\* zrangebyscore; an empty answer changes nothing.
Scan(w) ==
  /\ at[w] = "idle" /\ \E o \in Ops : Due(o)
  /\ scanned' = [scanned EXCEPT ![w] = {o \in Ops : Due(o)}]
  /\ Goes(w, "scan", NoOp)
  /\ UNCHANGED <<redis, time, mine, batch, made>>

\* One of the ids is read: a job to be executed, or one to be removed.
ReadScanned(w) ==
  /\ at[w] = "scan"
  /\ \E o \in scanned[w] :
       /\ scanned' = [scanned EXCEPT ![w] = @ \ {o}]
       /\ IF Eligible(o)
            THEN /\ batch' = [batch EXCEPT ![w] = @ \cup {o}]
                 /\ UNCHANGED <<at, op>>
            ELSE Goes(w, "unlist", o) /\ UNCHANGED batch
  /\ UNCHANGED <<redis, time, mine, made>>

\* The id is removed for what its record was a moment ago.
Unlist(w) ==
  /\ at[w] = "unlist"
  /\ Unindex(op[w]) /\ Goes(w, "scan", NoOp)
  /\ SameJobs /\ SameWorkers /\ UNCHANGED <<keyed, lock, time, made>>

\* The ids or the limit are used up; the drain is over when its jobs are.
EndScan(w) ==
  /\ \/ at[w] = "scan" /\ (scanned[w] = {} \/ batch[w] # {})
        /\ Goes(w, IF batch[w] = {} THEN "idle" ELSE "drain", NoOp)
     \/ at[w] = "drain" /\ batch[w] = {} /\ Returns(w)
  /\ scanned' = [scanned EXCEPT ![w] = {}]
  /\ UNCHANGED <<redis, time, mine, batch, made>>

-----------------------------------------------------------------------------
(* markJobRunning.                                                         *)

\* SET NX of the claim lock; a job that somebody else claims is left to him.
TakeLock(w) ==
  /\ at[w] = "drain"
  /\ \E o \in batch[w] :
       /\ batch' = [batch EXCEPT ![w] = @ \ {o}]
       /\ IF lock[o] = NoHolder
            THEN lock' = [lock EXCEPT ![o] = w] /\ Goes(w, "mark_read", o)
            ELSE UNCHANGED <<lock, at, op>>
  /\ SameJobs /\ SameIndex /\ UNCHANGED <<keyed, time, mine, scanned, made>>

\* Variant for mutation: a live lease does not keep the job from being claimed.
MarkReadAnyLease(w) ==
  /\ at[w] = "mark_read"
  /\ Goes(w, CASE record[op[w]] = "ended" -> "mark_drop"
               [] record[op[w]] = "absent" -> "unlock"
               [] OTHER -> "mark_write", op[w])
  /\ UNCHANGED <<redis, time, mine, scanned, batch, made>>

MarkRead(w) ==
  /\ at[w] = "mark_read"
  /\ Goes(w, CASE record[op[w]] = "ended" -> "mark_drop"
               [] Eligible(op[w]) -> "mark_write"
               [] OTHER -> "unlock", op[w])
  /\ UNCHANGED <<redis, time, mine, scanned, batch, made>>

MarkDrop(w) ==
  /\ at[w] = "mark_drop"
  /\ Unindex(op[w]) /\ Goes(w, "unlock", op[w])
  /\ SameJobs /\ SameWorkers /\ UNCHANGED <<keyed, lock, time, made>>

\* The record is written under a new lease.
MarkWrite(w) ==
  /\ at[w] = "mark_write" /\ leases < LeaseBound
  /\ leases' = leases + 1 /\ live' = live \cup {leases'}
  /\ mine' = [mine EXCEPT ![w] = leases']
  /\ record' = [record EXCEPT ![op[w]] = "running"]
  /\ leaseOf' = [leaseOf EXCEPT ![op[w]] = leases']
  /\ Goes(w, "mark_index", op[w])
  /\ SameIndex /\ UNCHANGED <<keyed, lock, deaths, scanned, batch, made>>

MarkIndex(w) ==
  /\ at[w] = "mark_index"
  /\ Index(op[w], mine[w]) /\ Goes(w, "unlock_run", op[w])
  /\ SameJobs /\ SameWorkers /\ UNCHANGED <<keyed, lock, time, made>>

\* LUA_CAS_DEL: the lock is deleted if it is still one's own.
Unlock(w) ==
  /\ at[w] \in {"unlock", "unlock_run"}
  /\ lock' = IF lock[op[w]] = w THEN [lock EXCEPT ![op[w]] = NoHolder] ELSE lock
  /\ IF at[w] = "unlock" THEN Goes(w, "drain", NoOp) ELSE Goes(w, "run", op[w])
  /\ SameJobs /\ SameIndex /\ SameWorkers /\ UNCHANGED <<keyed, time, made>>

-----------------------------------------------------------------------------
(* The run, and completeJob, failJob or requeueJob.                        *)

\* The record is written as it was read, but for status and lease.
WriteOutcome(w) ==
  /\ at[w] = "run"
  /\ \E outcome \in {"ended", "queued"} :
       /\ record' = [record EXCEPT ![op[w]] = outcome]
       /\ leaseOf' = [leaseOf EXCEPT ![op[w]] = IF outcome = "ended" THEN @ ELSE 0]
       /\ Goes(w, IF outcome = "ended" THEN "unindex" ELSE "reindex", op[w])
  /\ mine' = [mine EXCEPT ![w] = 0]
  /\ SameIndex /\ UNCHANGED <<keyed, lock, time, scanned, batch, made>>

IndexOutcome(w) ==
  /\ \/ at[w] = "unindex" /\ Unindex(op[w])
     \/ at[w] = "reindex" /\ Index(op[w], 0)
  /\ Goes(w, "drain", NoOp)
  /\ SameJobs /\ SameWorkers /\ UNCHANGED <<keyed, lock, time, made>>

-----------------------------------------------------------------------------
(* Time and crashes.                                                       *)

LeaseEnds ==
  \E n \in live :
    /\ Overruns \/ \A w \in Consumers : mine[w] # n
    /\ live' = live \ {n}
    /\ UNCHANGED <<redis, leases, deaths, clientVars, made>>

LockEnds ==
  \E o \in Ops :
    /\ lock[o] # NoHolder
    /\ SlowClaims \/ op[lock[o]] # o \/ at[lock[o]] \notin Marking \cup {"unlock_run"}
    /\ lock' = [lock EXCEPT ![o] = NoHolder]
    /\ SameJobs /\ SameIndex /\ UNCHANGED <<keyed, time, clientVars, made>>

Dies(c) ==
  /\ at[c] # "idle" /\ deaths < CrashBound
  /\ deaths' = deaths + 1
  /\ Returns(c)
  /\ IF c \in Consumers
       THEN /\ mine' = [mine EXCEPT ![c] = 0]
            /\ scanned' = [scanned EXCEPT ![c] = {}]
            /\ batch' = [batch EXCEPT ![c] = {}]
       ELSE SameWorkers
  /\ UNCHANGED <<redis, live, leases, made>>

-----------------------------------------------------------------------------
Serve(c) ==
  \/ TakeKey(c) \/ EnqueueWithoutKey(c) \/ GetKey(c) \/ ReadKeyed(c) \/ DelKey(c)
  \/ WriteJob(c) \/ WriteRequeued(c) \/ IndexJob(c)

Consume(w) ==
  \/ Scan(w) \/ ReadScanned(w) \/ Unlist(w) \/ EndScan(w) \/ TakeLock(w)
  \/ MarkRead(w) \/ MarkDrop(w) \/ MarkWrite(w) \/ MarkIndex(w) \/ Unlock(w)
  \/ WriteOutcome(w) \/ IndexOutcome(w)

StoreNext ==
  \/ \E c \in Servers : Serve(c)
  \/ \E w \in Consumers : Consume(w)
  \/ \E c \in Clients : Dies(c)
  \/ LeaseEnds \/ LockEnds

StoreSpec == StoreInit /\ [][StoreNext]_storeVars

-----------------------------------------------------------------------------
(* Properties.                                                             *)

\* No two workers run the same job, as long as runs and claims keep to their
\* lease and lock (markJobRunning: lock, read and write are three commands).
ClaimsExclusive ==
  \A v, w \in Consumers :
    at[v] = "run" /\ at[w] = "run" /\ op[v] = op[w] => v = w

\* A server that calls again and again, whatever crashes in between, never has two
\* jobs under one key (enqueueJob: key first, job later).
OneJobPerKey == Cardinality(made) <= 1

\* The records behave like those of the store whose operations are atomic, so that
\* what is shown for such a store holds for this one (BridgeJobs, Store = "redis").
Table == INSTANCE JobStore WITH
  Ops <- Ops, record <- record,
  held <- [o \in Ops |-> record[o] = "running" /\ leaseOf[o] \in live]
ActsLikeATable == Table!TableSpec

\* A job that is not finished will be looked at: its id is in the ready set, or
\* somebody is about to put it there, or works on it and will settle it.
NoJobIsForgotten ==
  \A o \in Ops :
    record[o] \in {"queued", "running"} =>
      \/ o \in ready
      \/ \E c \in Clients : op[c] = o /\ at[c] \in Holding \cup
           {"index_job", "index_requeued"}
=============================================================================
