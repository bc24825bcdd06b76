----------------------------- MODULE BridgeRead -----------------------------
(***************************************************************************)
(* Requests for the same available dates or slots, as they meet in Redis   *)
(* (runBridgeReadCached: one entry, one fill lock with an expiry), in the  *)
(* availability snapshot and at the browser (PageLimiter).  The winner of  *)
(* the lock reads and fills the cache; the others poll the cache until the *)
(* entry appears or their time is over.  When Redis fails before a caller  *)
(* has the lock, it reads without one, like a caller with another key.     *)
(*                                                                         *)
(* Values are left out: what matters is who reads when, and who is         *)
(* answered.  The lock's expiry, the poll's deadline and the limiter's     *)
(* timeout may come at any time, in any order.                             *)
(***************************************************************************)
EXTENDS PageLimiter

CONSTANT Free  \* nobody's lock

ASSUME LockAssumption == Free \notin Callers

VARIABLES
  entry,   \* Redis: is there a live cache entry?
  lock,    \* Redis: whose token the lock key holds, or Free
  usable,  \* the store: is there a snapshot that has not expired?
  pc,      \* caller: the await it stands at
  role,    \* caller: "winner" or "loner" while it reads, else "none"
  live,    \* caller: has it read at the vendor?
  lapsed   \* winners whose lock expired while they were reading

redis == <<entry, lock>>
callers == <<pc, role, live, lapsed>>
vars == <<limiter, redis, usable, callers>>

PC == {"idle", "get", "lock", "poll", "snapshot", "page", "store", "unlock",
       "record"}

\* The callers that are inside read().
Reading == {c \in Callers : pc[c] \in {"snapshot", "page"}}

TypeOK ==
  /\ LimiterTypeOK
  /\ entry \in BOOLEAN /\ usable \in BOOLEAN
  /\ lock \in Callers \cup {Free}
  /\ pc \in [Callers -> PC]
  /\ role \in [Callers -> {"none", "winner", "loner"}]
  /\ live \in [Callers -> BOOLEAN]
  /\ lapsed \subseteq Callers

Init ==
  /\ LimiterInit
  /\ entry = FALSE /\ lock = Free /\ usable = FALSE
  /\ pc = [c \in Callers |-> "idle"]
  /\ role = [c \in Callers |-> "none"]
  /\ live = [c \in Callers |-> FALSE]
  /\ lapsed = {}

Goto(c, at) == pc' = [pc EXCEPT ![c] = at]

\* The request is answered.
Answer(c) ==
  /\ Goto(c, "idle")
  /\ role' = [role EXCEPT ![c] = "none"]
  /\ live' = [live EXCEPT ![c] = FALSE]
  /\ lapsed' = lapsed \ {c}

\* read() returns, with a value read at the vendor or without: only such a value
\* is cached by the winner, and recorded as a snapshot.
Return(c, isLive) ==
  \/ /\ role[c] = "winner"
     /\ Goto(c, IF isLive THEN "store" ELSE "unlock")
     /\ live' = [live EXCEPT ![c] = isLive]
     /\ UNCHANGED <<role, lapsed>>
  \/ /\ role[c] = "loner" /\ isLive
     /\ Goto(c, "record")
     /\ live' = [live EXCEPT ![c] = TRUE]
     /\ UNCHANGED <<role, lapsed>>
  \/ role[c] = "loner" /\ ~isLive /\ Answer(c)

-----------------------------------------------------------------------------
(* runBridgeReadCached.                                                    *)

Call(c) ==
  /\ pc[c] = "idle"
  /\ Goto(c, "get")
  /\ UNCHANGED <<limiter, redis, usable, role, live, lapsed>>

\* GET of the entry.
Hit(c) ==
  /\ pc[c] \in {"get", "poll"} /\ entry
  /\ Answer(c)
  /\ UNCHANGED <<limiter, redis, usable>>

Miss(c) ==
  /\ pc[c] = "get" /\ ~entry
  /\ Goto(c, "lock")
  /\ UNCHANGED <<limiter, redis, usable, role, live, lapsed>>

\* SET NX PX of the lock.  The winner does not look at the entry again.
WinLock(c) ==
  /\ pc[c] = "lock" /\ lock = Free
  /\ lock' = c
  /\ Goto(c, "snapshot")
  /\ role' = [role EXCEPT ![c] = "winner"]
  /\ UNCHANGED <<limiter, entry, usable, live, lapsed>>

LoseLock(c) ==
  /\ pc[c] = "lock" /\ lock # Free
  /\ Goto(c, "poll")
  /\ UNCHANGED <<limiter, redis, usable, role, live, lapsed>>

\* Variant for mutation: the poll has no deadline.
PollOn(c) == pc[c] = "poll" /\ UNCHANGED vars

\* The poll's deadline: the handlers answer TIMEOUT and do not read.
GiveUp(c) ==
  /\ pc[c] = "poll"
  /\ Answer(c)
  /\ UNCHANGED <<limiter, redis, usable>>

\* A Redis command rejects: before the lock the caller reads without it, while
\* polling it gives up.
RedisFails(c) ==
  /\ \/ /\ pc[c] \in {"get", "lock"}
        /\ Goto(c, "snapshot")
        /\ role' = [role EXCEPT ![c] = "loner"]
        /\ UNCHANGED <<live, lapsed>>
     \/ pc[c] = "poll" /\ Answer(c)
  /\ UNCHANGED <<limiter, redis, usable>>

\* SET EX of the entry; its failure is logged.
Store(c) ==
  /\ pc[c] = "store"
  /\ entry' \in {entry, TRUE}
  /\ Goto(c, "unlock")
  /\ UNCHANGED <<limiter, lock, usable, role, live, lapsed>>

\* Variant for mutation: DEL without comparing the token.
UnlockAny(c) ==
  /\ pc[c] = "unlock"
  /\ lock' = Free
  /\ IF live[c] THEN Goto(c, "record") /\ UNCHANGED <<role, live, lapsed>>
                ELSE Answer(c)
  /\ UNCHANGED <<limiter, entry, usable>>

\* LUA_CAS_DEL; its failure is logged, and the lock stays until it expires.
Unlock(c) ==
  /\ pc[c] = "unlock"
  /\ lock' \in {lock, IF lock = c THEN Free ELSE lock}
  /\ IF live[c] THEN Goto(c, "record") /\ UNCHANGED <<role, live, lapsed>>
                ELSE Answer(c)
  /\ UNCHANGED <<limiter, entry, usable>>

-----------------------------------------------------------------------------
(* read(), as the handlers of dates and slots pass it.                     *)

\* readUsableAvailabilitySnapshot: what it returns is answered, not cached.
ServeSnapshot(c) ==
  /\ pc[c] = "snapshot" /\ usable
  /\ Return(c, FALSE)
  /\ UNCHANGED <<limiter, redis, usable>>

\* There is none, or the store fails: a page is asked for.
AskForPage(c) ==
  /\ pc[c] = "snapshot"
  /\ Goto(c, "page")
  /\ Grant(c) \/ Wait(c)
  /\ UNCHANGED <<redis, usable, role, live, lapsed>>

\* No page in time: PAGE_FAILED.
PageTimeout(c) ==
  /\ pc[c] = "page"
  /\ Expire(c)
  /\ Return(c, FALSE)
  /\ UNCHANGED <<redis, usable>>

\* Variant for mutation: a read that fails keeps its permit.
ReadKeepsPage(c) ==
  /\ pc[c] = "page" /\ permit[c] = "held"
  /\ \/ Release(c) /\ Return(c, TRUE)
     \/ Return(c, FALSE) /\ UNCHANGED limiter
  /\ UNCHANGED <<redis, usable>>

\* The page opens and the vendor is read, or one of the two fails; the scope of
\* the session closes before read() returns.
ReadVendor(c) ==
  /\ pc[c] = "page" /\ permit[c] = "held"
  /\ Release(c)
  /\ \E isLive \in BOOLEAN : Return(c, isLive)
  /\ UNCHANGED <<redis, usable>>

\* recordAvailabilitySnapshot of a live read; its failure is logged.
Record(c) ==
  /\ pc[c] = "record"
  /\ usable' \in {usable, TRUE}
  /\ Answer(c)
  /\ UNCHANGED <<limiter, redis>>

-----------------------------------------------------------------------------
(* Time.                                                                   *)

EntryExpires ==
  entry /\ entry' = FALSE /\ UNCHANGED <<limiter, lock, usable, callers>>

\* The lock key expires, also under a winner that is still reading.
LockExpires ==
  /\ lock # Free
  /\ lock' = Free
  /\ lapsed' = IF role[lock] = "winner" THEN lapsed \cup {lock} ELSE lapsed
  /\ UNCHANGED <<limiter, entry, usable, pc, role, live>>

\* The snapshot expires; or a worker's refresh job stores a new one.
SnapshotChanges ==
  usable' = ~usable /\ UNCHANGED <<limiter, redis, callers>>

-----------------------------------------------------------------------------
Step(c) ==
  \/ Hit(c) \/ Miss(c) \/ WinLock(c) \/ LoseLock(c) \/ GiveUp(c)
  \/ ServeSnapshot(c) \/ AskForPage(c) \/ PageTimeout(c) \/ ReadVendor(c)
  \/ Store(c) \/ Unlock(c) \/ Record(c)

Next ==
  \/ \E c \in Callers : Call(c) \/ Step(c) \/ RedisFails(c)
  \/ EntryExpires \/ LockExpires \/ SnapshotChanges

Spec == Init /\ [][Next]_vars

\* Redis and the store answer or reject, every wait and every browser step has
\* its timeout.
FairSpec == Spec /\ \A c \in Callers : WF_vars(Step(c))

-----------------------------------------------------------------------------
(* Properties.                                                             *)

\* Misses of one key collapse to one read: two callers are inside read() at once
\* only if one of them could not use Redis or has outlived its lock
\* (runBridgeReadCached, LUA_CAS_DEL).
OneReader ==
  \A b, c \in Reading \ lapsed :
    role[b] = "winner" /\ role[c] = "winner" => b = c

\* A page goes back with the read that took it, however that read ends: no
\* caller that is not reading has a permit or waits for one (BrowserSessionLive,
\* acquireRelease).
PagesAreReturned ==
  \A c \in Callers : permit[c] # "none" <=> pc[c] = "page"

\* Every request is answered: by the cache, a snapshot, a live read or an error,
\* however the lock, the limiter and Redis behave.
EveryRequestIsAnswered == \A c \in Callers : pc[c] = "get" ~> pc[c] = "idle"
=============================================================================
