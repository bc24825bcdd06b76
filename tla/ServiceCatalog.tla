--------------------------- MODULE ServiceCatalog ---------------------------
(***************************************************************************)
(* The catalog of services (shared/acuity-service-catalog.ts): a static    *)
(* list, or what the vendor's BUSINESS object or else the scraper says,    *)
(* kept in a buffer per process.  Without Redis the callers of a process   *)
(* share one load; with it every call goes through the cache of            *)
(* shared/redis-l2.ts, where the winner of a lock loads for all and losers *)
(* poll, and load for themselves when that takes too long.                 *)
(*                                                                         *)
(* A list of services is represented by the time at which it was read.     *)
(***************************************************************************)
EXTENDS Integers

CONSTANTS
  Pods,         \* processes
  Clients,      \* calls to the catalog
  PodOf,        \* the process of a call
  CatalogTtl,   \* cacheTtlMs
  LastTick      \* bound on the clock

ASSUME CatalogAssumption ==
  /\ PodOf \in [Clients -> Pods] /\ Pods \cap Clients = {}
  /\ CatalogTtl \in Nat \ {0} /\ LastTick \in Nat

Nobody == "nobody"
NoList == -1
Loaders == Pods \cup Clients
Times == 0..LastTick

VARIABLES
  tier,      \* "static", "l1" or "l2": how the catalog is configured
  clock,     \* time
  buffer,    \* process: its list, and when it was put there
  source,    \* loader: where its load stands
  got,       \* loader: the list it got
  l2,        \* Redis: the list, and when it was put there
  fillLock,  \* Redis: whose token the lock holds
  call,      \* call: the await it stands at
  age        \* call: how old the list was that it was answered with

catalogVars ==
  <<tier, clock, buffer, source, got, l2, fillLock, call, age>>

Kept == [list : Times \cup {NoList}, at : Times]
Nothing == [list |-> NoList, at |-> 0]
Calls == {"idle", "shared_load", "get", "lock", "winner", "set", "unlock",
          "poll", "degraded", "answered", "failed"}

CatalogTypeOK ==
  /\ tier \in {"static", "l1", "l2"} /\ clock \in Times
  /\ buffer \in [Pods -> Kept] /\ l2 \in Kept
  /\ source \in [Loaders -> {"none", "business", "scraper", "loaded"}]
  /\ got \in [Loaders -> Times \cup {NoList}]
  /\ fillLock \in Clients \cup {Nobody}
  /\ call \in [Clients -> Calls]
  /\ age \in [Clients -> Times]

CatalogInit ==
  /\ tier \in {"static", "l1", "l2"} /\ clock = 0
  /\ buffer = [p \in Pods |-> Nothing] /\ l2 = Nothing
  /\ source = [l \in Loaders |-> "none"]
  /\ got = [l \in Loaders |-> NoList]
  /\ fillLock = Nobody
  /\ call = [c \in Clients |-> "idle"]
  /\ age = [c \in Clients |-> 0]

-----------------------------------------------------------------------------
(* Helpers.                                                                *)

Stored(list) == [list |-> list, at |-> clock]

\* hasFreshCache; EX of the entry.
FreshIn(kept) == kept.list # NoList /\ clock - kept.at < CatalogTtl

At(c, place) == call' = [call EXCEPT ![c] = place]

\* The calls in C are answered with a list.
Answers(C, list) ==
  /\ call' = [c \in Clients |-> IF c \in C THEN "answered" ELSE call[c]]
  /\ age' = [c \in Clients |->
               IF c \in C /\ list # NoList THEN clock - list ELSE age[c]]
NoAnswer == UNCHANGED age

\* setCachedServices.
Buffers(p, list) == buffer' = [buffer EXCEPT ![p] = Stored(list)]

Load(l) == source' = [source EXCEPT ![l] = "business"]
Unload(l) ==
  /\ source' = [source EXCEPT ![l] = "none"]
  /\ got' = [got EXCEPT ![l] = NoList]

-----------------------------------------------------------------------------
(* Calls.                                                                  *)

\* Variant for mutation: a hit makes the buffer young again.
CallRenews(c) ==
  /\ call[c] = "idle"
  /\ LET p == PodOf[c] IN
       CASE tier = "static" ->
              Answers({c}, NoList) /\ UNCHANGED <<source, buffer>>
         [] tier = "l2" ->
              At(c, "get") /\ NoAnswer /\ UNCHANGED <<source, buffer>>
         [] tier = "l1" /\ FreshIn(buffer[p]) ->
              /\ Answers({c}, buffer[p].list) /\ UNCHANGED source
              /\ Buffers(p, buffer[p].list)
         [] OTHER ->
              /\ At(c, "shared_load") /\ NoAnswer /\ UNCHANGED buffer
              /\ IF source[p] = "none" THEN Load(p) ELSE UNCHANGED source
  /\ UNCHANGED <<tier, clock, got, l2, fillLock>>

\* ensureServices and runRefresh: static, L2, a fresh buffer, or the load of this
\* process, which is started if none is in flight.
CallServices(c) ==
  /\ call[c] = "idle"
  /\ LET p == PodOf[c] IN
       CASE tier = "static" -> Answers({c}, NoList) /\ UNCHANGED source
         [] tier = "l2" -> At(c, "get") /\ NoAnswer /\ UNCHANGED source
         [] tier = "l1" /\ FreshIn(buffer[p]) ->
              Answers({c}, buffer[p].list) /\ UNCHANGED source
         [] OTHER ->
              /\ At(c, "shared_load") /\ NoAnswer
              /\ IF source[p] = "none" THEN Load(p) ELSE UNCHANGED source
  /\ UNCHANGED <<tier, clock, buffer, got, l2, fillLock>>

\* The answer is used, and the next call comes.
EndCall(c) ==
  /\ call[c] \in {"answered", "failed"}
  /\ At(c, "idle")
  /\ age' = [age EXCEPT ![c] = 0]
  /\ UNCHANGED <<tier, clock, buffer, source, got, l2, fillLock>>

-----------------------------------------------------------------------------
(* refreshServices.                                                        *)

\* loadBusinessServices: services, or none for whatever reason.
LoadBusiness(l) ==
  /\ source[l] = "business"
  /\ \/ /\ source' = [source EXCEPT ![l] = "loaded"]
        /\ got' = [got EXCEPT ![l] = clock]
     \/ source' = [source EXCEPT ![l] = "scraper"] /\ UNCHANGED got
  /\ UNCHANGED <<tier, clock, buffer, l2, fillLock, call, age>>

\* loadScraperServices: also an empty list is one.
LoadScraper(l) ==
  /\ source[l] = "scraper"
  /\ source' = [source EXCEPT ![l] = "loaded"]
  /\ got' = [got EXCEPT ![l] = clock]
  /\ UNCHANGED <<tier, clock, buffer, l2, fillLock, call, age>>

\* The scraper throws: everybody who waits for this load fails with it, a lock is
\* released.
LoadFails(l) ==
  /\ source[l] = "scraper"
  /\ Unload(l)
  /\ call' = [c \in Clients |->
       CASE call[c] = "shared_load" /\ PodOf[c] = l -> "failed"
         [] c = l -> IF call[c] = "winner" THEN "unlock" ELSE "failed"
         [] OTHER -> call[c]]
  /\ NoAnswer
  /\ UNCHANGED <<tier, clock, buffer, l2, fillLock>>

\* The load of a process fills its buffer, its promise is forgotten (finally) and
\* everybody who shared it is answered.
FinishShared(p) ==
  /\ p \in Pods /\ source[p] = "loaded"
  /\ Buffers(p, got[p])
  /\ Unload(p)
  /\ Answers({c \in Clients : call[c] = "shared_load" /\ PodOf[c] = p}, got[p])
  /\ UNCHANGED <<tier, clock, l2, fillLock>>

-----------------------------------------------------------------------------
(* getCached of redis-l2.ts.                                               *)

\* GET, at first and while polling; a hit also fills the buffer.
GetEntry(c) ==
  /\ call[c] \in {"get", "poll"}
  /\ IF FreshIn(l2)
       THEN Answers({c}, l2.list) /\ Buffers(PodOf[c], l2.list)
       ELSE call[c] = "get" /\ At(c, "lock") /\ NoAnswer /\ UNCHANGED buffer
  /\ UNCHANGED <<tier, clock, source, got, l2, fillLock>>

TakeFillLock(c) ==
  /\ call[c] = "lock"
  /\ IF fillLock = Nobody
       THEN fillLock' = c /\ At(c, "winner") /\ Load(c)
       ELSE At(c, "poll") /\ UNCHANGED <<fillLock, source>>
  /\ NoAnswer /\ UNCHANGED <<tier, clock, buffer, got, l2>>

\* Ten seconds without an entry: the loser loads for itself.
PollTimeout(c) ==
  /\ call[c] = "poll" /\ ~FreshIn(l2)
  /\ At(c, "degraded") /\ Load(c)
  /\ NoAnswer /\ UNCHANGED <<tier, clock, buffer, got, l2, fillLock>>

\* The list has come: the winner stores it, a degraded loser keeps it.
Loaded(c) ==
  /\ c \in Clients /\ source[c] = "loaded"
  /\ \/ call[c] = "winner" /\ At(c, "set") /\ NoAnswer
        /\ UNCHANGED <<source, got>> /\ Buffers(PodOf[c], got[c])
     \/ call[c] = "degraded" /\ Answers({c}, got[c]) /\ Unload(c)
        /\ Buffers(PodOf[c], got[c])
  /\ UNCHANGED <<tier, clock, l2, fillLock>>

SetEntry(c) ==
  /\ call[c] = "set"
  /\ l2' = Stored(got[c])
  /\ At(c, "unlock")
  /\ NoAnswer /\ UNCHANGED <<tier, clock, buffer, source, got, fillLock>>

\* LUA_CAS_DEL, then the answer, if there is one.
ReleaseFillLock(c) ==
  /\ call[c] = "unlock"
  /\ fillLock' = IF fillLock = c THEN Nobody ELSE fillLock
  /\ IF source[c] = "loaded"
       THEN Answers({c}, got[c]) /\ Buffers(PodOf[c], got[c])
       ELSE At(c, "failed") /\ NoAnswer /\ UNCHANGED buffer
  /\ Unload(c)
  /\ UNCHANGED <<tier, clock, l2>>

\* A command is rejected; the lock is released on the way out.
CommandFails(c) ==
  /\ call[c] \in {"get", "lock", "poll", "set"}
  /\ At(c, IF call[c] = "set" THEN "unlock" ELSE "failed")
  /\ Unload(c)
  /\ NoAnswer /\ UNCHANGED <<tier, clock, buffer, l2, fillLock>>

\* Thirty seconds.
FillLockEnds ==
  /\ fillLock # Nobody /\ fillLock' = Nobody
  /\ UNCHANGED <<tier, clock, buffer, source, got, l2, call, age>>

\* A list is stored and handed out within a tick of being read.
CatalogTick ==
  /\ clock < LastTick
  /\ \A l \in Loaders : got[l] # NoList => got[l] = clock
  /\ clock' = clock + 1
  /\ UNCHANGED <<tier, buffer, source, got, l2, fillLock, call, age>>

-----------------------------------------------------------------------------
CatalogNext ==
  \/ \E c \in Clients :
       \/ CallServices(c) \/ EndCall(c) \/ GetEntry(c) \/ TakeFillLock(c)
       \/ PollTimeout(c) \/ Loaded(c) \/ SetEntry(c) \/ ReleaseFillLock(c)
       \/ CommandFails(c)
  \/ \E l \in Loaders : LoadBusiness(l) \/ LoadScraper(l) \/ LoadFails(l)
  \/ \E p \in Pods : FinishShared(p)
  \/ FillLockEnds \/ CatalogTick

CatalogSpec == CatalogInit /\ [][CatalogNext]_catalogVars

-----------------------------------------------------------------------------
(* Properties.                                                             *)

\* Whatever way a list takes, through the load of another call, Redis, a lock that
\* ran out or a loser that stopped waiting: it is handed out no longer after it was
\* read than the time to live, if a list is stored within a tick (ensureServices,
\* getCached).
HandsOutRecent == \A c \in Clients : age[c] <= CatalogTtl

\* Nobody waits for a load that is over: a failed or finished one is forgotten by
\* the process, so that the next call starts another (runRefresh, finally).
NobodyWaitsInVain ==
  \A c \in Clients :
    call[c] = "shared_load" => source[PodOf[c]] # "none"

\* The two together: a call is answered from a recent read, or can still be.
CatalogServes == HandsOutRecent /\ NobodyWaitsInVain
=============================================================================
