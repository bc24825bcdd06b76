---------------------------- MODULE PageLimiter ----------------------------
(***************************************************************************)
(* The page concurrency limiter of a Node process: permits for browser     *)
(* pages, first in first out, with a timeout for those that wait.  Every   *)
(* action is one turn of the event loop: acquire, a call of the release    *)
(* function it resolved to, and the timer's callback.  All callers of a    *)
(* process pass the same maxConcurrentPages.                               *)
(***************************************************************************)
EXTENDS Integers, Sequences, FiniteSets

CONSTANTS
  Callers,   \* those that ask for a page
  MaxPages   \* maxConcurrentPages, at least 1 (positiveIntEnv)

ASSUME PagesAssumption == MaxPages \in Nat \ {0} /\ IsFiniteSet(Callers)

VARIABLES
  active,  \* permits given out
  queue,   \* the callers whose entries wait, oldest first
  permit   \* caller -> "none", "waiting" or "held"

limiter == <<active, queue, permit>>

LimiterTypeOK ==
  /\ active \in Nat
  /\ queue \in Seq(Callers)
  /\ permit \in [Callers -> {"none", "waiting", "held"}]

LimiterInit ==
  active = 0 /\ queue = <<>> /\ permit = [c \in Callers |-> "none"]

Held == {c \in Callers : permit[c] = "held"}

\* Variant for mutation: one permit too many.
GrantOneMore(c) ==
  /\ permit[c] = "none" /\ active <= MaxPages
  /\ active' = active + 1
  /\ permit' = [permit EXCEPT ![c] = "held"]
  /\ UNCHANGED queue

\* acquire, when a permit is free and when none is.
Grant(c) ==
  /\ permit[c] = "none" /\ active < MaxPages
  /\ active' = active + 1
  /\ permit' = [permit EXCEPT ![c] = "held"]
  /\ UNCHANGED queue

Wait(c) ==
  /\ permit[c] = "none" /\ active >= MaxPages
  /\ queue' = Append(queue, c)
  /\ permit' = [permit EXCEPT ![c] = "waiting"]
  /\ UNCHANGED active

\* The timer's callback: the entry leaves the queue and acquire rejects.
Expire(c) ==
  /\ permit[c] = "waiting"
  /\ \E at \in DOMAIN queue :
       /\ queue[at] = c
       /\ queue' = [i \in 1..(Len(queue) - 1) |->
                      queue[IF i < at THEN i ELSE i + 1]]
  /\ permit' = [permit EXCEPT ![c] = "none"]
  /\ UNCHANGED active

\* Variant for mutation: the freed permit is not passed on.
ReleaseOnly(c) ==
  /\ permit[c] = "held"
  /\ active' = active - 1
  /\ permit' = [permit EXCEPT ![c] = "none"]
  /\ UNCHANGED queue

\* Variant for mutation: drain grants without counting the grant.
ReleaseUncounted(c) ==
  /\ permit[c] = "held"
  /\ active' = active - 1
  /\ IF queue # <<>>
       THEN /\ queue' = Tail(queue)
            /\ permit' = [permit EXCEPT ![c] = "none", ![Head(queue)] = "held"]
       ELSE /\ permit' = [permit EXCEPT ![c] = "none"]
            /\ UNCHANGED queue

\* releaseOne, then drain: the permit goes to the head of the queue, whose
\* timer is cleared.
Release(c) ==
  /\ permit[c] = "held"
  /\ IF queue # <<>> /\ active - 1 < MaxPages
       THEN /\ queue' = Tail(queue)
            /\ permit' = [permit EXCEPT ![c] = "none", ![Head(queue)] = "held"]
            /\ UNCHANGED active
       ELSE /\ permit' = [permit EXCEPT ![c] = "none"]
            /\ active' = active - 1
            /\ UNCHANGED queue

LimiterNext == \E c \in Callers : Grant(c) \/ Wait(c) \/ Expire(c) \/ Release(c)

LimiterSpec == LimiterInit /\ [][LimiterNext]_limiter

-----------------------------------------------------------------------------
(* Properties.                                                             *)

\* The counter is the number of permits that are held and never exceeds the
\* limit: the browser never has more than MaxPages pages (grant, releaseOne).
PermitsCounted == active = Cardinality(Held) /\ active <= MaxPages

\* Nobody waits while a permit is free, and the queue holds exactly those that
\* wait, once each: no release and no timeout loses a permit or forgets a waiter
\* (drain, the timer's callback).
WaitsOnlyWhenFull ==
  /\ queue # <<>> => active = MaxPages
  /\ \A c \in Callers :
       permit[c] = "waiting" <=> \E i \in DOMAIN queue : queue[i] = c
  /\ \A i, k \in DOMAIN queue : queue[i] = queue[k] => i = k
=============================================================================
