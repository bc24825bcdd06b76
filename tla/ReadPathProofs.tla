-------------------------- MODULE ReadPathProofs ---------------------------
(***************************************************************************)
(* Theorems about ReadPath and its parts.                                  *)
(*                                                                         *)
(* PageLimiter and BridgeRead: the limiter's invariant is proved for its   *)
(* own next-state relation, and then for BridgeRead, each of whose steps is*)
(* a step of the limiter or leaves it alone.                               *)
(*                                                                         *)
(* AcuityService, AcuityCalendar and ServiceCatalog: for any services,     *)
(* names and scores, any calendar and bounds on the clicks, any processes  *)
(* and calls.                                                              *)
(*                                                                         *)
(* In the end, that what holds of a part holds of the whole.               *)
(***************************************************************************)
EXTENDS ReadPath, FiniteSetTheorems, SequenceTheorems, WellFoundedInduction, TLAPS

-----------------------------------------------------------------------------
(* The limiter.                                                            *)

LimiterInv == LimiterTypeOK /\ PermitsCounted /\ WaitsOnlyWhenFull

LEMMA InitLimiter == LimiterInit => LimiterInv
<1> SUFFICES ASSUME LimiterInit PROVE LimiterInv
  OBVIOUS
<1>1. Held = {}
  BY DEF LimiterInit, Held
<1>2. LimiterTypeOK /\ WaitsOnlyWhenFull
  BY DEF LimiterInit, LimiterTypeOK, WaitsOnlyWhenFull
<1>3. PermitsCounted
  BY <1>1, FS_EmptySet, PagesAssumption DEF LimiterInit, PermitsCounted
<1> QED BY <1>2, <1>3 DEF LimiterInv

LEMMA HeldFinite == IsFiniteSet(Held) /\ Cardinality(Held) \in Nat
<1>1. Held \subseteq Callers
  BY DEF Held
<1> QED BY <1>1, PagesAssumption, FS_Subset, FS_CardinalityType

LEMMA GrantKeeps ==
  ASSUME LimiterInv, NEW c \in Callers, Grant(c) PROVE LimiterInv'
<1>1. LimiterTypeOK'
  BY DEF LimiterInv, LimiterTypeOK, Grant
<1>2. PermitsCounted'
  <2>1. Held' = Held \cup {c} /\ c \notin Held
    BY DEF LimiterInv, LimiterTypeOK, Grant, Held
  <2>2. Cardinality(Held \cup {c}) = Cardinality(Held) + 1
    BY <2>1, HeldFinite, FS_AddElement
  <2> QED BY <2>1, <2>2, HeldFinite, PagesAssumption
          DEF LimiterInv, LimiterTypeOK, PermitsCounted, Grant
<1>3. WaitsOnlyWhenFull'
  BY PagesAssumption DEF LimiterInv, LimiterTypeOK, WaitsOnlyWhenFull, Grant
<1> QED BY <1>1, <1>2, <1>3 DEF LimiterInv

LEMMA WaitKeeps ==
  ASSUME LimiterInv, NEW c \in Callers, Wait(c) PROVE LimiterInv'
<1>1. LimiterTypeOK'
  BY DEF LimiterInv, LimiterTypeOK, Wait
<1>2. PermitsCounted'
  <2>1. Held' = Held
    BY DEF LimiterInv, LimiterTypeOK, Wait, Held
  <2> QED BY <2>1 DEF LimiterInv, PermitsCounted, Wait
<1>3. WaitsOnlyWhenFull'
  <2>1. /\ active' = MaxPages
        /\ DOMAIN queue' = 1..(Len(queue) + 1) /\ DOMAIN queue = 1..Len(queue)
        /\ Len(queue) \in Nat
        /\ \A i \in 1..Len(queue) : queue'[i] = queue[i]
        /\ queue'[Len(queue) + 1] = c
    BY PagesAssumption
       DEF LimiterInv, LimiterTypeOK, PermitsCounted, Wait
  <2>2. \A b \in Callers :
          permit'[b] = "waiting" <=> \E i \in DOMAIN queue' : queue'[i] = b
    BY <2>1 DEF LimiterInv, LimiterTypeOK, WaitsOnlyWhenFull, Wait
  <2>3. \A i \in DOMAIN queue : queue[i] # c
    BY DEF LimiterInv, WaitsOnlyWhenFull, Wait
  <2>4. \A i, k \in DOMAIN queue' : queue'[i] = queue'[k] => i = k
    BY <2>1, <2>3 DEF LimiterInv, WaitsOnlyWhenFull
  <2> QED BY <2>1, <2>2, <2>4 DEF WaitsOnlyWhenFull
<1> QED BY <1>1, <1>2, <1>3 DEF LimiterInv

LEMMA ExpireKeeps ==
  ASSUME LimiterInv, NEW c \in Callers, Expire(c) PROVE LimiterInv'
<1>1. /\ queue \in Seq(Callers) /\ Len(queue) \in Nat
      /\ DOMAIN queue = 1..Len(queue)
      /\ \A i, k \in DOMAIN queue : queue[i] = queue[k] => i = k
  BY DEF LimiterInv, LimiterTypeOK, WaitsOnlyWhenFull
<1>2. PICK at \in 1..Len(queue) :
        /\ queue[at] = c
        /\ queue' = [i \in 1..(Len(queue) - 1) |->
                       queue[IF i < at THEN i ELSE i + 1]]
  BY <1>1 DEF Expire
<1> DEFINE Was(i) == IF i < at THEN i ELSE i + 1
<1>3. queue' \in Seq(Callers) /\ Len(queue') = Len(queue) - 1
  <2>1. \A i \in 1..(Len(queue) - 1) : Was(i) \in 1..Len(queue)
    BY <1>1
  <2> QED BY <1>1, <1>2, <2>1
<1>4. DOMAIN queue' = 1..(Len(queue) - 1)
  BY <1>1, <1>2
<1>5. ASSUME NEW i \in DOMAIN queue'
      PROVE  Was(i) \in DOMAIN queue /\ Was(i) # at /\ queue'[i] = queue[Was(i)]
  BY <1>1, <1>2, <1>4
<1>6. LimiterTypeOK'
  BY <1>3 DEF LimiterInv, LimiterTypeOK, Expire
<1>7. PermitsCounted'
  <2>1. Held' = Held
    BY DEF LimiterInv, LimiterTypeOK, Expire, Held
  <2> QED BY <2>1 DEF LimiterInv, PermitsCounted, Expire
<1>8. WaitsOnlyWhenFull'
  <2>1. queue' # <<>> => active' = MaxPages
    BY <1>1, <1>2 DEF LimiterInv, WaitsOnlyWhenFull, Expire
  <2>2. \A i \in DOMAIN queue' : queue'[i] # c
    <3> HIDE DEF Was
    <3> QED BY <1>1, <1>2, <1>5
  <2>3. ASSUME NEW i \in DOMAIN queue, i # at
        PROVE  \E k \in DOMAIN queue' : queue'[k] = queue[i]
    <3>1. CASE i < at
      <4>1. i \in DOMAIN queue' /\ Was(i) = i
        BY <2>3, <3>1, <1>1, <1>4
      <4> QED BY <4>1, <1>5
    <3>2. CASE i > at
      <4>1. i - 1 \in DOMAIN queue' /\ Was(i - 1) = i
        BY <2>3, <3>2, <1>1, <1>4
      <4> QED BY <4>1, <1>5
    <3> QED BY <2>3, <3>1, <3>2, <1>1
  <2>4. ASSUME NEW b \in Callers
        PROVE  permit'[b] = "waiting" <=> \E i \in DOMAIN queue' : queue'[i] = b
    <3>1. CASE b = c
      BY <3>1, <2>2 DEF LimiterInv, LimiterTypeOK, Expire
    <3>2. CASE b # c
      <4>1. permit'[b] = permit[b]
        BY <3>2 DEF LimiterInv, LimiterTypeOK, Expire
      <4>2. permit[b] = "waiting" <=> \E i \in DOMAIN queue : queue[i] = b
        BY DEF LimiterInv, WaitsOnlyWhenFull
      <4>3. ASSUME NEW i \in DOMAIN queue, queue[i] = b
            PROVE  \E k \in DOMAIN queue' : queue'[k] = b
        BY <4>3, <3>2, <2>3, <1>2
      <4>4. ASSUME NEW k \in DOMAIN queue', queue'[k] = b
            PROVE  \E i \in DOMAIN queue : queue[i] = b
        <5> HIDE DEF Was
        <5> QED BY <4>4, <1>5
      <4> QED BY <4>1, <4>2, <4>3, <4>4
    <3> QED BY <3>1, <3>2
  <2>5. ASSUME NEW i \in DOMAIN queue', NEW k \in DOMAIN queue',
               queue'[i] = queue'[k]
        PROVE  i = k
    <3>1. Was(i) = Was(k)
      <4> HIDE DEF Was
      <4> QED BY <2>5, <1>1, <1>5
    <3> QED BY <3>1, <1>2, <1>4
  <2> QED BY <2>1, <2>4, <2>5 DEF WaitsOnlyWhenFull
<1> QED BY <1>6, <1>7, <1>8 DEF LimiterInv

LEMMA ReleaseKeeps ==
  ASSUME LimiterInv, NEW c \in Callers, Release(c) PROVE LimiterInv'
<1>1. CASE queue = <<>>
  <2>1. /\ queue' = <<>> /\ active' = active - 1
        /\ permit' = [permit EXCEPT ![c] = "none"]
    BY <1>1 DEF Release
  <2>2. Held' = Held \ {c} /\ c \in Held
    BY <2>1 DEF LimiterInv, LimiterTypeOK, Release, Held
  <2>3. Cardinality(Held \ {c}) = Cardinality(Held) - 1
    BY <2>2, HeldFinite, FS_RemoveElement
  <2>4. Cardinality(Held \ {c}) \in Nat
    BY <2>2, HeldFinite, FS_RemoveElement, FS_CardinalityType
  <2>5. PermitsCounted'
    BY <2>1, <2>2, <2>3, HeldFinite, PagesAssumption
       DEF LimiterInv, LimiterTypeOK, PermitsCounted
  <2>6. LimiterTypeOK'
    BY <2>1, <2>3, <2>4, HeldFinite
       DEF LimiterInv, LimiterTypeOK, PermitsCounted
  <2>7. WaitsOnlyWhenFull'
    BY <1>1, <2>1 DEF LimiterInv, LimiterTypeOK, WaitsOnlyWhenFull, Release
  <2> QED BY <2>5, <2>6, <2>7 DEF LimiterInv
<1>2. CASE queue # <<>>
  <2> DEFINE next == Head(queue)
  <2>1. /\ Len(queue) \in Nat \ {0} /\ DOMAIN queue = 1..Len(queue)
        /\ next = queue[1] /\ next \in Callers
        /\ DOMAIN Tail(queue) = 1..(Len(queue) - 1)
        /\ \A i \in 1..(Len(queue) - 1) : Tail(queue)[i] = queue[i + 1]
        /\ Tail(queue) \in Seq(Callers)
    BY <1>2 DEF LimiterInv, LimiterTypeOK
  <2>2. permit[next] = "waiting" /\ next # c
    BY <2>1 DEF LimiterInv, WaitsOnlyWhenFull, Release
  <2>3. /\ queue' = Tail(queue) /\ active' = active /\ active = MaxPages
        /\ permit' = [permit EXCEPT ![c] = "none", ![next] = "held"]
    BY <1>2, PagesAssumption
       DEF LimiterInv, LimiterTypeOK, WaitsOnlyWhenFull, Release
  <2> HIDE DEF next
  <2>4. LimiterTypeOK'
    BY <2>1, <2>3 DEF LimiterInv, LimiterTypeOK
  <2>5. PermitsCounted'
    <3>1. /\ Held' = (Held \ {c}) \cup {next}
          /\ c \in Held /\ next \notin Held \ {c}
      BY <2>1, <2>2, <2>3 DEF LimiterInv, LimiterTypeOK, Release, Held
    <3>2. /\ IsFiniteSet(Held \ {c})
          /\ Cardinality(Held \ {c}) = Cardinality(Held) - 1
      BY <3>1, HeldFinite, FS_RemoveElement
    <3>3. Cardinality(Held') = Cardinality(Held \ {c}) + 1
      BY <3>1, <3>2, FS_AddElement
    <3> QED BY <2>3, <3>2, <3>3, HeldFinite DEF LimiterInv, PermitsCounted
  <2>6. WaitsOnlyWhenFull'
    <3>1. queue' # <<>> => active' = MaxPages
      BY <2>3
    <3>2. \A i, k \in DOMAIN queue' : queue'[i] = queue'[k] => i = k
      BY <2>1, <2>3 DEF LimiterInv, WaitsOnlyWhenFull
    <3>3. \A i \in DOMAIN queue' : queue'[i] # next
      BY <2>1, <2>3 DEF LimiterInv, WaitsOnlyWhenFull
    <3>4. ASSUME NEW b \in Callers
          PROVE  permit'[b] = "waiting"
                   <=> \E i \in DOMAIN queue' : queue'[i] = b
      <4>1. permit[b] = "waiting" <=> \E i \in DOMAIN queue : queue[i] = b
        BY DEF LimiterInv, WaitsOnlyWhenFull
      <4>2. CASE b = next
        BY <4>2, <2>1, <2>3, <3>3 DEF LimiterInv, LimiterTypeOK
      <4>3. CASE b # next
        <5>1. permit'[b] = "waiting" <=> permit[b] = "waiting"
          BY <4>3, <2>1, <2>3 DEF LimiterInv, LimiterTypeOK, Release
        <5>2. ASSUME NEW i \in DOMAIN queue, queue[i] = b
              PROVE  \E k \in DOMAIN queue' : queue'[k] = b
          <6>1. i # 1
            BY <5>2, <4>3, <2>1
          <6>2. i - 1 \in DOMAIN queue' /\ queue'[i - 1] = b
            BY <6>1, <5>2, <2>1, <2>3
          <6> QED BY <6>2
        <5>3. ASSUME NEW k \in DOMAIN queue', queue'[k] = b
              PROVE  \E i \in DOMAIN queue : queue[i] = b
          <6>1. k + 1 \in DOMAIN queue /\ queue[k + 1] = b
            BY <5>3, <2>1, <2>3
          <6> QED BY <6>1
        <5> QED BY <4>1, <5>1, <5>2, <5>3
      <4> QED BY <4>2, <4>3
    <3> QED BY <3>1, <3>2, <3>4 DEF WaitsOnlyWhenFull
  <2> QED BY <2>4, <2>5, <2>6 DEF LimiterInv
<1> QED BY <1>1, <1>2

LEMMA StepKeepsLimiter ==
  ASSUME LimiterInv, [LimiterNext]_limiter PROVE LimiterInv'
<1>1. CASE LimiterNext
  BY <1>1, GrantKeeps, WaitKeeps, ExpireKeeps, ReleaseKeeps DEF LimiterNext
<1>2. CASE UNCHANGED limiter
  BY <1>2 DEF limiter, LimiterInv, LimiterTypeOK, PermitsCounted, Held,
              WaitsOnlyWhenFull
<1> QED BY <1>1, <1>2

\* The limiter keeps its counter and its queue right, for any callers and any
\* number of pages (createPageConcurrencyLimiter).
THEOREM LimiterIsSafe == LimiterSpec => []LimiterInv
<1>1. LimiterInv /\ [LimiterNext]_limiter => LimiterInv'
  BY StepKeepsLimiter
<1> QED BY InitLimiter, <1>1, PTL DEF LimiterSpec

-----------------------------------------------------------------------------
(* Reads use the limiter as it is meant to be used.                        *)

\* Every action of a caller but those three leaves the limiter alone.
LEMMA NextIsLimiterStep == [Next]_vars => [LimiterNext]_limiter
<1>1. ASSUME NEW c \in Callers, Step(c) PROVE [LimiterNext]_limiter
  <2>1. CASE AskForPage(c)
    BY <2>1 DEF AskForPage, LimiterNext
  <2>2. CASE PageTimeout(c)
    BY <2>2 DEF PageTimeout, LimiterNext
  <2>3. CASE ReadVendor(c)
    BY <2>3 DEF ReadVendor, LimiterNext
  <2>4. CASE \/ Hit(c) \/ Miss(c) \/ WinLock(c) \/ LoseLock(c) \/ GiveUp(c)
             \/ ServeSnapshot(c) \/ Store(c) \/ Unlock(c) \/ Record(c)
    BY <2>4 DEF Hit, Miss, WinLock, LoseLock, GiveUp, ServeSnapshot, Store,
                Unlock, Record
  <2> QED BY <1>1, <2>1, <2>2, <2>3, <2>4 DEF Step
<1>2. ASSUME NEW c \in Callers, Call(c) \/ RedisFails(c)
      PROVE  UNCHANGED limiter
  BY <1>2 DEF Call, RedisFails
<1>3. EntryExpires \/ LockExpires \/ SnapshotChanges => UNCHANGED limiter
  BY DEF EntryExpires, LockExpires, SnapshotChanges
<1>4. UNCHANGED vars => UNCHANGED limiter
  BY DEF vars
<1> QED BY <1>1, <1>2, <1>3, <1>4 DEF Next

LEMMA ReadsUseLimiter == Spec => LimiterSpec
<1>1. Init => LimiterInit
  BY DEF Init
<1> QED BY <1>1, NextIsLimiterStep, PTL DEF Spec, LimiterSpec

\* However many requests stampede, however their reads, locks and timeouts
\* interleave: pages are bounded, and nobody waits while one is free.
THEOREM PagesBounded == Spec => [](PermitsCounted /\ WaitsOnlyWhenFull)
<1>1. LimiterInv => PermitsCounted /\ WaitsOnlyWhenFull
  BY DEF LimiterInv
<1> QED BY <1>1, ReadsUseLimiter, LimiterIsSafe, PTL

-----------------------------------------------------------------------------
(* Types, the lock and the pages of BridgeRead.                            *)

\* Where a caller goes from read().
LEMMA ReturnGoes ==
  ASSUME TypeOK, NEW c \in Callers, NEW isLive \in BOOLEAN, Return(c, isLive)
  PROVE  /\ \E at \in {"store", "unlock", "record", "idle"} :
              pc' = [pc EXCEPT ![c] = at]
         /\ role' \in {role, [role EXCEPT ![c] = "none"]}
         /\ live' \in [Callers -> BOOLEAN]
         /\ lapsed' \in {lapsed, lapsed \ {c}}
         /\ pc'[c] = "idle" \/ lapsed' = lapsed
BY DEF TypeOK, Return, Goto, Answer

LEMMA StepType ==
  ASSUME TypeOK, LimiterTypeOK', NEW c \in Callers,
         Call(c) \/ Step(c) \/ RedisFails(c)
  PROVE  TypeOK'
<1>1. CASE ServeSnapshot(c) \/ PageTimeout(c) \/ ReadVendor(c)
  <2>1. PICK isLive \in BOOLEAN : Return(c, isLive)
    BY <1>1 DEF ServeSnapshot, PageTimeout, ReadVendor
  <2>2. UNCHANGED <<redis, usable>>
    BY <1>1 DEF ServeSnapshot, PageTimeout, ReadVendor
  <2> QED BY <2>1, <2>2, ReturnGoes DEF TypeOK, redis, PC
<1>2. CASE Call(c) \/ Miss(c) \/ LoseLock(c) \/ AskForPage(c)
  BY <1>2 DEF Call, Miss, LoseLock, AskForPage, TypeOK, Goto, PC, redis
<1>3. CASE WinLock(c) \/ Store(c)
  BY <1>3 DEF WinLock, Store, TypeOK, Goto, PC
<1>4. CASE Hit(c) \/ GiveUp(c) \/ RedisFails(c) \/ Record(c)
  BY <1>4 DEF Hit, GiveUp, RedisFails, Record, Answer, TypeOK, Goto, PC, redis
<1>5. CASE Unlock(c)
  BY <1>5 DEF Unlock, Answer, TypeOK, Goto, PC
<1> QED BY <1>1, <1>2, <1>3, <1>4, <1>5 DEF Step

LEMMA NextType ==
  ASSUME TypeOK, LimiterTypeOK', [Next]_vars PROVE TypeOK'
<1>1. CASE EntryExpires \/ LockExpires \/ SnapshotChanges
  BY <1>1 DEF EntryExpires, LockExpires, SnapshotChanges, TypeOK, callers, redis
<1>2. CASE UNCHANGED vars
  BY <1>2 DEF TypeOK, vars, callers, redis
<1> QED BY <1>1, <1>2, StepType DEF Next

\* BridgeRead stays well typed for any callers and pages.
THEOREM TypeCorrect == Spec => []TypeOK
<1>1. Init => TypeOK
  BY LockAssumption, InitLimiter DEF Init, TypeOK, PC, LimiterInv
<1>2. LimiterInv => LimiterTypeOK
  BY DEF LimiterInv
<1>3. TypeOK /\ LimiterTypeOK' /\ [Next]_vars => TypeOK'
  BY NextType
<1> QED BY <1>1, <1>2, <1>3, ReadsUseLimiter, LimiterIsSafe, PTL DEF Spec

\* A winner whose lock has not lapsed holds the lock until it unlocks.
LockIsHeld ==
  \A c \in Callers \ lapsed :
    role[c] = "winner" /\ pc[c] \in {"snapshot", "page", "store", "unlock"}
      => lock = c

LEMMA StepKeepsLock ==
  ASSUME TypeOK, LockIsHeld, NEW c \in Callers,
         Call(c) \/ Step(c) \/ RedisFails(c)
  PROVE  LockIsHeld'
<1>1. CASE ServeSnapshot(c) \/ PageTimeout(c) \/ ReadVendor(c)
  <2>1. PICK isLive \in BOOLEAN : Return(c, isLive)
    BY <1>1 DEF ServeSnapshot, PageTimeout, ReadVendor
  <2>2. lock' = lock /\ pc[c] \in {"snapshot", "page"}
    BY <1>1 DEF ServeSnapshot, PageTimeout, ReadVendor, redis
  <2> QED BY <2>1, <2>2, ReturnGoes DEF TypeOK, LockIsHeld
<1>2. CASE Call(c) \/ Miss(c) \/ LoseLock(c) \/ AskForPage(c)
  BY <1>2 DEF Call, Miss, LoseLock, AskForPage, TypeOK, LockIsHeld, Goto, redis
<1>3. CASE WinLock(c)
  <2>1. \A b \in Callers : lock # b
    BY <1>3, LockAssumption DEF WinLock
  <2> QED BY <1>3, <2>1 DEF WinLock, TypeOK, LockIsHeld, Goto
<1>4. CASE Hit(c) \/ GiveUp(c) \/ RedisFails(c) \/ Record(c)
  <2>1. /\ lock' = lock
        /\ pc' = [pc EXCEPT ![c] = pc'[c]]
        /\ role' = [role EXCEPT ![c] = role'[c]]
        /\ lapsed' \in {lapsed, lapsed \ {c}}
        /\ pc'[c] = "idle" \/ role'[c] = "loner"
    BY <1>4 DEF Hit, GiveUp, RedisFails, Record, Answer, TypeOK, Goto, redis
  <2> QED BY <2>1 DEF TypeOK, LockIsHeld
<1>5. CASE Store(c)
  BY <1>5 DEF Store, TypeOK, LockIsHeld, Goto
<1>6. CASE Unlock(c)
  BY <1>6 DEF Unlock, Answer, TypeOK, LockIsHeld, Goto
<1> QED BY <1>1, <1>2, <1>3, <1>4, <1>5, <1>6 DEF Step

\* At most one caller at a time reads under a lock that has not expired, for any
\* number of callers: the compare-and-delete never takes a successor's lock
\* (runBridgeReadCached).
THEOREM ReadsAreExclusive == Spec => []OneReader
<1>1. Init => LockIsHeld
  BY DEF Init, LockIsHeld
<1>2. TypeOK /\ LockIsHeld /\ [Next]_vars => LockIsHeld'
  <2> SUFFICES ASSUME TypeOK, LockIsHeld, [Next]_vars PROVE LockIsHeld'
    OBVIOUS
  <2>1. CASE EntryExpires \/ SnapshotChanges \/ UNCHANGED vars
    BY <2>1 DEF EntryExpires, SnapshotChanges, LockIsHeld, callers, redis, vars
  <2>2. CASE LockExpires
    BY <2>2 DEF LockExpires, TypeOK, LockIsHeld
  <2> QED BY <2>1, <2>2, StepKeepsLock DEF Next
<1>3. LockIsHeld => OneReader
  BY DEF LockIsHeld, OneReader, Reading
<1> QED BY <1>1, <1>2, <1>3, TypeCorrect, PTL DEF Spec

LEMMA StepReturnsPages ==
  ASSUME TypeOK, LimiterInv, PagesAreReturned, NEW c \in Callers,
         Call(c) \/ Step(c) \/ RedisFails(c)
  PROVE  PagesAreReturned'
<1>1. CASE AskForPage(c)
  BY <1>1 DEF AskForPage, Grant, Wait, Goto, TypeOK, LimiterTypeOK,
              PagesAreReturned
<1>2. CASE PageTimeout(c)
  <2>1. PICK at \in {"store", "unlock", "record", "idle"} :
          pc' = [pc EXCEPT ![c] = at]
    BY <1>2, ReturnGoes DEF PageTimeout
  <2> QED BY <1>2, <2>1
          DEF PageTimeout, Expire, TypeOK, LimiterTypeOK, PagesAreReturned
<1>3. CASE ReadVendor(c)
  <2>1. PICK at \in {"store", "unlock", "record", "idle"} :
          pc' = [pc EXCEPT ![c] = at]
    BY <1>3, ReturnGoes DEF ReadVendor
  <2>2. permit[c] = "held" /\ Release(c)
    BY <1>3 DEF ReadVendor
  <2>3. CASE queue = <<>>
    BY <2>1, <2>2, <2>3
       DEF Release, TypeOK, LimiterTypeOK, PagesAreReturned
  <2>4. CASE queue # <<>>
    <3>1. /\ Head(queue) \in Callers /\ permit[Head(queue)] = "waiting"
          /\ Head(queue) # c
      BY <2>2, <2>4 DEF LimiterInv, LimiterTypeOK, WaitsOnlyWhenFull
    <3>2. permit' = [permit EXCEPT ![c] = "none", ![Head(queue)] = "held"]
      BY <2>2, <2>4, PagesAssumption
         DEF Release, LimiterInv, LimiterTypeOK, WaitsOnlyWhenFull
    <3> QED BY <2>1, <2>2, <3>1, <3>2
            DEF TypeOK, LimiterTypeOK, PagesAreReturned
  <2> QED BY <2>3, <2>4
<1>4. CASE ServeSnapshot(c)
  <2>1. PICK at \in {"store", "unlock", "record", "idle"} :
          pc' = [pc EXCEPT ![c] = at]
    BY <1>4, ReturnGoes DEF ServeSnapshot
  <2> QED BY <1>4, <2>1 DEF ServeSnapshot, limiter, TypeOK, PagesAreReturned
<1>5. CASE Call(c) \/ Miss(c) \/ LoseLock(c) \/ WinLock(c) \/ Store(c)
  BY <1>5 DEF Call, Miss, LoseLock, WinLock, Store, Goto, limiter, TypeOK,
              PagesAreReturned
<1>6. CASE Hit(c) \/ GiveUp(c) \/ RedisFails(c) \/ Record(c) \/ Unlock(c)
  BY <1>6 DEF Hit, GiveUp, RedisFails, Record, Unlock, Answer, Goto, limiter,
              TypeOK, PagesAreReturned
<1> QED BY <1>1, <1>2, <1>3, <1>4, <1>5, <1>6 DEF Step

\* No read keeps its page and nobody waits for a page who does not read, for any
\* callers and pages (BrowserSessionLive).
THEOREM ReadsReturnPages == Spec => []PagesAreReturned
<1>1. Init => PagesAreReturned
  BY DEF Init, LimiterInit, PagesAreReturned
<1>2. TypeOK /\ LimiterInv /\ PagesAreReturned /\ [Next]_vars
        => PagesAreReturned'
  <2> SUFFICES ASSUME TypeOK, LimiterInv, PagesAreReturned, [Next]_vars
               PROVE  PagesAreReturned'
    OBVIOUS
  <2>1. CASE EntryExpires \/ LockExpires \/ SnapshotChanges \/ UNCHANGED vars
    BY <2>1 DEF EntryExpires, LockExpires, SnapshotChanges, PagesAreReturned,
                callers, limiter, vars
  <2> QED BY <2>1, StepReturnsPages DEF Next
<1> QED BY <1>1, <1>2, TypeCorrect, ReadsUseLimiter, LimiterIsSafe, PTL DEF Spec

-----------------------------------------------------------------------------
(* The service: what the strategies find.                                  *)

\* A nonempty set of numbers has a least one.
LEMMA LeastExists ==
  ASSUME NEW T \in SUBSET Nat, T # {}
  PROVE  \E m \in T : \A k \in T : m <= k
<1>1. IsWellFoundedOn(OpToRel(<, Nat), Nat)
  BY NatLessThanWellFounded
<1>2. PICK m \in T : \A k \in T : ~ (<<k, m>> \in OpToRel(<, Nat))
  BY <1>1, WFMin
<1>3. \A v, w \in Nat : v < w => <<v, w>> \in OpToRel(<, Nat)
  BY DEF OpToRel
<1>4. \A k \in T : ~ (k < m)
  BY <1>2, <1>3
<1> QED  BY <1>4

\* Among the places of a sequence one comes first with the highest value.
LEMMA FirstHighestExists ==
  ASSUME NEW n \in Nat \ {0}, NEW M \in Nat, NEW f \in [1..n -> 0..M]
  PROVE  \E i \in 1..n : \A j \in 1..n :
           f[j] <= f[i] /\ (j < i => f[j] < f[i])
<1> DEFINE Above == {b \in 0..M : \A i \in 1..n : f[i] <= b}
<1>0. \A i \in 1..n : f[i] \in Nat /\ f[i] <= M
  OBVIOUS
<1>1. PICK b \in Above : \A c \in Above : b <= c
  <2>1. M \in Above
    BY <1>0
  <2>2. Above \in SUBSET Nat /\ Above # {}
    <3>1. \A c \in Above : c \in Nat
      OBVIOUS
    <3> HIDE DEF Above
    <3> QED  BY <2>1, <3>1
  <2> HIDE DEF Above
  <2> QED  BY <2>2, LeastExists
<1> DEFINE Highest == {i \in 1..n : f[i] = b}
<1>2. Highest # {}
  <2> SUFFICES ASSUME Highest = {} PROVE FALSE
    OBVIOUS
  <2>0. b \in 0..M /\ \A i \in 1..n : f[i] <= b
    BY <1>1
  <2>1. \A i \in 1..n : f[i] <= b - 1
    BY <1>0, <2>0
  <2>2. f[1] <= b - 1 /\ f[1] >= 0
    BY <1>0, <2>1
  <2>3. b - 1 \in Above
    BY <2>0, <2>1, <2>2
  <2> QED  BY <1>1, <2>0, <2>3
<1>3. Highest \in SUBSET Nat
  OBVIOUS
<1> HIDE DEF Highest
<1>4. PICK i \in Highest : \A j \in Highest : i <= j
  BY <1>2, <1>3, LeastExists
<1>5. i \in 1..n /\ f[i] = b
  BY <1>4 DEF Highest
<1>6. b \in Nat /\ \A j \in 1..n : f[j] <= b
  BY <1>1
<1>7. \A j \in 1..n : j < i => f[j] # b
  BY <1>4, <1>5 DEF Highest
<1> QED  BY <1>0, <1>5, <1>6, <1>7

\* The page as a sequence of tiles.
LEMMA TilesAreTyped ==
  ASSUME ServiceTypeOK
  PROVE  /\ Len(tiles) \in Nat /\ DOMAIN tiles = 1..Len(tiles)
         /\ \A i \in DOMAIN tiles : tiles[i] \in Services
         /\ Shown \subseteq Services
<1>1. /\ Len(tiles) \in Nat /\ DOMAIN tiles = 1..Len(tiles)
      /\ \A i \in DOMAIN tiles : tiles[i] \in Services
  BY LenProperties, ElementOfSeq DEF ServiceTypeOK
<1> QED  BY <1>1 DEF Shown

\* The first tile that passes a test is on the page and passes it, and there is one
\* as soon as any does.
LEMMA FirstTilePasses ==
  ASSUME ServiceTypeOK, NEW test \in [Services -> BOOLEAN]
  PROVE  /\ FirstTile(test) # NoService =>
              FirstTile(test) \in Shown /\ test[FirstTile(test)]
         /\ (\E s \in Shown : test[s]) => FirstTile(test) # NoService
<1> DEFINE Passing == {i \in DOMAIN tiles : test[tiles[i]]}
<1>1. CASE Passing = {}
  <2>1. ~ \E i \in DOMAIN tiles : test[tiles[i]]
    BY <1>1
  <2>2. FirstTile(test) = NoService
    BY <2>1 DEF FirstTile
  <2> QED  BY <2>1, <2>2 DEF Shown
<1>2. CASE Passing # {}
  <2>1. Passing \in SUBSET Nat
    BY TilesAreTyped
  <2>2. PICK i \in Passing : \A j \in Passing : i <= j
    <3> HIDE DEF Passing
    <3> QED  BY <1>2, <2>1, LeastExists
  <2>3. i \in DOMAIN tiles /\ test[tiles[i]]
    BY <2>2
  <2>4. \A j \in 1..(i - 1) : ~test[tiles[j]]
    BY <2>2, <2>3, TilesAreTyped
  <2> DEFINE least == CHOOSE k \in DOMAIN tiles :
                        test[tiles[k]] /\ \A j \in 1..(k - 1) : ~test[tiles[j]]
  <2>5. least \in DOMAIN tiles /\ test[tiles[least]]
    BY <2>3, <2>4
  <2>6. FirstTile(test) = tiles[least]
    BY <2>3 DEF FirstTile
  <2> HIDE DEF least
  <2>7. tiles[least] \in Shown /\ tiles[least] # NoService
    BY <2>5, TilesAreTyped, ServiceAssumption DEF Shown
  <2> QED  BY <2>5, <2>6, <2>7
<1> QED  BY <1>1, <1>2

\* Whom a name finds.
LEMMA NamedIsNamed ==
  ASSUME ServiceTypeOK, NEW name
  PROVE  /\ Named(name) # NoService =>
              Named(name) \in Shown /\ nameOf[Named(name)] = name
         /\ (\E s \in Shown : nameOf[s] = name) => Named(name) # NoService
<1> DEFINE test == [s \in Services |-> nameOf[s] = name]
<1>1. test \in [Services -> BOOLEAN]
  OBVIOUS
<1>2. \A s \in Shown : s \in Services /\ (test[s] <=> nameOf[s] = name)
  BY TilesAreTyped
<1>3. Named(name) = FirstTile(test)
  BY DEF Named
<1> HIDE DEF test
<1> QED  BY <1>1, <1>2, <1>3, FirstTilePasses

\* A match is a hit exactly when there is a service.
LEMMA MatchIsAHit ==
  ASSUME NEW service, NEW confidence
  PROVE  /\ service = NoService => Match(service, confidence) = NoHit
         /\ service # NoService =>
              /\ Match(service, confidence) # NoHit
              /\ Match(service, confidence).service = service
              /\ Match(service, confidence).confidence = confidence
BY DEF Match, NoHit

\* The tile with the best score: it is on the page and none there scores higher; if
\* there is none, nothing on the page scores at all.
LEMMA BestIsBest ==
  ASSUME ServiceTypeOK, NEW score \in [Services -> 0..100]
  PROVE  /\ Best(score) # NoHit =>
              /\ Best(score).service \in Shown
              /\ Best(score).confidence \in 0..100
              /\ \A s \in Shown : score[s] <= Best(score).confidence
         /\ Best(score) = NoHit => \A s \in Shown : score[s] = 0
<1>1. \A i \in DOMAIN tiles : score[tiles[i]] \in 0..100
  BY TilesAreTyped
<1>2. CASE ~ \E i \in DOMAIN tiles : score[tiles[i]] > 0
  <2>1. \A i \in DOMAIN tiles : score[tiles[i]] = 0
    BY <1>1, <1>2
  <2>2. Best(score) = NoHit
    BY <1>2 DEF Best
  <2> QED  BY <2>1, <2>2 DEF Shown
<1>3. CASE \E i \in DOMAIN tiles : score[tiles[i]] > 0
  <2> DEFINE best == CHOOSE i \in DOMAIN tiles :
                       \A j \in DOMAIN tiles :
                         /\ score[tiles[j]] <= score[tiles[i]]
                         /\ j < i => score[tiles[j]] < score[tiles[i]]
             f == [i \in 1..Len(tiles) |-> score[tiles[i]]]
  <2>1. f \in [1..Len(tiles) -> 0..100] /\ Len(tiles) \in Nat \ {0}
    BY <1>1, <1>3, TilesAreTyped
  <2>2. \A i \in DOMAIN tiles : f[i] = score[tiles[i]]
    BY TilesAreTyped
  <2>3. PICK i \in 1..Len(tiles) : \A j \in 1..Len(tiles) :
          f[j] <= f[i] /\ (j < i => f[j] < f[i])
    <3> HIDE DEF f
    <3> QED  BY <2>1, FirstHighestExists
  <2>4. \E k \in DOMAIN tiles : \A j \in DOMAIN tiles :
          /\ score[tiles[j]] <= score[tiles[k]]
          /\ j < k => score[tiles[j]] < score[tiles[k]]
    <3> HIDE DEF f
    <3> QED  BY <2>2, <2>3, TilesAreTyped
  <2>5. /\ best \in DOMAIN tiles
        /\ \A j \in DOMAIN tiles : score[tiles[j]] <= score[tiles[best]]
    BY <2>4
  <2>6. Best(score) = Match(tiles[best], score[tiles[best]])
    BY <1>3 DEF Best
  <2> HIDE DEF best, f
  <2>7. tiles[best] \in Shown /\ tiles[best] # NoService
    BY <2>5, TilesAreTyped, ServiceAssumption DEF Shown
  <2>8. /\ Best(score) # NoHit /\ Best(score).service = tiles[best]
        /\ Best(score).confidence = score[tiles[best]]
    BY <2>6, <2>7, MatchIsAHit
  <2>9. \A s \in Shown : score[s] <= score[tiles[best]]
    BY <2>5 DEF Shown
  <2> QED  BY <1>1, <2>5, <2>7, <2>8, <2>9
<1> QED  BY <1>2, <1>3

-----------------------------------------------------------------------------
(* The service: the cascade, and the search by part of a name.             *)

LEMMA IdMatchIsNamed ==
  ASSUME ServiceTypeOK
  PROVE  /\ IdMatch # NoHit =>
              /\ wantedId # NoService /\ IdMatch.service \in Shown
              /\ nameOf[IdMatch.service] = nameOf[wantedId]
              /\ IdMatch.confidence = 100
         /\ wantedId \in Shown /\ business => IdMatch # NoHit
<1>1. wantedId \in Shown => wantedId # NoService
  BY TilesAreTyped, ServiceAssumption
<1>2. CASE ~(wantedId # NoService /\ business)
  BY <1>1, <1>2 DEF IdMatch
<1>3. CASE wantedId # NoService /\ business
  <2>1. IdMatch = Match(Named(nameOf[wantedId]), 100)
    BY <1>3 DEF IdMatch
  <2>2. wantedId \in Shown => Named(nameOf[wantedId]) # NoService
    BY NamedIsNamed
  <2>3. Named(nameOf[wantedId]) # NoService =>
          /\ Named(nameOf[wantedId]) \in Shown
          /\ nameOf[Named(nameOf[wantedId])] = nameOf[wantedId]
    BY NamedIsNamed
  <2> QED  BY <1>3, <2>1, <2>2, <2>3, MatchIsAHit
<1> QED  BY <1>2, <1>3

LEMMA NormalizedMatchIsNamed ==
  ASSUME ServiceTypeOK
  PROVE  /\ NormalizedMatch # NoHit =>
              /\ NormalizedMatch.service \in Shown
              /\ nameOf[NormalizedMatch.service] = wanted
              /\ NormalizedMatch.confidence = 95
         /\ (\E s \in Shown : nameOf[s] = wanted) => NormalizedMatch # NoHit
<1>1. NormalizedMatch = Match(Named(wanted), 95)
  BY DEF NormalizedMatch
<1>2. /\ Named(wanted) # NoService =>
           Named(wanted) \in Shown /\ nameOf[Named(wanted)] = wanted
      /\ (\E s \in Shown : nameOf[s] = wanted) => Named(wanted) # NoService
  BY NamedIsNamed
<1> QED  BY <1>1, <1>2, MatchIsAHit

LEMMA GuessesAreBest ==
  ASSUME ServiceTypeOK
  PROVE  /\ TokenMatch # NoHit =>
              /\ TokenMatch.service \in Shown /\ TokenMatch.confidence \in 0..100
              /\ \A s \in Shown :
                   TokenScore(wanted, nameOf[s]) <= TokenMatch.confidence
         /\ TokenMatch = NoHit =>
              \A s \in Shown : TokenScore(wanted, nameOf[s]) = 0
         /\ FuzzyMatch # NoHit =>
              FuzzyMatch.service \in Shown /\ FuzzyMatch.confidence \in 0..100
<1> DEFINE token == [s \in Services |-> TokenScore(wanted, nameOf[s])]
           fuzzy == [s \in Services |-> FuzzyScore(wanted, nameOf[s])]
<1>1. \A s \in Services : nameOf[s] \in Names /\ wanted \in Names
  BY DEF ServiceTypeOK
<1>2. token \in [Services -> 0..100] /\ fuzzy \in [Services -> 0..100]
  BY <1>1, ServiceAssumption
<1>3. TokenMatch = Best(token) /\ FuzzyMatch = Best(fuzzy)
  BY DEF TokenMatch, FuzzyMatch
<1>4. \A s \in Shown : token[s] = TokenScore(wanted, nameOf[s])
  BY TilesAreTyped
<1> HIDE DEF token, fuzzy
<1>5. /\ Best(token) # NoHit =>
           /\ Best(token).service \in Shown
           /\ Best(token).confidence \in 0..100
           /\ \A s \in Shown : token[s] <= Best(token).confidence
      /\ Best(token) = NoHit => \A s \in Shown : token[s] = 0
  BY <1>2, BestIsBest
<1>6. Best(fuzzy) # NoHit => /\ Best(fuzzy).service \in Shown
                             /\ Best(fuzzy).confidence \in 0..100
  BY <1>2, BestIsBest
<1> QED  BY <1>3, <1>4, <1>5, <1>6

LEMMA CascadeIsOne ==
  Cascade # NoHit =>
    \/ Cascade = IdMatch
    \/ /\ IdMatch = NoHit
       /\ \/ Cascade = NormalizedMatch
          \/ /\ NormalizedMatch = NoHit
             /\ \/ Cascade = TokenMatch
                \/ TokenMatch = NoHit /\ Cascade = FuzzyMatch
BY DEF Cascade, OrElse

\* What the caller has found is what OpensTheAskedService says of it, and no more
\* than that is left to the click.
Chosen ==
  /\ wantedId = NoService /\ Cardinality(Alike) = 1 => hit.service \in Alike
  /\ (/\ caller = "shared" /\ wantedId \in Shown /\ business
      /\ \A s, t \in Shown : nameOf[s] = nameOf[t] => s = t)
       => hit.service = wantedId
  /\ caller \in Cascading => GoodGuess

ServiceInv ==
  /\ ServiceTypeOK
  /\ looking \in {"found", "opened", "done"} => Chosen
  /\ looking \in {"opened", "done"} => opened = hit.service
  /\ looking = "done" /\ wantedId # NoService /\ caller # "shared"
       => opened = wantedId

LEMMA OneIsSome ==
  ASSUME NEW S, Cardinality(S) = 1
  PROVE  S # {}
BY FS_EmptySet

\* The cascade chooses well.
LEMMA ResolveChooses ==
  ASSUME ServiceTypeOK, Resolve
  PROVE  Chosen' /\ hit' \in Hits
<1>1. /\ caller \in Cascading /\ Cascade # NoHit
      /\ Cascade.confidence >= MinConfidence
      /\ hit' = Cascade /\ UNCHANGED serviceQuery
  BY DEF Resolve
<1>2. /\ Shown' = Shown /\ Alike' = Alike
      /\ UNCHANGED <<caller, wanted, wantedId, nameOf, business>>
  BY <1>1 DEF serviceQuery, Shown, Alike, IncludesName
<1> DEFINE h == Cascade
<1>3. h.service \in Shown /\ h.confidence \in 0..100
  <2>1. 100 \in 0..100 /\ 95 \in 0..100
    OBVIOUS
  <2> QED
    BY <1>1, <2>1, CascadeIsOne, IdMatchIsNamed, NormalizedMatchIsNamed,
       GuessesAreBest
<1>4. hit' \in Hits
  <2>1. h.service \in Services
    BY <1>3, TilesAreTyped
  <2>2. h = [service |-> h.service, confidence |-> h.confidence]
    <3>1. \A service, confidence :
            LET m == Match(service, confidence) IN
              m = [service |-> m.service, confidence |-> m.confidence]
      BY DEF Match, NoHit
    <3>2. NoHit = [service |-> NoHit.service, confidence |-> NoHit.confidence]
      BY DEF NoHit
    <3>3. IdMatch = [service |-> IdMatch.service, confidence |-> IdMatch.confidence]
      BY <3>1, <3>2 DEF IdMatch
    <3>4. NormalizedMatch = [service |-> NormalizedMatch.service,
                             confidence |-> NormalizedMatch.confidence]
      BY <3>1 DEF NormalizedMatch
    <3>5. ASSUME NEW score
          PROVE  Best(score) = [service |-> Best(score).service,
                                confidence |-> Best(score).confidence]
      <4>1. Best(score) = NoHit \/ \E s, c : Best(score) = Match(s, c)
        BY Zenon DEF Best
      <4> QED  BY <3>1, <3>2, <4>1
    <3>6. /\ TokenMatch = [service |-> TokenMatch.service,
                           confidence |-> TokenMatch.confidence]
          /\ FuzzyMatch = [service |-> FuzzyMatch.service,
                           confidence |-> FuzzyMatch.confidence]
      BY <3>5 DEF TokenMatch, FuzzyMatch
    <3> QED  BY <1>1, <3>3, <3>4, <3>6, CascadeIsOne
  <2> HIDE DEF h
  <2>3. [service |-> h.service, confidence |-> h.confidence] \in Hits
    BY <1>3, <2>1 DEF Hits
  <2> QED  BY <1>1, <2>2, <2>3 DEF h
<1>5. (\E s \in Shown : nameOf[s] = wanted) /\ IdMatch = NoHit
        => h.service \in Shown /\ nameOf[h.service] = wanted
  BY <1>1, CascadeIsOne, NormalizedMatchIsNamed
<1>6. wantedId = NoService /\ Cardinality(Alike) = 1 => h.service \in Alike
  <2> SUFFICES ASSUME wantedId = NoService, Cardinality(Alike) = 1
               PROVE  h.service \in Alike
    OBVIOUS
  <2>1. Alike = {s \in Shown : nameOf[s] = wanted}
    BY <1>1 DEF Alike
  <2>2. \E s \in Shown : nameOf[s] = wanted
    BY <2>1, OneIsSome
  <2>3. IdMatch = NoHit
    BY DEF IdMatch
  <2> QED  BY <1>5, <2>1, <2>2, <2>3
<1>7. (/\ caller = "shared" /\ wantedId \in Shown /\ business
       /\ \A s, t \in Shown : nameOf[s] = nameOf[t] => s = t)
        => h.service = wantedId
  <2> SUFFICES ASSUME wantedId \in Shown, business,
                      \A s, t \in Shown : nameOf[s] = nameOf[t] => s = t
               PROVE  h.service = wantedId
    OBVIOUS
  <2>1. IdMatch # NoHit /\ h = IdMatch
    BY IdMatchIsNamed DEF Cascade, OrElse
  <2> QED  BY <2>1, IdMatchIsNamed
<1>8. h.confidence < 95 =>
        /\ h.confidence >= MinConfidence
        /\ \A s \in Shown :
             nameOf[s] # wanted /\ TokenScore(wanted, nameOf[s]) <= h.confidence
  <2> SUFFICES ASSUME h.confidence < 95, NEW s \in Shown
               PROVE  /\ nameOf[s] # wanted
                      /\ TokenScore(wanted, nameOf[s]) <= h.confidence
    BY <1>1
  <2>1. h # IdMatch /\ h # NormalizedMatch
    <3>1. ~(100 < 95) /\ ~(95 < 95)
      OBVIOUS
    <3> QED  BY <1>1, <3>1, IdMatchIsNamed, NormalizedMatchIsNamed
  <2>2. NormalizedMatch = NoHit
    BY <1>1, <2>1, CascadeIsOne
  <2>3. nameOf[s] # wanted
    BY <2>2, NormalizedMatchIsNamed
  <2>4. h = TokenMatch \/ TokenMatch = NoHit
    BY <1>1, <2>1, CascadeIsOne
  <2>5. CASE h = TokenMatch
    BY <1>1, <2>3, <2>5, GuessesAreBest
  <2>6. CASE TokenMatch = NoHit
    <3>1. TokenScore(wanted, nameOf[s]) = 0
      BY <2>6, GuessesAreBest
    <3>2. h.confidence >= 0
      BY <1>3
    <3> QED  BY <2>3, <3>1, <3>2
  <2> QED  BY <2>4, <2>5, <2>6
<1> HIDE DEF h
<1>9. hit' = h
  BY <1>1 DEF h
<1>10. GoodGuess'
  BY <1>2, <1>8, <1>9 DEF GoodGuess
<1>11. Chosen'
  BY <1>2, <1>6, <1>7, <1>9, <1>10 DEF Chosen
<1> QED  BY <1>4, <1>11

\* So does the search for a name that contains the one asked for.
LEMMA SearchChooses ==
  ASSUME ServiceTypeOK, Search
  PROVE  Chosen' /\ hit' \in Hits
<1>1. /\ caller \notin Cascading /\ FirstContaining # NoHit
      /\ hit' = FirstContaining /\ UNCHANGED serviceQuery
  BY DEF Search
<1>2. /\ Shown' = Shown /\ Alike' = Alike
      /\ UNCHANGED <<caller, wanted, wantedId, nameOf, business>>
  BY <1>1 DEF serviceQuery, Shown, Alike, IncludesName
<1> DEFINE test == [s \in Services |-> IncludesName(nameOf[s], wanted)]
<1>3. test \in [Services -> BOOLEAN]
  BY DEF IncludesName
<1>4. \A s \in Services : test[s] <=> IncludesName(nameOf[s], wanted)
  OBVIOUS
<1>5. FirstContaining = Match(FirstTile(test), 100)
  BY DEF FirstContaining
<1> HIDE DEF test
<1>6. FirstTile(test) # NoService
  BY <1>1, <1>5, MatchIsAHit
<1>7. FirstTile(test) \in Shown /\ test[FirstTile(test)]
  BY <1>3, <1>6, FirstTilePasses
<1>8. hit' = [service |-> FirstTile(test), confidence |-> 100]
  BY <1>1, <1>5, <1>6 DEF Match
<1>9. FirstTile(test) \in Services
  BY <1>7, TilesAreTyped
<1>10. hit' \in Hits
  <2>1. 100 \in 0..100
    OBVIOUS
  <2> QED  BY <1>8, <1>9, <2>1 DEF Hits
<1>11. FirstTile(test) \in Alike
  BY <1>1, <1>4, <1>7, <1>9 DEF Alike
<1>12. hit'.service = FirstTile(test)
  BY <1>8
<1>13. caller # "shared"
  BY <1>1 DEF Cascading
<1> QED  BY <1>1, <1>2, <1>10, <1>11, <1>12, <1>13 DEF Chosen

-----------------------------------------------------------------------------
(* The service: the invariant.                                             *)

LEMMA FirstNameIsOne == FirstName \in Names
<1>1. PICK w \in Words : TRUE
  BY ServiceAssumption
<1>2. [i \in 1..1 |-> w] \in Names
  BY DEF Names
<1> QED  BY <1>2 DEF FirstName

LEMMA NoTiles == <<>> \in Seq(Services)
BY EmptySeq

LEMMA ServiceInitInv == ServiceInit => ServiceInv
<1> SUFFICES ASSUME ServiceInit PROVE ServiceInv
  OBVIOUS
<1>1. ServiceTypeOK
  <2>1. hit \in Hits
    <3>1. 0 \in 0..100
      OBVIOUS
    <3> QED  BY <3>1 DEF ServiceInit, NoHit, Hits
  <2> QED
    BY <2>1, FirstNameIsOne, NoTiles
       DEF ServiceInit, ServiceTypeOK, Seekers, Cascading
<1> QED  BY <1>1 DEF ServiceInit, ServiceInv

\* The query changes only where nothing has been chosen.
LEMMA QueryKeepsInv ==
  ASSUME ServiceInv, LookFor \/ LeavePage
  PROVE  ServiceInv'
<1> USE DEF ServiceInv
<1>1. CASE LookFor
  <2>1. tiles' \in Seq(Services)
    <3>1. PICK n \in 0..Cardinality(Services) : tiles' \in [1..n -> Services]
      BY <1>1 DEF LookFor
    <3>2. n \in Nat
      OBVIOUS
    <3> QED  BY <3>1, <3>2, SeqDef
  <2>2. business' \in BOOLEAN
    BY <1>1 DEF LookFor
  <2> QED  BY <1>1, <2>1, <2>2 DEF LookFor, ServiceTypeOK
<1>2. CASE LeavePage
  <2>1. hit' \in Hits
    <3>1. 0 \in 0..100
      OBVIOUS
    <3> QED  BY <1>2, <3>1 DEF LeavePage, NoHit, Hits
  <2> QED
    BY <1>2, <2>1, FirstNameIsOne, NoTiles
       DEF LeavePage, ServiceTypeOK, Seekers, Cascading
<1> QED  BY <1>1, <1>2

\* What has been chosen stays chosen as long as the query and the hit do.
LEMMA ChosenStays ==
  ASSUME UNCHANGED <<serviceQuery, hit>>
  PROVE  Chosen' = Chosen
<1>1. Shown' = Shown /\ Alike' = Alike
  BY DEF serviceQuery, Shown, Alike, IncludesName
<1> QED  BY <1>1 DEF serviceQuery, Chosen, GoodGuess

LEMMA ServiceStepKeepsInv ==
  ASSUME ServiceInv, LookupFails \/ ServiceStep
  PROVE  ServiceInv'
<1> USE DEF ServiceInv
<1>1. CASE LookupFails
  BY <1>1 DEF LookupFails, serviceQuery, ServiceTypeOK
<1>2. CASE Resolve
  <2>1. Chosen' /\ hit' \in Hits
    BY <1>2, ResolveChooses
  <2> QED  BY <1>2, <2>1 DEF Resolve, serviceQuery, ServiceTypeOK
<1>3. CASE Search
  <2>1. Chosen' /\ hit' \in Hits
    BY <1>3, SearchChooses
  <2> QED  BY <1>3, <2>1 DEF Search, serviceQuery, ServiceTypeOK
<1>4. CASE ClickBook
  <2>1. Chosen' = Chosen
    BY <1>4, ChosenStays DEF ClickBook
  <2>2. hit.service \in Services \cup {NoService}
    BY DEF ServiceTypeOK, Hits
  <2> QED  BY <1>4, <2>1, <2>2 DEF ClickBook, serviceQuery, ServiceTypeOK
<1>5. CASE VerifyId
  <2>1. Chosen' = Chosen
    BY <1>5, ChosenStays DEF VerifyId
  <2>2. looking' \in {"failed", "done"}
    BY <1>5 DEF VerifyId
  <2> QED  BY <1>5, <2>1, <2>2 DEF VerifyId, serviceQuery, ServiceTypeOK
<1> QED  BY <1>1, <1>2, <1>3, <1>4, <1>5 DEF ServiceStep

LEMMA ServiceInvariant == ServiceSpec => []ServiceInv
<1>1. ServiceInv /\ [ServiceNext]_serviceVars => ServiceInv'
  <2>1. ServiceInv /\ UNCHANGED serviceVars => ServiceInv'
    <3> SUFFICES ASSUME ServiceInv, UNCHANGED serviceVars PROVE ServiceInv'
      OBVIOUS
    <3>1. UNCHANGED <<serviceQuery, hit, opened, looking>>
      BY DEF serviceVars, serviceQuery
    <3>2. Chosen' = Chosen
      BY <3>1, ChosenStays
    <3> QED  BY <3>1, <3>2 DEF serviceQuery, ServiceInv, ServiceTypeOK
  <2> QED  BY <2>1, QueryKeepsInv, ServiceStepKeepsInv DEF ServiceNext
<1> QED  BY <1>1, ServiceInitInv, PTL DEF ServiceSpec

\* Whatever services and names the vendor has, in whatever order, and however names
\* are scored: the calendar that is opened belongs to the service asked for.
THEOREM OpensWhatWasAsked == ServiceSpec => []OpensTheAskedService
<1>1. ServiceInv => OpensTheAskedService
  BY DEF ServiceInv, Chosen, OpensTheAskedService
<1> QED  BY <1>1, ServiceInvariant, PTL

-----------------------------------------------------------------------------
(* The calendar: texts.                                                    *)

\* What buildIsoDatetime makes of a label is the hour the label was made of.
LEMMA LabelsAreRead ==
  ASSUME NEW h \in 0..23
  PROVE  HourOf(Label(h)) = h
<1>1. \/ h = 0 \/ h \in 1..11 \/ h = 12 \/ h \in 13..23
  OBVIOUS
<1>2. h \in 1..11 => h % 12 = h
  OBVIOUS
<1>3. h \in 13..23 => h % 12 = h - 12
  OBVIOUS
<1>4. /\ Label(h)[1] = IF h % 12 = 0 THEN 12 ELSE h % 12
      /\ Label(h)[2] <=> h >= 12
  BY DEF Label
<1>5. CASE h = 0
  BY <1>4, <1>5 DEF HourOf
<1>6. CASE h \in 1..11
  <2>1. Label(h)[1] = h /\ ~Label(h)[2]
    BY <1>2, <1>4, <1>6
  <2> QED  BY <1>6, <2>1 DEF HourOf
<1>7. CASE h = 12
  <2>1. Label(h)[1] = 12 /\ Label(h)[2]
    BY <1>4, <1>7
  <2> QED  BY <1>7, <2>1 DEF HourOf
<1>8. CASE h \in 13..23
  <2>1. Label(h)[1] = h - 12 /\ Label(h)[2]
    BY <1>3, <1>4, <1>8
  <2> QED  BY <1>8, <2>1 DEF HourOf
<1> QED  BY <1>1, <1>5, <1>6, <1>7, <1>8

\* A text that includes the one of an hour is the text of that hour, except that
\* eleven's and twelve's include one's and two's.
LEMMA TextsAreApart ==
  ASSUME NEW h \in 0..23, NEW k \in 0..23, k % 12 \notin {1, 2},
         Includes(Label(h), Label(k))
  PROVE  h = k
<1>1. /\ h < 12 => h % 12 = h
      /\ h >= 12 => h % 12 = h - 12
      /\ k < 12 => k % 12 = k
      /\ k >= 12 => k % 12 = k - 12
  OBVIOUS
<1>2. /\ (h >= 12) = (k >= 12)
      /\ LET a == IF h % 12 = 0 THEN 12 ELSE h % 12
             b == IF k % 12 = 0 THEN 12 ELSE k % 12
         IN  a = b \/ a = 10 + b
  BY DEF Includes, Label
<1> QED  BY <1>1, <1>2

\* Two months with the same place in their years are the same month, or at least
\* a year apart.
LEMMA SamePlaceInTheYear ==
  ASSUME NEW y \in Nat \ {0}, NEW a \in Nat, NEW n \in Int, NEW b \in Int,
         b = n * y + (a % y), b - a < y, a - b < y
  PROVE  b = a
<1> DEFINE q == a \div y
           k == n - q
<1>1. q \in Int /\ a = y * q + (a % y) /\ a % y \in Int
  OBVIOUS
<1>2. k \in Int /\ n = q + k
  BY <1>1
<1> HIDE DEF q, k
<1>3. n * y = q * y + k * y
  BY <1>1, <1>2
<1>4. b - a = k * y
  <2>1. y * q = q * y /\ q * y \in Int /\ k * y \in Int
    BY <1>1, <1>2
  <2> QED  BY <1>1, <1>3, <2>1
<1>5. k >= 1 => k * y >= y
  BY <1>2
<1>6. k <= -1 => k * y <= -y
  BY <1>2
<1>7. k = 0
  BY <1>2, <1>4, <1>5, <1>6
<1> QED  BY <1>4, <1>7

\* The year that a label is taken to mean gives back the day it names, if that day
\* is found in the month asked for and lies less than a year from it.
LEMMA InferredIsTheDay ==
  ASSUME CalendarTypeOK, NEW d \in Days, Month(Inferred(d)) = Month(target),
         yearless => /\ Month(target) - Month(d) < MonthsPerYear
                     /\ Month(d) - Month(target) < MonthsPerYear
  PROVE  Inferred(d) = d
<1>1. CASE ~yearless
  BY <1>1 DEF Inferred
<1>2. CASE yearless
  <2> DEFINE Y == MonthsPerYear
             t == Month(target)
             delta == (Month(d) % Y) - (t % Y)
             year == (t \div Y) + (IF 2 * delta > Y THEN -1
                                   ELSE IF 2 * delta < -Y THEN 1 ELSE 0)
  <2>1. Y \in Nat \ {0} /\ t \in Nat /\ Month(d) \in Nat
    BY CalendarAssumption DEF CalendarTypeOK, Days, Month
  <2>2. Inferred(d) = <<year * Y + (Month(d) % Y), d[2]>>
    BY <1>2 DEF Inferred
  <2>3. year \in Int
    <3>1. t \div Y \in Int
      BY <2>1
    <3> QED  BY <3>1
  <2>4. t = year * Y + (Month(d) % Y)
    BY <2>2 DEF Month
  <2> HIDE DEF year, t, Y
  <2>5. t - Month(d) < Y /\ Month(d) - t < Y
    BY <1>2 DEF t, Y
  <2>6. t \in Int
    BY <2>1
  <2>7. t = Month(d)
    BY <2>1, <2>3, <2>4, <2>5, <2>6, SamePlaceInTheYear
  <2>8. d = <<d[1], d[2]>>
    BY DEF Days
  <2> QED  BY <2>2, <2>4, <2>7, <2>8 DEF Month
<1> QED  BY <1>1, <1>2

-----------------------------------------------------------------------------
(* The calendar: navigation, choice and report.                            *)

\* While a program navigates, its clicks and the way that is left make up the way
\* it had; where it looks for a day or for dates by URL, it has arrived, or it is
\* one of those that stop short.  Only the reads by URL know time lists.
Navigates ==
  /\ stage = "idle" => surface = "calendar"
  /\ surface # "calendar" \/ stage = "list" => task \in ByUrl
  /\ stage \in {"idle", "load"} =>
       /\ shown = first /\ clicks = 0 /\ pass = 1 /\ more = 0
       /\ found = {} /\ picked = NoDay /\ pickedAt = NoHour /\ ~late
  /\ stage = "nav" =>
       /\ clicks + Distance(shown, Month(target)) = Distance(first, Month(target))
       /\ pass = 1 /\ found = {} /\ picked = NoDay
  /\ stage = "day" =>
       /\ picked = NoDay
       /\ shown = Month(target) \/ (/\ task \notin ByUrl
                                    /\ Distance(first, Month(target)) > BookClicks)

\* What has been found so far is offered, whether or not the program is done.
FindsWhatIsOffered ==
  /\ (/\ task \in {"dates", "urlDates"}
      /\ yearless => Month(target) - first \in 0..(MonthsPerYear - 1)
      /\ MoreClicks < MonthsPerYear)
       => found \subseteq openDays
  /\ task \in {"slots", "urlSlots"} => found \subseteq times

NoneInMonth == \A d \in openDays : Month(d) # Month(target)

\* The read of dates by URL on a calendar: once it has waited it sees the days
\* painted or knows that it is too early, and it turns to the time list only where
\* it saw no tile.
WaitsForPaint ==
  (task = "urlDates" /\ surface = "calendar") =>
    /\ stage \in {"tiles", "list", "settle", "done"} => shown = Month(target)
    /\ pass = 2 => late \/ painted
    /\ (stage = "list" /\ pass = 2 /\ ~late) => NoneInMonth
    /\ (stage = "done" /\ found = {} /\ ~late) => NoneInMonth

CalendarInv ==
  /\ CalendarTypeOK /\ Navigates /\ WaitsForPaint
  /\ ~EastOfUtc => PicksWhatWasAsked /\ FindsWhatIsOffered

LEMMA FirstsAreTyped ==
  /\ FirstDay \in Days /\ FirstHour \in Hours
  /\ Month(FirstDay) \in Months /\ Month(FirstDay) \in Nat
<1>1. FirstDay \in Days /\ FirstHour \in Hours
  <2>1. \E d \in Days : TRUE
    <3>1. PICK m \in Months, n \in DayNumbers : TRUE
      BY CalendarAssumption
    <3>2. <<m, n>> \in Days
      BY DEF Days
    <3> QED  BY <3>2
  <2>2. \E h \in Hours : TRUE
    BY CalendarAssumption
  <2> QED  BY <2>1, <2>2 DEF FirstDay, FirstHour
<1>2. FirstDay[1] \in Months
  BY <1>1 DEF Days
<1>3. FirstDay[1] \in Nat
  BY <1>2, CalendarAssumption
<1> QED  BY <1>1, <1>2, <1>3 DEF Month

\* A blank page, as at the beginning and after the program has ended.
LEMMA BlankPage ==
  ASSUME CalendarInit
  PROVE  CalendarInv
<1>1. CalendarTypeOK
  <2>1. /\ task \in Tasks /\ target \in Days /\ hour \in Hours
        /\ openDays \subseteq Days /\ times \subseteq Hours
    BY FirstsAreTyped DEF CalendarInit, Tasks
  <2>2. /\ yearless \in BOOLEAN /\ painted \in BOOLEAN /\ late \in BOOLEAN
        /\ surface \in {"calendar", "list", "interstitial"}
        /\ pass \in {1, 2} /\ stage \in Active \cup {"idle", "done", "failed"}
    BY DEF CalendarInit
  <2>3. /\ first \in Months /\ shown \in Int /\ clicks \in Nat
        /\ more \in 0..MoreClicks
    <3>1. /\ first = Month(FirstDay) /\ shown = Month(FirstDay)
          /\ clicks = 0 /\ more = 0
      BY DEF CalendarInit
    <3> QED  BY <3>1, FirstsAreTyped, CalendarAssumption
  <2>4. picked \in Days \cup {NoDay} /\ pickedAt \in Hours \cup {NoHour}
    BY DEF CalendarInit
  <2> QED  BY <2>1, <2>2, <2>3, <2>4 DEF CalendarTypeOK
<1>2. Navigates
  BY DEF CalendarInit, Navigates
<1>3. WaitsForPaint
  BY DEF CalendarInit, WaitsForPaint
<1>4. PicksWhatWasAsked
  BY DEF CalendarInit, PicksWhatWasAsked
<1>5. FindsWhatIsOffered
  BY DEF CalendarInit, FindsWhatIsOffered
<1> QED  BY <1>1, <1>2, <1>3, <1>4, <1>5 DEF CalendarInv

LEMMA BeginKeepsInv ==
  ASSUME CalendarInv, Begin
  PROVE  CalendarInv'
<1> USE DEF CalendarInv
<1>1. CalendarTypeOK'
  <2>1. hour' \in Hours /\ times' \subseteq Hours /\ openDays' \subseteq Days
    BY DEF Begin, CalendarTypeOK
  <2>2. yearless' \in BOOLEAN /\ surface' \in {"calendar", "list", "interstitial"}
    BY DEF Begin, CalendarTypeOK
  <2>3. first' \in Months /\ shown' \in Int
    BY CalendarAssumption DEF Begin
  <2>4. task' \in Tasks /\ target' \in Days /\ stage' \in Active
    BY DEF Begin, Active
  <2> QED
    BY <2>1, <2>2, <2>3, <2>4 DEF Begin, CalendarTypeOK, outcome
<1>2. Navigates'
  BY DEF Begin, Navigates, outcome, ByUrl
<1>3. WaitsForPaint'
  BY DEF Begin, Navigates, WaitsForPaint, outcome
<1>4. PicksWhatWasAsked'
  BY DEF Begin, Navigates, PicksWhatWasAsked, outcome
<1>5. FindsWhatIsOffered'
  BY DEF Begin, Navigates, FindsWhatIsOffered, outcome
<1> QED  BY <1>1, <1>2, <1>3, <1>4, <1>5

LEMMA ClosePageKeepsInv ==
  ASSUME CalendarInv, ClosePage
  PROVE  CalendarInv'
<1>1. CalendarTypeOK'
  <2>1. /\ task' \in Tasks /\ target' \in Days /\ hour' \in Hours
        /\ openDays' \subseteq Days /\ times' \subseteq Hours
    BY FirstsAreTyped DEF ClosePage, Tasks
  <2>2. /\ yearless' \in BOOLEAN /\ painted' \in BOOLEAN /\ late' \in BOOLEAN
        /\ surface' \in {"calendar", "list", "interstitial"}
        /\ pass' \in {1, 2} /\ stage' \in Active \cup {"idle", "done", "failed"}
    BY DEF ClosePage
  <2>3. /\ first' \in Months /\ shown' \in Int /\ clicks' \in Nat
        /\ more' \in 0..MoreClicks
    <3>1. /\ first' = Month(FirstDay) /\ shown' = Month(FirstDay)
          /\ clicks' = 0 /\ more' = 0
      BY DEF ClosePage
    <3> QED  BY <3>1, FirstsAreTyped, CalendarAssumption
  <2>4. picked' \in Days \cup {NoDay} /\ pickedAt' \in Hours \cup {NoHour}
    BY DEF ClosePage
  <2> QED  BY <2>1, <2>2, <2>3, <2>4 DEF CalendarTypeOK
<1>2. Navigates' /\ WaitsForPaint' /\ PicksWhatWasAsked' /\ FindsWhatIsOffered'
  BY DEF ClosePage, Navigates, WaitsForPaint, PicksWhatWasAsked,
         FindsWhatIsOffered
<1> QED  BY <1>1, <1>2 DEF CalendarInv

\* What leaves the outcome alone.
LEMMA OutcomeStays ==
  ASSUME CalendarInv, UNCHANGED <<request, vendor, outcome>>
  PROVE  ~EastOfUtc => (PicksWhatWasAsked /\ FindsWhatIsOffered)'
BY DEF CalendarInv, request, vendor, outcome, PicksWhatWasAsked,
       FindsWhatIsOffered

LEMMA PageAndFailureKeepInv ==
  ASSUME CalendarInv, Paint \/ StepFails \/ LoadPage
  PROVE  CalendarInv'
<1> USE DEF CalendarInv, request, vendor, calendar, outcome
<1>1. CASE Paint
  <2>1. CalendarTypeOK'
    BY <1>1 DEF Paint, CalendarTypeOK
  <2>2. Navigates' /\ WaitsForPaint'
    BY <1>1 DEF Paint, Navigates, WaitsForPaint, NoneInMonth
  <2> QED  BY <1>1, <2>1, <2>2, OutcomeStays DEF Paint
<1>2. CASE StepFails
  <2>1. CalendarTypeOK'
    BY <1>2 DEF StepFails, Goes, CalendarTypeOK
  <2>2. Navigates' /\ WaitsForPaint'
    BY <1>2 DEF StepFails, Goes, Navigates, WaitsForPaint, NoneInMonth
  <2> QED  BY <1>2, <2>1, <2>2, OutcomeStays DEF StepFails
<1>3. CASE LoadPage
  <2>1. CalendarTypeOK'
    BY <1>3 DEF LoadPage, Goes, CalendarTypeOK, Active
  <2>2. Navigates' /\ WaitsForPaint'
    <3>1. surface \in {"calendar", "list", "interstitial"}
      BY DEF CalendarTypeOK
    <3>2. stage' \in {"nav", "failed", "tiles", "list"}
      BY <1>3, <3>1 DEF LoadPage, Goes
    <3>3. surface = "calendar" => stage' = "nav"
      BY <1>3, <3>1 DEF LoadPage, Goes
    <3>4. 0 + Distance(first, Month(target)) = Distance(first, Month(target))
      <4>1. Distance(first, Month(target)) \in Int
        <5>1. first \in Nat /\ Month(target) \in Nat
          BY CalendarAssumption DEF CalendarTypeOK, Days, Month
        <5> QED  BY <5>1 DEF Distance
      <4> QED  BY <4>1
    <3> QED  BY <1>3, <3>2, <3>3, <3>4 DEF LoadPage, Navigates, WaitsForPaint
  <2> QED  BY <1>3, <2>1, <2>2, OutcomeStays DEF LoadPage
<1> QED  BY <1>1, <1>2, <1>3

LEMMA NavigationKeepsInv ==
  ASSUME CalendarInv, ArriveAtMonth \/ ClickTowards \/ UseUpClicks \/ StopShort
  PROVE  CalendarInv'
<1> USE DEF CalendarInv, request, vendor, calendar, outcome
<1>1. Month(target) \in Nat /\ first \in Nat /\ shown \in Int /\ clicks \in Nat
  BY CalendarAssumption DEF CalendarTypeOK, Days, Month
<1>2. CASE ArriveAtMonth
  <2>1. CalendarTypeOK'
    BY <1>2 DEF ArriveAtMonth, Goes, AfterNavigation, CalendarTypeOK, Active
  <2>2. Navigates' /\ WaitsForPaint'
    BY <1>2 DEF ArriveAtMonth, Goes, AfterNavigation, Navigates, WaitsForPaint
  <2> QED  BY <1>2, <2>1, <2>2, OutcomeStays DEF ArriveAtMonth
<1>3. CASE ClickTowards
  <2>1. CalendarTypeOK'
    <3>1. shown' \in Int /\ clicks' \in Nat
      BY <1>1, <1>3 DEF ClickTowards
    <3> QED  BY <1>3, <3>1 DEF ClickTowards, CalendarTypeOK
  <2>2. Navigates'
    BY <1>1, <1>3 DEF ClickTowards, Navigates, Distance
  <2>3. WaitsForPaint'
    BY <1>3 DEF ClickTowards, Navigates, WaitsForPaint
  <2> QED  BY <1>3, <2>1, <2>2, <2>3, OutcomeStays DEF ClickTowards
<1>4. CASE UseUpClicks
  <2>1. CalendarTypeOK'
    BY <1>4 DEF UseUpClicks, Goes, CalendarTypeOK
  <2>2. Navigates' /\ WaitsForPaint'
    BY <1>4 DEF UseUpClicks, ClicksUsedUp, Goes, Navigates, WaitsForPaint
  <2> QED  BY <1>4, <2>1, <2>2, OutcomeStays DEF UseUpClicks
<1>5. CASE StopShort
  <2>1. CalendarTypeOK'
    BY <1>5 DEF StopShort, Goes, AfterNavigation, CalendarTypeOK, Active
  <2>2. task \notin ByUrl /\ Distance(first, Month(target)) > BookClicks
    <3>1. clicks >= BookClicks /\ shown # Month(target)
      BY <1>5 DEF StopShort, ClicksUsedUp, ClickBound
    <3>2. clicks + Distance(shown, Month(target)) = Distance(first, Month(target))
      BY <1>5 DEF StopShort, ClicksUsedUp, Navigates
    <3>3. Distance(shown, Month(target)) > 0 /\ Distance(shown, Month(target)) \in Int
      BY <1>1, <3>1 DEF Distance
    <3> QED  BY <1>1, <1>5, <3>1, <3>2, <3>3, CalendarAssumption DEF StopShort
  <2>3. Navigates' /\ WaitsForPaint'
    BY <1>5, <2>2
       DEF StopShort, ClicksUsedUp, Goes, AfterNavigation, Navigates,
           WaitsForPaint, ByUrl
  <2> QED  BY <1>5, <2>1, <2>3, OutcomeStays DEF StopShort
<1> QED  BY <1>2, <1>3, <1>4, <1>5

\* What is offered is what is read off the labels.
LEMMA OfferedAreTheTimes ==
  ASSUME CalendarTypeOK
  PROVE  OfferedHours = times
<1>1. \A h \in times : HourOf(Label(h)) = h
  BY LabelsAreRead, CalendarAssumption DEF CalendarTypeOK
<1> QED  BY <1>1 DEF OfferedHours

LEMMA DayKeepsInv ==
  ASSUME CalendarInv, ClickDay \/ NoSuchDay
  PROVE  CalendarInv'
<1> USE DEF CalendarInv, request, vendor, calendar, outcome
<1>1. CASE ClickDay
  <2>1. PICK d \in Tiles : TileOf(d) /\ picked' = d
    BY <1>1 DEF ClickDay
  <2>2. d \in Days /\ Month(d) = shown
    BY <2>1 DEF Tiles, CalendarTypeOK
  <2>3. /\ stage = "day" /\ stage' = "times"
        /\ UNCHANGED <<request, vendor, calendar, pass, pickedAt, found, late>>
    BY <1>1 DEF ClickDay, Goes
  <2>4. CalendarTypeOK'
    BY <2>1, <2>2, <2>3 DEF CalendarTypeOK, Active
  <2>5. Navigates' /\ WaitsForPaint'
    BY <2>3 DEF Navigates, WaitsForPaint
  <2>6. ASSUME ~EastOfUtc,
               task = "urlSlots" \/ Distance(first, Month(target)) <= BookClicks
        PROVE  d = target
    <3>1. shown = Month(target)
      <4>1. Distance(first, Month(target)) \in Int
        <5>1. first \in Nat /\ Month(target) \in Nat
          BY CalendarAssumption DEF CalendarTypeOK, Days, Month
        <5> QED  BY <5>1 DEF Distance
      <4> QED  BY <2>3, <2>6, <4>1, CalendarAssumption DEF Navigates, ByUrl
    <3>2. d[2] = target[2]
      BY <2>1, <2>6 DEF TileOf, IsoDate
    <3>3. d[1] = target[1]
      BY <2>2, <3>1 DEF Month
    <3>4. d = <<d[1], d[2]>> /\ target = <<target[1], target[2]>>
      BY <2>2 DEF CalendarTypeOK, Days
    <3> QED  BY <3>2, <3>3, <3>4
  <2>7. ~EastOfUtc => PicksWhatWasAsked' /\ FindsWhatIsOffered'
    BY <2>1, <2>3, <2>6 DEF PicksWhatWasAsked, FindsWhatIsOffered
  <2> QED  BY <2>4, <2>5, <2>7
<1>2. CASE NoSuchDay
  <2>1. CalendarTypeOK'
    BY <1>2 DEF NoSuchDay, Goes, CalendarTypeOK, Active
  <2>2. Navigates' /\ WaitsForPaint'
    BY <1>2 DEF NoSuchDay, Goes, Navigates, WaitsForPaint, ByUrl
  <2> QED  BY <1>2, <2>1, <2>2, OutcomeStays DEF NoSuchDay
<1> QED  BY <1>1, <1>2

LEMMA TimesKeepInv ==
  ASSUME CalendarInv, ClickTime \/ NoSuchTime \/ ReadTimes
  PROVE  CalendarInv'
<1> USE DEF CalendarInv, request, vendor, calendar, outcome
<1>1. CASE ClickTime
  <2>1. PICK h \in Matching : pickedAt' = h
    BY <1>1 DEF ClickTime
  <2>2. h \in times /\ Includes(Label(h), Label(hour))
    BY <2>1 DEF Matching
  <2>3. /\ stage = "times" /\ stage' = "done" /\ task = "book"
        /\ UNCHANGED <<request, vendor, calendar, pass, picked, found, late>>
    BY <1>1 DEF ClickTime, Goes
  <2>4. h \in Hours
    BY <2>2 DEF CalendarTypeOK
  <2>5. CalendarTypeOK'
    BY <2>1, <2>3, <2>4 DEF CalendarTypeOK, Active
  <2>6. Navigates' /\ WaitsForPaint'
    BY <2>3 DEF Navigates, WaitsForPaint
  <2>7. hour % 12 \notin {1, 2} => h = hour
    BY <2>2, <2>4, CalendarAssumption, TextsAreApart DEF CalendarTypeOK
  <2>8. ~EastOfUtc => PicksWhatWasAsked' /\ FindsWhatIsOffered'
    BY <2>1, <2>3, <2>7 DEF PicksWhatWasAsked, FindsWhatIsOffered
  <2> QED  BY <2>5, <2>6, <2>8
<1>2. CASE NoSuchTime
  <2>1. CalendarTypeOK'
    BY <1>2 DEF NoSuchTime, Goes, CalendarTypeOK
  <2>2. Navigates' /\ WaitsForPaint'
    BY <1>2 DEF NoSuchTime, Goes, Navigates, WaitsForPaint
  <2> QED  BY <1>2, <2>1, <2>2, OutcomeStays DEF NoSuchTime
<1>3. CASE ReadTimes
  <2>1. /\ stage' = "done" /\ task \in {"slots", "urlSlots"}
        /\ found' \subseteq times /\ late' \in BOOLEAN
        /\ UNCHANGED <<request, vendor, calendar, pass, picked, pickedAt>>
    BY <1>3, OfferedAreTheTimes DEF ReadTimes, Goes, CalendarTypeOK
  <2>2. CalendarTypeOK'
    BY <2>1 DEF CalendarTypeOK
  <2>3. Navigates' /\ WaitsForPaint'
    BY <2>1 DEF Navigates, WaitsForPaint
  <2>4. ~EastOfUtc => PicksWhatWasAsked' /\ FindsWhatIsOffered'
    BY <2>1 DEF PicksWhatWasAsked, FindsWhatIsOffered
  <2> QED  BY <2>2, <2>3, <2>4
<1> QED  BY <1>1, <1>2, <1>3

\* The time list names no day of the month that is not offered.
LEMMA ListIsOffered ==
  ASSUME CalendarTypeOK, MoreClicks < MonthsPerYear,
         yearless => Month(target) - first \in 0..(MonthsPerYear - 1)
  PROVE  EntriesOfMonth \subseteq openDays
<1> SUFFICES ASSUME NEW d \in Listed, Month(Inferred(d)) = Month(target)
             PROVE  Inferred(d) \in openDays
  <2>1. \A d \in Listed :
          Inferred(d) \in ({Month(target)}) \X DayNumbers
            => Month(Inferred(d)) = Month(target)
    BY DEF Month
  <2> QED  BY <2>1 DEF EntriesOfMonth
<1>1. d \in openDays /\ d \in Days /\ Month(d) - first \in 0..more
  BY DEF Listed, CalendarTypeOK
<1>2. /\ Month(d) \in Nat /\ Month(target) \in Nat /\ first \in Nat
      /\ more \in 0..MoreClicks
  BY <1>1, CalendarAssumption DEF CalendarTypeOK, Days, Month
<1>3. Month(d) - first < MonthsPerYear /\ first <= Month(d)
  BY <1>1, <1>2, CalendarAssumption
<1>4. yearless => /\ Month(target) - Month(d) < MonthsPerYear
                  /\ Month(d) - Month(target) < MonthsPerYear
  BY <1>2, <1>3, CalendarAssumption
<1>5. Inferred(d) = d
  BY <1>1, <1>4, InferredIsTheDay
<1> QED  BY <1>1, <1>5

LEMMA DatesKeepInv ==
  ASSUME CalendarInv, ScanMonth \/ ReadTiles
  PROVE  CalendarInv'
<1> USE DEF CalendarInv, request, vendor, calendar, outcome
<1>1. Tiles \subseteq openDays
  BY DEF Tiles
<1>2. CASE ScanMonth
  <2>1. /\ task = "dates" /\ stage = "tiles" /\ found' = found \cup Tiles
        /\ stage' \in {"tiles", "done"} /\ pass' \in {1, 2}
        /\ shown' \in {shown, shown + 1} /\ painted' \in BOOLEAN
        /\ UNCHANGED <<request, vendor, clicks, more, picked, pickedAt, late>>
    BY <1>2 DEF ScanMonth, AdvanceMonth, Goes, CalendarTypeOK
  <2>2. CalendarTypeOK'
    BY <2>1 DEF CalendarTypeOK, Active
  <2>3. Navigates' /\ WaitsForPaint'
    BY <2>1 DEF Navigates, WaitsForPaint
  <2>4. ~EastOfUtc => PicksWhatWasAsked' /\ FindsWhatIsOffered'
    BY <1>1, <2>1 DEF PicksWhatWasAsked, FindsWhatIsOffered
  <2> QED  BY <2>2, <2>3, <2>4
<1>3. CASE ReadTiles
  <2>1. /\ task = "urlDates" /\ stage = "tiles"
        /\ found' = {IsoDate(d) : d \in Tiles}
        /\ stage' = IF found' = {} THEN "list" ELSE "done"
        /\ UNCHANGED <<request, vendor, calendar, pass, picked, pickedAt, late>>
    BY <1>3 DEF ReadTiles, Goes
  <2>2. CalendarTypeOK'
    BY <2>1 DEF CalendarTypeOK, Active
  <2>3. Navigates'
    BY <2>1 DEF Navigates, ByUrl
  <2>4. (surface = "calendar" /\ painted /\ found' = {}) => NoneInMonth
    <3>1. found' = {} => Tiles = {}
      BY <2>1
    <3> QED  BY <2>1, <3>1 DEF Tiles, NoneInMonth, WaitsForPaint
  <2>5. WaitsForPaint'
    BY <2>1, <2>4 DEF WaitsForPaint, NoneInMonth
  <2>6. ~EastOfUtc => found' = Tiles
    BY <2>1 DEF IsoDate
  <2>7. ~EastOfUtc => PicksWhatWasAsked' /\ FindsWhatIsOffered'
    BY <1>1, <2>1, <2>6 DEF PicksWhatWasAsked, FindsWhatIsOffered
  <2> QED  BY <2>2, <2>3, <2>5, <2>7
<1> QED  BY <1>2, <1>3

LEMMA ListKeepsInv ==
  ASSUME CalendarInv, ShowMore \/ ReadList \/ Settle
  PROVE  CalendarInv'
<1> USE DEF CalendarInv, request, vendor, calendar, outcome
<1>1. CASE ShowMore
  <2>1. CalendarTypeOK'
    <3>1. more' \in 0..MoreClicks
      BY <1>1, CalendarAssumption DEF ShowMore, CalendarTypeOK
    <3> QED  BY <1>1, <3>1 DEF ShowMore, CalendarTypeOK
  <2>2. Navigates' /\ WaitsForPaint'
    BY <1>1 DEF ShowMore, Navigates, WaitsForPaint, NoneInMonth
  <2> QED  BY <1>1, <2>1, <2>2, OutcomeStays DEF ShowMore
<1>2. CASE ReadList
  <2>1. /\ stage = "list"
        /\ found' = IF task = "urlDates" THEN EntriesOfMonth
                    ELSE IF EntriesOfDay # {} THEN OfferedHours ELSE {}
        /\ stage' = IF found' = {} /\ task = "urlDates" /\ pass = 1 THEN "settle"
                                                                 ELSE "done"
        /\ UNCHANGED <<request, vendor, calendar, pass, picked, pickedAt, late>>
    BY <1>2 DEF ReadList, Goes
  <2>2. CalendarTypeOK'
    BY <2>1 DEF CalendarTypeOK, Active
  <2>3. Navigates'
    BY <2>1 DEF Navigates
  <2>4. WaitsForPaint'
    <3>1. pass \in {1, 2}
      BY DEF CalendarTypeOK
    <3> QED  BY <2>1, <3>1 DEF WaitsForPaint, NoneInMonth
  <2>5. FindsWhatIsOffered'
    <3>1. task \in ByUrl
      BY <2>1 DEF Navigates
    <3>2. CASE task = "urlDates"
      BY <2>1, <3>2, ListIsOffered DEF FindsWhatIsOffered
    <3>3. CASE task = "urlSlots"
      BY <2>1, <3>3, OfferedAreTheTimes DEF FindsWhatIsOffered
    <3> QED  BY <3>1, <3>2, <3>3 DEF ByUrl
  <2> QED  BY <2>1, <2>2, <2>3, <2>4, <2>5 DEF PicksWhatWasAsked
<1>3. CASE Settle
  <2>1. /\ stage = "settle" /\ stage' = "tiles" /\ pass' = 2 /\ late' = ~painted
        /\ UNCHANGED <<request, vendor, calendar, picked, pickedAt, found>>
    BY <1>3 DEF Settle, Goes
  <2>2. CalendarTypeOK'
    BY <2>1 DEF CalendarTypeOK, Active
  <2>3. Navigates' /\ WaitsForPaint'
    BY <2>1 DEF Navigates, WaitsForPaint, CalendarTypeOK
  <2>4. ~EastOfUtc => PicksWhatWasAsked' /\ FindsWhatIsOffered'
    BY <2>1 DEF PicksWhatWasAsked, FindsWhatIsOffered
  <2> QED  BY <2>2, <2>3, <2>4
<1> QED  BY <1>1, <1>2, <1>3

LEMMA CalendarStuttering ==
  ASSUME CalendarInv, UNCHANGED calendarVars
  PROVE  CalendarInv'
<1>1. UNCHANGED <<request, vendor, calendar, pass, stage, outcome>>
  BY DEF calendarVars
<1>2. CalendarTypeOK' /\ Navigates' /\ WaitsForPaint'
  BY <1>1
     DEF CalendarInv, request, vendor, calendar, outcome, CalendarTypeOK,
         Navigates, WaitsForPaint, NoneInMonth
<1> QED  BY <1>1, <1>2, OutcomeStays DEF CalendarInv

LEMMA CalendarInvariant == CalendarSpec => []CalendarInv
<1>1. CalendarInit => CalendarInv
  BY BlankPage
<1>2. CalendarInv /\ [CalendarNext]_calendarVars => CalendarInv'
  BY BeginKeepsInv, ClosePageKeepsInv, PageAndFailureKeepInv,
     NavigationKeepsInv, DayKeepsInv, TimesKeepInv, DatesKeepInv, ListKeepsInv,
     CalendarStuttering
     DEF CalendarNext, CalendarStep
<1> QED  BY <1>1, <1>2, PTL DEF CalendarSpec

\* Every variable of the calendar keeps its type.
THEOREM CalendarTypeCorrect == CalendarSpec => []CalendarTypeOK
BY CalendarInvariant, PTL DEF CalendarInv

\* Outside the time zones east of UTC the day and the time that are clicked are the
\* ones asked for, under the conditions that PicksWhatWasAsked names: on a calendar
\* of any size and with any bound on the clicks.
THEOREM ClicksWhatWasAsked ==
  ASSUME ~EastOfUtc
  PROVE  CalendarSpec => []PicksWhatWasAsked
<1>1. CalendarInv => PicksWhatWasAsked
  BY DEF CalendarInv
<1> QED  BY <1>1, CalendarInvariant, PTL

\* There, too, every date and every time that a read reports is offered.
THEOREM ReportsAreOffers ==
  ASSUME ~EastOfUtc
  PROVE  CalendarSpec => []ReportsWhatIsOffered
<1>1. CalendarInv => ReportsWhatIsOffered
  BY DEF CalendarInv, FindsWhatIsOffered, ReportsWhatIsOffered
<1> QED  BY <1>1, CalendarInvariant, PTL

\* Wherever the browser is, a read of dates by URL that did not stop waiting and
\* reports none is right.
THEOREM NoneMeansNone == CalendarSpec => []EmptyMeansNone
<1>1. CalendarInv => EmptyMeansNone
  BY DEF CalendarInv, WaitsForPaint, NoneInMonth, EmptyMeansNone
<1> QED  BY <1>1, CalendarInvariant, PTL

-----------------------------------------------------------------------------
(* Every program on the calendar gets on.                                  *)

\* How far it is to the end along the awaits, which a settle wait goes back over.
Ahead ==
  CASE stage = "load" -> 8 [] stage = "nav" -> 7 [] stage = "day" -> 6
    [] stage = "tiles" -> 5 [] stage = "list" -> 4 [] stage = "settle" -> 3
    [] stage = "times" -> 2 [] OTHER -> 0

ClicksLeft == IF clicks < ClickBound THEN ClickBound - clicks ELSE 0

\* A bound on the steps that a program still takes.
StepsLeft ==
  IF stage \in Active
    THEN 10 * (2 - pass) + Ahead + ClicksLeft + (MoreClicks - more) + 1 ELSE 0

\* The settle wait is for the first pass.
SettlesOnce == stage = "settle" => pass = 1

LEMMA SettlesOnceStep ==
  ASSUME CalendarTypeOK, SettlesOnce, [CalendarNext]_calendarVars
  PROVE  SettlesOnce'
<1> USE DEF SettlesOnce, Goes, AfterNavigation, calendar
<1>1. CASE Begin \/ ClosePage \/ Paint \/ StepFails
  BY <1>1 DEF Begin, ClosePage, Paint, StepFails
<1>2. CASE LoadPage \/ ArriveAtMonth \/ ClickTowards \/ UseUpClicks \/ StopShort
  <2>1. surface \in {"calendar", "list", "interstitial"}
    BY DEF CalendarTypeOK
  <2> QED
    BY <1>2, <2>1
       DEF LoadPage, ArriveAtMonth, ClickTowards, UseUpClicks, StopShort
<1>3. CASE ClickDay \/ NoSuchDay \/ ClickTime \/ NoSuchTime \/ ReadTimes
  BY <1>3 DEF ClickDay, NoSuchDay, ClickTime, NoSuchTime, ReadTimes
<1>4. CASE ScanMonth \/ ReadTiles \/ ShowMore \/ ReadList \/ Settle
  BY <1>4 DEF ScanMonth, AdvanceMonth, ReadTiles, ShowMore, ReadList, Settle
<1>5. CASE UNCHANGED calendarVars
  BY <1>5 DEF calendarVars
<1> QED  BY <1>1, <1>2, <1>3, <1>4, <1>5 DEF CalendarNext, CalendarStep

LEMMA StepsLeftType ==
  ASSUME CalendarTypeOK
  PROVE  /\ ClickBound \in Nat /\ clicks \in Nat /\ ClicksLeft \in Nat
         /\ MoreClicks - more \in Nat /\ MoreClicks \in Nat
         /\ more \in Nat /\ more <= MoreClicks
         /\ 2 - pass \in Nat /\ Ahead \in 0..8 /\ StepsLeft \in Nat
<1>1. ClickBound \in Nat /\ clicks \in Nat /\ MoreClicks \in Nat
  BY CalendarAssumption DEF CalendarTypeOK, ClickBound
<1>2. more \in Nat /\ more <= MoreClicks /\ pass \in {1, 2}
  BY <1>1 DEF CalendarTypeOK
<1>3. ClicksLeft \in Nat
  BY <1>1 DEF ClicksLeft
<1>4. Ahead \in 0..8
  BY DEF Ahead
<1>5. MoreClicks - more \in Nat /\ 2 - pass \in Nat
  BY <1>1, <1>2
<1>6. StepsLeft \in Nat
  BY <1>3, <1>4, <1>5 DEF StepsLeft
<1> QED  BY <1>1, <1>2, <1>3, <1>4, <1>5, <1>6

\* A step on the page that leaves the clicks and the pass alone leads on.
LEMMA LeadsOn ==
  ASSUME CalendarTypeOK, stage \in Active,
         UNCHANGED <<task, clicks, more, pass>>,
         stage' \in Active => Ahead' < Ahead
  PROVE  StepsLeft' < StepsLeft
<1>1. ClicksLeft' = ClicksLeft
  BY DEF ClicksLeft, ClickBound
<1>2. Ahead' \in 0..8
  BY DEF Ahead
<1> QED  BY <1>1, <1>2, StepsLeftType DEF StepsLeft

LEMMA StepTakesOne ==
  ASSUME CalendarTypeOK, SettlesOnce, CalendarStep \/ StepFails
  PROVE  StepsLeft' < StepsLeft
<1> USE DEF Goes, AfterNavigation, request, calendar
<1>1. CASE LoadPage \/ ArriveAtMonth \/ UseUpClicks \/ StopShort
  <2>1. stage \in Active /\ UNCHANGED <<task, clicks, more, pass>>
    BY <1>1
       DEF LoadPage, ArriveAtMonth, UseUpClicks, ClicksUsedUp, StopShort, Active
  <2>2. Ahead' < Ahead
    BY <1>1
       DEF LoadPage, ArriveAtMonth, UseUpClicks, ClicksUsedUp, StopShort, Ahead,
           CalendarTypeOK
  <2> QED  BY <2>1, <2>2, LeadsOn
<1>2. CASE ClickTowards
  <2>1. /\ stage \in Active /\ clicks < ClickBound /\ clicks' = clicks + 1
        /\ UNCHANGED <<task, more, pass, stage>>
    BY <1>2 DEF ClickTowards, Active
  <2>2. Ahead' = Ahead /\ ClickBound' = ClickBound
    BY <2>1 DEF Ahead, ClickBound
  <2>3. ClicksLeft' = ClicksLeft - 1
    BY <2>1, <2>2, StepsLeftType DEF ClicksLeft
  <2> QED  BY <2>1, <2>2, <2>3, StepsLeftType DEF StepsLeft
<1>3. CASE ClickDay \/ NoSuchDay \/ ClickTime \/ NoSuchTime \/ ReadTimes
  <2>1. stage \in Active /\ UNCHANGED <<task, clicks, more, pass>>
    BY <1>3 DEF ClickDay, NoSuchDay, ClickTime, NoSuchTime, ReadTimes, Active
  <2>2. Ahead' < Ahead
    BY <1>3 DEF ClickDay, NoSuchDay, ClickTime, NoSuchTime, ReadTimes, Ahead
  <2> QED  BY <2>1, <2>2, LeadsOn
<1>4. CASE ScanMonth
  <2>1. /\ stage \in Active /\ stage = "tiles"
        /\ UNCHANGED <<task, clicks, more>>
    BY <1>4 DEF ScanMonth, Active
  <2>2. CASE pass = 1 /\ AdvanceMonth
    <3>1. pass' = 2 /\ UNCHANGED stage
      BY <2>2 DEF AdvanceMonth
    <3>2. Ahead' = Ahead /\ ClicksLeft' = ClicksLeft
      BY <2>1, <3>1 DEF Ahead, ClicksLeft, ClickBound
    <3> QED  BY <2>1, <2>2, <3>1, <3>2, StepsLeftType DEF StepsLeft
  <2>3. CASE stage' = "done" /\ UNCHANGED pass
    BY <2>1, <2>3, LeadsOn DEF Active
  <2> QED  BY <1>4, <2>2, <2>3 DEF ScanMonth
<1>5. CASE ReadTiles \/ ReadList
  <2>1. stage \in Active /\ UNCHANGED <<task, clicks, more, pass>>
    BY <1>5 DEF ReadTiles, ReadList, Active
  <2>2. Ahead' < Ahead
    BY <1>5 DEF ReadTiles, ReadList, Ahead
  <2> QED  BY <2>1, <2>2, LeadsOn
<1>6. CASE ShowMore
  <2>1. /\ stage \in Active /\ more < MoreClicks /\ more' = more + 1
        /\ UNCHANGED <<task, clicks, pass, stage>>
    BY <1>6 DEF ShowMore, Active
  <2>2. Ahead' = Ahead /\ ClicksLeft' = ClicksLeft
    BY <2>1 DEF Ahead, ClicksLeft, ClickBound
  <2> QED  BY <2>1, <2>2, StepsLeftType DEF StepsLeft
<1>7. CASE Settle
  <2>1. /\ stage = "settle" /\ stage \in Active /\ pass = 1 /\ pass' = 2
        /\ stage' = "tiles" /\ stage' \in Active
        /\ UNCHANGED <<task, clicks, more>>
    BY <1>7 DEF Settle, SettlesOnce, Active
  <2>2. Ahead = 3 /\ Ahead' = 5 /\ ClicksLeft' = ClicksLeft
    BY <2>1 DEF Ahead, ClicksLeft, ClickBound
  <2> QED  BY <2>1, <2>2, StepsLeftType DEF StepsLeft
<1>8. CASE StepFails
  <2>1. /\ stage \in Active /\ stage' \notin Active
        /\ UNCHANGED <<task, clicks, more, pass>>
    BY <1>8 DEF StepFails, Active
  <2> QED  BY <2>1, LeadsOn
<1> QED
  BY <1>1, <1>2, <1>3, <1>4, <1>5, <1>6, <1>7, <1>8 DEF CalendarStep

\* Each of the five programs takes a bounded number of steps, on any calendar and
\* whatever the vendor paints meanwhile: its clicks, its passes and its clicks on
\* "More times" are counted, and a settle wait is not repeated.  This is
\* CalendarReadsEnd without its fairness (navigateCalendar, navigateToMonth,
\* readDatesViaUrl, readSlotsViaUrl).
THEOREM CalendarReadsGetOn ==
  CalendarSpec =>
    /\ [](StepsLeft \in Nat)
    /\ [][/\ CalendarStep \/ StepFails => StepsLeft' < StepsLeft
          /\ Paint => StepsLeft' = StepsLeft]_calendarVars
<1>1. CalendarInit => SettlesOnce
  BY DEF CalendarInit, SettlesOnce
<1>2. CalendarTypeOK /\ SettlesOnce /\ [CalendarNext]_calendarVars => SettlesOnce'
  BY SettlesOnceStep
<1>3. CalendarTypeOK => StepsLeft \in Nat
  BY StepsLeftType
<1>4. Paint => StepsLeft' = StepsLeft
  BY DEF Paint, request, StepsLeft, Ahead, ClicksLeft, ClickBound
<1>5. CalendarTypeOK /\ SettlesOnce /\ [CalendarNext]_calendarVars
        => [/\ CalendarStep \/ StepFails => StepsLeft' < StepsLeft
            /\ Paint => StepsLeft' = StepsLeft]_calendarVars
  BY <1>4, StepTakesOne
<1> QED
  BY <1>1, <1>2, <1>3, <1>5, CalendarTypeCorrect, PTL DEF CalendarSpec

-----------------------------------------------------------------------------
(* The catalog of services.                                                *)

\* The awaits of getCached, which only a catalog with Redis comes to.
InCache == {"get", "lock", "winner", "set", "unlock", "poll", "degraded"}

\* A list was read at most a tick before.
ReadBefore(list, time) == list # NoList => list <= time /\ time <= list + 1

\* A list that is kept was put there within a tick of being read.  The buffers of a
\* catalog with Redis are the exception, and nobody reads them there.
KeptWhenRead(kept) == ReadBefore(kept.list, kept.at) /\ kept.at <= clock

ListsAreRecent ==
  /\ \A l \in Loaders : ReadBefore(got[l], clock)
  /\ KeptWhenRead(l2)
  /\ tier = "l1" => \A p \in Pods : KeptWhenRead(buffer[p])
  /\ \A c \in Clients : call[c] \in InCache => tier = "l2"

CatalogInv == CatalogTypeOK /\ ListsAreRecent /\ CatalogServes

LEMMA PodsAreLoaders ==
  /\ \A c \in Clients : c \in Loaders /\ PodOf[c] \in Pods /\ PodOf[c] \in Loaders
  /\ \A c \in Clients, d \in Clients : PodOf[c] # d
  /\ \A p \in Pods : p \in Loaders
  /\ NoList \notin Times /\ \A t \in Times : t \in Nat
BY CatalogAssumption DEF Loaders, NoList, Times

LEMMA CatalogInitInv == CatalogInit => CatalogInv
<1> SUFFICES ASSUME CatalogInit PROVE CatalogInv
  OBVIOUS
<1>1. 0 \in Times /\ Nothing \in Kept
  BY CatalogAssumption DEF Times, Kept, Nothing
<1>2. CatalogTypeOK
  BY <1>1 DEF CatalogInit, CatalogTypeOK, Calls, Nobody
<1>3. ListsAreRecent
  BY DEF CatalogInit, ListsAreRecent, KeptWhenRead, ReadBefore, Nothing, InCache
<1>4. CatalogServes
  BY CatalogAssumption
     DEF CatalogInit, CatalogServes, HandsOutRecent, NobodyWaitsInVain
<1> QED  BY <1>2, <1>3, <1>4 DEF CatalogInv

\* Where lists that are no older than the time to live are handed out, the answers
\* keep their types and their ages.
LEMMA AnswersAreRecent ==
  ASSUME CatalogInv, NEW C \in SUBSET Clients,
         NEW list \in Times \cup {NoList},
         list # NoList => list <= clock /\ clock - list <= CatalogTtl,
         Answers(C, list)
  PROVE  /\ age' \in [Clients -> Times] /\ HandsOutRecent'
         /\ call' \in [Clients -> Calls]
         /\ \A c \in Clients : call'[c] = IF c \in C THEN "answered" ELSE call[c]
<1> USE DEF CatalogInv
<1>1. list # NoList => clock - list \in Times
  BY CatalogAssumption DEF CatalogTypeOK, Times
<1>2. age' \in [Clients -> Times]
  BY <1>1 DEF Answers, CatalogTypeOK
<1>3. HandsOutRecent'
  BY <1>1 DEF Answers, CatalogServes, HandsOutRecent
<1>4. call' \in [Clients -> Calls]
  BY DEF Answers, CatalogTypeOK, Calls
<1> QED  BY <1>2, <1>3, <1>4 DEF Answers

LEMMA BufferedWhenRead ==
  ASSUME CatalogInv, NEW p \in Pods, NEW list \in Times \cup {NoList},
         Buffers(p, list), UNCHANGED <<tier, clock>>
  PROVE  /\ buffer' \in [Pods -> Kept]
         /\ (tier = "l1" /\ ReadBefore(list, clock)) =>
              (\A q \in Pods : KeptWhenRead(buffer[q]))'
<1> USE DEF CatalogInv
<1>1. Stored(list) \in Kept
  BY DEF Stored, Kept, CatalogTypeOK
<1>2. buffer' \in [Pods -> Kept]
  BY <1>1 DEF Buffers, CatalogTypeOK
<1>3. ASSUME tier = "l1", ReadBefore(list, clock), NEW q \in Pods
      PROVE  KeptWhenRead(buffer[q])'
  <2>1. CASE q = p
    <3>1. buffer'[q] = [list |-> list, at |-> clock] /\ clock' = clock
      BY <2>1 DEF Buffers, Stored, CatalogTypeOK
    <3>2. clock \in Nat
      BY PodsAreLoaders DEF CatalogTypeOK
    <3> QED  BY <1>3, <3>1, <3>2 DEF KeptWhenRead
  <2>2. CASE q # p
    <3>1. buffer'[q] = buffer[q] /\ clock' = clock
      BY <2>2 DEF Buffers, CatalogTypeOK
    <3>2. KeptWhenRead(buffer[q])
      BY <1>3 DEF ListsAreRecent
    <3> QED  BY <3>1, <3>2 DEF KeptWhenRead
  <2> QED  BY <2>1, <2>2
<1> QED  BY <1>2, <1>3

LEMMA CallKeepsInv ==
  ASSUME CatalogInv, NEW c \in Clients, CallServices(c)
  PROVE  CatalogInv'
<1> USE DEF CatalogInv
<1> DEFINE p == PodOf[c]
<1>1. /\ call[c] = "idle"
      /\ UNCHANGED <<tier, clock, buffer, got, l2, fillLock>>
  BY DEF CallServices
<1>2. p \in Pods /\ p \in Loaders
  BY PodsAreLoaders
<1>3. tier \in {"static", "l1", "l2"}
  BY DEF CatalogTypeOK
<1>4. CASE tier = "static" \/ (tier = "l1" /\ FreshIn(buffer[p]))
  <2> DEFINE list == IF tier = "static" THEN NoList ELSE buffer[p].list
  <2>1. Answers({c}, list) /\ UNCHANGED source
    BY <1>4 DEF CallServices
  <2>2. list \in Times \cup {NoList}
    <3>1. buffer[p] \in Kept
      BY <1>2 DEF CatalogTypeOK
    <3> QED  BY <3>1 DEF Kept
  <2>3. list # NoList => list <= clock /\ clock - list <= CatalogTtl
    <3> SUFFICES ASSUME list # NoList
                 PROVE  list <= clock /\ clock - list <= CatalogTtl
      OBVIOUS
    <3>1. tier = "l1" /\ FreshIn(buffer[p])
      BY <1>4
    <3>2. list <= buffer[p].at /\ buffer[p].at <= list + 1 /\ buffer[p].at <= clock
      BY <1>2, <3>1 DEF ListsAreRecent, KeptWhenRead, ReadBefore
    <3>3. clock - buffer[p].at < CatalogTtl
      BY <3>1 DEF FreshIn
    <3>4. /\ clock \in Nat /\ list \in Nat /\ CatalogTtl \in Nat
          /\ buffer[p].at \in Nat
      BY <1>2, <2>2, PodsAreLoaders, CatalogAssumption DEF CatalogTypeOK, Kept
    <3> QED  BY <3>2, <3>3, <3>4
  <2> HIDE DEF list
  <2>4. /\ age' \in [Clients -> Times] /\ HandsOutRecent'
        /\ call' \in [Clients -> Calls]
        /\ \A d \in Clients : call'[d] = IF d \in {c} THEN "answered" ELSE call[d]
    BY <2>1, <2>2, <2>3, AnswersAreRecent
  <2>5. CatalogTypeOK'
    BY <1>1, <2>1, <2>4 DEF CatalogTypeOK
  <2>6. ListsAreRecent'
    BY <1>1, <2>4 DEF ListsAreRecent, KeptWhenRead, InCache
  <2>7. NobodyWaitsInVain'
    BY <2>1, <2>4 DEF CatalogServes, NobodyWaitsInVain
  <2> QED  BY <2>4, <2>5, <2>6, <2>7 DEF CatalogServes
<1>5. CASE tier = "l2"
  <2>1. At(c, "get") /\ UNCHANGED age /\ UNCHANGED source
    BY <1>5 DEF CallServices, NoAnswer
  <2>2. CatalogTypeOK'
    BY <1>1, <2>1 DEF At, CatalogTypeOK, Calls
  <2>3. ListsAreRecent'
    BY <1>1, <1>5, <2>1 DEF ListsAreRecent, KeptWhenRead
  <2>4. CatalogServes'
    BY <2>1
       DEF At, CatalogServes, HandsOutRecent, NobodyWaitsInVain, CatalogTypeOK
  <2> QED  BY <2>2, <2>3, <2>4
<1>6. CASE tier = "l1" /\ ~FreshIn(buffer[p])
  <2>1. /\ At(c, "shared_load") /\ UNCHANGED age
        /\ IF source[p] = "none" THEN Load(p) ELSE UNCHANGED source
    BY <1>6 DEF CallServices, NoAnswer
  <2>2. CatalogTypeOK'
    BY <1>1, <1>2, <2>1 DEF At, Load, CatalogTypeOK, Calls
  <2>3. ListsAreRecent'
    BY <1>1, <2>1 DEF At, ListsAreRecent, KeptWhenRead, InCache, CatalogTypeOK
  <2>4. \A l \in Loaders : source[l] # "none" => source'[l] # "none"
    BY <2>1 DEF Load, CatalogTypeOK
  <2>5. source'[p] # "none"
    BY <1>2, <2>1 DEF Load, CatalogTypeOK
  <2>6. CatalogServes'
    BY <2>1, <2>4, <2>5, PodsAreLoaders
       DEF At, CatalogServes, HandsOutRecent, NobodyWaitsInVain, CatalogTypeOK
  <2> QED  BY <2>2, <2>3, <2>6
<1> QED  BY <1>3, <1>4, <1>5, <1>6

\* An await that neither answers nor unloads, and stays on the way through Redis.
LEMMA GoesOnKeepsInv ==
  ASSUME CatalogInv, NEW c \in Clients, NEW place \in Calls \ {"shared_load"},
         At(c, place), UNCHANGED <<tier, clock, buffer, got, l2, age>>,
         place \in InCache => tier = "l2",
         fillLock' \in {fillLock, c, Nobody}, Load(c) \/ UNCHANGED source
  PROVE  CatalogInv'
<1> USE DEF CatalogInv
<1>1. source' \in [Loaders -> {"none", "business", "scraper", "loaded"}]
  BY DEF Load, CatalogTypeOK
<1>2. CatalogTypeOK'
  BY <1>1 DEF At, CatalogTypeOK
<1>3. ListsAreRecent'
  BY DEF At, ListsAreRecent, KeptWhenRead, CatalogTypeOK
<1>4. \A d \in Clients : source'[PodOf[d]] = source[PodOf[d]]
  BY PodsAreLoaders DEF Load, CatalogTypeOK
<1>5. CatalogServes'
  BY <1>4 DEF At, CatalogServes, HandsOutRecent, NobodyWaitsInVain, CatalogTypeOK
<1> QED  BY <1>2, <1>3, <1>5

LEMMA EndCallKeepsInv ==
  ASSUME CatalogInv, NEW c \in Clients, EndCall(c)
  PROVE  CatalogInv'
<1> USE DEF CatalogInv
<1>1. /\ At(c, "idle") /\ age' = [age EXCEPT ![c] = 0]
      /\ UNCHANGED <<tier, clock, buffer, source, got, l2, fillLock>>
  BY DEF EndCall
<1>2. 0 \in Times /\ 0 <= CatalogTtl
  BY CatalogAssumption DEF Times
<1>3. CatalogTypeOK'
  BY <1>1, <1>2 DEF At, CatalogTypeOK, Calls
<1>4. ListsAreRecent'
  BY <1>1 DEF At, ListsAreRecent, KeptWhenRead, InCache, CatalogTypeOK
<1>5. CatalogServes'
  BY <1>1, <1>2
     DEF At, CatalogServes, HandsOutRecent, NobodyWaitsInVain, CatalogTypeOK
<1> QED  BY <1>3, <1>4, <1>5

\* A list comes, or the next source is tried.
LEMMA LoadKeepsInv ==
  ASSUME CatalogInv, NEW l \in Loaders, LoadBusiness(l) \/ LoadScraper(l)
  PROVE  CatalogInv'
<1> USE DEF CatalogInv
<1>1. /\ \E s \in {"scraper", "loaded"} : source' = [source EXCEPT ![l] = s]
      /\ got' = [got EXCEPT ![l] = clock] \/ UNCHANGED got
      /\ UNCHANGED <<tier, clock, buffer, l2, fillLock, call, age>>
  BY DEF LoadBusiness, LoadScraper
<1>2. CatalogTypeOK'
  BY <1>1 DEF CatalogTypeOK
<1>3. ListsAreRecent'
  <2>1. ReadBefore(clock, clock)
    BY PodsAreLoaders DEF ReadBefore, CatalogTypeOK
  <2>2. \A k \in Loaders : ReadBefore(got'[k], clock)
    BY <1>1, <2>1 DEF ListsAreRecent, CatalogTypeOK
  <2> QED  BY <1>1, <2>2 DEF ListsAreRecent, KeptWhenRead
<1>4. \A k \in Loaders : source[k] # "none" => source'[k] # "none"
  BY <1>1 DEF CatalogTypeOK
<1>5. CatalogServes'
  BY <1>1, <1>4, PodsAreLoaders
     DEF CatalogServes, HandsOutRecent, NobodyWaitsInVain
<1> QED  BY <1>2, <1>3, <1>5

\* A load that is forgotten leaves the others as they are.
LEMMA Unloads ==
  ASSUME CatalogInv, NEW l \in Loaders, Unload(l), clock' = clock
  PROVE  /\ source' \in [Loaders -> {"none", "business", "scraper", "loaded"}]
         /\ got' \in [Loaders -> Times \cup {NoList}]
         /\ \A k \in Loaders : ReadBefore(got'[k], clock')
         /\ \A k \in Loaders : k # l => source'[k] = source[k]
BY DEF CatalogInv, Unload, CatalogTypeOK, ListsAreRecent, ReadBefore

LEMMA LoadFailsKeepsInv ==
  ASSUME CatalogInv, NEW l \in Loaders, LoadFails(l)
  PROVE  CatalogInv'
<1> USE DEF CatalogInv
<1>1. /\ Unload(l) /\ UNCHANGED <<tier, clock, buffer, l2, fillLock, age>>
      /\ call' = [c \in Clients |->
           CASE call[c] = "shared_load" /\ PodOf[c] = l -> "failed"
             [] c = l -> IF call[c] = "winner" THEN "unlock" ELSE "failed"
             [] OTHER -> call[c]]
  BY DEF LoadFails, NoAnswer
<1>2. \A c \in Clients : ~(PodOf[c] = l /\ c = l)
  BY PodsAreLoaders
<1>3. ASSUME NEW c \in Clients
      PROVE  /\ call'[c] \in Calls
             /\ call'[c] = "shared_load" => call[c] = "shared_load" /\ PodOf[c] # l
             /\ call'[c] \in InCache => call[c] \in InCache
  <2>1. CASE call[c] = "shared_load" /\ PodOf[c] = l
    <3>1. c # l
      BY <1>2, <2>1
    <3>2. call'[c] = "failed"
      BY <1>1, <2>1, <3>1
    <3> QED  BY <3>2 DEF Calls, InCache
  <2>2. CASE ~(call[c] = "shared_load" /\ PodOf[c] = l) /\ c = l
    <3>1. call'[c] = IF call[c] = "winner" THEN "unlock" ELSE "failed"
      BY <1>1, <2>2
    <3> QED  BY <3>1 DEF Calls, InCache
  <2>3. CASE ~(call[c] = "shared_load" /\ PodOf[c] = l) /\ c # l
    <3>1. call'[c] = call[c]
      BY <1>1, <2>3
    <3> QED  BY <2>3, <3>1 DEF CatalogTypeOK
  <2> QED  BY <2>1, <2>2, <2>3
<1>4. call' \in [Clients -> Calls]
  BY <1>1, <1>3
<1>5. CatalogTypeOK'
  BY <1>1, <1>4, Unloads DEF CatalogTypeOK
<1>6. ListsAreRecent'
  BY <1>1, <1>3, Unloads DEF ListsAreRecent, KeptWhenRead
<1>7. CatalogServes'
  BY <1>1, <1>3, Unloads, PodsAreLoaders
     DEF CatalogServes, HandsOutRecent, NobodyWaitsInVain
<1> QED  BY <1>5, <1>6, <1>7

LEMMA FinishKeepsInv ==
  ASSUME CatalogInv, NEW p \in Pods, FinishShared(p)
  PROVE  CatalogInv'
<1> USE DEF CatalogInv
<1> DEFINE C == {c \in Clients : call[c] = "shared_load" /\ PodOf[c] = p}
<1>1. /\ Buffers(p, got[p]) /\ Unload(p) /\ Answers(C, got[p])
      /\ UNCHANGED <<tier, clock, l2, fillLock>>
  BY DEF FinishShared
<1>2. p \in Loaders /\ got[p] \in Times \cup {NoList} /\ ReadBefore(got[p], clock)
  BY PodsAreLoaders DEF CatalogTypeOK, ListsAreRecent
<1>3. got[p] # NoList => got[p] <= clock /\ clock - got[p] <= CatalogTtl
  <2>1. clock \in Nat /\ CatalogTtl \in Nat \ {0} /\ \A t \in Times : t \in Nat
    BY PodsAreLoaders, CatalogAssumption DEF CatalogTypeOK
  <2> QED  BY <1>2, <2>1 DEF ReadBefore
<1>4. C \in SUBSET Clients
  OBVIOUS
<1>5. \A c \in Clients : call[c] = "shared_load" => c \in C \/ PodOf[c] # p
  OBVIOUS
<1> HIDE DEF C
<1>6. /\ age' \in [Clients -> Times] /\ HandsOutRecent'
      /\ call' \in [Clients -> Calls]
      /\ \A c \in Clients : call'[c] = IF c \in C THEN "answered" ELSE call[c]
  BY <1>1, <1>2, <1>3, <1>4, AnswersAreRecent
<1>7. /\ buffer' \in [Pods -> Kept]
      /\ tier = "l1" => (\A q \in Pods : KeptWhenRead(buffer[q]))'
  BY <1>1, <1>2, BufferedWhenRead
<1>8. CatalogTypeOK'
  BY <1>1, <1>2, <1>6, <1>7, Unloads DEF CatalogTypeOK
<1>9. ListsAreRecent'
  BY <1>1, <1>2, <1>6, <1>7, Unloads DEF ListsAreRecent, KeptWhenRead, InCache
<1>10. NobodyWaitsInVain'
  BY <1>1, <1>2, <1>5, <1>6, Unloads, PodsAreLoaders
     DEF CatalogServes, NobodyWaitsInVain
<1> QED  BY <1>6, <1>8, <1>9, <1>10 DEF CatalogServes

\* A call that is answered with a list read in this tick.
LEMMA AnswerKeepsInv ==
  ASSUME CatalogInv, NEW c \in Clients, Answers({c}, got[c]), Unload(c),
         Buffers(PodOf[c], got[c]), UNCHANGED <<tier, clock, l2>>,
         fillLock' \in {fillLock, Nobody}
  PROVE  CatalogInv'
<1> USE DEF CatalogInv
<1>1. c \in Loaders /\ got[c] \in Times \cup {NoList} /\ ReadBefore(got[c], clock)
  BY PodsAreLoaders DEF CatalogTypeOK, ListsAreRecent
<1>2. got[c] # NoList => got[c] <= clock /\ clock - got[c] <= CatalogTtl
  <2>1. clock \in Nat /\ CatalogTtl \in Nat \ {0} /\ \A t \in Times : t \in Nat
    BY PodsAreLoaders, CatalogAssumption DEF CatalogTypeOK
  <2> QED  BY <1>1, <2>1 DEF ReadBefore
<1>3. /\ age' \in [Clients -> Times] /\ HandsOutRecent'
      /\ call' \in [Clients -> Calls]
      /\ \A d \in Clients : call'[d] = IF d \in {c} THEN "answered" ELSE call[d]
  BY <1>1, <1>2, AnswersAreRecent
<1>4. /\ buffer' \in [Pods -> Kept]
      /\ tier = "l1" => (\A q \in Pods : KeptWhenRead(buffer[q]))'
  BY <1>1, PodsAreLoaders, BufferedWhenRead
<1>5. CatalogTypeOK'
  BY <1>1, <1>3, <1>4, Unloads DEF CatalogTypeOK
<1>6. ListsAreRecent'
  BY <1>1, <1>3, <1>4, Unloads DEF ListsAreRecent, KeptWhenRead, InCache
<1>7. NobodyWaitsInVain'
  BY <1>1, <1>3, Unloads, PodsAreLoaders DEF CatalogServes, NobodyWaitsInVain
<1> QED  BY <1>3, <1>5, <1>6, <1>7 DEF CatalogServes

LEMMA GetKeepsInv ==
  ASSUME CatalogInv, NEW c \in Clients, GetEntry(c)
  PROVE  CatalogInv'
<1> USE DEF CatalogInv
<1>1. /\ call[c] \in {"get", "poll"}
      /\ UNCHANGED <<tier, clock, source, got, l2, fillLock>>
  BY DEF GetEntry
<1>2. tier = "l2"
  BY <1>1 DEF ListsAreRecent, InCache
<1>3. CASE FreshIn(l2)
  <2>1. Answers({c}, l2.list) /\ Buffers(PodOf[c], l2.list)
    BY <1>3 DEF GetEntry
  <2>2. l2.list \in Times
    BY <1>3 DEF FreshIn, CatalogTypeOK, Kept
  <2>3. l2.list <= clock /\ clock - l2.list <= CatalogTtl
    <3>1. /\ l2.list <= l2.at /\ l2.at <= l2.list + 1 /\ l2.at <= clock
          /\ clock - l2.at < CatalogTtl
      BY <1>3 DEF FreshIn, ListsAreRecent, KeptWhenRead, ReadBefore
    <3>2. /\ clock \in Nat /\ l2.list \in Nat /\ CatalogTtl \in Nat
          /\ l2.at \in Nat
      BY <2>2, PodsAreLoaders, CatalogAssumption DEF CatalogTypeOK, Kept
    <3> QED  BY <3>1, <3>2
  <2>4. /\ age' \in [Clients -> Times] /\ HandsOutRecent'
        /\ call' \in [Clients -> Calls]
        /\ \A d \in Clients : call'[d] = IF d \in {c} THEN "answered" ELSE call[d]
    BY <2>1, <2>2, <2>3, AnswersAreRecent
  <2>5. buffer' \in [Pods -> Kept]
    BY <1>1, <2>1, <2>2, PodsAreLoaders, BufferedWhenRead
  <2>6. CatalogTypeOK'
    BY <1>1, <2>4, <2>5 DEF CatalogTypeOK
  <2>7. ListsAreRecent'
    BY <1>1, <1>2, <2>4 DEF ListsAreRecent, KeptWhenRead
  <2>8. NobodyWaitsInVain'
    BY <1>1, <2>4 DEF CatalogServes, NobodyWaitsInVain
  <2> QED  BY <2>4, <2>6, <2>7, <2>8 DEF CatalogServes
<1>4. CASE ~FreshIn(l2)
  <2>1. At(c, "lock") /\ UNCHANGED <<age, buffer>>
    BY <1>4 DEF GetEntry, NoAnswer
  <2> QED  BY <1>1, <1>2, <2>1, GoesOnKeepsInv DEF Calls
<1> QED  BY <1>3, <1>4

LEMMA LockKeepsInv ==
  ASSUME CatalogInv, NEW c \in Clients, TakeFillLock(c) \/ PollTimeout(c)
  PROVE  CatalogInv'
<1>1. tier = "l2"
  BY DEF CatalogInv, ListsAreRecent, InCache, TakeFillLock, PollTimeout
<1>2. CASE TakeFillLock(c)
  <2>1. /\ \/ At(c, "winner") /\ Load(c)
           \/ At(c, "poll") /\ UNCHANGED source
        /\ fillLock' \in {fillLock, c, Nobody}
        /\ UNCHANGED <<tier, clock, buffer, got, l2, age>>
    BY <1>2 DEF TakeFillLock, NoAnswer
  <2>2. {"winner", "poll"} \subseteq Calls \ {"shared_load"}
    BY DEF Calls
  <2> QED  BY <1>1, <2>1, <2>2, GoesOnKeepsInv
<1>3. CASE PollTimeout(c)
  <2>1. /\ At(c, "degraded") /\ Load(c)
        /\ UNCHANGED <<tier, clock, buffer, got, l2, age, fillLock>>
    BY <1>3 DEF PollTimeout, NoAnswer
  <2>2. "degraded" \in Calls \ {"shared_load"}
    BY DEF Calls
  <2> QED  BY <1>1, <2>1, <2>2, GoesOnKeepsInv
<1> QED  BY <1>2, <1>3

LEMMA LoadedKeepsInv ==
  ASSUME CatalogInv, NEW c \in Clients, Loaded(c)
  PROVE  CatalogInv'
<1> USE DEF CatalogInv
<1>1. CASE call[c] = "winner"
  <2>1. /\ At(c, "set") /\ Buffers(PodOf[c], got[c])
        /\ UNCHANGED <<tier, clock, source, got, l2, fillLock, age>>
    BY <1>1 DEF Loaded, NoAnswer
  <2>2. got[c] \in Times \cup {NoList} /\ tier = "l2"
    BY <1>1, PodsAreLoaders DEF CatalogTypeOK, ListsAreRecent, InCache
  <2>3. buffer' \in [Pods -> Kept]
    BY <2>1, <2>2, PodsAreLoaders, BufferedWhenRead
  <2>4. CatalogTypeOK'
    BY <2>1, <2>3 DEF At, CatalogTypeOK, Calls
  <2>5. ListsAreRecent'
    BY <2>1, <2>2 DEF ListsAreRecent, KeptWhenRead
  <2>6. CatalogServes'
    BY <2>1
       DEF At, CatalogServes, HandsOutRecent, NobodyWaitsInVain, CatalogTypeOK
  <2> QED  BY <2>4, <2>5, <2>6
<1>2. CASE call[c] = "degraded"
  <2>1. /\ Answers({c}, got[c]) /\ Unload(c) /\ Buffers(PodOf[c], got[c])
        /\ UNCHANGED <<tier, clock, l2, fillLock>>
    BY <1>2 DEF Loaded
  <2> QED  BY <2>1, AnswerKeepsInv
<1> QED  BY <1>1, <1>2 DEF Loaded

\* What is put into Redis was read in this tick.
LEMMA SetKeepsInv ==
  ASSUME CatalogInv, NEW c \in Clients, SetEntry(c)
  PROVE  CatalogInv'
<1> USE DEF CatalogInv
<1>1. /\ call[c] = "set" /\ l2' = [list |-> got[c], at |-> clock] /\ At(c, "unlock")
      /\ UNCHANGED <<tier, clock, buffer, source, got, fillLock, age>>
  BY DEF SetEntry, Stored, NoAnswer
<1>2. /\ got[c] \in Times \cup {NoList} /\ ReadBefore(got[c], clock)
      /\ clock \in Times /\ clock \in Nat /\ tier = "l2"
  BY <1>1, PodsAreLoaders DEF CatalogTypeOK, ListsAreRecent, InCache
<1>3. l2' \in Kept
  BY <1>1, <1>2 DEF Kept
<1>4. CatalogTypeOK'
  BY <1>1, <1>3 DEF At, CatalogTypeOK, Calls
<1>5. ListsAreRecent'
  BY <1>1, <1>2 DEF ListsAreRecent, KeptWhenRead
<1>6. CatalogServes'
  BY <1>1
     DEF At, CatalogServes, HandsOutRecent, NobodyWaitsInVain, CatalogTypeOK
<1> QED  BY <1>4, <1>5, <1>6

\* A call that fails on its way through Redis, or goes on to release the lock.
LEMMA FailsKeepsInv ==
  ASSUME CatalogInv, NEW c \in Clients, NEW place \in {"unlock", "failed"},
         At(c, place), Unload(c), call[c] \in InCache,
         UNCHANGED <<tier, clock, buffer, l2, age>>,
         fillLock' \in {fillLock, Nobody}
  PROVE  CatalogInv'
<1> USE DEF CatalogInv
<1>1. c \in Loaders /\ tier = "l2"
  BY PodsAreLoaders DEF ListsAreRecent
<1>2. CatalogTypeOK'
  BY <1>1, Unloads DEF At, CatalogTypeOK, Calls
<1>3. ListsAreRecent'
  BY <1>1, Unloads DEF ListsAreRecent, KeptWhenRead
<1>4. CatalogServes'
  BY <1>1, Unloads, PodsAreLoaders
     DEF At, CatalogServes, HandsOutRecent, NobodyWaitsInVain, CatalogTypeOK
<1> QED  BY <1>2, <1>3, <1>4

LEMMA ReleaseAndFailureKeepInv ==
  ASSUME CatalogInv, NEW c \in Clients, ReleaseFillLock(c) \/ CommandFails(c)
  PROVE  CatalogInv'
<1>1. CASE ReleaseFillLock(c)
  <2>1. /\ fillLock' \in {fillLock, Nobody} /\ Unload(c)
        /\ UNCHANGED <<tier, clock, l2>> /\ call[c] \in InCache
    BY <1>1 DEF ReleaseFillLock, InCache
  <2>2. \/ Answers({c}, got[c]) /\ Buffers(PodOf[c], got[c])
        \/ At(c, "failed") /\ UNCHANGED <<age, buffer>>
    BY <1>1 DEF ReleaseFillLock, NoAnswer
  <2> QED  BY <2>1, <2>2, AnswerKeepsInv, FailsKeepsInv
<1>2. CASE CommandFails(c)
  <2>1. /\ Unload(c) /\ UNCHANGED <<tier, clock, buffer, l2, fillLock, age>>
        /\ call[c] \in InCache /\ (At(c, "unlock") \/ At(c, "failed"))
    BY <1>2 DEF CommandFails, NoAnswer, InCache
  <2> QED  BY <2>1, FailsKeepsInv
<1> QED  BY <1>1, <1>2

\* Time passes only where every list that was read has been stored.
LEMMA TimeKeepsInv ==
  ASSUME CatalogInv, FillLockEnds \/ CatalogTick \/ UNCHANGED catalogVars
  PROVE  CatalogInv'
<1> USE DEF CatalogInv
<1>1. CASE FillLockEnds
  BY <1>1
     DEF FillLockEnds, CatalogTypeOK, ListsAreRecent, KeptWhenRead, CatalogServes,
         HandsOutRecent, NobodyWaitsInVain
<1>2. CASE CatalogTick
  <2>1. /\ clock < LastTick /\ clock' = clock + 1
        /\ \A l \in Loaders : got[l] # NoList => got[l] = clock
        /\ UNCHANGED <<tier, buffer, source, got, l2, fillLock, call, age>>
    BY <1>2 DEF CatalogTick
  <2>2. clock' \in Times /\ clock \in Nat
    BY <2>1, CatalogAssumption, PodsAreLoaders DEF CatalogTypeOK, Times
  <2>3. CatalogTypeOK'
    BY <2>1, <2>2 DEF CatalogTypeOK
  <2>4. \A l \in Loaders : ReadBefore(got'[l], clock')
    BY <2>1, <2>2 DEF ReadBefore
  <2>5. ASSUME NEW kept \in Kept, KeptWhenRead(kept)
        PROVE  ReadBefore(kept.list, kept.at) /\ kept.at <= clock'
    <3>1. kept.at \in Nat
      BY PodsAreLoaders DEF Kept
    <3> QED  BY <2>1, <2>2, <2>5, <3>1 DEF KeptWhenRead
  <2>6. ListsAreRecent'
    <3>1. KeptWhenRead(l2)'
      BY <2>1, <2>5 DEF ListsAreRecent, KeptWhenRead, CatalogTypeOK
    <3>2. ASSUME tier = "l1", NEW p \in Pods PROVE KeptWhenRead(buffer[p])'
      <4>1. buffer[p] \in Kept /\ KeptWhenRead(buffer[p])
        BY <3>2 DEF ListsAreRecent, CatalogTypeOK
      <4> QED  BY <2>1, <2>5, <4>1 DEF KeptWhenRead
    <3> QED  BY <2>1, <2>4, <3>1, <3>2 DEF ListsAreRecent
  <2>7. CatalogServes'
    BY <2>1 DEF CatalogServes, HandsOutRecent, NobodyWaitsInVain
  <2> QED  BY <2>3, <2>6, <2>7
<1>3. CASE UNCHANGED catalogVars
  BY <1>3
     DEF catalogVars, CatalogTypeOK, ListsAreRecent, KeptWhenRead, CatalogServes,
         HandsOutRecent, NobodyWaitsInVain
<1> QED  BY <1>1, <1>2, <1>3

LEMMA CatalogInvariant == CatalogSpec => []CatalogInv
<1>1. CatalogInv /\ [CatalogNext]_catalogVars => CatalogInv'
  BY CallKeepsInv, EndCallKeepsInv, LoadKeepsInv, LoadFailsKeepsInv,
     FinishKeepsInv, GetKeepsInv, LockKeepsInv, LoadedKeepsInv, SetKeepsInv,
     ReleaseAndFailureKeepInv, TimeKeepsInv
     DEF CatalogNext
<1> QED  BY <1>1, CatalogInitInv, PTL DEF CatalogSpec

\* Every variable of the catalog keeps its type.
THEOREM CatalogTypeCorrect == CatalogSpec => []CatalogTypeOK
BY CatalogInvariant, PTL DEF CatalogInv

\* For any number of processes and calls and any time to live, a call of the catalog
\* is handed a list no older than that, and none waits for a load that is over.
THEOREM CatalogIsRecent == CatalogSpec => []CatalogServes
BY CatalogInvariant, PTL DEF CatalogInv

-----------------------------------------------------------------------------
(* The whole.                                                              *)

\* A behaviour of the whole is one of each part, which takes its steps or stands
\* still.
LEMMA ReadPathStep ==
  ReadPathInit /\ [][ReadPathNext]_<<vars, serviceVars, calendarVars, catalogVars, part>>
    => Spec /\ ServiceSpec /\ CalendarSpec /\ CatalogSpec
<1>1. ReadPathInit => Init /\ ServiceInit /\ CalendarInit /\ CatalogInit
  BY DEF ReadPathInit
<1>2. [ReadPathNext]_<<vars, serviceVars, calendarVars, catalogVars, part>>
        => /\ [Next]_vars /\ [ServiceNext]_serviceVars
           /\ [CalendarNext]_calendarVars /\ [CatalogNext]_catalogVars
  BY Zenon DEF ReadPathNext
<1> QED  BY <1>1, <1>2, PTL DEF Spec, ServiceSpec, CalendarSpec, CatalogSpec

\* The whole is well typed, a flow, a lookup, a walk and a catalog each in their
\* part of the state.
THEOREM ReadPathTypeCorrect == ReadPathSpec => []ReadPathTypeOK
<1>1. ServiceInv => ServiceTypeOK
  BY DEF ServiceInv
<1> QED
  BY <1>1, ReadPathStep, TypeCorrect, ServiceInvariant, CalendarTypeCorrect,
     CatalogTypeCorrect, PTL
     DEF ReadPathSpec, ReadPathTypeOK
=============================================================================
