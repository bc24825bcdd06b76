------------------------ MODULE HeartbeatPathProofs ------------------------
(***************************************************************************)
(* Theorems about HeartbeatPath and its parts.                             *)
(*                                                                         *)
(* SnapshotRefresh, for every choice of its times: the type invariant, and,*)
(* as long as read flows are not journalled, that stamps are honest and    *)
(* nothing expired is served.                                              *)
(*                                                                         *)
(* Heartbeat and HeartbeatOrder, for any number of candidates, polls and   *)
(* demands, any limit, weights and sizes.                                  *)
(*                                                                         *)
(* RedisJobStore, for any jobs, workers, leases and crashes: as long as a  *)
(* run ends within its lease, a claim within its lock, and one server      *)
(* requeues, claims exclude each other and the records change as those of a*)
(* store whose operations are atomic.                                      *)
(*                                                                         *)
(* In the end, that what holds of a part holds of the whole.               *)
(***************************************************************************)
EXTENDS HeartbeatPath, FiniteSetTheorems, TLAPS

-----------------------------------------------------------------------------
(* The snapshot of one service.                                            *)

\* Age of what the worker and the request hold is the time since they read it,
\* so it is bounded by RunLimit; a cache entry ages as its ttl runs out.
Honest ==
  /\ HonestStamp
  /\ Busy => wdata <= wheld
  /\ ttl > 0 => cached + ttl <= CacheTtl + RunLimit
  /\ \A j \in Job : ~Replays(j)

LEMMA Ages ==
  ASSUME NEW a \in Age
  PROVE  /\ Older(a) \in Age /\ Older(a) <= a + 1 /\ Older(a) >= a
         /\ \A b \in Age : \A n \in Nat : a <= b + n => Older(a) <= Older(b) + n
BY TimeAssumption DEF Age, Older

\* Every variable keeps its type.
THEOREM TypeCorrect == Spec => []TypeOK
<1> USE TimeAssumption DEF Age, Bucket, Job, NotRecorded, Runnable, JobStatus,
                           TypeOK
<1>1. Init => TypeOK
  BY DEF Init
<1>2. TypeOK /\ [Next]_vars => TypeOK'
  <2> SUFFICES ASSUME TypeOK, [Next]_vars
               PROVE  TypeOK'
    OBVIOUS
  <2>1. CASE Tick
    <3>1. /\ stamp' \in Age /\ data' \in Age
          /\ cached' \in Age /\ wdata' \in Age
      BY <2>1, Ages DEF Tick
    <3>2. /\ phase' \in 0..(Window - 1) /\ ttl' \in 0..CacheTtl
          /\ wheld' \in 0..RunLimit /\ rheld' \in 0..RunLimit
      BY <2>1 DEF Tick, Less, Busy
    <3>3. \A r \in Age \cup {NotRecorded} :
            OlderRow(r) \in Age \cup {NotRecorded}
      BY Ages DEF OlderRow
    <3>4. [j \in Job |-> OlderRow(recorded[j])]
            \in [Job -> Age \cup {NotRecorded}]
      BY <3>3
    <3>5. [j \in Job |-> Less(leaseLeft[j])] \in [Job -> 0..Lease]
      BY DEF Less
    <3>6. ASSUME NEW S, NEW f \in [Job -> S], NEW s \in S
          PROVE  Shift(f, s) \in [Job -> S]
      BY <3>6 DEF Shift
    <3>7. CASE phase + 1 < Window
      BY <2>1, <3>7, <3>1, <3>2, <3>4, <3>5 DEF Tick
    <3>8. CASE ~(phase + 1 < Window)
      <4>1. Shift(status, "none") \in [Job -> JobStatus]
        BY <3>6
      <4>2. Shift([j \in Job |-> Less(leaseLeft[j])], 0) \in [Job -> 0..Lease]
        <5>1. 0 \in 0..Lease
          OBVIOUS
        <5> QED BY <5>1, <3>5, <3>6
      <4>3. Shift([j \in Job |-> OlderRow(recorded[j])], NotRecorded)
              \in [Job -> Age \cup {NotRecorded}]
        BY <3>4, <3>6
      <4>4. ShiftName(wjob) \in Job /\ ShiftName(hbucket) \in Bucket
        BY DEF ShiftName
      <4> QED BY <2>1, <3>8, <3>1, <3>2, <4>1, <4>2, <4>3, <4>4 DEF Tick
    <3> QED BY <3>7, <3>8
  <2>2. CASE Request
    BY <2>2 DEF Request, ServeCached, ServeSnapshot, StartLiveRead, Enqueue,
                snapshot, cache, jobs, worker, heartbeat, request
  <2>3. CASE Respond
    BY <2>3 DEF Respond, LiveRead, RecordSnapshot,
                snapshot, cache, jobs, worker, heartbeat, request
  <2>4. CASE Heartbeat
    BY <2>4 DEF Heartbeat, CheckFreshness, EnqueueHeartbeat, Requeue, Enqueue,
                snapshot, cache, jobs, worker, heartbeat, request
  <2>5. ASSUME NEW j \in Job, ClaimRefresh(j) PROVE TypeOK'
    BY <2>5 DEF ClaimRefresh, snapshot, cache, jobs, heartbeat, request
  <2>6. CASE ReadVendor \/ ReplayJournal
    BY <2>6 DEF ReadVendor, ReplayJournal, Replays,
                snapshot, cache, jobs, heartbeat, request
  <2>7. CASE JobFails \/ WriteReadCache \/ UpsertSnapshot \/ Complete \/ Crash
    BY <2>7 DEF JobFails, WriteReadCache, UpsertSnapshot, Complete, Crash,
                snapshot, cache, jobs, heartbeat, request
  <2>8. CASE UNCHANGED vars
    BY <2>8 DEF vars, snapshot, cache, jobs, worker, heartbeat, request
  <2> QED BY <2>1, <2>2, <2>3, <2>4, <2>5, <2>6, <2>7, <2>8 DEF Next, Work
<1> QED BY <1>1, <1>2, PTL DEF Spec

-----------------------------------------------------------------------------
\* Honest is inductive as long as no read flow is journalled: a value that is
\* held or cached is no older than the time since it was read.
LEMMA HonestInductive ==
  ASSUME ~Sampled
  PROVE  Spec => []Honest
<1> USE TimeAssumption DEF Age, Honest, HonestStamp, Replays, NotRecorded
<1>1. Init => Honest
  BY DEF Init, Busy
<1>2. TypeOK /\ Honest /\ [Next]_vars => Honest'
  <2> SUFFICES ASSUME TypeOK, Honest, [Next]_vars
               PROVE  Honest'
    OBVIOUS
  <2> USE DEF TypeOK
  <2>1. CASE Tick
    <3>1. HonestStamp'
      BY <2>1, Ages DEF Tick
    <3>2. (Busy => wdata <= wheld)'
      BY <2>1, Ages DEF Tick, Busy
    <3>3. (ttl > 0 => cached + ttl <= CacheTtl + RunLimit)'
      BY <2>1, Ages DEF Tick, Less
    <3>4. (\A j \in Job : ~Replays(j))'
      BY <2>1 DEF Tick, OlderRow, Shift, Job, Bucket
    <3> QED BY <3>1, <3>2, <3>3, <3>4
  <2>2. CASE Request
    BY <2>2 DEF Request, ServeCached, ServeSnapshot, StartLiveRead, Enqueue,
                Busy, snapshot, cache, jobs, worker, heartbeat, request
  <2>3. CASE Respond
    BY <2>3 DEF Respond, LiveRead, RecordSnapshot,
                Busy, snapshot, cache, jobs, worker, heartbeat, request
  <2>4. CASE Heartbeat
    BY <2>4 DEF Heartbeat, CheckFreshness, EnqueueHeartbeat, Requeue, Enqueue,
                Busy, snapshot, cache, jobs, worker, heartbeat, request
  <2>5. ASSUME NEW j \in Job, ClaimRefresh(j) PROVE Honest'
    BY <2>5 DEF ClaimRefresh, Busy, snapshot, cache, jobs, heartbeat, request
  <2>6. CASE ReadVendor \/ ReplayJournal
    BY <2>6 DEF ReadVendor, ReplayJournal,
                Busy, snapshot, cache, jobs, heartbeat, request
  <2>7. CASE WriteReadCache
    BY <2>7 DEF WriteReadCache, Busy, snapshot, cache, jobs, heartbeat, request
  <2>8. CASE JobFails \/ UpsertSnapshot \/ Complete \/ Crash
    BY <2>8 DEF JobFails, UpsertSnapshot, Complete, Crash,
                Busy, snapshot, cache, jobs, heartbeat, request
  <2>9. CASE UNCHANGED vars
    BY <2>9 DEF vars, Busy, snapshot, cache, jobs, worker, heartbeat, request
  <2> QED BY <2>1, <2>2, <2>3, <2>4, <2>5, <2>6, <2>7, <2>8, <2>9 DEF Next, Work
<1> QED BY <1>1, <1>2, TypeCorrect, PTL DEF Spec

\* Without journalled read flows a snapshot's stamp tells the truth, give or
\* take the time between a read and its write.
THEOREM StampsAreHonest ==
  ASSUME ~Sampled
  PROVE  Spec => []HonestStamp
<1>1. Honest => HonestStamp
  BY DEF Honest
<1> QED BY <1>1, HonestInductive, PTL

\* Without journalled read flows nothing that is served, from the read cache or
\* from a snapshot, is older than a snapshot may live.
THEOREM NothingExpiredIsServed ==
  ASSUME ~Sampled
  PROVE  Spec => []ServedWithinExpiry
<1>1. TypeOK /\ Honest => ServedWithinExpiry
  BY TimeAssumption DEF TypeOK, Honest, HonestStamp, ServedWithinExpiry,
                        ServableWithin, Usable, Age
<1> QED BY <1>1, TypeCorrect, HonestInductive, PTL

-----------------------------------------------------------------------------
(* The order of the demands.                                               *)

LEMMA WeightsArePositive ==
  ASSUME OrderTypeOK, NEW g \in Groups
  PROVE  SchedulingWeight(g) \in Nat /\ SchedulingWeight(g) > 0
<1>1. weight[g] \in Int
  BY OrderAssumption DEF OrderTypeOK
<1>2. WeightCap \in Nat \ {0}
  BY OrderAssumption
<1> QED  BY <1>1, <1>2 DEF SchedulingWeight

\* The order stays well typed.
LEMMA OrderTypeStep ==
  ASSUME OrderTypeOK, [PickNext]_orderVars
  PROVE  OrderTypeOK'
<1>1. CASE PickNext
  <2>1. PICK g \in Groups : /\ Unfinished(g)
                            /\ served' = [served EXCEPT ![g] = @ + 1]
    BY <1>1 DEF PickNext
  <2>2. served[g] + 1 \in 0..MaxSize /\ served[g] + 1 <= size[g]
    BY <2>1, OrderAssumption DEF OrderTypeOK, Unfinished
  <2> QED  BY <1>1, <2>1, <2>2 DEF PickNext, OrderTypeOK
<1>2. CASE UNCHANGED orderVars
  BY <1>2 DEF orderVars, OrderTypeOK
<1> QED  BY <1>1, <1>2

\* A group that comes before another one has no larger share.
LEMMA BeforeMeansNoLargerShare ==
  ASSUME OrderTypeOK, NEW g \in Groups, NEW a \in Groups, Before(g, a)
  PROVE  served[g] * SchedulingWeight(a) <= served[a] * SchedulingWeight(g)
<1> DEFINE x == served[g] * SchedulingWeight(a)
           y == served[a] * SchedulingWeight(g)
<1>1. served[g] \in Int /\ served[a] \in Int
  BY DEF OrderTypeOK
<1>2. x \in Int /\ y \in Int
  BY <1>1, WeightsArePositive
<1>3. x < y \/ ~(y < x)
  BY DEF Before, LessShare
<1> HIDE DEF x, y
<1>4. x <= y
  BY <1>2, <1>3
<1> QED  BY <1>4 DEF x, y

LEMMA MoreOfTheSame ==
  ASSUME NEW s \in Int, NEW w \in Nat
  PROVE  s * w <= (s + 1) * w
<1>1. (s + 1) * w = s * w + w
  OBVIOUS
<1>2. s * w \in Int
  OBVIOUS
<1> QED  BY <1>1, <1>2

LEMMA FairSharesStep ==
  ASSUME OrderTypeOK, FairShares, [PickNext]_orderVars
  PROVE  FairShares'
<1>1. CASE PickNext
  <2>1. PICK g \in Groups :
          /\ Unfinished(g)
          /\ \A h \in Groups : Unfinished(h) => Before(g, h)
          /\ served' = [served EXCEPT ![g] = @ + 1]
    BY <1>1 DEF PickNext
  <2>2. UNCHANGED <<weight, size>>
    BY <1>1 DEF PickNext
  <2>3. \A h \in Groups : SchedulingWeight(h)' = SchedulingWeight(h)
    BY <2>2 DEF SchedulingWeight
  <2>4. \A h \in Groups : served'[h] = IF h = g THEN served[g] + 1 ELSE served[h]
    BY <2>1 DEF OrderTypeOK
  <2> SUFFICES ASSUME NEW a \in Groups, NEW b \in Groups, Unfinished(a)'
               PROVE  (served'[b] - 1) * SchedulingWeight(a)
                        <= served'[a] * SchedulingWeight(b)
    BY <2>3 DEF FairShares
  <2>5. Unfinished(a)
    BY <2>1, <2>2, <2>4 DEF Unfinished, OrderTypeOK
  <2>6. served[a] \in Int /\ served[b] \in Int
    BY DEF OrderTypeOK
  <2>7. SchedulingWeight(a) \in Nat /\ SchedulingWeight(b) \in Nat
    BY WeightsArePositive
  <2>8. (served[b] - 1) * SchedulingWeight(a) <= served[a] * SchedulingWeight(b)
    BY <2>5 DEF FairShares
  <2>9. CASE b = g
    <3>1. served[b] * SchedulingWeight(a) <= served[a] * SchedulingWeight(b)
      BY <2>1, <2>5, <2>9, BeforeMeansNoLargerShare
    <3>2. served'[b] - 1 = served[b]
      BY <2>4, <2>6, <2>9
    <3>3. CASE a = g
      BY <2>4, <2>6, <2>7, <2>9, <3>2, <3>3, MoreOfTheSame
    <3>4. CASE a # g
      BY <2>4, <3>1, <3>2, <3>4
    <3> QED  BY <3>3, <3>4
  <2>10. CASE b # g
    <3>1. CASE a = g
      <4>1. served[a] * SchedulingWeight(b)
              <= (served[a] + 1) * SchedulingWeight(b)
        BY <2>6, <2>7, MoreOfTheSame
      <4> QED  BY <2>4, <2>6, <2>7, <2>8, <2>10, <3>1, <4>1
    <3>2. CASE a # g
      BY <2>4, <2>8, <2>10, <3>2
    <3> QED  BY <3>1, <3>2
  <2> QED  BY <2>9, <2>10
<1>2. CASE UNCHANGED orderVars
  BY <1>2 DEF orderVars, FairShares, Unfinished, SchedulingWeight
<1> QED  BY <1>1, <1>2

\* No demand is served more candidates than it has, and the weights and sizes that
\* the snapshots were read with stay what they were
\* (orderHeartbeatCandidateGroups).
THEOREM OrderTypeCorrect == OrderSpec => []OrderTypeOK
<1>1. OrderInit => OrderTypeOK
  BY OrderAssumption DEF OrderInit, OrderTypeOK
<1>2. OrderTypeOK /\ [PickNext]_orderVars => OrderTypeOK'
  BY OrderTypeStep
<1> QED  BY <1>1, <1>2, PTL DEF OrderSpec

\* No demand is ahead of one that still has candidates by more than one of its own
\* turns: for any number of demands, any weights, sizes and cap
\* (orderHeartbeatCandidateGroups).
THEOREM DemandsAreServedFairly == OrderSpec => []FairShares
<1>1. OrderInit => OrderTypeOK
  BY OrderAssumption DEF OrderInit, OrderTypeOK
<1>2. OrderInit => FairShares
  <2> SUFFICES ASSUME OrderInit, NEW a \in Groups, NEW b \in Groups
               PROVE  (served[b] - 1) * SchedulingWeight(a)
                        <= served[a] * SchedulingWeight(b)
    BY DEF FairShares
  <2>1. served[a] = 0 /\ served[b] = 0
    BY DEF OrderInit
  <2>2. SchedulingWeight(a) \in Nat /\ SchedulingWeight(b) \in Nat
    BY <1>1, WeightsArePositive
  <2> QED  BY <2>1, <2>2
<1>3. OrderTypeOK /\ FairShares /\ [PickNext]_orderVars
        => OrderTypeOK' /\ FairShares'
  BY OrderTypeStep, FairSharesStep
<1> QED  BY <1>1, <1>2, <1>3, PTL DEF OrderSpec

-----------------------------------------------------------------------------
(* The limit of a pass.                                                    *)

Walking == {"snapshot", "enqueue", "requeue"}

\* What a pass has counted is what it has put into the queue, as far as it got.
\* With a store's clock behind the server's, it may have counted less.
PassInv ==
  /\ submitted <= Cardinality(acted)
  /\ StoreClock = "same" => submitted = Cardinality(acted)
  /\ submitted <= MaxJobs
  /\ step \in Walking => \A c \in acted : c < next
  /\ step \in {"enqueue", "requeue"} => next <= NumCandidates /\ submitted < MaxJobs
  /\ limited # {} => submitted = MaxJobs
  /\ step = "sleep" => polls < MaxPolls

HeartbeatInv == HeartbeatTypeOK /\ PassInv

LEMMA CountsAreFinite ==
  ASSUME NEW S, S \subseteq Candidates
  PROVE  /\ IsFiniteSet(S)
         /\ Cardinality(S) \in 0..NumCandidates
<1>1. NumCandidates \in Nat
  BY HeartbeatAssumption
<1>2. IsFiniteSet(Candidates) /\ Cardinality(Candidates) = NumCandidates
  BY <1>1, FS_Interval DEF Candidates
<1>3. IsFiniteSet(S) /\ Cardinality(S) <= NumCandidates
  BY <1>2, FS_Subset
<1> QED  BY <1>1, <1>3, FS_CardinalityType

\* One more candidate is counted once.
LEMMA CountOneMore ==
  ASSUME HeartbeatInv, step \in {"enqueue", "requeue"}
  PROVE  /\ next \in Candidates
         /\ acted \cup {next} \subseteq Candidates
         /\ Cardinality(acted \cup {next}) = Cardinality(acted) + 1
         /\ Cardinality(acted) + 1 \in 0..NumCandidates
<1>1. next \in Candidates /\ acted \cup {next} \subseteq Candidates
  BY HeartbeatAssumption
     DEF HeartbeatInv, HeartbeatTypeOK, PassInv, Candidates
<1>2. next \notin acted
  BY <1>1, HeartbeatAssumption
     DEF HeartbeatInv, PassInv, Walking, Candidates
<1>3. IsFiniteSet(acted)
  BY CountsAreFinite DEF HeartbeatInv, HeartbeatTypeOK
<1>4. Cardinality(acted \cup {next}) = Cardinality(acted) + 1
  BY <1>2, <1>3, FS_AddElement
<1> QED  BY <1>1, <1>4, CountsAreFinite

LEMMA ZeroAndOne ==
  /\ 0 \in 0..NumCandidates /\ 0 \in 0..MaxPolls /\ 1 \in 1..(NumCandidates + 1)
  /\ "absent" \in RefreshStatus
BY HeartbeatAssumption DEF RefreshStatus

LEMMA HeartbeatInitInv == HeartbeatInit => HeartbeatInv
<1> SUFFICES ASSUME HeartbeatInit PROVE HeartbeatInv
  OBVIOUS
<1>1. HeartbeatTypeOK
  BY ZeroAndOne DEF HeartbeatInit, HeartbeatTypeOK
<1>2. PassInv
  BY FS_EmptySet, HeartbeatAssumption DEF HeartbeatInit, PassInv, Walking
<1> QED  BY <1>1, <1>2 DEF HeartbeatInv

\* Workers and time.
LEMMA EnvironmentKeepsInv ==
  ASSUME HeartbeatInv, WorkerFinishes \/ SnapshotAges \/ WindowEnds
  PROVE  HeartbeatInv'
<1>1. UNCHANGED <<errand, step, next, passVars, seen, polls>>
  BY DEF WorkerFinishes, SnapshotAges, WindowEnds
<1>2. fresh' \subseteq Candidates /\ refresh' \in [Candidates -> RefreshStatus]
  BY DEF WorkerFinishes, SnapshotAges, WindowEnds, HeartbeatInv,
         HeartbeatTypeOK, RefreshStatus
<1>3. HeartbeatTypeOK'
  BY <1>1, <1>2 DEF HeartbeatInv, HeartbeatTypeOK, passVars
<1>4. PassInv'
  BY <1>1 DEF HeartbeatInv, PassInv, passVars
<1> QED  BY <1>3, <1>4 DEF HeartbeatInv

\* A pass that starts has counted nothing.
LEMMA StartPassInv ==
  ASSUME HeartbeatInv, StartPass
  PROVE  /\ step' = "snapshot" /\ next' \in 1..(NumCandidates + 1)
         /\ submitted' = 0 /\ acted' = {} /\ limited' = {} /\ seen' = {}
         /\ fetched' \in RefreshStatus /\ isNew' \in BOOLEAN
         /\ submitted' = Cardinality(acted')
BY FS_EmptySet, HeartbeatAssumption
   DEF StartPass, HeartbeatInv, HeartbeatTypeOK

LEMMA AskKeepsInv ==
  ASSUME HeartbeatInv, Ask
  PROVE  HeartbeatInv'
<1>1. CASE StartPass
  <2>1. HeartbeatTypeOK'
    BY <1>1, StartPassInv, HeartbeatAssumption
       DEF Ask, HeartbeatInv, HeartbeatTypeOK, jobTable
  <2>2. PassInv'
    BY <1>1, StartPassInv, HeartbeatAssumption DEF PassInv, Walking
  <2> QED  BY <2>1, <2>2 DEF HeartbeatInv
<1>2. CASE StartCheck /\ UNCHANGED passVars
  <2>1. HeartbeatTypeOK'
    BY <1>2, HeartbeatAssumption
       DEF Ask, StartCheck, HeartbeatInv, HeartbeatTypeOK, jobTable, passVars
  <2>2. PassInv'
    BY <1>2 DEF StartCheck, HeartbeatInv, PassInv, passVars, Walking
  <2> QED  BY <2>1, <2>2 DEF HeartbeatInv
<1> QED  BY <1>1, <1>2 DEF Ask

\* Where the pass goes on from the candidate it looks at.
LEMMA AdvanceGoesOn ==
  ASSUME HeartbeatInv, next \in Candidates, Advance(next)
  PROVE  /\ step' \in {"snapshot", "accepted", "check"}
         /\ next' \in 1..(NumCandidates + 1)
         /\ step' = "snapshot" => next' = next + 1
         /\ seen' \subseteq Candidates
<1>1. /\ NumCandidates \in Nat /\ next \in 1..NumCandidates
      /\ seen \subseteq Candidates
  BY HeartbeatAssumption DEF HeartbeatInv, HeartbeatTypeOK, Candidates
<1>2. CASE next < NumCandidates
  <2>1. step' = "snapshot" /\ next' = next + 1 /\ seen' = seen
    BY <1>2 DEF Advance
  <2> QED  BY <1>1, <1>2, <2>1
<1>3. CASE ~(next < NumCandidates) /\ errand = "heartbeat"
  <2>1. step' = "accepted" /\ next' = next /\ seen' = seen
    BY <1>3 DEF Advance
  <2> QED  BY <1>1, <2>1
<1>4. CASE ~(next < NumCandidates) /\ errand # "heartbeat"
  <2>1. step' = "check" /\ next' = 1 /\ seen' = {}
    BY <1>4 DEF Advance, StartCheck
  <2> QED  BY <1>1, <2>1
<1> QED  BY <1>2, <1>3, <1>4

LEMMA LookKeepsInv ==
  ASSUME HeartbeatInv, LookAtSnapshot
  PROVE  HeartbeatInv'
<1>1. step = "snapshot" /\ next \in Candidates /\ UNCHANGED <<jobTable, errand, polls>>
  BY HeartbeatAssumption
     DEF LookAtSnapshot, HeartbeatInv, HeartbeatTypeOK, Candidates
<1>2. CASE Advance(next) /\ UNCHANGED passVars
  <2>1. HeartbeatTypeOK'
    BY <1>1, <1>2, AdvanceGoesOn
       DEF HeartbeatInv, HeartbeatTypeOK, jobTable, passVars
  <2>2. PassInv'
    BY <1>1, <1>2, AdvanceGoesOn, HeartbeatAssumption
       DEF HeartbeatInv, HeartbeatTypeOK, PassInv, passVars, Walking, Candidates
  <2> QED  BY <2>1, <2>2 DEF HeartbeatInv
<1>3. CASE /\ LimitReached /\ limited' = limited \cup {next}
           /\ Advance(next) /\ UNCHANGED <<fetched, isNew, submitted, acted>>
  <2>1. HeartbeatTypeOK'
    BY <1>1, <1>3, AdvanceGoesOn DEF HeartbeatInv, HeartbeatTypeOK, jobTable
  <2>2. submitted = MaxJobs
    BY <1>3, HeartbeatAssumption
       DEF LimitReached, HeartbeatInv, HeartbeatTypeOK, PassInv
  <2>3. PassInv'
    BY <1>1, <1>3, <2>2, AdvanceGoesOn, HeartbeatAssumption
       DEF HeartbeatInv, HeartbeatTypeOK, PassInv, Walking, Candidates
  <2> QED  BY <2>1, <2>3 DEF HeartbeatInv
<1>4. CASE ~LimitReached /\ step' = "enqueue" /\ UNCHANGED <<next, passVars, seen>>
  <2>1. HeartbeatTypeOK'
    BY <1>1, <1>4 DEF HeartbeatInv, HeartbeatTypeOK, jobTable, passVars
  <2>2. PassInv'
    BY <1>1, <1>4, HeartbeatAssumption
       DEF LimitReached, HeartbeatInv, HeartbeatTypeOK, PassInv, passVars,
           Walking, Candidates
  <2> QED  BY <2>1, <2>2 DEF HeartbeatInv
<1> QED  BY <1>2, <1>3, <1>4 DEF LookAtSnapshot

\* A job that enqueueJob created is not requeued, and it counts, unless the clocks
\* disagree; one that was there does not.
LEMMA EnqueueKeepsInv ==
  ASSUME HeartbeatInv, EnqueueRefresh
  PROVE  HeartbeatInv'
<1>1. step = "enqueue" /\ UNCHANGED <<fresh, errand, limited, polls>>
  BY DEF EnqueueRefresh
<1>2. next \in Candidates /\ submitted < MaxJobs
  BY <1>1, CountOneMore DEF HeartbeatInv, PassInv
<1>3. /\ refresh' \in [Candidates -> RefreshStatus]
      /\ fetched' \in RefreshStatus /\ isNew' \in BOOLEAN
  BY <1>2 DEF EnqueueRefresh, HeartbeatInv, HeartbeatTypeOK, RefreshStatus
<1>4. isNew' => fetched' = "pending"
  BY <1>2 DEF EnqueueRefresh, HeartbeatInv, HeartbeatTypeOK
<1>5. Cardinality(acted) \in 0..NumCandidates
  BY CountsAreFinite DEF HeartbeatInv, HeartbeatTypeOK
<1>6. /\ acted' \subseteq Candidates
      /\ acted' \subseteq acted \cup {next}
      /\ Cardinality(acted') = IF isNew' THEN Cardinality(acted) + 1
                                         ELSE Cardinality(acted)
      /\ Cardinality(acted') \in 0..NumCandidates
  BY <1>1, <1>5, CountOneMore DEF EnqueueRefresh, HeartbeatInv, HeartbeatTypeOK
<1>7. CASE WantsRequeue(fetched', isNew')
  <2>1. step' = "requeue" /\ UNCHANGED <<next, seen, submitted>>
    BY <1>7 DEF EnqueueRefresh
  <2>2. ~isNew'
    BY <1>4, <1>7 DEF WantsRequeue
  <2>3. acted' = acted
    BY <2>2 DEF EnqueueRefresh
  <2>4. HeartbeatTypeOK'
    BY <1>1, <1>3, <2>1, <2>3 DEF HeartbeatInv, HeartbeatTypeOK
  <2>5. PassInv'
    BY <1>1, <1>2, <2>1, <2>3 DEF HeartbeatInv, PassInv, Walking
  <2> QED  BY <2>4, <2>5 DEF HeartbeatInv
<1>8. CASE ~WantsRequeue(fetched', isNew')
  <2>1. /\ submitted' = IF Deduped(isNew') THEN submitted ELSE submitted + 1
        /\ Advance(next)
    BY <1>8 DEF EnqueueRefresh
  <2>2. submitted \in Nat /\ MaxJobs \in Nat /\ NumCandidates \in Nat
    BY HeartbeatAssumption DEF HeartbeatInv, HeartbeatTypeOK
  <2>3. submitted' <= Cardinality(acted') /\ submitted' \in Nat
    BY <1>5, <1>6, <2>1, <2>2 DEF Deduped, HeartbeatInv, PassInv
  <2>4. StoreClock = "same" => submitted' = Cardinality(acted')
    BY <1>3, <1>6, <2>1 DEF Deduped, HeartbeatInv, PassInv
  <2>5. HeartbeatTypeOK'
    BY <1>1, <1>2, <1>3, <1>6, <2>1, <2>2, <2>3, AdvanceGoesOn
       DEF HeartbeatInv, HeartbeatTypeOK
  <2>6. submitted' <= MaxJobs /\ limited = {}
    BY <1>2, <2>1, <2>2 DEF HeartbeatInv, PassInv
  <2>7. step' \in Walking => \A c \in acted' : c < next'
    BY <1>1, <1>2, <1>6, <2>1, AdvanceGoesOn, HeartbeatAssumption
       DEF HeartbeatInv, HeartbeatTypeOK, PassInv, Walking, Candidates
  <2>8. PassInv'
    BY <1>1, <1>2, <2>1, <2>3, <2>4, <2>6, <2>7, AdvanceGoesOn DEF PassInv
  <2> QED  BY <2>5, <2>8 DEF HeartbeatInv
<1> QED  BY <1>7, <1>8

LEMMA RequeueKeepsInv ==
  ASSUME HeartbeatInv, RequeueRefresh
  PROVE  HeartbeatInv'
<1>1. /\ step = "requeue" /\ Advance(next)
      /\ UNCHANGED <<fresh, errand, fetched, isNew, limited, polls>>
  BY DEF RequeueRefresh
<1>2. next \in Candidates /\ submitted < MaxJobs
  BY <1>1, CountOneMore DEF HeartbeatInv, PassInv
<1>3. refresh' \in [Candidates -> RefreshStatus]
  BY <1>2 DEF RequeueRefresh, HeartbeatInv, HeartbeatTypeOK, RefreshStatus
<1>4. submitted \in Nat /\ MaxJobs \in Nat /\ limited = {}
  BY <1>2, HeartbeatAssumption DEF HeartbeatInv, HeartbeatTypeOK, PassInv
<1>5. Cardinality(acted) \in 0..NumCandidates
  BY CountsAreFinite DEF HeartbeatInv, HeartbeatTypeOK
<1>6. CASE acted' = acted \cup {next} /\ submitted' = submitted + 1
  <2>1. /\ acted' \subseteq Candidates
        /\ Cardinality(acted') = Cardinality(acted) + 1
        /\ Cardinality(acted') \in 0..NumCandidates
    BY <1>1, <1>6, CountOneMore
  <2>2. /\ submitted' <= Cardinality(acted') /\ submitted' \in 0..NumCandidates
        /\ StoreClock = "same" => submitted' = Cardinality(acted')
        /\ submitted' <= MaxJobs
    BY <1>2, <1>4, <1>5, <1>6, <2>1, HeartbeatAssumption
       DEF HeartbeatInv, PassInv
  <2>3. HeartbeatTypeOK'
    BY <1>1, <1>2, <1>3, <2>1, <2>2, AdvanceGoesOn DEF HeartbeatInv, HeartbeatTypeOK
  <2>4. step' \in Walking => \A c \in acted' : c < next'
    BY <1>1, <1>2, <1>6, AdvanceGoesOn, HeartbeatAssumption
       DEF HeartbeatInv, HeartbeatTypeOK, PassInv, Walking, Candidates
  <2>5. PassInv'
    BY <1>1, <1>2, <1>4, <2>2, <2>4, AdvanceGoesOn DEF PassInv
  <2> QED  BY <2>3, <2>5 DEF HeartbeatInv
<1>7. CASE UNCHANGED <<refresh, acted, submitted>>
  <2>1. HeartbeatTypeOK'
    BY <1>1, <1>2, <1>7, AdvanceGoesOn DEF HeartbeatInv, HeartbeatTypeOK
  <2>2. step' \in Walking => \A c \in acted' : c < next'
    BY <1>1, <1>2, <1>7, AdvanceGoesOn, HeartbeatAssumption
       DEF HeartbeatInv, HeartbeatTypeOK, PassInv, Walking, Candidates
  <2>3. PassInv'
    BY <1>1, <1>2, <1>4, <1>7, <2>2, AdvanceGoesOn DEF HeartbeatInv, PassInv
  <2> QED  BY <2>1, <2>3 DEF HeartbeatInv
<1> QED  BY <1>6, <1>7 DEF RequeueRefresh

\* The readiness check, the polls of wait-ready, and the reply.
LEMMA CheckKeepsInv ==
  ASSUME HeartbeatInv, CheckScope \/ CheckQueue \/ PollAgain \/ Reply
  PROVE  HeartbeatInv'
<1>1. CASE CheckScope
  <2>1. HeartbeatTypeOK'
    BY <1>1, HeartbeatAssumption
       DEF CheckScope, HeartbeatInv, HeartbeatTypeOK, jobTable, passVars
  <2>2. PassInv'
    BY <1>1 DEF CheckScope, HeartbeatInv, PassInv, passVars, Walking
  <2> QED  BY <2>1, <2>2 DEF HeartbeatInv
<1>2. CASE CheckQueue
  <2>1. HeartbeatTypeOK'
    BY <1>2 DEF CheckQueue, HeartbeatInv, HeartbeatTypeOK, jobTable, passVars
  <2>2. PassInv'
    BY <1>2 DEF CheckQueue, HeartbeatInv, PassInv, passVars, Walking
  <2> QED  BY <2>1, <2>2 DEF HeartbeatInv
<1>3. CASE PollAgain
  <2>1. StartPass /\ polls' = polls + 1 /\ step = "sleep" /\ UNCHANGED <<jobTable, errand>>
    BY <1>3 DEF PollAgain
  <2>2. polls + 1 \in 0..MaxPolls
    BY <2>1, HeartbeatAssumption DEF HeartbeatInv, HeartbeatTypeOK, PassInv
  <2>3. HeartbeatTypeOK'
    BY <2>1, <2>2, StartPassInv, HeartbeatAssumption
       DEF HeartbeatInv, HeartbeatTypeOK, jobTable
  <2>4. PassInv'
    BY <2>1, StartPassInv, HeartbeatAssumption DEF PassInv, Walking
  <2> QED  BY <2>3, <2>4 DEF HeartbeatInv
<1>4. CASE Reply
  <2>1. HeartbeatTypeOK'
    BY <1>4, ZeroAndOne DEF Reply, HeartbeatInv, HeartbeatTypeOK, jobTable
  <2>2. PassInv'
    BY <1>4, FS_EmptySet, HeartbeatAssumption DEF Reply, PassInv, Walking
  <2> QED  BY <2>1, <2>2 DEF HeartbeatInv
<1> QED  BY <1>1, <1>2, <1>3, <1>4

LEMMA HeartbeatStep == HeartbeatInv /\ [HeartbeatNext]_heartbeatVars => HeartbeatInv'
<1> SUFFICES ASSUME HeartbeatInv, [HeartbeatNext]_heartbeatVars
             PROVE  HeartbeatInv'
  OBVIOUS
<1>1. CASE UNCHANGED heartbeatVars
  BY <1>1 DEF heartbeatVars, jobTable, passVars, HeartbeatInv, HeartbeatTypeOK,
              PassInv, Walking
<1> QED  BY <1>1, EnvironmentKeepsInv, AskKeepsInv, LookKeepsInv, EnqueueKeepsInv,
            RequeueKeepsInv, CheckKeepsInv DEF HeartbeatNext

\* Whatever the clocks say, the heartbeat stays well typed; its count stays below
\* the number of candidates.
THEOREM HeartbeatTypeCorrect == HeartbeatSpec => []HeartbeatTypeOK
<1>1. HeartbeatInv => HeartbeatTypeOK
  BY DEF HeartbeatInv
<1> QED  BY <1>1, HeartbeatInitInv, HeartbeatStep, PTL DEF HeartbeatSpec

\* If the store's clock is the server's, a pass puts no more jobs into the queue
\* than maxJobs allows, and leaves a candidate out only when it has put as many
\* there: for any number of candidates, whatever workers and time do meanwhile
\* (runAvailabilityHeartbeat).
THEOREM LimitHolds ==
  ASSUME StoreClock = "same"
  PROVE  HeartbeatSpec => []LimitIsExact
<1>1. HeartbeatInv => LimitIsExact
  BY DEF HeartbeatInv, PassInv, LimitIsExact
<1> QED  BY <1>1, HeartbeatInitInv, HeartbeatStep, PTL DEF HeartbeatSpec

-----------------------------------------------------------------------------
(* The Redis job store.                                                    *)

Timely == ~Overruns /\ ~SlowClaims
OneServer == \A s, t \in Servers : s = t

Named == {"read_keyed", "write_job", "index_job", "requeue", "index_requeued",
          "unlist"} \cup Marking \cup Holding
Locked == Marking \cup {"unlock_run"}
Leased == {"mark_index", "unlock_run", "run"}

\* A client at a command about a job has one.
OpsNamed == \A c \in Clients : at[c] \in Named => op[c] \in Ops

\* Leases are numbered in the order they are handed out, and nobody shares one.
LeasesDistinct ==
  /\ \A w \in Consumers : mine[w] \in 0..leases
  /\ \A o \in Ops : leaseOf[o] \in 0..leases
  /\ \A v, w \in Consumers : mine[v] = mine[w] /\ mine[v] # 0 => v = w
  /\ \A o, p \in Ops : leaseOf[o] = leaseOf[p] /\ leaseOf[o] # 0 => o = p

\* A claim holds its lock until it unlocks, and what it read stays true so long.
ClaimsHold ==
  \A w \in Consumers :
    /\ at[w] \in Locked => lock[op[w]] = w
    /\ at[w] = "mark_write" => Eligible(op[w])

\* A worker that was given a lease is the one the record names.
RunsHold ==
  \A w \in Consumers :
    at[w] \in Leased =>
      record[op[w]] = "running" /\ leaseOf[op[w]] = mine[w] /\ mine[w] \in live

\* What the server read of a record it is about to write stays true.
ServerKnows ==
  \A s \in Servers :
    /\ at[s] = "requeue" => record[op[s]] = "ended"
    /\ at[s] = "write_job" => record[op[s]] = "absent"

StoreInv ==
  /\ StoreTypeOK /\ OpsNamed /\ LeasesDistinct
  /\ ClaimsHold /\ RunsHold /\ ServerKnows

-----------------------------------------------------------------------------
LEMMA StoreInitInv == StoreInit => StoreInv
<1> SUFFICES ASSUME StoreInit PROVE StoreInv
  OBVIOUS
<1>1. StoreTypeOK
  BY StoreAssumption DEF StoreInit, StoreTypeOK, ServerAt, WorkerAt, Leases
<1>2. OpsNamed /\ ServerKnows
  BY DEF StoreInit, OpsNamed, ServerKnows, Named, Marking, Holding, Clients
<1>3. ClaimsHold /\ RunsHold
  BY DEF StoreInit, ClaimsHold, RunsHold, Locked, Leased, Marking, Clients
<1>4. LeasesDistinct
  BY DEF StoreInit, LeasesDistinct
<1> QED  BY <1>1, <1>2, <1>3, <1>4 DEF StoreInv

-----------------------------------------------------------------------------
(* Types.                                                                  *)

LEMMA ServeKeepsType ==
  ASSUME StoreTypeOK, OpsNamed, NEW c \in Servers, Serve(c)
  PROVE  StoreTypeOK' /\ OpsNamed'
<1> USE StoreAssumption
    DEF Goes, Returns, SameJobs, SameIndex, SameWorkers, time, redis,
        Clients, StoreTypeOK, OpsNamed, Named, ServerAt, WorkerAt, Marking, Holding
<1>1. CASE TakeKey(c)
  BY <1>1 DEF TakeKey
<1>2. CASE EnqueueWithoutKey(c)
  BY <1>2 DEF EnqueueWithoutKey
<1>3. CASE GetKey(c)
  BY <1>3 DEF GetKey
<1>4. CASE ReadKeyed(c)
  BY <1>4 DEF ReadKeyed
<1>5. CASE DelKey(c)
  BY <1>5 DEF DelKey
<1>6. CASE WriteJob(c)
  BY <1>6 DEF WriteJob
<1>7. CASE WriteRequeued(c)
  BY <1>7 DEF WriteRequeued
<1>8. CASE IndexJob(c)
  BY <1>8 DEF IndexJob, Index
<1> QED  BY <1>1, <1>2, <1>3, <1>4, <1>5, <1>6, <1>7, <1>8 DEF Serve

LEMMA ConsumeKeepsType ==
  ASSUME StoreTypeOK, OpsNamed, NEW w \in Consumers, Consume(w)
  PROVE  StoreTypeOK' /\ OpsNamed'
<1> USE StoreAssumption
    DEF Goes, Returns, SameJobs, SameIndex, SameWorkers, time, redis, Leases,
        Clients, StoreTypeOK, OpsNamed, Named, ServerAt, WorkerAt, Marking, Holding
<1>1. CASE Scan(w)
  BY <1>1 DEF Scan
<1>2. CASE ReadScanned(w)
  BY <1>2 DEF ReadScanned
<1>3. CASE Unlist(w)
  BY <1>3 DEF Unlist, Unindex
<1>4. CASE EndScan(w)
  BY <1>4 DEF EndScan
<1>5. CASE TakeLock(w)
  BY <1>5 DEF TakeLock
<1>6. CASE MarkRead(w)
  BY <1>6 DEF MarkRead
<1>7. CASE MarkDrop(w)
  BY <1>7 DEF MarkDrop, Unindex
<1>8. CASE MarkWrite(w)
  BY <1>8 DEF MarkWrite
<1>9. CASE MarkIndex(w)
  BY <1>9 DEF MarkIndex, Index
<1>10. CASE Unlock(w)
  BY <1>10 DEF Unlock
<1>11. CASE WriteOutcome(w)
  BY <1>11 DEF WriteOutcome
<1>12. CASE IndexOutcome(w)
  BY <1>12 DEF IndexOutcome, Index, Unindex
<1> QED
  BY <1>1, <1>2, <1>3, <1>4, <1>5, <1>6, <1>7, <1>8, <1>9, <1>10, <1>11, <1>12
     DEF Consume

LEMMA WorldKeepsType ==
  ASSUME StoreTypeOK, OpsNamed,
         (\E c \in Clients : Dies(c)) \/ LeaseEnds \/ LockEnds
  PROVE  StoreTypeOK' /\ OpsNamed'
<1> USE StoreAssumption
    DEF Goes, Returns, SameJobs, SameIndex, SameWorkers, time, redis, clientVars,
        Clients, StoreTypeOK, OpsNamed, Named, ServerAt, WorkerAt, Marking, Holding
<1>1. ASSUME NEW c \in Clients, Dies(c) PROVE StoreTypeOK' /\ OpsNamed'
  BY <1>1 DEF Dies
<1>2. CASE LeaseEnds
  BY <1>2 DEF LeaseEnds
<1>3. CASE LockEnds
  BY <1>3 DEF LockEnds
<1> QED  BY <1>1, <1>2, <1>3

\* Whatever runs late and however many servers there are, the store's keys hold
\* what they are meant to hold, and a client at a command about a job has one
\* (redis-store.ts).
THEOREM StoreTypeCorrect == StoreSpec => []StoreTypeOK
<1>1. StoreInit => StoreTypeOK /\ OpsNamed
  BY StoreInitInv DEF StoreInv
<1>2. StoreTypeOK /\ OpsNamed /\ [StoreNext]_storeVars => StoreTypeOK' /\ OpsNamed'
  <2> SUFFICES ASSUME StoreTypeOK, OpsNamed, [StoreNext]_storeVars
               PROVE  StoreTypeOK' /\ OpsNamed'
    OBVIOUS
  <2>1. ASSUME NEW c \in Servers, Serve(c) PROVE StoreTypeOK' /\ OpsNamed'
    BY <2>1, ServeKeepsType
  <2>2. ASSUME NEW w \in Consumers, Consume(w) PROVE StoreTypeOK' /\ OpsNamed'
    BY <2>2, ConsumeKeepsType
  <2>3. CASE (\E c \in Clients : Dies(c)) \/ LeaseEnds \/ LockEnds
    BY <2>3, WorldKeepsType
  <2>4. CASE UNCHANGED storeVars
    BY <2>4 DEF StoreTypeOK, OpsNamed, storeVars, redis, time, clientVars
  <2> QED  BY <2>1, <2>2, <2>3, <2>4 DEF StoreNext
<1> QED  BY <1>1, <1>2, PTL DEF StoreSpec

-----------------------------------------------------------------------------
(* Who holds what.                                                         *)

Safe == LeasesDistinct /\ ClaimsHold /\ RunsHold /\ ServerKnows

\* A step that writes neither records, leases nor locks, where the client goes on
\* knowing what it has read.
LEMMA QuietKeepsSafe ==
  ASSUME StoreInv, NEW c \in Clients, NEW to, NEW o, Goes(c, to, o),
         UNCHANGED <<record, leaseOf, lock, mine, live, leases>>,
         c \in Consumers => /\ to \in Locked => lock[o] = c
                            /\ to = "mark_write" => Eligible(o)
                            /\ to \in Leased => at[c] \in Leased /\ o = op[c],
         c \in Servers => /\ to = "requeue" => record[o] = "ended"
                          /\ to = "write_job" => record[o] = "absent"
  PROVE  Safe'
<1> USE DEF StoreInv, Goes
<1>1. /\ at' = [at EXCEPT ![c] = to] /\ op' = [op EXCEPT ![c] = o]
      /\ at \in [Clients -> ServerAt \cup WorkerAt]
      /\ op \in [Clients -> Ops \cup {NoOp}]
  BY DEF StoreTypeOK
<1>2. LeasesDistinct'
  BY DEF LeasesDistinct
<1>3. ClaimsHold'
  BY <1>1 DEF ClaimsHold, Eligible, Clients
<1>4. RunsHold'
  BY <1>1 DEF RunsHold, Clients
<1>5. ServerKnows'
  BY <1>1 DEF ServerKnows, Clients
<1> QED  BY <1>2, <1>3, <1>4, <1>5 DEF Safe

LEMMA ServeKeepsSafe ==
  ASSUME OneServer, StoreInv, NEW c \in Servers, Serve(c)
  PROVE  Safe'
<1> DEFINE Frame == UNCHANGED <<record, leaseOf, lock, mine, live, leases>>
<1>0. c \in Clients /\ c \notin Consumers
  BY StoreAssumption DEF Clients
<1> USE DEF StoreInv
<1>1. CASE TakeKey(c)
  <2>1. Frame
    BY <1>1 DEF TakeKey, SameJobs, SameWorkers, time
  <2>2. \/ \E o \in Ops : Fresh(o) /\ Goes(c, "write_job", o)
        \/ Goes(c, "get_key", NoOp)
    BY <1>1 DEF TakeKey
  <2>3. ASSUME NEW o \in Ops, Fresh(o), Goes(c, "write_job", o) PROVE Safe'
    BY <1>0, <2>1, <2>3, QuietKeepsSafe DEF Fresh
  <2>4. ASSUME Goes(c, "get_key", NoOp) PROVE Safe'
    BY <1>0, <2>1, <2>4, QuietKeepsSafe
  <2> QED  BY <2>2, <2>3, <2>4
<1>2. CASE EnqueueWithoutKey(c)
  <2>1. Frame
    BY <1>2 DEF EnqueueWithoutKey, redis, time
  <2>2. PICK o \in Ops : Fresh(o) /\ Goes(c, "write_job", o)
    BY <1>2 DEF EnqueueWithoutKey
  <2> QED  BY <1>0, <2>1, <2>2, QuietKeepsSafe DEF Fresh
<1>3. CASE GetKey(c)
  <2>1. Frame
    BY <1>3 DEF GetKey, redis, time
  <2>2. PICK to \in {"del_key", "read_keyed"} : Goes(c, to, keyed)
    BY <1>3 DEF GetKey
  <2> QED  BY <1>0, <2>1, <2>2, QuietKeepsSafe
<1>4. CASE ReadKeyed(c)
  <2>1. Frame
    BY <1>4 DEF ReadKeyed, redis, time
  <2>2. \/ Goes(c, "del_key", NoOp)
        \/ record[op[c]] = "ended" /\ Goes(c, "requeue", op[c])
        \/ Goes(c, "idle", NoOp)
    BY <1>4 DEF ReadKeyed, Returns
  <2>3. CASE Goes(c, "del_key", NoOp)
    BY <1>0, <2>1, <2>3, QuietKeepsSafe
  <2>4. CASE record[op[c]] = "ended" /\ Goes(c, "requeue", op[c])
    BY <1>0, <2>1, <2>4, QuietKeepsSafe
  <2>5. CASE Goes(c, "idle", NoOp)
    BY <1>0, <2>1, <2>5, QuietKeepsSafe
  <2> QED  BY <2>2, <2>3, <2>4, <2>5
<1>5. CASE DelKey(c)
  <2>1. Frame /\ Goes(c, "set_key", NoOp)
    BY <1>5 DEF DelKey, SameJobs, SameWorkers, time
  <2> QED  BY <1>0, <2>1, QuietKeepsSafe
<1>6. CASE WriteJob(c)
  <2>1. /\ at[c] = "write_job" /\ record' = [record EXCEPT ![op[c]] = "queued"]
        /\ at' = [at EXCEPT ![c] = "index_job"] /\ op' = [op EXCEPT ![c] = op[c]]
        /\ UNCHANGED <<leaseOf, lock, mine, live, leases>>
    BY <1>6 DEF WriteJob, Goes, SameWorkers, time
  <2>2. /\ op[c] \in Ops /\ record[op[c]] = "absent"
        /\ at \in [Clients -> ServerAt \cup WorkerAt] /\ op' = op
        /\ record \in [Ops -> {"absent", "queued", "running", "ended"}]
    BY <1>0, <2>1 DEF OpsNamed, Named, ServerKnows, StoreTypeOK
  <2>3. \A w \in Consumers : at'[w] = at[w]
    BY <1>0, <2>1, <2>2
  <2>4. LeasesDistinct'
    BY <2>1 DEF LeasesDistinct
  <2>5. ClaimsHold'
    BY <2>1, <2>2, <2>3 DEF ClaimsHold, Eligible
  <2>6. RunsHold'
    BY <2>1, <2>2, <2>3 DEF RunsHold
  <2>7. ServerKnows'
    BY <1>0, <2>1, <2>2 DEF ServerKnows, OneServer
  <2> QED  BY <2>4, <2>5, <2>6, <2>7 DEF Safe
<1>7. CASE WriteRequeued(c)
  <2>1. /\ at[c] = "requeue" /\ record' = [record EXCEPT ![op[c]] = "queued"]
        /\ leaseOf' = [leaseOf EXCEPT ![op[c]] = 0]
        /\ at' = [at EXCEPT ![c] = "index_requeued"] /\ op' = [op EXCEPT ![c] = op[c]]
        /\ UNCHANGED <<lock, mine, live, leases>>
    BY <1>7 DEF WriteRequeued, Goes, SameWorkers, time
  <2>2. /\ op[c] \in Ops /\ record[op[c]] = "ended"
        /\ at \in [Clients -> ServerAt \cup WorkerAt] /\ op' = op
        /\ record \in [Ops -> {"absent", "queued", "running", "ended"}]
        /\ leaseOf \in [Ops -> Leases \cup {0}]
    BY <1>0, <2>1 DEF OpsNamed, Named, ServerKnows, StoreTypeOK
  <2>3. \A w \in Consumers : at'[w] = at[w]
    BY <1>0, <2>1, <2>2
  <2>4. LeasesDistinct'
    BY <2>1, <2>2 DEF LeasesDistinct, StoreTypeOK
  <2>5. ClaimsHold'
    BY <2>1, <2>2, <2>3 DEF ClaimsHold, Eligible
  <2>6. RunsHold'
    BY <2>1, <2>2, <2>3 DEF RunsHold
  <2>7. ServerKnows'
    BY <1>0, <2>1, <2>2 DEF ServerKnows, OneServer
  <2> QED  BY <2>4, <2>5, <2>6, <2>7 DEF Safe
<1>8. CASE IndexJob(c)
  <2>1. Frame /\ Goes(c, "idle", NoOp)
    BY <1>8 DEF IndexJob, Returns, SameJobs, SameWorkers, time
  <2> QED  BY <1>0, <2>1, QuietKeepsSafe
<1> QED  BY <1>1, <1>2, <1>3, <1>4, <1>5, <1>6, <1>7, <1>8 DEF Serve

LEMMA ConsumeKeepsSafe ==
  ASSUME StoreInv, NEW w \in Consumers, Consume(w)
  PROVE  Safe'
<1> DEFINE Frame == UNCHANGED <<record, leaseOf, lock, mine, live, leases>>
<1>0. w \in Clients /\ w \notin Servers
  BY StoreAssumption DEF Clients
<1> USE DEF StoreInv
<1>1. CASE Scan(w)
  <2>1. Frame /\ Goes(w, "scan", NoOp)
    BY <1>1 DEF Scan, redis, time
  <2> QED  BY <1>0, <2>1, QuietKeepsSafe DEF Locked, Leased, Marking
<1>2. CASE ReadScanned(w)
  <2>1. /\ Frame
        /\ \/ at' = at /\ op' = op
           \/ \E o \in Ops : Goes(w, "unlist", o)
    BY <1>2 DEF ReadScanned, redis, time, StoreTypeOK
  <2>2. CASE at' = at /\ op' = op
    <3>1. LeasesDistinct'
      BY <2>1, <2>2 DEF LeasesDistinct
    <3>2. ClaimsHold' /\ RunsHold' /\ ServerKnows'
      BY <2>1, <2>2 DEF ClaimsHold, Eligible, RunsHold, ServerKnows
    <3> QED  BY <3>1, <3>2 DEF Safe
  <2>3. ASSUME NEW o \in Ops, Goes(w, "unlist", o) PROVE Safe'
    BY <1>0, <2>1, <2>3, QuietKeepsSafe DEF Locked, Leased, Marking
  <2> QED  BY <2>1, <2>2, <2>3
<1>3. CASE Unlist(w)
  <2>1. Frame /\ Goes(w, "scan", NoOp)
    BY <1>3 DEF Unlist, SameJobs, SameWorkers, time
  <2> QED  BY <1>0, <2>1, QuietKeepsSafe DEF Locked, Leased, Marking
<1>4. CASE EndScan(w)
  <2>1. Frame /\ \E to \in {"idle", "drain"} : Goes(w, to, NoOp)
    BY <1>4 DEF EndScan, Returns, redis, time
  <2>2. PICK to \in {"idle", "drain"} : Goes(w, to, NoOp)
    BY <2>1
  <2> QED  BY <1>0, <2>1, <2>2, QuietKeepsSafe DEF Locked, Leased, Marking
<1>5. CASE TakeLock(w)
  <2>1. /\ UNCHANGED <<record, leaseOf, mine, live, leases>>
        /\ \/ UNCHANGED <<lock, at, op>>
           \/ \E o \in Ops : /\ lock[o] = NoHolder /\ lock' = [lock EXCEPT ![o] = w]
                             /\ Goes(w, "mark_read", o)
    BY <1>5 DEF TakeLock, SameJobs, time, StoreTypeOK
  <2>2. LeasesDistinct'
    BY <2>1 DEF LeasesDistinct
  <2>3. CASE UNCHANGED <<lock, at, op>>
    BY <2>1, <2>2, <2>3 DEF ClaimsHold, Eligible, RunsHold, ServerKnows, Safe
  <2>4. ASSUME NEW o \in Ops, lock[o] = NoHolder, lock' = [lock EXCEPT ![o] = w],
               Goes(w, "mark_read", o)
        PROVE Safe'
    <3>1. /\ at' = [at EXCEPT ![w] = "mark_read"] /\ op' = [op EXCEPT ![w] = o]
          /\ at \in [Clients -> ServerAt \cup WorkerAt]
          /\ op \in [Clients -> Ops \cup {NoOp}]
          /\ lock \in [Ops -> Consumers \cup {NoHolder}]
      BY <2>4 DEF StoreTypeOK, Goes
    <3>2. \A v \in Consumers : v \in Clients /\ v # NoHolder
      BY StoreAssumption DEF Clients
    <3>3. ClaimsHold'
      BY <2>1, <2>4, <3>1, <3>2
         DEF ClaimsHold, Eligible, OpsNamed, Named, Locked, Marking, Holding
    <3>4. RunsHold'
      BY <2>1, <3>1, <3>2 DEF RunsHold, Leased
    <3>5. ServerKnows'
      BY <1>0, <2>1, <3>1 DEF ServerKnows, Clients
    <3> QED  BY <2>2, <3>3, <3>4, <3>5 DEF Safe
  <2> QED  BY <2>1, <2>3, <2>4
<1>6. CASE MarkRead(w)
  <2>1. Frame /\ at[w] = "mark_read"
    BY <1>6 DEF MarkRead, redis, time
  <2>2. lock[op[w]] = w
    BY <2>1 DEF ClaimsHold, Locked, Marking
  <2>3. \/ Goes(w, "mark_drop", op[w]) \/ Goes(w, "unlock", op[w])
        \/ Eligible(op[w]) /\ Goes(w, "mark_write", op[w])
    BY <1>6 DEF MarkRead
  <2>4. CASE Goes(w, "mark_drop", op[w])
    BY <1>0, <2>1, <2>2, <2>4, QuietKeepsSafe DEF Leased
  <2>5. CASE Goes(w, "unlock", op[w])
    BY <1>0, <2>1, <2>2, <2>5, QuietKeepsSafe DEF Leased
  <2>6. CASE Eligible(op[w]) /\ Goes(w, "mark_write", op[w])
    BY <1>0, <2>1, <2>2, <2>6, QuietKeepsSafe DEF Leased
  <2> QED  BY <2>3, <2>4, <2>5, <2>6
<1>7. CASE MarkDrop(w)
  <2>1. Frame /\ at[w] = "mark_drop" /\ Goes(w, "unlock", op[w])
    BY <1>7 DEF MarkDrop, SameJobs, SameWorkers, time
  <2>2. lock[op[w]] = w
    BY <2>1 DEF ClaimsHold, Locked, Marking
  <2> QED  BY <1>0, <2>1, <2>2, QuietKeepsSafe DEF Leased
<1>8. CASE MarkWrite(w)
  <2>1. /\ at[w] = "mark_write"
        /\ leases' = leases + 1 /\ live' = live \cup {leases + 1}
        /\ mine' = [mine EXCEPT ![w] = leases + 1]
        /\ record' = [record EXCEPT ![op[w]] = "running"]
        /\ leaseOf' = [leaseOf EXCEPT ![op[w]] = leases + 1]
        /\ at' = [at EXCEPT ![w] = "mark_index"] /\ op' = [op EXCEPT ![w] = op[w]]
        /\ lock' = lock
    BY <1>8 DEF MarkWrite, Goes
  <2>2. /\ op[w] \in Ops /\ op' = op
        /\ at \in [Clients -> ServerAt \cup WorkerAt]
        /\ record \in [Ops -> {"absent", "queued", "running", "ended"}]
        /\ leaseOf \in [Ops -> Leases \cup {0}] /\ leases \in Nat
        /\ mine \in [Consumers -> Leases \cup {0}]
        /\ \A n \in live : n <= leases
    BY <1>0, <2>1, StoreAssumption DEF OpsNamed, Named, Marking, StoreTypeOK
  <2>3. Eligible(op[w]) /\ lock[op[w]] = w
    BY <2>1 DEF ClaimsHold, Locked, Marking
  <2>4. LeasesDistinct'
    BY <2>1, <2>2 DEF LeasesDistinct
  <2>5. ASSUME NEW v \in Consumers, v # w, at[v] \in Locked \cup Leased
        PROVE op[v] \in Ops /\ op[v] # op[w]
    <3>1. op[v] \in Ops
      BY <2>5 DEF OpsNamed, Named, Locked, Leased, Marking, Holding, Clients
    <3>2. at[v] \in Locked => lock[op[v]] = v
      BY DEF ClaimsHold
    <3>3. at[v] \in Leased => record[op[v]] = "running" /\ leaseOf[op[v]] \in live
      BY DEF RunsHold
    <3> QED  BY <2>3, <2>5, <3>1, <3>2, <3>3 DEF Eligible
  <2>6. \A v \in Consumers : v # w => at'[v] = at[v]
    BY <1>0, <2>1, <2>2 DEF Clients
  <2>7. at'[w] = "mark_index"
    BY <1>0, <2>1, <2>2
  <2>8. ClaimsHold'
    <3> SUFFICES ASSUME NEW v \in Consumers
                 PROVE  /\ at'[v] \in Locked => lock'[op'[v]] = v
                        /\ at'[v] = "mark_write" => Eligible(op[v])'
      BY <2>2 DEF ClaimsHold
    <3>1. at'[v] \in Locked => lock'[op'[v]] = v
      BY <2>1, <2>2, <2>3, <2>6 DEF ClaimsHold
    <3>2. ASSUME at'[v] = "mark_write" PROVE Eligible(op[v])'
      <4>1. v # w /\ at[v] = "mark_write"
        BY <2>6, <2>7, <3>2
      <4>2. op[v] \in Ops /\ op[v] # op[w]
        BY <2>5, <4>1 DEF Locked, Marking
      <4>3. Eligible(op[v]) /\ leaseOf[op[v]] \in 0..leases
        BY <4>1, <4>2 DEF ClaimsHold, LeasesDistinct
      <4> QED  BY <2>1, <2>2, <4>2, <4>3 DEF Eligible
    <3> QED  BY <3>1, <3>2
  <2>9. RunsHold'
    <3> SUFFICES ASSUME NEW v \in Consumers, at'[v] \in Leased
                 PROVE  /\ record'[op[v]] = "running" /\ leaseOf'[op[v]] = mine'[v]
                        /\ mine'[v] \in live'
      BY <2>2 DEF RunsHold
    <3>1. CASE v = w
      BY <2>1, <2>2, <3>1
    <3>2. CASE v # w
      BY <2>1, <2>2, <2>5, <2>6, <3>2 DEF RunsHold
    <3> QED  BY <3>1, <3>2
  <2>10. ServerKnows'
    BY <1>0, <2>1, <2>2, <2>3 DEF ServerKnows, Eligible, Clients
  <2> QED  BY <2>4, <2>8, <2>9, <2>10 DEF Safe
<1>9. CASE MarkIndex(w)
  <2>1. Frame /\ at[w] = "mark_index" /\ Goes(w, "unlock_run", op[w])
    BY <1>9 DEF MarkIndex, SameJobs, SameWorkers, time
  <2>2. lock[op[w]] = w
    BY <2>1 DEF ClaimsHold, Locked, Marking
  <2> QED  BY <1>0, <2>1, <2>2, QuietKeepsSafe DEF Leased
<1>10. CASE Unlock(w)
  <2>1. /\ at[w] \in {"unlock", "unlock_run"}
        /\ \/ lock' = [lock EXCEPT ![op[w]] = NoHolder]
           \/ lock' = lock
        /\ \/ at[w] = "unlock" /\ Goes(w, "drain", NoOp)
           \/ at[w] = "unlock_run" /\ Goes(w, "run", op[w])
        /\ UNCHANGED <<record, leaseOf, mine, live, leases>>
    BY <1>10 DEF Unlock, SameJobs, SameWorkers, time
  <2>2. /\ at \in [Clients -> ServerAt \cup WorkerAt]
        /\ op \in [Clients -> Ops \cup {NoOp}]
        /\ op[w] \in Ops /\ lock[op[w]] = w
    BY <1>0, <2>1 DEF OpsNamed, Named, Marking, Holding, StoreTypeOK, ClaimsHold, Locked
  <2>3. PICK to \in {"drain", "run"}, o \in Ops \cup {NoOp} :
          /\ at' = [at EXCEPT ![w] = to] /\ op' = [op EXCEPT ![w] = o]
          /\ to = "run" => at[w] = "unlock_run" /\ o = op[w]
    BY <2>1, <2>2 DEF Goes
  <2>4. \A v \in Consumers : v # w => at'[v] = at[v] /\ op'[v] = op[v]
    BY <2>2, <2>3 DEF Clients
  <2>5. at'[w] = to /\ op'[w] = o
    BY <1>0, <2>2, <2>3
  <2>6. LeasesDistinct'
    BY <2>1 DEF LeasesDistinct
  <2>7. ClaimsHold'
    <3> SUFFICES ASSUME NEW v \in Consumers
                 PROVE  /\ at'[v] \in Locked => lock'[op'[v]] = v
                        /\ at'[v] = "mark_write" => Eligible(op[v])'
      BY DEF ClaimsHold, Eligible
    <3>1. CASE v = w
      BY <2>5, <3>1 DEF Locked, Marking
    <3>2. CASE v # w
      <4>1. ASSUME at[v] \in Locked PROVE lock'[op[v]] = v
        <5>1. op[v] \in Ops
          BY <4>1 DEF OpsNamed, Named, Locked, Marking, Holding, Clients
        <5>2. lock[op[v]] = v
          BY <4>1 DEF ClaimsHold
        <5>3. lock \in [Ops -> Consumers \cup {NoHolder}]
          BY DEF StoreTypeOK
        <5> QED  BY <2>1, <2>2, <3>2, <5>1, <5>2, <5>3
      <4>2. at[v] = "mark_write" => Eligible(op[v])
        BY DEF ClaimsHold
      <4> QED  BY <2>1, <2>4, <3>2, <4>1, <4>2 DEF Eligible
    <3> QED  BY <3>1, <3>2
  <2>8. RunsHold'
    <3> SUFFICES ASSUME NEW v \in Consumers, at'[v] \in Leased
                 PROVE  /\ record'[op'[v]] = "running" /\ leaseOf'[op'[v]] = mine'[v]
                        /\ mine'[v] \in live'
      BY DEF RunsHold
    <3>1. CASE v = w
      BY <2>1, <2>3, <2>5, <3>1 DEF RunsHold, Leased
    <3>2. CASE v # w
      BY <2>1, <2>4, <3>2 DEF RunsHold
    <3> QED  BY <3>1, <3>2
  <2>9. ServerKnows'
    BY <1>0, <2>1, <2>2, <2>3 DEF ServerKnows, Clients
  <2> QED  BY <2>6, <2>7, <2>8, <2>9 DEF Safe
<1>11. CASE WriteOutcome(w)
  <2>1. PICK outcome \in {"ended", "queued"}, lease \in Leases \cup {0} :
          /\ at[w] = "run" /\ record' = [record EXCEPT ![op[w]] = outcome]
          /\ leaseOf' = [leaseOf EXCEPT ![op[w]] = lease]
          /\ lease = 0 \/ lease = leaseOf[op[w]]
          /\ mine' = [mine EXCEPT ![w] = 0]
          /\ UNCHANGED <<lock, live, leases>>
          /\ \E to \in {"unindex", "reindex"} : Goes(w, to, op[w])
    <3>1. op[w] \in Ops
      BY <1>0, <1>11 DEF WriteOutcome, OpsNamed, Named, Holding
    <3>2. leaseOf[op[w]] \in Leases
      BY <3>1, <1>11 DEF WriteOutcome, StoreTypeOK, RunsHold, Leased, LeasesDistinct, Leases
    <3> QED  BY <3>1, <3>2, <1>11 DEF WriteOutcome, time
  <2>2. PICK to \in {"unindex", "reindex"} : Goes(w, to, op[w])
    BY <2>1
  <2>3. /\ op[w] \in Ops /\ op' = op /\ at' = [at EXCEPT ![w] = to]
        /\ at \in [Clients -> ServerAt \cup WorkerAt]
        /\ record \in [Ops -> {"absent", "queued", "running", "ended"}]
        /\ leaseOf \in [Ops -> Leases \cup {0}] /\ leases \in Nat
        /\ mine \in [Consumers -> Leases \cup {0}]
    BY <1>0, <2>1, <2>2 DEF OpsNamed, Named, Holding, StoreTypeOK, Goes
  <2>4. /\ record[op[w]] = "running" /\ leaseOf[op[w]] = mine[w] /\ mine[w] \in live
        /\ mine[w] # 0
    BY <2>1 DEF RunsHold, Leased, StoreTypeOK
  <2>5. LeasesDistinct'
    BY <2>1, <2>3 DEF LeasesDistinct
  <2>6. \A v \in Consumers : v # w => at'[v] = at[v]
    BY <2>3 DEF Clients
  <2>7. at'[w] = to
    BY <1>0, <2>3
  <2>8. ASSUME NEW v \in Consumers, v # w, at[v] \in Leased
        PROVE op[v] # op[w]
    BY <2>4, <2>8 DEF RunsHold, LeasesDistinct
  <2>9. ASSUME NEW v \in Consumers, at[v] = "mark_write"
        PROVE op[v] # op[w]
    BY <2>4, <2>9 DEF ClaimsHold, Eligible
  <2>10. ClaimsHold'
    <3> SUFFICES ASSUME NEW v \in Consumers
                 PROVE  /\ at'[v] \in Locked => lock'[op[v]] = v
                        /\ at'[v] = "mark_write" => Eligible(op[v])'
      BY <2>3 DEF ClaimsHold, Eligible
    <3>1. CASE v = w
      BY <2>7, <3>1 DEF Locked, Marking
    <3>2. CASE v # w
      BY <2>1, <2>3, <2>6, <2>9, <3>2 DEF ClaimsHold, Eligible
    <3> QED  BY <3>1, <3>2
  <2>11. RunsHold'
    <3> SUFFICES ASSUME NEW v \in Consumers, at'[v] \in Leased
                 PROVE  /\ record'[op[v]] = "running" /\ leaseOf'[op[v]] = mine'[v]
                        /\ mine'[v] \in live'
      BY <2>3 DEF RunsHold
    <3>1. v # w
      BY <2>7 DEF Leased
    <3> QED  BY <2>1, <2>3, <2>6, <2>8, <3>1 DEF RunsHold
  <2>12. ServerKnows'
    BY <1>0, <2>1, <2>3, <2>4 DEF ServerKnows, Clients
  <2> QED  BY <2>5, <2>10, <2>11, <2>12 DEF Safe
<1>12. CASE IndexOutcome(w)
  <2>1. Frame /\ Goes(w, "drain", NoOp)
    BY <1>12 DEF IndexOutcome, SameJobs, SameWorkers, time
  <2> QED  BY <1>0, <2>1, QuietKeepsSafe DEF Locked, Leased, Marking
<1> QED
  BY <1>1, <1>2, <1>3, <1>4, <1>5, <1>6, <1>7, <1>8, <1>9, <1>10, <1>11, <1>12
     DEF Consume

LEMMA WorldKeepsSafe ==
  ASSUME Timely, StoreInv, (\E c \in Clients : Dies(c)) \/ LeaseEnds \/ LockEnds
  PROVE  Safe'
<1> USE DEF StoreInv
<1>1. ASSUME NEW c \in Clients, Dies(c) PROVE Safe'
  <2>1. /\ at' = [at EXCEPT ![c] = "idle"] /\ op' = [op EXCEPT ![c] = NoOp]
        /\ at \in [Clients -> ServerAt \cup WorkerAt]
        /\ op \in [Clients -> Ops \cup {NoOp}]
        /\ mine \in [Consumers -> Leases \cup {0}]
        /\ mine' = mine \/ (c \in Consumers /\ mine' = [mine EXCEPT ![c] = 0])
        /\ UNCHANGED <<record, leaseOf, lock, live, leases>>
    BY <1>1 DEF Dies, Returns, Goes, SameWorkers, redis, StoreTypeOK
  <2>2. LeasesDistinct'
    BY <2>1 DEF LeasesDistinct, StoreTypeOK
  <2>3. ClaimsHold'
    BY <2>1 DEF ClaimsHold, Eligible, Locked, Marking, Clients
  <2>4. RunsHold'
    BY <2>1 DEF RunsHold, Leased, Clients
  <2>5. ServerKnows'
    BY <2>1 DEF ServerKnows, Clients
  <2> QED  BY <2>2, <2>3, <2>4, <2>5 DEF Safe
<1>2. CASE LeaseEnds
  <2>1. PICK n \in live : /\ \A w \in Consumers : mine[w] # n
                          /\ live' = live \ {n}
                          /\ UNCHANGED <<redis, leases, clientVars>>
    BY <1>2 DEF LeaseEnds, Timely
  <2>2. LeasesDistinct' /\ ServerKnows'
    BY <2>1 DEF redis, clientVars, LeasesDistinct, ServerKnows
  <2>3. ClaimsHold' /\ RunsHold'
    BY <2>1 DEF redis, clientVars, ClaimsHold, RunsHold, Eligible
  <2> QED  BY <2>2, <2>3 DEF Safe
<1>3. CASE LockEnds
  <2>1. PICK o \in Ops :
          /\ lock[o] # NoHolder
          /\ op[lock[o]] # o \/ at[lock[o]] \notin Locked
          /\ lock' = [lock EXCEPT ![o] = NoHolder]
          /\ UNCHANGED <<record, leaseOf, time, clientVars>>
    BY <1>3 DEF LockEnds, Timely, SameJobs, Locked
  <2>2. LeasesDistinct' /\ ServerKnows'
    BY <2>1 DEF time, clientVars, LeasesDistinct, ServerKnows
  <2>3. RunsHold'
    BY <2>1 DEF time, clientVars, RunsHold
  <2>4. ClaimsHold'
    <3> SUFFICES ASSUME NEW w \in Consumers, at[w] \in Locked
                 PROVE  lock'[op[w]] = w
      BY <2>1 DEF time, clientVars, ClaimsHold, Eligible
    <3>1. lock[op[w]] = w
      BY DEF ClaimsHold
    <3>2. op[w] # o
      BY <2>1, <3>1
    <3> QED  BY <2>1, <3>1, <3>2 DEF StoreTypeOK
  <2> QED  BY <2>2, <2>3, <2>4 DEF Safe
<1> QED  BY <1>1, <1>2, <1>3

LEMMA StepKeepsStoreInv ==
  ASSUME Timely, OneServer, StoreInv, [StoreNext]_storeVars
  PROVE  StoreInv'
<1>1. ASSUME NEW c \in Servers, Serve(c) PROVE StoreInv'
  BY <1>1, ServeKeepsType, ServeKeepsSafe DEF StoreInv, Safe
<1>2. ASSUME NEW w \in Consumers, Consume(w) PROVE StoreInv'
  BY <1>2, ConsumeKeepsType, ConsumeKeepsSafe DEF StoreInv, Safe
<1>3. CASE (\E c \in Clients : Dies(c)) \/ LeaseEnds \/ LockEnds
  BY <1>3, WorldKeepsType, WorldKeepsSafe DEF StoreInv, Safe
<1>4. CASE UNCHANGED storeVars
  BY <1>4 DEF StoreInv, StoreTypeOK, OpsNamed, LeasesDistinct, ClaimsHold, RunsHold,
         ServerKnows, Eligible, storeVars, redis, time, clientVars
<1> QED  BY <1>1, <1>2, <1>3, <1>4 DEF StoreNext

\* Locks, leases and what clients have read fit together in every reachable state
\* (markJobRunning, requeueJob).
THEOREM StoreInvariant ==
  ASSUME Timely, OneServer PROVE StoreSpec => []StoreInv
<1>1. StoreInit => StoreInv
  BY StoreInitInv
<1>2. StoreInv /\ [StoreNext]_storeVars => StoreInv'
  BY StepKeepsStoreInv
<1> QED  BY <1>1, <1>2, PTL DEF StoreSpec

\* A claim is a lock, a read and a write, and the lock is let go before the run
\* begins; two workers run the same job only when a lease or a lock runs out too
\* soon, or two servers requeue one job (markJobRunning, redis-store.ts).
THEOREM ClaimsAreExclusive ==
  ASSUME Timely, OneServer PROVE StoreSpec => []ClaimsExclusive
<1>1. StoreInv => ClaimsExclusive
  BY DEF StoreInv, RunsHold, LeasesDistinct, ClaimsExclusive, Leased, StoreTypeOK
<1> QED  BY <1>1, StoreInvariant, PTL

-----------------------------------------------------------------------------
(* The records are those of a store whose operations are atomic.           *)

Held == [o \in Ops |-> record[o] = "running" /\ leaseOf[o] \in live]

\* A record that is changed at one job changes the table there.
LEMMA TableChangesAt ==
  ASSUME StoreTypeOK, StoreTypeOK', NEW o \in Ops, NEW place, NEW lease \in BOOLEAN,
         record' = [record EXCEPT ![o] = place],
         lease = (record'[o] = "running" /\ leaseOf'[o] \in live'),
         \A p \in Ops \ {o} : record[p] = "running" =>
                                (leaseOf[p] \in live <=> leaseOf'[p] \in live')
  PROVE  Held' = [Held EXCEPT ![o] = lease]
<1>1. \A p \in Ops : Held'[p] = [Held EXCEPT ![o] = lease][p]
  <2>1. ASSUME NEW p \in Ops PROVE Held'[p] = [Held EXCEPT ![o] = lease][p]
    <3>1. CASE p = o
      BY <3>1 DEF Held
    <3>2. CASE p # o
      <4>1. record'[p] = record[p]
        BY <3>2 DEF StoreTypeOK
      <4>2. Held'[p] = Held[p]
        BY <3>2, <4>1 DEF Held
      <4> QED  BY <3>2, <4>2 DEF Held
    <3> QED  BY <3>1, <3>2
  <2> QED  BY <2>1
<1> QED  BY <1>1 DEF Held

LEMMA StepIsTableStep ==
  ASSUME StoreInv, StoreInv', [StoreNext]_storeVars
  PROVE  [Table!TableNext]_<<record, Held>>
<1> SUFFICES ASSUME ~UNCHANGED <<record, Held>> PROVE Table!TableNext
  OBVIOUS
<1> USE DEF StoreInv
<1>0. /\ record \in [Ops -> {"absent", "queued", "running", "ended"}]
      /\ leaseOf \in [Ops -> Leases \cup {0}]
  BY DEF StoreTypeOK
<1>1. ~UNCHANGED <<record, leaseOf, live>>
  BY DEF Held
<1>2. ASSUME NEW c \in Servers, Serve(c) PROVE Table!TableNext
  <2>1. c \in Clients
    BY DEF Clients
  <2>2. WriteJob(c) \/ WriteRequeued(c)
    BY <1>1, <1>2 DEF Serve, TakeKey, EnqueueWithoutKey, GetKey, ReadKeyed, DelKey,
                      IndexJob, SameJobs, redis, time
  <2>3. PICK o \in Ops : op[c] = o
    BY <2>1, <2>2 DEF OpsNamed, Named, WriteJob, WriteRequeued
  <2>4. CASE WriteJob(c)
    <3>1. /\ record[o] = "absent" /\ record' = [record EXCEPT ![o] = "queued"]
          /\ UNCHANGED <<leaseOf, live>>
      BY <2>3, <2>4 DEF WriteJob, ServerKnows, time
    <3>2. Held' = [Held EXCEPT ![o] = FALSE]
      BY <1>0, <2>3, <3>1, TableChangesAt
    <3>3. Table!Create(o)
      BY <3>1, <3>2 DEF Table!Create, Table!Becomes, Held
    <3> QED  BY <2>3, <3>3 DEF Table!TableNext
  <2>5. CASE WriteRequeued(c)
    <3>1. /\ record[o] = "ended" /\ record' = [record EXCEPT ![o] = "queued"]
          /\ leaseOf' = [leaseOf EXCEPT ![o] = 0] /\ live' = live
      BY <2>3, <2>5 DEF WriteRequeued, ServerKnows, time
    <3>2. \A p \in Ops \ {o} : leaseOf'[p] = leaseOf[p]
      BY <1>0, <3>1
    <3>3. Held' = [Held EXCEPT ![o] = FALSE]
      BY <1>0, <2>3, <3>1, <3>2, TableChangesAt
    <3>4. Table!Again(o)
      BY <3>1, <3>3 DEF Table!Again, Table!Becomes, Held
    <3> QED  BY <2>3, <3>4 DEF Table!TableNext
  <2> QED  BY <2>2, <2>4, <2>5
<1>3. ASSUME NEW w \in Consumers, Consume(w) PROVE Table!TableNext
  <2>1. w \in Clients
    BY DEF Clients
  <2>2. MarkWrite(w) \/ WriteOutcome(w)
    BY <1>1, <1>3 DEF Consume, Scan, ReadScanned, Unlist, EndScan, TakeLock, MarkRead,
                      MarkDrop, MarkIndex, Unlock, IndexOutcome, SameJobs, redis, time
  <2>3. PICK o \in Ops : op[w] = o
    BY <2>1, <2>2 DEF OpsNamed, Named, Marking, Holding, MarkWrite, WriteOutcome
  <2>4. CASE MarkWrite(w)
    <3>1. /\ Eligible(o) /\ record' = [record EXCEPT ![o] = "running"]
          /\ leaseOf' = [leaseOf EXCEPT ![o] = leases + 1]
          /\ live' = live \cup {leases + 1}
      BY <2>3, <2>4 DEF MarkWrite, ClaimsHold
    <3>2. \A p \in Ops \ {o} : leaseOf'[p] = leaseOf[p] /\ leaseOf[p] # leases + 1
      BY <1>0, <3>1 DEF LeasesDistinct, StoreTypeOK
    <3>3. Held' = [Held EXCEPT ![o] = TRUE]
      BY <1>0, <2>3, <3>1, <3>2, TableChangesAt
    <3>4. Table!Take(o)
      BY <2>3, <3>1, <3>3 DEF Table!Take, Table!Becomes, Held, Eligible
    <3> QED  BY <2>3, <3>4 DEF Table!TableNext
  <2>5. CASE WriteOutcome(w)
    <3>1. PICK outcome \in {"ended", "queued"} :
            /\ record' = [record EXCEPT ![o] = outcome]
            /\ \A p \in Ops \ {o} : leaseOf'[p] = leaseOf[p]
            /\ live' = live
      BY <1>0, <2>3, <2>5 DEF WriteOutcome, time
    <3>2. record[o] = "running" /\ leaseOf[o] \in live
      BY <2>3, <2>5 DEF WriteOutcome, RunsHold, Leased
    <3>3. Held' = [Held EXCEPT ![o] = FALSE]
      BY <1>0, <2>3, <3>1, TableChangesAt
    <3>4. Table!Finish(o) \/ Table!GiveBack(o)
      BY <2>3, <3>1, <3>2, <3>3
         DEF Table!Finish, Table!GiveBack, Table!Becomes, Held
    <3> QED  BY <2>3, <3>4 DEF Table!TableNext
  <2> QED  BY <2>2, <2>4, <2>5
<1>4. CASE (\E c \in Clients : Dies(c)) \/ LockEnds
  BY <1>1, <1>4 DEF Dies, LockEnds, SameJobs, redis, time
<1>5. CASE LeaseEnds
  <2>1. PICK n \in live : live' = live \ {n} /\ UNCHANGED <<record, leaseOf>>
    BY <1>5 DEF LeaseEnds, redis
  <2>2. PICK o \in Ops : Held'[o] # Held[o]
    <3>1. Held' # Held
      BY <2>1
    <3> QED  BY <3>1 DEF Held
  <2>3. record[o] = "running" /\ leaseOf[o] = n
    BY <2>1, <2>2 DEF Held
  <2>4. n # 0
    BY DEF StoreTypeOK
  <2>5. \A p \in Ops \ {o} : leaseOf[p] # n
    BY <2>3, <2>4 DEF LeasesDistinct
  <2>6. record' = [record EXCEPT ![o] = "running"]
    BY <1>0, <2>1, <2>3
  <2>7. Held' = [Held EXCEPT ![o] = FALSE]
    BY <1>0, <2>1, <2>3, <2>5, <2>6, TableChangesAt
  <2>8. Table!Lapse(o)
    BY <2>3, <2>6, <2>7 DEF Table!Lapse, Table!Becomes, Held
  <2> QED  BY <2>8 DEF Table!TableNext
<1>6. CASE UNCHANGED storeVars
  BY <1>1, <1>6 DEF storeVars, redis, time
<1> QED  BY <1>2, <1>3, <1>4, <1>5, <1>6 DEF StoreNext

\* The commands of an operation may be taken apart by other clients, crashes and
\* time, and yet the records change as if each operation were one step: what is
\* shown for such a store (BridgeJobs) holds for Redis (redis-store.ts).
THEOREM RecordsActLikeATable ==
  ASSUME Timely, OneServer PROVE StoreSpec => ActsLikeATable
<1>1. StoreInit => Table!TableInit
  BY DEF StoreInit, Table!TableInit
<1>2. StoreInv /\ StoreInv' /\ [StoreNext]_storeVars
        => [Table!TableNext]_<<record, Held>>
  BY StepIsTableStep
<1> QED
  BY <1>1, <1>2, StoreInvariant, PTL
     DEF StoreSpec, ActsLikeATable, Table!TableSpec, Table!tableVars, Held

-----------------------------------------------------------------------------
(* One job per key, also when runs and claims outlast their time.          *)

AtRecord == {"mark_write"} \cup Leased

\* The job that was made under the key is the one the key names, and is there; a
\* server deletes the key only before any was made.
KeyInv ==
  /\ made = {} \/ (keyed \in Ops /\ made = {keyed} /\ record[keyed] # "absent")
  /\ \A s \in Servers : /\ at[s] = "write_job" => record[op[s]] = "absent"
                        /\ at[s] = "read_keyed" => op[s] = keyed
                        /\ at[s] = "del_key" => made = {}
  /\ \A w \in Consumers : at[w] \in AtRecord => record[op[w]] # "absent"

TypedKeyInv == StoreTypeOK /\ OpsNamed /\ KeyInv

LEMMA ServeKeepsKey ==
  ASSUME OneServer, TypedKeyInv, NEW c \in Servers, Serve(c)
  PROVE  KeyInv'
<1> USE DEF TypedKeyInv
<1>0. /\ c \in Clients /\ c \notin Consumers /\ Consumers \subseteq Clients
      /\ \A s \in Servers : s = c
      /\ at \in [Clients -> ServerAt \cup WorkerAt]
      /\ op \in [Clients -> Ops \cup {NoOp}] /\ NoOp \notin Ops
      /\ record \in [Ops -> {"absent", "queued", "running", "ended"}]
      /\ keyed \in Ops \cup {NoOp}
  BY StoreAssumption DEF Clients, OneServer, StoreTypeOK
<1>1. CASE TakeKey(c)
  BY <1>0, <1>1 DEF TakeKey, Goes, Fresh, SameJobs, KeyInv
<1>2. CASE EnqueueWithoutKey(c)
  BY <1>0, <1>2 DEF EnqueueWithoutKey, Goes, Fresh, redis, KeyInv
<1>3. CASE GetKey(c)
  <2>1. /\ keyed = NoOp => at' = [at EXCEPT ![c] = "del_key"]
        /\ keyed # NoOp => at' = [at EXCEPT ![c] = "read_keyed"]
        /\ op' = [op EXCEPT ![c] = keyed] /\ UNCHANGED <<record, keyed, made>>
    BY <1>3 DEF GetKey, Goes, redis
  <2> QED  BY <1>0, <2>1 DEF KeyInv
<1>4. CASE ReadKeyed(c)
  <2>1. /\ at[c] = "read_keyed" /\ UNCHANGED <<record, keyed, made>>
        /\ \/ record[op[c]] = "absent" /\ Goes(c, "del_key", NoOp)
           \/ Goes(c, "requeue", op[c])
           \/ Goes(c, "idle", NoOp)
    BY <1>4 DEF ReadKeyed, Returns, redis
  <2>2. record[op[c]] = "absent" => made = {}
    BY <2>1 DEF KeyInv
  <2> QED  BY <1>0, <2>1, <2>2 DEF KeyInv, Goes
<1>5. CASE DelKey(c)
  <2>1. made = {}
    BY <1>5 DEF DelKey, KeyInv
  <2> QED  BY <1>0, <1>5, <2>1 DEF DelKey, Goes, SameJobs, KeyInv
<1>6. CASE WriteJob(c)
  <2>1. /\ at[c] = "write_job" /\ record' = [record EXCEPT ![op[c]] = "queued"]
        /\ keyed = op[c] => made' = made \cup {op[c]}
        /\ keyed # op[c] => made' = made
        /\ at' = [at EXCEPT ![c] = "index_job"] /\ op' = [op EXCEPT ![c] = op[c]]
        /\ keyed' = keyed
    BY <1>6 DEF WriteJob, Goes
  <2>2. op[c] \in Ops /\ record[op[c]] = "absent"
    BY <1>0, <2>1 DEF OpsNamed, Named, KeyInv
  <2>3. keyed = op[c] => made = {}
    BY <2>2 DEF KeyInv
  <2>4. made' = {} \/ (keyed \in Ops /\ made' = {keyed} /\ record'[keyed] # "absent")
    BY <1>0, <2>1, <2>2, <2>3 DEF KeyInv
  <2>5. \A s \in Servers : at'[s] \notin {"write_job", "read_keyed", "del_key"}
    BY <1>0, <2>1
  <2>6. \A w \in Consumers : at'[w] \in AtRecord => record'[op'[w]] # "absent"
    BY <1>0, <2>1, <2>2 DEF KeyInv
  <2> QED  BY <2>1, <2>4, <2>5, <2>6 DEF KeyInv
<1>7. CASE WriteRequeued(c)
  <2>1. /\ at[c] = "requeue" /\ record' = [record EXCEPT ![op[c]] = "queued"]
        /\ at' = [at EXCEPT ![c] = "index_requeued"] /\ op' = [op EXCEPT ![c] = op[c]]
        /\ UNCHANGED <<keyed, made>>
    BY <1>7 DEF WriteRequeued, Goes
  <2>2. made' = {} \/ (keyed \in Ops /\ made' = {keyed} /\ record'[keyed] # "absent")
    BY <1>0, <2>1 DEF KeyInv
  <2>3. \A s \in Servers : at'[s] \notin {"write_job", "read_keyed", "del_key"}
    BY <1>0, <2>1
  <2>4. \A w \in Consumers : at'[w] \in AtRecord => record'[op'[w]] # "absent"
    <3>1. op[c] \in Ops
      BY <1>0, <2>1 DEF OpsNamed, Named
    <3> QED  BY <1>0, <2>1, <3>1 DEF KeyInv
  <2> QED  BY <2>1, <2>2, <2>3, <2>4 DEF KeyInv
<1>8. CASE IndexJob(c)
  BY <1>0, <1>8 DEF IndexJob, Returns, Goes, SameJobs, KeyInv
<1> QED  BY <1>1, <1>2, <1>3, <1>4, <1>5, <1>6, <1>7, <1>8 DEF Serve

LEMMA ConsumeKeepsKey ==
  ASSUME TypedKeyInv, NEW w \in Consumers, Consume(w)
  PROVE  KeyInv'
<1> USE DEF TypedKeyInv
<1>0. /\ w \in Clients /\ w \notin Servers /\ Servers \subseteq Clients
      /\ Consumers \subseteq Clients
      /\ at \in [Clients -> ServerAt \cup WorkerAt]
      /\ op \in [Clients -> Ops \cup {NoOp}]
      /\ record \in [Ops -> {"absent", "queued", "running", "ended"}]
  BY StoreAssumption DEF Clients, StoreTypeOK
<1>1. /\ UNCHANGED <<keyed, made>>
      /\ \A c \in Clients \ {w} : at'[c] = at[c] /\ op'[c] = op[c]
  <2>1. UNCHANGED <<keyed, made>>
    BY DEF Consume, Scan, ReadScanned, Unlist, EndScan, TakeLock, MarkRead, MarkDrop,
           MarkWrite, MarkIndex, Unlock, WriteOutcome, IndexOutcome, redis
  <2>2. (\E to, o : Goes(w, to, o)) \/ UNCHANGED <<at, op>>
    BY DEF Consume, Scan, ReadScanned, Unlist, EndScan, TakeLock, MarkRead, MarkDrop,
           MarkWrite, MarkIndex, Unlock, WriteOutcome, IndexOutcome, Returns
  <2> QED  BY <1>0, <2>1, <2>2 DEF Goes
<1>2. ASSUME record' = record PROVE at'[w] \in AtRecord => record'[op'[w]] # "absent"
  <2>1. Consume(w) => \/ at'[w] \notin AtRecord
                      \/ op'[w] = op[w] /\ (at[w] \in AtRecord \/ Eligible(op[w]))
    <3> USE <1>0 DEF Goes, Returns, AtRecord, Leased
    <3>1. Scan(w) \/ ReadScanned(w) \/ Unlist(w) \/ EndScan(w)
            => at'[w] \notin AtRecord \/ (op'[w] = op[w] /\ at[w] \in AtRecord)
      BY DEF Scan, ReadScanned, Unlist, EndScan
    <3>2. TakeLock(w) \/ MarkDrop(w) \/ IndexOutcome(w) \/ WriteOutcome(w)
            => at'[w] \notin AtRecord \/ (op'[w] = op[w] /\ at[w] \in AtRecord)
      BY DEF TakeLock, MarkDrop, IndexOutcome, WriteOutcome
    <3>3. MarkWrite(w) \/ MarkIndex(w) \/ Unlock(w)
            => at'[w] \notin AtRecord \/ (op'[w] = op[w] /\ at[w] \in AtRecord)
      BY DEF MarkWrite, MarkIndex, Unlock
    <3>4. MarkRead(w) => at'[w] \notin AtRecord \/ (op'[w] = op[w] /\ Eligible(op[w]))
      BY DEF MarkRead
    <3> QED  BY <3>1, <3>2, <3>3, <3>4 DEF Consume
  <2> QED  BY <1>2, <2>1 DEF KeyInv, Eligible
<1>3. CASE record' = record
  BY <1>0, <1>1, <1>2, <1>3 DEF KeyInv
<1>4. CASE MarkWrite(w) \/ WriteOutcome(w)
  <2>1. PICK place \in {"queued", "running", "ended"} :
          /\ record' = [record EXCEPT ![op[w]] = place] /\ at[w] \in AtRecord
          /\ op' = [op EXCEPT ![w] = op[w]]
    BY <1>4 DEF MarkWrite, WriteOutcome, AtRecord, Leased, Goes
  <2>2. op[w] \in Ops
    BY <1>0, <2>1 DEF OpsNamed, Named, AtRecord, Leased, Marking, Holding
  <2>3. \A o \in Ops : record'[o] = "absent" <=> record[o] = "absent"
    BY <1>0, <2>1, <2>2 DEF KeyInv
  <2>4. made' = {} \/ (keyed' \in Ops /\ made' = {keyed'} /\ record'[keyed'] # "absent")
    BY <1>1, <2>3 DEF KeyInv
  <2>5. ASSUME NEW s \in Servers
        PROVE  /\ at'[s] = "write_job" => record'[op'[s]] = "absent"
               /\ at'[s] = "read_keyed" => op'[s] = keyed'
               /\ at'[s] = "del_key" => made' = {}
    <3>1. at[s] = "write_job" => op[s] \in Ops
      BY <1>0 DEF OpsNamed, Named
    <3> QED  BY <1>0, <1>1, <2>3, <3>1 DEF KeyInv
  <2>6. ASSUME NEW v \in Consumers, at'[v] \in AtRecord PROVE record'[op'[v]] # "absent"
    <3>1. CASE v = w
      BY <1>0, <2>1, <2>2, <3>1
    <3>2. CASE v # w
      <4>1. at[v] \in AtRecord /\ op'[v] = op[v]
        BY <1>0, <1>1, <2>6, <3>2
      <4>2. op[v] \in Ops
        BY <1>0, <4>1 DEF OpsNamed, Named, AtRecord, Leased, Marking, Holding
      <4> QED  BY <2>3, <4>1, <4>2 DEF KeyInv
    <3> QED  BY <3>1, <3>2
  <2> QED  BY <2>4, <2>5, <2>6 DEF KeyInv
<1>5. record' = record \/ MarkWrite(w) \/ WriteOutcome(w)
  BY DEF Consume, Scan, ReadScanned, Unlist, EndScan, TakeLock, MarkRead,
         MarkDrop, MarkIndex, Unlock, IndexOutcome, SameJobs, redis
<1> QED  BY <1>3, <1>4, <1>5

LEMMA StepKeepsKey ==
  ASSUME OneServer, TypedKeyInv, [StoreNext]_storeVars
  PROVE  TypedKeyInv'
<1> USE DEF TypedKeyInv
<1>1. ASSUME NEW c \in Servers, Serve(c) PROVE TypedKeyInv'
  BY <1>1, ServeKeepsType, ServeKeepsKey
<1>2. ASSUME NEW w \in Consumers, Consume(w) PROVE TypedKeyInv'
  BY <1>2, ConsumeKeepsType, ConsumeKeepsKey
<1>3. CASE (\E c \in Clients : Dies(c)) \/ LeaseEnds \/ LockEnds
  <2>1. UNCHANGED <<record, keyed, made>>
    BY <1>3 DEF Dies, LeaseEnds, LockEnds, SameJobs, redis
  <2>2. \A c \in Clients : at'[c] = "idle" \/ (at'[c] = at[c] /\ op'[c] = op[c])
    BY <1>3 DEF Dies, LeaseEnds, LockEnds, Returns, Goes, clientVars, StoreTypeOK
  <2>3. KeyInv'
    BY <2>1, <2>2 DEF KeyInv, Clients, AtRecord, Leased
  <2> QED  BY <1>3, <2>3, WorldKeepsType
<1>4. CASE UNCHANGED storeVars
  BY <1>4 DEF StoreTypeOK, OpsNamed, KeyInv, storeVars, redis, time, clientVars
<1> QED  BY <1>1, <1>2, <1>3, <1>4 DEF StoreNext

\* A server that calls enqueueJob again and again, and crashes between taking the key
\* and writing the job, never makes two jobs under one key, whatever workers and time
\* do (enqueueJob, redis-store.ts).
THEOREM OneJobUnderTheKey ==
  ASSUME OneServer PROVE StoreSpec => []OneJobPerKey
<1>1. StoreInit => TypedKeyInv
  <2>1. StoreInit => KeyInv
    BY DEF StoreInit, KeyInv, AtRecord, Leased, Clients
  <2> QED  BY <2>1, StoreInitInv DEF StoreInv, TypedKeyInv
<1>2. TypedKeyInv /\ [StoreNext]_storeVars => TypedKeyInv'
  BY StepKeepsKey
<1>3. TypedKeyInv => OneJobPerKey
  <2> SUFFICES ASSUME TypedKeyInv PROVE Cardinality(made) <= 1
    BY DEF OneJobPerKey
  <2>1. CASE made = {}
    BY <2>1, FS_EmptySet
  <2>2. CASE made = {keyed}
    BY <2>2, FS_Singleton
  <2> QED  BY <2>1, <2>2 DEF TypedKeyInv, KeyInv
<1> QED  BY <1>1, <1>2, <1>3, PTL DEF StoreSpec

-----------------------------------------------------------------------------
(* The whole.                                                              *)

\* A behaviour of the whole is one of each part, which takes its steps or stands
\* still.
LEMMA HeartbeatPathStep ==
  HeartbeatPathSpec => Spec /\ HeartbeatSpec /\ OrderSpec /\ StoreSpec
<1>1. HeartbeatPathInit => Init /\ HeartbeatInit /\ OrderInit /\ StoreInit
  BY DEF HeartbeatPathInit
<1>2. [HeartbeatPathNext]_<<vars, heartbeatVars, orderVars, storeVars, part>>
        => /\ [Next]_vars /\ [HeartbeatNext]_heartbeatVars
           /\ [PickNext]_orderVars /\ [StoreNext]_storeVars
  BY Zenon DEF HeartbeatPathNext
<1> QED
  BY <1>1, <1>2, PTL
     DEF HeartbeatPathSpec, Spec, HeartbeatSpec, OrderSpec, StoreSpec

\* The four keep their types side by side: snapshots and their jobs, the pass, the
\* order it works in and the store, whatever any of their parameters is
\* (availability.ts, availability-heartbeat.ts, redis-store.ts).
THEOREM HeartbeatPathTypeCorrect == HeartbeatPathSpec => []HeartbeatPathTypeOK
<1> QED
  BY HeartbeatPathStep, TypeCorrect, HeartbeatTypeCorrect, OrderTypeCorrect,
     StoreTypeCorrect, PTL DEF HeartbeatPathTypeOK
=============================================================================
