--------------------------- MODULE FlowPlanProofs ---------------------------
(***************************************************************************)
(* Theorems about FlowPlan: for plans of any length over any keys and      *)
(* segments, with any recovery edges, made by the builder or by hand.  The *)
(* main part is the correctness of Kahn's algorithm.                       *)
(***************************************************************************)
EXTENDS FlowPlan, FiniteSetTheorems, WellFoundedInduction, SequenceTheorems, TLAPS

UniqueIds == \A i, k \in DOMAIN plan : plan[i].id = plan[k].id => i = k

\* Visits are numbered; 0 stands for a node that has not been visited.
Done(place) == {i \in DOMAIN plan : place[i] > 0}
Awaited(place, i) == {dep \in plan[i].dependsOn : \A v \in Done(place) : plan[v].id # dep}

\* Whatever the ids are: what has no dependency left is waiting or was visited.
Visits(place) ==
  /\ place \in [DOMAIN plan -> 0..visited]
  /\ visited = Cardinality(Done(place))
  /\ queue \cap Done(place) = {}
  /\ \A i \in DOMAIN plan : i \in queue \cup Done(place) <=> indegree[i] = 0

\* With ids that tell the steps apart, the count of a node is that of the
\* dependencies not visited, and each visited node came behind all of its own.
Counts(place) ==
  \A i \in DOMAIN plan :
    /\ indegree[i] = Cardinality(Awaited(place, i))
    /\ i \in Done(place) =>
         \A dep \in plan[i].dependsOn :
           \E v \in Done(place) : plan[v].id = dep /\ place[v] < place[i]

Sorting == \E place : Visits(place) /\ (UniqueIds => Counts(place))

\* The nodes are those of the steps, with dependencies by the builder or by hand.
Made ==
  IF validation = "none" THEN plan = <<>> /\ queue = {} /\ indegree = <<>> /\ visited = 0
  ELSE \E deps \in [DOMAIN steps -> SUBSET Targets] :
         /\ plan = [i \in DOMAIN steps |-> PlanNode(steps[i], deps[i])]
         /\ ~byHand => \A i \in DOMAIN steps : deps[i] = DependsOn(i)

PlanInv == FlowPlanTypeOK /\ Made /\ Sorting /\ AcceptsWhatRuns

-----------------------------------------------------------------------------
(* Numbers.                                                                *)

\* A nonempty set of numbers has a least one.
LEMMA LeastExists ==
  ASSUME NEW T \in SUBSET Nat, T # {}
  PROVE  \E m \in T : \A k \in T : m <= k
<1>1. IsWellFoundedOn(OpToRel(<, Nat), Nat)
  BY NatLessThanWellFounded
<1>2. PICK m \in T : \A k \in T : ~ (<<k, m>> \in OpToRel(<, Nat))
  BY <1>1, WFMin
<1>3. \A v, w \in Nat : v < w => <<v, w>> \in OpToRel(<, Nat)
  BY DEF OpToRel
<1>4. \A k \in T : ~ (k < m)
  BY <1>2, <1>3
<1> QED  BY <1>4

-----------------------------------------------------------------------------
(* The plan as a sequence.                                                 *)

LEMMA StepsAreTyped ==
  ASSUME FlowPlanTypeOK
  PROVE  /\ Len(steps) \in Nat /\ DOMAIN steps = 1..Len(steps)
         /\ \A i \in DOMAIN steps : steps[i] \in StepRecords
         /\ Len(declared) \in Nat /\ DOMAIN declared = 1..Len(declared)
         /\ \A d \in DOMAIN declared :
              declared[d] \in [from : Targets, edges : Seq(RecoveryEdges)]
BY LenProperties, ElementOfSeq DEF FlowPlanTypeOK

\* What is known of the nodes once there are any.
LEMMA NodesAreTyped ==
  ASSUME FlowPlanTypeOK, Made, validation # "none"
  PROVE  /\ Len(plan) \in Nat /\ DOMAIN plan = 1..Len(plan)
         /\ DOMAIN plan = DOMAIN steps /\ IsFiniteSet(DOMAIN plan)
         /\ Cardinality(DOMAIN plan) = Len(plan)
         /\ \A i \in DOMAIN plan :
              /\ plan[i].id = steps[i].id /\ plan[i].id \in 1..MaxSteps
              /\ plan[i].provides = steps[i].provides
              /\ plan[i].needs = steps[i].needs
              /\ plan[i].needs \subseteq Keys /\ plan[i].provides \subseteq Keys
              /\ plan[i].edges = EdgesFrom(plan[i].id)
              /\ plan[i].dependsOn \subseteq Targets
              /\ ~byHand => plan[i].dependsOn = DependsOn(i)
<1>1. PICK deps \in [DOMAIN steps -> SUBSET Targets] :
         /\ plan = [i \in DOMAIN steps |-> PlanNode(steps[i], deps[i])]
         /\ ~byHand => \A i \in DOMAIN steps : deps[i] = DependsOn(i)
  BY DEF Made
<1>2. DOMAIN plan = DOMAIN steps /\ DOMAIN steps = 1..Len(steps) /\ Len(steps) \in Nat
  BY <1>1, StepsAreTyped
<1> DEFINE S == {plan[i] : i \in DOMAIN plan}
<1>3. plan \in [1..Len(steps) -> S]
  BY <1>1, <1>2
<1>4. plan \in Seq(S)
  <2> HIDE DEF S
  <2> QED  BY <1>2, <1>3, SeqDef
<1>5. Len(plan) \in Nat /\ DOMAIN plan = 1..Len(plan)
  <2> HIDE DEF S
  <2> QED  BY <1>4, LenProperties
<1>6. IsFiniteSet(DOMAIN plan) /\ Cardinality(DOMAIN plan) = Len(plan)
  <2>1. Cardinality(1..Len(plan)) = Len(plan) /\ IsFiniteSet(1..Len(plan))
    <3> DEFINE m == Len(plan)
    <3>1. 1 \in Int /\ m \in Int /\ m >= 0
      BY <1>5
    <3> HIDE DEF m
    <3>2. IsFiniteSet(1..m) /\ Cardinality(1..m) = IF 1 > m THEN 0 ELSE m - 1 + 1
      BY <3>1, FS_Interval
    <3>3. Cardinality(1..m) = m
      BY <3>1, <3>2
    <3> QED  BY <3>2, <3>3 DEF m
  <2> QED  BY <1>5, <2>1
<1>7. ASSUME NEW i \in DOMAIN plan
      PROVE  /\ plan[i].id = steps[i].id /\ plan[i].id \in 1..MaxSteps
             /\ plan[i].provides = steps[i].provides
             /\ plan[i].needs = steps[i].needs
             /\ plan[i].needs \subseteq Keys /\ plan[i].provides \subseteq Keys
             /\ plan[i].edges = EdgesFrom(plan[i].id)
             /\ plan[i].dependsOn \subseteq Targets
             /\ ~byHand => plan[i].dependsOn = DependsOn(i)
  <2>1. plan[i] = PlanNode(steps[i], deps[i]) /\ deps[i] \subseteq Targets
    BY <1>1, <1>2
  <2>2. steps[i] \in StepRecords
    BY <1>2, StepsAreTyped
  <2> QED  BY <1>1, <1>2, <2>1, <2>2 DEF PlanNode, StepRecords
<1> QED  BY <1>2, <1>5, <1>6, <1>7

LEMMA DependenciesAreFinite ==
  ASSUME NEW D, D \subseteq Targets
  PROVE  IsFiniteSet(D) /\ Cardinality(D) \in Nat /\ (Cardinality(D) = 0 <=> D = {})
<1>1. IsFiniteSet(Targets)
  BY FS_Interval, FlowPlanAssumption DEF Targets
<1> QED  BY <1>1, FS_Subset, FS_CardinalityType, FS_EmptySet

-----------------------------------------------------------------------------
(* Each check of validateFlowPlan, and what it stands for.                 *)

LEMMA IdsAreUniqueIffCounted ==
  ASSUME FlowPlanTypeOK, Made, validation # "none"
  PROVE  /\ UniqueIds <=> ~DuplicateId
         /\ UniqueIds <=> Cardinality(Ids) = Len(plan)
<1>1. /\ DOMAIN plan = 1..Len(plan) /\ Len(plan) \in Nat
      /\ IsFiniteSet(DOMAIN plan) /\ Cardinality(DOMAIN plan) = Len(plan)
  BY NodesAreTyped
<1>2. UniqueIds <=> ~DuplicateId
  <2>1. ASSUME DuplicateId PROVE ~UniqueIds
    BY <1>1, <2>1 DEF DuplicateId, UniqueIds
  <2>2. ASSUME ~UniqueIds PROVE DuplicateId
    <3>1. PICK i, k \in DOMAIN plan : plan[i].id = plan[k].id /\ i # k
      BY <2>2 DEF UniqueIds
    <3>2. i < k \/ k < i
      BY <1>1, <3>1
    <3> QED  BY <3>1, <3>2 DEF DuplicateId
  <2> QED  BY <2>1, <2>2
<1> DEFINE f == [i \in DOMAIN plan |-> plan[i].id]
<1>3. f \in Surjection(DOMAIN plan, Ids)
  BY DEF Surjection, Ids
<1>4. f \in Injection(DOMAIN plan, Ids) <=> UniqueIds
  BY DEF Injection, IsInjective, UniqueIds, Ids
<1>5. Cardinality(Ids) = Cardinality(DOMAIN plan) <=> f \in Injection(DOMAIN plan, Ids)
  <2> HIDE DEF f
  <2> QED  BY <1>1, <1>3, FS_Surjection
<1> QED  BY <1>1, <1>2, <1>4, <1>5

LEMMA NeedsAreMet ==
  ASSUME FlowPlanTypeOK, Made, validation # "none"
  PROVE  ~MissingNeed <=>
           \A i \in DOMAIN plan : \A key \in plan[i].needs \ initial :
             \E k \in DOMAIN plan : k < i /\ key \in plan[k].provides
<1>1. DOMAIN plan = 1..Len(plan) /\ Len(plan) \in Nat
  BY NodesAreTyped
<1>2. \A i \in DOMAIN plan : \A k : k \in 1..(i - 1) <=> k \in DOMAIN plan /\ k < i
  BY <1>1
<1>3. \A i \in DOMAIN plan : \A key :
        key \in ProvidedBefore(i) <=>
          key \in initial \/ \E k \in DOMAIN plan : k < i /\ key \in plan[k].provides
  BY <1>2 DEF ProvidedBefore
<1> QED  BY <1>3 DEF MissingNeed

\* A segment that comes back has a first step at which it does.
LEMMA SegmentsAreContiguous ==
  ASSUME FlowPlanTypeOK, Made, validation # "none"
  PROVE  ~SegmentReentered <=>
           \A i, k \in DOMAIN plan : plan[i].segment = plan[k].segment =>
             \A m \in i..k : plan[m].segment = plan[i].segment
<1>1. DOMAIN plan = 1..Len(plan) /\ Len(plan) \in Nat
  BY NodesAreTyped
<1>2. ASSUME SegmentReentered
      PROVE  \E i, k \in DOMAIN plan : /\ plan[i].segment = plan[k].segment
                                       /\ \E m \in i..k : plan[m].segment # plan[i].segment
  <2>1. PICK i \in 2..Len(plan) :
          /\ plan[i].segment # plan[i - 1].segment
          /\ \E k \in 1..(i - 1) : plan[k].segment = plan[i].segment
    BY <1>2 DEF SegmentReentered
  <2>2. PICK k \in 1..(i - 1) : plan[k].segment = plan[i].segment
    BY <2>1
  <2>3. k \in DOMAIN plan /\ i \in DOMAIN plan /\ i - 1 \in k..i
    BY <1>1, <2>1, <2>2
  <2>4. plan[i - 1].segment # plan[k].segment
    BY <2>1, <2>2
  <2> QED  BY <2>2, <2>3, <2>4
<1>3. ASSUME NEW i \in DOMAIN plan, NEW k \in DOMAIN plan, NEW m \in i..k,
             plan[i].segment = plan[k].segment, plan[m].segment # plan[i].segment
      PROVE  SegmentReentered
  <2> DEFINE Back == {j \in DOMAIN plan : m < j /\ plan[j].segment = plan[i].segment}
  <2>1. k \in Back /\ Back \subseteq Nat /\ i < m
    BY <1>1, <1>3
  <2>2. PICK j \in Back : \A b \in Back : j <= b
    <3> HIDE DEF Back
    <3> QED  BY <2>1, LeastExists
  <2>3. j \in 2..Len(plan) /\ j - 1 \in DOMAIN plan /\ i \in 1..(j - 1) /\ m <= j - 1
    BY <1>1, <2>1, <2>2
  <2>4. j - 1 \notin Back
    BY <2>2, <2>3, <1>1
  <2>5. plan[j - 1].segment # plan[i].segment
    BY <1>1, <1>3, <2>1, <2>3, <2>4
  <2> QED  BY <2>2, <2>3, <2>5 DEF SegmentReentered
<1> QED  BY <1>2, <1>3

LEMMA EdgesAreSound ==
  ASSUME FlowPlanTypeOK, Made, validation # "none"
  PROVE  ~BadEdge <=>
           \A i \in DOMAIN plan : \A e, f \in DOMAIN plan[i].edges :
             /\ plan[i].edges[e].maxReentries > 0 /\ plan[i].edges[e].to \in Ids
             /\ plan[i].edges[e].to = plan[i].edges[f].to => e = f
<1>1. ASSUME NEW i \in DOMAIN plan
      PROVE  plan[i].edges \in Seq(RecoveryEdges)
  <2>1. plan[i].edges = EdgesFrom(plan[i].id)
    BY NodesAreTyped
  <2>2. CASE DeclaredFor(plan[i].id) = {}
    BY <2>1, <2>2 DEF EdgesFrom
  <2>3. CASE DeclaredFor(plan[i].id) # {}
    <3>1. DeclaredFor(plan[i].id) \subseteq Nat
      BY StepsAreTyped DEF DeclaredFor
    <3>2. \E d \in DeclaredFor(plan[i].id) : \A c \in DeclaredFor(plan[i].id) : d <= c
      BY <2>3, <3>1, LeastExists
    <3>3. PICK d \in DeclaredFor(plan[i].id) : EdgesFrom(plan[i].id) = declared[d].edges
      BY <2>3, <3>2 DEF EdgesFrom
    <3> QED  BY <2>1, <3>3, StepsAreTyped DEF DeclaredFor
  <2> QED  BY <2>2, <2>3
<1>2. ASSUME NEW i \in DOMAIN plan
      PROVE  /\ DOMAIN plan[i].edges = 1..Len(plan[i].edges) /\ Len(plan[i].edges) \in Nat
             /\ \A e \in DOMAIN plan[i].edges : plan[i].edges[e].maxReentries \in 0..1
  <2> DEFINE edges == plan[i].edges
  <2>1. edges \in Seq(RecoveryEdges)
    BY <1>1
  <2> HIDE DEF edges
  <2>2. /\ DOMAIN edges = 1..Len(edges) /\ Len(edges) \in Nat
        /\ edges \in [1..Len(edges) -> RecoveryEdges]
    BY <2>1, LenProperties
  <2>3. \A e \in DOMAIN edges : edges[e].maxReentries \in 0..1
    BY <2>2 DEF RecoveryEdges
  <2> QED  BY <2>2, <2>3 DEF edges
<1>3. ASSUME BadEdge
      PROVE  \E i \in DOMAIN plan : \E e, f \in DOMAIN plan[i].edges :
               ~ (/\ plan[i].edges[e].maxReentries > 0 /\ plan[i].edges[e].to \in Ids
                  /\ plan[i].edges[e].to = plan[i].edges[f].to => e = f)
  <2>0. PICK i \in DOMAIN plan : \E e \in DOMAIN plan[i].edges :
          \/ plan[i].edges[e].to \notin Ids \/ plan[i].edges[e].maxReentries < 1
          \/ \E f \in 1..(e - 1) : plan[i].edges[f].to = plan[i].edges[e].to
    BY <1>3 DEF BadEdge
  <2>1. PICK e \in DOMAIN plan[i].edges :
          \/ plan[i].edges[e].to \notin Ids \/ plan[i].edges[e].maxReentries < 1
          \/ \E f \in 1..(e - 1) : plan[i].edges[f].to = plan[i].edges[e].to
    BY <2>0
  <2>2. \A f \in 1..(e - 1) : f \in DOMAIN plan[i].edges /\ f # e
    BY <1>2, <2>1
  <2> QED  BY <1>2, <2>1, <2>2
<1>4. ASSUME NEW i \in DOMAIN plan, NEW e \in DOMAIN plan[i].edges,
             NEW f \in DOMAIN plan[i].edges,
             ~ (/\ plan[i].edges[e].maxReentries > 0 /\ plan[i].edges[e].to \in Ids
                /\ plan[i].edges[e].to = plan[i].edges[f].to => e = f)
      PROVE  BadEdge
  <2>1. CASE ~ (plan[i].edges[e].maxReentries > 0)
    <3>1. plan[i].edges[e].maxReentries < 1
      BY <1>2, <2>1
    <3> QED  BY <3>1 DEF BadEdge
  <2>2. CASE plan[i].edges[e].to \notin Ids
    BY <2>2 DEF BadEdge
  <2>3. CASE plan[i].edges[e].to = plan[i].edges[f].to /\ e # f
    <3>1. f \in 1..(e - 1) \/ e \in 1..(f - 1)
      BY <1>2, <2>3
    <3> QED  BY <2>3, <3>1 DEF BadEdge
  <2> QED  BY <1>4, <2>1, <2>2, <2>3
<1> QED  BY <1>3, <1>4

LEMMA DeclarationsAreKept ==
  ASSUME FlowPlanTypeOK, Made, validation # "none"
  PROVE  ~BadDeclaration <=>
           \A c, d \in DOMAIN declared :
             /\ declared[c].from = declared[d].from => c = d
             /\ declared[d].edges # <<>>
             /\ \E i \in DOMAIN plan :
                  plan[i].id = declared[d].from /\ plan[i].edges = declared[d].edges
<1>1. DOMAIN declared = 1..Len(declared) /\ Len(declared) \in Nat
  BY StepsAreTyped
<1>2. ASSUME ~BadDeclaration, NEW c \in DOMAIN declared, NEW d \in DOMAIN declared
      PROVE  /\ declared[c].from = declared[d].from => c = d
             /\ declared[d].edges # <<>>
             /\ \E i \in DOMAIN plan :
                  plan[i].id = declared[d].from /\ plan[i].edges = declared[d].edges
  <2>1. \A a, b \in DOMAIN declared : declared[a].from = declared[b].from => a = b
    <3>1. \A a, b \in DOMAIN declared : a # b => a \in 1..(b - 1) \/ b \in 1..(a - 1)
      BY <1>1
    <3> QED  BY <1>2, <3>1 DEF BadDeclaration
  <2>2. declared[d].edges # <<>> /\ declared[d].from \in Ids
    BY <1>2 DEF BadDeclaration
  <2>3. PICK i \in DOMAIN plan : plan[i].id = declared[d].from
    BY <2>2 DEF Ids
  <2>4. DeclaredFor(plan[i].id) = {d}
    BY <2>1, <2>3 DEF DeclaredFor
  <2>5. d <= d
    BY <1>1
  <2>6. EdgesFrom(plan[i].id) = declared[d].edges
    BY <2>4, <2>5 DEF EdgesFrom
  <2>7. plan[i].edges = declared[d].edges
    BY <2>6, NodesAreTyped
  <2> QED  BY <2>1, <2>2, <2>3, <2>7
<1>3. ASSUME BadDeclaration
      PROVE  \E c, d \in DOMAIN declared :
               ~ (/\ declared[c].from = declared[d].from => c = d
                  /\ declared[d].edges # <<>>
                  /\ \E i \in DOMAIN plan :
                       plan[i].id = declared[d].from /\ plan[i].edges = declared[d].edges)
  <2>1. PICK d \in DOMAIN declared :
          \/ declared[d].from \notin Ids \/ declared[d].edges = <<>>
          \/ \E c \in 1..(d - 1) : declared[c].from = declared[d].from
    BY <1>3 DEF BadDeclaration
  <2>2. \A c \in 1..(d - 1) : c \in DOMAIN declared /\ c # d
    BY <1>1, <2>1
  <2> QED  BY <2>1, <2>2 DEF Ids
<1> QED  BY <1>2, <1>3

-----------------------------------------------------------------------------
(* Kahn's algorithm.                                                       *)

\* When the queue is empty, all nodes have been visited exactly if a ranking exists:
\* the places of the visits are one, and among nodes that were not visited, one of
\* least rank would have had nothing left to wait for.
LEMMA SortedIffRanked ==
  ASSUME FlowPlanTypeOK, Made, validation # "none", UniqueIds, queue = {},
         NEW place, Visits(place), Counts(place)
  PROVE  ~NotSorted <=>
           \E rank \in [Ids -> 1..Len(plan)] : \A i \in DOMAIN plan :
             \A dep \in plan[i].dependsOn : dep \in Ids /\ rank[dep] < rank[plan[i].id]
<1>1. /\ DOMAIN plan = 1..Len(plan) /\ Len(plan) \in Nat
      /\ IsFiniteSet(DOMAIN plan) /\ Cardinality(DOMAIN plan) = Len(plan)
      /\ \A i \in DOMAIN plan : plan[i].dependsOn \subseteq Targets
  BY NodesAreTyped
<1>2. /\ Done(place) \subseteq DOMAIN plan /\ visited = Cardinality(Done(place))
      /\ visited \in 0..Len(plan) /\ place \in [DOMAIN plan -> 0..visited]
  BY DEF Visits, Done, FlowPlanTypeOK
<1>3. ASSUME ~NotSorted
      PROVE  \E rank \in [Ids -> 1..Len(plan)] : \A i \in DOMAIN plan :
               \A dep \in plan[i].dependsOn : dep \in Ids /\ rank[dep] < rank[plan[i].id]
  <2>1. visited = Len(plan) /\ \A i \in DOMAIN plan : plan[i].dependsOn \subseteq Ids
    BY <1>1, <1>2, <1>3 DEF NotSorted
  <2>2. Done(place) = DOMAIN plan
    BY <1>1, <1>2, <2>1, FS_Subset
  <2> DEFINE node == [id \in Ids |-> CHOOSE i \in DOMAIN plan : plan[i].id = id]
             rank == [id \in Ids |-> place[node[id]]]
  <2>3. \A i \in DOMAIN plan : plan[i].id \in Ids /\ node[plan[i].id] = i
    BY DEF Ids, UniqueIds
  <2>4. \A id \in Ids : node[id] \in DOMAIN plan /\ plan[node[id]].id = id
    BY DEF Ids
  <2>5. \A i \in DOMAIN plan : place[i] \in 1..Len(plan)
    BY <1>1, <1>2, <2>1, <2>2 DEF Done
  <2>6. rank \in [Ids -> 1..Len(plan)]
    BY <2>4, <2>5
  <2>7. ASSUME NEW i \in DOMAIN plan, NEW dep \in plan[i].dependsOn
        PROVE  dep \in Ids /\ rank[dep] < rank[plan[i].id]
    <3>1. PICK v \in Done(place) : plan[v].id = dep /\ place[v] < place[i]
      BY <2>2 DEF Counts
    <3>2. v \in DOMAIN plan /\ dep \in Ids /\ node[dep] = v /\ node[plan[i].id] = i
      BY <1>2, <2>3, <3>1
    <3> QED  BY <2>3, <3>1, <3>2
  <2> QED  BY <2>6, <2>7
<1>4. ASSUME NEW rank \in [Ids -> 1..Len(plan)],
             \A i \in DOMAIN plan : \A dep \in plan[i].dependsOn :
               dep \in Ids /\ rank[dep] < rank[plan[i].id]
      PROVE  ~NotSorted
  <2> DEFINE Stuck == DOMAIN plan \ Done(place)
             Ranks == {rank[plan[i].id] : i \in Stuck}
  <2>1. ASSUME Stuck # {} PROVE FALSE
    <3>1. Ranks # {} /\ Ranks \subseteq Nat
      <4>1. \A i \in Stuck : plan[i].id \in Ids
        BY DEF Ids
      <4>2. \A i \in Stuck : rank[plan[i].id] \in 1..Len(plan)
        BY <4>1
      <4>3. \A r \in Ranks : r \in Nat
        BY <1>1, <4>2
      <4> QED  BY <2>1, <4>3
    <3>2. PICK r \in Ranks : \A q \in Ranks : r <= q
      <4> HIDE DEF Ranks
      <4> QED  BY <3>1, LeastExists
    <3>3. PICK i \in Stuck : r = rank[plan[i].id]
      BY <3>2
    <3>4. indegree[i] # 0 /\ indegree[i] = Cardinality(Awaited(place, i))
      BY <3>3 DEF Visits, Counts
    <3>5. Awaited(place, i) \subseteq Targets
      BY <1>1, <3>3 DEF Awaited
    <3>6. Awaited(place, i) # {}
      BY <3>4, <3>5, DependenciesAreFinite
    <3>7. PICK dep \in plan[i].dependsOn : \A v \in Done(place) : plan[v].id # dep
      BY <3>6 DEF Awaited
    <3>8. dep \in Ids /\ rank[dep] < rank[plan[i].id]
      BY <1>4, <3>3
    <3>9. PICK u \in DOMAIN plan : plan[u].id = dep
      BY <3>8 DEF Ids
    <3>10. u \in Stuck
      BY <3>7, <3>9
    <3>11. rank[dep] \in Ranks
      BY <3>9, <3>10
    <3>12. rank[dep] \in Nat /\ r \in Nat /\ r <= rank[dep]
      BY <3>1, <3>2, <3>11
    <3> QED  BY <3>3, <3>8, <3>12
  <2>2. visited = Len(plan)
    BY <1>1, <1>2, <2>1
  <2>3. \A i \in DOMAIN plan : plan[i].dependsOn \subseteq Ids
    BY <1>4
  <2> QED  BY <1>2, <2>2, <2>3 DEF NotSorted
<1> QED  BY <1>3, <1>4

\* At the start nothing is visited, and what has no dependency waits.
LEMMA SortStarts ==
  ASSUME visited' = 0,
         \A i \in DOMAIN plan' : /\ plan'[i].dependsOn \subseteq Targets
                                 /\ indegree'[i] = Cardinality(plan'[i].dependsOn),
         queue' = {i \in DOMAIN plan' : plan'[i].dependsOn = {}}
  PROVE  Sorting'
<1>0. PICK place : place = [i \in DOMAIN plan' |-> 0]
  OBVIOUS
<1>2. Done(place)' = {}
  BY <1>0 DEF Done
<1>3. \A i \in DOMAIN plan' : Awaited(place, i)' = plan'[i].dependsOn
  BY <1>2 DEF Awaited
<1>4. Visits(place)'
  <2>1. place \in [DOMAIN plan' -> 0..visited']
    BY <1>0
  <2>2. visited' = Cardinality(Done(place)')
    BY <1>2, FS_EmptySet
  <2>3. \A i \in DOMAIN plan' : i \in queue' <=> indegree'[i] = 0
    BY DependenciesAreFinite
  <2> QED  BY <1>2, <2>1, <2>2, <2>3 DEF Visits
<1>5. Counts(place)'
  <2> QED  BY <1>2, <1>3 DEF Counts
<1> QED  BY <1>4, <1>5 DEF Sorting

\* A visit.
LEMMA VisitKeepsSorting ==
  ASSUME FlowPlanTypeOK, Made, validation # "none", Sorting, VisitNode
  PROVE  Sorting' /\ FlowPlanTypeOK'
<1>1. PICK v \in queue :
        LET Released(i) == plan[v].id \in plan[i].dependsOn /\ indegree[i] > 0
        IN /\ indegree' = [i \in DOMAIN plan |->
                             indegree[i] - (IF Released(i) THEN 1 ELSE 0)]
           /\ queue' = (queue \ {v})
                         \cup {i \in DOMAIN plan : Released(i) /\ indegree[i] = 1}
  BY DEF VisitNode
<1> DEFINE Released(i) == plan[v].id \in plan[i].dependsOn /\ indegree[i] > 0
<1>2. /\ indegree' = [i \in DOMAIN plan |->
                        indegree[i] - (IF Released(i) THEN 1 ELSE 0)]
      /\ queue' = (queue \ {v})
                    \cup {i \in DOMAIN plan : Released(i) /\ indegree[i] = 1}
  BY <1>1
<1>3. UNCHANGED <<builderVars, plan, byHand, validation>> /\ visited' = visited + 1
  BY DEF VisitNode
<1>4. PICK place : Visits(place) /\ (UniqueIds => Counts(place))
  BY DEF Sorting
<1>5. /\ DOMAIN plan = 1..Len(plan) /\ Len(plan) \in Nat
      /\ IsFiniteSet(DOMAIN plan) /\ Cardinality(DOMAIN plan) = Len(plan)
      /\ \A i \in DOMAIN plan : plan[i].dependsOn \subseteq Targets
  BY NodesAreTyped
<1>6. /\ v \in DOMAIN plan /\ queue \subseteq DOMAIN plan /\ visited \in Nat
      /\ indegree \in [DOMAIN plan -> Nat]
      /\ place \in [DOMAIN plan -> 0..visited]
      /\ visited = Cardinality(Done(place)) /\ v \notin Done(place) /\ indegree[v] = 0
      /\ queue \cap Done(place) = {}
      /\ \A i \in DOMAIN plan : i \in queue \cup Done(place) <=> indegree[i] = 0
  BY <1>4, <1>5 DEF Visits, FlowPlanTypeOK
<1>0. PICK placed : placed = [place EXCEPT ![v] = visited + 1]
  OBVIOUS
<1>7. Done(placed)' = Done(place) \cup {v}
  BY <1>0, <1>3, <1>6 DEF Done
<1>8. /\ Done(placed)' \subseteq DOMAIN plan /\ IsFiniteSet(Done(place))
      /\ visited + 1 = Cardinality(Done(placed)') /\ visited + 1 <= Len(plan)
  <2>1. Done(place) \subseteq DOMAIN plan
    BY DEF Done
  <2>2. IsFiniteSet(Done(place))
    BY <1>5, <2>1, FS_Subset
  <2>3. Cardinality(Done(place) \cup {v}) = Cardinality(Done(place)) + 1
    BY <1>6, <2>2, FS_AddElement
  <2>4. Done(place) \cup {v} \subseteq DOMAIN plan
    BY <1>6, <2>1
  <2>5. Cardinality(Done(place) \cup {v}) <= Cardinality(DOMAIN plan)
    BY <1>5, <2>4, FS_Subset
  <2> QED  BY <1>5, <1>6, <1>7, <2>2, <2>3, <2>4, <2>5
<1>9. \A i \in DOMAIN plan :
        /\ indegree'[i] \in Nat
        /\ indegree'[i] = 0 <=> indegree[i] = 0 \/ (Released(i) /\ indegree[i] = 1)
  BY <1>2, <1>6
<1>10. Visits(placed)'
  <2>1. placed \in [DOMAIN plan -> 0..(visited + 1)]
    BY <1>0, <1>6
  <2>2. queue' \cap Done(placed)' = {}
    BY <1>2, <1>6, <1>7
  <2>3. \A i \in DOMAIN plan : i \in queue' \cup Done(placed)' <=> indegree'[i] = 0
    BY <1>2, <1>6, <1>7, <1>9
  <2> QED  BY <1>3, <1>8, <2>1, <2>2, <2>3 DEF Visits
<1>11. ASSUME UniqueIds PROVE Counts(placed)'
  <2>1. Counts(place)
    BY <1>4, <1>11
  <2>2. ASSUME NEW i \in DOMAIN plan
        PROVE  indegree'[i] = Cardinality(Awaited(placed, i)')
    <3>1. Awaited(placed, i)' = Awaited(place, i) \ {plan[v].id}
      BY <1>3, <1>7 DEF Awaited
    <3>2. Awaited(place, i) \subseteq Targets
      BY <1>5 DEF Awaited
    <3>3. IsFiniteSet(Awaited(place, i)) /\ indegree[i] = Cardinality(Awaited(place, i))
      BY <2>1, <3>2, DependenciesAreFinite DEF Counts
    <3>4. CASE plan[v].id \in plan[i].dependsOn
      <4>1. plan[v].id \in Awaited(place, i)
        BY <1>6, <1>11, <3>4 DEF Awaited, Done, UniqueIds
      <4>2. Cardinality(Awaited(placed, i)') = indegree[i] - 1
        BY <3>1, <3>3, <4>1, FS_RemoveElement
      <4>3. indegree[i] # 0
        BY <3>2, <3>3, <4>1, DependenciesAreFinite
      <4>4. Released(i)
        BY <1>6, <3>4, <4>3
      <4> QED  BY <1>2, <4>2, <4>4
    <3>5. CASE plan[v].id \notin plan[i].dependsOn
      <4>1. Awaited(placed, i)' = Awaited(place, i)
        BY <3>1, <3>5 DEF Awaited
      <4>2. indegree'[i] = indegree[i]
        BY <1>2, <1>6, <3>5
      <4> QED  BY <3>3, <4>1, <4>2
    <3> QED  BY <3>4, <3>5
  <2>3. ASSUME NEW i \in Done(placed)', NEW dep \in plan[i].dependsOn
        PROVE  \E u \in Done(placed)' : plan[u].id = dep /\ placed[u] < placed[i]
    <3>1. \A u \in Done(place) : placed[u] = place[u] /\ place[u] \in 0..visited
      BY <1>0, <1>6 DEF Done
    <3>2. CASE i = v
      <4>1. Awaited(place, v) = {}
        <5>1. Awaited(place, v) \subseteq Targets
          BY <1>5, <1>6 DEF Awaited
        <5> QED  BY <1>6, <2>1, <5>1, DependenciesAreFinite DEF Counts
      <4>2. PICK u \in Done(place) : plan[u].id = dep
        BY <3>2, <4>1 DEF Awaited
      <4>3. placed[v] = visited + 1 /\ placed[u] < visited + 1
        BY <1>0, <1>6, <3>1
      <4> QED  BY <1>7, <3>2, <4>2, <4>3
    <3>3. CASE i # v
      <4>1. i \in Done(place) /\ i \in DOMAIN plan
        BY <1>7, <1>8, <3>3
      <4>2. PICK u \in Done(place) : plan[u].id = dep /\ place[u] < place[i]
        BY <2>1, <4>1 DEF Counts
      <4> QED  BY <1>7, <3>1, <4>1, <4>2
    <3> QED  BY <3>2, <3>3
  <2> QED  BY <1>3, <2>2, <2>3 DEF Counts
<1>12. Sorting'
  <2>1. UniqueIds' => UniqueIds
    BY <1>3 DEF UniqueIds
  <2> QED  BY <1>10, <1>11, <2>1 DEF Sorting
<1>13. FlowPlanTypeOK'
  <2>1. queue' \subseteq DOMAIN plan /\ indegree' \in [DOMAIN plan -> Nat]
    BY <1>2, <1>6, <1>9
  <2>2. visited' \in 0..Len(plan)
    BY <1>3, <1>5, <1>6, <1>8
  <2> QED  BY <1>3, <2>1, <2>2 DEF FlowPlanTypeOK, builderVars
<1> QED  BY <1>12, <1>13
-----------------------------------------------------------------------------
(* The steps.                                                              *)

LEMMA MadeStays ==
  ASSUME Made, UNCHANGED <<builderVars, plan, byHand>>,
         \/ validation # "none" /\ validation' # "none"
         \/ UNCHANGED sortVars
  PROVE  Made'
<1>1. CASE validation = "none"
  BY <1>1 DEF Made, sortVars
<1>2. CASE validation # "none"
  <2>1. PICK deps \in [DOMAIN steps -> SUBSET Targets] :
          /\ plan = [i \in DOMAIN steps |-> PlanNode(steps[i], deps[i])]
          /\ ~byHand => \A i \in DOMAIN steps : deps[i] = DependsOn(i)
    BY <1>2 DEF Made
  <2>2. steps' = steps /\ declared' = declared /\ validation' # "none"
    BY <1>2 DEF builderVars, sortVars
  <2>3. \A i \in DOMAIN steps : /\ PlanNode(steps[i], deps[i])' = PlanNode(steps[i], deps[i])
                                /\ DependsOn(i)' = DependsOn(i)
    BY <2>2 DEF PlanNode, EdgesFrom, DeclaredFor, DependsOn
  <2>4. plan' = [i \in DOMAIN steps' |-> PlanNode(steps[i], deps[i])']
    BY <2>1, <2>2, <2>3
  <2>5. ~byHand' => \A i \in DOMAIN steps' : deps[i] = DependsOn(i)'
    BY <2>1, <2>2, <2>3
  <2> QED  BY <2>2, <2>4, <2>5 DEF Made
<1> QED  BY <1>1, <1>2

LEMMA SortingStays ==
  ASSUME Sorting, UNCHANGED <<plan, queue, indegree, visited>>
  PROVE  Sorting'
<1>1. PICK place : Visits(place) /\ (UniqueIds => Counts(place))
  BY DEF Sorting
<1>2. Done(place)' = Done(place)
  BY DEF Done
<1>3. \A i : Awaited(place, i)' = Awaited(place, i)
  BY <1>2 DEF Awaited
<1>4. Visits(place)'
  BY <1>1, <1>2 DEF Visits
<1>5. UniqueIds' => Counts(place)'
  BY <1>1, <1>2, <1>3 DEF Counts, UniqueIds
<1> QED  BY <1>4, <1>5 DEF Sorting

LEMMA PlanInitInv == FlowPlanInit => PlanInv
<1> SUFFICES ASSUME FlowPlanInit PROVE PlanInv
  OBVIOUS
<1>1. /\ DOMAIN plan = {} /\ plan = <<>> /\ steps = <<>> /\ declared = <<>>
      /\ Len(plan) = 0
  BY DEF FlowPlanInit
<1>2. FlowPlanTypeOK
  <2>1. indegree \in [DOMAIN plan -> Nat]
    <3>1. indegree = <<>>
      BY DEF FlowPlanInit
    <3>2. <<>> \in [1..0 -> Nat]
      BY EmptySeq, LenProperties
    <3> QED  BY <1>1, <3>1, <3>2
  <2>2. /\ steps \in Seq(StepRecords)
        /\ declared \in Seq([from : Targets, edges : Seq(RecoveryEdges)])
    BY <1>1, EmptySeq
  <2>3. initial \subseteq Keys /\ queue \subseteq DOMAIN plan /\ byHand \in BOOLEAN
    BY <1>1 DEF FlowPlanInit
  <2>4. visited \in 0..Len(plan)
    BY <1>1 DEF FlowPlanInit
  <2>5. validation \in {"none", "sorting", "accepted", "rejected"}
    BY DEF FlowPlanInit
  <2> QED  BY <2>1, <2>2, <2>3, <2>4, <2>5 DEF FlowPlanTypeOK
<1>3. Made
  BY DEF FlowPlanInit, Made
<1>4. Sorting
  <2>1. PICK place : place = [i \in {} |-> 0]
    OBVIOUS
  <2>2. Done(place) = {}
    BY <1>1 DEF Done
  <2>3. Visits(place)
    BY <1>1, <2>1, <2>2, FS_EmptySet DEF Visits, FlowPlanInit
  <2>4. Counts(place)
    BY <1>1 DEF Counts
  <2> QED  BY <2>3, <2>4 DEF Sorting
<1>5. AcceptsWhatRuns
  BY DEF FlowPlanInit, AcceptsWhatRuns
<1> QED  BY <1>2, <1>3, <1>4, <1>5 DEF PlanInv

\* While the builder works there is no plan.
LEMMA BuilderKeepsInv ==
  ASSUME PlanInv, AddStep \/ Recover
  PROVE  PlanInv'
<1>1. validation = "none" /\ UNCHANGED <<initial, sortVars>>
  BY DEF AddStep, Recover
<1>2. steps' \in Seq(StepRecords)
  <2>1. steps \in Seq(StepRecords)
    BY DEF PlanInv, FlowPlanTypeOK
  <2>2. CASE AddStep
    BY <2>1, <2>2, AppendProperties DEF AddStep
  <2>3. CASE Recover
    BY <2>1, <2>3 DEF Recover
  <2> QED  BY <2>2, <2>3
<1>3. declared' \in Seq([from : Targets, edges : Seq(RecoveryEdges)])
  <2>1. CASE AddStep
    BY <2>1 DEF AddStep, PlanInv, FlowPlanTypeOK
  <2>2. CASE Recover
    <3>1. PICK from \in Targets, n \in 0..MaxEdges : \E edges \in [1..n -> RecoveryEdges] :
            declared' = Append(declared, [from |-> from, edges |-> edges])
      BY <2>2 DEF Recover
    <3>2. PICK edges \in [1..n -> RecoveryEdges] :
            declared' = Append(declared, [from |-> from, edges |-> edges])
      BY <3>1
    <3>3. n \in Nat
      BY FlowPlanAssumption
    <3>4. edges \in Seq(RecoveryEdges)
      BY <3>3, SeqDef
    <3>5. declared \in Seq([from : Targets, edges : Seq(RecoveryEdges)])
      BY DEF PlanInv, FlowPlanTypeOK
    <3> DEFINE D == [from : Targets, edges : Seq(RecoveryEdges)]
               d == [from |-> from, edges |-> edges]
    <3>6. declared \in Seq(D) /\ d \in D
      BY <3>4, <3>5
    <3>7. Append(declared, d) \in Seq(D)
      <4> HIDE DEF D, d
      <4> QED  BY <3>6, AppendProperties
    <3> QED  BY <3>2, <3>7
  <2> QED  BY <2>1, <2>2
<1>4. FlowPlanTypeOK'
  BY <1>1, <1>2, <1>3 DEF PlanInv, FlowPlanTypeOK, sortVars
<1>5. Made'
  BY <1>1 DEF PlanInv, Made, sortVars
<1>6. Sorting'
  BY <1>1, SortingStays DEF PlanInv, sortVars
<1>7. AcceptsWhatRuns'
  BY <1>1 DEF AcceptsWhatRuns, sortVars
<1> QED  BY <1>4, <1>5, <1>6, <1>7 DEF PlanInv

\* validateFlowPlan starts on a plan with some dependencies.
LEMMA StartKeepsInv ==
  ASSUME PlanInv, validation = "none",
         NEW deps \in [DOMAIN steps -> SUBSET Targets], StartSort(deps),
         byHand' \in BOOLEAN,
         ~byHand' => \A i \in DOMAIN steps : deps[i] = DependsOn(i)
  PROVE  PlanInv'
<1>1. /\ plan' = [i \in DOMAIN steps |-> PlanNode(steps[i], deps[i])]
      /\ indegree' = [i \in DOMAIN steps |-> Cardinality(deps[i])]
      /\ queue' = {i \in DOMAIN steps : deps[i] = {}}
      /\ validation' = "sorting" /\ UNCHANGED <<builderVars, visited>>
  BY DEF StartSort
<1>2. visited' = 0 /\ visited = 0
  BY <1>1 DEF PlanInv, Made
<1>3. /\ DOMAIN plan' = DOMAIN steps
      /\ \A i \in DOMAIN steps : plan'[i].dependsOn = deps[i] /\ deps[i] \subseteq Targets
  BY <1>1 DEF PlanNode
<1>4. \A i \in DOMAIN steps : DependsOn(i)' = DependsOn(i)
  BY <1>1 DEF DependsOn, builderVars
<1>5. Made'
  <2>1. \A i \in DOMAIN steps : PlanNode(steps[i], deps[i])' = PlanNode(steps[i], deps[i])
    BY <1>1 DEF PlanNode, EdgesFrom, DeclaredFor, builderVars
  <2>2. steps' = steps
    BY <1>1 DEF builderVars
  <2>3. plan' = [i \in DOMAIN steps' |-> PlanNode(steps[i], deps[i])']
    BY <1>1, <2>1, <2>2
  <2>4. ~byHand' => \A i \in DOMAIN steps' : deps[i] = DependsOn(i)'
    BY <1>4, <2>2
  <2> QED  BY <1>1, <2>2, <2>3, <2>4 DEF Made
<1>6. Sorting'
  BY <1>1, <1>2, <1>3, SortStarts
<1>7. FlowPlanTypeOK'
  <2>1. queue' \subseteq DOMAIN plan' /\ indegree' \in [DOMAIN plan' -> Nat]
    BY <1>1, <1>3, DependenciesAreFinite
  <2>2. 0 \in 0..Len(plan')
    <3>1. Len(steps) \in Nat /\ DOMAIN steps = 1..Len(steps)
      BY StepsAreTyped DEF PlanInv
    <3> DEFINE S == {plan'[i] : i \in DOMAIN plan'}
    <3>2. plan' \in [1..Len(steps) -> S]
      BY <1>1, <3>1
    <3>3. plan' \in Seq(S)
      <4> HIDE DEF S
      <4> QED  BY <3>1, <3>2, SeqDef
    <3>4. Len(plan') \in Nat
      <4> HIDE DEF S
      <4> QED  BY <3>3, LenProperties
    <3> QED  BY <3>4
  <2> QED  BY <1>1, <1>2, <2>1, <2>2 DEF PlanInv, FlowPlanTypeOK, builderVars
<1>8. AcceptsWhatRuns'
  BY <1>1 DEF AcceptsWhatRuns
<1> QED  BY <1>5, <1>6, <1>7, <1>8 DEF PlanInv

LEMMA SubmissionKeepsInv ==
  ASSUME PlanInv, Build \/ HandIn
  PROVE  PlanInv'
<1>1. CASE Build
  <2> DEFINE deps == [i \in DOMAIN steps |-> DependsOn(i)]
  <2>1. deps \in [DOMAIN steps -> SUBSET Targets]
    <3>1. \A i \in DOMAIN steps : steps[i].id \in Targets
      BY StepsAreTyped, FlowPlanAssumption DEF PlanInv, StepRecords, Targets
    <3>2. DOMAIN steps = 1..Len(steps) /\ Len(steps) \in Nat
      BY StepsAreTyped DEF PlanInv
    <3>3. \A i \in DOMAIN steps : \A k \in 1..(i - 1) : k \in DOMAIN steps
      BY <3>2
    <3>4. \A i \in DOMAIN steps : DependsOn(i) \subseteq Targets
      BY <3>1, <3>3 DEF DependsOn
    <3> QED  BY <3>4
  <2>2. StartSort(deps) /\ validation = "none" /\ byHand' \in BOOLEAN
    BY <1>1 DEF Build, PlanInv, FlowPlanTypeOK
  <2>3. \A i \in DOMAIN steps : deps[i] = DependsOn(i)
    OBVIOUS
  <2> HIDE DEF deps
  <2> QED  BY <2>1, <2>2, <2>3, StartKeepsInv
<1>2. CASE HandIn
  <2>1. PICK deps \in [DOMAIN steps -> SUBSET Targets] : StartSort(deps)
    BY <1>2 DEF HandIn
  <2>2. validation = "none" /\ byHand' = TRUE
    BY <1>2 DEF HandIn
  <2> QED  BY <2>1, <2>2, StartKeepsInv
<1> QED  BY <1>1, <1>2

LEMMA VisitKeepsInv ==
  ASSUME PlanInv, VisitNode
  PROVE  PlanInv'
<1>1. validation = "sorting" /\ UNCHANGED <<builderVars, plan, byHand, validation>>
  BY DEF VisitNode
<1>2. Sorting' /\ FlowPlanTypeOK'
  BY <1>1, VisitKeepsSorting DEF PlanInv
<1>3. Made'
  BY <1>1, MadeStays DEF PlanInv
<1>4. AcceptsWhatRuns'
  BY <1>1 DEF AcceptsWhatRuns
<1> QED  BY <1>2, <1>3, <1>4 DEF PlanInv

\* The verdict: no check fails exactly if the plan can be run.
LEMMA VerdictIsRight ==
  ASSUME PlanInv, validation # "none", queue = {}
  PROVE  ~ (DuplicateId \/ MissingNeed \/ NotSorted \/ SegmentReentered
              \/ BadEdge \/ BadDeclaration) <=> Runnable /\ WellNamed
<1>1. FlowPlanTypeOK /\ Made
  BY DEF PlanInv
<1>2. PICK place : Visits(place) /\ (UniqueIds => Counts(place))
  BY DEF PlanInv, Sorting
<1>3. CASE ~UniqueIds
  BY <1>1, <1>3, IdsAreUniqueIffCounted DEF WellNamed
<1>4. CASE UniqueIds
  <2>1. ~NotSorted <=>
          \E rank \in [Ids -> 1..Len(plan)] : \A i \in DOMAIN plan :
            \A dep \in plan[i].dependsOn : dep \in Ids /\ rank[dep] < rank[plan[i].id]
    BY <1>1, <1>2, <1>4, SortedIffRanked
  <2>2. ~MissingNeed /\ ~NotSorted <=> Runnable
    BY <1>1, <2>1, NeedsAreMet DEF Runnable
  <2>3. ~SegmentReentered /\ ~BadEdge /\ ~BadDeclaration <=> WellNamed
    BY <1>1, <1>4, IdsAreUniqueIffCounted, SegmentsAreContiguous, EdgesAreSound,
       DeclarationsAreKept DEF WellNamed
  <2>4. ~DuplicateId
    BY <1>1, <1>4, IdsAreUniqueIffCounted
  <2> QED  BY <2>2, <2>3, <2>4
<1> QED  BY <1>3, <1>4

LEMMA ConcludeKeepsInv ==
  ASSUME PlanInv, Conclude
  PROVE  PlanInv'
<1>1. /\ validation = "sorting" /\ queue = {} /\ validation' \in {"accepted", "rejected"}
      /\ UNCHANGED <<builderVars, plan, byHand, queue, indegree, visited>>
  BY DEF Conclude
<1>2. FlowPlanTypeOK'
  BY <1>1 DEF PlanInv, FlowPlanTypeOK, builderVars
<1>3. Made'
  BY <1>1, MadeStays DEF PlanInv
<1>4. Sorting'
  BY <1>1, SortingStays DEF PlanInv
<1>5. validation' = "accepted" <=> Runnable /\ WellNamed
  <2>1. ~ (DuplicateId \/ MissingNeed \/ NotSorted \/ SegmentReentered
             \/ BadEdge \/ BadDeclaration) <=> Runnable /\ WellNamed
    BY <1>1, VerdictIsRight
  <2>2. validation' = IF DuplicateId \/ MissingNeed \/ NotSorted \/ SegmentReentered
                           \/ BadEdge \/ BadDeclaration
                      THEN "rejected" ELSE "accepted"
    BY DEF Conclude
  <2> QED  BY <2>1, <2>2
<1>6. (Runnable <=> Runnable') /\ (WellNamed <=> WellNamed')
  BY <1>1 DEF Runnable, WellNamed, Ids, builderVars
<1>7. ASSUME ~byHand
      PROVE  \A i \in DOMAIN plan : plan[i].dependsOn \subseteq {plan[k].id : k \in 1..(i - 1)}
  <2>1. /\ DOMAIN plan = DOMAIN steps /\ DOMAIN plan = 1..Len(plan) /\ Len(plan) \in Nat
        /\ \A i \in DOMAIN plan : /\ plan[i].id = steps[i].id
                                  /\ plan[i].dependsOn = DependsOn(i)
    BY <1>1, <1>7, NodesAreTyped DEF PlanInv
  <2>2. \A i \in DOMAIN plan : \A k \in 1..(i - 1) : k \in DOMAIN plan
    BY <2>1
  <2> QED  BY <2>1, <2>2 DEF DependsOn
<1>8. AcceptsWhatRuns'
  BY <1>1, <1>5, <1>6, <1>7 DEF AcceptsWhatRuns
<1> QED  BY <1>2, <1>3, <1>4, <1>8 DEF PlanInv

LEMMA PlanStep == PlanInv /\ [FlowPlanNext]_planVars => PlanInv'
<1> SUFFICES ASSUME PlanInv, [FlowPlanNext]_planVars PROVE PlanInv'
  OBVIOUS
<1>1. CASE UNCHANGED planVars
  <2>1. UNCHANGED builderVars /\ UNCHANGED sortVars
    BY <1>1 DEF planVars
  <2>2. Sorting'
    BY <2>1, SortingStays DEF PlanInv, sortVars
  <2>3. Made'
    BY <2>1, MadeStays DEF PlanInv, sortVars
  <2>4. FlowPlanTypeOK'
    BY <2>1 DEF PlanInv, FlowPlanTypeOK, builderVars, sortVars
  <2>5. UNCHANGED <<initial, declared, plan, byHand, validation>>
    BY <2>1 DEF builderVars, sortVars
  <2>6. (Runnable <=> Runnable') /\ (WellNamed <=> WellNamed')
    BY <2>5 DEF Runnable, WellNamed, Ids
  <2>7. AcceptsWhatRuns'
    BY <2>5, <2>6 DEF PlanInv, AcceptsWhatRuns
  <2> QED  BY <2>2, <2>3, <2>4, <2>7 DEF PlanInv
<1> QED  BY <1>1, BuilderKeepsInv, SubmissionKeepsInv, VisitKeepsInv,
            ConcludeKeepsInv DEF FlowPlanNext

\* The builder and validateFlowPlan stay well typed; Kahn's algorithm visits no more
\* nodes than there are, also when two of them have one id.
THEOREM PlanTypeCorrect == FlowPlanSpec => []FlowPlanTypeOK
<1>1. PlanInv => FlowPlanTypeOK
  BY DEF PlanInv
<1> QED  BY <1>1, PlanInitInv, PlanStep, PTL DEF FlowPlanSpec

\* validateFlowPlan accepts exactly the plans that runFlow can run: those whose steps can
\* be ranked behind their dependencies, with needs that are met, segments in one piece
\* and edges that lead somewhere; for plans of any length, by the builder or by hand.
THEOREM ValidationIsExact == FlowPlanSpec => []AcceptsWhatRuns
<1>1. PlanInv => AcceptsWhatRuns
  BY DEF PlanInv
<1> QED  BY <1>1, PlanInitInv, PlanStep, PTL DEF FlowPlanSpec
=============================================================================
