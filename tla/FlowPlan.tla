------------------------------ MODULE FlowPlan ------------------------------
(***************************************************************************)
(* How a flow comes to be (flow/flow.ts, flow/plan.ts): steps are added in *)
(* order, recovery edges are declared, the builder derives the plan and    *)
(* validates it.  validateFlowPlan also takes plans that no builder made.  *)
(* FlowRun is about the plans that are accepted here.                      *)
(*                                                                         *)
(* Types keep a step from needing what nothing provides; validateFlowPlan  *)
(* is what stands behind the types, so that the steps here are any.        *)
(***************************************************************************)
EXTENDS Naturals, Sequences, FiniteSets

CONSTANTS
  MaxSteps,  \* bound on steps; their ids are numbers from 1
  Keys,      \* keys of the flow's state
  Segments,  \* segment names
  MaxEdges   \* bound on recovery edges

ASSUME FlowPlanAssumption ==
  MaxSteps \in Nat \ {0} /\ IsFiniteSet(Keys) /\ Segments # {} /\ MaxEdges \in Nat

\* 0 is an id that no step has.
Targets == 0..MaxSteps

VARIABLES
  initial,    \* initialKeys
  steps,      \* steps added so far
  declared,   \* recovery declarations so far
  plan,       \* the plan's nodes
  byHand,     \* was the plan made without a builder?
  queue,      \* Kahn's algorithm: nodes whose dependencies have been visited; the
              \* order in which they wait decides nothing and is left out
  indegree,   \* node: dependencies that have not
  visited,    \* nodes taken from the queue
  validation  \* "none", "sorting", "accepted", "rejected"

builderVars == <<initial, steps, declared>>
sortVars == <<plan, byHand, queue, indegree, visited, validation>>
planVars == <<builderVars, sortVars>>

StepRecords == [id : 1..MaxSteps, needs : SUBSET Keys, provides : SUBSET Keys,
                segment : Segments]
\* maxReentries defaults to 1; 0 stands for what is no positive integer.
RecoveryEdges == [to : Targets, maxReentries : 0..1]

FlowPlanTypeOK ==
  /\ initial \subseteq Keys /\ steps \in Seq(StepRecords)
  /\ declared \in Seq([from : Targets, edges : Seq(RecoveryEdges)])
  /\ queue \subseteq DOMAIN plan /\ indegree \in [DOMAIN plan -> Nat]
  /\ visited \in 0..Len(plan) /\ byHand \in BOOLEAN
  /\ validation \in {"none", "sorting", "accepted", "rejected"}

FlowPlanInit ==
  /\ initial \in SUBSET Keys /\ steps = <<>> /\ declared = <<>>
  /\ plan = <<>> /\ byHand = FALSE /\ queue = {} /\ indegree = <<>>
  /\ visited = 0 /\ validation = "none"

-----------------------------------------------------------------------------
(* The builder.                                                            *)

\* add.
AddStep ==
  /\ validation = "none" /\ Len(steps) < MaxSteps /\ declared = <<>>
  /\ \E step \in StepRecords : steps' = Append(steps, step)
  /\ UNCHANGED <<initial, declared, sortVars>>

\* Bound: recovery edges, and dependencies made by hand, are tried out on steps
\* that differ in nothing else.
Bare ==
  /\ initial = {}
  /\ \A i \in DOMAIN steps : /\ steps[i].id = i /\ steps[i].segment = steps[1].segment
                             /\ steps[i].needs \cup steps[i].provides = {}

\* recover.
Recover ==
  /\ validation = "none" /\ Bare /\ Len(declared) < 2
  /\ \E from \in Targets, n \in 0..MaxEdges : \E edges \in [1..n -> RecoveryEdges] :
       /\ declared # <<>> => Len(declared[1].edges) + n <= MaxEdges
       /\ declared' = Append(declared, [from |-> from, edges |-> edges])
  /\ UNCHANGED <<initial, steps, sortVars>>

\* deriveNodes: a step depends on the earlier ones that provide what it needs, and
\* has the edges that were declared for it first.
DependsOn(i) ==
  {steps[k].id : k \in {k \in 1..(i - 1) : steps[k].provides \cap steps[i].needs # {}}}
DeclaredFor(id) == {d \in DOMAIN declared : declared[d].from = id}
EdgesFrom(id) ==
  IF DeclaredFor(id) = {} THEN <<>>
  ELSE declared[CHOOSE d \in DeclaredFor(id) : \A c \in DeclaredFor(id) : d <= c].edges
PlanNode(step, deps) ==
  [id |-> step.id, needs |-> step.needs, provides |-> step.provides,
   segment |-> step.segment, dependsOn |-> deps, edges |-> EdgesFrom(step.id)]

\* validateFlowPlan begins to sort the nodes by their dependencies.
StartSort(deps) ==
  /\ plan' = [i \in DOMAIN steps |-> PlanNode(steps[i], deps[i])]
  /\ indegree' = [i \in DOMAIN steps |-> Cardinality(deps[i])]
  /\ queue' = {i \in DOMAIN steps : deps[i] = {}}
  /\ validation' = "sorting" /\ UNCHANGED <<builderVars, visited>>

\* build.
Build ==
  /\ validation = "none" /\ StartSort([i \in DOMAIN steps |-> DependsOn(i)])
  /\ UNCHANGED byHand

\* A plan that was made by hand may depend on anything.
HandIn ==
  /\ validation = "none" /\ Bare /\ declared = <<>> /\ byHand' = TRUE
  /\ \E deps \in [DOMAIN steps -> SUBSET Targets] : StartSort(deps)

-----------------------------------------------------------------------------
(* validateFlowPlan.                                                       *)

\* Kahn's algorithm takes the next node and releases its dependents.  (Where two
\* steps have one id, which the code keeps one count for, the plan is rejected.)
VisitNode ==
  /\ validation = "sorting" /\ visited' = visited + 1
  /\ \E v \in queue :
       LET Released(i) == plan[v].id \in plan[i].dependsOn /\ indegree[i] > 0
       IN /\ indegree' = [i \in DOMAIN plan |->
                            indegree[i] - (IF Released(i) THEN 1 ELSE 0)]
          /\ queue' = (queue \ {v})
                        \cup {i \in DOMAIN plan : Released(i) /\ indegree[i] = 1}
  /\ UNCHANGED <<builderVars, plan, byHand, validation>>

Ids == {plan[i].id : i \in DOMAIN plan}
DuplicateId == \E i, k \in DOMAIN plan : i < k /\ plan[i].id = plan[k].id
\* Variant for mutation: a step may need what it provides itself.
ProvidedUpTo(i) == initial \cup UNION {plan[k].provides : k \in 1..i}
ProvidedBefore(i) == initial \cup UNION {plan[k].provides : k \in 1..(i - 1)}
MissingNeed == \E i \in DOMAIN plan : ~(plan[i].needs \subseteq ProvidedBefore(i))
NotSorted ==
  visited < Len(plan) \/ \E i \in DOMAIN plan : ~(plan[i].dependsOn \subseteq Ids)
SegmentReentered ==
  \E i \in 2..Len(plan) : /\ plan[i].segment # plan[i - 1].segment
                          /\ \E k \in 1..(i - 1) : plan[k].segment = plan[i].segment
BadEdge ==
  \E i \in DOMAIN plan : LET edges == plan[i].edges IN \E e \in DOMAIN edges :
    \/ edges[e].to \notin Ids \/ edges[e].maxReentries < 1
    \/ \E f \in 1..(e - 1) : edges[f].to = edges[e].to
\* build looks at the declarations themselves, too.
BadDeclaration ==
  \E d \in DOMAIN declared : \/ declared[d].from \notin Ids \/ declared[d].edges = <<>>
                             \/ \E c \in 1..(d - 1) : declared[c].from = declared[d].from

Conclude ==
  /\ validation = "sorting" /\ queue = {}
  /\ validation' = IF DuplicateId \/ MissingNeed \/ NotSorted \/ SegmentReentered
                        \/ BadEdge \/ BadDeclaration
                   THEN "rejected" ELSE "accepted"
  /\ UNCHANGED <<builderVars, plan, byHand, queue, indegree, visited>>

FlowPlanNext == AddStep \/ Recover \/ Build \/ HandIn \/ VisitNode \/ Conclude
FlowPlanSpec == FlowPlanInit /\ [][FlowPlanNext]_planVars

-----------------------------------------------------------------------------
(* What runFlow relies on (ValidPlan of FlowRun), said without an algorithm. *)

\* Steps can be ranked so that each comes behind all it depends on, and in the order
\* of the plan none is without something it needs.
Runnable ==
  /\ \E rank \in [Ids -> 1..Len(plan)] : \A i \in DOMAIN plan :
       \A dep \in plan[i].dependsOn : dep \in Ids /\ rank[dep] < rank[plan[i].id]
  /\ \A i \in DOMAIN plan : \A key \in plan[i].needs \ initial :
       \E k \in DOMAIN plan : k < i /\ key \in plan[k].provides

\* Ids, segments and the keys of the budgets tell apart what they have to, an edge
\* leads to a step, and every declared edge is in the plan.
WellNamed ==
  /\ Cardinality(Ids) = Len(plan)
  /\ \A i, k \in DOMAIN plan : plan[i].segment = plan[k].segment =>
       \A m \in i..k : plan[m].segment = plan[i].segment
  /\ \A i \in DOMAIN plan : \A e, f \in DOMAIN plan[i].edges :
       /\ plan[i].edges[e].maxReentries > 0 /\ plan[i].edges[e].to \in Ids
       /\ plan[i].edges[e].to = plan[i].edges[f].to => e = f
  /\ \A c, d \in DOMAIN declared :
       /\ declared[c].from = declared[d].from => c = d
       /\ declared[d].edges # <<>>
       /\ \E i \in DOMAIN plan :
            plan[i].id = declared[d].from /\ plan[i].edges = declared[d].edges

\* validateFlowPlan accepts exactly the plans that runFlow can run, whoever made
\* them, and a plan of the builder lists its steps behind what they depend on.
AcceptsWhatRuns ==
  validation \in {"accepted", "rejected"} =>
    /\ validation = "accepted" <=> Runnable /\ WellNamed
    /\ validation = "accepted" /\ ~byHand =>
         \A i \in DOMAIN plan : plan[i].dependsOn \subseteq {plan[k].id : k \in 1..(i - 1)}
=============================================================================
