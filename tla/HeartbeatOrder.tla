--------------------------- MODULE HeartbeatOrder ---------------------------
(***************************************************************************)
(* The order in which a heartbeat visits its candidates                    *)
(* (server/handler.ts, orderHeartbeatCandidateGroups): a request names     *)
(* demands, each a group of candidates with a weight, and the groups take  *)
(* turns in proportion to their weights.  Since only the first maxJobs     *)
(* stale candidates get a job, the order decides who starves.              *)
(***************************************************************************)
EXTENDS Integers

CONSTANTS
  NumGroups,  \* demands of the request
  Weights,    \* weights they may have
  MaxSize,    \* candidates a demand may have
  WeightCap   \* 100

Groups == 1..NumGroups

ASSUME OrderAssumption ==
  /\ NumGroups \in Nat /\ Weights \subseteq Int /\ MaxSize \in Nat
  /\ WeightCap \in Nat \ {0}

VARIABLES
  weight,  \* group: weight of the demand
  size,    \* group: number of its candidates
  served   \* group: candidates that are in the order already

orderVars == <<weight, size, served>>

OrderTypeOK ==
  /\ weight \in [Groups -> Weights]
  /\ size \in [Groups -> 0..MaxSize]
  /\ served \in [Groups -> 0..MaxSize]
  /\ \A g \in Groups : served[g] <= size[g]

\* heartbeatSchedulingWeight.
SchedulingWeight(g) ==
  IF weight[g] < 1 THEN 1
  ELSE IF weight[g] > WeightCap THEN WeightCap ELSE weight[g]

Unfinished(g) == served[g] < size[g]

\* The comparison of two shares, served / schedulingWeight.
LessShare(a, b) ==
  served[a] * SchedulingWeight(b) < served[b] * SchedulingWeight(a)

\* Variant for mutation: the heaviest group goes first.
BeforeByWeight(a, b) ==
  weight[a] > weight[b] \/ (weight[a] = weight[b] /\ a <= b)

\* The sort: by share, then by weight as given, then by place in the request.
Before(a, b) ==
  \/ LessShare(a, b)
  \/ /\ ~LessShare(b, a)
     /\ weight[a] > weight[b] \/ (weight[a] = weight[b] /\ a <= b)

OrderInit ==
  /\ weight \in [Groups -> Weights]
  /\ size \in [Groups -> 0..MaxSize]
  /\ served = [g \in Groups |-> 0]

\* The next candidate of the group that comes first.
PickNext ==
  /\ \E g \in Groups :
       /\ Unfinished(g)
       /\ \A h \in Groups : Unfinished(h) => Before(g, h)
       /\ served' = [served EXCEPT ![g] = @ + 1]
  /\ UNCHANGED <<weight, size>>

OrderSpec == OrderInit /\ [][PickNext]_orderVars

-----------------------------------------------------------------------------
\* Wherever the list is cut off, no group is ahead of one that still has candidates
\* by more than one of its own turns, measured in shares; negative, huge and equal
\* weights included.
FairShares ==
  \A a, b \in Groups :
    Unfinished(a) =>
      (served[b] - 1) * SchedulingWeight(a) <= served[a] * SchedulingWeight(b)
=============================================================================
