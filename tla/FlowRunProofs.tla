--------------------------- MODULE FlowRunProofs ---------------------------
(***************************************************************************)
(* Theorems about runFlow, for every plan that validateFlowPlan accepts,   *)
(* any number of leases and, unless a theorem says otherwise, any number   *)
(* of failed journal appends and reads.                                    *)
(***************************************************************************)
EXTENDS FlowRun, FiniteSetTheorems, TLAPS

-----------------------------------------------------------------------------
(* Type correctness.                                                       *)

LEMMA NodeBounds == Node \subseteq Nat /\ N \in Nat /\ 1 <= N
BY PlanAssumption DEF ValidPlan, Node

LEMMA TokenEdges ==
  ASSUME NEW token \in Tokens
  PROVE  token[1][1] \in Node /\ token[1][2] \in Node /\ token[1] \in Edge
BY PlanAssumption DEF ValidPlan, Tokens

LEMMA InitType == Init => TypeOK
BY PlanAssumption DEF ValidPlan, Init, Idle, TypeOK, Node, Row, Reason

\* A checkpoint appends one row of the step, or counts as a lost append.
LEMMA CheckpointType ==
  ASSUME TypeOK, NEW row \in Row, Checkpoint(row)
  PROVE  journal' \in Seq(Row) /\ lost' \in 0..LostAppends
<1>1. CASE journal' = Append(journal, row) /\ UNCHANGED lost
  BY <1>1 DEF TypeOK
<1>2. CASE lost < LostAppends /\ lost' = lost + 1 /\ UNCHANGED journal
  BY <1>2, PlanAssumption DEF ValidPlan, TypeOK
<1> QED BY <1>1, <1>2 DEF Checkpoint

LEMMA HighestType ==
  ASSUME NEW S, S \subseteq Nat PROVE Highest(S) \in Nat
BY DEF Highest

LEMMA SeedsType ==
  ASSUME NEW rows \in Seq(Row) PROVE SeedsOf(rows) \in [Node -> Nat]
<1> SUFFICES ASSUME NEW n \in Node PROVE SeedsOf(rows)[n] \in Nat
  BY DEF SeedsOf
<1>1. \A i \in DOMAIN rows : rows[i].attempt \in Nat
  <2> SUFFICES ASSUME NEW i \in DOMAIN rows PROVE rows[i].attempt \in Nat
    OBVIOUS
  <2>1. rows[i] \in Row
    OBVIOUS
  <2> QED BY <2>1 DEF Row
<1>2. {rows[i].attempt : i \in {k \in DOMAIN rows : rows[k].step = n}}
        \subseteq Nat
  BY <1>1
<1> QED BY <1>2, HighestType DEF SeedsOf

LEMMA SkippedType ==
  ASSUME NEW rows \in Seq(Row), NEW start \in 1..(N + 1)
  PROVE  Skipped(start, SeedsOf(rows)) \in Seq(Row)
<1> DEFINE seeds == SeedsOf(rows)
<1>1. start - 1 \in Nat /\ 1..(start - 1) \subseteq Node
  BY NodeBounds DEF Node
<1>2. ASSUME NEW i \in 1..(start - 1)
      PROVE  [step |-> i, attempt |-> IF seeds[i] = 0 THEN 1 ELSE seeds[i],
              status |-> "skipped_resume", delta |-> {}] \in Row
  <2>1. i \in Node /\ seeds[i] \in Nat
    BY <1>1, SeedsType
  <2> QED BY <2>1 DEF Row, RowStatus
<1>3. Skipped(start, SeedsOf(rows)) \in [1..(start - 1) -> Row]
  BY <1>2 DEF Skipped
<1> QED BY <1>1, <1>3

LEMMA StartRunType ==
  ASSUME TypeOK, NEW rows \in Seq(Row), NEW start \in 1..(N + 1),
         NEW keys \in SUBSET Node, StartRun(rows, start, keys)
  PROVE  /\ pc' \in {"entering", "failed"}
         /\ index' \in 1..(N + 1)
         /\ executions' \in Nat
         /\ left' \subseteq Tokens
         /\ provided' \subseteq Node
         /\ attempts' \in [Node -> Nat]
         /\ succeeded' \in Seq(Node)
         /\ reason' \in Reason
         /\ journal' \in Seq(Row)
<1>1. journal' \in Seq(Row)
  BY SkippedType DEF TypeOK, StartRun
<1>2. attempts' \in [Node -> Nat]
  BY SeedsType DEF StartRun
<1> QED BY <1>1, <1>2 DEF StartRun, Reason

LEMMA BoundaryType ==
  ASSUME NEW rows \in Seq(Row), NEW i \in Boundaries(rows)
  PROVE  /\ rows[i] \in Row
         /\ rows[i].step \in Node /\ rows[i].step + 1 \in 1..(N + 1)
         /\ rows[i].delta \in SUBSET Node
<1>1. rows[i] \in Row
  BY DEF Boundaries
<1>2. rows[i].step \in Node /\ rows[i].delta \in SUBSET Node
  BY <1>1 DEF Row
<1> QED BY <1>1, <1>2, NodeBounds DEF Node

\* A hydrated run starts at the head of the plan or behind a boundary row.
LEMMA HydrateCases ==
  ASSUME NEW rows \in Seq(Row), Hydrate(rows)
  PROVE  \E start \in 1..(N + 1), keys \in SUBSET Node :
           /\ StartRun(rows, start, keys)
           /\ \/ start = 1 /\ keys = {}
              \/ \E i \in Boundaries(rows) :
                   start = rows[i].step + 1 /\ keys = rows[i].delta
<1>1. CASE StartRun(rows, 1, {})
  <2>1. 1 \in 1..(N + 1) /\ {} \in SUBSET Node
    BY NodeBounds
  <2> QED BY <1>1, <2>1
<1>2. CASE \E last \in Boundaries(rows) :
             StartRun(rows, rows[last].step + 1, rows[last].delta)
  <2>1. PICK last \in Boundaries(rows) :
          StartRun(rows, rows[last].step + 1, rows[last].delta)
    BY <1>2
  <2>2. rows[last].step + 1 \in 1..(N + 1) /\ rows[last].delta \in SUBSET Node
    BY BoundaryType
  <2> QED BY <2>1, <2>2
<1> QED BY <1>1, <1>2 DEF Hydrate

LEMMA LeaseType == ASSUME TypeOK, Lease PROVE TypeOK'
<1>1. /\ leases' \in 0..Leases
      /\ UNCHANGED <<runs, lost>>
      /\ unread' \in 0..FailedReads
  BY PlanAssumption DEF ValidPlan, TypeOK, Lease
<1>2. PICK rows \in Seq(Row) : Hydrate(rows)
  <2>1. journal \in Seq(Row) /\ <<>> \in Seq(Row)
    BY DEF TypeOK
  <2> QED BY <2>1 DEF Lease
<1>3. PICK start \in 1..(N + 1), keys \in SUBSET Node :
        StartRun(rows, start, keys)
  BY <1>2, HydrateCases
<1> QED BY <1>1, <1>3, StartRunType DEF TypeOK

LEMMA RowOfType ==
  ASSUME TypeOK, NEW n \in Node, NEW s \in RowStatus, NEW d \in SUBSET Node
  PROVE  RowOf(n, s, d) \in Row
BY DEF TypeOK, RowOf, Row

LEMMA FoldType == ASSUME TypeOK, Fold PROVE TypeOK'
<1>1. CASE EnterSegment
  <2>1. pc' = "ready" => index' \in Node
    BY <1>1 DEF EnterSegment, TypeOK, FailWith, Node
  <2> QED BY <1>1, <2>1 DEF EnterSegment, FailWith, TypeOK, Reason
<1>2. CASE Finish
  BY <1>2 DEF Finish, TypeOK, runVars
<1>3. CASE StartNode
  <2>1. index \in Node
    BY <1>3 DEF StartNode, TypeOK
  <2>2. [RowOf(index, "started", {}) EXCEPT !.attempt = @ + 1] \in Row
    <3>1. attempts[index] + 1 \in Nat
      BY <2>1 DEF TypeOK
    <3>2. [RowOf(index, "started", {}) EXCEPT !.attempt = @ + 1]
            = [step |-> index, attempt |-> attempts[index] + 1,
               status |-> "started", delta |-> {}]
      BY DEF RowOf
    <3> QED BY <2>1, <3>1, <3>2 DEF Row, RowStatus
  <2>3. journal' \in Seq(Row) /\ lost' \in 0..LostAppends
    BY <1>3, <2>2, CheckpointType DEF StartNode
  <2>4. /\ attempts' \in [Node -> Nat] /\ runs' \in [Node -> Nat]
        /\ executions' \in Nat
    BY <1>3, <2>1 DEF StartNode, TypeOK
  <2>5. /\ UNCHANGED <<index, left, provided, succeeded, reason, leases, unread>>
        /\ pc' = "stepping"
    BY <1>3 DEF StartNode
  <2> QED BY <2>1, <2>3, <2>4, <2>5 DEF TypeOK
<1>4. CASE RefuseNode
  <2>1. reason' \in Reason /\ pc' = "unwinding"
    BY <1>4 DEF RefuseNode, FailWith, Reason
  <2>2. attempts' \in [Node -> Nat] /\ executions' \in Nat
    BY <1>4 DEF RefuseNode, TypeOK
  <2> QED BY <1>4, <2>1, <2>2 DEF RefuseNode, TypeOK
<1>5. CASE FailNode
  <2>1. RowOf(index, "failed", {}) \in Row
    BY <1>5, RowOfType DEF FailNode, TypeOK, RowStatus
  <2>2. journal' \in Seq(Row) /\ lost' \in 0..LostAppends
    BY <1>5, <2>1, CheckpointType DEF FailNode
  <2> QED BY <1>5, <2>2 DEF FailNode, FailWith, TypeOK, Reason
<1>6. CASE Reroute
  <2>1. RowOf(index, "rerouted", {}) \in Row
    BY <1>6, RowOfType DEF Reroute, TypeOK, RowStatus
  <2>2. journal' \in Seq(Row) /\ lost' \in 0..LostAppends
    BY <1>6, <2>1, CheckpointType DEF Reroute
  <2>3. PICK token \in left : left' = left \ {token} /\ index' = token[1][2]
    BY <1>6 DEF Reroute
  <2>4. index' \in Node /\ index' \in 1..(N + 1)
    BY <2>3, TokenEdges, NodeBounds DEF TypeOK, Node
  <2> QED BY <1>6, <2>2, <2>3, <2>4 DEF Reroute, TypeOK
<1>7. CASE CompleteNode
  <2>1. index \in Node /\ provided \cup {index} \in SUBSET Node
    BY <1>7 DEF CompleteNode, TypeOK
  <2>2. RowOf(index, "completed", IF SegmentEnd(index) THEN provided' ELSE {})
          \in Row
    BY <1>7, <2>1, RowOfType DEF CompleteNode, RowStatus
  <2>3. journal' \in Seq(Row) /\ lost' \in 0..LostAppends
    BY <1>7, <2>2, CheckpointType DEF CompleteNode
  <2>4. index' \in 1..(N + 1)
    BY <1>7, <2>1, NodeBounds DEF CompleteNode, Node
  <2>5. pc' = "ready" => index' \in Node
    BY <1>7, <2>1, NodeBounds DEF CompleteNode, Node, SegmentEnd
  <2>6. succeeded' \in Seq(Node)
    BY <1>7, <2>1 DEF CompleteNode, TypeOK
  <2> QED BY <1>7, <2>1, <2>3, <2>4, <2>5, <2>6 DEF CompleteNode, TypeOK
<1>8. CASE Compensate
  <2>1. succeeded[Len(succeeded)] \in Node
    BY <1>8 DEF Compensate, TypeOK
  <2>2. RowOf(succeeded[Len(succeeded)], "compensated", {}) \in Row
    BY <2>1, RowOfType DEF RowStatus
  <2>3. journal' \in Seq(Row) /\ lost' \in 0..LostAppends
    BY <1>8, <2>2, CheckpointType DEF Compensate, TypeOK
  <2>4. succeeded' \in Seq(Node)
    BY <1>8 DEF Compensate, TypeOK
  <2> QED BY <1>8, <2>3, <2>4 DEF Compensate, TypeOK
<1>9. CASE Unwound
  BY <1>9 DEF Unwound, TypeOK, runVars
<1> QED
  BY <1>1, <1>2, <1>3, <1>4, <1>5, <1>6, <1>7, <1>8, <1>9 DEF Fold

LEMMA CrashType == ASSUME TypeOK, Crash PROVE TypeOK'
BY NodeBounds DEF Crash, TypeOK, Reason

LEMMA NextType == TypeOK /\ [Next]_vars => TypeOK'
<1> SUFFICES ASSUME TypeOK, [Next]_vars PROVE TypeOK'
  OBVIOUS
<1>1. CASE UNCHANGED vars
  BY <1>1 DEF TypeOK, vars, runVars
<1> QED BY <1>1, LeaseType, FoldType, CrashType DEF Next

\* Every state of every run is well typed; in particular a resumed run never
\* starts outside the plan and never restores a key no step provides.
THEOREM TypeCorrect == Spec => []TypeOK
BY InitType, NextType, PTL DEF Spec

-----------------------------------------------------------------------------
(* The termination bound.  Spent counts the re-entries a run has used: what *)
(* is left of the bound always pays for the walk from the current node to   *)
(* the end of the plan, once more for every re-entry still allowed.         *)

Spent == Cardinality(Tokens \ left)

WithinBound ==
  /\ reason # "TERMINATION_BOUND_EXCEEDED"
  /\ pc \in {"entering", "ready"} => executions + 1 <= N * Spent + index
  /\ pc = "stepping" => executions <= N * Spent + index

LEMMA TokensFinite == IsFiniteSet(Tokens)
<1>1. IsFiniteSet(Node)
  BY FS_Interval, NodeBounds DEF Node
<1>2. IsFiniteSet(Edge)
  <2>1. IsFiniteSet(Node \X Node)
    BY <1>1, FS_Product
  <2> QED BY <2>1, FS_Subset, PlanAssumption DEF ValidPlan
<1>3. ASSUME NEW e \in Edge PROVE IsFiniteSet({e} \X (1..Reentries[e]))
  <2>1. Reentries[e] \in Int /\ 1 \in Int
    BY PlanAssumption DEF ValidPlan
  <2>2. IsFiniteSet(1..Reentries[e])
    BY <2>1, FS_Interval
  <2>3. IsFiniteSet({e})
    BY FS_Singleton
  <2> QED BY <2>2, <2>3, FS_Product
<1> DEFINE Part == [e \in Edge |-> {e} \X (1..Reentries[e])]
           Parts == {Part[e] : e \in Edge}
<1>4. IsFiniteSet(Parts)
  <2>1. Part \in Surjection(Edge, Parts)
    BY DEF Surjection
  <2> QED BY <1>2, <2>1, FS_Surjection
<1>5. \A T \in Parts : IsFiniteSet(T)
  BY <1>3
<1>6. Tokens = UNION Parts
  BY DEF Tokens
<1> QED BY <1>4, <1>5, <1>6, FS_UNION

LEMMA SpentType ==
  ASSUME NEW L \in SUBSET Tokens
  PROVE  /\ IsFiniteSet(Tokens \ L)
         /\ Cardinality(Tokens \ L) \in Nat
         /\ Cardinality(Tokens) \in Nat
         /\ Cardinality(Tokens \ L) <= Cardinality(Tokens)
<1>1. IsFiniteSet(Tokens \ L)
  BY TokensFinite, FS_Difference
<1> QED BY <1>1, TokensFinite, FS_Subset, FS_CardinalityType

\* Taking a token costs one re-entry.
LEMMA SpendOne ==
  ASSUME NEW L \in SUBSET Tokens, NEW t \in L
  PROVE  Cardinality(Tokens \ (L \ {t})) = Cardinality(Tokens \ L) + 1
<1>1. Tokens \ (L \ {t}) = (Tokens \ L) \cup {t} /\ t \notin Tokens \ L
  OBVIOUS
<1> QED BY <1>1, SpentType, FS_AddElement

LEMMA Rounds ==
  ASSUME NEW n \in Nat, NEW s \in Nat
  PROVE  /\ n * (s + 1) = n * s + n
         /\ n * s \in Nat
         /\ \A c \in Nat : s <= c => n * s <= n * c
<1>1. n * (s + 1) = n * s + n /\ n * s \in Nat
  OBVIOUS
<1>2. ASSUME NEW c \in Nat, s <= c PROVE n * s <= n * c
  <2>1. PICK d \in Nat : c = s + d
    <3>1. c - s \in Nat /\ c = s + (c - s)
      BY <1>2
    <3> QED BY <3>1
  <2>2. n * (s + d) = n * s + n * d /\ n * d \in Nat
    OBVIOUS
  <2> QED BY <1>1, <2>1, <2>2
<1> QED BY <1>1, <1>2

LEMMA BoundStep ==
  ASSUME TypeOK, WithinBound, [Next]_vars PROVE WithinBound'
<1>1. Spent \in Nat /\ N \in Nat /\ N * Spent \in Nat
  BY SpentType, Rounds, NodeBounds DEF TypeOK, Spent
<1>2. left' = left => Spent' = Spent
  BY DEF Spent
<1>3. index \in Nat /\ executions \in Nat
  BY NodeBounds DEF TypeOK
<1>4. CASE UNCHANGED vars
  BY <1>2, <1>4 DEF WithinBound, vars, runVars
<1>5. CASE Lease
  <2>1. PICK rows \in Seq(Row) : Hydrate(rows)
    <3>1. journal \in Seq(Row) /\ <<>> \in Seq(Row)
      BY DEF TypeOK
    <3> QED BY <1>5, <3>1 DEF Lease
  <2>2. PICK start \in 1..(N + 1), keys \in SUBSET Node :
          StartRun(rows, start, keys)
    BY <2>1, HydrateCases
  <2>3. /\ left' = Tokens /\ executions' = 0 /\ index' = start
        /\ pc' \in {"entering", "failed"}
        /\ reason' \in {"none", "EFFECTFUL_ONCE_REPLAY"}
    BY <2>2 DEF StartRun
  <2>4. Spent' = 0
    BY <2>3, FS_EmptySet DEF Spent
  <2>5. N * Spent' = 0 /\ start \in Nat /\ 1 <= start
    BY <2>4, NodeBounds
  <2> QED BY <2>3, <2>5 DEF WithinBound
<1>6. CASE EnterSegment
  BY <1>2, <1>6 DEF WithinBound, EnterSegment, FailWith
<1>7. CASE Finish
  BY <1>7 DEF WithinBound, Finish, runVars
<1>8. CASE StartNode
  BY <1>1, <1>2, <1>3, <1>8 DEF WithinBound, StartNode
<1>9. CASE RefuseNode
  <2>1. executions < ExecutionBound /\ ExecutionBound \in Nat
    <3> DEFINE C == Cardinality(Tokens)
    <3>1. C \in Nat /\ Spent <= C
      BY SpentType DEF TypeOK, Spent
    <3>2. N * Spent <= N * C /\ N * C \in Nat /\ ExecutionBound = N * C + N
      <4>1. N * Spent <= N * C
        BY <1>1, <3>1, Rounds
      <4>2. N * C \in Nat /\ N * (C + 1) = N * C + N
        BY <1>1, <3>1, Rounds
      <4>3. 1 + C = C + 1
        BY <3>1
      <4> QED BY <4>1, <4>2, <4>3 DEF ExecutionBound
    <3>3. index <= N
      BY <1>9, NodeBounds DEF RefuseNode, TypeOK, Node
    <3>4. executions + 1 <= N * Spent + index
      BY <1>9 DEF RefuseNode, WithinBound
    <3> HIDE DEF C
    <3> QED BY <1>1, <1>3, <3>1, <3>2, <3>3, <3>4
  <2>2. executions \in Nat /\ ~(executions >= ExecutionBound)
    BY <1>3, <2>1
  <2>3. pc' = "unwinding" /\ reason' = "MISSING_NEED"
    BY <1>9, <2>2 DEF RefuseNode, FailWith
  <2> QED BY <2>3 DEF WithinBound
<1>10. CASE FailNode
  BY <1>10 DEF WithinBound, FailNode, FailWith
<1>11. CASE Reroute
  <2>1. PICK t \in left : left' = left \ {t} /\ index' = t[1][2]
    BY <1>11 DEF Reroute
  <2>2. index' \in Nat /\ 1 <= index' /\ index <= N
    BY <1>11, <2>1, TokenEdges, NodeBounds DEF TypeOK, Node, Reroute
  <2>3. Spent' = Spent + 1
    BY <2>1, SpendOne DEF TypeOK, Spent
  <2>4. N * Spent' = N * Spent + N
    BY <1>1, <2>3, Rounds
  <2>5. executions' = executions /\ executions <= N * Spent + index
        /\ reason' = reason /\ pc' \in {"ready", "entering"}
    BY <1>11 DEF Reroute, WithinBound
  <2>6. executions' + 1 <= N * Spent' + index'
    BY <1>1, <1>3, <2>2, <2>4, <2>5
  <2> QED BY <2>5, <2>6 DEF WithinBound
<1>12. CASE CompleteNode
  BY <1>1, <1>2, <1>3, <1>12 DEF WithinBound, CompleteNode
<1>13. CASE Compensate
  BY <1>13 DEF WithinBound, Compensate
<1>14. CASE Unwound
  BY <1>14 DEF WithinBound, Unwound, runVars
<1>15. CASE Crash
  BY <1>15 DEF WithinBound, Crash
<1> QED
  BY <1>4, <1>5, <1>6, <1>7, <1>8, <1>9, <1>10, <1>11, <1>12, <1>13, <1>14,
     <1>15 DEF Next, Fold

\* The bound on executions that runFlow enforces is never what fails a run: the
\* re-entry budgets alone keep every run of every valid plan within it.
THEOREM BudgetsTerminate == Spec => []BoundNeverTrips
<1>1. Init => WithinBound
  BY DEF Init, Idle, WithinBound
<1>2. TypeOK /\ WithinBound /\ [Next]_vars => WithinBound'
  BY BoundStep
<1>3. WithinBound => BoundNeverTrips
  BY DEF WithinBound, BoundNeverTrips
<1> QED BY <1>1, <1>2, <1>3, TypeCorrect, PTL DEF Spec

-----------------------------------------------------------------------------
(* Effectful-once steps, across leases.                                    *)

NoEdgeCrosses ==
  \A e \in Edge, n \in EffectfulOnce : ~(e[2] <= n /\ n <= e[1])

ReliableJournal == LostAppends = 0 /\ FailedReads = 0

\* A submit that ran is in the journal, and a live run stands behind it.
SubmitIsBehind ==
  \A n \in EffectfulOnce :
    /\ runs[n] <= 1
    /\ runs[n] > 0 => Executed(journal, n)
    /\ pc \in {"entering", "ready"} /\ runs[n] > 0 => n < index
    /\ pc = "stepping" /\ runs[n] > 0 => n <= index

LEMMA ExecutedGrows ==
  ASSUME NEW rows \in Seq(Row), NEW more \in Seq(Row), NEW n
  PROVE  Executed(rows, n) => Executed(rows \o more, n)
BY DEF Executed

LEMMA ExecutedKept ==
  ASSUME NEW rows \in Seq(Row), NEW row \in Row, NEW n
  PROVE  Executed(rows, n) => Executed(Append(rows, row), n)
BY DEF Executed

LEMMA ReliableCheckpoint ==
  ASSUME TypeOK, ReliableJournal, NEW row \in Row, Checkpoint(row)
  PROVE  /\ journal' = Append(journal, row)
         /\ \A n : Executed(journal, n) => Executed(journal', n)
<1>1. journal' = Append(journal, row)
  BY DEF TypeOK, ReliableJournal, Checkpoint
<1> QED BY <1>1, ExecutedKept DEF TypeOK

LEMMA OnceStep ==
  ASSUME TypeOK, SubmitIsBehind, NoEdgeCrosses, ReliableJournal, [Next]_vars
  PROVE  SubmitIsBehind'
<1>1. EffectfulOnce \subseteq Node /\ Node \subseteq Nat /\ index \in Nat
      /\ N \in Nat
  BY PlanAssumption, NodeBounds DEF ValidPlan, TypeOK
<1>2. CASE UNCHANGED vars
  BY <1>2 DEF SubmitIsBehind, vars, runVars
<1>3. CASE Lease
  <2>1. Hydrate(journal) /\ journal \in Seq(Row) /\ runs' = runs
    BY <1>3 DEF Lease, TypeOK, ReliableJournal
  <2>2. PICK start \in 1..(N + 1), keys \in SUBSET Node :
          StartRun(journal, start, keys)
    BY <2>1, HydrateCases
  <2>3. \A n : Executed(journal, n) => Executed(journal', n)
    BY <2>1, <2>2, SkippedType, ExecutedGrows DEF StartRun
  <2>4. pc' \in {"entering", "failed"} /\ index' = start
        /\ (pc' = "entering" =>
              \A n \in EffectfulOnce : ~(n >= start /\ Executed(journal, n)))
    BY <2>2 DEF StartRun
  <2>5. start \in Nat
    BY <1>1
  <2> QED BY <1>1, <2>1, <2>3, <2>4, <2>5 DEF SubmitIsBehind
<1>4. CASE EnterSegment
  BY <1>4 DEF SubmitIsBehind, EnterSegment, FailWith
<1>5. CASE Finish
  BY <1>5 DEF SubmitIsBehind, Finish, runVars
<1>6. CASE StartNode
  <2> DEFINE row == [RowOf(index, "started", {}) EXCEPT !.attempt = @ + 1]
  <2>1. index \in Node /\ pc' = "stepping" /\ index' = index
        /\ runs' = [runs EXCEPT ![index] = @ + 1] /\ pc = "ready"
    BY <1>6 DEF StartNode, TypeOK
  <2>2. row \in Row /\ row.step = index /\ row.status = "started"
    <3>1. attempts[index] + 1 \in Nat
      BY <2>1 DEF TypeOK
    <3>2. row = [step |-> index, attempt |-> attempts[index] + 1,
                 status |-> "started", delta |-> {}]
      BY DEF RowOf
    <3> QED BY <2>1, <3>1, <3>2 DEF Row, RowStatus
  <2> HIDE DEF row
  <2>3. Checkpoint(row)
    BY <1>6 DEF StartNode, row
  <2>4. journal' = Append(journal, row)
        /\ \A n : Executed(journal, n) => Executed(journal', n)
    BY <2>2, <2>3, ReliableCheckpoint
  <2>5. Executed(journal', index)
    <3>1. journal' \in Seq(Row) /\ journal'[Len(journal) + 1] = row
          /\ Len(journal) + 1 \in DOMAIN journal'
      BY <2>2, <2>4 DEF TypeOK
    <3> QED BY <2>2, <3>1 DEF Executed
  <2> SUFFICES ASSUME NEW n \in EffectfulOnce
               PROVE  /\ runs'[n] <= 1
                      /\ runs'[n] > 0 => Executed(journal', n)
                      /\ runs'[n] > 0 => n <= index
    BY <2>1 DEF SubmitIsBehind
  <2>6. CASE n = index
    <3>1. runs[n] \in Nat /\ ~(runs[n] > 0)
      BY <1>1, <2>1, <2>6 DEF SubmitIsBehind, TypeOK
    <3> QED BY <1>1, <2>1, <2>5, <2>6, <3>1 DEF TypeOK
  <2>7. CASE n # index
    <3>1. runs'[n] = runs[n] /\ n \in Nat
      BY <1>1, <2>1, <2>7 DEF TypeOK
    <3> QED BY <1>1, <2>1, <2>4, <3>1 DEF SubmitIsBehind
  <2> QED BY <2>6, <2>7
<1>7. CASE RefuseNode
  BY <1>7 DEF SubmitIsBehind, RefuseNode, FailWith
<1>8. CASE FailNode
  <2>1. RowOf(index, "failed", {}) \in Row
    BY <1>8, RowOfType DEF FailNode, TypeOK, RowStatus
  <2>2. \A n : Executed(journal, n) => Executed(journal', n)
    BY <1>8, <2>1, ReliableCheckpoint DEF FailNode
  <2> QED BY <1>8, <2>2 DEF SubmitIsBehind, FailNode, FailWith
<1>9. CASE Reroute
  <2>1. RowOf(index, "rerouted", {}) \in Row
    BY <1>9, RowOfType DEF Reroute, TypeOK, RowStatus
  <2>2. \A n : Executed(journal, n) => Executed(journal', n)
    BY <1>9, <2>1, ReliableCheckpoint DEF Reroute
  <2>3. PICK t \in left : t[1][1] = index /\ index' = t[1][2]
    BY <1>9 DEF Reroute
  <2>4. t[1] \in Edge /\ index' \in Nat
    BY <1>1, <2>3, TokenEdges DEF TypeOK
  <2>5. \A n \in EffectfulOnce : n <= index => n < index'
    BY <1>1, <2>3, <2>4 DEF NoEdgeCrosses
  <2>6. pc = "stepping" /\ pc' \in {"ready", "entering"} /\ runs' = runs
    BY <1>9 DEF Reroute
  <2> QED BY <2>2, <2>5, <2>6 DEF SubmitIsBehind
<1>10. CASE CompleteNode
  <2>1. index \in Node /\ provided \cup {index} \in SUBSET Node
    BY <1>10 DEF CompleteNode, TypeOK
  <2>2. RowOf(index, "completed", IF SegmentEnd(index) THEN provided' ELSE {})
          \in Row
    BY <1>10, <2>1, RowOfType DEF CompleteNode, RowStatus
  <2>3. \A n : Executed(journal, n) => Executed(journal', n)
    BY <1>10, <2>2, ReliableCheckpoint DEF CompleteNode
  <2>4. pc = "stepping" /\ pc' \in {"ready", "entering"} /\ runs' = runs
        /\ index' = index + 1
    BY <1>10 DEF CompleteNode
  <2> QED BY <1>1, <2>3, <2>4 DEF SubmitIsBehind
<1>11. CASE Compensate
  <2>1. succeeded[Len(succeeded)] \in Node
    BY <1>11 DEF Compensate, TypeOK
  <2>2. RowOf(succeeded[Len(succeeded)], "compensated", {}) \in Row
    BY <2>1, RowOfType DEF RowStatus
  <2>3. \A n : Executed(journal, n) => Executed(journal', n)
    BY <1>11, <2>2, ReliableCheckpoint DEF Compensate
  <2> QED BY <1>11, <2>3 DEF SubmitIsBehind, Compensate
<1>12. CASE Unwound
  BY <1>12 DEF SubmitIsBehind, Unwound, runVars
<1>13. CASE Crash
  BY <1>13 DEF SubmitIsBehind, Crash
<1> QED
  BY <1>2, <1>3, <1>4, <1>5, <1>6, <1>7, <1>8, <1>9, <1>10, <1>11, <1>12,
     <1>13 DEF Next, Fold

\* If no recovery edge leads from behind an effectful-once step back to it or
\* before it, and no journal call fails, such a step runs at most once, however
\* often the job crashes and is leased again.
THEOREM EffectfulOnceAcrossLeases ==
  ASSUME NoEdgeCrosses, ReliableJournal
  PROVE  Spec => []EffectfulOnceRunsOnce
<1>1. Init => SubmitIsBehind
  BY PlanAssumption DEF ValidPlan, Init, SubmitIsBehind
<1>2. TypeOK /\ SubmitIsBehind /\ [Next]_vars => SubmitIsBehind'
  BY OnceStep
<1>3. SubmitIsBehind => EffectfulOnceRunsOnce
  BY DEF SubmitIsBehind, EffectfulOnceRunsOnce
<1> QED BY <1>1, <1>2, <1>3, TypeCorrect, PTL DEF Spec

-----------------------------------------------------------------------------
(* Nothing is missing, whatever is skipped, re-entered or lost.            *)

BackwardEdges == \A e \in Edge : e[2] <= e[1]

\* A row with a delta covers the plan up to its step, with steps that ran.
Grounded(row, ran) ==
  row.delta # {} =>
    1..row.step \subseteq row.delta /\ \A m \in row.delta : ran[m] > 0

\* So does the state of a live run, up to the node before the current one.
PrefixHeld ==
  /\ \A i \in DOMAIN journal : Grounded(journal[i], runs)
  /\ pc \in {"entering", "ready", "stepping", "done"} =>
       /\ 1..(index - 1) \subseteq provided
       /\ \A m \in provided : runs[m] > 0
  /\ pc = "stepping" => runs[index] > 0
  /\ pc = "done" => index = N + 1
  /\ reason # "MISSING_NEED"

LEMMA GroundedAppend ==
  ASSUME NEW rows \in Seq(Row), NEW row \in Row, NEW ran,
         \A i \in DOMAIN rows : Grounded(rows[i], ran), Grounded(row, ran)
  PROVE  \A i \in DOMAIN Append(rows, row) : Grounded(Append(rows, row)[i], ran)
<1> SUFFICES ASSUME NEW i \in DOMAIN Append(rows, row)
             PROVE  Grounded(Append(rows, row)[i], ran)
  OBVIOUS
<1>1. CASE i \in DOMAIN rows
  <2>1. Append(rows, row)[i] = rows[i]
    BY <1>1
  <2> QED BY <1>1, <2>1
<1>2. CASE i \notin DOMAIN rows
  <2>1. Append(rows, row)[i] = row
    BY <1>2
  <2> QED BY <2>1
<1> QED BY <1>1, <1>2

LEMMA GroundedCheckpoint ==
  ASSUME TypeOK, NEW row \in Row, Checkpoint(row), NEW ran,
         \A i \in DOMAIN journal : Grounded(journal[i], ran), Grounded(row, ran)
  PROVE  \A i \in DOMAIN journal' : Grounded(journal'[i], ran)
<1>1. CASE journal' = Append(journal, row)
  BY <1>1, GroundedAppend DEF TypeOK
<1>2. CASE journal' = journal
  BY <1>2
<1> QED BY <1>1, <1>2 DEF Checkpoint

LEMMA GroundedSkipped ==
  ASSUME NEW rows \in Seq(Row), NEW more \in Seq(Row), NEW ran,
         \A i \in DOMAIN rows : Grounded(rows[i], ran),
         \A i \in DOMAIN more : more[i].delta = {}
  PROVE  \A i \in DOMAIN (rows \o more) : Grounded((rows \o more)[i], ran)
<1> SUFFICES ASSUME NEW i \in DOMAIN (rows \o more)
             PROVE  Grounded((rows \o more)[i], ran)
  OBVIOUS
<1>1. CASE i \in DOMAIN rows
  <2>1. (rows \o more)[i] = rows[i]
    BY <1>1
  <2> QED BY <1>1, <2>1
<1>2. CASE i \notin DOMAIN rows
  <2>1. i - Len(rows) \in DOMAIN more /\ (rows \o more)[i] = more[i - Len(rows)]
    BY <1>2
  <2> QED BY <2>1 DEF Grounded
<1> QED BY <1>1, <1>2

\* A row without a delta is grounded.
LEMMA GroundedPlain ==
  ASSUME NEW n, NEW s, NEW ran PROVE Grounded(RowOf(n, s, {}), ran)
BY DEF RowOf, Grounded

LEMMA ShorterPrefix ==
  ASSUME NEW a \in Nat, NEW b \in Nat, a <= b
  PROVE  1..(a - 1) \subseteq 1..(b - 1)
OBVIOUS

LEMMA PrefixStep ==
  ASSUME TypeOK, PrefixHeld, BackwardEdges, [Next]_vars PROVE PrefixHeld'
<1>1. Node \subseteq Nat /\ index \in Nat /\ N \in Nat /\ Node = 1..N
  BY NodeBounds DEF TypeOK, Node
<1>2. CASE UNCHANGED vars
  BY <1>2 DEF PrefixHeld, vars, runVars
<1>3. CASE Lease
  <2>1. PICK rows \in Seq(Row) :
          Hydrate(rows) /\ \A i \in DOMAIN rows : Grounded(rows[i], runs)
    <3>1. journal \in Seq(Row) /\ <<>> \in Seq(Row)
          /\ \A i \in DOMAIN journal : Grounded(journal[i], runs)
      BY DEF TypeOK, PrefixHeld
    <3>2. \A i \in DOMAIN <<>> : Grounded(<<>>[i], runs)
      OBVIOUS
    <3> QED BY <1>3, <3>1, <3>2 DEF Lease
  <2>2. PICK start \in 1..(N + 1), keys \in SUBSET Node :
          /\ StartRun(rows, start, keys)
          /\ \/ start = 1 /\ keys = {}
             \/ \E i \in Boundaries(rows) :
                  start = rows[i].step + 1 /\ keys = rows[i].delta
    BY <2>1, HydrateCases
  <2>3. 1..(start - 1) \subseteq keys /\ \A m \in keys : runs[m] > 0
    <3>1. CASE start = 1 /\ keys = {}
      BY <3>1
    <3>2. CASE \E i \in Boundaries(rows) :
                 start = rows[i].step + 1 /\ keys = rows[i].delta
      <4>1. PICK i \in Boundaries(rows) :
              start = rows[i].step + 1 /\ keys = rows[i].delta
        BY <3>2
      <4>2. keys # {} /\ i \in DOMAIN rows /\ start - 1 = rows[i].step
        BY <1>1, <4>1, BoundaryType DEF Boundaries
      <4> QED BY <2>1, <4>1, <4>2 DEF Grounded
    <3> QED BY <2>2, <3>1, <3>2
  <2>4. \A i \in DOMAIN journal' : Grounded(journal'[i], runs)
    <3>1. Skipped(start, SeedsOf(rows)) \in Seq(Row)
          /\ journal' = journal \o Skipped(start, SeedsOf(rows))
      BY <2>2, SkippedType DEF StartRun
    <3>2. \A i \in DOMAIN Skipped(start, SeedsOf(rows)) :
            Skipped(start, SeedsOf(rows))[i].delta = {}
      BY DEF Skipped
    <3> QED BY <3>1, <3>2, GroundedSkipped DEF TypeOK, PrefixHeld
  <2>5. runs' = runs
    BY <1>3 DEF Lease
  <2>6. index' = start /\ provided' = keys /\ pc' \in {"entering", "failed"}
        /\ reason' # "MISSING_NEED"
    BY <2>2 DEF StartRun
  <2> QED BY <2>3, <2>4, <2>5, <2>6 DEF PrefixHeld
<1>4. CASE EnterSegment
  BY <1>4 DEF PrefixHeld, EnterSegment, FailWith
<1>5. CASE Finish
  BY <1>5 DEF PrefixHeld, Finish, runVars
<1>6. CASE StartNode
  <2> DEFINE row == [RowOf(index, "started", {}) EXCEPT !.attempt = @ + 1]
  <2>1. index \in Node /\ pc' = "stepping" /\ index' = index /\ pc = "ready"
        /\ runs' = [runs EXCEPT ![index] = @ + 1]
        /\ provided' = provided /\ reason' = reason
    BY <1>6 DEF StartNode, TypeOK
  <2>2. row \in Row /\ row.delta = {}
    <3>1. attempts[index] + 1 \in Nat
      BY <2>1 DEF TypeOK
    <3>2. row = [step |-> index, attempt |-> attempts[index] + 1,
                 status |-> "started", delta |-> {}]
      BY DEF RowOf
    <3> QED BY <2>1, <3>1, <3>2 DEF Row, RowStatus
  <2> HIDE DEF row
  <2>3. \A m \in Node : runs[m] > 0 => runs'[m] > 0
    BY <2>1 DEF TypeOK
  <2>4. runs'[index] > 0
    BY <2>1 DEF TypeOK
  <2>5. \A i \in DOMAIN journal : Grounded(journal[i], runs')
    <3> SUFFICES ASSUME NEW i \in DOMAIN journal
                 PROVE  Grounded(journal[i], runs')
      OBVIOUS
    <3>1. journal[i] \in Row /\ Grounded(journal[i], runs)
      BY DEF TypeOK, PrefixHeld
    <3>2. journal[i].delta \subseteq Node
      BY <3>1 DEF Row
    <3> QED BY <2>3, <3>1, <3>2 DEF Grounded
  <2>6. Checkpoint(row) /\ Grounded(row, runs')
    BY <1>6, <2>2 DEF StartNode, row, Grounded
  <2>7. \A i \in DOMAIN journal' : Grounded(journal'[i], runs')
    BY <2>2, <2>5, <2>6, GroundedCheckpoint
  <2> QED BY <2>1, <2>3, <2>4, <2>7 DEF PrefixHeld, TypeOK
<1>7. CASE RefuseNode
  <2>1. pc = "ready" /\ index \in Node
    BY <1>7 DEF RefuseNode, TypeOK
  <2>2. Needs[index] \subseteq 1..(index - 1)
    <3>1. Needs[index] \subseteq Node
          /\ \A need \in Needs[index] : need < index
      BY <2>1, PlanAssumption DEF ValidPlan
    <3> QED BY <1>1, <3>1
  <2>3. Needs[index] \subseteq provided
    BY <2>1, <2>2 DEF PrefixHeld
  <2>4. reason' = "TERMINATION_BOUND_EXCEEDED" /\ pc' = "unwinding"
        /\ UNCHANGED <<journal, runs>>
    BY <1>7, <2>3 DEF RefuseNode, FailWith
  <2> QED BY <2>4 DEF PrefixHeld
<1>8. CASE FailNode
  <2>1. RowOf(index, "failed", {}) \in Row
    BY <1>8, RowOfType DEF FailNode, TypeOK, RowStatus
  <2>2. \A i \in DOMAIN journal' : Grounded(journal'[i], runs)
    BY <1>8, <2>1, GroundedPlain, GroundedCheckpoint DEF FailNode, PrefixHeld
  <2> QED BY <1>8, <2>2 DEF PrefixHeld, FailNode, FailWith
<1>9. CASE Reroute
  <2>1. RowOf(index, "rerouted", {}) \in Row
    BY <1>9, RowOfType DEF Reroute, TypeOK, RowStatus
  <2>2. \A i \in DOMAIN journal' : Grounded(journal'[i], runs)
    BY <1>9, <2>1, GroundedPlain, GroundedCheckpoint DEF Reroute, PrefixHeld
  <2>3. PICK t \in left : t[1][1] = index /\ index' = t[1][2]
    BY <1>9 DEF Reroute
  <2>4. index' \in Nat /\ index' <= index
    BY <1>1, <2>3, TokenEdges DEF TypeOK, BackwardEdges
  <2>5. 1..(index' - 1) \subseteq 1..(index - 1)
    BY <1>1, <2>4, ShorterPrefix
  <2>6. /\ pc = "stepping" /\ pc' \in {"ready", "entering"}
        /\ UNCHANGED <<runs, provided, reason>>
    BY <1>9 DEF Reroute
  <2> QED BY <2>2, <2>5, <2>6 DEF PrefixHeld
<1>10. CASE CompleteNode
  <2>1. /\ index \in Node /\ provided \cup {index} \in SUBSET Node
        /\ pc = "stepping" /\ pc' \in {"ready", "entering"}
        /\ provided' = provided \cup {index} /\ index' = index + 1
        /\ UNCHANGED <<runs, reason>>
    BY <1>10 DEF CompleteNode, TypeOK
  <2>2. 1..index \subseteq provided' /\ \A m \in provided' : runs[m] > 0
    <3>1. 1..index = (1..(index - 1)) \cup {index}
      BY <1>1, <2>1
    <3> QED BY <2>1, <3>1 DEF PrefixHeld
  <2> DEFINE row == RowOf(index, "completed",
                          IF SegmentEnd(index) THEN provided' ELSE {})
  <2>3. row \in Row /\ Checkpoint(row)
    BY <1>10, <2>1, RowOfType DEF CompleteNode, RowStatus
  <2>4. Grounded(row, runs)
    BY <2>2 DEF RowOf, Grounded
  <2> HIDE DEF row
  <2>5. \A i \in DOMAIN journal' : Grounded(journal'[i], runs)
    BY <2>3, <2>4, GroundedCheckpoint DEF PrefixHeld
  <2>6. 1..(index' - 1) = 1..index
    BY <1>1, <2>1
  <2> QED BY <2>1, <2>2, <2>5, <2>6 DEF PrefixHeld
<1>11. CASE Compensate
  <2>1. succeeded[Len(succeeded)] \in Node
    BY <1>11 DEF Compensate, TypeOK
  <2>2. RowOf(succeeded[Len(succeeded)], "compensated", {}) \in Row
    BY <2>1, RowOfType DEF RowStatus
  <2>3. \A i \in DOMAIN journal' : Grounded(journal'[i], runs)
    BY <1>11, <2>2, GroundedPlain, GroundedCheckpoint DEF Compensate, PrefixHeld
  <2> QED BY <1>11, <2>3 DEF PrefixHeld, Compensate
<1>12. CASE Unwound
  BY <1>12 DEF PrefixHeld, Unwound, runVars
<1>13. CASE Crash
  BY <1>13 DEF PrefixHeld, Crash
<1> QED
  BY <1>2, <1>3, <1>4, <1>5, <1>6, <1>7, <1>8, <1>9, <1>10, <1>11, <1>12,
     <1>13 DEF Next, Fold

\* In a plan whose recovery edges lead backward, no step ever misses a key it
\* needs, and a run that reports done has the output of every step, each of
\* which ran: also when boundary rows were lost or the journal was unreadable.
THEOREM ResumeIsComplete ==
  ASSUME BackwardEdges PROVE Spec => []NothingMissing
<1>1. Init => PrefixHeld
  BY DEF Init, Idle, PrefixHeld
<1>2. TypeOK /\ PrefixHeld /\ [Next]_vars => PrefixHeld'
  BY PrefixStep
<1>3. TypeOK /\ PrefixHeld => NothingMissing
  <2> SUFFICES ASSUME TypeOK, PrefixHeld, pc = "done"
               PROVE  provided = Node /\ \A n \in Node : runs[n] > 0
    BY DEF NothingMissing, PrefixHeld
  <2>1. Node = 1..(index - 1)
    BY NodeBounds DEF PrefixHeld, Node
  <2> QED BY <2>1 DEF PrefixHeld, TypeOK
<1> QED BY <1>1, <1>2, <1>3, TypeCorrect, PTL DEF Spec

-----------------------------------------------------------------------------
(* Attempts grow from lease to lease.                                      *)

\* Of the rows of a step, one has the highest attempt.
Topped(rows) ==
  \A n \in Node :
    (\E i \in DOMAIN rows : rows[i].step = n) =>
      \E k \in DOMAIN rows :
        /\ rows[k].step = n
        /\ \A i \in DOMAIN rows :
             rows[i].step = n => rows[i].attempt <= rows[k].attempt

\* A run counts on from every attempt that was journalled.
CountsOn ==
  pc # "idle" =>
    \A i \in DOMAIN journal :
      journal[i].status = "started" => journal[i].attempt <= attempts[journal[i].step]

AttemptInv == Topped(journal) /\ CountsOn /\ AttemptsIncrease

LEMMA RowFields ==
  ASSUME NEW rows \in Seq(Row), NEW i \in DOMAIN rows
  PROVE  rows[i].step \in Node /\ rows[i].attempt \in Nat
<1>1. rows[i] \in Row
  OBVIOUS
<1> QED BY <1>1 DEF Row

LEMMA ToppedAppend ==
  ASSUME NEW rows \in Seq(Row), NEW row \in Row, Topped(rows)
  PROVE  Topped(Append(rows, row))
<1> DEFINE more == Append(rows, row)
<1>1. /\ DOMAIN more = DOMAIN rows \cup {Len(rows) + 1}
      /\ \A i \in DOMAIN rows : more[i] = rows[i]
      /\ more[Len(rows) + 1] = row
  OBVIOUS
<1>2. row.step \in Node /\ row.attempt \in Nat
  BY DEF Row
<1>3. \A i \in DOMAIN rows : rows[i].attempt \in Nat
  BY RowFields
<1> HIDE DEF more
<1> SUFFICES ASSUME NEW n \in Node, NEW j \in DOMAIN more, more[j].step = n
             PROVE  \E k \in DOMAIN more :
                      /\ more[k].step = n
                      /\ \A i \in DOMAIN more :
                           more[i].step = n => more[i].attempt <= more[k].attempt
  BY DEF Topped, more
<1>4. CASE \E i \in DOMAIN rows : rows[i].step = n
  <2>1. PICK k \in DOMAIN rows :
          /\ rows[k].step = n
          /\ \A i \in DOMAIN rows :
               rows[i].step = n => rows[i].attempt <= rows[k].attempt
    BY <1>4 DEF Topped
  <2>2. CASE row.step = n /\ row.attempt > rows[k].attempt
    BY <1>1, <1>2, <1>3, <2>1, <2>2
  <2>3. CASE ~(row.step = n /\ row.attempt > rows[k].attempt)
    BY <1>1, <1>2, <1>3, <2>1, <2>3
  <2> QED BY <2>2, <2>3
<1>5. CASE \A i \in DOMAIN rows : rows[i].step # n
  <2>1. row.step = n
    BY <1>1, <1>5
  <2> QED BY <1>1, <1>2, <1>5, <2>1
<1> QED BY <1>4, <1>5

\* The rows of the skipped steps, one for each of them.
LEMMA ToppedSkipped ==
  ASSUME NEW rows \in Seq(Row), NEW more \in Seq(Row), Topped(rows),
         \A i \in DOMAIN more : more[i].step = i
  PROVE  Topped(rows \o more)
<1> DEFINE all == rows \o more
<1>1. /\ DOMAIN all = 1..(Len(rows) + Len(more)) /\ Len(rows) \in Nat /\ Len(more) \in Nat
      /\ \A i \in DOMAIN rows : i \in DOMAIN all /\ all[i] = rows[i]
      /\ \A i \in DOMAIN more : Len(rows) + i \in DOMAIN all /\ all[Len(rows) + i] = more[i]
      /\ \A i \in DOMAIN all \ DOMAIN rows : i - Len(rows) \in DOMAIN more
                                             /\ all[i] = more[i - Len(rows)]
  OBVIOUS
<1>2. \A i \in DOMAIN rows : rows[i].attempt \in Nat
  BY RowFields
<1>3. \A i \in DOMAIN more : more[i].attempt \in Nat
  BY RowFields
<1> HIDE DEF all
<1> SUFFICES ASSUME NEW n \in Node, NEW j \in DOMAIN all, all[j].step = n
             PROVE  \E k \in DOMAIN all :
                      /\ all[k].step = n
                      /\ \A i \in DOMAIN all :
                           all[i].step = n => all[i].attempt <= all[k].attempt
  BY DEF Topped, all
<1>4. \A i \in DOMAIN all \ DOMAIN rows :
        all[i].step = n => n \in DOMAIN more /\ all[i] = more[n]
  BY <1>1
<1>5. CASE \E i \in DOMAIN rows : rows[i].step = n
  <2>1. PICK k \in DOMAIN rows :
          /\ rows[k].step = n
          /\ \A i \in DOMAIN rows :
               rows[i].step = n => rows[i].attempt <= rows[k].attempt
    BY <1>5 DEF Topped
  <2>2. CASE n \in DOMAIN more /\ more[n].attempt > rows[k].attempt
    <3>1. /\ Len(rows) + n \in DOMAIN all /\ all[Len(rows) + n] = more[n]
          /\ more[n].step = n
      BY <1>1, <2>2
    <3>2. ASSUME NEW i \in DOMAIN all, all[i].step = n
          PROVE  all[i].attempt <= more[n].attempt
      <4>1. more[n].attempt \in Nat /\ rows[k].attempt \in Nat
        BY <1>2, <1>3, <2>1, <2>2
      <4>2. CASE i \in DOMAIN rows
        <5>1. all[i] = rows[i] /\ rows[i].attempt \in Nat
          BY <1>1, <1>2, <4>2
        <5>2. rows[i].attempt <= rows[k].attempt
          BY <2>1, <3>2, <4>2, <5>1
        <5> QED BY <2>2, <4>1, <5>1, <5>2
      <4>3. CASE i \notin DOMAIN rows
        <5>1. all[i] = more[n]
          BY <1>4, <3>2, <4>3
        <5> QED BY <4>1, <5>1
      <4> QED BY <4>2, <4>3
    <3> QED BY <3>1, <3>2
  <2>3. CASE ~(n \in DOMAIN more /\ more[n].attempt > rows[k].attempt)
    <3>1. \A i \in DOMAIN all : all[i].step = n => all[i].attempt <= rows[k].attempt
      BY <1>1, <1>2, <1>3, <1>4, <2>1, <2>3
    <3> QED BY <1>1, <2>1, <3>1
  <2> QED BY <2>2, <2>3
<1>6. CASE \A i \in DOMAIN rows : rows[i].step # n
  <2>1. \A i \in DOMAIN all : all[i].step = n => n \in DOMAIN more /\ all[i] = more[n]
    BY <1>1, <1>4, <1>6
  <2>2. n \in DOMAIN more /\ all[j] = more[n] /\ more[n].attempt \in Nat
    BY <1>3, <2>1
  <2>3. \A i \in DOMAIN all : all[i].step = n => all[i].attempt <= all[j].attempt
    BY <2>1, <2>2
  <2> QED BY <2>3
<1> QED BY <1>5, <1>6

LEMMA ToppedCheckpoint ==
  ASSUME TypeOK, Topped(journal), NEW row \in Row, Checkpoint(row)
  PROVE  Topped(journal')
BY ToppedAppend DEF Checkpoint, TypeOK

\* The seeds of a resumed run are at least every attempt that was journalled.
LEMMA SeedsAreHighest ==
  ASSUME NEW rows \in Seq(Row), Topped(rows), NEW i \in DOMAIN rows
  PROVE  rows[i].attempt <= SeedsOf(rows)[rows[i].step]
<1> DEFINE n == rows[i].step
           S == {rows[j].attempt : j \in {k \in DOMAIN rows : rows[k].step = n}}
<1>1. n \in Node
  BY RowFields
<1>2. SeedsOf(rows)[n] = Highest(S)
  BY <1>1 DEF SeedsOf
<1>3. rows[i].attempt \in S
  OBVIOUS
<1>4. \E a \in S : \A b \in S : b <= a
  <2>1. PICK k \in DOMAIN rows :
          /\ rows[k].step = n
          /\ \A j \in DOMAIN rows :
               rows[j].step = n => rows[j].attempt <= rows[k].attempt
    BY <1>1 DEF Topped
  <2>2. rows[k].attempt \in S /\ \A b \in S : b <= rows[k].attempt
    BY <2>1
  <2> QED BY <2>2
<1>5. \A b \in S : b <= Highest(S)
  <2> HIDE DEF S
  <2> QED BY <1>4 DEF Highest
<1> QED BY <1>2, <1>3, <1>5

\* A row that does not start a step changes no attempt.
LEMMA OtherRowKeepsAttempts ==
  ASSUME TypeOK, AttemptInv, NEW row \in Row, row.status # "started",
         Checkpoint(row), pc # "idle", attempts' = attempts
  PROVE  AttemptInv'
<1>1. Topped(journal)'
  BY ToppedCheckpoint DEF AttemptInv
<1>2. CASE journal' = journal
  BY <1>1, <1>2 DEF AttemptInv, CountsOn, AttemptsIncrease
<1>3. CASE journal' = Append(journal, row)
  <2>1. /\ DOMAIN journal' = DOMAIN journal \cup {Len(journal) + 1}
        /\ \A i \in DOMAIN journal : journal'[i] = journal[i]
        /\ journal'[Len(journal) + 1] = row
    BY <1>3 DEF TypeOK
  <2>2. \A i \in DOMAIN journal' :
          journal'[i].status = "started" => i \in DOMAIN journal /\ journal'[i] = journal[i]
    BY <2>1
  <2> QED BY <1>1, <2>2 DEF AttemptInv, CountsOn, AttemptsIncrease
<1> QED BY <1>2, <1>3 DEF Checkpoint

LEMMA LeaseKeepsAttempts ==
  ASSUME FailedReads = 0, TypeOK, AttemptInv, Lease
  PROVE  AttemptInv'
<1>1. Hydrate(journal) /\ journal \in Seq(Row)
  BY DEF Lease, TypeOK
<1>2. PICK start \in 1..(N + 1), keys \in SUBSET Node : StartRun(journal, start, keys)
  BY <1>1, HydrateCases
<1> DEFINE more == Skipped(start, SeedsOf(journal))
<1>3. /\ journal' = journal \o more /\ attempts' = SeedsOf(journal) /\ more \in Seq(Row)
      /\ \A i \in DOMAIN more : more[i].step = i /\ more[i].status = "skipped_resume"
  BY <1>1, <1>2, SkippedType DEF StartRun, Skipped
<1>4. Topped(journal)'
  BY <1>1, <1>3, ToppedSkipped DEF AttemptInv
<1> HIDE DEF more
<1>5. \A i \in DOMAIN journal' :
        journal'[i].status = "started" => i \in DOMAIN journal /\ journal'[i] = journal[i]
  <2> SUFFICES ASSUME NEW i \in DOMAIN (journal \o more), i \notin DOMAIN journal
               PROVE  (journal \o more)[i].status = "skipped_resume"
    BY <1>1, <1>3
  <2>1. i - Len(journal) \in DOMAIN more /\ (journal \o more)[i] = more[i - Len(journal)]
    BY <1>1, <1>3
  <2> QED BY <1>3, <2>1
<1>6. \A i \in DOMAIN journal : journal[i].attempt <= attempts'[journal[i].step]
  BY <1>1, <1>3, SeedsAreHighest DEF AttemptInv
<1> QED BY <1>4, <1>5, <1>6 DEF AttemptInv, CountsOn, AttemptsIncrease

LEMMA StartKeepsAttempts ==
  ASSUME TypeOK, AttemptInv, StartNode
  PROVE  AttemptInv'
<1> DEFINE row == [RowOf(index, "started", {}) EXCEPT !.attempt = @ + 1]
<1>1. index \in Node /\ pc = "ready" /\ attempts \in [Node -> Nat] /\ journal \in Seq(Row)
  BY DEF StartNode, TypeOK
<1>2. /\ row.step = index /\ row.attempt = attempts[index] + 1 /\ row \in Row
  <2>1. attempts[index] + 1 \in Nat
    BY <1>1
  <2>2. row = [step |-> index, attempt |-> attempts[index] + 1, status |-> "started",
               delta |-> {}]
    BY DEF RowOf
  <2> HIDE DEF row
  <2> QED BY <1>1, <2>1, <2>2 DEF Row, RowStatus
<1>3. attempts' = [attempts EXCEPT ![index] = attempts[index] + 1] /\ Checkpoint(row)
  BY DEF StartNode
<1> HIDE DEF row
<1>4. Topped(journal)'
  BY <1>2, <1>3, ToppedCheckpoint DEF AttemptInv
<1>5. \A i \in DOMAIN journal :
        /\ journal[i].step \in Node /\ journal[i].attempt \in Nat
        /\ journal[i].status = "started" => journal[i].attempt <= attempts[journal[i].step]
  BY <1>1, RowFields DEF AttemptInv, CountsOn
<1>6. \A i \in DOMAIN journal :
        journal[i].status = "started" => journal[i].attempt <= attempts'[journal[i].step]
  BY <1>1, <1>3, <1>5
<1>7. CASE journal' = journal
  BY <1>4, <1>6, <1>7 DEF AttemptInv, CountsOn, AttemptsIncrease
<1>8. CASE journal' = Append(journal, row)
  <2>1. /\ DOMAIN journal' = DOMAIN journal \cup {Len(journal) + 1}
        /\ \A i \in DOMAIN journal : i \in Nat /\ i < Len(journal) + 1
                                     /\ journal'[i] = journal[i]
        /\ journal'[Len(journal) + 1] = row /\ Len(journal) \in Nat
    BY <1>1, <1>8
  <2>2. CountsOn'
    <3>1. attempts'[index] = row.attempt /\ row.attempt \in Nat
      BY <1>1, <1>2, <1>3
    <3> QED BY <1>2, <1>6, <2>1, <3>1 DEF CountsOn
  <2>3. AttemptsIncrease'
    <3> SUFFICES ASSUME NEW i \in DOMAIN journal', NEW k \in DOMAIN journal', i < k,
                        journal'[i].step = journal'[k].step,
                        journal'[i].status = "started", journal'[k].status = "started"
                 PROVE  journal'[i].attempt < journal'[k].attempt
      BY DEF AttemptsIncrease
    <3>1. i \in DOMAIN journal
      BY <2>1
    <3>2. CASE k \in DOMAIN journal
      BY <2>1, <3>1, <3>2 DEF AttemptInv, AttemptsIncrease
    <3>3. CASE k = Len(journal) + 1
      <4>1. journal[i].step = index /\ journal[i].attempt <= attempts[index]
        BY <1>2, <1>5, <2>1, <3>1, <3>3
      <4> QED BY <1>1, <1>2, <1>5, <2>1, <3>1, <3>3, <4>1
    <3> QED BY <2>1, <3>2, <3>3
  <2> QED BY <1>4, <2>2, <2>3 DEF AttemptInv
<1> QED BY <1>3, <1>7, <1>8 DEF Checkpoint

LEMMA StepKeepsAttempts ==
  ASSUME FailedReads = 0, TypeOK, AttemptInv, [Next]_vars
  PROVE  AttemptInv'
<1>1. CASE FailNode
  <2>1. RowOf(index, "failed", {}) \in Row /\ RowOf(index, "failed", {}).status = "failed"
    BY <1>1, RowOfType DEF FailNode, TypeOK, RowStatus, RowOf
  <2> QED BY <1>1, <2>1, OtherRowKeepsAttempts DEF FailNode
<1>2. CASE Reroute
  <2>1. /\ RowOf(index, "rerouted", {}) \in Row
        /\ RowOf(index, "rerouted", {}).status = "rerouted"
    BY <1>2, RowOfType DEF Reroute, TypeOK, RowStatus, RowOf
  <2> QED BY <1>2, <2>1, OtherRowKeepsAttempts DEF Reroute
<1>3. CASE CompleteNode
  <2>1. PICK d \in SUBSET Node : Checkpoint(RowOf(index, "completed", d))
    <3>1. index \in Node /\ provided \cup {index} \in SUBSET Node
      BY <1>3 DEF CompleteNode, TypeOK
    <3> QED BY <1>3, <3>1 DEF CompleteNode
  <2>2. RowOf(index, "completed", d) \in Row
        /\ RowOf(index, "completed", d).status = "completed"
    BY <1>3, RowOfType DEF CompleteNode, TypeOK, RowStatus, RowOf
  <2> QED BY <1>3, <2>1, <2>2, OtherRowKeepsAttempts DEF CompleteNode
<1>4. CASE Compensate
  <2> DEFINE row == RowOf(succeeded[Len(succeeded)], "compensated", {})
  <2>1. row \in Row /\ row.status = "compensated"
    <3>1. succeeded[Len(succeeded)] \in Node
      BY <1>4 DEF Compensate, TypeOK
    <3> QED BY <3>1, RowOfType DEF RowStatus, RowOf
  <2>2. (Checkpoint(row) \/ journal' = journal) /\ attempts' = attempts
        /\ pc = "unwinding" /\ pc' = pc
    BY <1>4 DEF Compensate
  <2>3. CASE Checkpoint(row)
    BY <2>1, <2>2, <2>3, OtherRowKeepsAttempts
  <2>4. CASE journal' = journal
    BY <2>2, <2>4 DEF AttemptInv, CountsOn, AttemptsIncrease
  <2> QED BY <2>2, <2>3, <2>4
<1>5. CASE RefuseNode
  <2>1. /\ journal' = journal /\ pc = "ready" /\ index \in Node
        /\ attempts' = attempts \/ attempts' = [attempts EXCEPT ![index] = attempts[index] + 1]
    BY <1>5 DEF RefuseNode, TypeOK
  <2>2. \A i \in DOMAIN journal :
          /\ journal[i].step \in Node /\ journal[i].attempt \in Nat
          /\ journal[i].status = "started" => journal[i].attempt <= attempts[journal[i].step]
    BY <2>1, RowFields DEF AttemptInv, CountsOn, TypeOK
  <2>3. \A n \in Node : attempts[n] \in Nat /\ attempts'[n] \in Nat
                          /\ attempts[n] <= attempts'[n]
    BY <2>1 DEF TypeOK
  <2>4. ASSUME NEW i \in DOMAIN journal, journal[i].status = "started"
        PROVE  journal[i].attempt <= attempts'[journal[i].step]
    <3>1. /\ journal[i].step \in Node /\ journal[i].attempt \in Nat
          /\ journal[i].attempt <= attempts[journal[i].step]
      BY <2>2, <2>4
    <3> QED BY <2>3, <3>1
  <2>5. CountsOn'
    BY <2>1, <2>4 DEF CountsOn
  <2> QED BY <2>1, <2>5 DEF AttemptInv, AttemptsIncrease
<1>6. CASE EnterSegment \/ Finish \/ Unwound \/ UNCHANGED vars
  <2>1. journal' = journal /\ attempts' = attempts /\ (pc = "idle" => pc' = "idle")
    BY <1>6 DEF EnterSegment, Finish, Unwound, vars, runVars
  <2> QED BY <2>1 DEF AttemptInv, CountsOn, AttemptsIncrease
<1>7. CASE Crash
  BY <1>7 DEF Crash, AttemptInv, CountsOn, AttemptsIncrease
<1> QED
  BY <1>1, <1>2, <1>3, <1>4, <1>5, <1>6, <1>7, LeaseKeepsAttempts, StartKeepsAttempts
     DEF Next, Fold

\* As long as the journal can be read, the attempts of a step never repeat, over
\* any number of leases, crashes, re-entries and lost rows (run.ts, hydrate).
THEOREM AttemptsNeverRepeat ==
  ASSUME FailedReads = 0 PROVE Spec => []AttemptsIncrease
<1>1. Init => AttemptInv
  BY DEF Init, AttemptInv, Topped, CountsOn, AttemptsIncrease
<1>2. TypeOK /\ AttemptInv /\ [Next]_vars => AttemptInv'
  BY StepKeepsAttempts
<1>3. AttemptInv => AttemptsIncrease
  BY DEF AttemptInv
<1> QED BY <1>1, <1>2, <1>3, TypeCorrect, PTL DEF Spec


-----------------------------------------------------------------------------
(* Every run gets on: what it still can do shrinks with each of its steps. *)

\* Nodes that are left to run: the rest of this walk, and a walk for each re-entry.
NodesLeft == N * Cardinality(left) + (N + 1 - index)

\* The session is opened and the node started before it is run.
Ahead == IF pc = "entering" THEN 2 ELSE IF pc = "ready" THEN 1 ELSE 0

\* A bound on the steps of the run that is going on, its unwinding among them.
Fuel ==
  IF pc \in {"entering", "ready", "stepping"}
    THEN 4 * NodesLeft + Ahead + Len(succeeded) + 2
    ELSE IF pc = "unwinding" THEN Len(succeeded) + 1 ELSE 0

LEMMA FuelType ==
  ASSUME TypeOK
  PROVE  /\ Len(succeeded) \in Nat /\ Cardinality(left) \in Nat
         /\ N * Cardinality(left) \in Nat /\ NodesLeft \in Nat /\ Fuel \in Nat
<1>1. Len(succeeded) \in Nat /\ N \in Nat /\ index \in 1..(N + 1)
  BY NodeBounds DEF TypeOK
<1>2. Cardinality(left) \in Nat
  BY TokensFinite, FS_Subset, FS_CardinalityType DEF TypeOK
<1>3. N * Cardinality(left) \in Nat
  BY <1>1, <1>2, Rounds
<1>4. NodesLeft \in Nat
  <2> HIDE DEF NodesLeft
  <2>1. N + 1 - index \in Nat
    BY <1>1
  <2> QED  BY <1>3, <2>1 DEF NodesLeft
<1>5. Fuel \in Nat
  BY <1>1, <1>4 DEF Fuel, Ahead
<1> QED  BY <1>1, <1>2, <1>3, <1>4, <1>5

\* A re-entry costs a walk, and a jump leads to a node.
LEMMA RerouteSpends ==
  ASSUME TypeOK, Reroute
  PROVE  NodesLeft' < NodesLeft /\ NodesLeft' \in Nat
<1>1. PICK token \in left : /\ left' = left \ {token}
                            /\ index' = token[1][2]
  BY DEF Reroute
<1>2. index' \in Node /\ index \in Node /\ N \in Nat
  BY <1>1, TokenEdges, NodeBounds DEF Reroute, TypeOK
<1> DEFINE c == Cardinality(left')
<1>3. c \in Nat /\ Cardinality(left) = c + 1
  <2>1. IsFiniteSet(left)
    BY TokensFinite, FS_Subset DEF TypeOK
  <2>2. IsFiniteSet(left \ {token})
    BY <2>1, FS_Difference
  <2>3. Cardinality(left \ {token}) = Cardinality(left) - 1
    BY <1>1, <2>1, FS_RemoveElement
  <2>4. Cardinality(left) \in Nat /\ Cardinality(left \ {token}) \in Nat
    BY <2>1, <2>2, FS_CardinalityType
  <2> QED  BY <1>1, <2>3, <2>4
<1>4. N * (c + 1) = N * c + N /\ N * c \in Nat
  BY <1>2, <1>3, Rounds
<1>5. index' \in 1..N /\ index \in 1..N
  BY <1>2 DEF Node
<1>6. NodesLeft' = N * c + (N + 1 - index')
  BY DEF NodesLeft
<1>7. NodesLeft = N * c + N + (N + 1 - index)
  BY <1>3, <1>4 DEF NodesLeft
<1> DEFINE m == N * c
<1> HIDE DEF c, m
<1> QED  BY <1>2, <1>4, <1>5, <1>6, <1>7 DEF m

LEMMA FoldSpends ==
  ASSUME TypeOK, TypeOK', Fold
  PROVE  Fuel' < Fuel
<1>0. /\ Len(succeeded) \in Nat /\ NodesLeft \in Nat /\ NodesLeft' \in Nat
      /\ Len(succeeded)' \in Nat
  <2>1. NodesLeft \in Nat /\ Len(succeeded) \in Nat
    BY FuelType
  <2>2. Cardinality(left') \in Nat
    <3>1. left' \subseteq Tokens
      BY DEF TypeOK
    <3>2. \A T \in SUBSET Tokens : IsFiniteSet(T)
      BY TokensFinite, FS_Subset
    <3>3. IsFiniteSet(left')
      BY <3>1, <3>2
    <3> QED  BY <3>3, FS_CardinalityType
  <2>3. N * Cardinality(left') \in Nat /\ N \in Nat
    BY <2>2, Rounds, NodeBounds
  <2>4. N + 1 - index' \in Nat
    <3>1. index' \in 1..(N + 1)
      BY DEF TypeOK
    <3>2. N \in Nat
      BY NodeBounds
    <3>3. \A k \in 1..(N + 1) : N + 1 - k \in Nat
      BY <3>2
    <3> QED  BY <3>1, <3>3
  <2>5. Len(succeeded)' \in Nat
    BY DEF TypeOK
  <2> QED  BY <2>1, <2>3, <2>4, <2>5 DEF NodesLeft
<1>1. CASE EnterSegment
  <2>1. UNCHANGED <<index, left, succeeded>>
    BY <1>1 DEF EnterSegment
  <2>2. NodesLeft' = NodesLeft
    BY <2>1 DEF NodesLeft
  <2> QED  BY <1>0, <1>1, <2>1, <2>2 DEF EnterSegment, FailWith, Fuel, Ahead
<1>2. CASE Finish
  BY <1>0, <1>2 DEF Finish, Fuel, Ahead
<1>3. CASE StartNode
  <2>1. UNCHANGED <<index, left, succeeded>>
    BY <1>3 DEF StartNode
  <2>2. NodesLeft' = NodesLeft
    BY <2>1 DEF NodesLeft
  <2> QED  BY <1>0, <1>3, <2>1, <2>2 DEF StartNode, Fuel, Ahead
<1>4. CASE RefuseNode \/ FailNode
  <2>1. pc \in {"ready", "stepping"} /\ pc' = "unwinding" /\ UNCHANGED succeeded
    BY <1>4 DEF RefuseNode, FailNode, FailWith
  <2> QED  BY <1>0, <2>1 DEF Fuel, Ahead
<1>5. CASE Reroute
  <2>1. /\ pc = "stepping" /\ pc' \in {"ready", "entering"}
        /\ UNCHANGED succeeded
    BY <1>5 DEF Reroute
  <2>2. NodesLeft' < NodesLeft
    BY <1>5, RerouteSpends
  <2> QED  BY <1>0, <2>1, <2>2 DEF Fuel, Ahead
<1>6. CASE CompleteNode
  <2>1. /\ pc = "stepping" /\ pc' \in {"ready", "entering"}
        /\ succeeded' = Append(succeeded, index) /\ index' = index + 1
        /\ UNCHANGED left
    BY <1>6 DEF CompleteNode
  <2>2. Len(succeeded)' = Len(succeeded) + 1
    BY <2>1 DEF TypeOK
  <2>3. NodesLeft' = NodesLeft - 1
    <3>1. index \in 1..(N + 1) /\ N \in Nat
      BY NodeBounds DEF TypeOK
    <3>2. N * Cardinality(left) \in Nat
      BY FuelType
    <3> QED  BY <2>1, <3>1, <3>2 DEF NodesLeft
  <2> QED  BY <1>0, <2>1, <2>2, <2>3 DEF Fuel, Ahead
<1>7. CASE Compensate
  <2>1. /\ pc = "unwinding" /\ pc' = pc /\ succeeded # <<>>
        /\ succeeded' = SubSeq(succeeded, 1, Len(succeeded) - 1)
    BY <1>7 DEF Compensate
  <2>2. Len(succeeded)' = Len(succeeded) - 1
    <3>1. succeeded \in Seq(Node) /\ Len(succeeded) \in Nat /\ Len(succeeded) # 0
      BY <1>0, <2>1 DEF TypeOK
    <3>2. \A s \in Seq(Node), n \in Nat :
            n <= Len(s) => Len(SubSeq(s, 1, n)) = n
      OBVIOUS
    <3>3. Len(succeeded) - 1 \in Nat /\ Len(succeeded) - 1 <= Len(succeeded)
      BY <3>1
    <3> QED  BY <2>1, <3>1, <3>2, <3>3
  <2> QED  BY <1>0, <2>1, <2>2 DEF Fuel
<1>8. CASE Unwound
  BY <1>0, <1>8 DEF Unwound, Fuel
<1> QED
  BY <1>1, <1>2, <1>3, <1>4, <1>5, <1>6, <1>7, <1>8 DEF Fold

\* No run goes on for ever, whatever plan validateFlowPlan accepts and whatever
\* the steps do: each step of the fold uses up some of a number that is fixed when
\* the run begins.  This is EveryRunEnds without its fairness (run.ts, the loop of
\* runFlow and unwind).
THEOREM RunsGetOn ==
  Spec => [](Fuel \in Nat) /\ [][Fold => Fuel' < Fuel]_vars
<1>1. TypeOK => Fuel \in Nat
  BY FuelType
<1>2. TypeOK /\ TypeOK' /\ [Next]_vars => [Fold => Fuel' < Fuel]_vars
  BY FoldSpends
<1> QED  BY <1>1, <1>2, TypeCorrect, PTL DEF Spec
=============================================================================
