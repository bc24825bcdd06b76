------------------------------ MODULE FlowRun ------------------------------
(***************************************************************************)
(* runFlow: the fold that executes a flow plan, one lease of the job after *)
(* another.  A run walks the plan in topological order, one browser        *)
(* session per contiguous segment, journals every step, jumps along a      *)
(* budgeted recovery edge when a step lands somewhere else, and unwinds    *)
(* the succeeded steps when it fails.  After a crash, or when the same job *)
(* is leased again, the next run resumes from the journal: it skips what   *)
(* the last segment-boundary row covers and refuses to re-run an           *)
(* effectful-once step that the journal knows of.                          *)
(*                                                                         *)
(* Nodes are numbered in plan order, and node n provides the one key n.    *)
(* Values, tokens, landings and confidences are left out: which landing a  *)
(* step observes, and what its chooser answers, is a free choice.          *)
(***************************************************************************)
EXTENDS Naturals, Sequences, FiniteSets

CONSTANTS
  N,            \* plan.nodes.length
  SegmentOf,    \* node -> segment; a segment is a contiguous run of nodes
  EffectfulOnce,\* nodes of idempotency class effectful-once
  Compensable,  \* nodes whose step has a compensate handler
  Needs,        \* node -> the keys it needs
  Reentries,    \* declared recovery edge -> maxReentries
  Leases,       \* how often the job is leased
  LostAppends,  \* how many journal appends fail
  FailedReads   \* how many journal reads fail

Node == 1..N
Edge == DOMAIN Reentries

\* What validateFlowPlan accepts of a plan.
ValidPlan ==
  /\ N \in Nat \ {0}
  /\ SegmentOf \in [Node -> Nat]
  /\ \A i, k \in Node : i <= k /\ SegmentOf[i] = SegmentOf[k] =>
       \A m \in i..k : SegmentOf[m] = SegmentOf[i]
  /\ EffectfulOnce \subseteq Node
  /\ Compensable \subseteq Node
  /\ Needs \in [Node -> SUBSET Node]
  /\ \A n \in Node : \A need \in Needs[n] : need < n
  /\ Edge \subseteq Node \X Node
  /\ Reentries \in [Edge -> Nat \ {0}]
  /\ Leases \in Nat
  /\ LostAppends \in Nat
  /\ FailedReads \in Nat

ASSUME PlanAssumption == ValidPlan

VARIABLES
  pc,          \* where runFlow stands
  index,       \* the node it is at
  executions,  \* runNode calls of this run
  left,        \* re-entries still allowed in this run
  provided,    \* keys in the accumulated state
  attempts,    \* node -> attempt counter
  succeeded,   \* nodes whose steps succeeded in this run, in order
  reason,      \* why the run failed
  journal,     \* FlowJournal rows of the operation
  runs,        \* history: how often step.run was entered, over all leases
  leases,      \* leases so far
  lost,        \* appends lost so far
  unread       \* reads failed so far

runVars == <<index, executions, left, provided, attempts, succeeded, reason>>
vars == <<pc, runVars, journal, runs, leases, lost, unread>>

\* One token per re-entry an edge allows; how many there are is the budgetSum.
Tokens == UNION {{e} \X (1..Reentries[e]) : e \in Edge}

\* Variant for mutation: every re-entry pays for one step only.
BoundPerStep == N + Cardinality(Tokens)

ExecutionBound == N * (1 + Cardinality(Tokens))

SegmentEnd(n) == n = N \/ SegmentOf[n + 1] # SegmentOf[n]

RowStatus == {"started", "completed", "failed", "rerouted", "skipped_resume",
              "compensated"}
Row == [step : Node, attempt : Nat, status : RowStatus, delta : SUBSET Node]
Reason == {"none", "STEP_FAILED", "FLOW_DIVERGED", "SESSION_FAILED",
           "TERMINATION_BOUND_EXCEEDED", "MISSING_NEED",
           "EFFECTFUL_ONCE_REPLAY"}

TypeOK ==
  /\ pc \in {"idle", "entering", "ready", "stepping", "unwinding", "done",
             "failed"}
  /\ index \in 1..(N + 1)
  /\ pc \in {"ready", "stepping"} => index \in Node
  /\ executions \in Nat
  /\ left \subseteq Tokens
  /\ provided \subseteq Node
  /\ attempts \in [Node -> Nat]
  /\ succeeded \in Seq(Node)
  /\ reason \in Reason
  /\ journal \in Seq(Row)
  /\ runs \in [Node -> Nat]
  /\ leases \in 0..Leases
  /\ lost \in 0..LostAppends
  /\ unread \in 0..FailedReads

Idle ==
  /\ index = 1
  /\ executions = 0
  /\ left = Tokens
  /\ provided = {}
  /\ attempts = [n \in Node |-> 0]
  /\ succeeded = <<>>
  /\ reason = "none"

Init ==
  /\ pc = "idle" /\ Idle
  /\ journal = <<>>
  /\ runs = [n \in Node |-> 0]
  /\ leases = 0 /\ lost = 0 /\ unread = 0

-----------------------------------------------------------------------------
(* Checkpoints: a failed append is logged, and the run goes on.            *)

Checkpoint(row) ==
  \/ journal' = Append(journal, row) /\ UNCHANGED lost
  \/ lost < LostAppends /\ lost' = lost + 1 /\ UNCHANGED journal

RowOf(n, status, delta) ==
  [step |-> n, attempt |-> attempts[n], status |-> status, delta |-> delta]

FailWith(why) == pc' = "unwinding" /\ reason' = why

-----------------------------------------------------------------------------
(* Resume hydration.                                                       *)

\* Variant for mutation: every completed row is a boundary.
CompletedRows(rows) == {i \in DOMAIN rows : rows[i].status = "completed"}

\* Journal rows that close a segment and carry the cumulative state.
Boundaries(rows) ==
  {i \in DOMAIN rows : /\ rows[i].status = "completed"
                       /\ rows[i].delta # {}
                       /\ SegmentEnd(rows[i].step)}

\* Variant for mutation: a submit that only started does not count.
Completed(rows, n) ==
  \E i \in DOMAIN rows : rows[i].step = n /\ rows[i].status = "completed"

\* The journal has execution evidence of the node.
Executed(rows, n) ==
  \E i \in DOMAIN rows :
    rows[i].step = n /\ rows[i].status \in {"started", "completed"}

\* The largest number of a set, 0 when it has none.
Highest(S) ==
  IF \E a \in S : \A b \in S : b <= a
    THEN CHOOSE a \in S : \A b \in S : b <= a ELSE 0

\* Variant for mutation: attempts are counted per run.
FreshSeeds(rows) == [n \in Node |-> 0]

\* The highest attempt journalled for each node.
SeedsOf(rows) ==
  [n \in Node |->
     Highest({rows[i].attempt : i \in {k \in DOMAIN rows : rows[k].step = n}})]

Skipped(start, seeds) ==
  [i \in 1..(start - 1) |->
     [step |-> i, attempt |-> IF seeds[i] = 0 THEN 1 ELSE seeds[i],
      status |-> "skipped_resume", delta |-> {}]]

\* A run starts after the last boundary row, with the keys that row restores,
\* and with fresh budgets for the recovery edges.
StartRun(rows, start, keys) ==
  /\ index' = start
  /\ provided' = keys
  /\ attempts' = SeedsOf(rows)
  /\ executions' = 0
  /\ left' = Tokens
  /\ succeeded' = <<>>
  /\ journal' = journal \o Skipped(start, SeedsOf(rows))
  /\ IF \E n \in EffectfulOnce : n >= start /\ Executed(rows, n)
       THEN pc' = "failed" /\ reason' = "EFFECTFUL_ONCE_REPLAY"
       ELSE pc' = "entering" /\ reason' = "none"

\* runFlow with `resume', on the rows that the journal returned.
Hydrate(rows) ==
  \/ Boundaries(rows) = {} /\ StartRun(rows, 1, {})
  \/ \E last \in Boundaries(rows) :
       /\ \A i \in Boundaries(rows) : i <= last
       /\ StartRun(rows, rows[last].step + 1, rows[last].delta)

Lease ==
  /\ pc \in {"idle", "done", "failed"}
  /\ leases < Leases
  /\ leases' = leases + 1
  /\ \/ Hydrate(journal) /\ UNCHANGED unread
     \/ unread < FailedReads /\ unread' = unread + 1 /\ Hydrate(<<>>)
  /\ UNCHANGED <<runs, lost>>

-----------------------------------------------------------------------------
(* The fold.                                                               *)

\* The session of the segment opens, or the run fails.
EnterSegment ==
  /\ pc = "entering" /\ index <= N
  /\ \/ pc' = "ready" /\ UNCHANGED reason
     \/ FailWith("SESSION_FAILED")
  /\ UNCHANGED <<index, executions, left, provided, attempts, succeeded,
                 journal, runs, leases, lost, unread>>

Finish ==
  /\ pc = "entering" /\ index = N + 1
  /\ pc' = "done"
  /\ UNCHANGED <<runVars, journal, runs, leases, lost, unread>>

\* runNode up to step.run.
StartNode ==
  /\ pc = "ready"
  /\ executions < ExecutionBound
  /\ Needs[index] \subseteq provided
  /\ executions' = executions + 1
  /\ attempts' = [attempts EXCEPT ![index] = @ + 1]
  /\ runs' = [runs EXCEPT ![index] = @ + 1]
  /\ Checkpoint([RowOf(index, "started", {}) EXCEPT !.attempt = @ + 1])
  /\ pc' = "stepping"
  /\ UNCHANGED <<index, left, provided, succeeded, reason, leases, unread>>

\* The two refusals of runNode; both end the run before anything is journalled.
RefuseNode ==
  /\ pc = "ready"
  /\ executions >= ExecutionBound \/ ~(Needs[index] \subseteq provided)
  /\ executions' = executions + 1
  /\ IF executions >= ExecutionBound
       THEN FailWith("TERMINATION_BOUND_EXCEEDED") /\ UNCHANGED attempts
       ELSE /\ FailWith("MISSING_NEED")
            /\ attempts' = [attempts EXCEPT ![index] = @ + 1]
  /\ UNCHANGED <<index, left, provided, succeeded, journal, runs, leases, lost,
                 unread>>

\* step.run failed, or the landing is none the step expects and no declared
\* edge with budget was chosen for it.
FailNode ==
  /\ pc = "stepping"
  /\ \E why \in {"STEP_FAILED", "FLOW_DIVERGED"} : FailWith(why)
  /\ Checkpoint(RowOf(index, "failed", {}))
  /\ UNCHANGED <<index, executions, left, provided, attempts, succeeded, runs,
                 leases, unread>>

\* A known but unexpected landing: the chooser names a declared edge that has
\* budget.  A jump inside the segment keeps its session.
Reroute ==
  /\ pc = "stepping"
  /\ \E token \in left :
       /\ token[1][1] = index
       /\ \A other \in left : other[1] = token[1] => other[2] <= token[2]
       /\ left' = left \ {token}
       /\ index' = token[1][2]
  /\ Checkpoint(RowOf(index, "rerouted", {}))
  /\ pc' = IF SegmentOf[index'] = SegmentOf[index] THEN "ready" ELSE "entering"
  /\ UNCHANGED <<executions, provided, attempts, succeeded, reason, runs,
                 leases, unread>>

\* On track: the output is merged, and only a segment end journals the state.
CompleteNode ==
  /\ pc = "stepping"
  /\ provided' = provided \cup {index}
  /\ Checkpoint(RowOf(index, "completed",
                      IF SegmentEnd(index) THEN provided' ELSE {}))
  /\ succeeded' = Append(succeeded, index)
  /\ index' = index + 1
  /\ pc' = IF SegmentEnd(index) THEN "entering" ELSE "ready"
  /\ UNCHANGED <<executions, left, attempts, reason, runs, leases, unread>>

-----------------------------------------------------------------------------
(* Failure: compensate handlers run in reverse order of success.           *)

\* Variant for mutation: unwinding stops at a step without a handler.
CompensateHandlersOnly ==
  /\ pc = "unwinding" /\ succeeded # <<>>
  /\ succeeded[Len(succeeded)] \in Compensable
  /\ Checkpoint(RowOf(succeeded[Len(succeeded)], "compensated", {}))
  /\ succeeded' = SubSeq(succeeded, 1, Len(succeeded) - 1)
  /\ UNCHANGED <<pc, index, executions, left, provided, attempts, reason, runs,
                 leases, unread>>

Compensate ==
  /\ pc = "unwinding" /\ succeeded # <<>>
  /\ LET n == succeeded[Len(succeeded)] IN
       IF n \in Compensable THEN Checkpoint(RowOf(n, "compensated", {}))
                            ELSE UNCHANGED <<journal, lost>>
  /\ succeeded' = SubSeq(succeeded, 1, Len(succeeded) - 1)
  /\ UNCHANGED <<pc, index, executions, left, provided, attempts, reason, runs,
                 leases, unread>>

Unwound ==
  /\ pc = "unwinding" /\ succeeded = <<>>
  /\ pc' = "failed"
  /\ UNCHANGED <<runVars, journal, runs, leases, lost, unread>>

\* The process dies: the run's memory is gone, the journal is not.
Crash ==
  /\ pc \in {"entering", "ready", "stepping", "unwinding"}
  /\ pc' = "idle"
  /\ index' = 1 /\ executions' = 0 /\ left' = Tokens /\ provided' = {}
  /\ attempts' = [n \in Node |-> 0] /\ succeeded' = <<>> /\ reason' = "none"
  /\ UNCHANGED <<journal, runs, leases, lost, unread>>

-----------------------------------------------------------------------------
Fold ==
  \/ EnterSegment \/ Finish \/ StartNode \/ RefuseNode \/ FailNode \/ Reroute
  \/ CompleteNode \/ Compensate \/ Unwound

Next == Lease \/ Fold \/ Crash

Spec == Init /\ [][Next]_vars

\* Every step and every session opening comes back (each has its timeout).
FairSpec == Spec /\ WF_vars(Fold)

-----------------------------------------------------------------------------
(* Properties.                                                             *)

\* The run-time bound on executions is never the reason a flow fails: the
\* budgets alone keep every run within |nodes| * (1 + sum of maxReentries),
\* from whatever node it resumes (run.ts, executionBound).
BoundNeverTrips == reason # "TERMINATION_BOUND_EXCEEDED"

\* An effectful-once step is entered at most once over all leases of the job
\* (step.ts; run.ts, EFFECTFUL_ONCE_REPLAY).
EffectfulOnceRunsOnce == \A n \in EffectfulOnce : runs[n] <= 1

\* Whatever was skipped, re-entered or lost on the way, no step finds a key
\* it needs missing, and a run that is done holds the key of every step and
\* every step has really run (run.ts, resume hydration; plan.ts, needs).
NothingMissing ==
  /\ reason # "MISSING_NEED"
  /\ pc = "done" => provided = Node /\ \A n \in Node : runs[n] > 0

\* The journal tells the attempts of a step apart, across leases: no two
\* `started' rows of a step have the same attempt, and later rows have higher
\* ones (run.ts, attempt counters seeded on resume).
AttemptsIncrease ==
  \A i, k \in DOMAIN journal :
    /\ i < k /\ journal[i].step = journal[k].step
    /\ journal[i].status = "started" /\ journal[k].status = "started"
    => journal[i].attempt < journal[k].attempt

\* Every run comes to an end: done, failed or dead, never in a recovery loop
\* or an unwinding that does not finish.
EveryRunEnds == pc = "entering" ~> pc \in {"idle", "done", "failed"}
=============================================================================
