-------------------------- MODULE BridgeJobsProofs --------------------------
(***************************************************************************)
(* Theorems about the booking queue, for any number of workers and jobs,   *)
(* any store and any fault budget unless a theorem says otherwise.         *)
(***************************************************************************)
EXTENDS BridgeJobs, TLAPS

-----------------------------------------------------------------------------
(* Type correctness.                                                       *)

LEMMA InitType == Init => TypeOK
BY ConfigAssumption
   DEF Init, TypeOK, Status, Terminal, Stage, Verdict, Running, PC

LEMMA StatusForStepType ==
  ASSUME NEW stage PROVE StatusForStep(stage) \in Terminal
BY DEF StatusForStep, Terminal

LEMMA DrainType ==
  ASSUME TypeOK, NEW w \in Workers, Drain(w)
  PROVE  TypeOK'
<1>1. CASE List(w)
  BY <1>1 DEF TypeOK, List, jobVars, journal, runVars
<1>2. ASSUME NEW j \in Jobs, Claim(w, j) PROVE TypeOK'
  BY <1>2, ConfigAssumption
     DEF TypeOK, Claim, Goto, journal, Status, Stage, Running, PC
<1>3. ASSUME NEW j \in Jobs, Skip(w, j) PROVE TypeOK'
  BY <1>3 DEF TypeOK, Skip, jobVars, journal, runVars
<1> QED BY <1>1, <1>2, <1>3 DEF Drain

LEMMA FaultType ==
  ASSUME TypeOK, NEW w \in Workers, Crash(w) \/ StoreRejects(w)
  PROVE  TypeOK'
BY ConfigAssumption
   DEF TypeOK, Crash, StoreRejects, Spend, Drop, Goto, jobVars, journal,
       Verdict, Running, PC, FaultKind

LEMMA ExpireType ==
  ASSUME TypeOK, NEW j \in Jobs, Expire(j)
  PROVE  TypeOK'
BY DEF TypeOK, Expire, journal, runVars

LEMMA RunType ==
  ASSUME TypeOK, NEW w \in Workers, Run(w)
  PROVE  TypeOK'
<1> USE DEF TypeOK, Goto, Conclude, Spend, Journal, FaultKind,
            jobVars, journal, runVars
<1>1. CASE EnsureFreshSlotSnapshot(w)
  BY <1>1 DEF EnsureFreshSlotSnapshot, Verdict, Terminal, Running, PC
<1>2. CASE Refuse(w)
  BY <1>2 DEF Refuse, Verdict, Terminal, Running, PC
<1>3. CASE PlanSkew(w)
  BY <1>3 DEF PlanSkew, Verdict, Terminal, Running, PC
<1>4. CASE ConfirmationGate(w)
  BY <1>4 DEF ConfirmationGate, Running, PC
<1>5. CASE Probe(w)
  BY <1>5 DEF Probe, Confirmed, Verdict, Terminal, Running, PC
<1>6. CASE Resume(w)
  BY <1>6 DEF Resume, ResumeFrom, Verdict, Terminal, Stage, Running, PC
<1>7. CASE SessionFails(w)
  BY <1>7, StatusForStepType DEF SessionFails, Verdict, Terminal, Running, PC
<1>8. CASE RunWizard(w)
  BY <1>8 DEF RunWizard, Verdict, Terminal, Stage, Running, PC
<1>9. CASE StartSubmit(w)
  BY <1>9 DEF StartSubmit, Stage, Running, PC
<1>10. CASE ClickSubmit(w)
  BY <1>10 DEF ClickSubmit, Verdict, Terminal, Running, PC
<1>11. CASE FinishSubmit(w)
  BY <1>11 DEF FinishSubmit, Stage, Running, PC
<1>12. CASE ExtractConfirmation(w)
  BY <1>12 DEF ExtractConfirmation, Confirmed, Verdict, Terminal, Stage,
               Running, PC
<1>13. CASE Settle(w)
  BY <1>13, ConfigAssumption
     DEF Settle, Verdict, Status, Terminal, Running, PC
<1> QED
  BY <1>1, <1>2, <1>3, <1>4, <1>5, <1>6, <1>7, <1>8, <1>9, <1>10, <1>11,
     <1>12, <1>13 DEF Run

LEMMA NextType == TypeOK /\ [Next]_vars => TypeOK'
<1>1. ASSUME TypeOK, Next PROVE TypeOK'
  BY <1>1, DrainType, FaultType, ExpireType, RunType DEF Next
<1>2. ASSUME TypeOK, UNCHANGED vars PROVE TypeOK'
  BY <1>2 DEF vars, TypeOK
<1> QED BY <1>1, <1>2

\* Every variable keeps its type in every reachable state.
THEOREM TypeCorrect == Spec => []TypeOK
BY InitType, NextType, PTL DEF Spec

-----------------------------------------------------------------------------
(* Truthfulness of the journal and of the reported success.                *)

\* JournalIsTruthful and SucceededWasBooked are not inductive: a worker that
\* has clicked, or is about to write `succeeded', carries the fact that the
\* booking exists until it is recorded.
Truth ==
  /\ JournalIsTruthful
  /\ SucceededWasBooked
  /\ \A w \in Workers : pc[w] = "clicked" => landed[job[w]] > 0
  /\ \A w \in Workers :
       verdict[w] = "succeeded" => pc[w] = "settle" /\ landed[job[w]] > 0

LEMMA InitTruth == Init => Truth
BY DEF Init, Truth, JournalIsTruthful, SucceededWasBooked

\* A worker's stage is one of Running exactly while it has a job, which is what
\* makes the updates of the records of job[w] well defined.
LEMMA RunningHasJob ==
  ASSUME TypeOK, NEW w \in Workers, pc[w] \in Running
  PROVE  job[w] \in Jobs
BY DEF TypeOK

LEMMA OtherTruth ==
  ASSUME TypeOK, Truth, NEW w \in Workers,
         Drain(w) \/ Crash(w) \/ StoreRejects(w) \/ \E j \in Jobs : Expire(j)
  PROVE  Truth'
<1> USE DEF TypeOK, Truth, JournalIsTruthful, SucceededWasBooked,
            jobVars, journal, runVars, Goto
<1>1. CASE List(w)
  BY <1>1 DEF List
<1>2. ASSUME NEW j \in Jobs, Claim(w, j) PROVE Truth'
  BY <1>2 DEF Claim
<1>3. ASSUME NEW j \in Jobs, Skip(w, j) PROVE Truth'
  BY <1>3 DEF Skip
<1>4. CASE Crash(w)
  BY <1>4 DEF Crash, Drop
<1>5. CASE StoreRejects(w)
  BY <1>5 DEF StoreRejects, Drop
<1>6. ASSUME NEW j \in Jobs, Expire(j) PROVE Truth'
  BY <1>6 DEF Expire
<1> QED BY <1>1, <1>2, <1>3, <1>4, <1>5, <1>6 DEF Drain

LEMMA RunTruth ==
  ASSUME TypeOK, Truth, NEW w \in Workers, Run(w)
  PROVE  Truth'
<1>0. pc[w] \in Running => job[w] \in Jobs
  BY RunningHasJob
<1> USE <1>0 DEF TypeOK, Truth, JournalIsTruthful, SucceededWasBooked,
            Goto, Conclude, Journal, jobVars, journal, runVars, Running
<1>1. CASE EnsureFreshSlotSnapshot(w)
  BY <1>1 DEF EnsureFreshSlotSnapshot
<1>2. CASE Refuse(w)
  BY <1>2 DEF Refuse
<1>3. CASE PlanSkew(w)
  BY <1>3 DEF PlanSkew
<1>4. CASE ConfirmationGate(w)
  BY <1>4 DEF ConfirmationGate
<1>5. CASE Probe(w)
  BY <1>5 DEF Probe, Confirmed
<1>6. CASE Resume(w)
  BY <1>6 DEF Resume, ResumeFrom
<1>7. CASE SessionFails(w)
  BY <1>7, StatusForStepType DEF SessionFails, StatusForStep
<1>8. CASE RunWizard(w)
  BY <1>8 DEF RunWizard
<1>9. CASE StartSubmit(w)
  BY <1>9 DEF StartSubmit
<1>10. CASE ClickSubmit(w)
  BY <1>10 DEF ClickSubmit
<1>11. CASE FinishSubmit(w)
  BY <1>11 DEF FinishSubmit
<1>12. CASE ExtractConfirmation(w)
  BY <1>12 DEF ExtractConfirmation, Confirmed
<1>13. CASE Settle(w)
  BY <1>13 DEF Settle
<1> QED
  BY <1>1, <1>2, <1>3, <1>4, <1>5, <1>6, <1>7, <1>8, <1>9, <1>10, <1>11,
     <1>12, <1>13 DEF Run

LEMMA NextTruth == TypeOK /\ Truth /\ [Next]_vars => Truth'
<1>1. ASSUME TypeOK, Truth, NEW w \in Workers,
             Drain(w) \/ Run(w) \/ Crash(w) \/ StoreRejects(w)
      PROVE  Truth'
  BY <1>1, OtherTruth, RunTruth
<1>2. ASSUME TypeOK, Truth, NEW j \in Jobs, Expire(j) PROVE Truth'
  BY <1>2 DEF Truth, TypeOK, Expire, JournalIsTruthful, SucceededWasBooked,
              journal, runVars
<1>3. ASSUME TypeOK, Truth, UNCHANGED vars PROVE Truth'
  BY <1>3 DEF vars, Truth, JournalIsTruthful, SucceededWasBooked
<1> QED BY <1>1, <1>2, <1>3 DEF Next

\* Whatever the store, the number of workers, expired leases and faults, the
\* journal never calls a submit completed that was not made, and a job is
\* reported as succeeded only if it was booked at the vendor.
THEOREM SuccessIsTruthful == Spec => [](JournalIsTruthful /\ SucceededWasBooked)
<1>1. Spec => []Truth
  BY InitTruth, NextTruth, TypeCorrect, PTL DEF Spec
<1>2. Truth => JournalIsTruthful /\ SucceededWasBooked
  BY DEF Truth
<1> QED BY <1>1, <1>2, PTL

-----------------------------------------------------------------------------
(* At most one worker per job.                                             *)

\* The deployments in which a claim excludes every other run of the job: the
\* Redis store when no run outlasts its lease, or one worker loop.
ExclusiveClaims ==
  \/ Store = "redis" /\ ~SlowRuns
  \/ Store # "memory" /\ \E w : Workers = {w}

\* ExclusiveRun needs to know that the record of a job under execution says so
\* and, where leases outlive runs, that the lease is live: it is what makes the
\* claim of a second worker fail.
Alone ==
  /\ ExclusiveRun
  /\ \A w \in Workers :
       pc[w] \in Running =>
         /\ status[job[w]] = "running"
         /\ ~SlowRuns => leased[job[w]]

LEMMA InitAlone == Init => Alone
BY DEF Init, Alone, ExclusiveRun, Running

LEMMA RunAlone ==
  ASSUME TypeOK, Alone, NEW w \in Workers, Run(w)
  PROVE  Alone'
<1>0. pc[w] \in Running => job[w] \in Jobs
  BY RunningHasJob
<1>1. CASE Settle(w)
  BY <1>0, <1>1, ConfigAssumption
     DEF TypeOK, Alone, ExclusiveRun, Settle, Goto, Running, journal
<1>2. CASE ~Settle(w)
  <2>1. /\ pc[w] \in Running
        /\ \E at \in Running : pc' = [pc EXCEPT ![w] = at]
        /\ UNCHANGED <<status, leased, job>>
    <3> USE DEF Goto, Conclude, Journal, jobVars, journal, runVars, Running
    <3>1. CASE EnsureFreshSlotSnapshot(w)
      BY <3>1 DEF EnsureFreshSlotSnapshot
    <3>2. CASE Refuse(w)
      BY <3>2 DEF Refuse
    <3>3. CASE PlanSkew(w)
      BY <3>3 DEF PlanSkew
    <3>4. CASE ConfirmationGate(w)
      BY <3>4 DEF ConfirmationGate
    <3>5. CASE Probe(w)
      BY <3>5 DEF Probe, Confirmed
    <3>6. CASE Resume(w)
      BY <3>6 DEF Resume, ResumeFrom
    <3>7. CASE SessionFails(w)
      BY <3>7 DEF SessionFails
    <3>8. CASE RunWizard(w)
      BY <3>8 DEF RunWizard
    <3>9. CASE StartSubmit(w)
      BY <3>9 DEF StartSubmit
    <3>10. CASE ClickSubmit(w)
      BY <3>10 DEF ClickSubmit
    <3>11. CASE FinishSubmit(w)
      BY <3>11 DEF FinishSubmit
    <3>12. CASE ExtractConfirmation(w)
      BY <3>12 DEF ExtractConfirmation, Confirmed
    <3> QED
      BY <1>2, <3>1, <3>2, <3>3, <3>4, <3>5, <3>6, <3>7, <3>8, <3>9, <3>10,
         <3>11, <3>12 DEF Run
  <2> QED BY <2>1 DEF TypeOK, Alone, ExclusiveRun
<1> QED BY <1>1, <1>2

LEMMA NextAlone ==
  ASSUME ExclusiveClaims, TypeOK, Alone, [Next]_vars
  PROVE  Alone'
<1> USE DEF TypeOK, Alone, ExclusiveRun, Goto, jobVars, journal, runVars
<1>1. ASSUME NEW w \in Workers, List(w) PROVE Alone'
  BY <1>1 DEF List
<1>2. ASSUME NEW w \in Workers, NEW j \in Jobs, Claim(w, j) PROVE Alone'
  <2>1. \A v \in Workers \ {w} : pc[v] \in Running => job[v] # j
    BY <1>2 DEF ExclusiveClaims, Claim, Claimable
  <2> QED BY <1>2, <2>1 DEF Claim, Running
<1>3. ASSUME NEW w \in Workers, NEW j \in Jobs, Skip(w, j) PROVE Alone'
  BY <1>3 DEF Skip
<1>4. ASSUME NEW w \in Workers, Run(w) PROVE Alone'
  BY <1>4, RunAlone
<1>5. ASSUME NEW w \in Workers, Crash(w) \/ StoreRejects(w) PROVE Alone'
  BY <1>5, ConfigAssumption DEF Crash, StoreRejects, Drop, Running
<1>6. ASSUME NEW j \in Jobs, Expire(j) PROVE Alone'
  BY <1>6, ConfigAssumption DEF Expire
<1>7. CASE UNCHANGED vars
  BY <1>7 DEF vars
<1> QED BY <1>1, <1>2, <1>3, <1>4, <1>5, <1>6, <1>7 DEF Next, Drain

\* With the Redis claim and leases that outlive their runs, or with a single
\* worker loop, no job is ever executed by two workers at once.
THEOREM RunsAreExclusive ==
  ASSUME ExclusiveClaims PROVE Spec => []ExclusiveRun
<1>1. Spec => []Alone
  BY InitAlone, NextAlone, TypeCorrect, PTL DEF Spec
<1>2. Alone => ExclusiveRun
  BY DEF Alone
<1> QED BY <1>1, <1>2, PTL

-----------------------------------------------------------------------------
(* At most one booking.                                                    *)

\* The journal is reachable: no append is lost and no read fails.
ReliableJournal == FaultBudget["append"] = 0 /\ FaultBudget["read"] = 0

\* What stands between two submits of one job: a booking leaves a `started' row
\* behind, and a run is on its way to the submit only while there is none.
Once ==
  /\ faults["append"] = 0 /\ faults["read"] = 0
  /\ AtMostOneBooking
  /\ \A j \in Jobs : landed[j] > 0 => "started" \in evidence[j]
  /\ \A w \in Workers :
       /\ pc[w] \in {"wizard", "submit"} => evidence[job[w]] = {}
       /\ pc[w] = "clicking" => landed[job[w]] = 0
                                /\ "started" \in evidence[job[w]]

LEMMA InitOnce ==
  ASSUME ReliableJournal, Init PROVE Once
BY DEF ReliableJournal, Init, Once, AtMostOneBooking

LEMMA RunOnce ==
  ASSUME TypeOK, Truth, Alone, Once, NEW w \in Workers, Run(w)
  PROVE  Once'
<1>0. /\ pc[w] \in Running => job[w] \in Jobs
      /\ \A v \in Workers : pc[v] \in Running /\ job[v] = job[w] => v = w
      /\ \A v \in Workers : pc[v] \in Running => job[v] \in Jobs
  BY RunningHasJob DEF Alone, ExclusiveRun
<1> USE <1>0 DEF TypeOK, Once, AtMostOneBooking, Goto, Conclude, Journal,
            Spend, FaultKind, jobVars, journal, runVars, Running
<1>1. CASE EnsureFreshSlotSnapshot(w)
  BY <1>1 DEF EnsureFreshSlotSnapshot
<1>2. CASE Refuse(w)
  BY <1>2 DEF Refuse
<1>3. CASE PlanSkew(w)
  BY <1>3 DEF PlanSkew
<1>4. CASE ConfirmationGate(w)
  BY <1>4 DEF ConfirmationGate
<1>5. CASE Probe(w)
  BY <1>5 DEF Probe, Confirmed
<1>6. CASE Resume(w)
  BY <1>6 DEF Resume, ResumeFrom
<1>7. CASE SessionFails(w)
  BY <1>7 DEF SessionFails
<1>8. CASE RunWizard(w)
  BY <1>8 DEF RunWizard
<1>9. CASE StartSubmit(w)
  <2>1. landed[job[w]] = 0
    BY <1>9 DEF StartSubmit
  <2> QED BY <1>9, <2>1 DEF StartSubmit
<1>10. CASE ClickSubmit(w)
  BY <1>10 DEF ClickSubmit
<1>11. CASE FinishSubmit(w)
  BY <1>11 DEF FinishSubmit
<1>12. CASE ExtractConfirmation(w)
  BY <1>12 DEF ExtractConfirmation, Confirmed
<1>13. CASE Settle(w)
  BY <1>13 DEF Settle
<1> QED
  BY <1>1, <1>2, <1>3, <1>4, <1>5, <1>6, <1>7, <1>8, <1>9, <1>10, <1>11,
     <1>12, <1>13 DEF Run

LEMMA NextOnce ==
  ASSUME TypeOK, Truth, Alone, Once, [Next]_vars
  PROVE  Once'
<1> USE DEF TypeOK, Once, AtMostOneBooking, Goto, jobVars, journal, runVars,
            Spend, FaultKind
<1>1. ASSUME NEW w \in Workers, List(w) PROVE Once'
  BY <1>1 DEF List
<1>2. ASSUME NEW w \in Workers, NEW j \in Jobs, Claim(w, j) PROVE Once'
  BY <1>2 DEF Claim
<1>3. ASSUME NEW w \in Workers, NEW j \in Jobs, Skip(w, j) PROVE Once'
  BY <1>3 DEF Skip
<1>4. ASSUME NEW w \in Workers, Run(w) PROVE Once'
  BY <1>4, RunOnce
<1>5. ASSUME NEW w \in Workers, Crash(w) \/ StoreRejects(w) PROVE Once'
  BY <1>5 DEF Crash, StoreRejects, Drop
<1>6. ASSUME NEW j \in Jobs, Expire(j) PROVE Once'
  BY <1>6 DEF Expire
<1>7. CASE UNCHANGED vars
  BY <1>7 DEF vars
<1> QED BY <1>1, <1>2, <1>3, <1>4, <1>5, <1>6, <1>7 DEF Next, Drain

\* Where claims are exclusive and the journal is reachable, a job is booked at
\* the vendor at most once, through any number of crashes, store rejections,
\* refresh timeouts and re-leases.
THEOREM NeverSubmitsTwice ==
  ASSUME ExclusiveClaims, ReliableJournal PROVE Spec => []AtMostOneBooking
<1>1. Spec => []Truth
  BY InitTruth, NextTruth, TypeCorrect, PTL DEF Spec
<1>2. Spec => []Alone
  BY InitAlone, NextAlone, TypeCorrect, PTL DEF Spec
<1>3. Spec => []Once
  BY <1>1, <1>2, InitOnce, NextOnce, TypeCorrect, PTL DEF Spec
<1>4. Once => AtMostOneBooking
  BY DEF Once
<1> QED BY <1>3, <1>4, PTL

-----------------------------------------------------------------------------
(* The queue implements BookingJob.                                        *)

LEMMA StepKeepsPromise ==
  ASSUME ExclusiveClaims, TypeOK, Truth, Alone, Once, Next
  PROVE  [Promise!Next]_<<status, landed>>
<1> USE DEF Goto, Conclude, Journal, jobVars, journal, runVars
<1>1. ASSUME NEW w \in Workers, NEW j \in Jobs, Claim(w, j)
      PROVE  Promise!Work(j)
  <2>1. status[j] \notin Terminal
    BY <1>1, ConfigAssumption DEF ExclusiveClaims, Claim, Claimable
  <2>2. Promise!Pending(j)
    BY <2>1 DEF TypeOK, Status, Promise!Pending
  <2>3. /\ status' = [status EXCEPT ![j] = "running"]
        /\ UNCHANGED landed
    BY <1>1 DEF Claim
  <2> QED BY <2>2, <2>3 DEF Promise!Work
<1>2. ASSUME NEW w \in Workers, Settle(w)
      PROVE  Promise!Work(job[w]) \/ Promise!Report(job[w])
  <2>1. /\ job[w] \in Jobs /\ status[job[w]] = "running"
        /\ verdict[w] \in Terminal \cup {"queued"}
        /\ status' = [status EXCEPT ![job[w]] = verdict[w]]
        /\ UNCHANGED landed
    BY <1>2, RunningHasJob DEF Settle, TypeOK, Verdict, Running, Alone
  <2>2. verdict[w] = "succeeded" => landed[job[w]] = 1
    BY <2>1 DEF Truth, Once, AtMostOneBooking, TypeOK
  <2> QED
    BY <2>1, <2>2
       DEF Terminal, Promise!Work, Promise!Report, Promise!Pending
<1>3. ASSUME NEW w \in Workers, ClickSubmit(w), landed' # landed
      PROVE  Promise!Book(job[w])
  <2>1. job[w] \in Jobs /\ status[job[w]] = "running" /\ landed[job[w]] = 0
    BY <1>3, RunningHasJob DEF ClickSubmit, Running, Alone, Once
  <2> QED BY <1>3, <2>1 DEF ClickSubmit, Promise!Book, TypeOK
<1>4. ASSUME NEW w \in Workers, Run(w), ~Settle(w), ~ClickSubmit(w)
      PROVE  UNCHANGED <<status, landed>>
  BY <1>4
     DEF Run, EnsureFreshSlotSnapshot, Refuse, PlanSkew, ConfirmationGate,
         Probe, Resume, SessionFails, RunWizard, StartSubmit, FinishSubmit,
         ExtractConfirmation
<1>5. ASSUME NEW w \in Workers, ClickSubmit(w) PROVE UNCHANGED status
  BY <1>5 DEF ClickSubmit
<1>6. ASSUME NEW w \in Workers,
             \/ List(w) \/ Crash(w) \/ StoreRejects(w)
             \/ \E j \in Jobs : Skip(w, j)
      PROVE  UNCHANGED <<status, landed>>
  BY <1>6 DEF List, Skip, Crash, StoreRejects, Drop
<1>7. ASSUME NEW j \in Jobs, Expire(j) PROVE UNCHANGED <<status, landed>>
  BY <1>7 DEF Expire
<1>8. \A w \in Workers : Settle(w) \/ ClickSubmit(w) => job[w] \in Jobs
  BY RunningHasJob DEF Settle, ClickSubmit, Running
<1> QED
  BY <1>1, <1>2, <1>3, <1>4, <1>5, <1>6, <1>7, <1>8
     DEF Next, Drain, Promise!Next

\* Under the same assumptions the worker loops, the store and the journal
\* together implement the promise made to the client of the queue: a job is
\* booked at most once, reported as succeeded only when booked, and an outcome
\* once reported is final.
THEOREM QueueKeepsPromise ==
  ASSUME ExclusiveClaims, ReliableJournal PROVE Spec => KeepsPromise
<1>1. Spec => []Truth
  BY InitTruth, NextTruth, TypeCorrect, PTL DEF Spec
<1>2. Spec => []Alone
  BY InitAlone, NextAlone, TypeCorrect, PTL DEF Spec
<1>3. Spec => []Once
  BY <1>1, <1>2, InitOnce, NextOnce, TypeCorrect, PTL DEF Spec
<1>4. Init => Promise!Init
  BY DEF Init, Promise!Init
<1>5. TypeOK /\ Truth /\ Alone /\ Once /\ [Next]_vars
        => [Promise!Next]_<<status, landed>>
  BY StepKeepsPromise DEF vars
<1> QED
  BY <1>1, <1>2, <1>3, <1>4, <1>5, TypeCorrect, PTL
     DEF Spec, KeepsPromise, Promise!Spec

-----------------------------------------------------------------------------
(* When failed_pre_submit means what it says.                              *)

\* No run is cut short: the processes stay up and the store answers.
Uninterrupted == FaultBudget["crash"] = 0 /\ FaultBudget["store"] = 0

Reported == {"succeeded", "reconcile_required"}

\* A run that has booked knows that it reached the submit, and says so.
Admits(w) ==
  \/ pc[w] = "clicked" /\ reached[w] = "submit"
  \/ pc[w] = "confirm" /\ reached[w] \in {"submit", "confirm"}
  \/ pc[w] = "settle" /\ verdict[w] \in Reported

\* A booking is reported, or is with the run that made it.
Owned ==
  /\ faults["crash"] = 0 /\ faults["store"] = 0
  /\ \A j \in Jobs :
       landed[j] > 0 => \/ status[j] \in Reported
                        \/ \E w \in Workers : pc[w] \in Running /\ job[w] = j
  /\ \A w \in Workers :
       /\ pc[w] \in Running /\ landed[job[w]] > 0 => Admits(w)
       /\ pc[w] = "clicking" => reached[w] = "submit"

LEMMA RunOwned ==
  ASSUME TypeOK, Alone, Owned, NEW w \in Workers, Run(w)
  PROVE  Owned'
<1>0. /\ \A v \in Workers : pc[v] \in Running => job[v] \in Jobs
      /\ \A v \in Workers : pc[v] \in Running /\ job[v] = job[w] => v = w
  BY RunningHasJob DEF Run, Alone, ExclusiveRun, EnsureFreshSlotSnapshot, Refuse,
     PlanSkew, ConfirmationGate, Probe, Resume, SessionFails, RunWizard,
     StartSubmit, ClickSubmit, FinishSubmit, ExtractConfirmation, Settle, Running
<1> USE <1>0 DEF TypeOK, Owned, Admits, Reported, Goto, Conclude, Journal, Spend,
                 FaultKind, jobVars, journal, runVars, Running
<1>1. CASE EnsureFreshSlotSnapshot(w)
  BY <1>1 DEF EnsureFreshSlotSnapshot
<1>2. CASE Refuse(w)
  BY <1>2 DEF Refuse
<1>3. CASE PlanSkew(w)
  BY <1>3 DEF PlanSkew
<1>4. CASE ConfirmationGate(w)
  BY <1>4 DEF ConfirmationGate
<1>5. CASE Probe(w)
  BY <1>5 DEF Probe, Confirmed
<1>6. CASE Resume(w)
  BY <1>6 DEF Resume, ResumeFrom
<1>7. CASE SessionFails(w)
  BY <1>7 DEF SessionFails, StatusForStep
<1>8. CASE RunWizard(w)
  BY <1>8 DEF RunWizard
<1>9. CASE StartSubmit(w)
  BY <1>9 DEF StartSubmit
<1>10. CASE ClickSubmit(w)
  BY <1>10 DEF ClickSubmit
<1>11. CASE FinishSubmit(w)
  BY <1>11 DEF FinishSubmit
<1>12. CASE ExtractConfirmation(w)
  BY <1>12 DEF ExtractConfirmation, Confirmed
<1>13. CASE Settle(w)
  BY <1>13 DEF Settle
<1> QED
  BY <1>1, <1>2, <1>3, <1>4, <1>5, <1>6, <1>7, <1>8, <1>9, <1>10, <1>11,
     <1>12, <1>13 DEF Run

LEMMA NextOwned ==
  ASSUME ExclusiveClaims, TypeOK, Alone, Owned, [Next]_vars
  PROVE  Owned'
<1> USE DEF TypeOK, Owned, Admits, Reported, Goto, jobVars, journal, runVars,
            Spend, FaultKind, Running
<1>1. ASSUME NEW w \in Workers, List(w) PROVE Owned'
  BY <1>1 DEF List
<1>2. ASSUME NEW w \in Workers, NEW j \in Jobs, Claim(w, j) PROVE Owned'
  <2>1. ASSUME NEW v \in Workers, pc[v] \in Running, job[v] = j
        PROVE  FALSE
    <3>1. status[j] = "running" /\ (~SlowRuns => leased[j]) /\ v # w
      BY <1>2, <2>1 DEF Alone, Claim
    <3>2. CASE Store = "redis" /\ ~SlowRuns
      BY <1>2, <3>1, <3>2 DEF Claim, Claimable
    <3>3. CASE \E u : Workers = {u}
      BY <3>1, <3>3
    <3> QED  BY <3>2, <3>3 DEF ExclusiveClaims
  <2>2. status[j] \notin Terminal
    BY <1>2, ConfigAssumption DEF ExclusiveClaims, Claim, Claimable
  <2>3. landed[j] = 0
    BY <2>1, <2>2 DEF Terminal
  <2> QED  BY <1>2, <2>1, <2>3 DEF Claim
<1>3. ASSUME NEW w \in Workers, NEW j \in Jobs, Skip(w, j) PROVE Owned'
  BY <1>3 DEF Skip
<1>4. ASSUME NEW w \in Workers, Run(w) PROVE Owned'
  BY <1>4, RunOwned
<1>5. ASSUME NEW w \in Workers, Crash(w) \/ StoreRejects(w) PROVE Owned'
  BY <1>5 DEF Crash, StoreRejects
<1>6. ASSUME NEW j \in Jobs, Expire(j) PROVE Owned'
  BY <1>6 DEF Expire
<1>7. CASE UNCHANGED vars
  BY <1>7 DEF vars
<1> QED BY <1>1, <1>2, <1>3, <1>4, <1>5, <1>6, <1>7 DEF Next, Drain

\* Only an interrupted run makes failed_pre_submit a lie: where claims are
\* exclusive, no process dies and the store answers, whatever the journal loses
\* and however often a refresh times out, a job with that status was not booked
\* (RECONCILE_BOUNDARY_STEP_IDS, flow-runner.ts).
THEOREM UninterruptedFailuresAreTruthful ==
  ASSUME ExclusiveClaims, Uninterrupted
  PROVE  Spec => []PreSubmitFailureNotBooked
<1>1. Spec => []Alone
  BY InitAlone, NextAlone, TypeCorrect, PTL DEF Spec
<1>2. Init => Owned
  BY DEF Uninterrupted, Init, Owned, Running
<1>3. Alone /\ Owned /\ TypeOK => PreSubmitFailureNotBooked
  BY DEF Alone, Owned, Reported, TypeOK, PreSubmitFailureNotBooked
<1> QED  BY <1>1, <1>2, <1>3, NextOwned, TypeCorrect, PTL DEF Spec

-----------------------------------------------------------------------------
(* The records of the queue are those of an atomic store.                  *)

\* The queue of BridgeJobs as JobStore sees it.
Records ==
  [j \in Jobs |-> IF status[j] \in Terminal THEN "ended" ELSE status[j]]
LiveLeases == [j \in Jobs |-> status[j] = "running" /\ leased[j]]

Table == INSTANCE JobStore WITH
  Ops <- Jobs, record <- Records, held <- LiveLeases

\* Every job has been created by enqueueJob.
AllQueued ==
  /\ Records = [j \in Jobs |-> "queued"]
  /\ LiveLeases = [j \in Jobs |-> FALSE]

LEMMA RecordBecomes ==
  ASSUME TypeOK, NEW j \in Jobs, NEW s \in Status, NEW l \in BOOLEAN,
         status' = [status EXCEPT ![j] = s], leased' = [leased EXCEPT ![j] = l]
  PROVE  Table!Becomes(j, IF s \in Terminal THEN "ended" ELSE s,
                       s = "running" /\ l)
<1>1. Records' = [Records EXCEPT ![j] = IF s \in Terminal THEN "ended" ELSE s]
  BY DEF TypeOK, Records
<1>2. LiveLeases' = [LiveLeases EXCEPT ![j] = (s = "running" /\ l)]
  BY DEF TypeOK, LiveLeases
<1> QED  BY <1>1, <1>2 DEF Table!Becomes

LEMMA StepIsATableStep ==
  ASSUME Store = "redis", ~SlowRuns, TypeOK, Alone, Next
  PROVE  [Table!TableNext]_(Table!tableVars)
<1> USE DEF Goto, Conclude, Journal, jobVars, journal, runVars
<1>1. ASSUME NEW w \in Workers, NEW j \in Jobs, Claim(w, j)
      PROVE  Table!Take(j)
  <2>1. Table!Becomes(j, "running", TRUE)
    <3>1. "running" \in Status /\ "running" \notin Terminal /\ TRUE \in BOOLEAN
      BY DEF Status, Terminal
    <3>2. status' = [status EXCEPT ![j] = "running"]
          /\ leased' = [leased EXCEPT ![j] = TRUE]
      BY <1>1 DEF Claim
    <3>3. Table!Becomes(j, IF "running" \in Terminal THEN "ended" ELSE "running",
                        "running" = "running" /\ TRUE)
      BY <3>1, <3>2, RecordBecomes
    <3> QED  BY <3>1, <3>3
  <2>2. \/ Records[j] = "queued"
        \/ Records[j] = "running" /\ ~LiveLeases[j]
    BY <1>1 DEF Claim, Claimable, TypeOK, Status, Records, LiveLeases
  <2> QED  BY <2>1, <2>2 DEF Table!Take
<1>2. ASSUME NEW w \in Workers, Settle(w)
      PROVE  Table!Finish(job[w]) \/ Table!GiveBack(job[w])
  <2> DEFINE s == verdict[w]
             l == leased[job[w]] /\ s # "queued"
  <2>1. /\ job[w] \in Jobs /\ s \in Terminal \cup {"queued"}
        /\ status[job[w]] = "running" /\ leased[job[w]]
        /\ status' = [status EXCEPT ![job[w]] = s]
        /\ leased' = [leased EXCEPT ![job[w]] = l]
    BY <1>2, RunningHasJob DEF Settle, TypeOK, Verdict, Running, Alone
  <2>2. s \in Status /\ l \in BOOLEAN /\ s # "running"
    BY <2>1 DEF Status, Terminal
  <2>3. Table!Becomes(job[w], IF s \in Terminal THEN "ended" ELSE s,
                      s = "running" /\ l)
    <3> HIDE DEF s, l
    <3> QED  BY <2>1, <2>2, RecordBecomes
  <2>4. (s = "running" /\ l) = FALSE
    BY <2>2
  <2>5. Records[job[w]] = "running" /\ LiveLeases[job[w]]
    BY <2>1 DEF Records, LiveLeases, Terminal
  <2>6. CASE s \in Terminal
    <3>1. Table!Becomes(job[w], "ended", FALSE)
      BY <2>3, <2>4, <2>6
    <3> QED  BY <2>5, <3>1 DEF Table!Finish
  <2>7. CASE s \notin Terminal
    <3>1. Table!Becomes(job[w], "queued", FALSE)
      BY <2>1, <2>3, <2>4, <2>7
    <3> QED  BY <2>5, <3>1 DEF Table!GiveBack
  <2> QED  BY <2>6, <2>7
<1>3. ASSUME NEW j \in Jobs, Expire(j) PROVE Table!Lapse(j)
  <2>1. /\ status[j] = "running" /\ leased[j]
        /\ status' = [status EXCEPT ![j] = "running"]
        /\ leased' = [leased EXCEPT ![j] = FALSE]
    BY <1>3 DEF Expire, TypeOK
  <2>2. "running" \in Status /\ "running" \notin Terminal /\ FALSE \in BOOLEAN
    BY DEF Status, Terminal
  <2>3. Table!Becomes(j, IF "running" \in Terminal THEN "ended" ELSE "running",
                      "running" = "running" /\ FALSE)
    BY <2>1, <2>2, RecordBecomes
  <2>4. Table!Becomes(j, "running", FALSE)
    BY <2>2, <2>3
  <2> QED  BY <2>1, <2>2, <2>4 DEF Records, LiveLeases, Table!Lapse
<1>4. ASSUME NEW w \in Workers,
             \/ List(w) \/ Crash(w) \/ StoreRejects(w) \/ (Run(w) /\ ~Settle(w))
             \/ \E j \in Jobs : Skip(w, j)
      PROVE  UNCHANGED Table!tableVars
  <2>1. UNCHANGED <<status, leased>>
    BY <1>4
       DEF List, Skip, Crash, StoreRejects, Drop, Run, EnsureFreshSlotSnapshot,
           Refuse, PlanSkew, ConfirmationGate, Probe, Resume, SessionFails,
           RunWizard, StartSubmit, ClickSubmit, FinishSubmit, ExtractConfirmation
  <2> QED  BY <2>1 DEF Table!tableVars, Records, LiveLeases
<1>5. \A w \in Workers : Settle(w) => job[w] \in Jobs
  BY RunningHasJob DEF Settle, Running
<1> QED
  BY <1>1, <1>2, <1>3, <1>4, <1>5 DEF Next, Drain, Table!TableNext

\* With the claim of the Redis store and runs that end within their lease, the
\* worker loops change a job's record as JobStore says, which is also what the
\* commands of redis-store.ts amount to (RecordsActLikeATable): what BridgeJobs
\* takes for one step is one there.
THEOREM QueueIsATable ==
  ASSUME Store = "redis", ~SlowRuns
  PROVE  Spec => AllQueued /\ [][Table!TableNext]_(Table!tableVars)
<1>1. ExclusiveClaims
  BY DEF ExclusiveClaims
<1>2. Spec => []Alone
  BY <1>1, InitAlone, NextAlone, TypeCorrect, PTL DEF Spec
<1>3. Init => AllQueued
  BY DEF Init, AllQueued, Records, LiveLeases, Terminal
<1>4. TypeOK /\ Alone /\ [Next]_vars => [Table!TableNext]_(Table!tableVars)
  <2>1. CASE UNCHANGED vars
    BY <2>1 DEF vars, jobVars, Table!tableVars, Records, LiveLeases
  <2> QED  BY <2>1, StepIsATableStep
<1> QED  BY <1>2, <1>3, <1>4, TypeCorrect, PTL DEF Spec
=============================================================================
