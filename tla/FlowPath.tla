----------------------------- MODULE FlowPath ------------------------------
(* FlowRun and, beside it, what it runs on: the rows of FlowJournal below,  *)
(* the pages of AcuityBooking above, and before any run the making of a     *)
(* plan (FlowPlan).  The four share no state.  A behaviour is one of any of *)
(* them, so that their states add up and do not multiply; `part' says       *)
(* which, from the start.                                                   *)
EXTENDS FlowRun, FlowJournal, AcuityBooking, FlowPlan

VARIABLE part

FlowPathInit ==
  /\ Init /\ JournalInit /\ BookingInit /\ FlowPlanInit
  /\ part \in {"run", "journal", "pages", "plan"}
  /\ part # "journal" => backend = "memory"
  /\ part # "plan" => initial = {}

FlowPathNext ==
  \/ part = "run" /\ Next /\ UNCHANGED <<journalVars, bookingVars, planVars, part>>
  \/ part = "journal" /\ JournalNext /\ UNCHANGED <<vars, bookingVars, planVars, part>>
  \/ part = "pages" /\ BookingNext /\ UNCHANGED <<vars, journalVars, planVars, part>>
  \/ part = "plan" /\ FlowPlanNext /\ UNCHANGED <<vars, journalVars, bookingVars, part>>

FlowPathSpec ==
  FlowPathInit /\ [][FlowPathNext]_<<vars, journalVars, bookingVars, planVars, part>>

\* The type invariants of the four.
FlowPathTypeOK == TypeOK /\ JournalTypeOK /\ AcuityTypeOK /\ FlowPlanTypeOK
=============================================================================
