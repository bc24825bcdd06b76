-------------------------- MODULE FlowPathProofs ---------------------------
(***************************************************************************)
(* What is proved of FlowRun, FlowJournal, AcuityBooking and FlowPlan holds*)
(* of FlowPath, in which they stand side by side.                          *)
(***************************************************************************)
EXTENDS FlowPath, FlowRunProofs, FlowJournalProofs, AcuityBookingProofs,
        FlowPlanProofs

\* A behaviour of the whole is one of each part, which takes its steps or stands
\* still.
LEMMA FlowPathStep ==
  FlowPathSpec => Spec /\ JournalSpec /\ BookingSpec /\ FlowPlanSpec
<1>1. FlowPathInit => Init /\ JournalInit /\ BookingInit /\ FlowPlanInit
  BY DEF FlowPathInit
<1>2. [FlowPathNext]_<<vars, journalVars, bookingVars, planVars, part>>
        => /\ [Next]_vars /\ [JournalNext]_journalVars
           /\ [BookingNext]_bookingVars /\ [FlowPlanNext]_planVars
  BY Zenon DEF FlowPathNext
<1> QED
  BY <1>1, <1>2, PTL
     DEF FlowPathSpec, Spec, JournalSpec, BookingSpec, FlowPlanSpec

\* The four keep their types side by side: runs, journal rows, pages and plans,
\* whatever any of their parameters is (run.ts, the journals, flow-steps.ts,
\* plan.ts).
THEOREM FlowPathTypeCorrect == FlowPathSpec => []FlowPathTypeOK
<1>1. JournalInv => JournalTypeOK
  BY DEF JournalInv
<1>2. BookingInv => AcuityTypeOK
  BY DEF BookingInv
<1> QED
  BY <1>1, <1>2, FlowPathStep, TypeCorrect, JournalInvariant, BookingInvariant,
     PlanTypeCorrect, PTL DEF FlowPathTypeOK
=============================================================================
