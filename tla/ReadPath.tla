----------------------------- MODULE ReadPath ------------------------------
(* BridgeRead and, beside it, what a read of the vendor consists of:        *)
(* AcuityService opens the service's calendar, AcuityCalendar walks it, and *)
(* ServiceCatalog keeps the list of services.  The four share no state.  A  *)
(* behaviour is one of any of them, so that their states add up and do not  *)
(* multiply; `part' says which, from the start.                             *)
EXTENDS BridgeRead, AcuityService, AcuityCalendar, ServiceCatalog

VARIABLE part

ReadPathInit ==
  /\ Init /\ ServiceInit /\ CalendarInit /\ CatalogInit
  /\ part \in {"read", "service", "calendar", "catalog"}
  /\ part # "catalog" => tier = "static"

ReadPathNext ==
  \/ /\ part = "read" /\ Next
     /\ UNCHANGED <<serviceVars, calendarVars, catalogVars, part>>
  \/ /\ part = "service" /\ ServiceNext
     /\ UNCHANGED <<vars, calendarVars, catalogVars, part>>
  \/ /\ part = "calendar" /\ CalendarNext
     /\ UNCHANGED <<vars, serviceVars, catalogVars, part>>
  \/ /\ part = "catalog" /\ CatalogNext
     /\ UNCHANGED <<vars, serviceVars, calendarVars, part>>

\* The fairness of BridgeRead, and that a program that reads or books goes on to
\* its next await: Playwright's waits have timeouts.
ReadPathSpec ==
  /\ ReadPathInit
  /\ [][ReadPathNext]_<<vars, serviceVars, calendarVars, catalogVars, part>>
  /\ \A c \in Callers : WF_vars(part = "read" /\ Step(c))
  /\ WF_calendarVars(part = "calendar" /\ CalendarStep)

\* The type invariants of the four.
ReadPathTypeOK ==
  TypeOK /\ ServiceTypeOK /\ CalendarTypeOK /\ CatalogTypeOK
=============================================================================
