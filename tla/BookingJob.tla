----------------------------- MODULE BookingJob -----------------------------
(***************************************************************************)
(* What the queue promises to whoever enqueued a booking and polls         *)
(* GET /jobs/:operationId: a job is worked on, perhaps several times, is   *)
(* booked at the vendor at most once, is reported as succeeded only when   *)
(* it was booked, and a reported outcome is never taken back.              *)
(***************************************************************************)
EXTENDS Naturals

CONSTANT Jobs

VARIABLES status, landed

Init ==
  /\ status = [j \in Jobs |-> "queued"]
  /\ landed = [j \in Jobs |-> 0]

Pending(j) == status[j] \in {"queued", "running"}

\* The job is taken up, or given back for another attempt.
Work(j) ==
  /\ Pending(j)
  /\ \E s \in {"queued", "running"} : status' = [status EXCEPT ![j] = s]
  /\ UNCHANGED landed

Book(j) ==
  /\ status[j] = "running" /\ landed[j] = 0
  /\ landed' = [landed EXCEPT ![j] = 1]
  /\ UNCHANGED status

Report(j) ==
  /\ status[j] = "running"
  /\ \E s \in {"succeeded", "failed_pre_submit", "reconcile_required"} :
       /\ s = "succeeded" => landed[j] = 1
       /\ status' = [status EXCEPT ![j] = s]
  /\ UNCHANGED landed

Next == \E j \in Jobs : Work(j) \/ Book(j) \/ Report(j)

Spec == Init /\ [][Next]_<<status, landed>>
=============================================================================
