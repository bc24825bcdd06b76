----------------------------- MODULE MCFlowRun -----------------------------
(* Small plans for FlowRun, shaped like the Acuity booking plan: two        *)
(* replayable segments, an effectful-once submit and a read, with recovery  *)
(* edges added inside a segment, back across one, and forward.              *)
EXTENDS FlowRun, TLC

\* 1 navigate, 2 and 3 the payment bypass, 4 submit, 5 extract-confirmation.
FiveSegments == <<1, 2, 2, 3, 4>>
FiveNeeds == <<{}, {1}, {1, 2}, {3}, {4}>>
\* 1 navigate, 2 and 3 the payment bypass, 4 submit.
FourSegments == <<1, 2, 2, 3>>
FourNeeds == <<{}, {1}, {1, 2}, {3}>>

NoCrossingEdges == <<3, 2>> :> 1 @@ <<3, 1>> :> 1 @@ <<2, 4>> :> 1
BackEdge == <<3, 1>> :> 1
=============================================================================
