---------------------------- MODULE MCFlowPath -----------------------------
(* A small instance of FlowPath for TLC: the plans of MCFlowRun.            *)
EXTENDS FlowPath, MCFlowRun
=============================================================================
