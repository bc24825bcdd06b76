---------------------------- MODULE MCBridgeRead ----------------------------
(* A small instance of BridgeRead for TLC.                                  *)
EXTENDS BridgeRead

CONSTANTS c1, c2, c3
=============================================================================
