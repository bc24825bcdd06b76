------------------------- MODULE MCSnapshotRefresh -------------------------
(* Small instances of SnapshotRefresh for TLC: the times are constants, so  *)
(* the .cfg files give them directly.  With two ticks to a window, a tick   *)
(* stands for half of the five minutes of FreshFor, CacheTtl and Lease.     *)
EXTENDS SnapshotRefresh
=============================================================================
