------------------------- MODULE MCSyncCancellation -------------------------
(* Instances of SyncCancellation: enough tasks to wait for one another. *)
EXTENDS SyncCancellation
=============================================================================
