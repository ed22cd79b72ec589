------------------------- MODULE MCSyncMutex -------------------------
(* Instances of SyncMutex: enough tasks to wait for one another. *)
EXTENDS SyncMutex
=============================================================================
