---------------------------- MODULE MCSyncChannel ----------------------------
(* Instances of SyncChannel: two endpoints on each side, so that they take *)
(* each other's values, room and hints, and a ring that wraps around.      *)
EXTENDS SyncChannel
=============================================================================
