---------------------------- MODULE MCStoreJournal ----------------------------
(* Small instances of StoreJournal for TLC.                                *)
EXTENDS StoreJournal
=============================================================================
