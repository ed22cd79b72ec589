---------------------------- MODULE MCTaskExecutor ----------------------------
(* Instances of TaskExecutor, the scheduler with its only client: two task *)
(* and two registration slots, each with three generations, so that slots  *)
(* are reused and retired and identities run out.                          *)
EXTENDS TaskExecutor
=============================================================================
