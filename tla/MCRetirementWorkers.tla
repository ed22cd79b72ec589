------------------------- MODULE MCRetirementWorkers -------------------------
(* Small instances of RetirementWorkers for TLC.                           *)
EXTENDS RetirementWorkers
=============================================================================
