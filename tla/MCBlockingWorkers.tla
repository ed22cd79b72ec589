--------------------------- MODULE MCBlockingWorkers ---------------------------
(* Small instances of BlockingWorkers for TLC.  The computations are       *)
(* interchangeable where only safety is checked.                           *)
EXTENDS BlockingWorkers, TLC

CallerSymmetry == Permutations(Callers)
=============================================================================
