---------------------------- MODULE Notification ----------------------------
(***************************************************************************)
(* The wake hints of std/internal/notify: a nonblocking pipe shared by all *)
(* handles, to which signal_best_effort writes one byte and from which     *)
(* wait reads one.  A waiter that finds the pipe empty suspends on its     *)
(* readiness and, when it is resumed, only reads the pipe again; whoever   *)
(* called wait looks at its own state each time wait has returned.         *)
(*                                                                         *)
(* Tasks are cooperative: one poll of a task is one step.  So a caller     *)
(* that tries, waits, and tries again either succeeds on the way or has    *)
(* read every byte by the time it suspends.  Readiness is a level, hence a *)
(* suspended task may be polled whenever the pipe holds a byte; a poll     *)
(* that finds it empty again changes nothing.                              *)
(***************************************************************************)
EXTENDS Integers

CONSTANT PipeCapacity   \* bytes the pipe holds; a write to a full pipe would block

ASSUME NotificationAssumption == PipeCapacity \in Nat \ {0}

Hints == 0 .. PipeCapacity

\* Mutant: would_block is not expected.
SignalledUnbounded(bytes) == bytes + 1

\* signal_best_effort: a hint that does not fit is dropped, there are others to read.
Signalled(bytes) == IF bytes < PipeCapacity THEN bytes + 1 ELSE bytes

\* wait has read one hint, or all of them in vain.
OneRead(bytes) == bytes - 1
AllRead(bytes) == 0
=============================================================================
