---------------------------- MODULE AdmissionPool ----------------------------
(***************************************************************************)
(* What a bounded service promises to those it turns away: it never holds  *)
(* more than Capacity admissions, it admits nothing once it is closed, and *)
(* the epoch it lets a rejected caller observe counts every admission      *)
(* given back, one by one, so a caller that waits for the epoch to move    *)
(* neither misses a free slot nor is woken for none.                       *)
(***************************************************************************)
EXTENDS Integers

CONSTANT Capacity   \* the most admissions held at once

VARIABLES
    open,       \* whether new admissions are accepted
    held,       \* admissions held now
    released    \* admissions given back so far

vars == <<open, held, released>>

Init == open = TRUE /\ held = 0 /\ released = 0

Admit ==
    /\ open
    /\ held < Capacity
    /\ held' = held + 1
    /\ UNCHANGED <<open, released>>

\* Some are given back at once; a shutdown may close the pool in the same step.
Release ==
    \E n \in 0 .. held :
        /\ held' = held - n
        /\ released' = released + n
        /\ open' \in {open, FALSE}

Next == Admit \/ Release

Spec == Init /\ [][Next]_vars
=============================================================================
