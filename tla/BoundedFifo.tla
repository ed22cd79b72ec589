----------------------------- MODULE BoundedFifo -----------------------------
(***************************************************************************)
(* What a bounded channel promises about the values it carries: it takes   *)
(* them in some order, holds at most Capacity of them, gives each out once *)
(* and in that order, takes none once nobody can receive, and loses none.  *)
(***************************************************************************)
EXTENDS Integers, Sequences

CONSTANT Capacity

VARIABLES
    content,        \* the values held, oldest first
    taken,          \* values given out so far
    receivable      \* whether a receiver is left

vars == <<content, taken, receivable>>

Init == content = <<>> /\ taken = 0 /\ receivable = TRUE

\* The values are numbered in the order they are put.
Put ==
    /\ receivable
    /\ Len(content) < Capacity
    /\ content' = Append(content, taken + Len(content) + 1)
    /\ UNCHANGED <<taken, receivable>>

Take ==
    /\ receivable
    /\ content # <<>>
    /\ Head(content) = taken + 1
    /\ content' = Tail(content)
    /\ taken' = taken + 1
    /\ UNCHANGED receivable

Close ==
    /\ receivable' = FALSE
    /\ UNCHANGED <<content, taken>>

Next == Put \/ Take \/ Close

Spec == Init /\ [][Next]_vars
=============================================================================
