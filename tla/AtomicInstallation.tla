------------------------- MODULE AtomicInstallation -------------------------
(***************************************************************************)
(* What an installation promises: the home in effect changes at one moment *)
(* from what it was to the wanted release, a success is reported after     *)
(* that moment only, a failure only when it has not come, and an           *)
(* interruption leaves one or the other.                                   *)
(***************************************************************************)
CONSTANT Homes      \* the releases, and the value for no home at all

VARIABLES
    home,       \* the home in effect
    wanted,     \* the release asked for last
    phase,      \* "idle", "asked", or "done" when the wanted release is in effect
    last        \* how the last installation ended

vars == <<home, wanted, phase, last>>

Init == home \in Homes /\ wanted \in Homes /\ phase = "idle" /\ last = "none"

Ask ==
    /\ phase = "idle"
    /\ wanted' \in Homes
    /\ phase' = "asked"
    /\ UNCHANGED <<home, last>>

Replace ==
    /\ phase = "asked"
    /\ home' = wanted
    /\ phase' = "done"
    /\ UNCHANGED <<wanted, last>>

End(before, how) ==
    /\ phase \in before
    /\ phase' = "idle"
    /\ last' = how
    /\ UNCHANGED <<home, wanted>>

Next ==
    \/ Ask
    \/ Replace
    \/ End({"done"}, "installed")
    \/ End({"asked"}, "failed")
    \/ End({"asked", "done"}, "died")

Spec == Init /\ [][Next]_vars
=============================================================================
