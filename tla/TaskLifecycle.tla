---------------------------- MODULE TaskLifecycle ----------------------------
(***************************************************************************)
(* What the task runtime promises about identities, whatever slots,        *)
(* queues and registrations it uses: an identity is issued once, its       *)
(* computation either completes or is cancelled, its storage is given up   *)
(* once (the output moved out, or the frame or output destroyed), and it   *)
(* never comes back.                                                       *)
(***************************************************************************)
CONSTANT Ids     \* the identities the runtime can issue

VARIABLE fate    \* how far each identity has come

Fates == {"fresh", "pending", "completed", "cleaning", "retired"}

Init == fate = [id \in Ids |-> "fresh"]

Move(id, from, to) ==
    /\ fate[id] = from
    /\ fate' = [fate EXCEPT ![id] = to]

Spawn(id)    == Move(id, "fresh", "pending")
Complete(id) == Move(id, "pending", "completed")
Consume(id)  == Move(id, "completed", "retired")
Clean(id)    == Move(id, "cleaning", "retired")

\* One task is cancelled, or all of them when the executor shuts down.
Cancel(S) ==
    /\ \A id \in S : fate[id] \in {"pending", "completed"}
    /\ fate' = [id \in Ids |-> IF id \in S THEN "cleaning" ELSE fate[id]]

Next ==
    \/ \E id \in Ids : Spawn(id) \/ Complete(id) \/ Consume(id) \/ Clean(id)
    \/ \E S \in SUBSET Ids : Cancel(S)

Spec == Init /\ [][Next]_fate
=============================================================================
