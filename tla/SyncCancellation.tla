--------------------------- MODULE SyncCancellation ---------------------------
(***************************************************************************)
(* std/sync CancellationSource and CancellationToken: one flag and one     *)
(* Notification.  Each task owns a token that shares both.                 *)
(***************************************************************************)
EXTENDS Notification

CONSTANT Tasks      \* the tasks that observe the source

VARIABLES
    source,     \* whether the source is "live" or "dropped"
    cancelled,  \* CancellationState.cancelled
    parked,     \* the tasks suspended in cancelled()
    done,       \* the tasks whose cancelled() has returned
    bytes       \* hints in the notification pipe

vars == <<source, cancelled, parked, done, bytes>>

Init ==
    /\ source = "live"
    /\ cancelled = FALSE
    /\ parked = {} /\ done = {}
    /\ bytes = 0

\* The flag is set, and signalled, once.
RequestCancellation ==
    /\ cancelled' = TRUE
    /\ bytes' = IF cancelled THEN bytes ELSE Signalled(bytes)

Cancel ==
    /\ source = "live"
    /\ RequestCancellation
    /\ UNCHANGED <<source, parked, done>>

DropSource ==
    /\ source = "live"
    /\ source' = "dropped"
    /\ RequestCancellation
    /\ UNCHANGED <<parked, done>>

\* cancelled(), first poll.
Observe(t) ==
    /\ t \notin parked \cup done
    /\ IF cancelled
         THEN done' = done \cup {t} /\ UNCHANGED <<parked, bytes>>
         ELSE parked' = parked \cup {t} /\ bytes' = AllRead(bytes) /\ UNCHANGED done
    /\ UNCHANGED <<source, cancelled>>

\* cancelled(), a later poll.
Resume(t) ==
    /\ t \in parked
    /\ bytes > 0
    /\ IF cancelled
         THEN /\ done' = done \cup {t}
              /\ parked' = parked \ {t}
              /\ bytes' = OneRead(bytes)
         ELSE bytes' = AllRead(bytes) /\ UNCHANGED <<parked, done>>
    /\ UNCHANGED <<source, cancelled>>

\* The task that waits is itself destroyed, or the wait is the losing side of a race.
GiveUp(t) ==
    /\ t \in parked
    /\ parked' = parked \ {t}
    /\ UNCHANGED <<source, cancelled, done, bytes>>

Next ==
    \/ Cancel \/ DropSource
    \/ \E t \in Tasks : Observe(t) \/ Resume(t) \/ GiveUp(t)

\* The executor polls a task whose descriptor stays ready.
Spec == Init /\ [][Next]_vars /\ \A t \in Tasks : WF_vars(Resume(t))

\* Besides, the owner of the source drops it some day.
DroppedSpec == Spec /\ WF_vars(DropSource)

-----------------------------------------------------------------------------
(* Properties.                                                             *)

(* Every token is told: "a remaining token cannot wait forever for an      *)
(* owner that no longer exists".                                           *)
EverybodyIsTold == \A t \in Tasks : t \in parked ~> t \notin parked
=============================================================================
