------------------------------ MODULE SyncMutex ------------------------------
(***************************************************************************)
(* std/sync Mutex: cooperative mutual exclusion over a SharedCell and one  *)
(* Notification.  A task is outside, waits in lock, or owns the guard; it  *)
(* may be cancelled in each, which destroys its computation and with it    *)
(* the guard.                                                              *)
(***************************************************************************)
EXTENDS Notification, FiniteSets

CONSTANT Tasks      \* the tasks that share the mutex

VARIABLES
    holder,     \* the tasks that own a MutexGuard
    parked,     \* the tasks suspended in lock
    bytes       \* hints in the notification pipe

vars == <<holder, parked, bytes>>

Init == holder = {} /\ parked = {} /\ bytes = 0

\* SharedCell.try_write
Free == holder = {}

\* lock, first poll.
Acquire(t) ==
    /\ t \notin holder \cup parked
    /\ Free
    /\ holder' = holder \cup {t}
    /\ UNCHANGED <<parked, bytes>>

Park(t) ==
    /\ t \notin holder \cup parked
    /\ ~Free
    /\ parked' = parked \cup {t}
    /\ bytes' = AllRead(bytes)
    /\ UNCHANGED holder

\* Mutant: the hint is taken for the lock.
ResumeTrustsHint(t) ==
    /\ t \in parked
    /\ bytes > 0
    /\ holder' = holder \cup {t}
    /\ parked' = parked \ {t}
    /\ bytes' = OneRead(bytes)

\* lock, a later poll: the hint only prompts another try.
Resume(t) ==
    /\ t \in parked
    /\ bytes > 0
    /\ IF Free
         THEN holder' = holder \cup {t} /\ parked' = parked \ {t} /\ bytes' = OneRead(bytes)
         ELSE bytes' = AllRead(bytes) /\ UNCHANGED <<holder, parked>>

\* Mutant: the guard is destroyed without a hint.
ReleaseSilently(t) ==
    /\ t \in holder
    /\ holder' = holder \ {t}
    /\ UNCHANGED <<parked, bytes>>

\* The guard is destroyed: by scope exit, failure or cancellation of its task.
Release(t) ==
    /\ t \in holder
    /\ holder' = holder \ {t}
    /\ bytes' = Signalled(bytes)
    /\ UNCHANGED parked

\* A task suspended in lock is cancelled.
CancelWait(t) ==
    /\ t \in parked
    /\ parked' = parked \ {t}
    /\ UNCHANGED <<holder, bytes>>

Next == \E t \in Tasks :
    Acquire(t) \/ Park(t) \/ Resume(t) \/ Release(t) \/ CancelWait(t)

\* The executor polls a task whose descriptor stays ready.
Spec == Init /\ [][Next]_vars /\ \A t \in Tasks : WF_vars(Resume(t))

-----------------------------------------------------------------------------
(* Properties.                                                             *)

(* Every variable has its type, and a task is in one place.                *)
TypeOK ==
    /\ holder \subseteq Tasks /\ parked \subseteq Tasks \ holder
    /\ bytes \in Hints

(* The guard is the sole capability, although hints that nobody has read   *)
(* pile up with every uncontended release.                                 *)
MutualExclusion == \A t, u \in holder : t = u

(* No lost wakeup: a free mutex that somebody waits for has a hint left,   *)
(* whoever read, took the lock first, or was cancelled in between.         *)
NobodyStranded == Free /\ parked # {} => bytes > 0
=============================================================================
