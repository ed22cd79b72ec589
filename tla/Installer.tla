------------------------------ MODULE Installer ------------------------------
(***************************************************************************)
(* The installation transaction of crate nocter-installation               *)
(* (installer.rs): one release at a time is extracted into a directory     *)
(* beside the destination and put in its place by renames.  An action is   *)
(* what happens between two changes of the file system.  Any operation may *)
(* fail and the process may die anywhere; what it leaves behind is found   *)
(* by the next installation.                                               *)
(***************************************************************************)
CONSTANTS
    Releases,   \* the releases there are archives of
    Nothing,    \* no directory entry
    Broken      \* a tree that validation refuses: extracted or removed in part

ASSUME InstallerAssumption == Nothing # Broken /\ Releases \cap {Nothing, Broken} = {}

VARIABLES
    destination,    \* the home at the destination
    transaction,    \* {the transaction directory}, or {}
    pc,             \* what the installing process does next, "idle" without one
    wanted,         \* the release in the archive
    active,         \* whether the destination is the home of the running compiler
    existing,       \* whether an installation is to be replaced
    cleanup,        \* cleanup_on_drop
    last            \* how the last installation ended

vars == <<destination, transaction, pc, wanted, active, existing, cleanup, last>>
request == <<wanted, active>>

Directory(marked, stage, previous) ==
    [marker |-> marked, stage |-> stage, previous |-> previous]

\* What a removal that does not end may leave of a tree, and of the transaction directory:
\* the entries of a directory go in any order.
Leavings(home) == IF home = Nothing THEN {Nothing} ELSE {home, Broken, Nothing}
LeftOf(t) ==
    [marker : {FALSE, t.marker}, stage : Leavings(t.stage), previous : Leavings(t.previous)]
Remains == UNION {{{left} : left \in LeftOf(t)} : t \in transaction}

\* A compiler can be anywhere, and someone may have made the reserved directory.
Init ==
    /\ destination \in Releases \cup {Nothing}
    /\ transaction \in { {}, {Directory(FALSE, Nothing, Nothing)} }
    /\ pc = "idle"
    /\ wanted \in Releases /\ active = FALSE /\ existing = FALSE
    /\ cleanup = FALSE
    /\ last = "none"

At(here, next) == pc = here /\ pc' = next
Returns(how) == pc' = "idle" /\ last' = how

-----------------------------------------------------------------------------
(* One installation.                                                       *)

\* install_artifact up to recovery; a refusal here touches nothing.
Begin(release, here) ==
    /\ At("idle", "recover")
    /\ here => destination # Nothing
    /\ wanted' = release
    /\ active' = here
    /\ existing' = FALSE
    /\ cleanup' = FALSE
    /\ UNCHANGED <<destination, transaction, last>>

\* No transaction was interrupted.
NothingToRecover ==
    /\ At("recover", "inspect")
    /\ transaction = {}
    /\ UNCHANGED <<destination, transaction, request, existing, cleanup, last>>

\* The directory is not the installer's, or the home that counts is not whole.
RecoveryRefuses ==
    /\ At("recover", "drop")
    /\ \E t \in transaction :
         \/ ~t.marker
         \/ destination = Broken
         \/ destination = Nothing /\ t.previous = Broken
    /\ UNCHANGED <<destination, transaction, request, existing, cleanup, last>>

\* The previous home goes back to its place.
Restore ==
    /\ At("recover", "restored")
    /\ \E t \in transaction :
         /\ t.marker
         /\ destination = Nothing /\ t.previous \in Releases
         /\ destination' = t.previous
         /\ transaction' = {[t EXCEPT !.previous = Nothing]}
    /\ UNCHANGED <<request, existing, cleanup, last>>

\* Mutant: a stale transaction is recognised and left where it is.
FindStaleKeeps ==
    /\ At("recover", "inspect")
    /\ \E t \in transaction :
         /\ t.marker
         /\ \/ destination \in Releases
            \/ destination = Nothing /\ t.previous = Nothing
    /\ UNCHANGED <<destination, transaction, request, existing, cleanup, last>>

\* The transaction has nothing the destination lacks.
FindStale ==
    /\ At("recover", "stale")
    /\ \E t \in transaction :
         /\ t.marker
         /\ \/ destination \in Releases
            \/ destination = Nothing /\ t.previous = Nothing
    /\ UNCHANGED <<destination, transaction, request, existing, cleanup, last>>

\* After a restoration the command has to be repeated.
RemoveRecovered ==
    /\ transaction' = {}
    /\ \/ At("stale", "inspect")
       \/ At("restored", "drop")
    /\ UNCHANGED <<destination, request, existing, cleanup, last>>

Inspect ==
    /\ At("inspect", IF destination # Nothing /\ ~active THEN "drop" ELSE "create")
    /\ existing' = (destination # Nothing)
    /\ UNCHANGED <<destination, transaction, request, cleanup, last>>

\* The directory must not be there.
Create ==
    /\ At("create", IF transaction = {} THEN "mark" ELSE "drop")
    /\ transaction' = IF transaction = {} THEN {Directory(FALSE, Nothing, Nothing)} ELSE transaction
    /\ UNCHANGED <<destination, request, existing, cleanup, last>>

Mark ==
    /\ At("mark", "stage")
    /\ transaction' = {Directory(TRUE, Nothing, Nothing)}
    /\ cleanup' = TRUE
    /\ UNCHANGED <<destination, request, existing, last>>

\* Extraction fills the stage; it holds a home when the candidate has been validated.
Stage(here, next, content) ==
    /\ At(here, next)
    /\ transaction' = { [t EXCEPT !.stage = content] : t \in transaction }
    /\ UNCHANGED <<destination, request, existing, cleanup, last>>

\* Mutant: the transaction is not disarmed before the home moves into it.
SetAsideArmed ==
    /\ At("commit", "publish")
    /\ existing
    /\ transaction' = { [t EXCEPT !.previous = destination] : t \in transaction }
    /\ destination' = Nothing
    /\ UNCHANGED <<request, existing, cleanup, last>>

\* commit_replacement up to the first rename.
SetAside ==
    /\ At("commit", "publish")
    /\ existing
    /\ cleanup' = FALSE
    /\ transaction' = { [t EXCEPT !.previous = destination] : t \in transaction }
    /\ destination' = Nothing
    /\ UNCHANGED <<request, existing, last>>

\* The candidate is renamed to the destination, in commit_fresh or commit_replacement.
Publish ==
    /\ \/ At("commit", "finish") /\ ~existing
       \/ At("publish", "finish")
    /\ cleanup' = FALSE
    /\ \E t \in transaction :
         /\ destination' = t.stage
         /\ transaction' = {[t EXCEPT !.stage = Nothing]}
    /\ UNCHANGED <<request, existing, last>>

RollBack ==
    /\ At("rollback", "drop")
    /\ cleanup' = TRUE
    /\ \E t \in transaction :
         /\ destination' = t.previous
         /\ transaction' = {[t EXCEPT !.previous = Nothing]}
    /\ UNCHANGED <<request, existing, last>>

\* Success, with the transaction removed.
Finish ==
    /\ pc = "finish"
    /\ transaction' = {}
    /\ Returns("installed")
    /\ UNCHANGED <<destination, request, existing, cleanup>>

\* An error is returned: the transaction, if one was made, is dropped.
Drop ==
    /\ pc = "drop"
    /\ transaction' = IF cleanup THEN {} ELSE transaction
    /\ Returns("failed")
    /\ UNCHANGED <<destination, request, existing, cleanup>>

Proceeds ==
    \/ NothingToRecover \/ RecoveryRefuses \/ Restore \/ FindStale \/ RemoveRecovered
    \/ Inspect \/ Create \/ Mark
    \/ Stage("stage", "extract", Broken) \/ Stage("extract", "commit", wanted)
    \/ SetAside \/ Publish \/ RollBack \/ Finish \/ Drop

-----------------------------------------------------------------------------
(* Failures.                                                               *)

\* An operation that changes nothing when it fails, or an archive that is no release.
OperationFails ==
    /\ \/ \E here \in {"recover", "inspect", "create", "stage", "extract", "commit", "rollback"} :
            At(here, "drop")
       \/ At("publish", "rollback")
    /\ UNCHANGED <<destination, transaction, request, existing, cleanup, last>>

\* A removal fails: of a recovered transaction, after success, when the marker could not be
\* written, or in drop.
RemovalFails ==
    /\ transaction' \in Remains
    /\ \/ (At("stale", "drop") \/ At("restored", "drop")) /\ UNCHANGED last
       \/ pc = "finish" /\ Returns("installed")
       \/ pc = "mark" /\ Returns("failed")
       \/ pc = "drop" /\ cleanup /\ Returns("failed")
    /\ UNCHANGED <<destination, request, existing, cleanup>>

\* The marker is not written and the directory is removed at once.
MarkFails ==
    /\ pc = "mark"
    /\ transaction' = {}
    /\ Returns("failed")
    /\ UNCHANGED <<destination, request, existing, cleanup>>

Removing == pc \in {"stale", "restored", "finish"} \/ (pc = "drop" /\ cleanup)

\* The process dies.
Die ==
    /\ pc # "idle"
    /\ \/ UNCHANGED transaction
       \/ Removing /\ transaction' \in Remains \cup { {} }
    /\ Returns("died")
    /\ UNCHANGED <<destination, request, existing, cleanup>>

Fault == OperationFails \/ RemovalFails \/ MarkFails \/ Die

-----------------------------------------------------------------------------

Starts == \E release \in Releases, here \in BOOLEAN : Begin(release, here)

Next == Starts \/ Proceeds \/ Fault

Spec == Init /\ [][Next]_vars

\* A process runs, and the user repeats the command with the compiler of the home in question.
Repeats == \E release \in Releases : Begin(release, destination # Nothing)
FairSpec == Spec /\ WF_vars(Proceeds) /\ SF_vars(Repeats)

-----------------------------------------------------------------------------
(* Properties.                                                             *)

\* The home a user has, or gets back: the one at its place, or the one a marked transaction holds.
InEffect ==
    IF destination # Nothing THEN destination
    ELSE IF \E t \in transaction : t.marker
         THEN (CHOOSE t \in transaction : TRUE).previous
         ELSE Nothing

Phase == IF pc = "idle" THEN "idle" ELSE IF pc = "finish" THEN "done" ELSE "asked"

(* Whatever fails and wherever the process dies, a home is replaced at one *)
(* moment: it is never lost, never one that is not whole, success is       *)
(* reported for the new one only and an error for the old one only.        *)
Atomic == INSTANCE AtomicInstallation WITH
    Homes <- Releases \cup {Nothing},
    home <- InEffect,
    phase <- Phase
InstallationIsAtomic == Atomic!Spec

Unmarked == \E t \in transaction : ~t.marker

(* Repeating the command gets the release installed, whatever state past   *)
(* failures left, once they stop (refusals of the installer's own go on):  *)
(* unless they left a directory without a marker, which it never touches.  *)
RerunsSucceed ==
    <>[][Starts \/ Proceeds]_vars => <>[]Unmarked \/ []<>(last = "installed")
=============================================================================
