--------------------------- MODULE ResourceRetirement ---------------------------
(***************************************************************************)
(* The retirement service of crate nocter-blocking-runtime (retirement.rs):*)
(* native resources whose destruction may block are destroyed by cleanup   *)
(* workers.  A permit is reserved before the resource exists, so that the  *)
(* destruction of its owner can always enter the cleanup queue.  Every     *)
(* operation is one critical section of the service mutex; the notifier    *)
(* called after unlocking is modelled in RetirementWorkers.                *)
(*                                                                         *)
(* A rejected call leaves the state as it is and is a stuttering step.     *)
(* Resources, permits and owners are told apart by nothing the service     *)
(* looks at and are counted; so are guards without an identity.            *)
(***************************************************************************)
EXTENDS Integers, Sequences, FiniteSets

CONSTANTS
    WorkerLimit,        \* RetirementCapacity.workers
    MaximumResources,   \* RetirementCapacity.maximum_resources
    MaxU64              \* the last value of next_retirement and of the epoch (u64::MAX)

\* RetirementCapacity::new rejects anything else.
ASSUME RetirementAssumption ==
    /\ WorkerLimit \in Nat \ {0}
    /\ MaximumResources \in Nat
    /\ MaximumResources >= WorkerLimit
    /\ MaxU64 \in Nat

\* The identities retire can issue, and the queue entry that has none (None).
Retirements == 0 .. MaxU64 - 1
Unobserved  == -1

ActiveStates == {"none", "running", "detached", "completed"}

VARIABLES
    accepting,      \* admission is open
    reserved,       \* reservations held, in whatever form
    nextRetirement, \* the next identity
    epoch,          \* the capacity epoch a rejected reserve observes
    queue,          \* the identities of the resources no worker has taken, or Unobserved
    active,         \* the state of every other explicit retirement, "none" when it has none
    unobserved,     \* unobserved_running: guards of resources without an identity
    guards,         \* the identities for which some worker owns a RetiringResource
    permits,        \* ResourcePermit values alive
    owners          \* ResourceOwner values alive

retirementVars == <<accepting, reserved, nextRetirement, epoch, queue, active,
                    unobserved, guards, permits, owners>>

InState(S) == {r \in Retirements : active[r] \in S}
RunningCount == unobserved + Cardinality(InState({"running", "detached"}))
QueuedIdentities == {queue[i] : i \in 1 .. Len(queue)} \ {Unobserved}

\* RetirementSnapshot::drained
Drained == reserved = 0

Init ==
    /\ accepting = TRUE
    /\ reserved = 0 /\ nextRetirement = 0 /\ epoch = 0
    /\ queue = <<>>
    /\ active = [r \in Retirements |-> "none"]
    /\ unobserved = 0 /\ guards = {}
    /\ permits = 0 /\ owners = 0

\* release_reservation, n times in one critical section; advance would panic past u64::MAX.
Release(n) ==
    /\ reserved' = reserved - n
    /\ epoch' = epoch + n

-----------------------------------------------------------------------------
(* Admission.                                                              *)

\* Mutant: the epoch need not cover the releases still to come.
ReserveUncovered ==
    /\ accepting
    /\ reserved # MaximumResources
    /\ reserved' = reserved + 1
    /\ permits' = permits + 1
    /\ UNCHANGED <<accepting, nextRetirement, epoch, queue, active, unobserved, guards, owners>>

\* can_cover_releases: every reservation can still advance the epoch when it is released.
Reserve ==
    /\ accepting
    /\ reserved # MaximumResources
    /\ epoch + reserved + 1 <= MaxU64
    /\ reserved' = reserved + 1
    /\ permits' = permits + 1
    /\ UNCHANGED <<accepting, nextRetirement, epoch, queue, active, unobserved, guards, owners>>

Attach ==
    /\ permits > 0
    /\ permits' = permits - 1
    /\ owners' = owners + 1
    /\ UNCHANGED <<accepting, reserved, nextRetirement, epoch, queue, active, unobserved, guards>>

DropPermit ==
    /\ permits > 0
    /\ permits' = permits - 1
    /\ Release(1)
    /\ UNCHANGED <<accepting, nextRetirement, queue, active, unobserved, guards, owners>>

CloseAdmission ==
    /\ accepting
    /\ accepting' = FALSE
    /\ UNCHANGED <<reserved, nextRetirement, epoch, queue, active, unobserved, guards, permits, owners>>

-----------------------------------------------------------------------------
(* The end of an owner: it always enters the queue.                        *)

\* An explicit close; without an identity left the resource is queued all the same.
Retire ==
    /\ owners > 0
    /\ owners' = owners - 1
    /\ IF nextRetirement < MaxU64
         THEN queue' = Append(queue, nextRetirement) /\ nextRetirement' = nextRetirement + 1
         ELSE queue' = Append(queue, Unobserved) /\ UNCHANGED nextRetirement
    /\ UNCHANGED <<accepting, reserved, epoch, active, unobserved, guards, permits>>

DropOwner ==
    /\ owners > 0
    /\ owners' = owners - 1
    /\ queue' = Append(queue, Unobserved)
    /\ UNCHANGED <<accepting, reserved, nextRetirement, epoch, active, unobserved, guards, permits>>

-----------------------------------------------------------------------------
(* The waiter of an explicit retirement.                                   *)

Consume(r) ==
    /\ active[r] = "completed"
    /\ active' = [active EXCEPT ![r] = "none"]
    /\ Release(1)
    /\ UNCHANGED <<accepting, nextRetirement, queue, unobserved, guards, permits, owners>>

\* The queue entry of r loses its identity and keeps its place.
DetachQueued(r) ==
    /\ r \in QueuedIdentities
    /\ queue' = [i \in 1 .. Len(queue) |-> IF queue[i] = r THEN Unobserved ELSE queue[i]]
    /\ UNCHANGED <<accepting, reserved, nextRetirement, epoch, active, unobserved, guards, permits, owners>>

\* Mutant: detaching a running retirement forgets it.
DetachRunningForgets(r) ==
    /\ active[r] = "running"
    /\ active' = [active EXCEPT ![r] = "none"]
    /\ UNCHANGED <<accepting, reserved, nextRetirement, epoch, queue, unobserved, guards, permits, owners>>

DetachRunning(r) ==
    /\ active[r] = "running"
    /\ active' = [active EXCEPT ![r] = "detached"]
    /\ UNCHANGED <<accepting, reserved, nextRetirement, epoch, queue, unobserved, guards, permits, owners>>

Detach(r) == DetachQueued(r) \/ DetachRunning(r) \/ Consume(r)

\* Mutant: the epoch moves once for all the completions dropped.
DetachAllMovesOnce ==
    /\ queue' = [i \in 1 .. Len(queue) |-> Unobserved]
    /\ active' = [r \in Retirements |-> IF active[r] \in {"running", "detached"} THEN "detached" ELSE "none"]
    /\ reserved' = reserved - Cardinality(InState({"completed"}))
    /\ epoch' = IF InState({"completed"}) = {} THEN epoch ELSE epoch + 1
    /\ UNCHANGED <<accepting, nextRetirement, unobserved, guards, permits, owners>>

DetachAll ==
    /\ queue' = [i \in 1 .. Len(queue) |-> Unobserved]
    /\ active' = [r \in Retirements |-> IF active[r] \in {"running", "detached"} THEN "detached" ELSE "none"]
    /\ Release(Cardinality(InState({"completed"})))
    /\ UNCHANGED <<accepting, nextRetirement, unobserved, guards, permits, owners>>

-----------------------------------------------------------------------------
(* Cleanup workers.                                                        *)

Claimable == RunningCount # WorkerLimit /\ queue # <<>>

Claim ==
    /\ Claimable
    /\ queue' = Tail(queue)
    /\ IF Head(queue) = Unobserved
         THEN unobserved' = unobserved + 1 /\ UNCHANGED <<active, guards>>
         ELSE /\ active' = [active EXCEPT ![Head(queue)] = "running"]
              /\ guards' = guards \cup {Head(queue)}
              /\ UNCHANGED unobserved
    /\ UNCHANGED <<accepting, reserved, nextRetirement, epoch, permits, owners>>

\* The guard of an explicit retirement is destroyed, with its resource.
FinishObserved(r) ==
    /\ r \in guards
    /\ guards' = guards \ {r}
    /\ IF active[r] = "running"
         THEN active' = [active EXCEPT ![r] = "completed"] /\ UNCHANGED <<reserved, epoch>>
         ELSE active' = [active EXCEPT ![r] = "none"] /\ Release(1)
    /\ UNCHANGED <<accepting, nextRetirement, queue, unobserved, permits, owners>>

\* Mutant: the reservation is not given back.
FinishUnobservedLeaks ==
    /\ unobserved > 0
    /\ unobserved' = unobserved - 1
    /\ UNCHANGED <<accepting, reserved, nextRetirement, epoch, queue, active, guards, permits, owners>>

FinishUnobserved ==
    /\ unobserved > 0
    /\ unobserved' = unobserved - 1
    /\ Release(1)
    /\ UNCHANGED <<accepting, nextRetirement, queue, active, guards, permits, owners>>

Finish == FinishUnobserved \/ \E r \in Retirements : FinishObserved(r)

-----------------------------------------------------------------------------

Next ==
    \/ Reserve \/ Attach \/ DropPermit \/ CloseAdmission
    \/ Retire \/ DropOwner
    \/ \E r \in Retirements : Detach(r)
    \/ DetachAll
    \/ Claim \/ Finish

Spec == Init /\ [][Next]_retirementVars

-----------------------------------------------------------------------------
(* Properties.                                                             *)

(* Every variable has its type.                                            *)
TypeOK ==
    /\ accepting \in BOOLEAN
    /\ reserved \in Nat
    /\ nextRetirement \in 0 .. MaxU64
    /\ epoch \in Nat
    /\ queue \in Seq(Retirements \cup {Unobserved})
    /\ active \in [Retirements -> ActiveStates]
    /\ unobserved \in Nat
    /\ guards \in SUBSET Retirements
    /\ permits \in Nat /\ owners \in Nat

(* The one counter behind the bound is exact: a reservation is a permit,   *)
(* an owner, a queued resource, a guard, or a completion somebody may take *)
(* and nothing else; whichever way it ends, it is given back once.         *)
ReservationsExact ==
    reserved = permits + owners + Len(queue) + unobserved
                 + Cardinality(InState({"running", "detached", "completed"}))

(* An explicit retirement is in one place: in the queue once, or held by   *)
(* the one guard, or completed.  The unreachable! of the guard's           *)
(* destruction is, and no identity is issued while an older one is still   *)
(* in use (the debug_assert of claim).                                     *)
OnePlace ==
    /\ guards = InState({"running", "detached"})
    /\ \A i \in 1 .. Len(queue) : queue[i] # Unobserved =>
         /\ active[queue[i]] = "none" /\ queue[i] < nextRetirement
         /\ \A k \in 1 .. Len(queue) : queue[k] = queue[i] => k = i
    /\ \A r \in Retirements : active[r] # "none" => r < nextRetirement

(* The epoch always covers the releases to come, so the expect of advance  *)
(* cannot fail in a destructor; and an owner always finds an identity, so  *)
(* retire never has to report IdentityExhausted.                           *)
NothingExhausts ==
    /\ epoch + reserved <= MaxU64
    /\ nextRetirement + permits + owners <= epoch + reserved

Pool == INSTANCE AdmissionPool WITH
    Capacity <- MaximumResources, open <- accepting, held <- reserved, released <- epoch

(* The service implements the abstract bounded pool of admissions.         *)
PoolSpec == Pool!Spec
=============================================================================
