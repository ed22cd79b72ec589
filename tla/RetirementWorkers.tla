--------------------------- MODULE RetirementWorkers ---------------------------
(***************************************************************************)
(* DarwinRetirementService (crate nocter-darwin-blocking-service,          *)
(* retirement_service.rs): the cleanup threads of a ResourceRetirement     *)
(* service, and how the adapter is shut down or dropped while permits and  *)
(* owners live on in other threads.                                        *)
(*                                                                         *)
(* A thread is cut wherever it gives up a lock: every change of the        *)
(* service is followed by a notification of its own.  The worker signal is *)
(* that of BlockingWorkers: its revision is the set of workers whose       *)
(* observation is current.  The bytes that the notifier also writes are    *)
(* left out; they are treated in BlockingWorkers.                          *)
(***************************************************************************)
EXTENDS ResourceRetirement

Workers == 1 .. WorkerLimit

VARIABLES
    owner,      \* where the thread that owns the adapter is
    ending,     \* whether it is in shutdown or in Drop
    worker,     \* where each cleanup thread is in retirement_loop
    holding,    \* the entry whose guard each cleanup thread owns, if any
    current,    \* cleanup threads that have observed the latest revision
    stop,       \* WorkerControl.shutdown
    pending     \* other threads that gave up a permit or owner and must still notify

poolVars == <<owner, ending, worker, holding, current, stop, pending>>
vars == <<retirementVars, poolVars>>

OwnerSteps  == {"building", "free", "notify", "notifyFailed", "close", "notifyClosed", "detach",
                "notifyDetached", "look", "join", "stopped", "abandoned"}
WorkerSteps == {"unborn", "observe", "claim", "look", "wait", "asleep", "clean", "notify", "exited"}

WInit ==
    /\ Init
    /\ owner = "building" /\ ending = "none"
    /\ worker = [w \in Workers |-> "unborn"]
    /\ holding = [w \in Workers |-> {}]
    /\ current = {} /\ stop = FALSE /\ pending = 0

\* notify_all: the revision moves and every sleeper looks at it again.
NotifyAll ==
    /\ current' = {}
    /\ worker' = [w \in Workers |-> IF worker[w] = "asleep" THEN "wait" ELSE worker[w]]

Exited == \A w \in Workers : worker[w] \in {"unborn", "exited"}

-----------------------------------------------------------------------------
(* The thread that owns the adapter.                                       *)

\* new: the threads are created in order, until all are there or the host refuses one.
Build(w) ==
    /\ owner = "building"
    /\ worker[w] = "unborn"
    /\ \A v \in Workers : v < w => worker[v] # "unborn"
    /\ worker' = [worker EXCEPT ![w] = "observe"]
    /\ owner' = IF w = WorkerLimit THEN "free" ELSE owner
    /\ UNCHANGED <<retirementVars, ending, holding, current, stop, pending>>

BuildFails ==
    /\ owner = "building"
    /\ CloseAdmission
    /\ owner' = "notifyFailed"
    /\ UNCHANGED <<ending, worker, holding, current, stop, pending>>

\* WorkerSignal.close of a construction that failed.
Close ==
    /\ owner = "close"
    /\ owner' = "join"
    /\ stop' = TRUE
    /\ NotifyAll
    /\ UNCHANGED <<retirementVars, ending, holding, pending>>

CallReserve ==
    /\ owner = "free"
    /\ Reserve
    /\ UNCHANGED poolVars

CallConsume(r) ==
    /\ owner = "free"
    /\ Consume(r)
    /\ owner' = "notify"
    /\ UNCHANGED <<ending, worker, holding, current, stop, pending>>

CallDetach(r) ==
    /\ owner = "free"
    /\ Detach(r)
    /\ owner' = IF active[r] = "completed" THEN "notify" ELSE "free"
    /\ UNCHANGED <<ending, worker, holding, current, stop, pending>>

\* shutdown, perhaps not for the first time, and Drop.
BeginsEnd(how) ==
    /\ owner = "free"
    /\ ending' = how
    /\ \/ CloseAdmission /\ owner' = "notifyClosed"
       \/ ~accepting /\ owner' = "detach" /\ UNCHANGED retirementVars
    /\ UNCHANGED <<worker, holding, current, stop, pending>>

\* Mutant: completions dropped by detach_all are not notified.
DetachesSilently ==
    /\ owner = "detach"
    /\ DetachAll
    /\ owner' = "look"
    /\ UNCHANGED <<ending, worker, holding, current, stop, pending>>

Detaches ==
    /\ owner = "detach"
    /\ DetachAll
    /\ owner' = IF QueuedIdentities # {} \/ InState({"running", "completed"}) # {}
                  THEN "notifyDetached" ELSE "look"
    /\ UNCHANGED <<ending, worker, holding, current, stop, pending>>

\* Everything reserved that is neither queued nor running counts as held outside.
External == reserved - (Len(queue) + RunningCount)

\* shutdown reports OutstandingOwners; Drop lets go of the threads instead.
Looks ==
    /\ owner = "look"
    /\ owner' = IF External = 0 THEN "join"
                ELSE IF ending = "shutdown" THEN "free" ELSE "abandoned"
    /\ UNCHANGED <<retirementVars, ending, worker, holding, current, stop, pending>>

Join ==
    /\ owner = "join"
    /\ Exited
    /\ owner' = "stopped"
    /\ stop' = TRUE
    /\ UNCHANGED <<retirementVars, ending, worker, holding, current, pending>>

\* The notifier, called by the owner of the adapter once it has unlocked.
OwnerNotifies ==
    /\ \/ owner = "notify" /\ owner' = "free"
       \/ owner = "notifyFailed" /\ owner' = "close"
       \/ owner = "notifyClosed" /\ owner' = "detach"
       \/ owner = "notifyDetached" /\ owner' = "look"
    /\ NotifyAll
    /\ UNCHANGED <<retirementVars, ending, holding, stop, pending>>

-----------------------------------------------------------------------------
(* The threads that hold permits and owners; none of this needs the        *)
(* adapter, which may be gone.                                             *)

Initializes == Attach /\ UNCHANGED poolVars

GivesUp ==
    /\ DropPermit \/ DropOwner \/ Retire
    /\ pending' = pending + 1
    /\ UNCHANGED <<owner, ending, worker, holding, current, stop>>

\* Mutant: the notifier is not called.
AnnouncesNothing ==
    /\ pending > 0
    /\ pending' = pending - 1
    /\ UNCHANGED <<retirementVars, owner, ending, worker, holding, current, stop>>

Announces ==
    /\ pending > 0
    /\ pending' = pending - 1
    /\ NotifyAll
    /\ UNCHANGED <<retirementVars, owner, ending, holding, stop>>

-----------------------------------------------------------------------------
(* A cleanup thread.                                                       *)

Observe(w) ==
    /\ worker[w] = "observe"
    /\ worker' = [worker EXCEPT ![w] = "claim"]
    /\ current' = current \cup {w}
    /\ UNCHANGED <<retirementVars, owner, ending, holding, stop, pending>>

Claims(w) ==
    /\ worker[w] = "claim"
    /\ Claim
    /\ worker' = [worker EXCEPT ![w] = "clean"]
    /\ holding' = [holding EXCEPT ![w] = {Head(queue)}]
    /\ UNCHANGED <<owner, ending, current, stop, pending>>

ClaimsNone(w) ==
    /\ worker[w] = "claim"
    /\ ~Claimable
    /\ worker' = [worker EXCEPT ![w] = "look"]
    /\ UNCHANGED <<retirementVars, owner, ending, holding, current, stop, pending>>

\* Mutant: a thread leaves when nothing is queued, though owners are alive.
LeavesEarly(w) ==
    /\ worker[w] = "look"
    /\ worker' = [worker EXCEPT ![w] = IF ~accepting /\ queue = <<>> THEN "exited" ELSE "wait"]
    /\ UNCHANGED <<retirementVars, owner, ending, holding, current, stop, pending>>

Leaves(w) ==
    /\ worker[w] = "look"
    /\ worker' = [worker EXCEPT ![w] = IF ~accepting /\ Drained THEN "exited" ELSE "wait"]
    /\ UNCHANGED <<retirementVars, owner, ending, holding, current, stop, pending>>

\* Mutant: a cleanup that unwinds takes the guard's release with it.
CleansUnguarded(w) ==
    /\ worker[w] = "clean"
    /\ \/ Unobserved \in holding[w] /\ FinishUnobserved
       \/ \E r \in holding[w] \ {Unobserved} : FinishObserved(r)
       \/ UNCHANGED retirementVars
    /\ worker' = [worker EXCEPT ![w] = "notify"]
    /\ holding' = [holding EXCEPT ![w] = {}]
    /\ UNCHANGED <<owner, ending, current, stop, pending>>

\* The cleanup returns, or unwinds and is caught; either way the guard is destroyed.
Cleans(w) ==
    /\ worker[w] = "clean"
    /\ \/ Unobserved \in holding[w] /\ FinishUnobserved
       \/ \E r \in holding[w] \ {Unobserved} : FinishObserved(r)
    /\ worker' = [worker EXCEPT ![w] = "notify"]
    /\ holding' = [holding EXCEPT ![w] = {}]
    /\ UNCHANGED <<owner, ending, current, stop, pending>>

WorkerNotifies(w) ==
    /\ worker[w] = "notify"
    /\ current' = {}
    /\ worker' = [v \in Workers |-> IF v = w THEN "observe"
                                    ELSE IF worker[v] = "asleep" THEN "wait" ELSE worker[v]]
    /\ UNCHANGED <<retirementVars, owner, ending, holding, stop, pending>>

\* wait_for_change, with the signal locked: leave, look again, or sleep.
WaitForChange(w) ==
    /\ worker[w] = "wait"
    /\ worker' = [worker EXCEPT ![w] =
         IF stop THEN "exited" ELSE IF w \in current THEN "asleep" ELSE "observe"]
    /\ UNCHANGED <<retirementVars, owner, ending, holding, current, stop, pending>>

SpuriousWake(w) ==
    /\ worker[w] = "asleep"
    /\ worker' = [worker EXCEPT ![w] = "wait"]
    /\ UNCHANGED <<retirementVars, owner, ending, holding, current, stop, pending>>

WorkerStep(w) ==
    \/ Observe(w) \/ Claims(w) \/ ClaimsNone(w) \/ Leaves(w) \/ Cleans(w)
    \/ WorkerNotifies(w) \/ WaitForChange(w)

OwnerStep == OwnerNotifies \/ Close \/ Detaches \/ Looks \/ Join

WNext ==
    \/ \E w \in Workers : Build(w) \/ WorkerStep(w) \/ SpuriousWake(w)
    \/ BuildFails \/ OwnerStep
    \/ CallReserve
    \/ \E r \in Retirements : CallConsume(r) \/ CallDetach(r)
    \/ \E how \in {"shutdown", "drop"} : BeginsEnd(how)
    \/ Initializes \/ GivesUp \/ Announces

\* Threads run and cleanups return; nobody has to give up a permit or owner, nor to end the adapter.
Fairness ==
    /\ WF_vars(OwnerStep)
    /\ WF_vars(Announces)
    /\ \A w \in Workers : WF_vars(WorkerStep(w))

WSpec == WInit /\ [][WNext]_vars /\ Fairness

-----------------------------------------------------------------------------
(* Properties.                                                             *)

(* Every variable has its type, and the guards are those that cleanup      *)
(* threads hold while they clean.                                          *)
WTypeOK ==
    /\ TypeOK
    /\ owner \in OwnerSteps /\ ending \in {"none", "shutdown", "drop"}
    /\ worker \in [Workers -> WorkerSteps]
    /\ \A w \in Workers : holding[w] # {} <=> worker[w] = "clean"
    /\ guards = (UNION {holding[w] : w \in Workers}) \ {Unobserved}
    /\ unobserved = Cardinality({w \in Workers : Unobserved \in holding[w]})
    /\ current \subseteq Workers /\ stop \in BOOLEAN /\ pending \in Nat

Sleeping == {w \in Workers : worker[w] = "asleep" \/ (worker[w] \in {"look", "wait"} /\ w \in current)}
Notifiers ==
    \/ owner \in {"notify", "notifyFailed", "notifyClosed", "notifyDetached"}
    \/ pending > 0
    \/ \E w \in Workers : worker[w] = "notify"

(* No lost wakeup: no cleanup thread goes to sleep over a resource it      *)
(* could clean, and none over a closed and drained service (one that looks *)
(* will leave), unless a notification is on its way.                       *)
NoWorkerOversleeps ==
    ~Notifiers =>
        /\ Claimable => Sleeping = {}
        /\ ~accepting /\ Drained => \A w \in Sleeping : worker[w] = "look"

(* A cleanup thread leaves a service that was ever ready only when it is   *)
(* closed and holds no reservation: whoever still has a permit or an owner *)
(* will find every thread there to clean up after it.                      *)
WorkersStayForOwners ==
    (\E w \in Workers : worker[w] = "exited") => ~accepting /\ Drained

\* An explicit retirement somebody may still wait for.
Awaited == QueuedIdentities # {} \/ InState({"running", "completed"}) # {}

(* Once every permit and owner is gone, and no explicit retirement is left *)
(* waited for, the threads leave: shutdown and Drop return from join, and  *)
(* so do the threads that a Drop let go of.                                *)
AdapterEnds ==
    owner \in {"join", "abandoned"} /\ permits + owners = 0 /\ ~Awaited ~> Exited

(* The same whatever explicit retirements are left: an unconsumed          *)
(* completion cannot retain the service, and the threads Drop let go of    *)
(* finish after the final owner has entered the queue.                     *)
AdapterEndsAlways == owner \in {"join", "abandoned"} /\ permits + owners = 0 ~> Exited
=============================================================================
