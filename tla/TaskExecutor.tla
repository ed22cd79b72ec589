----------------------------- MODULE TaskExecutor -----------------------------
(***************************************************************************)
(* The executor of crate nocter-task-runtime (executor.rs): it pairs each  *)
(* task of the scheduler with one computation payload and calls the        *)
(* payload's resume, cancel and consume.  The executor is borrowed for the *)
(* whole of a call, so no call starts inside another; the two calls that   *)
(* run payload code in the middle (step, and cancel or shutdown) are cut   *)
(* there: polling and cleaning tell which of them is in progress.          *)
(***************************************************************************)
EXTENDS TaskScheduler

VARIABLES
    payloads,   \* identities whose computation the executor owns
    polling,    \* {the task whose computation is being resumed}, or {}
    cleaning    \* tasks whose cancellation cleanup has still to run

execVars == <<schedVars, payloads, polling, cleaning>>

ExecInit == Init /\ payloads = {} /\ polling = {} /\ cleaning = {}

\* No call of the executor is in progress.
Between == polling = {} /\ cleaning = {}

ExecSpawn(s) ==
    /\ Between
    /\ Spawn(s)
    /\ payloads' = payloads \cup {Task(s)}
    /\ UNCHANGED <<polling, cleaning>>

\* step up to computation.resume().
StepBegins ==
    /\ Between
    /\ NextProgress
    /\ polling' = {Task(s) : s \in {t \in TaskSlots : taskState'[t] = "running"}}
    /\ UNCHANGED <<payloads, cleaning>>

\* step from the result of computation.resume() on.
Polled(s) ==
    /\ polling = {Task(s)}
    /\ Task(s) \in payloads
    /\ polling' = {}
    /\ UNCHANGED <<payloads, cleaning>>

PollPending(s)   == Polled(s) /\ Suspends(s)
PollCompletes(s) == Polled(s) /\ Complete(s)

\* The wait set is refused: the task is queued again before the error is returned.
PollRejected(s) ==
    /\ Polled(s)
    /\ \E A \in SUBSET RegSlots, hi \in regLen .. RegSlotCount : RollBack(A, hi)
    /\ Requeue(s)

ExecCancel(s) ==
    /\ Between
    /\ Task(s) \in payloads
    /\ Cancel(s)
    /\ cleaning' = {Task(s)}
    /\ UNCHANGED <<payloads, polling>>

ExecShutdown ==
    /\ Between
    /\ BeginShutdown
    /\ cleaning' = {Task(s) : s \in Occupied}
    /\ UNCHANGED <<payloads, polling>>

\* The payload leaves the executor, destroys its frame or output, then the task is released.
CleanUp(s) ==
    /\ Task(s) \in cleaning
    /\ Task(s) \in payloads
    /\ FinishCancellation(s)
    /\ payloads' = payloads \ {Task(s)}
    /\ cleaning' = cleaning \ {Task(s)}
    /\ UNCHANGED polling

\* Mutant: the payload is kept after its output moved out.
ExecConsumeKeeps(s) ==
    /\ Between
    /\ Task(s) \in payloads
    /\ ConsumeCompleted(s)
    /\ UNCHANGED <<payloads, polling, cleaning>>

ExecConsume(s) ==
    /\ Between
    /\ Task(s) \in payloads
    /\ ConsumeCompleted(s)
    /\ payloads' = payloads \ {Task(s)}
    /\ UNCHANGED <<polling, cleaning>>

ExecNext ==
    \/ StepBegins
    \/ ExecShutdown
    \/ \E s \in TaskSlots :
         \/ ExecSpawn(s) \/ PollPending(s) \/ PollCompletes(s) \/ PollRejected(s)
         \/ ExecCancel(s) \/ CleanUp(s) \/ ExecConsume(s)

ExecSpec == ExecInit /\ [][ExecNext]_execVars

\* A driver that keeps calling step, and computations whose calls return.
StepReturns(s) == PollPending(s) \/ PollCompletes(s) \/ PollRejected(s)
DriverFairness ==
    /\ SF_execVars(StepBegins)
    /\ \A s \in TaskSlots : WF_execVars(StepReturns(s)) /\ WF_execVars(CleanUp(s))

DrivenSpec == ExecSpec /\ DriverFairness

\* Besides, the reactor reports every registration it keeps being asked about, and does not
\* reject the wait sets of a task for ever.
Reports(s) ==
    /\ Between
    /\ \E batch \in SUBSET Issued : \E w \in SetToSeqs(Woken(batch)) :
         s \in Woken(batch) /\ Wait(batch, w)
    /\ polling' = {Task(t) : t \in {u \in TaskSlots : taskState'[u] = "running"}}
    /\ UNCHANGED <<payloads, cleaning>>
ReactorFairness ==
    \A s \in TaskSlots :
        SF_execVars(Reports(s)) /\ SF_execVars(PollPending(s) \/ PollCompletes(s))

-----------------------------------------------------------------------------
(* Properties.                                                             *)

(* Every live identity has exactly one payload and no payload outlives its *)
(* identity: the MissingComputation, DuplicateComputation and Recovery     *)
(* errors of the executor cannot be returned for a current identity.  At   *)
(* most the task being polled is running, and at most the tasks whose      *)
(* cleanup has still to run are cancelling.                                *)
PayloadsExact ==
    /\ payloads = {Task(s) : s \in Occupied}
    /\ polling = {Task(s) : s \in {t \in TaskSlots : taskState[t] = "running"}}
    /\ cleaning = {Task(s) : s \in {t \in TaskSlots : taskState[t] \in Cancelling}}
    /\ polling = {} \/ cleaning = {}

(* A runnable task is polled (or cancelled) in the end, even while another *)
(* one is refused its wait set and requeued again and again.               *)
RunnablePolled == \A id \in TaskIds : Live(id) ~> ~Live(id)

(* A waiting task is woken (or cancelled) in the end, if the reactor keeps *)
(* reporting what it is asked about.                                       *)
WaiterWoken ==
    ReactorFairness => \A id \in TaskIds : IsTask(id, "waiting") ~> ~IsTask(id, "waiting")
=============================================================================
