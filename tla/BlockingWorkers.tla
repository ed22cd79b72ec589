---------------------------- MODULE BlockingWorkers ----------------------------
(***************************************************************************)
(* DarwinBlockingService (crate nocter-darwin-blocking-service, lib.rs):   *)
(* the worker threads of a BlockingJobs service, the condition variable    *)
(* that wakes them, and the nonblocking socket pair that wakes the         *)
(* executor thread which owns the adapter.                                 *)
(*                                                                         *)
(* A thread is cut wherever it gives up a lock: between a change of the    *)
(* service and the notification that follows it, and between observing the *)
(* worker signal, claiming and going to sleep.  The revision counter of    *)
(* the signal is only ever compared with the one a worker observed, so it  *)
(* is the set of workers whose observation is still current; its           *)
(* saturation at u128::MAX is out of reach.  A full socket already holds a *)
(* byte, so the channel is one flag.                                       *)
(*                                                                         *)
(* The computations of the executor are external: as the crate's README    *)
(* and tests have it, one that waits for a job or for capacity suspends on *)
(* the descriptor, the wake is drained when it resumes, and it queries its *)
(* own job or epoch again.                                                 *)
(***************************************************************************)
EXTENDS BlockingJobs

CONSTANT Callers    \* the computations that use the service

Workers == 1 .. WorkerLimit

VARIABLES
    owner,      \* where the executor thread is in a call of the adapter
    worker,     \* where each worker thread is in worker_loop
    holding,    \* the job whose guard each worker owns, if any
    current,    \* workers that have observed the latest revision
    stop,       \* WorkerControl.shutdown
    readable,   \* the notification channel holds a byte
    phase,      \* what each computation is suspended on
    ticket,     \* the job or the capacity epoch it remembers
    due         \* computations that have been woken and will query again

poolVars == <<owner, worker, holding, current, stop, readable>>
callerVars == <<phase, ticket, due>>
vars == <<jobVars, poolVars, callerVars>>

OwnerSteps  == {"building", "free", "kick", "signal", "close", "join", "stopped"}
WorkerSteps == {"unborn", "observe", "claim", "wait", "asleep", "operate", "signal", "exited"}
Phases      == {"idle", "blocked", "waiting"}

WInit ==
    /\ Init
    /\ owner = "building"
    /\ worker = [w \in Workers |-> "unborn"]
    /\ holding = [w \in Workers |-> {}]
    /\ current = {}
    /\ stop = FALSE
    /\ readable = FALSE
    /\ phase = [c \in Callers |-> "idle"]
    /\ ticket = [c \in Callers |-> 0]
    /\ due = {}

Asleep == {w \in Workers : worker[w] = "asleep"}

\* Every sleeper of S is woken to look at the signal again.
Rouse(S) == [w \in Workers |-> IF w \in S THEN "wait" ELSE worker[w]]

-----------------------------------------------------------------------------
(* The executor thread.                                                    *)

\* new: the workers are created in order, until all are there or the host refuses one.
Build(w) ==
    /\ owner = "building"
    /\ worker[w] = "unborn"
    /\ \A v \in Workers : v < w => worker[v] # "unborn"
    /\ worker' = [worker EXCEPT ![w] = "observe"]
    /\ owner' = IF w = WorkerLimit THEN "free" ELSE owner
    /\ UNCHANGED <<jobVars, holding, current, stop, readable, callerVars>>

\* A computation calls submit for the first time, or once the epoch it was shown has moved.
Offers(c) ==
    /\ owner = "free"
    /\ phase[c] = "idle" \/ (phase[c] = "blocked" /\ c \in due /\ epoch # ticket[c])
    /\ due' = due \ {c}

\* A submitted job must still wake a worker.
SubmitJob(c) ==
    /\ Offers(c)
    /\ Submit
    /\ owner' = "kick"
    /\ phase' = [phase EXCEPT ![c] = "waiting"]
    /\ ticket' = [ticket EXCEPT ![c] = nextJob]
    /\ UNCHANGED <<worker, holding, current, stop, readable>>

\* A rejected one remembers the epoch, or gives up when no identity is left.
Rejected(c) ==
    /\ Offers(c)
    /\ accepting
    /\ \/ /\ Admitted >= MaximumJobs
          /\ phase' = [phase EXCEPT ![c] = "blocked"]
          /\ ticket' = [ticket EXCEPT ![c] = epoch]
       \/ /\ Admitted < MaximumJobs /\ nextJob = MaxU64
          /\ phase' = [phase EXCEPT ![c] = "idle"]
          /\ UNCHANGED ticket
    /\ UNCHANGED <<jobVars, poolVars>>

\* Mutant: the wakeup goes to nobody when no worker sleeps yet.
KickOnlySleepers ==
    /\ owner = "kick"
    /\ owner' = "free"
    /\ IF Asleep = {} THEN UNCHANGED worker
       ELSE \E w \in Asleep : worker' = Rouse({w})
    /\ UNCHANGED <<jobVars, holding, current, stop, readable, callerVars>>

\* notify_one: the revision moves, so that a worker about to sleep does not.
Kick ==
    /\ owner = "kick"
    /\ owner' = "free"
    /\ current' = {}
    /\ IF Asleep = {} THEN UNCHANGED worker
       ELSE \E w \in Asleep : worker' = Rouse({w})
    /\ UNCHANGED <<jobVars, holding, stop, readable, callerVars>>

\* A woken computation takes its outcome, or suspends again.
TakesOutcome(c) ==
    /\ owner = "free"
    /\ c \in due /\ phase[c] = "waiting"
    /\ Consume(ticket[c])
    /\ owner' = "signal"
    /\ phase' = [phase EXCEPT ![c] = "idle"]
    /\ due' = due \ {c}
    /\ UNCHANGED <<worker, holding, current, stop, readable, ticket>>

SuspendsAgain(c) ==
    /\ owner = "free"
    /\ c \in due
    /\ CASE phase[c] = "waiting" -> active[ticket[c]] \notin Outcomes
         [] phase[c] = "blocked" -> epoch = ticket[c]
         [] OTHER -> TRUE
    /\ due' = due \ {c}
    /\ UNCHANGED <<jobVars, poolVars, phase, ticket>>

\* Mutant: a cancellation notifies nobody.
AbandonsSilently(c) ==
    /\ owner = "free"
    /\ phase[c] = "waiting"
    /\ Cancel(ticket[c])
    /\ phase' = [phase EXCEPT ![c] = "idle"]
    /\ UNCHANGED <<owner, worker, holding, current, stop, readable, ticket, due>>

\* A computation is cancelled; only a running job is left without a notification.
Abandons(c) ==
    /\ owner = "free"
    /\ phase[c] = "waiting"
    /\ Cancel(ticket[c])
    /\ owner' = IF active[ticket[c]] = "running" THEN "free" ELSE "signal"
    /\ phase' = [phase EXCEPT ![c] = "idle"]
    /\ UNCHANGED <<worker, holding, current, stop, readable, ticket, due>>

\* The readiness wait of the executor: the byte is drained, who waits is resumed.
Drain ==
    /\ owner = "free"
    /\ readable
    /\ readable' = FALSE
    /\ due' = {c \in Callers : phase[c] # "idle"}
    /\ UNCHANGED <<jobVars, owner, worker, holding, current, stop, phase, ticket>>

\* shutdown and Drop, or a construction that failed half-way.
Shutdown ==
    /\ owner \in {"free", "building"}
    /\ BeginShutdown
    /\ owner' = "signal"
    /\ phase' = [c \in Callers |-> "idle"]
    /\ due' = {}
    /\ UNCHANGED <<worker, holding, current, stop, readable, ticket>>

\* The notifier of the service, called by the executor thread once it has unlocked.
OwnerSignals ==
    /\ owner = "signal"
    /\ readable' = TRUE
    /\ owner' = IF accepting THEN "free" ELSE "close"
    /\ UNCHANGED <<jobVars, worker, holding, current, stop, callerVars>>

\* Mutant: nobody is woken to see that it shall stop.
CloseSilently ==
    /\ owner = "close"
    /\ owner' = "join"
    /\ stop' = TRUE
    /\ UNCHANGED <<jobVars, worker, holding, current, readable, callerVars>>

Close ==
    /\ owner = "close"
    /\ owner' = "join"
    /\ stop' = TRUE
    /\ current' = {}
    /\ worker' = Rouse(Asleep)
    /\ UNCHANGED <<jobVars, holding, readable, callerVars>>

\* Mutant: the adapter does not wait for its workers.
JoinNobody ==
    /\ owner = "join"
    /\ owner' = "stopped"
    /\ UNCHANGED <<jobVars, worker, holding, current, stop, readable, callerVars>>

Join ==
    /\ owner = "join"
    /\ \A w \in Workers : worker[w] \in {"unborn", "exited"}
    /\ owner' = "stopped"
    /\ UNCHANGED <<jobVars, worker, holding, current, stop, readable, callerVars>>

-----------------------------------------------------------------------------
(* A worker thread.                                                        *)

Observe(w) ==
    /\ worker[w] = "observe"
    /\ worker' = [worker EXCEPT ![w] = "claim"]
    /\ current' = current \cup {w}
    /\ UNCHANGED <<jobVars, owner, holding, stop, readable, callerVars>>

ClaimsJob(w) ==
    /\ worker[w] = "claim"
    /\ Claim
    /\ worker' = [worker EXCEPT ![w] = "operate"]
    /\ holding' = [holding EXCEPT ![w] = {Head(queue)}]
    /\ UNCHANGED <<owner, current, stop, readable, callerVars>>

ClaimsNone(w) ==
    /\ worker[w] = "claim"
    /\ queue = <<>> \/ RunningCount >= WorkerLimit
    /\ worker' = [worker EXCEPT ![w] = "wait"]
    /\ UNCHANGED <<jobVars, owner, holding, current, stop, readable, callerVars>>

\* Mutant: the completion guard does not survive an operation that unwinds.
OperateUnwinds(w) ==
    /\ worker[w] = "operate"
    /\ (\E j \in holding[w] : Finish(j, "completed")) \/ UNCHANGED jobVars
    /\ worker' = [worker EXCEPT ![w] = "signal"]
    /\ holding' = [holding EXCEPT ![w] = {}]
    /\ UNCHANGED <<owner, current, stop, readable, callerVars>>

\* The operation returns, or unwinds and leaves its completion guard to be dropped.
Operate(w) ==
    /\ worker[w] = "operate"
    /\ \E j \in holding[w], outcome \in Outcomes : Finish(j, outcome)
    /\ worker' = [worker EXCEPT ![w] = "signal"]
    /\ holding' = [holding EXCEPT ![w] = {}]
    /\ UNCHANGED <<owner, current, stop, readable, callerVars>>

\* Mutant: the notification comes without a byte.
WorkerSignalsNothing(w) ==
    /\ worker[w] = "signal"
    /\ worker' = [worker EXCEPT ![w] = "observe"]
    /\ UNCHANGED <<jobVars, owner, holding, current, stop, readable, callerVars>>

WorkerSignals(w) ==
    /\ worker[w] = "signal"
    /\ readable' = TRUE
    /\ worker' = [worker EXCEPT ![w] = "observe"]
    /\ UNCHANGED <<jobVars, owner, holding, current, stop, callerVars>>

\* wait_for_change, with the signal locked: leave, look again, or sleep.
WaitForChange(w) ==
    /\ worker[w] = "wait"
    /\ worker' = [worker EXCEPT ![w] =
         IF stop THEN "exited" ELSE IF w \in current THEN "asleep" ELSE "observe"]
    /\ UNCHANGED <<jobVars, owner, holding, current, stop, readable, callerVars>>

\* A condition variable may wake a thread that nobody notified.
SpuriousWake(w) ==
    /\ worker[w] = "asleep"
    /\ worker' = Rouse({w})
    /\ UNCHANGED <<jobVars, owner, holding, current, stop, readable, callerVars>>

WorkerStep(w) ==
    \/ Observe(w) \/ ClaimsJob(w) \/ ClaimsNone(w) \/ Operate(w)
    \/ WorkerSignals(w) \/ WaitForChange(w)

OwnerStep == Kick \/ OwnerSignals \/ Close \/ Join

CallerStep(c) == SubmitJob(c) \/ Rejected(c) \/ TakesOutcome(c) \/ SuspendsAgain(c) \/ Abandons(c)

WNext ==
    \/ \E w \in Workers : Build(w) \/ WorkerStep(w) \/ SpuriousWake(w)
    \/ OwnerStep
    \/ Drain
    \/ Shutdown
    \/ \E c \in Callers : CallerStep(c)

\* Threads run, operations return, and the executor serves every computation it has resumed.
\* Nothing is assumed of the computations' own decisions, nor of spurious wakeups.
Fairness ==
    /\ WF_vars(OwnerStep)
    /\ SF_vars(Drain)
    /\ \A w \in Workers : WF_vars(WorkerStep(w))
    /\ \A c \in Callers : SF_vars(TakesOutcome(c)) /\ SF_vars(SuspendsAgain(c))
                          /\ SF_vars(c \in due /\ (SubmitJob(c) \/ Rejected(c)))

WSpec == WInit /\ [][WNext]_vars /\ Fairness

-----------------------------------------------------------------------------
(* Properties.                                                             *)

(* Every variable has its type, and a worker owns the guard of the job it  *)
(* operates on.                                                            *)
WTypeOK ==
    /\ TypeOK
    /\ owner \in OwnerSteps
    /\ worker \in [Workers -> WorkerSteps]
    /\ \A w \in Workers : holding[w] # {} <=> worker[w] = "operate"
    /\ guards = UNION {holding[w] : w \in Workers}
    /\ current \subseteq Workers
    /\ stop \in BOOLEAN /\ readable \in BOOLEAN
    /\ phase \in [Callers -> Phases]
    /\ ticket \in [Callers -> 0 .. MaxU64]
    /\ due \subseteq Callers

Sleeping == {w \in Workers : worker[w] = "asleep" \/ (worker[w] = "wait" /\ w \in current)}
OnTheWay == {w \in Workers : \/ worker[w] \in {"observe", "claim", "signal"}
                             \/ worker[w] = "wait" /\ w \notin current}

(* No lost wakeup: once submit has returned, no worker sleeps, or is about *)
(* to, while the queue holds more jobs than there are workers on their way *)
(* to it.  One notify_one per job, sent after the queue was unlocked, is   *)
(* enough because of the revision each worker takes before it claims.      *)
NoWorkerOversleeps ==
    (owner # "kick" /\ Len(queue) > Cardinality(OnTheWay)) => Sleeping = {}

(* No lost notification: a computation that sleeps although its outcome is *)
(* there, or although a slot was given back since it was turned away, has  *)
(* an unread byte to wake it, or a thread that is about to write one.      *)
NewsIsAnnounced ==
    (\E c \in Callers \ due : \/ phase[c] = "waiting" /\ active[ticket[c]] \in Outcomes
                              \/ phase[c] = "blocked" /\ epoch # ticket[c])
        => readable \/ owner = "signal" \/ \E w \in Workers : worker[w] = "signal"

(* When shutdown has returned, or a failed construction has, no thread is  *)
(* left and nothing of any job is.                                         *)
ShutdownIsComplete ==
    owner = "stopped" =>
        /\ \A w \in Workers : worker[w] \in {"unborn", "exited"}
        /\ queue = <<>> /\ InState(JobStates \ {"none"}) = {}

(* No computation waits for ever: one that waits for a job gets its        *)
(* outcome, unless it is cancelled or the adapter is shut down, and one    *)
(* that was turned away tries again once a slot was given back.            *)
CallersServed == \A c \in Callers :
    LET stuck == phase[c] = "waiting" \/ (phase[c] = "blocked" /\ epoch # ticket[c])
    IN  stuck ~> ~stuck

(* Shutdown returns: every worker notices it, whatever it was doing.       *)
ShutdownReturns == owner = "join" ~> owner = "stopped"
=============================================================================
