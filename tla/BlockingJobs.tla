----------------------------- MODULE BlockingJobs -----------------------------
(***************************************************************************)
(* The lifecycle service of crate nocter-blocking-runtime (service.rs):    *)
(* a bounded queue of jobs, the jobs workers hold, and the outcomes kept   *)
(* for their waiters.  Every operation is one critical section of the      *)
(* service mutex.  The notifier that most of them call after unlocking is  *)
(* modelled where it matters, in BlockingWorkers.                          *)
(*                                                                         *)
(* A call that the code rejects leaves the state as it is (a rejected      *)
(* input goes back to its caller) and is a stuttering step.  Inputs and    *)
(* outputs are opaque to the service and are left out; an outcome is       *)
(* "completed" or "lost" (WorkerLost).                                     *)
(***************************************************************************)
EXTENDS Integers, Sequences, FiniteSets, SequencesExt

CONSTANTS
    WorkerLimit,    \* ServiceCapacity.workers
    MaximumJobs,    \* ServiceCapacity.maximum_jobs
    MaxU64          \* the last value of next_job and of the epoch (u64::MAX)

\* ServiceCapacity::new rejects anything else.
ASSUME BlockingJobsAssumption ==
    /\ WorkerLimit \in Nat \ {0}
    /\ MaximumJobs \in Nat
    /\ MaximumJobs >= WorkerLimit
    /\ MaxU64 \in Nat

\* The identities submit can issue: the one that would need next_job past u64::MAX is refused.
JobIds == 0 .. MaxU64 - 1

Running  == {"running", "abandoned"}
Outcomes == {"completed", "lost"}
JobStates == {"none"} \cup Running \cup Outcomes

VARIABLES
    accepting,  \* admission is open
    nextJob,    \* the next identity
    epoch,      \* the capacity epoch a rejected submit observes
    queue,      \* the jobs no worker has taken
    active,     \* the state of every other current job, "none" when it has none
    guards      \* the jobs for which some worker owns a RunningJobCompletion

jobVars == <<accepting, nextJob, epoch, queue, active, guards>>

Queued == ToSet(queue)
InState(S) == {j \in JobIds : active[j] \in S}
RunningCount == Cardinality(InState(Running))
Admitted == Len(queue) + Cardinality(InState(JobStates \ {"none"}))

Init ==
    /\ accepting = TRUE
    /\ nextJob = 0
    /\ epoch = 0
    /\ queue = <<>>
    /\ active = [j \in JobIds |-> "none"]
    /\ guards = {}

\* Mutant: nothing is said to the callers that were turned away.
ReleasedEpochStays(n) == epoch

\* The epoch after n releases: CapacityEpoch::advance saturates.
ReleasedEpoch(n) == IF epoch + n > MaxU64 THEN MaxU64 ELSE epoch + n

-----------------------------------------------------------------------------
(* Operations.                                                             *)

Submit ==
    /\ accepting
    /\ Admitted < MaximumJobs
    /\ nextJob < MaxU64
    /\ nextJob' = nextJob + 1
    /\ queue' = Append(queue, nextJob)
    /\ UNCHANGED <<accepting, epoch, active, guards>>

Claim ==
    /\ RunningCount < WorkerLimit
    /\ queue # <<>>
    /\ queue' = Tail(queue)
    /\ active' = [active EXCEPT ![Head(queue)] = "running"]
    /\ guards' = guards \cup {Head(queue)}
    /\ UNCHANGED <<accepting, nextJob, epoch>>

\* The three ways a waiter lets go of its job.
CancelQueued(j) ==
    /\ \E i \in 1 .. Len(queue) : queue[i] = j /\ queue' = RemoveAt(queue, i)
    /\ epoch' = ReleasedEpoch(1)
    /\ UNCHANGED <<accepting, nextJob, active, guards>>

\* Mutant: cancelling a running job forgets it.
CancelRunningForgets(j) ==
    /\ active[j] = "running"
    /\ active' = [active EXCEPT ![j] = "none"]
    /\ epoch' = ReleasedEpoch(1)
    /\ UNCHANGED <<accepting, nextJob, queue, guards>>

CancelRunning(j) ==
    /\ active[j] = "running"
    /\ active' = [active EXCEPT ![j] = "abandoned"]
    /\ UNCHANGED <<accepting, nextJob, epoch, queue, guards>>

\* An outcome leaves through consume, or through cancel; both retire the identity.
TakeOutcome(j) ==
    /\ active[j] \in Outcomes
    /\ active' = [active EXCEPT ![j] = "none"]
    /\ epoch' = ReleasedEpoch(1)
    /\ UNCHANGED <<accepting, nextJob, queue, guards>>

Consume(j) == TakeOutcome(j)
Cancel(j) == CancelQueued(j) \/ CancelRunning(j) \/ TakeOutcome(j)

\* Mutant: the outcome is kept although its waiter has gone.
FinishAbandonedKept(j, outcome) ==
    /\ j \in guards
    /\ active[j] \in Running
    /\ guards' = guards \ {j}
    /\ active' = [active EXCEPT ![j] = outcome]
    /\ UNCHANGED <<accepting, nextJob, epoch, queue>>

\* complete, or the guard's destruction: the outcome of an abandoned job goes nowhere.
Finish(j, outcome) ==
    /\ j \in guards
    /\ active[j] \in Running
    /\ guards' = guards \ {j}
    /\ IF active[j] = "running"
         THEN active' = [active EXCEPT ![j] = outcome] /\ UNCHANGED epoch
         ELSE active' = [active EXCEPT ![j] = "none"] /\ epoch' = ReleasedEpoch(1)
    /\ UNCHANGED <<accepting, nextJob, queue>>

\* Mutant: only the queued jobs are counted as released.
ShutdownEpochShort ==
    /\ accepting' = FALSE
    /\ queue' = <<>>
    /\ active' = [j \in JobIds |-> IF active[j] \in Running THEN "abandoned" ELSE "none"]
    /\ epoch' = ReleasedEpoch(Len(queue))
    /\ UNCHANGED <<nextJob, guards>>

BeginShutdown ==
    /\ accepting' = FALSE
    /\ queue' = <<>>
    /\ active' = [j \in JobIds |-> IF active[j] \in Running THEN "abandoned" ELSE "none"]
    /\ epoch' = ReleasedEpoch(Len(queue) + Cardinality(InState(Outcomes)))
    /\ UNCHANGED <<nextJob, guards>>

Next ==
    \/ Submit
    \/ Claim
    \/ BeginShutdown
    \/ \E j \in JobIds :
         \/ Cancel(j) \/ Consume(j)
         \/ \E outcome \in Outcomes : Finish(j, outcome)

Spec == Init /\ [][Next]_jobVars

-----------------------------------------------------------------------------
(* Properties.                                                             *)

(* Every variable has its type.                                            *)
TypeOK ==
    /\ accepting \in BOOLEAN
    /\ nextJob \in 0 .. MaxU64
    /\ epoch \in 0 .. MaxU64
    /\ queue \in Seq(JobIds)
    /\ active \in [JobIds -> JobStates]
    /\ guards \in SUBSET JobIds

(* A job has one owner: it is queued, in the order of submission, or held  *)
(* by the one guard a worker owns, or kept as an outcome.  No completion   *)
(* can meet the UnknownJob and InvalidJobState errors of complete.         *)
OneOwner ==
    /\ guards = InState(Running)
    /\ \A i \in 1 .. Len(queue) : active[queue[i]] = "none" /\ queue[i] < nextJob
    /\ \A i, k \in 1 .. Len(queue) : i < k => queue[i] < queue[k]
    /\ \A j \in JobIds : active[j] # "none" => j < nextJob

(* An identity whose slot was given back is never admitted again, and the  *)
(* outcome of an abandoned job never becomes visible.                      *)
OutcomesAreFinal ==
    [][\A j \in JobIds :
         /\ active[j] = "abandoned" => active'[j] \in {"abandoned", "none"}
         /\ active[j] \in Outcomes => active'[j] \in {active[j], "none"}
         /\ (active[j] = "none" /\ j \notin Queued /\ j < nextJob)
              => active'[j] = "none" /\ j \notin ToSet(queue')]_jobVars

Pool == INSTANCE AdmissionPool WITH
    Capacity <- MaximumJobs, open <- accepting, held <- Admitted, released <- epoch

(* The service implements the abstract bounded pool of admissions: accepted*)
(* jobs never exceed maximum_jobs (cancelling a running one frees nothing),*)
(* and the epoch counts every slot given back, never sticking at u64::MAX. *)
PoolSpec == Pool!Spec
=============================================================================
