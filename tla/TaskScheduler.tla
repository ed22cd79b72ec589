---------------------------- MODULE TaskScheduler ----------------------------
(***************************************************************************)
(* The single-threaded task scheduler of crate nocter-task-runtime         *)
(* (scheduler.rs).  It owns the lifecycle of every task, the identity of   *)
(* every wakeup registration and the FIFO queue of runnable tasks, and it  *)
(* drives a Reactor that may report any registration it was ever given, in *)
(* any batch, stale ones included.                                         *)
(*                                                                         *)
(* A call that the code rejects before it changes anything is a stuttering *)
(* step.  The interest carried by a registration is handed through to the  *)
(* reactor unread and is left out.  The two LIFO free lists are sets: the  *)
(* next identity is any free one, which includes the one the code pops.    *)
(***************************************************************************)
EXTENDS Integers, Sequences, FiniteSets, SequencesExt

CONSTANTS
    TaskSlotCount,  \* task slots a u32 can name (2^32 in the code)
    RegSlotCount,   \* registration slots a u32 can name (2^32 in the code)
    MaxGen          \* the last generation of a slot (u32::MAX in the code)

ASSUME SchedulerAssumption ==
    /\ TaskSlotCount \in Nat \ {0}
    /\ RegSlotCount \in Nat \ {0}
    /\ MaxGen \in Nat

TaskSlots == 0 .. TaskSlotCount - 1
RegSlots  == 0 .. RegSlotCount - 1
Gens      == 0 .. MaxGen

\* An identity is a slot qualified by the generation that owns it.
TaskIds == [slot : TaskSlots, gen : Gens]
RegIds  == [slot : RegSlots, gen : Gens]

\* "vacant" is a slot without a state; the last two are Cancelling(kind).
Cancelling == {"pendingFrame", "completedOutput"}
TaskStates == {"vacant", "runnable", "running", "waiting", "completed"} \cup Cancelling

VARIABLES
    taskLen,    \* task slots created so far
    taskGen,    \* generation of each task slot
    taskState,  \* lifecycle state of each task slot
    waitSet,    \* the registrations a waiting task is suspended on
    freeTasks,  \* released task slots that may be reused
    regLen,     \* registration slots created so far
    regGen,     \* generation of each registration slot
    regOwner,   \* the task an active registration wakes: {task}, or {} when inactive
    freeRegs,   \* released registration slots that may be reused
    runnable,   \* the FIFO queue, stale entries of cancelled tasks included
    installed   \* the registrations the reactor holds

taskVars == <<taskLen, taskGen, taskState, waitSet, freeTasks>>
regVars  == <<regLen, regGen, regOwner, freeRegs, installed>>
schedVars == <<taskVars, regVars, runnable>>

Task(s) == [slot |-> s, gen |-> taskGen[s]]
Reg(a)  == [slot |-> a, gen |-> regGen[a]]

\* The state of the task an identity names, if the identity is current.
IsTask(id, state) == id.gen = taskGen[id.slot] /\ taskState[id.slot] = state
Active(r)    == r.gen = regGen[r.slot] /\ regOwner[r.slot] # {}
ActiveSlots  == {a \in RegSlots : regOwner[a] # {}}
Live(id)     == IsTask(id, "runnable")

Init ==
    /\ taskLen = 0
    /\ taskGen = [s \in TaskSlots |-> 0]
    /\ taskState = [s \in TaskSlots |-> "vacant"]
    /\ waitSet = [s \in TaskSlots |-> {}]
    /\ freeTasks = {}
    /\ regLen = 0
    /\ regGen = [a \in RegSlots |-> 0]
    /\ regOwner = [a \in RegSlots |-> {}]
    /\ freeRegs = {}
    /\ runnable = <<>>
    /\ installed = {}

-----------------------------------------------------------------------------
(* Identities.                                                             *)

\* A slot is reused when one is free; otherwise the next one is created.
AllocateTask(s) ==
    \/ s \in freeTasks /\ freeTasks' = freeTasks \ {s} /\ UNCHANGED taskLen
    \/ freeTasks = {} /\ s = taskLen /\ taskLen' = taskLen + 1 /\ UNCHANGED freeTasks

\* Mutant: the generation is advanced without checked_add.
ReleaseTaskUnchecked(s) ==
    /\ taskState' = [taskState EXCEPT ![s] = "vacant"]
    /\ taskGen' = [taskGen EXCEPT ![s] = @ + 1]
    /\ freeTasks' = freeTasks \cup {s}
    /\ UNCHANGED <<taskLen, waitSet>>

\* The generation advances with the release; a slot at its last one is retired.
ReleaseTask(s) ==
    /\ taskState' = [taskState EXCEPT ![s] = "vacant"]
    /\ IF taskGen[s] < MaxGen
         THEN /\ taskGen' = [taskGen EXCEPT ![s] = @ + 1]
              /\ freeTasks' = freeTasks \cup {s}
         ELSE UNCHANGED <<taskGen, freeTasks>>
    /\ UNCHANGED <<taskLen, waitSet>>

\* A is a set of slots that successive allocations yield, hi the slots then created.
Allocates(A, hi) ==
    /\ A \ freeRegs = regLen .. hi - 1
    /\ hi > regLen => freeRegs \subseteq A

\* Mutant: a registration slot is reused under the same generation.
NextRegGenStays(A) == regGen

NextRegGen(A) == [a \in RegSlots |->
    IF a \in A /\ regGen[a] < MaxGen THEN regGen[a] + 1 ELSE regGen[a]]
Reusable(A) == {a \in A : regGen[a] < MaxGen}

\* Releases the active members of a set of registrations, then deregisters them.
RemoveRegistrations(R) ==
    LET A == {r.slot : r \in {x \in R : Active(x)}}
    IN  /\ regOwner' = [a \in RegSlots |-> IF a \in A THEN {} ELSE regOwner[a]]
        /\ regGen' = NextRegGen(A)
        /\ freeRegs' = freeRegs \cup Reusable(A)
        /\ installed' = installed \ {Reg(a) : a \in A}
        /\ UNCHANGED regLen

-----------------------------------------------------------------------------
(* Operations.                                                             *)

Spawn(s) ==
    /\ AllocateTask(s)
    /\ taskState' = [taskState EXCEPT ![s] = "runnable"]
    /\ runnable' = Append(runnable, Task(s))
    /\ UNCHANGED <<taskGen, waitSet, regVars>>

\* next_progress with a live entry: stale entries before it are dropped.
Resume(i) ==
    /\ Live(runnable[i])
    /\ \A j \in 1 .. i - 1 : ~Live(runnable[j])
    /\ taskState' = [taskState EXCEPT ![runnable[i].slot] = "running"]
    /\ runnable' = SubSeq(runnable, i + 1, Len(runnable))
    /\ UNCHANGED <<taskLen, taskGen, waitSet, freeTasks, regVars>>

NoLiveEntry == \A i \in 1 .. Len(runnable) : ~Live(runnable[i])

\* next_progress with nothing to resume and nothing to wait for.
Idle ==
    /\ NoLiveEntry
    /\ ActiveSlots = {}
    /\ runnable' = <<>>
    /\ UNCHANGED <<taskVars, regVars>>

\* The reported registrations that are current, and the tasks they wake.
ReadyIn(batch, s) == {r \in waitSet[s] \cap batch : Active(r) /\ regOwner[r.slot] = {Task(s)}}
Woken(batch) == {s \in TaskSlots : taskState[s] = "waiting" /\ ReadyIn(batch, s) # {}}

\* Events are handled in the order of their registrations, which orders the wakeups.
InWakeOrder(w, batch) == \A i, j \in 1 .. Len(w) : i < j =>
    \E r \in ReadyIn(batch, w[i]) : \A q \in ReadyIn(batch, w[j]) : r.slot < q.slot

\* next_progress through the reactor: each woken task loses its whole wait set and joins the
\* queue, whose first entry is resumed.  An empty batch also stands for a failed wait.
Wait(batch, w) ==
    /\ NoLiveEntry
    /\ ActiveSlots # {}
    /\ ToSet(w) = Woken(batch)
    /\ InWakeOrder(w, batch)
    /\ RemoveRegistrations(UNION {waitSet[s] : s \in Woken(batch)})
    /\ taskState' = [s \in TaskSlots |->
         IF s \notin Woken(batch) THEN taskState[s]
         ELSE IF s = w[1] THEN "running" ELSE "runnable"]
    /\ waitSet' = [s \in TaskSlots |-> IF s \in Woken(batch) THEN {} ELSE waitSet[s]]
    /\ runnable' = IF w = <<>> THEN <<>> ELSE Tail([i \in 1 .. Len(w) |-> Task(w[i])])
    /\ UNCHANGED <<taskLen, taskGen, freeTasks>>

\* Mutant: the task is made runnable but not queued.
RequeueForgets(s) ==
    /\ taskState[s] = "running"
    /\ taskState' = [taskState EXCEPT ![s] = "runnable"]
    /\ UNCHANGED <<taskLen, taskGen, waitSet, freeTasks, runnable>>

\* Mutant: the task goes to the front of the queue.
RequeueInFront(s) ==
    /\ taskState[s] = "running"
    /\ taskState' = [taskState EXCEPT ![s] = "runnable"]
    /\ runnable' = <<Task(s)>> \o runnable
    /\ UNCHANGED <<taskLen, taskGen, waitSet, freeTasks>>

\* A running task goes to the back of the queue.
Requeue(s) ==
    /\ taskState[s] = "running"
    /\ taskState' = [taskState EXCEPT ![s] = "runnable"]
    /\ runnable' = Append(runnable, Task(s))
    /\ UNCHANGED <<taskLen, taskGen, waitSet, freeTasks>>

YieldNow(s) == Requeue(s) /\ UNCHANGED regVars

\* Mutant: an empty wait set is accepted.
SuspendEmpty(s, A, hi) ==
    /\ taskState[s] = "running"
    /\ Allocates(A, hi)
    /\ taskState' = [taskState EXCEPT ![s] = "waiting"]
    /\ waitSet' = [waitSet EXCEPT ![s] = {Reg(a) : a \in A}]
    /\ regOwner' = [a \in RegSlots |-> IF a \in A THEN {Task(s)} ELSE regOwner[a]]
    /\ regLen' = hi
    /\ freeRegs' = freeRegs \ A
    /\ installed' = installed \cup {Reg(a) : a \in A}
    /\ UNCHANGED <<taskLen, taskGen, freeTasks, regGen, runnable>>

\* Mutant: the wait set records the next generation of each registration slot.
SuspendOffByOne(s, A, hi) ==
    /\ taskState[s] = "running"
    /\ A # {}
    /\ Allocates(A, hi)
    /\ taskState' = [taskState EXCEPT ![s] = "waiting"]
    /\ waitSet' = [waitSet EXCEPT ![s] = {[slot |-> a, gen |-> regGen[a] + 1] : a \in A}]
    /\ regOwner' = [a \in RegSlots |-> IF a \in A THEN {Task(s)} ELSE regOwner[a]]
    /\ regLen' = hi
    /\ freeRegs' = freeRegs \ A
    /\ installed' = installed \cup {Reg(a) : a \in A}
    /\ UNCHANGED <<taskLen, taskGen, freeTasks, regGen, runnable>>

\* Every interest of a non-empty wait set is registered.
Suspend(s, A, hi) ==
    /\ taskState[s] = "running"
    /\ A # {}
    /\ Allocates(A, hi)
    /\ taskState' = [taskState EXCEPT ![s] = "waiting"]
    /\ waitSet' = [waitSet EXCEPT ![s] = {Reg(a) : a \in A}]
    /\ regOwner' = [a \in RegSlots |-> IF a \in A THEN {Task(s)} ELSE regOwner[a]]
    /\ regLen' = hi
    /\ freeRegs' = freeRegs \ A
    /\ installed' = installed \cup {Reg(a) : a \in A}
    /\ UNCHANGED <<taskLen, taskGen, freeTasks, regGen, runnable>>

\* Mutant: the released slots are not returned to the free list.
RollBackLeaks(A, hi) ==
    /\ A # {} \/ (freeRegs = {} /\ hi = RegSlotCount)
    /\ Allocates(A, hi)
    /\ regGen' = NextRegGen(A)
    /\ regLen' = hi
    /\ freeRegs' = freeRegs \ A
    /\ UNCHANGED <<regOwner, installed>>

\* The reactor rejects the last of A, or A is every identity that was left and one more is
\* needed: A is released in reverse and the task keeps running.
RollBack(A, hi) ==
    /\ A # {} \/ (freeRegs = {} /\ hi = RegSlotCount)
    /\ Allocates(A, hi)
    /\ regGen' = NextRegGen(A)
    /\ regLen' = hi
    /\ freeRegs' = (freeRegs \ A) \cup Reusable(A)
    /\ UNCHANGED <<regOwner, installed>>

SuspendFails(s, A, hi) ==
    /\ taskState[s] = "running"
    /\ RollBack(A, hi)
    /\ UNCHANGED <<taskVars, runnable>>

Complete(s) ==
    /\ taskState[s] = "running"
    /\ taskState' = [taskState EXCEPT ![s] = "completed"]
    /\ UNCHANGED <<taskLen, taskGen, waitSet, freeTasks, regVars, runnable>>

\* Mutant: the wakeups of a cancelled task stay.
CancelAllKeepsWaits(S) ==
    /\ taskState' = [s \in TaskSlots |->
         IF s \notin S THEN taskState[s]
         ELSE IF taskState[s] = "completed" THEN "completedOutput" ELSE "pendingFrame"]
    /\ waitSet' = [s \in TaskSlots |-> IF s \in S THEN {} ELSE waitSet[s]]
    /\ UNCHANGED <<taskLen, taskGen, freeTasks, runnable, regVars>>

\* Cancels the tasks of S: every wakeup goes before the cleanup obligation appears.
CancelAll(S) ==
    /\ RemoveRegistrations(UNION {waitSet[s] : s \in S})
    /\ taskState' = [s \in TaskSlots |->
         IF s \notin S THEN taskState[s]
         ELSE IF taskState[s] = "completed" THEN "completedOutput" ELSE "pendingFrame"]
    /\ waitSet' = [s \in TaskSlots |-> IF s \in S THEN {} ELSE waitSet[s]]
    /\ UNCHANGED <<taskLen, taskGen, freeTasks, runnable>>

Cancel(s) == taskState[s] \in {"runnable", "waiting", "completed"} /\ CancelAll({s})

FinishCancellation(s) ==
    /\ taskState[s] \in Cancelling
    /\ ReleaseTask(s)
    /\ UNCHANGED <<regVars, runnable>>

\* Mutant: the output is moved out whether or not the task has completed.
ConsumeUnchecked(s) ==
    /\ taskState[s] # "vacant"
    /\ ReleaseTask(s)
    /\ UNCHANGED <<regVars, runnable>>

ConsumeCompleted(s) ==
    /\ taskState[s] = "completed"
    /\ ReleaseTask(s)
    /\ UNCHANGED <<regVars, runnable>>

Occupied == {s \in TaskSlots : taskState[s] # "vacant"}

BeginShutdown ==
    /\ \A s \in TaskSlots : taskState[s] \notin {"running"} \cup Cancelling
    /\ CancelAll(Occupied)

\* Every registration ever issued: what a reactor may still report.
Issued == {r \in RegIds : r.slot < regLen /\ r.gen <= regGen[r.slot]}

WaitForEvents ==
    \E batch \in SUBSET Issued : \E w \in SetToSeqs(Woken(batch)) : Wait(batch, w)

Suspends(s) == \E A \in SUBSET RegSlots, hi \in regLen .. RegSlotCount : Suspend(s, A, hi)
FailsToSuspend(s) ==
    \E A \in SUBSET RegSlots, hi \in regLen .. RegSlotCount : SuspendFails(s, A, hi)
NextProgress == (\E i \in 1 .. Len(runnable) : Resume(i)) \/ Idle \/ WaitForEvents

Next ==
    \/ NextProgress
    \/ BeginShutdown
    \/ \E s \in TaskSlots :
         \/ Spawn(s) \/ YieldNow(s) \/ Suspends(s) \/ FailsToSuspend(s) \/ Complete(s)
         \/ Cancel(s) \/ FinishCancellation(s) \/ ConsumeCompleted(s)

Spec == Init /\ [][Next]_schedVars

-----------------------------------------------------------------------------
(* Properties.                                                             *)

(* Every variable has its type.                                            *)
TypeOK ==
    /\ taskLen \in 0 .. TaskSlotCount
    /\ taskGen \in [TaskSlots -> Gens]
    /\ taskState \in [TaskSlots -> TaskStates]
    /\ waitSet \in [TaskSlots -> SUBSET RegIds]
    /\ freeTasks \in SUBSET TaskSlots
    /\ regLen \in 0 .. RegSlotCount
    /\ regGen \in [RegSlots -> Gens]
    /\ regOwner \in [RegSlots -> SUBSET TaskIds]
    /\ freeRegs \in SUBSET RegSlots
    /\ runnable \in Seq(TaskIds)
    /\ installed \in SUBSET RegIds

(* No lost wakeup and no orphan registration: the wait set of a task holds *)
(* exactly the active registrations that name it, it is empty just when    *)
(* the task does not wait, and no active registration names anything but a *)
(* current task.  suspend, accept_events, cancel and begin_shutdown each   *)
(* rewrite both sides.                                                     *)
WaitSetsExact ==
    /\ \A s \in TaskSlots :
         /\ waitSet[s] = {Reg(a) : a \in {b \in RegSlots : regOwner[b] = {Task(s)}}}
         /\ waitSet[s] # {} <=> taskState[s] = "waiting"
    /\ \A a \in ActiveSlots : \E s \in TaskSlots : regOwner[a] = {Task(s)}

(* The reactor holds exactly the active registrations: a failed suspend    *)
(* leaves none behind, a wakeup or a cancellation deregisters all.         *)
ReactorMirrors == installed = {Reg(a) : a \in ActiveSlots}

(* No lost wakeup: a waiting task is exactly what the reactor can wake.    *)
NoLostWakeup == WaitSetsExact /\ ReactorMirrors

(* A task is in the queue exactly when it is runnable, and once: an entry  *)
(* that a cancellation leaves behind is never followed by a second one for *)
(* the same identity, and never outlives a resumption.                     *)
QueueExact ==
    /\ \A s \in TaskSlots : taskState[s] = "runnable" =>
         \E i \in 1 .. Len(runnable) : runnable[i] = Task(s)
    /\ \A i \in 1 .. Len(runnable), s \in TaskSlots : runnable[i] = Task(s) =>
         taskState[s] \in {"runnable", "pendingFrame", "vacant"}
    /\ \A i, j \in 1 .. Len(runnable) : runnable[i] = runnable[j] => i = j

(* What run_until_idle relies on: a runnable or waiting task exists exactly*)
(* when next_progress has something to resume or to wait for, so no task   *)
(* can strand the executor in a loop that neither resumes nor blocks.      *)
QuiescenceExact ==
    (\E s \in TaskSlots : taskState[s] \in {"runnable", "waiting"})
        <=> (~NoLiveEntry \/ ActiveSlots # {})

(* Slots are neither leaked nor handed out twice: a vacant or inactive     *)
(* slot below the length is free, unless its generations are used up.      *)
TaskSlotsConserved ==
    /\ freeTasks \subseteq 0 .. taskLen - 1 \ Occupied
    /\ Occupied \subseteq 0 .. taskLen - 1
    /\ \A s \in 0 .. taskLen - 1 \ (Occupied \cup freeTasks) : taskGen[s] = MaxGen

(* The same of registration slots, which a failed suspend must give back.  *)
RegSlotsConserved ==
    /\ freeRegs \subseteq 0 .. regLen - 1 \ ActiveSlots
    /\ ActiveSlots \subseteq 0 .. regLen - 1
    /\ \A a \in 0 .. regLen - 1 \ (ActiveSlots \cup freeRegs) : regGen[a] = MaxGen

(* The queue names no identity that a task could still get: a task that    *)
(* reuses a slot is not resumed by the entry its predecessor left behind.  *)
FreshUnqueued ==
    \A i \in 1 .. Len(runnable) : LET s == runnable[i].slot IN
        /\ s < taskLen
        /\ runnable[i].gen <= taskGen[s]
        /\ s \in freeTasks => runnable[i].gen < taskGen[s]

(* Both kinds of slots are conserved.                                      *)
SlotsConserved == TaskSlotsConserved /\ RegSlotsConserved

(* The queue names every runnable task once, and no identity that is still *)
(* to be issued.                                                           *)
QueueConsistent == QueueExact /\ FreshUnqueued

(* A slot that becomes occupied does so under an identity that never was:  *)
(* generations only grow, and grow with every release that allows reuse.   *)
IdentitiesAdvance ==
    [][/\ \A s \in TaskSlots : taskGen'[s] >= taskGen[s]
       /\ \A a \in RegSlots : regGen'[a] >= regGen[a]
       /\ \A s \in freeTasks' \ freeTasks : taskGen'[s] > taskGen[s]
       /\ \A a \in freeRegs' \ freeRegs : regGen'[a] > regGen[a]]_schedVars

\* The identities as the abstract lifecycle sees them: those of a slot follow each other.
FateOfState(s) ==
    CASE taskState[s] = "vacant" ->
             IF s < taskLen /\ s \notin freeTasks THEN "retired" ELSE "fresh"
      [] taskState[s] = "completed" -> "completed"
      [] taskState[s] \in Cancelling -> "cleaning"
      [] OTHER -> "pending"

Fate(id) ==
    IF id.gen < taskGen[id.slot] THEN "retired"
    ELSE IF id.gen > taskGen[id.slot] THEN "fresh" ELSE FateOfState(id.slot)

Lifecycle == INSTANCE TaskLifecycle WITH Ids <- TaskIds, fate <- [id \in TaskIds |-> Fate(id)]

(* The scheduler implements the abstract lifecycle of identities.          *)
LifecycleSpec == Lifecycle!Spec
=============================================================================
