# Verification of the stateful core of nocter

TLA+ models of the concurrent, incremental and durable parts of nocter, the TLC
configurations that check them, and TLAPS proofs about them. Everything was
translated from the code under `src/`; paths below are relative to
`src/development/compiler/crates/` unless they begin with `std/` (which is
`src/std/`). `PROJECT.json` holds the machine-readable part: for each
definition the lines it stands for, for each property a plausible bug (a
*mutant* of one definition) that breaks it, and the list of hazards the
properties are for.

## 1. What the repository is made of

nocter is a programming language: a compiler written in Rust (about 340 000
lines in some fifty crates), a standard library written in nocter itself, a
package manager, an installer and a language server. By far the most of it
is a pure function of its input: parsing, checking, lowering, encoding. The
parts below keep state that several actors share, or state that must survive a
failure, and that is where ordering matters.

| Component | State it keeps | Operations | Interacts with | What is hard | What makes it correct |
|---|---|---|---|---|---|
| **Task scheduler** `nocter-task-runtime/src/scheduler.rs` | task slots with generations and lifecycle states, registration slots with owners, free lists, the FIFO of runnable tasks | spawn, next_progress, yield_now, suspend, complete, cancel, finish_cancellation, consume_completed, begin_shutdown | calls the `Reactor` (register, deregister, wait) | late and repeated reactor events, events of one batch for one task, stale queue entries after a cancellation, roll back of a refused wait set, generations at `u32::MAX` | a wait set is exactly the live registrations of its task; a task is queued iff runnable, once; slots are neither leaked nor reused under an old identity |
| **Task executor** `nocter-task-runtime/src/executor.rs` | one computation payload per task identity | spawn, step, run_until_idle, cancel, consume, shutdown | scheduler; calls back into computations (resume, cancel, consume) | two structures changed one after the other around foreign code; a poll that ends in a refused wait set | payloads and live identities coincide; no runnable task is passed over for ever; no waiter is forgotten |
| **Blocking jobs** `nocter-blocking-runtime/src/service.rs` | queue, running jobs, outcomes, capacity epoch, admission flag, all under one mutex | submit, claim, cancel, consume, complete, drop of a completion guard, begin_shutdown | calls a notifier after unlocking | cancel against complete, capacity released exactly once, epoch and identities at their last value | each job has one owner and one outcome; a bounded pool whose epoch counts every release |
| **Job workers** `nocter-darwin-blocking-service/src/lib.rs` | worker threads, a revision under a condition variable, a nonblocking socket pair | construction, worker_loop, submit, cancel, consume, drain, shutdown, Drop | the job service; the executor thread, which waits on the socket | the gap between claiming nothing and going to sleep, between an outcome and its wake byte; panicking operations; a thread the host refuses; join | no lost wakeup in either direction; shutdown returns and leaves nothing behind |
| **Resource retirement** `nocter-blocking-runtime/src/retirement.rs` | reservations, cleanup queue, explicit retirements, epoch, under one mutex | reserve, attach, drop of permit and owner, retire, consume, detach, detach_all, claim, drop of the guard, close_admission | notifier after unlocking | reservations that end in four different ways, operations in destructors, where nothing may fail | reservations are exact and bounded; a retirement is in one place; no counter runs out in a destructor |
| **Retirement workers** `nocter-darwin-blocking-service/src/retirement_service.rs` | cleanup threads and their signal | construction, retirement_loop, adapter calls, shutdown (retried), Drop | retirement service; threads that hold permits and owners when the adapter is gone | owners that act between the steps of shutdown and Drop | no lost wakeup; threads stay while an owner is alive and leave once nobody is |
| **Wake hints** `std/internal/notify`, `std/internal/shared` | a nonblocking pipe, a shared cell with a write flag | signal_best_effort, wait, try_write | every synchronization type; the executor, through readiness | a hint reaches one reader, several hints merge, a stale one stays | never fewer hints than the state of the user needs |
| **Mutex** `std/sync/mutex.nct` | the cell's writer, one notification | lock, destruction of the guard, cancellation of a waiter | tasks of one executor | barging, stale hints, a woken waiter that is cancelled | exclusion; no free mutex with stranded waiters |
| **Cancellation** `std/sync/cancellation.nct` | one flag, one notification | cancel, destruction of the source, cancelled | tasks that share a token | one hint for many observers | every observer is told |
| **Channel** `std/sync/channel.nct` | a ring, two endpoint counters, two notifications | send, receive, with and without waiting, sharing and destroying endpoints | senders and receivers | hints of others, closure with values left, wrap-around | FIFO; no lost wakeup; closure is reported to everybody |
| **Darwin reactor** `nocter-darwin-reactor` | maps from registrations to native tokens, descriptors, processes, timers, immediates | register, deregister, wait | scheduler above, kqueue below | events of removed registrations, one-shot events in a batch that fails | implements what the scheduler assumes of a reactor |
| **Store** `std/store` | a journal file, its image in memory, a staged batch, sequences | open, set, remove, commit, compact, close | the durable files of `std/fs`; the lock file | an error, a cancellation, a death or a power loss in any storage operation; a torn tail; a rename the directory may forget; a batch that outgrows its record; a record recovery reads that was never synced | every commit that wrote and returned survives; whoever opens sees a published state, never part of one |
| **Installer** `nocter-installation/src/installer.rs` | the destination, a transaction directory beside it with a marker, a stage and the previous home | install, replace, recover, roll back | the file system; its own interrupted runs | an error or a death between any two operations; a removal that stops half-way | a home is replaced at one moment and never lost; repeating the command works |
| **Package cache and state** `nocter-package-state` | exact packages and the root source on disk | publish, commit | other processes | two publishers of one package | an entry is published whole, once |
| **Computation database** `nocter-computation` | inputs and query results with revisions, fingerprints and dependencies | set, commit, input, query (ensure, evaluate), collect_inactive | providers of the compiler and the language server, which call back into it | dependencies that change with a branch, equal results of changed inputs, cycles, failures, entries collected under a retained query | equal to evaluation from scratch, and nothing is executed again without need |
| **Everything else** | syntax, declarations, checking, MIR, ARM64, Mach-O, language-server protocol, CLI, the rest of `std` | | | pure or sequential | functional correctness, which unit and conformance tests address |

`PROJECT.json` lists every part under `components`, with what is modelled of it
or why it is not.

How the modelled parts fit together: a program's tasks run on one
**executor**, which polls them one at a time and sleeps in the **reactor** when
none is runnable. Synchronization types wake tasks of that same thread through
the readiness of a pipe. Work that may block goes to the **job workers**, which
answer through a socket the executor waits on like any descriptor; native
resources whose destruction may block are given to the **retirement workers**.
The store is a library on top of this (each storage operation is a job); the
installer and the computation database belong to the compiler and share nothing
with the runtime.

## 2. The modules

| Module | Models | Extends / instantiates |
|---|---|---|
| `TaskLifecycle` | abstract: what becomes of a task identity | |
| `TaskScheduler` | scheduler.rs, identity.rs, and reactor.rs as a contract | implements `TaskLifecycle` |
| `TaskExecutor` | executor.rs over the scheduler | extends `TaskScheduler` |
| `AdmissionPool` | abstract: a bounded pool whose epoch counts releases | |
| `BlockingJobs` | service.rs | implements `AdmissionPool` |
| `BlockingWorkers` | the job workers and the executor thread that owns them | extends `BlockingJobs` |
| `ResourceRetirement` | retirement.rs | implements `AdmissionPool` |
| `RetirementWorkers` | the cleanup threads, the adapter and other threads | extends `ResourceRetirement` |
| `Notification` | the wake hints of `std/internal/notify` | |
| `SyncMutex`, `SyncCancellation`, `SyncChannel` | the three types of `std/sync` | extend `Notification` |
| `BoundedFifo` | abstract: what a bounded channel does with values | implemented by `SyncChannel` |
| `DurableStore` | abstract: numbered states, of which a power loss takes back none that a returning operation has secured | |
| `StoreJournal` | store.nct, mutations.nct, journal.nct, journal_format.nct, and the parts of `std/fs/durable.nct` they rest on | implements `DurableStore` |
| `AtomicInstallation` | abstract: the home in effect changes at one moment | |
| `Installer` | installer.rs | implements `AtomicInstallation` |
| `ComputationDatabase` | database.rs, with abstract providers | |
| `TaskSchedulerProofs`, `BlockingWorkersProofs`, `RetirementProofs`, `SyncMutexProofs`, `SyncChannelProofs`, `StoreJournalProofs`, `ComputationDatabaseProofs`, `InstallerProofs` | theorems | extend the module they are about (the first one `TaskExecutor`, the third one `RetirementWorkers`) |
| `MC...` | constants and symmetry for TLC | extend the module they check |

### How state and actions correspond to the code

*Granularity.* A method that runs under `&mut self` (scheduler) or in one
critical section of a mutex (job and retirement services) is one action. A
thread is cut wherever it gives up a lock, so the change of a service and the
notification that follows it are two steps, with the thread's position
(`owner`, `worker`) in between. A poll of a task is one step, since tasks of an
executor do not preempt each other; the executor's own `step`, `cancel` and
`shutdown` are cut where they call into a computation (`polling`, `cleaning`).
A call the code refuses before it changed anything is a stuttering step and has
no action of its own; a refusal that has effects (a wait set refused half-way,
a construction that fails after some threads started) has one.

*TaskScheduler.* `taskState`, `taskGen`, `waitSet` are the fields of a task
slot, `regOwner`, `regGen` of a registration slot (a set of at most one task,
empty when the registration is not active), `runnable` the `VecDeque` with its
stale entries, `installed` what the reactor was told and not told to forget.
The reactor is a contract: `Wait` lets it report any set of registrations that
were ever issued, removed ones too, or nothing, which also stands for a wait
that fails. `accept_events` sorts a batch and wakes each task at the
first event of its wait set: `InWakeOrder`. `RemoveRegistrations` is
the loops over `remove_registration`, `RollBack` the reverse loop of a `suspend`
that fails at any of its registrations. Free lists are sets here: which free slot is
taken is left open, so the model has the code's choice among others. The
interest inside a registration is handed to the reactor unread and left out.

*BlockingWorkers and RetirementWorkers.* The signal's revision counter is only
ever compared for equality with the value a worker observed, so the variable is
the set of workers whose observation is still `current`. The socket pair is one
flag (`readable`): a write to a full socket is dropped by the code, and there
is a byte to read then. A byte for each change of the retirement service goes
through the same code and is not repeated in `RetirementWorkers`. Jobs,
resources, inputs and outputs are opaque to the services, and so they are here:
resources, permits and owners are counted, a guard is known by its identity.

*Notification.* A pipe is a count of bytes with a bound. A poll that finds its
condition false has read the pipe until it was empty (`AllRead`) when it
suspends; one that succeeds has read one byte (`OneRead`). The kernel's
readiness is a level, so a suspended task can be resumed while a byte is there.

*StoreJournal.* One action is one storage operation that an owner awaits;
`pc` says which is next and `goal` what it is part of. `Interrupted` is an
error, a cancellation or a death in the middle of it: the operation has had no
effect, part of it or all of it. Disk state is `file` (records, how many of
them are `synced`, a torn tail) and `shadow`, the files a rename has replaced
and to which an unsynced directory may fall back; `PowerLoss` picks any of what
is left. Bytes are abstract: a record fits or does not, so the byte limits of
the journal are the choice between writing a record and a checkpoint. `log`,
`acked` and `secured` are history: what was published under each sequence, the
last sequence any commit has returned, and the last one that an operation which
wrote has returned with (a commit with changes, a compaction, the change of a
legacy journal to the current format). The two differ by `CommitClean`, the
early return of `commit` without changes: it answers with the sequence the owner
has, which may be one that recovery has read and nobody has synced. The abstract
`DurableStore` makes the same difference (`told`, `safe`). An append goes to the
file the path names, so an owner that kept the handle of a replaced file is not a
state of the model; the close and the reopening around a replacement are what
`usable` and the record count say. The key index (state.nct) is a function from keys to values.

*Installer.* One action is what happens between two changes of the file system.
A home is a release, nothing, or `Broken` (validation refuses it). The four
ways to stop early are `OperationFails` (nothing changed), `RemovalFails` (part
of a tree is gone), `MarkFails` and `Die`. `RecoveryRefuses` and the refusals of
`Inspect` and `Create` are the code's own, not failures. Reading and hashing the
archive come before any change and are left out.

*ComputationDatabase.* The recursion of `ensure` and `evaluate` is a stack of
frames and a `reply` on its way down. The order of the branches of `ensure`, the
order in which dependencies are verified, and what is stored when are the
code's. A provider reads one identity, then by the value found perhaps another
one, returns what it makes of the last value, or fails, and passes on the errors
of what it reads, as the code's callers do with `?`. A value stands for its own
fingerprint.

*Integers.* `u32::MAX` for generations and `u64::MAX` for epochs and identities
are constants (`MaxGen`, `MaxU64`), small in the runs, so that the ends of the
counters are reached; in the proofs they are any number. The saturating
epoch of the job service saturates in the model, the retirement service's,
which must not overflow, is unbounded in the model and proved to stay below.

## 3. What the runs check

Passing runs explore every reachable state of the instance given.

| Run | Instance | Distinct states | Shows |
|---|---|---|---|
| `task_executor` | 2 task slots, 2 registration slots, 3 generations, with fairness | 32 335 | of the scheduler as its only client drives it: `NoLostWakeup`, `QueueConsistent`, `QuiescenceExact`, `SlotsConserved`, `IdentitiesAdvance`, `PayloadsExact`, the abstract lifecycle; `RunnablePolled` and `WaiterWoken` (liveness) |
| `blocking` | 2 workers, 2 jobs at once, 3 identities, 3 symmetric callers | 265 368 | `OneOwner`, `OutcomesAreFinal`, no lost wakeup of a worker (`NoWorkerOversleeps`) or caller (`NewsIsAnnounced`), `ShutdownIsComplete`, the abstract pool |
| `blocking_liveness` | 1 worker, 1 job at once, 3 identities, 2 callers, with fairness | 5 586 | `CallersServed`, `ShutdownReturns` |
| `retirement` | 2 workers, 2 resources, 3 identities, with fairness | 444 943 | `ReservationsExact`, `OnePlace`, `NothingExhausts`, `NoWorkerOversleeps`, `WorkersStayForOwners`, the abstract pool, `AdapterEnds` (liveness) |
| `sync_mutex` | 4 tasks, 3 hints | 174 | `MutualExclusion`, `NobodyStranded` |
| `sync_channel` | ring of 2, 2 senders, 2 receivers, 4 values, 2 hints | 5 886 | `CountsExact`, `NobodyStranded`, the abstract FIFO |
| `store_journal` | 2 keys, 1 value, journals of 2 records, batches of 2 mutations, 4 sequences | 1 364 619 | `SecuredSurvives`, `SurvivorsArePublished`, `OwnerInStep`, the abstract durable store |
| `installer` | 2 releases, with fairness | 1 718 | the abstract installation (`InstallationIsAtomic`), `RerunsSucceed` (liveness) |
| `computation` | 3 queries, 2 inputs, 2 values, 216 choices of providers, 3 revisions | 3 484 106 | `AnswersAreFresh`, `RecomputedOnlyIfChanged`, `ClosureRetained` |
| `sync_cancellation` | 2 observers | | `EverybodyIsTold` is **violated** |
| `sync_channel_closure` | ring of 1, 1 sender, 2 receivers | | `ClosureReported` is **violated** |
| `retirement_shutdown` | 1 worker, 1 resource, 1 identity | | `AdapterEndsAlways` is **violated** |

Why the bounds are enough to be worth something:

- *Scheduler.* With two tasks one can wait while the other runs, is cancelled
  or reuses a slot; with two registrations a wait set has two members, a
  second one can be refused after the first was installed, and two events of
  one batch concern one or two tasks. Three generations let a slot be reused
  twice before it is retired, so an identity has a predecessor and a successor.
- *Job and retirement services.* Two threads compete for the queue and for the
  lock; the pool fills with two, and a third caller (or identity) is turned
  away and returns; identities run out within a run. The liveness of callers is
  checked with a single worker and slot, where waiting for capacity is the
  rule.
- *Synchronization.* Four tasks are a holder, two waiters and one that barges
  in; a pipe of three fills up. In the channel, head and length wrap, the
  counters go up and down on either side, and both kinds of waiters exist at
  once. `MaxValues` bounds the values of one run only; two trips around a
  ring of two are made.
- *Store.* A journal of two records fills at the second commit, so appends,
  checkpoints by records, by bytes and by an outgrown batch, and compactions all
  occur; four sequences let the last one be reached, after which the store
  refuses to be opened again (its data stays where it is). One value is enough
  to tell set from removed, two keys to tell part of a batch from all of it.
  A legacy journal of any length is among the initial states.
- *Installer.* The states are finite without any bound; the model compares
  releases for equality only, and two of them are an old and a new one. Both
  compilers (the one of the home and another one) ask, any number of times.
- *Database.* The 216 choices have chains, diamonds, branches that drop a
  dependency, cycles through one and two queries, a query that makes
  equal results of different inputs and one that fails. Three revisions with a
  collection at any cutoff let an entry be stored in one, confirmed or
  collected in the next and used in the third.
- Symmetry is used for the callers of `blocking` only, which checks no
  liveness.

Deadlock is checked for the executor, the mutex, the store, the installer and
the database, which never stop. The other systems do: the adapters end in
`stopped`, the endpoints of a channel are all dropped.

### Fairness, and why the code justifies it

- `DrivenSpec` (executor): the embedding keeps calling `step` (strong fairness
  of `StepBegins`: `run_until_idle` calls it in a loop, and other calls may come
  between two loops), and computations' `resume` and
  `cancel` return. That the reactor reports what stays ready, and does not
  refuse a task's wait set for ever, is *not* part of the specification; it is
  the premise `ReactorFairness` of `WaiterWoken`. `RunnablePolled` needs none
  of it.
- `BlockingWorkers`: threads run, operations return (weak fairness of a
  worker's step and of the owner's call in progress); the executor thread,
  which also does other things, drains a readable socket again and again
  (strong), and resumes a computation it has woken. Nothing is assumed about a
  computation's decision to submit or cancel, about shutdown, or about
  spurious wakeups.
- `RetirementWorkers`: threads run, cleanups return, a thread that gave up a
  permit or owner gets to its notification. Nobody has to give one up, and
  nobody has to end the adapter.
- `std/sync`: a task suspended on a descriptor that stays readable is polled
  (weak fairness of `Resume`), which is `WaiterWoken` one level down.
  `DroppedSpec` adds that the source is dropped some day.
- `Installer`: a process that runs gets on (weak fairness of `Proceeds`), and the
  user repeats the command with the compiler of the home in question (strong
  fairness of `Repeats`). `RerunsSucceed` has as its premise that failures stop:
  from some time on every step is a start or what the code does by itself,
  refusals included.

### Disagreements between code and documentation

Each of the first four is a run that fails for the stated reason, with a
counterexample under the fairness above. The last one has no run of its own.

1. **A cancellation reaches one observer** (`sync_cancellation`).
   `CancellationState` writes one byte for all tokens. Two tasks suspended in
   `cancelled()` share the pipe; the one that reads the byte returns, the other
   stays suspended although `std/sync/README.md:28-30` says that a remaining
   token cannot wait forever for a source that is gone. A byte put back by who
   leaves, or closing the write end, would cure it.
2. **Final closure reaches one receiver** (`sync_channel_closure`). The
   destruction of the last sender writes one byte; of two receivers suspended
   on the empty channel one reports closure. The same holds for senders and
   the last receiver. `std/sync/index.nct:106` promises the report to each.
3. **Shutdown of the retirement adapter can block for ever**
   (`retirement_shutdown`). `shutdown` and `Drop` detach the explicit
   retirements that exist, then look at a snapshot. An owner in another thread
   that calls `retire` in between leaves a completion that only the joining
   thread could consume: the workers never see the service drained.
4. **An owner retired after Drop retains the service** (same run).
   When `Drop` has let go of its threads with an owner alive, an explicit
   `retire` by that owner has nobody left to consume it; the threads wait for
   ever, against the comment at `retirement_service.rs:179-181` and
   `nocter-blocking-runtime/README.md:63-64`.
5. **A commit of nothing returns a sequence that can be lost.** A commit is
   interrupted after its write and before its sync (`journal.nct:160-161`). The
   next owner recovers the record, because it is there to be read: opening
   synchronizes the directory, not a file that exists (`durable.nct:98-101`). Its
   `commit` finds nothing to write and returns the record's sequence
   (`store.nct:455`); a power loss then leaves a journal without it, and the next
   commit gives the sequence to another state. `std/store/README.md:86-87` has the
   file synchronized before a sequence is visible as committed, and lines 94-95
   send callers to reopen in order to learn whether a sequence committed. In the
   model these are the steps `Open`, `Prepare`, `Recover`, `StageSet`,
   `BeginCommit`, `Interrupted` (in `write`), `Stop`, `Open`, `Prepare`, `Recover`,
   `CommitClean`, `PowerLoss`: `\A f \in Remains : LastSeq(f.items) >= acked` is
   not an invariant of `store_journal`, and TLC shows this in twelve states. What
   does hold is `SecuredSurvives`: a commit with changes secures the records
   before it too, and so does `compact`. A sync of the recovered file in
   `open_journal` would make the two the same.

`AdapterEnds`, the weaker property that holds, says exactly what is left: the
threads leave once no permit, no owner and no *awaited* explicit retirement
remains.

## 4. What is proved

TLAPS proves the following for every value of the constants that satisfies the
named assumptions: `SchedulerAssumption`, `BlockingJobsAssumption`,
`RetirementAssumption`, `NotificationAssumption`, `SyncChannelAssumption` and
`PipeAssumption`, `StoreAssumption`, `DatabaseAssumption`, `QueriesAssumption`
and `InstallerAssumption`. They state what the constructors enforce, that a pipe
holds a hint for every endpoint, that there are finitely many queries (a
computation that runs asks for finitely many), and that the values that stand
for "nothing" or "broken" are no others. No fact is
taken without proof beyond the theorems of the standard library about finite
sets, sequences and well-founded relations. No proof depends on a bound of
section 3.

Every safety invariant, action property and refinement that a passing run checks
is a theorem here.

**TaskSchedulerProofs** — for any number of slots and generations:
`TypeCorrect`, `WaitSetsCorrect` (`NoLostWakeup`), `SlotsCorrect`,
`QueueCorrect`, `QuiescenceCorrect`, `IdentitiesCorrect` (an action property),
and `SchedulerImplementsLifecycle`. The inductive invariant is
`Inv == SlotInv /\ QueueInv`: types, conservation of both kinds of slots, wait
sets against owners against the reactor, and the queue. None of the checked
invariants is inductive alone. That a queue entry is not resumed for a reused
slot needs `FreshUnqueued` (no entry names an identity still to be issued),
which needs slots to be conserved (a fresh slot is not below the length). That
registering a slot disturbs no other wait set needs that free registrations
are inactive. `QuiescenceExact` follows from the invariant without being part
of it. The refinement maps each identity to its `Fate`; the lemmas
`LifecycleSpawn`, `...Complete`, `...Cancel`, `...Release` and
`LifecycleStutter` treat the kinds of steps.

The executor is not simply a restriction of the scheduler: a poll whose wait set
is refused composes a failed `suspend` with a `yield_now` in one step. So the
invariant is proved again for `ExecNext`, every step of which is a scheduler
step (`ExecutorSteps`) or `PollRejected` (`RejectedStep`): `ExecutorSafe`,
`ExecutorAdvances`, `ExecutorImplementsLifecycle`. `PayloadsFollowTasks`
(`PayloadsExact`) then follows the payload map through each step, and needs that
at most one task is running, which is part of it.

**BlockingWorkersProofs** — for any number of workers, jobs, callers and
identities. The job service has the invariant
`JobInv == TypeOK /\ OneOwner /\ Conserved /\ ClosedIsEmpty`. `Conserved` is the
reason why the saturating epoch of `identity.rs:129` never saturates while it
matters: epoch and admitted jobs always add up to the identities issued. Each
operation is shown once to keep it *and* to be a step of the pool
(`SubmitJobs`, ..., `ShutdownJobs`), and `ServiceStep` shows that threads only
change jobs through those operations. The threads add `Kinds`, `Flags`, `Held`
(a completion guard belongs to the one worker that operates),
`Closing`, `Announced` and `Pending`. `NoWorkerOversleeps` is not inductive:
`Pending` counts a notification that is about to be sent as a worker on its way.
Results: `WorkersKeepInvariant`, `WorkersTyped`, `JobsHaveOneOwner`,
`WorkersNeverOversleep`, `NewsAlwaysAnnounced`, `ShutdownLeavesNothing`,
`OutcomesStayFinal` and `ServiceImplementsPool`.

**RetirementProofs**, the service — for any capacity, number of workers and last
counter value: `RetirementTyped`, `ReservationsCounted`,
`RetirementInOnePlace`, `NothingRunsOut` and `RetirementImplementsPool`. They
are proved together: `OnePlace` makes an identity move between disjoint places,
so cardinalities change by one; then reservations are exact; then the counter
does not go below zero; and `Bounded`, the strengthening that no run lists,
turns `Reserve` into an `Admit` of the pool. `WorkersUseService` shows that
the adapter with all its threads (`WSpec`) implements `Spec`, so the five
results hold of the concurrent system too.

**RetirementProofs**, the threads — `WorkersTyped`, `WorkersNeverOversleep` and
`WorkersStay` of the cleanup threads. Here `NoWorkerOversleeps` is inductive
with `Held` (the guard of a cleanup belongs to the worker that runs it). `Life`
says that nobody is told to stop, and no thread leaves, before the last
reservation is gone, which needs that admission is never reopened and that
reservations do not grow once it is closed (`Shrinks`).

**SyncMutexProofs** — for any set of tasks and any pipe: `MutexTyped`,
`GuardExclusive`, `NoWaiterStranded`. Here the three properties together are
inductive as they stand.

**SyncChannelProofs** — for any endpoints, capacity and pipe:
`EndpointsCounted`, `NobodyIsStranded` and `ChannelImplementsFifo`. `Counted`
ties the two counters to the endpoints alive. `NobodyStranded` needs the
strengthening `Hinted`: the hints in a pipe cover the values (or free slots), or
all who wait; `PipeAssumption` (a pipe has room for a hint to every endpoint) is
what a full pipe must not contradict. `Ordered` says which number each place of
the ring holds; the lemma `WrapsOnce` is its modular arithmetic, and the
refinement reads the abstract queue from the ring at `head`.

**StoreJournalProofs** — for any keys, values, journal and batch limits and
sequences: `SecuredStatesSurvive` (`SecuredSurvives`), `OwnerStaysInStep`,
`PublishedStatesSurvive` (`SurvivorsArePublished`), `StoreIsDurable`
(`DurableSpec`) and, from the abstract store alone, `SecuredStays`: no step takes
back a secured state or gives its sequence to another one. All of them are about
`secured`; of `acked` only that a commit returns the number of the state its
owner shows (`CleanShows`), which is as much as the code keeps (section 3,
disagreement 5). There are two invariants.

- `JournalInv` is about shape. It has every file that a power loss may bring back
  (`GoodFiles`): it is well formed, has a base, and what is synced of it reaches
  the secured sequence; and what the owner's fields say of the file at each
  `pc` (`OwnerKnows`), for instance that no shadow is left once opening has
  synced the directory.
- `ContentInv` is about what the records say. `FilesPublished`: whatever is left
  of any of these files replays to the state published under its last sequence,
  and the current file reaches the last one. `OwnerHolds`: the owner's state is
  the last published one with the staged changes applied, unless they have
  outgrown their record, when the batch is flagged and never appended; and
  after a write or a rename it *is* the last published state, before the commit
  returns. Neither half is inductive without the other: a record that is appended
  replays to what the owner shows (`AppendHolds`) only because of both.

The replay of a journal (`StateOf`) and of a batch (`AppliedAll`) are recursive
functions. That they exist and go record by record is proved first
(`ReplayedOneByOne`, `AppliedOneByOne`). The refinement then needs little: only
a write or a rename publishes, only an operation that returns secures, recovery
shows `StateAt(Len(log))`, and what a power loss takes is above the secured
sequence (`LossLoses`).

**ComputationDatabaseProofs** — for finitely many queries, any inputs, providers
and revisions: `ClosureIsRetained` (`ClosureRetained`), `AnswersFresh`
(`AnswersAreFresh`) and `RecomputationNeeded` (`RecomputedOnlyIfChanged`).

- `DatabaseInv == DataTyped /\ ClosureRetained /\ StackInv`; `StackInv` says of
  each suspended frame that the dependencies it has verified or recorded are
  current in this revision, which is what a result needs when it is stored or
  confirmed.
- `FreshInv == EntriesFresh /\ StackFresh /\ AnswersAreFresh`. Every stored entry
  is a run of its provider on the values it recorded, and those are true of the
  present inputs if the entry was verified in this revision; a frame that
  verifies has found true what it is done with, a frame that evaluates has read
  what an evaluation from scratch would and replaces nothing that could have been
  confirmed. The last part gives `RecomputedOnlyIfChanged`.

Evaluation from scratch is `Fresh`, by rounds: with no more than *n* evaluations
one inside the other. The argument about cycles is the deep one. A round only
ever turns a `"cycle"` into an answer, and until the rounds have settled each
finds an answer for one more query; there are no more queries than rounds, so
what is still a cycle in the last round is one (`FoundGrows`,
`LastRoundSettled`). Each query
on the stack is answered in a later round than the ones above it (`Deeper`,
`ReadsDeeper`), so a query that meets itself on the stack has no round at all
(`DeeperThanItself`), which is the error the code gives. Collection changes the
worth of nothing that is left (`LeftEvaluated`, `CollectFresh`), and once an
input has been set no entry of a query claims to be of the new revision.

**InstallerProofs** — for any releases: `NothingPreciousRemoved` and
`InstallationAtomic` (`InstallationIsAtomic`). `InstallerInv` has `Disposable`
(what is about to be removed, and may be left damaged, holds no home that
counts), `Whole` (the home in effect is not a broken one) and `Prepared` (from
the marker to the renames the transaction directory holds what the next step
puts in place, and a step that will roll back has something to roll back to).
Each action has a lemma that says both that it keeps the invariant and that it
is a step of `AtomicInstallation` or shows nothing.

*Induction.* The library's induction theorems take an operator as a parameter,
which none of the provers used here can instantiate. What is needed of induction
is therefore stated about sets (`Induction`, `LeastElement`) and proved from the
well-foundedness of strict inclusion among finite sets, which the library states
without one. Recursive functions are unfolded the same way: by induction there is a
function of each length that satisfies the equation, so the `CHOOSE` that
defines the recursive one does.

**Only model-checked.**

- Liveness under fairness is out of the prover's reach: `RunnablePolled`,
  `WaiterWoken`, `CallersServed`, `ShutdownReturns`, `AdapterEnds`,
  `RerunsSucceed`.
- The three runs that expect a violation.

## 5. What is not modelled

- *In the modelled parts:* error values and their wording; queries without
  effect, except as they appear in properties; the interest in a registration;
  creating, duplicating and closing the descriptors of a notification, and
  reference counts of shared cells; saturation of the `u128` revision; a panic
  in the destructor of a resource (outside of `catch_unwind`; the one resource
  type in the repository is `std::fs::File`); statistics and the downcasts of
  the computation database.
- *Late effects in the store.* A commit or compaction whose future is dropped
  may still have an operation in a worker, and `close` gives up the lock without
  waiting for it (`std/store/store.nct:517`). `StoreJournal` takes it to have
  ended before the next owner opens. `std/store/README.md:93-97` asks callers to
  reopen after a cancellation and does not say when they may; if the abandoned
  write lands after the next owner has recovered the journal, it appends a
  record the new owner does not know of.
- *What a power loss leaves.* The model assumes that an unsynced append survives
  as a prefix (with a torn record after it), that a synced file stays, and that
  a rename is undone as a whole or not at all.
- *Two installers at once.* Nothing locks the destination, and a second installer
  may take the marked directory of a running one for an interrupted transaction
  and remove it. Concurrent changes of an installation are outside the operating
  contract (`development/history/reviews/v0.24.0-installation-image-identity.md:67`).
- *Power loss under the installer*, which syncs nothing: only deaths of the
  process are modelled. `RerunsSucceed` is not claimed when a death falls between
  the creation of the transaction directory and its marker, or when a removal
  takes the marker first: such a directory refuses every later installation
  until it is removed by hand.
- *Providers of the computation database* are abstract: at most two reads, no
  state of their own, errors passed on. A provider that swallowed an error of
  what it read would have no dependency recorded for it.
- *Darwin reactor and event queue.* What is hard there (a failed event in the
  middle of a batch, `reactor.rs:350`) depends on what kqueue delivers and when,
  which would have to be assumed; `TaskScheduler` assumes only that whatever is
  reported was registered at some time.
- *Package cache, `std/process`, `std/http`* keep state worth a model of their
  own; they are the next candidates, in this order.
- *Pure code*: the front end, checking, lowering, encoding, codecs, persistent
  maps. Their state spaces are syntax trees, their hazards are functional; they
  belong to conformance tests. They are by far the most of the repository, which
  is why the share of its lines that is modelled is small.
- *Generated runtime.* `nocter-arm64` emits the asynchronous runtime of native
  programs as machine code. The models follow `nocter-task-runtime`, the
  executable form of the same contract.
- *Kernel.* kqueue, pipes, sockets, condition variables and threads appear as
  what the code relies on: level readiness, a nonblocking write that fails when
  full, spurious wakeups.

## 6. Plan

Done, in this order: scheduler and executor, job service and workers,
`std/sync`, retirement service and workers, with proofs of the scheduler, the
mutex and the retirement service; then the store, the computation database and
the installer; then the proofs of the executor, the job workers, the channel,
the cleanup threads, the store's durability and the database's retention; then
the proofs of what the store's journal holds and of its refinement, of the
database's answers, and of the installer.

Left, by importance: late effects of abandoned storage operations
(`std/store/store.nct:517`) as steps of `StoreJournal`; the publication of exact
packages against a second publisher
(`nocter-package-state/src/package_cache.rs`); the file service as a
composition of `BlockingJobs` with `ResourceRetirement`; the Darwin reactor over
an abstract kqueue, as an implementation of what `TaskScheduler` assumes. Worth
proving next: what clients may conclude from the other abstract specifications
alone, and the safety part of the arguments behind `AdapterEnds` and
`ShutdownReturns`.
