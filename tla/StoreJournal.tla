----------------------------- MODULE StoreJournal -----------------------------
(***************************************************************************)
(* std/store: a Store and its journal file (store.nct, mutations.nct,      *)
(* journal.nct, journal_format.nct) over the durable files of std/fs.      *)
(*                                                                         *)
(* One step is one storage operation an owner awaits; between any two, and *)
(* in the middle of each, the operation may fail, the future be cancelled, *)
(* the process be killed or the power be lost.  The lock file admits one   *)
(* owner at a time; an operation abandoned in a worker is taken to end     *)
(* before the next owner opens.                                            *)
(*                                                                         *)
(* A file keeps its first `synced' records for sure; an append survives a  *)
(* power loss as a prefix of what was appended, and a record cut short is  *)
(* a torn tail.  A shadow is a file that a rename has replaced and to      *)
(* which the directory may still fall back.  Bytes are abstract: a record  *)
(* fits or does not, a checksum holds or the tail is torn.  Once a store   *)
(* is open its journal is in the current format, so that is not kept.      *)
(***************************************************************************)
EXTENDS Naturals, Sequences, SequencesExt

CONSTANTS
    Keys,
    Vals,
    None,           \* no value; also what the replay of a corrupt journal yields
    MaxRecords,     \* maximum_journal_records
    MaxBatch,       \* mutations that fit in one complete record
    MaxU64          \* the largest sequence

ASSUME StoreAssumption ==
    /\ None \notin Vals
    /\ None \notin [Keys -> Vals \cup {None}]
    /\ MaxRecords \in Nat \ {0}
    /\ MaxBatch \in Nat
    /\ MaxU64 \in Nat \ {0}

States == [Keys -> Vals \cup {None}]
Blank  == [k \in Keys |-> None]
Clean  == [changes |-> <<>>, checkpoint |-> FALSE]

VARIABLES
    file,       \* the journal the path names: its records, a torn tail, what is synced
    shadow,     \* the files the path may name again after a power loss
    pc,         \* the storage operation under way, or closed, idle, terminal
    goal,       \* what it is part of: open, commit or compact
    mem,        \* Store.state
    staged,     \* Store.pending
    seq,        \* Store.committed_sequence_value
    next,       \* Journal.next_sequence
    count,      \* Journal.record_count
    usable,     \* Journal.usable
    log,        \* history: log[n] is the state published under sequence n
    acked,      \* history: the last sequence a commit has returned
    secured     \* history: the last sequence that an operation which wrote has returned with

owner == <<mem, staged, seq, next, count, usable>>
vars == <<file, shadow, pc, goal, owner, log, acked, secured>>

Operations == {"prepare", "recover", "write", "sync", "replace", "dirSync", "reopen"}

-----------------------------------------------------------------------------
(* Records and what recovery makes of them.                                *)

Record(kind, n, body) == [kind |-> kind, seq |-> n, body |-> body]

\* What follows a torn tail cannot be read.
Unreadable == Record("unreadable", 0, <<>>)

LastSeq(items) == IF items = <<>> THEN 0 ELSE items[Len(items)].seq

IsLegacy(r) == r.kind = "legacy"

WellFormed(items) ==
    /\ Len(items) <= MaxRecords
    /\ \A i \in 1 .. Len(items) : items[i].seq # 0 /\ IsLegacy(items[i]) = IsLegacy(items[1])
    /\ \A i \in 1 .. Len(items) - 1 : items[i + 1].seq = items[i].seq + 1

\* Mutations without a base are the first commit of a new store.
Based(items) == items # <<>> /\ items[1].kind = "mutations" => items[1].seq = 1

\* apply_store_set, apply_store_remove: removing what is not there is corrupt.
Applied(state, change) ==
    IF state = None \/ (change.val = None /\ state[change.key] = None)
      THEN None
      ELSE [state EXCEPT ![change.key] = change.val]

AppliedAll(state, changes) ==
    LET after[n \in 0 .. Len(changes)] ==
            IF n = 0 THEN state ELSE Applied(after[n - 1], changes[n])
    IN  after[Len(changes)]

Replayed(state, r) ==
    IF state = None THEN None
    ELSE IF r.kind = "mutations" THEN AppliedAll(state, r.body) ELSE r.body

StateOf(items) ==
    LET after[n \in 0 .. Len(items)] ==
            IF n = 0 THEN Blank ELSE Replayed(after[n - 1], items[n])
    IN  after[Len(items)]

\* record_store_set, record_store_remove.
\* Mutant: a batch that outgrew its record starts over.
RecordedForgets(change) ==
    IF staged.checkpoint \/ Len(staged.changes) >= MaxBatch
      THEN Clean
      ELSE [staged EXCEPT !.changes = Append(@, change)]

Recorded(change) ==
    IF staged.checkpoint \/ Len(staged.changes) >= MaxBatch
      THEN [changes |-> <<>>, checkpoint |-> TRUE]
      ELSE [staged EXCEPT !.changes = Append(@, change)]

-----------------------------------------------------------------------------
(* What the storage operations do to the disk.                             *)

\* The sequence the record under way will carry.
Target == IF goal = "commit" THEN next ELSE seq

NewRecord ==
    IF pc = "write" THEN Record("mutations", next, staged.changes)
                    ELSE Record("checkpoint", Target, mem)

Settles == shadow' = {} /\ UNCHANGED <<file, log>>

Trims == file' = [file EXCEPT !.torn = FALSE] /\ UNCHANGED <<shadow, log>>

Appends ==
    /\ file' = [file EXCEPT !.items = Append(@, IF file.torn THEN Unreadable ELSE NewRecord)]
    /\ log' = Append(log, mem)
    /\ UNCHANGED shadow

Tears == file' = [file EXCEPT !.torn = TRUE] /\ UNCHANGED <<shadow, log>>

Flushes ==
    /\ file' = [file EXCEPT !.synced = Len(file.items)]
    /\ UNCHANGED <<shadow, log>>

\* write_durable has written, synced and closed the sibling before it renames it.
Replaces ==
    /\ file' = [items |-> <<NewRecord>>, torn |-> FALSE, synced |-> 1]
    /\ shadow' = shadow \cup {file}
    /\ log' = IF goal = "commit" THEN Append(log, mem) ELSE log

-----------------------------------------------------------------------------

Init ==
    /\ \E n \in 0 .. MaxRecords :
          /\ n <= MaxU64
          /\ log \in [1 .. n -> States]
          /\ file = [items |-> [i \in 1 .. n |-> Record("legacy", i, log[i])],
                     torn |-> FALSE, synced |-> n]
          /\ acked = n /\ secured = n
    /\ shadow = {}
    /\ pc = "closed" /\ goal = "open"
    /\ mem = Blank /\ staged = Clean
    /\ seq = 0 /\ next = 1 /\ count = 0
    /\ usable = FALSE

\* The owner and its lock are gone.
Released ==
    /\ pc' = "closed"
    /\ mem' = Blank /\ staged' = Clean
    /\ seq' = 0 /\ next' = 1 /\ count' = 0
    /\ usable' = FALSE

\* advance_journal_sequence.
Advances(n) ==
    IF n = MaxU64 THEN usable' = FALSE /\ UNCHANGED next
                  ELSE usable' = TRUE /\ next' = n + 1

\* The journal holds `records' records and the operation returns.
Completes(records) ==
    /\ pc' = "idle"
    /\ count' = records
    /\ seq' = Target
    /\ staged' = Clean
    /\ acked' = IF goal = "commit" THEN Target ELSE acked
    /\ secured' = Target
    /\ Advances(Target)

\* acquire_store_lock.
Open ==
    /\ pc = "closed"
    /\ pc' = "prepare" /\ goal' = "open"
    /\ UNCHANGED <<file, shadow, owner, log, acked, secured>>

\* Mutant: prepare_durable_file leaves the directory of an existing file alone.
PrepareUnsettled ==
    /\ pc = "prepare"
    /\ pc' = "recover"
    /\ UNCHANGED <<file, shadow, goal, owner, log, acked, secured>>

\* prepare_durable_file: the name of the file that is about to be read is durable.
Prepare ==
    /\ pc = "prepare"
    /\ pc' = "recover"
    /\ Settles
    /\ UNCHANGED <<goal, owner, acked, secured>>

\* open_journal and recover_store_state; a legacy journal is replaced before use.
Recover ==
    /\ pc = "recover"
    /\ WellFormed(file.items)
    /\ LastSeq(file.items) # MaxU64
    /\ Trims
    /\ IF Based(file.items) /\ StateOf(file.items) # None
         THEN /\ mem' = StateOf(file.items)
              /\ seq' = LastSeq(file.items)
              /\ next' = LastSeq(file.items) + 1
              /\ count' = Len(file.items)
              /\ usable' = TRUE
              /\ pc' = IF file.items # <<>> /\ IsLegacy(file.items[1]) THEN "replace" ELSE "idle"
              /\ UNCHANGED staged
         ELSE Released
    /\ UNCHANGED <<goal, acked, secured>>

RecoverRefuses ==
    /\ pc = "recover"
    /\ ~WellFormed(file.items) \/ LastSeq(file.items) = MaxU64
    /\ Released
    /\ UNCHANGED <<file, shadow, goal, log, acked, secured>>

\* Store.set.
StageSet(k, v) ==
    /\ pc = "idle"
    /\ mem' = [mem EXCEPT ![k] = v]
    /\ staged' = Recorded([key |-> k, val |-> v])
    /\ UNCHANGED <<file, shadow, pc, goal, seq, next, count, usable, log, acked, secured>>

\* Store.remove of a key that is there.
StageRemove(k) ==
    /\ pc = "idle"
    /\ mem[k] # None
    /\ mem' = [mem EXCEPT ![k] = None]
    /\ staged' = Recorded([key |-> k, val |-> None])
    /\ UNCHANGED <<file, shadow, pc, goal, seq, next, count, usable, log, acked, secured>>

\* commit of a store without staged changes: it returns the sequence the owner has, be it
\* one that recovery has only read, and touches no storage.
CommitClean ==
    /\ pc = "idle"
    /\ staged = Clean
    /\ acked' = seq
    /\ UNCHANGED <<file, shadow, pc, goal, owner, log, secured>>

\* Mutant: the flag of the batch is not looked at.
BeginCommitUnflagged ==
    /\ pc = "idle"
    /\ staged # Clean
    /\ goal' = "commit"
    /\ pc' = IF ~usable THEN "terminal" ELSE IF count < MaxRecords THEN "write" ELSE "replace"
    /\ usable' = FALSE
    /\ UNCHANGED <<file, shadow, mem, staged, seq, next, count, log, acked, secured>>

\* commit of staged changes: the batch is appended, or the whole state replaces a journal that is full
\* by its number of records or, at any time after the first one, by its bytes.
BeginCommit ==
    /\ pc = "idle"
    /\ staged # Clean
    /\ goal' = "commit"
    /\ \/ ~usable /\ pc' = "terminal"
       \/ usable /\ ~staged.checkpoint /\ count < MaxRecords /\ pc' = "write"
       \/ usable /\ (staged.checkpoint \/ count > 0) /\ pc' = "replace"
    /\ usable' = FALSE
    /\ UNCHANGED <<file, shadow, mem, staged, seq, next, count, log, acked, secured>>

BeginCompact ==
    /\ pc = "idle"
    /\ staged = Clean
    /\ seq # 0
    /\ goal' = "compact"
    /\ pc' = IF usable THEN "replace" ELSE "terminal"
    /\ usable' = FALSE
    /\ UNCHANGED <<file, shadow, mem, staged, seq, next, count, log, acked, secured>>

Write ==
    /\ pc = "write"
    /\ pc' = "sync"
    /\ Appends
    /\ UNCHANGED <<goal, owner, acked, secured>>

Sync ==
    /\ pc = "sync"
    /\ Flushes
    /\ Completes(count + 1)
    /\ UNCHANGED <<goal, mem>>

\* write_durable up to its rename, then the directory, then File.append.
Replace ==
    /\ pc = "replace"
    /\ pc' = "dirSync"
    /\ Replaces
    /\ UNCHANGED <<goal, owner, acked, secured>>

DirSync ==
    /\ pc = "dirSync"
    /\ pc' = "reopen"
    /\ Settles
    /\ UNCHANGED <<goal, owner, acked, secured>>

\* Mutant: record_count is not set back.
ReopenKeepsCount ==
    /\ pc = "reopen"
    /\ Completes(count)
    /\ UNCHANGED <<file, shadow, goal, mem, log>>

Reopen ==
    /\ pc = "reopen"
    /\ Completes(1)
    /\ UNCHANGED <<file, shadow, goal, mem, log>>

\* Where an operation that did not return leaves the owner.
Abandoned ==
    IF goal = "open" THEN Released ELSE pc' = "terminal" /\ UNCHANGED owner

\* An error, a cancellation or the death of the process: the operation has had no
\* effect, part of it or all of it.
Interrupted ==
    /\ pc \in Operations
    /\ \/ UNCHANGED <<file, shadow, log>>
       \/ pc \in {"prepare", "dirSync"} /\ Settles
       \/ pc = "recover" /\ WellFormed(file.items) /\ Trims
       \/ pc = "write" /\ (Appends \/ Tears)
       \/ pc = "sync" /\ Flushes
       \/ pc = "replace" /\ Replaces
    /\ Abandoned
    /\ UNCHANGED <<goal, acked, secured>>

\* close and Drop: the journal, then the lock.
Stop ==
    /\ pc \in {"idle", "terminal"}
    /\ Released
    /\ UNCHANGED <<file, shadow, goal, log, acked, secured>>

\* What may be left of a file.
Survivors(f) ==
    {[items |-> SubSeq(f.items, 1, n), torn |-> t, synced |-> n] :
        n \in f.synced .. Len(f.items), t \in BOOLEAN}

\* What may be left of the journal.
Remains == UNION {Survivors(f) : f \in {file} \cup shadow}

PowerLoss ==
    /\ \E f \in Remains :
          /\ file' = f
          /\ log' = SubSeq(log, 1, Min({Len(log), LastSeq(f.items)}))
    /\ shadow' = {}
    /\ Released
    /\ UNCHANGED <<goal, acked, secured>>

-----------------------------------------------------------------------------

OwnerStep ==
    \/ Open \/ Prepare \/ Recover \/ RecoverRefuses
    \/ \E k \in Keys : StageRemove(k) \/ \E v \in Vals : StageSet(k, v)
    \/ CommitClean \/ BeginCommit \/ BeginCompact
    \/ Write \/ Sync \/ Replace \/ DirSync \/ Reopen
    \/ Interrupted \/ Stop

Next == OwnerStep \/ PowerLoss

Spec == Init /\ [][Next]_vars

-----------------------------------------------------------------------------
(* Properties                                                              *)

\* A commit that had changes to write and returned, or a compaction, is never lost: whatever
\* is left of the journal, now or after a power loss, is well-formed and reaches at least its
\* sequence.  It does not always reach `acked': what a commit of nothing returns is no more
\* than what recovery has read (store.nct, commit and compact; durable.nct,
\* prepare_durable_file and write_durable).
SecuredSurvives ==
    \A f \in Remains :
        /\ WellFormed(f.items) /\ Based(f.items)
        /\ LastSeq(f.items) >= secured

\* Reopening finds exactly a state that some commit published under that sequence, never
\* an edit that no commit wrote, and never mutations without their base.
SurvivorsArePublished ==
    \A f \in Remains :
        LET n == LastSeq(f.items)
        IN  /\ n <= Len(log)
            /\ StateOf(f.items) = IF n = 0 THEN Blank ELSE log[n]

\* An idle owner is in step with its journal (journal.nct): the record it would append
\* is the one recovery expects.
OwnerInStep ==
    pc = "idle" =>
        /\ ~file.torn
        /\ count = Len(file.items)
        /\ seq = LastSeq(file.items)
        /\ usable => next = seq + 1

\* The store implements DurableStore.  A terminal owner shows nothing.
Durable == INSTANCE DurableStore WITH
    Closed  <- None, told <- acked, safe <- secured,
    writing <- goal = "commit" /\ pc \in {"sync", "dirSync", "reopen"},
    view    <- IF pc \in {"closed", "prepare", "recover", "terminal"} \/ (goal = "open" /\ pc # "idle")
                 THEN None ELSE mem

\* Across failures and reopenings (README of std/store): an owner shows the last state that is
\* left, a commit returns the sequence of the state it shows, and what an operation that wrote
\* has returned with is kept.  A state that recovery has found may still be lost.
DurableSpec == Durable!Spec
=============================================================================
