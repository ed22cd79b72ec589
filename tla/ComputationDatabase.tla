-------------------------- MODULE ComputationDatabase --------------------------
(***************************************************************************)
(* Database (crate nocter-computation, database.rs): inputs set by         *)
(* revision, queries evaluated on demand, dependencies recorded as they    *)
(* are read, and old results verified instead of recomputed.               *)
(*                                                                         *)
(* The recursion of ensure and evaluate is a stack of frames, one for each *)
(* query that is being verified or evaluated, and the result that the last *)
(* finished call returns to the frame below it.  A value stands for its    *)
(* own fingerprint.  Providers belong to the crates that use the database: *)
(* here each reads one identity, then by the value found there perhaps     *)
(* another one, returns what it makes of the last value, or fails, and     *)
(* passes on the errors of what it reads.                                  *)
(***************************************************************************)
EXTENDS Naturals, Sequences, FiniteSets, SequencesExt

CONSTANTS
    Inputs,
    Queries,
    Persistent,     \* inputs that survive collection (InputRetention::Persistent)
    Values,
    None,           \* no entry, no further read, no result yet
    Programs,       \* what the providers may be
    MaxRevision     \* the last revision that can be represented

Ids    == Inputs \cup Queries
Errors == {"missing", "cycle", "fails"}

ASSUME DatabaseAssumption ==
    /\ Inputs \cap Queries = {}
    /\ Persistent \subseteq Inputs
    /\ Values \cap Errors = {}
    /\ None \notin Ids \cup Values \cup Errors
    /\ None \notin [value : Values, verified : Nat, deps : Seq([id : Ids, value : Values])]
    /\ MaxRevision \in Nat
    /\ Programs \subseteq [Queries -> [first  : Ids,
                                       branch : [Values -> Ids \cup {None}],
                                       out    : [Values -> Values \cup {"fails"}]]]

\* There is an end to what can be asked for, so evaluation from scratch is well defined.
ASSUME QueriesAssumption == IsFiniteSet(Queries)

VARIABLES
    program,    \* the provider of each query
    revision,   \* DatabaseState.revision
    entries,    \* DatabaseState.entries: the entry of each identity, or None
    stack,      \* the calls of ensure and evaluate in progress, outermost first
    reply,      \* the result on its way to the last frame of the stack, or None
    asked       \* the identity the owner of the database has asked for, or None

vars == <<program, revision, entries, stack, reply, asked>>

Entry(v, deps) == [value |-> v, verified |-> revision, deps |-> deps]

EnsureFrame(id)   == [op |-> "ensure", id |-> id, todo |-> entries[id].deps, deps |-> <<>>, seen |-> <<>>]
EvaluateFrame(id) == [op |-> "evaluate", id |-> id, todo |-> <<>>, deps |-> <<>>, seen |-> <<>>]

Init ==
    /\ program \in Programs
    /\ revision = 0
    /\ entries = [id \in Ids |-> None]
    /\ stack = <<>> /\ reply = None /\ asked = None

-----------------------------------------------------------------------------
(* The calls.  `below' is the stack the result goes to.                    *)

Return(result, below) == reply' = result /\ stack' = below
Push(frame, below)    == reply' = None /\ stack' = Append(below, frame)

Touched(id) == [entries EXCEPT ![id].verified = revision]

\* Mutant: an input is returned as it is.
EnsureUntouched(id, below) ==
    IF entries[id] = None THEN Return("missing", below) /\ UNCHANGED entries
    ELSE IF id \in Inputs \/ entries[id].verified = revision
      THEN Return(entries[id].value, below) /\ UNCHANGED entries
      ELSE Push(EnsureFrame(id), below) /\ UNCHANGED entries

Ensure(id, below) ==
    \/ entries[id] = None /\ Return("missing", below) /\ UNCHANGED entries
    \/ /\ entries[id] # None
       /\ entries[id].verified = revision \/ id \in Inputs
       /\ Return(entries[id].value, below)
       /\ entries' = Touched(id)
    \/ /\ entries[id] # None
       /\ entries[id].verified # revision /\ id \in Queries
       /\ Push(EnsureFrame(id), below)
       /\ UNCHANGED entries

Evaluating(frames) == {frames[i].id : i \in {j \in 1 .. Len(frames) : frames[j].op = "evaluate"}}

\* begin_evaluation: only evaluations are looked through for a cycle.
Evaluate(id, below) ==
    /\ IF id \in Evaluating(below) THEN Return("cycle", below) ELSE Push(EvaluateFrame(id), below)
    /\ UNCHANGED entries

\* input and query: a query without an entry is evaluated at once.
Call(id, below) ==
    IF id \in Queries /\ entries[id] = None THEN Evaluate(id, below) ELSE Ensure(id, below)

-----------------------------------------------------------------------------
(* What the owner of the database does between its queries.                *)

Idle == stack = <<>> /\ asked = None

\* advance_revision, set and commit.
Advance(changes) ==
    /\ Idle
    /\ revision < MaxRevision
    /\ revision' = revision + 1
    /\ entries' = [id \in Ids |-> IF id \in DOMAIN changes
                                    THEN [value |-> changes[id], verified |-> revision + 1, deps |-> <<>>]
                                    ELSE entries[id]]
    /\ UNCHANGED <<program, stack, reply, asked>>

\* collect_inactive, with the cutoff clamped to the revision.
Collect(cutoff) ==
    /\ Idle
    /\ entries' = [id \in Ids |-> IF entries[id] # None /\ entries[id].verified < cutoff
                                       /\ id \notin Persistent
                                    THEN None ELSE entries[id]]
    /\ UNCHANGED <<program, revision, stack, reply, asked>>

Ask(id) ==
    /\ Idle
    /\ asked' = id
    /\ Call(id, stack)
    /\ UNCHANGED <<program, revision>>

Answer ==
    /\ stack = <<>>
    /\ reply # None
    /\ reply' = None /\ asked' = None
    /\ UNCHANGED <<program, revision, entries, stack>>

-----------------------------------------------------------------------------
(* The frame on top of the stack.                                          *)

Top == stack[Len(stack)]

At(op) == stack # <<>> /\ Top.op = op

\* ensure looks at the recorded dependencies in the order in which they were read.
Verify ==
    /\ At("ensure") /\ Top.todo # <<>>
    /\ reply = None
    /\ Ensure(Head(Top.todo).id, stack)

\* Mutant: the last dependency is accepted whatever it is worth.
UnchangedTooOften ==
    /\ At("ensure")
    /\ reply \in Values
    /\ reply = Head(Top.todo).value \/ Len(Top.todo) = 1
    /\ stack' = [stack EXCEPT ![Len(stack)].todo = Tail(@)]
    /\ reply' = None
    /\ UNCHANGED entries

Unchanged ==
    /\ At("ensure")
    /\ reply \in Values
    /\ reply = Head(Top.todo).value
    /\ stack' = [stack EXCEPT ![Len(stack)].todo = Tail(@)]
    /\ reply' = None
    /\ UNCHANGED entries

\* Mutant: a dependency that was not changed makes the query dirty too.
ChangedAlways ==
    /\ At("ensure")
    /\ reply \in Values
    /\ Evaluate(Top.id, Front(stack))

Changed ==
    /\ At("ensure")
    /\ reply \in Values
    /\ reply # Head(Top.todo).value
    /\ Evaluate(Top.id, Front(stack))

\* Every dependency is as it was recorded: the entry holds for this revision too.
Confirm ==
    /\ At("ensure") /\ Top.todo = <<>>
    /\ reply = None
    /\ entries' = Touched(Top.id)
    /\ Return(entries[Top.id].value, Front(stack))

\* What the provider of a query reads next, having seen these values.
NextRead(q, seen) ==
    IF seen = <<>> THEN program[q].first
    ELSE IF Len(seen) = 1 THEN program[q].branch[seen[1]] ELSE None

Read ==
    /\ At("evaluate") /\ NextRead(Top.id, Top.seen) # None
    /\ reply = None
    /\ Call(NextRead(Top.id, Top.seen), stack)

\* record_dependency: each identity once, as it was first read.
Recorded(deps, id, v) ==
    IF \E i \in 1 .. Len(deps) : deps[i].id = id THEN deps ELSE Append(deps, [id |-> id, value |-> v])

Absorb ==
    /\ At("evaluate")
    /\ reply \in Values
    /\ LET f == [Top EXCEPT !.deps = Recorded(@, NextRead(Top.id, Top.seen), reply),
                            !.seen = Append(@, reply)]
       IN  stack' = [stack EXCEPT ![Len(stack)] = f]
    /\ reply' = None
    /\ UNCHANGED entries

\* The provider returns; a failure is not stored.
Finish ==
    /\ At("evaluate") /\ NextRead(Top.id, Top.seen) = None
    /\ reply = None
    /\ LET result == program[Top.id].out[Last(Top.seen)]
       IN  /\ Return(result, Front(stack))
           /\ entries' = IF result \in Errors THEN entries
                         ELSE [entries EXCEPT ![Top.id] = Entry(result, Top.deps)]

\* `?' in ensure and in the providers; the guard of an evaluation closes its frame.
Propagate ==
    /\ stack # <<>>
    /\ reply \in Errors
    /\ Return(reply, Front(stack))
    /\ UNCHANGED entries

Step ==
    /\ Verify \/ Unchanged \/ Changed \/ Confirm \/ Read \/ Absorb \/ Finish \/ Propagate
    /\ UNCHANGED <<program, revision, asked>>

Changes == UNION {[S -> Values] : S \in SUBSET Inputs}

Next ==
    \/ \E changes \in Changes : Advance(changes)
    \/ \E cutoff \in 0 .. revision : Collect(cutoff)
    \/ \E id \in Ids : Ask(id)
    \/ Answer
    \/ Step

Spec == Init /\ [][Next]_vars

-----------------------------------------------------------------------------
(* Properties                                                              *)

\* What the provider of a query returns when each identity is worth what `worth' says.
Evaluated(q, worth) ==
    LET p == program[q]
        a == worth[p.first]
        b == IF a \notin Values THEN a ELSE IF p.branch[a] = None THEN a ELSE worth[p.branch[a]]
    IN  IF b \in Values THEN p.out[b] ELSE b

\* What each identity is worth when everything is computed from the present inputs, with
\* no more than n evaluations one inside the other.
Fresh[n \in 0 .. Cardinality(Queries)] ==
    [id \in Ids |->
        IF id \in Inputs THEN IF entries[id] = None THEN "missing" ELSE entries[id].value
        ELSE IF n = 0 THEN "cycle" ELSE Evaluated(id, Fresh[n - 1])]

Scratch(id) == Fresh[Cardinality(Queries)][id]

\* What the caller of the last finished call wanted.
Wanted ==
    IF stack = <<>> THEN asked
    ELSE IF Top.op = "ensure" THEN Head(Top.todo).id ELSE NextRead(Top.id, Top.seen)

\* Every answer, to the owner and to every verification and evaluation on the way, error
\* or not, is what an evaluation from scratch would give (ensure, query, input).
AnswersAreFresh == reply # None => reply = Scratch(Wanted)

\* A query that has a result is executed again only when its result is of an earlier
\* revision and one of its recorded dependencies is worth something else now (ensure).
RecomputedOnlyIfChanged ==
    \A i \in 1 .. Len(stack) :
        LET e == entries[stack[i].id]
        IN  stack[i].op = "evaluate" /\ e # None =>
                /\ e.verified < revision
                /\ \E j \in 1 .. Len(e.deps) : Scratch(e.deps[j].id) # e.deps[j].value

\* A retained query's complete dependency closure is retained with it, and will be as long
\* as the query is (collect_inactive, ensure, evaluate).
ClosureRetained ==
    \A q \in Queries : entries[q] # None =>
        \A i \in 1 .. Len(entries[q].deps) :
            LET d == entries[q].deps[i].id
            IN  entries[d] # None /\ (d \in Persistent \/ entries[d].verified >= entries[q].verified)
=============================================================================
