----------------------- MODULE ComputationDatabaseProofs -----------------------
(***************************************************************************)
(* For any inputs, finitely many queries, any values and providers:        *)
(* collection never leaves a retained query pointing at a collected        *)
(* dependency, every answer is what an evaluation from scratch would give, *)
(* and no result is made again that could have been confirmed.             *)
(*                                                                         *)
(* ClosureRetained is not inductive: an entry that is being confirmed      *)
(* needs all its dependencies verified in this revision, and so does one   *)
(* that is being made.  DatabaseInv says so of every frame of the stack,   *)
(* and that each frame waits for exactly the identity of the frame above.  *)
(*                                                                         *)
(* AnswersAreFresh needs more: every entry is the result of a run of its   *)
(* provider on the dependencies it recorded, which are worth what they     *)
(* were in the revision that verified it; every frame has read what an     *)
(* evaluation from scratch would; and each query on the stack is evaluated *)
(* further in than the ones below, so a cycle on the stack is a cycle from *)
(* scratch.  FreshInv says that.  Evaluation from scratch goes by rounds,  *)
(* and what the rounds find is settled by the last, for there are no more  *)
(* queries than rounds: the lemmas on it come first.                       *)
(***************************************************************************)
EXTENDS ComputationDatabase, SequenceTheorems, FiniteSetTheorems, WellFoundedInduction, TLAPS

Dependencies == [id : Ids, value : Values]
EntryRecords == [value : Values, verified : Nat, deps : Seq(Dependencies)]
Frames == [op : {"ensure", "evaluate"}, id : Queries, todo : Seq(Dependencies),
           deps : Seq(Dependencies), seen : Seq(Values)]

DataTyped ==
    /\ program \in Programs
    /\ revision \in Nat
    /\ entries \in [Ids -> EntryRecords \cup {None}]
    /\ \A id \in Ids : entries[id] # None => entries[id].verified <= revision

Current(id) == entries[id] # None /\ entries[id].verified = revision

\* Each dependency of the entry a frame confirms is verified, or still to be looked at; each
\* dependency a frame has recorded is verified.
EnsureFrameOK(f) ==
    /\ entries[f.id] # None
    /\ \/ Current(f.id)
       \/ \A i \in 1 .. Len(entries[f.id].deps) :
             \/ Current(entries[f.id].deps[i].id)
             \/ \E j \in 1 .. Len(f.todo) : f.todo[j].id = entries[f.id].deps[i].id

EvaluateFrameOK(f) == \A i \in 1 .. Len(f.deps) : Current(f.deps[i].id)

FrameOK(f) == IF f.op = "ensure" THEN EnsureFrameOK(f) ELSE EvaluateFrameOK(f)

\* A frame that waits for a result, and the identity it waits for.
Waits(f) == IF f.op = "ensure" THEN f.todo # <<>> ELSE NextRead(f.id, f.seen) # None
Wants(f) == IF f.op = "ensure" THEN Head(f.todo).id ELSE NextRead(f.id, f.seen)

\* A stack whose last frame waits for id, and every other one for the frame above it.
Suspended(frames, id) ==
    /\ frames \in Seq(Frames)
    /\ \A k \in 1 .. Len(frames) :
          /\ FrameOK(frames[k])
          /\ Waits(frames[k])
          /\ Wants(frames[k]) = IF k = Len(frames) THEN id ELSE frames[k + 1].id

StackInv ==
    /\ stack \in Seq(Frames)
    /\ reply \in Values \cup Errors \cup {None}
    /\ stack # <<>> =>
          \E below \in Seq(Frames), top \in Frames :
              /\ stack = Append(below, top)
              /\ Suspended(below, top.id)
              /\ FrameOK(top)
              /\ reply # None => Waits(top)
              /\ reply \in Values => Current(Wants(top))

DatabaseInv == DataTyped /\ ClosureRetained /\ StackInv

-----------------------------------------------------------------------------

\* None is no entry and no identity, errors are no values, and providers read identities.
LEMMA Distinct ==
    /\ None \notin EntryRecords
    /\ None \notin Ids
    /\ None \notin Values
    /\ None \notin Errors
    /\ Values \cap Errors = {}
    /\ Queries \subseteq Ids
    /\ Inputs \cap Queries = {}
    /\ Queries \cap Persistent = {}
    /\ "missing" \in Errors /\ "cycle" \in Errors /\ "fails" \in Errors
<1> QED
  BY DatabaseAssumption DEF EntryRecords, Dependencies, Ids, Errors

\* What a provider reads is an input or a query.
LEMMA ProviderTyped ==
    ASSUME DataTyped, NEW q \in Queries
    PROVE  /\ program[q].first \in Ids
           /\ \A v \in Values : program[q].branch[v] \in Ids \cup {None}
           /\ \A v \in Values : program[q].out[v] \in Values \cup {"fails"}
<1>1. program \in [Queries -> [first : Ids, branch : [Values -> Ids \cup {None}], out : [Values -> Values \cup {"fails"}]]]
  BY DatabaseAssumption DEF DataTyped
<1>2. program[q] \in [first : Ids, branch : [Values -> Ids \cup {None}], out : [Values -> Values \cup {"fails"}]]
  BY <1>1
<1> QED
  BY <1>2

\* What a provider reads next is an identity, and it has seen something when it returns.
LEMMA NextReadTyped ==
    ASSUME DataTyped, NEW f \in Frames
    PROVE  /\ NextRead(f.id, f.seen) \in Ids \cup {None}
           /\ NextRead(f.id, f.seen) = None => Last(f.seen) \in Values
<1>1. f.id \in Queries /\ f.seen \in Seq(Values)
  BY DEF Frames
<1>2. CASE f.seen = <<>>
  <2>1. NextRead(f.id, f.seen) \in Ids
    BY <1>1, <1>2, ProviderTyped DEF NextRead
  <2> QED
    BY <2>1, Distinct
<1>3. CASE f.seen # <<>>
  <2>1. Len(f.seen) \in Nat \ {0} /\ f.seen[1] \in Values /\ f.seen[Len(f.seen)] \in Values
    <3>1. Len(f.seen) \in Nat \ {0}
      BY <1>1, <1>3, EmptySeq
    <3> QED
      BY <1>1, <3>1, ElementOfSeq
  <2> QED
    BY <1>1, <1>3, <2>1, ProviderTyped DEF NextRead, Last
<1> QED
  BY <1>2, <1>3

\* What a waiting frame waits for is an identity.
LEMMA WantsTyped ==
    ASSUME DataTyped, NEW f \in Frames, Waits(f)
    PROVE  Wants(f) \in Ids
<1>1. CASE f.op = "ensure"
  <2>1. f.todo \in Seq(Dependencies) /\ f.todo # <<>>
    BY <1>1 DEF Frames, Waits
  <2>2. Head(f.todo) \in Dependencies
    BY <2>1, HeadTailProperties
  <2> QED
    BY <1>1, <2>2 DEF Wants, Dependencies
<1>2. CASE f.op # "ensure"
  BY <1>2, NextReadTyped DEF Wants, Waits
<1> QED
  BY <1>1, <1>2

\* The last frame of a stack, and what is below it.
LEMMA TopOfStack ==
    ASSUME NEW below \in Seq(Frames), NEW top \in Frames, NEW frames, frames = Append(below, top)
    PROVE  /\ frames \in Seq(Frames)
           /\ frames # <<>>
           /\ Len(frames) = Len(below) + 1
           /\ frames[Len(frames)] = top
           /\ Front(frames) = below
           /\ \A f \in Frames : [frames EXCEPT ![Len(frames)] = f] = Append(below, f)
<1>1. /\ frames \in Seq(Frames) /\ frames # <<>> /\ Len(frames) = Len(below) + 1 /\ Len(below) \in Nat
      /\ \A i \in 1 .. Len(below) : frames[i] = below[i]
      /\ frames[Len(below) + 1] = top
  BY AppendProperties, LenProperties
<1>2. Front(frames) = below
  <2>1. Front(frames) = SubSeq(frames, 1, Len(below))
    BY <1>1 DEF Front
  <2>2. \A i \in 1 .. Len(below) : frames[i] \in Frames
    BY <1>1, ElementOfSeq
  <2>3. /\ SubSeq(frames, 1, Len(below)) \in Seq(Frames)
        /\ Len(SubSeq(frames, 1, Len(below))) = Len(below)
        /\ \A i \in 1 .. Len(below) : SubSeq(frames, 1, Len(below))[i] = frames[i]
    <3>1. /\ SubSeq(frames, 1, Len(below)) \in Seq(Frames)
          /\ Len(SubSeq(frames, 1, Len(below))) = IF 1 <= Len(below) THEN Len(below) - 1 + 1 ELSE 0
          /\ \A i \in 1 .. Len(below) - 1 + 1 : SubSeq(frames, 1, Len(below))[i] = frames[1 + i - 1]
      BY <1>1, <2>2, SubSeqProperties
    <3> QED
      BY <1>1, <3>1
  <2> QED
    BY <1>1, <2>1, <2>3, SeqEqual
<1>3. ASSUME NEW f \in Frames PROVE [frames EXCEPT ![Len(frames)] = f] = Append(below, f)
  <2>1. /\ Append(below, f) \in Seq(Frames) /\ Len(Append(below, f)) = Len(below) + 1
        /\ \A i \in 1 .. Len(below) : Append(below, f)[i] = below[i]
        /\ Append(below, f)[Len(below) + 1] = f
    BY AppendProperties
  <2>2. PICK n \in 1 .. Len(frames) : n = Len(frames)
    BY <1>1
  <2>3. PICK changed : changed = [frames EXCEPT ![n] = f]
    OBVIOUS
  <2>4. /\ changed \in Seq(Frames)
        /\ Len(changed) = Len(frames)
        /\ \A j \in 1 .. Len(frames) : changed[j] = IF j = n THEN f ELSE frames[j]
    BY ONLY <1>1, <2>2, <2>3, ExceptSeq, f \in Frames
  <2>5. \A j \in 1 .. Len(changed) : changed[j] = Append(below, f)[j]
    BY <1>1, <2>1, <2>2, <2>4
  <2>6. changed = Append(below, f)
    BY <1>1, <2>1, <2>4, <2>5, SeqEqual
  <2> QED
    BY <2>2, <2>3, <2>6
<1> QED
  BY <1>1, <1>2, <1>3

\* A stack whose last frame waits is suspended on what that frame waits for.
LEMMA SuspendTop ==
    ASSUME NEW below \in Seq(Frames), NEW top \in Frames, NEW frames, frames = Append(below, top),
           Suspended(below, top.id), FrameOK(top), Waits(top)
    PROVE  Suspended(frames, Wants(top))
<1>1. /\ frames \in Seq(Frames) /\ Len(frames) = Len(below) + 1 /\ Len(below) \in Nat
      /\ \A i \in 1 .. Len(below) : frames[i] = below[i]
      /\ frames[Len(below) + 1] = top
  BY AppendProperties, LenProperties
<1>2. SUFFICES ASSUME NEW k \in 1 .. Len(frames)
               PROVE  /\ FrameOK(frames[k])
                      /\ Waits(frames[k])
                      /\ Wants(frames[k]) = IF k = Len(frames) THEN Wants(top) ELSE frames[k + 1].id
  BY <1>1 DEF Suspended
<1>3. CASE k = Len(frames)
  BY <1>1, <1>3
<1>4. CASE k \in 1 .. Len(below)
  <2>1. /\ FrameOK(below[k])
        /\ Waits(below[k])
        /\ Wants(below[k]) = IF k = Len(below) THEN top.id ELSE below[k + 1].id
    BY <1>4 DEF Suspended
  <2>2. k # Len(frames) /\ frames[k] = below[k]
    BY <1>1, <1>4
  <2>3. frames[k + 1].id = IF k = Len(below) THEN top.id ELSE below[k + 1].id
    <3>1. k # Len(below) => k + 1 \in 1 .. Len(below)
      BY <1>1, <1>4
    <3> QED
      BY <1>1, <3>1
  <2> QED
    BY <2>1, <2>2, <2>3
<1> QED
  BY <1>1, <1>3, <1>4

\* A suspended stack that is not empty: after the step, its last frame waits for the identity.
LEMMA SuspendedTop ==
    ASSUME NEW below \in Seq(Frames), NEW top \in Frames, NEW frames, frames = Append(below, top),
           NEW id, Suspended(frames, id)'
    PROVE  (Suspended(below, top.id) /\ FrameOK(top) /\ Waits(top) /\ Wants(top) = id)'
<1>1. /\ frames \in Seq(Frames) /\ Len(frames) = Len(below) + 1 /\ Len(below) \in Nat
      /\ \A i \in 1 .. Len(below) : frames[i] = below[i]
      /\ frames[Len(below) + 1] = top
  BY AppendProperties, LenProperties
<1>2. (FrameOK(top) /\ Waits(top) /\ Wants(top) = id)'
  BY <1>1 DEF Suspended
<1>3. ASSUME NEW k \in 1 .. Len(below)
      PROVE  /\ FrameOK(below[k])'
             /\ Waits(below[k])'
             /\ Wants(below[k])' = IF k = Len(below) THEN top.id ELSE below[k + 1].id
  <2>1. k \in 1 .. Len(frames) /\ k # Len(frames) /\ frames[k] = below[k]
    BY <1>1
  <2>2. (FrameOK(frames[k]) /\ Waits(frames[k]) /\ Wants(frames[k]) = frames[k + 1].id)'
    BY <2>1 DEF Suspended
  <2>3. frames[k + 1].id = IF k = Len(below) THEN top.id ELSE below[k + 1].id
    <3>1. k # Len(below) => k + 1 \in 1 .. Len(below)
      BY <1>1
    <3> QED
      BY <1>1, <3>1
  <2> QED
    BY <2>1, <2>2, <2>3
<1> QED
  BY <1>2, <1>3 DEF Suspended

-----------------------------------------------------------------------------
(* What the steps of one query do to the entries.                          *)

\* Entries that are verified stay so, and no entry is lost or loses a dependency before that.
Forward ==
    /\ program' = program
    /\ revision' = revision
    /\ \A id \in Ids : entries[id] # None =>
          /\ entries'[id] # None
          /\ Current(id) => Current(id)'
          /\ entries'[id].deps = entries[id].deps \/ Current(id)'

\* A frame of the stack stays consistent when entries are only confirmed or added.
LEMMA FrameForward ==
    ASSUME DataTyped, Forward, NEW f \in Frames, FrameOK(f)
    PROVE  FrameOK(f)'
<1>1. f.id \in Ids /\ f.deps \in Seq(Dependencies)
  BY Distinct DEF Frames
<1>2. \A id \in Ids : Current(id) => Current(id)'
  BY DEF Forward, Current
<1>3. CASE f.op = "ensure"
  <2>1. EnsureFrameOK(f) /\ entries'[f.id] # None
    BY <1>1, <1>3 DEF FrameOK, EnsureFrameOK, Forward
  <2>2. CASE Current(f.id) \/ Current(f.id)'
    <3>1. Current(f.id)'
      BY <1>1, <1>2, <2>2
    <3> QED
      BY <1>3, <2>1, <3>1 DEF FrameOK, EnsureFrameOK
  <2>3. CASE ~Current(f.id) /\ ~Current(f.id)'
    <3>1. entries[f.id] # None /\ entries'[f.id].deps = entries[f.id].deps
      BY <1>1, <2>1, <2>3 DEF Forward, EnsureFrameOK
    <3>2. entries[f.id].deps \in Seq(Dependencies)
      BY <1>1, <3>1 DEF DataTyped, EntryRecords
    <3>3. ASSUME NEW i \in 1 .. Len(entries[f.id].deps)
          PROVE  \/ Current(entries[f.id].deps[i].id)'
                 \/ \E j \in 1 .. Len(f.todo) : f.todo[j].id = entries[f.id].deps[i].id
      <4>1. PICK d \in Dependencies : d = entries[f.id].deps[i]
        BY <3>2, ElementOfSeq
      <4>2. d.id \in Ids
        BY <4>1 DEF Dependencies
      <4>3. \/ Current(d.id)
            \/ \E j \in 1 .. Len(f.todo) : f.todo[j].id = d.id
        BY <2>1, <2>3, <4>1 DEF EnsureFrameOK
      <4>4. \/ Current(d.id)'
            \/ \E j \in 1 .. Len(f.todo) : f.todo[j].id = d.id
        BY <1>2, <4>2, <4>3
      <4>5. entries'[f.id].deps[i] = d
        BY <3>1, <4>1
      <4> QED
        BY <4>1, <4>4, <4>5
    <3> QED
      BY <1>3, <2>1, <3>1, <3>3 DEF FrameOK, EnsureFrameOK, Current
  <2> QED
    BY <2>2, <2>3
<1>4. CASE f.op # "ensure"
  <2>1. \A i \in 1 .. Len(f.deps) : Current(f.deps[i].id)
    BY <1>4 DEF FrameOK, EvaluateFrameOK
  <2>2. \A i \in 1 .. Len(f.deps) : f.deps[i].id \in Ids
    <3>1. \A i \in 1 .. Len(f.deps) : f.deps[i] \in Dependencies
      BY <1>1, ElementOfSeq
    <3> QED
      BY <3>1 DEF Dependencies
  <2>3. \A i \in 1 .. Len(f.deps) : Current(f.deps[i].id)'
    BY <1>2, <2>1, <2>2
  <2> QED
    BY <1>4, <2>3 DEF FrameOK, EvaluateFrameOK
<1> QED
  BY <1>3, <1>4

\* So do the frames below the running one.
LEMMA SuspendedForward ==
    ASSUME DataTyped, Forward, NEW frames, NEW id, Suspended(frames, id)
    PROVE  Suspended(frames, id)'
<1>1. frames \in Seq(Frames) /\ \A k \in 1 .. Len(frames) : frames[k] \in Frames
  BY ElementOfSeq DEF Suspended
<1>2. ASSUME NEW k \in 1 .. Len(frames) PROVE FrameOK(frames[k])'
  <2>1. PICK f \in Frames : f = frames[k]
    BY <1>1
  <2>2. FrameOK(f)
    BY <2>1 DEF Suspended
  <2>3. FrameOK(f)'
    BY <2>2, FrameForward
  <2> QED
    BY <2>1, <2>3
<1>3. \A f : (Waits(f)' <=> Waits(f)) /\ Wants(f)' = Wants(f)
  BY DEF Forward, Waits, Wants, NextRead
<1>4. \A k \in 1 .. Len(frames) :
          /\ Waits(frames[k])
          /\ Wants(frames[k]) = IF k = Len(frames) THEN id ELSE frames[k + 1].id
  BY DEF Suspended
<1> QED
  BY <1>1, <1>2, <1>3, <1>4 DEF Suspended

-----------------------------------------------------------------------------
(* What happens to the stack.                                              *)

\* A result, verified if it is a value, arrives at the frame that waits for it.
LEMMA Returns ==
    ASSUME DataTyped', NEW id, NEW below, NEW result \in Values \cup Errors,
           Suspended(below, id)', Return(result, below), result \in Values => Current(id)'
    PROVE  StackInv'
<1>1. stack' = below /\ reply' = result /\ below \in Seq(Frames)
  BY DEF Return, Suspended
<1>2. CASE below = <<>>
  BY <1>1, <1>2 DEF StackInv
<1>3. CASE below # <<>>
  <2>1. PICK b \in Seq(Frames), t \in Frames : below = Append(b, t)
    BY <1>1, <1>3, SequenceEmptyOrAppend
  <2>2. (Suspended(b, t.id) /\ FrameOK(t) /\ Waits(t) /\ Wants(t) = id)'
    BY <2>1, SuspendedTop
  <2> QED
    BY <1>1, <2>1, <2>2 DEF StackInv
<1> QED
  BY <1>2, <1>3

\* A new frame for the identity that the last frame waits for.
LEMMA Pushes ==
    ASSUME NEW below, NEW frame \in Frames,
           Suspended(below, frame.id)', FrameOK(frame)', Push(frame, below)
    PROVE  StackInv'
<1>1. stack' = Append(below, frame) /\ reply' = None /\ below \in Seq(Frames)
  BY DEF Push, Suspended
<1>2. stack' \in Seq(Frames)
  BY <1>1, AppendProperties
<1> QED
  BY <1>1, <1>2, Distinct DEF StackInv

-----------------------------------------------------------------------------
(* What happens to the entries.                                            *)

Retained(d, v) == entries[d] # None /\ (d \in Persistent \/ entries[d].verified >= v)

\* The dependencies of a retained query, taken one by one.
LEMMA ClosureOf ==
    ASSUME ClosureRetained, NEW q \in Queries, entries[q] # None, NEW i \in 1 .. Len(entries[q].deps)
    PROVE  Retained(entries[q].deps[i].id, entries[q].verified)
<1> QED
  BY DEF ClosureRetained, Retained

\* An entry is put in place, verified in this revision as are its dependencies.
LEMMA Renewed ==
    ASSUME DataTyped, ClosureRetained, NEW id \in Ids, NEW e \in EntryRecords,
           e.verified = revision,
           id \in Queries => \A i \in 1 .. Len(e.deps) : Retained(e.deps[i].id, revision),
           entries' = [entries EXCEPT ![id] = e], program' = program, revision' = revision
    PROVE  DataTyped' /\ ClosureRetained' /\ Forward /\ Current(id)'
<1>1. /\ entries \in [Ids -> EntryRecords \cup {None}] /\ revision \in Nat
      /\ \A x \in Ids : entries[x] # None => entries[x].verified <= revision
  BY DEF DataTyped
<1>2. entries' \in [Ids -> EntryRecords \cup {None}]
  BY <1>1
<1>3. entries'[id] = e /\ entries'[id] # None /\ \A x \in Ids : x # id => entries'[x] = entries[x]
  BY <1>1, Distinct
<1>4. e.verified \in Nat
  BY DEF EntryRecords
<1>5. DataTyped'
  BY <1>1, <1>2, <1>3, <1>4 DEF DataTyped
<1>6. Current(id)'
  BY <1>3 DEF Current
<1>7. \A x \in Ids : entries[x] # None =>
          /\ entries'[x] # None
          /\ Current(x) => Current(x)'
          /\ entries'[x].deps = entries[x].deps \/ Current(x)'
  BY <1>3, <1>6 DEF Current
<1>8. Forward
  BY <1>7 DEF Forward
<1>9. ASSUME NEW d \in Ids, NEW v \in 0 .. revision, Retained(d, v)
      PROVE  Retained(d, v)'
  <2>1. CASE d = id
    BY <1>1, <1>3, <1>9, <2>1 DEF Retained
  <2>2. CASE d # id
    BY <1>3, <1>9, <2>2 DEF Retained
  <2> QED
    BY <2>1, <2>2
<1>10. ASSUME NEW q \in Queries, entries'[q] # None, NEW i \in 1 .. Len(entries'[q].deps)
       PROVE  /\ entries'[entries'[q].deps[i].id] # None
              /\ \/ entries'[q].deps[i].id \in Persistent
                 \/ entries'[entries'[q].deps[i].id].verified >= entries'[q].verified
  <2>1. PICK r \in EntryRecords : r = entries'[q]
    BY <1>2, <1>10, Distinct
  <2>2. PICK d \in Dependencies : d = r.deps[i]
    <3>1. r.deps \in Seq(Dependencies)
      BY DEF EntryRecords
    <3> QED
      BY <1>10, <2>1, <3>1, ElementOfSeq
  <2>3. d.id \in Ids /\ q \in Ids
    BY Distinct DEF Dependencies
  <2>4. r.verified \in 0 .. revision /\ Retained(d.id, r.verified)
    <3>1. CASE q = id
      BY <1>1, <1>3, <1>10, <2>1, <2>2, <3>1
    <3>2. CASE q # id
      <4>1. entries[q] = r /\ r # None /\ r.verified \in Nat
        BY <1>3, <1>10, <2>1, <2>3, <3>2 DEF EntryRecords
      <4>2. Retained(entries[q].deps[i].id, entries[q].verified)
        BY <1>10, <2>1, <4>1, ClosureOf
      <4> QED
        BY <1>1, <2>2, <2>3, <4>1, <4>2
    <3> QED
      BY <3>1, <3>2
  <2>5. Retained(d.id, r.verified)'
    BY <1>9, <2>3, <2>4
  <2> QED
    BY <2>1, <2>2, <2>5 DEF Retained
<1>11. ClosureRetained'
  BY <1>10 DEF ClosureRetained
<1> QED
  BY <1>5, <1>6, <1>8, <1>11

\* An entry is verified in this revision (Touched), its dependencies being so.
LEMMA TouchedEntry ==
    ASSUME DataTyped, ClosureRetained, NEW id \in Ids, entries[id] # None,
           \/ id \notin Queries
           \/ entries[id].verified = revision
           \/ \A i \in 1 .. Len(entries[id].deps) : Current(entries[id].deps[i].id),
           entries' = Touched(id), program' = program, revision' = revision
    PROVE  DataTyped' /\ ClosureRetained' /\ Forward /\ Current(id)' /\ entries[id].value \in Values
<1>1. PICK r \in EntryRecords : r = entries[id]
  BY DEF DataTyped
<1>2. PICK e : e = [r EXCEPT !.verified = revision]
  OBVIOUS
<1>3. r.value \in Values /\ r.verified \in Nat /\ r.deps \in Seq(Dependencies)
  BY DEF EntryRecords
<1>4. e \in EntryRecords /\ e.verified = revision /\ e.deps = r.deps
  BY <1>2, <1>3 DEF EntryRecords, DataTyped
<1>5. entries' = [entries EXCEPT ![id] = e]
  BY <1>1, <1>2 DEF Touched, DataTyped
<1>6. ASSUME id \in Queries, NEW i \in 1 .. Len(e.deps)
      PROVE  Retained(e.deps[i].id, revision)
  <2>1. CASE entries[id].verified = revision
    BY <1>1, <1>4, <1>6, <2>1, ClosureOf
  <2>2. CASE Current(entries[id].deps[i].id)
    <3>1. Current(e.deps[i].id)
      BY <1>1, <1>4, <2>2
    <3>2. revision \in Nat
      BY DEF DataTyped
    <3> QED
      BY <3>1, <3>2 DEF Current, Retained
  <2> QED
    BY <1>1, <1>4, <1>6, <2>1, <2>2
<1> QED
  BY <1>1, <1>3, <1>4, <1>5, <1>6, Renewed

-----------------------------------------------------------------------------
(* The calls.                                                              *)

\* The step preserves the invariant and goes forward.
LEMMA EnsureStep ==
    ASSUME DataTyped, ClosureRetained, NEW id \in Ids, NEW below, Suspended(below, id),
           Ensure(id, below), program' = program, revision' = revision
    PROVE  DatabaseInv'
<1>1. CASE entries[id] = None
  <2>1. Return("missing", below) /\ entries' = entries
    BY <1>1 DEF Ensure
  <2>2. DataTyped' /\ ClosureRetained'
    BY <2>1 DEF DataTyped, ClosureRetained
  <2>3. Forward
    BY <2>1 DEF Forward, Current
  <2>4. StackInv'
    BY <2>1, <2>2, <2>3, SuspendedForward, Returns, Distinct
  <2> QED
    BY <2>2, <2>4 DEF DatabaseInv
<1>2. CASE entries[id] # None /\ (entries[id].verified = revision \/ id \in Inputs)
  <2>1. Return(entries[id].value, below) /\ entries' = Touched(id)
    <3>1. id \in Queries => id \notin Inputs
      BY Distinct
    <3> QED
      BY <1>2, <3>1 DEF Ensure
  <2>2. id \notin Queries \/ entries[id].verified = revision
    BY <1>2, Distinct
  <2>3. DataTyped' /\ ClosureRetained' /\ Forward /\ Current(id)' /\ entries[id].value \in Values
    BY <1>2, <2>1, <2>2, TouchedEntry
  <2>4. PICK v : v = entries[id].value
    OBVIOUS
  <2>5. StackInv'
    BY <2>1, <2>3, <2>4, SuspendedForward, Returns
  <2> QED
    BY <2>3, <2>5 DEF DatabaseInv
<1>3. CASE entries[id] # None /\ entries[id].verified # revision /\ id \in Queries
  <2>1. Push(EnsureFrame(id), below) /\ entries' = entries
    <3>1. id \notin Inputs
      BY <1>3, Distinct
    <3> QED
      BY <1>3, <3>1 DEF Ensure
  <2>2. DataTyped' /\ ClosureRetained'
    BY <2>1 DEF DataTyped, ClosureRetained
  <2>3. Forward
    BY <2>1 DEF Forward, Current
  <2>4. PICK f : f = EnsureFrame(id)
    OBVIOUS
  <2>5. entries[id].deps \in Seq(Dependencies)
    BY <1>3 DEF DataTyped, EntryRecords
  <2>6. f \in Frames /\ f.op = "ensure" /\ f.id = id /\ f.todo = entries[id].deps
    <3>1. <<>> \in Seq(Dependencies) /\ <<>> \in Seq(Values)
      BY EmptySeq
    <3> QED
      BY <1>3, <2>4, <2>5, <3>1 DEF EnsureFrame, Frames
  <2>7. FrameOK(f)
    BY <1>3, <2>6 DEF FrameOK, EnsureFrameOK
  <2>8. StackInv'
    BY <2>1, <2>3, <2>4, <2>6, <2>7, SuspendedForward, FrameForward, Pushes
  <2> QED
    BY <2>2, <2>8 DEF DatabaseInv
<1> QED
  BY <1>1, <1>2, <1>3, Distinct DEF Ensure, Ids

\* Beginning an evaluation, or reporting a cycle, keeps the invariant.
LEMMA EvaluateStep ==
    ASSUME DataTyped, ClosureRetained, NEW id \in Queries, NEW below, Suspended(below, id),
           Evaluate(id, below), program' = program, revision' = revision
    PROVE  DatabaseInv'
<1>1. entries' = entries
  BY DEF Evaluate
<1>2. DataTyped' /\ ClosureRetained'
  BY <1>1 DEF DataTyped, ClosureRetained
<1>3. Forward
  BY <1>1 DEF Forward, Current
<1>4. CASE Return("cycle", below)
  BY <1>2, <1>3, <1>4, SuspendedForward, Returns, Distinct DEF DatabaseInv
<1>5. CASE Push(EvaluateFrame(id), below)
  <2>1. PICK f : f = EvaluateFrame(id)
    OBVIOUS
  <2>2. f \in Frames /\ f.id = id /\ f.op = "evaluate" /\ f.deps = <<>>
    <3>1. <<>> \in Seq(Dependencies) /\ <<>> \in Seq(Values)
      BY EmptySeq
    <3> QED
      BY <2>1, <3>1 DEF EvaluateFrame, Frames
  <2>3. FrameOK(f)
    BY <2>2 DEF FrameOK, EvaluateFrameOK
  <2>4. StackInv'
    BY <1>3, <1>5, <2>1, <2>2, <2>3, SuspendedForward, FrameForward, Pushes
  <2> QED
    BY <1>2, <2>4 DEF DatabaseInv
<1> QED
  BY <1>4, <1>5 DEF Evaluate

\* So does asking for an input or a query: the entry asked for is retained in this revision.
LEMMA CallStep ==
    ASSUME DataTyped, ClosureRetained, NEW id \in Ids, NEW below, Suspended(below, id),
           Call(id, below), program' = program, revision' = revision
    PROVE  DatabaseInv'
<1> QED
  BY EnsureStep, EvaluateStep DEF Call

-----------------------------------------------------------------------------
(* The steps of the frame on top of the stack.                             *)

\* The stack is `below' and `top', and the step leaves the rest of the state alone.
Framed(below, top) ==
    /\ DataTyped /\ ClosureRetained
    /\ below \in Seq(Frames) /\ top \in Frames
    /\ stack = Append(below, top) /\ stack # <<>>
    /\ Top = top /\ Front(stack) = below
    /\ Suspended(below, top.id)
    /\ FrameOK(top)
    /\ reply # None => Waits(top)
    /\ reply \in Values => Current(Wants(top))
    /\ program' = program /\ revision' = revision

\* The frame on top is replaced by one that has taken the result into account.
LEMMA Resumes ==
    ASSUME NEW below, NEW top, Framed(below, top), NEW f \in Frames, f.id = top.id, FrameOK(f),
           stack' = [stack EXCEPT ![Len(stack)] = f], reply' = None, entries' = entries
    PROVE  DatabaseInv'
<1>1. DataTyped /\ ClosureRetained /\ below \in Seq(Frames) /\ top \in Frames /\ stack = Append(below, top)
  BY DEF Framed
<1>2. DataTyped' /\ ClosureRetained'
  BY <1>1 DEF Framed, DataTyped, ClosureRetained
<1>3. Forward
  BY DEF Framed, Forward, Current
<1>4. PICK s : s = stack
  OBVIOUS
<1>5. [s EXCEPT ![Len(s)] = f] = Append(below, f)
  BY <1>1, <1>4, TopOfStack
<1>6. Push(f, below)
  BY <1>4, <1>5 DEF Push
<1>7. Suspended(below, f.id)' /\ FrameOK(f)'
  BY <1>1, <1>3, SuspendedForward, FrameForward DEF Framed
<1>8. StackInv'
  BY <1>6, <1>7, Pushes
<1> QED
  BY <1>2, <1>8 DEF DatabaseInv

\* Verification of the next recorded dependency.
LEMMA VerifyStep ==
    ASSUME NEW below, NEW top, Framed(below, top), Verify
    PROVE  DatabaseInv'
<1>1. top \in Frames /\ top.op = "ensure" /\ top.todo # <<>> /\ Ensure(Head(top.todo).id, stack)
  BY DEF Framed, Verify, At
<1>2. Waits(top) /\ Wants(top) = Head(top.todo).id
  BY <1>1 DEF Waits, Wants
<1>3. PICK id \in Ids : id = Wants(top)
  BY <1>1, <1>2, WantsTyped DEF Framed
<1>4. PICK s : s = stack
  OBVIOUS
<1>5. Suspended(s, id)
  BY <1>2, <1>3, <1>4, SuspendTop DEF Framed
<1> QED
  BY <1>1, <1>2, <1>3, <1>4, <1>5, EnsureStep DEF Framed

\* A dependency with its old fingerprint: verification goes on.
LEMMA UnchangedStep ==
    ASSUME NEW below, NEW top, Framed(below, top), Unchanged
    PROVE  DatabaseInv'
<1>1. /\ top \in Frames /\ top.op = "ensure" /\ reply \in Values
      /\ stack' = [stack EXCEPT ![Len(stack)].todo = Tail(@)]
      /\ reply' = None /\ entries' = entries
  BY DEF Framed, Unchanged, At
<1>2. Waits(top) /\ Current(Wants(top))
  BY <1>1, Distinct DEF Framed
<1>3. top.todo \in Seq(Dependencies) /\ top.todo # <<>> /\ Current(Head(top.todo).id)
  BY <1>1, <1>2 DEF Waits, Wants, Frames
<1>4. PICK t : t = Tail(top.todo)
  OBVIOUS
<1>5. /\ t \in Seq(Dependencies) /\ Len(t) = Len(top.todo) - 1 /\ Len(t) \in Nat
      /\ \A i \in 1 .. Len(t) : t[i] = top.todo[i + 1]
      /\ Head(top.todo) = top.todo[1]
  <2>1. t \in Seq(Dependencies) /\ Len(t) = Len(top.todo) - 1 /\ \A i \in 1 .. Len(t) : t[i] = top.todo[i + 1]
    BY <1>3, <1>4, HeadTailProperties
  <2> QED
    BY <1>3, <2>1, LenProperties
<1>6. PICK f : f = [top EXCEPT !.todo = t]
  OBVIOUS
<1>7. f \in Frames /\ f.id = top.id /\ f.op = "ensure" /\ f.todo = t
  BY <1>1, <1>5, <1>6 DEF Frames
<1>8. FrameOK(f)
  <2>1. EnsureFrameOK(top)
    BY <1>1 DEF Framed, FrameOK
  <2>2. CASE Current(top.id)
    BY <1>7, <2>1, <2>2 DEF FrameOK, EnsureFrameOK
  <2>3. CASE ~Current(top.id)
    <3>1. ASSUME NEW i \in 1 .. Len(entries[top.id].deps), NEW j \in 1 .. Len(top.todo),
                 top.todo[j].id = entries[top.id].deps[i].id
          PROVE  \/ Current(entries[top.id].deps[i].id)
                 \/ \E k \in 1 .. Len(t) : t[k].id = entries[top.id].deps[i].id
      <4>1. CASE j = 1
        <5>1. Head(top.todo).id = entries[top.id].deps[i].id
          BY <1>5, <3>1, <4>1
        <5> QED
          BY <1>3, <5>1
      <4>2. CASE j # 1
        <5>1. j - 1 \in 1 .. Len(t) /\ t[j - 1] = top.todo[j]
          BY <1>5, <4>2
        <5> QED
          BY <3>1, <5>1
      <4> QED
        BY <4>1, <4>2
    <3>2. \A i \in 1 .. Len(entries[top.id].deps) :
              \/ Current(entries[top.id].deps[i].id)
              \/ \E j \in 1 .. Len(top.todo) : top.todo[j].id = entries[top.id].deps[i].id
      BY <2>1, <2>3 DEF EnsureFrameOK
    <3>3. \A i \in 1 .. Len(entries[top.id].deps) :
              \/ Current(entries[top.id].deps[i].id)
              \/ \E k \in 1 .. Len(t) : t[k].id = entries[top.id].deps[i].id
      BY <3>1, <3>2
    <3> QED
      BY <1>7, <2>1, <3>3 DEF FrameOK, EnsureFrameOK
  <2> QED
    BY <2>2, <2>3
<1>9. PICK s : s = stack
  OBVIOUS
<1>10. [s EXCEPT ![Len(s)].todo = Tail(@)] = [s EXCEPT ![Len(s)] = f]
  BY <1>4, <1>6, <1>9 DEF Framed, Top
<1> QED
  BY <1>1, <1>7, <1>8, <1>9, <1>10, Resumes

\* A dependency that changed or failed: the query is evaluated again.
LEMMA ChangedStep ==
    ASSUME NEW below, NEW top, Framed(below, top), Changed
    PROVE  DatabaseInv'
<1>1. PICK id : id = top.id
  OBVIOUS
<1>2. id \in Queries /\ Evaluate(id, below)
  BY <1>1 DEF Framed, Changed, Frames
<1> QED
  BY <1>1, <1>2, EvaluateStep DEF Framed

\* All dependencies are unchanged, hence retained in this revision: the query may be.
LEMMA ConfirmStep ==
    ASSUME NEW below, NEW top, Framed(below, top), Confirm
    PROVE  DatabaseInv'
<1>1. PICK id : id = top.id
  OBVIOUS
<1>2. /\ top.op = "ensure" /\ top.todo = <<>> /\ top \in Frames
      /\ entries' = Touched(id)
      /\ Return(entries[id].value, below)
  BY <1>1 DEF Framed, Confirm, At
<1>3. id \in Queries /\ id \in Ids
  BY <1>1, <1>2, Distinct DEF Frames
<1>4. /\ entries[id] # None
      /\ Current(id) \/ \A i \in 1 .. Len(entries[id].deps) : Current(entries[id].deps[i].id)
  <2>1. Len(top.todo) = 0
    BY <1>2
  <2>2. EnsureFrameOK(top)
    BY <1>2 DEF Framed, FrameOK
  <2> QED
    BY <1>1, <2>1, <2>2 DEF EnsureFrameOK
<1>5. entries[id].verified = revision \/ \A i \in 1 .. Len(entries[id].deps) : Current(entries[id].deps[i].id)
  BY <1>4 DEF Current
<1>6. DataTyped' /\ ClosureRetained' /\ Forward /\ Current(id)' /\ entries[id].value \in Values
  BY <1>2, <1>3, <1>4, <1>5, TouchedEntry DEF Framed
<1>7. PICK v : v = entries[id].value
  OBVIOUS
<1>8. StackInv'
  BY <1>1, <1>2, <1>6, <1>7, SuspendedForward, Returns DEF Framed
<1> QED
  BY <1>6, <1>8 DEF DatabaseInv

\* An evaluation reads its next dependency.
LEMMA ReadStep ==
    ASSUME NEW below, NEW top, Framed(below, top), Read
    PROVE  DatabaseInv'
<1>1. top \in Frames /\ top.op = "evaluate"
  BY DEF Framed, Read, At
<1>2. PICK id : id = NextRead(top.id, top.seen)
  OBVIOUS
<1>3. PICK s : s = stack
  OBVIOUS
<1>4. id # None /\ Call(id, s)
  BY <1>2, <1>3 DEF Framed, Read
<1>5. id \in Ids /\ Waits(top) /\ Wants(top) = id
  BY <1>1, <1>2, <1>4, NextReadTyped DEF Framed, Waits, Wants
<1>6. Suspended(s, id)
  BY <1>3, <1>5, SuspendTop DEF Framed
<1> QED
  BY <1>4, <1>5, <1>6, CallStep DEF Framed

\* An evaluation records a dependency that was retained in this revision.
LEMMA AbsorbStep ==
    ASSUME NEW below, NEW top, Framed(below, top), Absorb
    PROVE  DatabaseInv'
<1>1. top \in Frames /\ top.op = "evaluate" /\ reply \in Values /\ reply' = None /\ entries' = entries
  BY DEF Framed, Absorb, At
<1>2. PICK v \in Values : v = reply
  BY <1>1
<1>3. PICK id : id = NextRead(top.id, top.seen)
  OBVIOUS
<1>4. id \in Ids /\ Current(id)
  <2>1. Waits(top) /\ Current(Wants(top))
    BY <1>1, Distinct DEF Framed
  <2> QED
    BY <1>1, <1>3, <2>1, WantsTyped DEF Framed, Wants
<1>5. PICK deps : deps = Recorded(top.deps, id, v)
  OBVIOUS
<1>6. top.deps \in Seq(Dependencies) /\ top.seen \in Seq(Values)
  BY <1>1 DEF Frames
<1>7. \A i \in 1 .. Len(top.deps) : Current(top.deps[i].id)
  BY <1>1 DEF Framed, FrameOK, EvaluateFrameOK
<1>8. deps \in Seq(Dependencies) /\ \A i \in 1 .. Len(deps) : Current(deps[i].id)
  <2>1. CASE deps = top.deps
    BY <1>6, <1>7, <2>1
  <2>2. CASE deps = Append(top.deps, [id |-> id, value |-> v])
    <3>1. PICK d \in Dependencies : d = [id |-> id, value |-> v]
      BY <1>4 DEF Dependencies
    <3>2. /\ deps \in Seq(Dependencies) /\ Len(deps) = Len(top.deps) + 1 /\ Len(top.deps) \in Nat
          /\ \A i \in 1 .. Len(top.deps) : deps[i] = top.deps[i]
          /\ deps[Len(top.deps) + 1] = d
      BY <1>6, <2>2, <3>1, AppendProperties, LenProperties
    <3>3. d.id = id
      BY <3>1
    <3>4. ASSUME NEW i \in 1 .. Len(deps) PROVE Current(deps[i].id)
      <4>1. i \in 1 .. Len(top.deps) \/ i = Len(top.deps) + 1
        BY <3>2
      <4> QED
        BY <1>4, <1>7, <3>2, <3>3, <4>1
    <3> QED
      BY <3>2, <3>4
  <2> QED
    BY <1>5, <2>1, <2>2 DEF Recorded
<1>9. PICK f : f = [top EXCEPT !.deps = deps, !.seen = Append(@, v)]
  OBVIOUS
<1>10. f \in Frames /\ f.id = top.id /\ f.op = "evaluate" /\ f.deps = deps
  <2>1. Append(top.seen, v) \in Seq(Values)
    BY <1>6, AppendProperties
  <2> QED
    BY <1>1, <1>8, <1>9, <2>1 DEF Frames
<1>11. FrameOK(f)
  BY <1>8, <1>10 DEF FrameOK, EvaluateFrameOK
<1>12. stack' = [stack EXCEPT ![Len(stack)] = f]
  <2>1. PICK t : t = Top
    OBVIOUS
  <2>2. t = top
    BY <2>1 DEF Framed
  <2>3. f = [t EXCEPT !.deps = Recorded(t.deps, NextRead(t.id, t.seen), v), !.seen = Append(t.seen, v)]
    BY <1>3, <1>5, <1>9, <2>2
  <2> QED
    BY <1>2, <2>1, <2>3 DEF Absorb
<1> QED
  BY <1>1, <1>10, <1>11, <1>12, Resumes

\* A finished evaluation stores dependencies that are all retained in this revision.
LEMMA FinishStep ==
    ASSUME NEW below, NEW top, Framed(below, top), Finish
    PROVE  DatabaseInv'
<1>1. top \in Frames /\ top.op = "evaluate" /\ NextRead(top.id, top.seen) = None
  BY DEF Framed, Finish, At
<1>2. PICK id \in Queries : id = top.id
  BY <1>1 DEF Frames
<1>3. PICK result \in Values \cup {"fails"} : result = program[id].out[Last(top.seen)]
  BY <1>1, <1>2, NextReadTyped, ProviderTyped DEF Framed
<1>4. /\ Return(result, below)
      /\ entries' = IF result \in Errors THEN entries ELSE [entries EXCEPT ![id] = Entry(result, top.deps)]
  BY <1>2, <1>3 DEF Framed, Finish
<1>5. CASE result \in Errors
  <2>1. DataTyped' /\ ClosureRetained'
    BY <1>4, <1>5 DEF Framed, DataTyped, ClosureRetained
  <2>2. Forward
    BY <1>4, <1>5 DEF Framed, Forward, Current
  <2>3. StackInv'
    BY <1>2, <1>4, <1>5, <2>1, <2>2, SuspendedForward, Returns, Distinct DEF Framed
  <2> QED
    BY <2>1, <2>3 DEF DatabaseInv
<1>6. CASE result \notin Errors
  <2>1. result \in Values
    BY <1>6, Distinct
  <2>2. PICK e : e = Entry(result, top.deps)
    OBVIOUS
  <2>3. e \in EntryRecords /\ e.verified = revision /\ e.deps = top.deps
    BY <1>1, <2>1, <2>2 DEF Framed, DataTyped, Entry, EntryRecords, Frames
  <2>4. \A i \in 1 .. Len(e.deps) : Retained(e.deps[i].id, revision)
    <3>1. revision \in Nat
      BY DEF Framed, DataTyped
    <3>2. \A i \in 1 .. Len(top.deps) : Current(top.deps[i].id)
      BY <1>1 DEF Framed, FrameOK, EvaluateFrameOK
    <3> QED
      BY <2>3, <3>1, <3>2 DEF Current, Retained
  <2>5. id \in Ids
    BY Distinct
  <2>6. DataTyped' /\ ClosureRetained' /\ Forward /\ Current(id)'
    BY <1>4, <1>6, <2>2, <2>3, <2>4, <2>5, Renewed DEF Framed
  <2>7. StackInv'
    BY <1>2, <1>4, <2>1, <2>6, SuspendedForward, Returns DEF Framed
  <2> QED
    BY <2>6, <2>7 DEF DatabaseInv
<1> QED
  BY <1>5, <1>6

\* An evaluation that fails stores nothing.
LEMMA PropagateStep ==
    ASSUME NEW below, NEW top, Framed(below, top), Propagate
    PROVE  DatabaseInv'
<1>1. PICK result \in Errors : result = reply
  BY DEF Propagate
<1>2. Return(result, below) /\ entries' = entries
  BY <1>1 DEF Framed, Propagate
<1>3. DataTyped' /\ ClosureRetained'
  BY <1>2 DEF Framed, DataTyped, ClosureRetained
<1>4. Forward
  BY <1>2 DEF Framed, Forward, Current
<1>5. PICK id : id = top.id
  OBVIOUS
<1>6. StackInv'
  BY <1>2, <1>3, <1>4, <1>5, SuspendedForward, Returns, Distinct DEF Framed
<1> QED
  BY <1>3, <1>6 DEF DatabaseInv

-----------------------------------------------------------------------------
(* The invariant, and what it is for.                                      *)

\* An empty database satisfies the invariant.
LEMMA InitDatabase == Init => DatabaseInv
<1> SUFFICES ASSUME Init PROVE DatabaseInv
  OBVIOUS
<1>1. \A id \in Ids : entries[id] = None
  BY DEF Init
<1>2. DataTyped
  BY <1>1 DEF Init, DataTyped
<1>3. ClosureRetained
  BY <1>1, Distinct DEF ClosureRetained
<1>4. StackInv
  BY EmptySeq DEF Init, StackInv
<1> QED
  BY <1>2, <1>3, <1>4 DEF DatabaseInv

\* Every step of a query keeps it.
LEMMA StepDatabase ==
    ASSUME DatabaseInv, Step
    PROVE  DatabaseInv'
<1>1. stack # <<>> /\ program' = program /\ revision' = revision
  BY DEF Step, Verify, Unchanged, Changed, Confirm, Read, Absorb, Finish, Propagate, At
<1>2. PICK below \in Seq(Frames), top \in Frames :
          /\ stack = Append(below, top)
          /\ Suspended(below, top.id)
          /\ FrameOK(top)
          /\ reply # None => Waits(top)
          /\ reply \in Values => Current(Wants(top))
  BY <1>1 DEF DatabaseInv, StackInv
<1>3. PICK s : s = stack
  OBVIOUS
<1>4. s[Len(s)] = top /\ Front(s) = below
  BY <1>2, <1>3, TopOfStack
<1>5. Framed(below, top)
  BY <1>1, <1>2, <1>3, <1>4 DEF DatabaseInv, Framed, Top
<1> QED
  BY <1>5, VerifyStep, UnchangedStep, ChangedStep, ConfirmStep, ReadStep, AbsorbStep, FinishStep, PropagateStep DEF Step

\* The owner's calls all find or leave the stack empty, or put the first frame on it.
LEMMA AskDatabase ==
    ASSUME DatabaseInv, NEW id \in Ids, Ask(id)
    PROVE  DatabaseInv'
<1>1. PICK s : s = stack
  OBVIOUS
<1>2. s = <<>> /\ Call(id, s) /\ program' = program /\ revision' = revision
  BY <1>1 DEF Ask, Idle
<1>3. Suspended(s, id)
  BY <1>2, EmptySeq DEF Suspended
<1> QED
  BY <1>2, <1>3, CallStep DEF DatabaseInv

\* A new input revision keeps it: it runs between queries and only replaces inputs.
LEMMA AdvanceDatabase ==
    ASSUME DatabaseInv, NEW changes \in Changes, Advance(changes)
    PROVE  DatabaseInv'
<1>1. /\ DataTyped /\ ClosureRetained /\ StackInv
      /\ stack' = <<>> /\ reply' = reply /\ program' = program
      /\ revision \in Nat /\ revision' = revision + 1
  BY DEF DatabaseInv, Advance, Idle, DataTyped
<1>2. /\ entries \in [Ids -> EntryRecords \cup {None}]
      /\ \A id \in Ids : entries[id] # None => entries[id].verified <= revision
  BY <1>1 DEF DataTyped
<1>3. PICK S \in SUBSET Inputs : changes \in [S -> Values]
  BY DEF Changes
<1>4. ASSUME NEW id \in S PROVE entries'[id] \in EntryRecords /\ entries'[id].verified = revision + 1
  <2>1. id \in Ids /\ id \in DOMAIN changes
    BY <1>3 DEF Ids
  <2>2. entries'[id] = [value |-> changes[id], verified |-> revision + 1, deps |-> <<>>]
    BY <2>1 DEF Advance
  <2>3. PICK v \in Values : v = changes[id]
    BY <1>3
  <2>4. <<>> \in Seq(Dependencies)
    BY EmptySeq
  <2> QED
    BY <1>1, <2>2, <2>3, <2>4 DEF EntryRecords
<1>5. \A id \in Ids : id \notin S => entries'[id] = entries[id]
  BY <1>3 DEF Advance
<1>6. entries' \in [Ids -> EntryRecords \cup {None}]
  <2>1. \A id \in Ids : entries'[id] \in EntryRecords \cup {None}
    BY <1>2, <1>4, <1>5
  <2>2. \E F : entries' = [id \in Ids |-> F[id]]
    <3>1. entries' = [id \in Ids |-> entries'[id]]
      BY DEF Advance
    <3> QED
      BY <3>1
  <2> QED
    BY <2>1, <2>2
<1>7. \A id \in Ids : entries'[id] # None => entries'[id].verified <= revision'
  <2>1. \A id \in Ids : entries[id] # None => entries[id].verified \in Nat
    BY <1>2 DEF EntryRecords
  <2> QED
    BY <1>1, <1>2, <1>4, <1>5, <2>1
<1>8. DataTyped'
  BY <1>1, <1>6, <1>7 DEF DataTyped
<1>9. ASSUME NEW q \in Queries, entries'[q] # None, NEW i \in 1 .. Len(entries'[q].deps)
      PROVE  /\ entries'[entries'[q].deps[i].id] # None
             /\ \/ entries'[q].deps[i].id \in Persistent
                \/ entries'[entries'[q].deps[i].id].verified >= entries'[q].verified
  <2>1. entries'[q] = entries[q] /\ q \in Ids
    BY <1>3, <1>5, Distinct
  <2>2. PICK r \in EntryRecords : r = entries[q]
    BY <1>2, <1>9, <2>1
  <2>3. r.deps \in Seq(Dependencies) /\ r.verified \in Nat /\ r.verified <= revision
    BY <1>2, <1>9, <2>1, <2>2 DEF EntryRecords
  <2>4. PICK d \in Dependencies : d = r.deps[i]
    BY <1>9, <2>1, <2>2, <2>3, ElementOfSeq
  <2>5. d.id \in Ids
    BY DEF Dependencies
  <2>6. Retained(d.id, r.verified)
    BY <1>1, <1>9, <2>1, <2>2, <2>4, ClosureOf
  <2>7. entries'[d.id] # None /\ (d.id \in Persistent \/ entries'[d.id].verified >= r.verified)
    <3>1. CASE d.id \in S
      <4>1. entries'[d.id] \in EntryRecords /\ entries'[d.id].verified = revision + 1
        BY <1>4, <3>1
      <4> QED
        BY <1>1, <2>3, <4>1, Distinct
    <3>2. CASE d.id \notin S
      BY <1>5, <2>5, <2>6, <3>2 DEF Retained
    <3> QED
      BY <3>1, <3>2
  <2> QED
    BY <2>1, <2>2, <2>4, <2>7
<1>10. ClosureRetained'
  BY <1>9 DEF ClosureRetained
<1>11. StackInv'
  BY <1>1, EmptySeq DEF StackInv
<1> QED
  BY <1>8, <1>10, <1>11 DEF DatabaseInv

\* Collection keeps it: what a retained query depends on is retained for as long.
LEMMA CollectDatabase ==
    ASSUME DatabaseInv, NEW cutoff \in 0 .. revision, Collect(cutoff)
    PROVE  DatabaseInv'
<1>1. /\ DataTyped /\ ClosureRetained /\ StackInv
      /\ stack' = <<>> /\ reply' = reply /\ program' = program /\ revision' = revision
  BY DEF DatabaseInv, Collect, Idle
<1>2. /\ entries \in [Ids -> EntryRecords \cup {None}] /\ revision \in Nat
      /\ \A id \in Ids : entries[id] # None => entries[id].verified <= revision
  BY <1>1 DEF DataTyped
<1>3. /\ entries' \in [Ids -> EntryRecords \cup {None}]
      /\ \A id \in Ids : entries'[id] # None => entries'[id] = entries[id]
      /\ \A id \in Ids : entries[id] # None /\ (id \in Persistent \/ entries[id].verified >= cutoff) => entries'[id] = entries[id]
      /\ \A id \in Ids : id \notin Persistent /\ entries'[id] # None => ~(entries[id].verified < cutoff)
  <2>1. entries' = [id \in Ids |-> IF entries[id] # None /\ entries[id].verified < cutoff /\ id \notin Persistent
                                     THEN None ELSE entries[id]]
    BY DEF Collect
  <2>2. \A id \in Ids : entries[id] # None => entries[id].verified \in Nat
    BY <1>2 DEF EntryRecords
  <2> QED
    BY <1>2, <2>1, <2>2
<1>4. DataTyped'
  BY <1>1, <1>2, <1>3 DEF DataTyped
<1>5. ASSUME NEW q \in Queries, entries'[q] # None, NEW i \in 1 .. Len(entries'[q].deps)
      PROVE  /\ entries'[entries'[q].deps[i].id] # None
             /\ \/ entries'[q].deps[i].id \in Persistent
                \/ entries'[entries'[q].deps[i].id].verified >= entries'[q].verified
  <2>1. entries'[q] = entries[q] /\ q \in Ids /\ q \notin Persistent
    BY <1>3, <1>5, Distinct
  <2>2. PICK r \in EntryRecords : r = entries[q]
    BY <1>2, <1>5, <2>1
  <2>3. r.deps \in Seq(Dependencies) /\ r.verified \in Nat /\ r.verified >= cutoff
    BY <1>3, <1>5, <2>1, <2>2 DEF EntryRecords
  <2>4. PICK d \in Dependencies : d = r.deps[i]
    BY <1>5, <2>1, <2>2, <2>3, ElementOfSeq
  <2>5. d.id \in Ids
    BY DEF Dependencies
  <2>6. Retained(d.id, r.verified)
    BY <1>1, <1>5, <2>1, <2>2, <2>4, ClosureOf
  <2>7. entries[d.id].verified \in Nat
    <3>1. entries[d.id] \in EntryRecords
      BY <1>2, <2>5, <2>6 DEF Retained
    <3> QED
      BY <3>1 DEF EntryRecords
  <2>8. entries'[d.id] = entries[d.id]
    BY <1>3, <2>3, <2>5, <2>6, <2>7 DEF Retained
  <2> QED
    BY <2>1, <2>2, <2>4, <2>6, <2>8 DEF Retained
<1>6. ClosureRetained'
  BY <1>5 DEF ClosureRetained
<1>7. StackInv'
  BY <1>1, EmptySeq DEF StackInv
<1> QED
  BY <1>4, <1>6, <1>7 DEF DatabaseInv

\* Every step of the database keeps its invariant.
LEMMA NextDatabase == DatabaseInv /\ [Next]_vars => DatabaseInv'
<1> SUFFICES ASSUME DatabaseInv, [Next]_vars PROVE DatabaseInv'
  OBVIOUS
<1>1. CASE \E changes \in Changes : Advance(changes)
  BY <1>1, AdvanceDatabase
<1>2. CASE \E cutoff \in 0 .. revision : Collect(cutoff)
  BY <1>2, CollectDatabase
<1>3. CASE \E id \in Ids : Ask(id)
  BY <1>3, AskDatabase
<1>4. CASE Answer
  <2>1. DataTyped' /\ ClosureRetained'
    BY <1>4 DEF DatabaseInv, Answer, DataTyped, ClosureRetained
  <2>2. StackInv'
    BY <1>4, EmptySeq DEF Answer, StackInv
  <2> QED
    BY <2>1, <2>2 DEF DatabaseInv
<1>5. CASE Step
  BY <1>5, StepDatabase
<1>6. CASE UNCHANGED vars
  <2>1. DataTyped' /\ ClosureRetained'
    BY <1>6 DEF vars, DatabaseInv, DataTyped, ClosureRetained
  <2>2. StackInv'
    <3>1. \A f : (FrameOK(f)' <=> FrameOK(f)) /\ (Waits(f)' <=> Waits(f)) /\ Wants(f)' = Wants(f)
      BY <1>6 DEF vars, FrameOK, EnsureFrameOK, EvaluateFrameOK, Current, Waits, Wants, NextRead
    <3>2. ASSUME NEW frames, NEW id, Suspended(frames, id) PROVE Suspended(frames, id)'
      BY <3>1, <3>2 DEF Suspended
    <3>3. \A id : Current(id) => Current(id)'
      BY <1>6 DEF vars, Current
    <3> QED
      BY <1>6, <3>1, <3>2, <3>3 DEF vars, DatabaseInv, StackInv
  <2> QED
    BY <2>1, <2>2 DEF DatabaseInv
<1> QED
  BY <1>1, <1>2, <1>3, <1>4, <1>5, <1>6 DEF Next

\* A query that is retained keeps all its recorded dependencies, and will as long as it is
\* retained itself (collect_inactive, ensure, evaluate).
THEOREM ClosureIsRetained == Spec => []ClosureRetained
<1>1. DatabaseInv => ClosureRetained
  BY DEF DatabaseInv
<1> QED
  BY <1>1, InitDatabase, NextDatabase, PTL DEF Spec

-----------------------------------------------------------------------------
(* Induction on the naturals, for sets: the library's theorem takes an     *)
(* operator, which the provers cannot be given, and this does not.         *)

\* A set of naturals that is not empty has a least element: strict inclusion of the
\* intervals from 0 is well founded.
LEMMA LeastElement ==
    ASSUME NEW T, T \subseteq Nat, T # {}
    PROVE  \E m \in T : \A k \in T : m <= k
<1> PICK n \in T : TRUE
  OBVIOUS
<1> DEFINE S == 0 .. n
           U == {V \in SUBSET S : \E k \in T : k <= n /\ V = 0 .. k}
<1>1. IsWellFoundedOn(StrictSubsetOrdering(S), FiniteSubsetsOf(S))
  BY FS_StrictSubsetOrderingWellFounded
<1>2. U \subseteq FiniteSubsetsOf(S)
  <2>1. IsFiniteSet(S)
    BY FS_Interval
  <2> QED
    BY <2>1, FS_FiniteSubsetsOfFinite
<1>3. U # {}
  <2>1. S \in U
    OBVIOUS
  <2> QED
    BY <2>1
<1>4. PICK V \in U : \A W \in U : <<W, V>> \notin StrictSubsetOrdering(S)
  <2> HIDE DEF U, S
  <2> QED
    BY <1>1, <1>2, <1>3, WFMin
<1>5. PICK m \in T : m <= n /\ V = 0 .. m
  OBVIOUS
<1>6. ASSUME NEW k \in T, k < m PROVE FALSE
  <2>1. 0 .. k \in U
    BY <1>5, <1>6
  <2>2. <<0 .. k, V>> \in StrictSubsetOrdering(S)
    BY <1>5, <1>6, <2>1 DEF StrictSubsetOrdering
  <2> QED
    BY <1>4, <2>1, <2>2
<1> QED
  BY <1>5, <1>6

\* What holds of 0, and of n + 1 when it holds of n, holds of every natural.
LEMMA Induction ==
    ASSUME NEW G, 0 \in G, \A n \in Nat : n \in G => n + 1 \in G
    PROVE  \A n \in Nat : n \in G
<1> DEFINE T == Nat \ G
<1> SUFFICES ASSUME T # {} PROVE FALSE
  OBVIOUS
<1>1. PICK m \in T : \A k \in T : m <= k
  BY LeastElement
<1>2. m # 0 /\ m - 1 \in Nat /\ m - 1 \notin T
  BY <1>1
<1> QED
  BY <1>2

-----------------------------------------------------------------------------
(* Evaluation from scratch.                                                *)

Rounds == Cardinality(Queries)

\* What a round of evaluation makes of the round before it.
Worths(n, worth) ==
    [id \in Ids |->
        IF id \in Inputs THEN IF entries[id] = None THEN "missing" ELSE entries[id].value
        ELSE IF n = 0 THEN "cycle" ELSE Evaluated(id, worth)]

\* There are finitely many rounds.
LEMMA RoundsFinite == Rounds \in Nat /\ 0 \in 0 .. Rounds /\ Rounds \in 0 .. Rounds
<1>1. Rounds \in Nat
  BY QueriesAssumption, FS_CardinalityType DEF Rounds
<1> QED
  BY <1>1

\* The rounds exist: Fresh is what its recursive definition says.
LEMMA FreshUnfolds == Fresh = [n \in 0 .. Rounds |-> Worths(n, Fresh[n - 1])]
<1> DEFINE Built(f, n) == f = [k \in 0 .. n |-> Worths(k, f[k - 1])]
           G == {n \in Nat : \E f : Built(f, n)}
<1> HIDE DEF G
<1>1. 0 \in G
  <2>1. PICK f : f = [k \in 0 .. 0 |-> Worths(0, <<>>)]
    OBVIOUS
  <2>2. \A w : Worths(0, w) = Worths(0, <<>>)
    BY DEF Worths
  <2>3. Built(f, 0)
    BY <2>1, <2>2
  <2> QED
    BY <2>3 DEF G
<1>2. ASSUME NEW n \in Nat, n \in G PROVE n + 1 \in G
  <2>1. PICK f : Built(f, n)
    BY <1>2 DEF G
  <2>2. PICK g : g = [k \in 0 .. n + 1 |-> IF k = n + 1 THEN Worths(n + 1, f[n]) ELSE f[k]]
    OBVIOUS
  <2>3. ASSUME NEW k \in 0 .. n + 1 PROVE g[k] = Worths(k, g[k - 1])
    <3>1. CASE k = n + 1
      BY <2>2, <3>1
    <3>2. CASE k # n + 1 /\ k # 0
      BY <2>1, <2>2, <3>2
    <3>3. CASE k = 0
      <4>1. \A w, x : Worths(0, w) = Worths(0, x)
        BY DEF Worths
      <4>2. g[0] = f[0] /\ f[0] = Worths(0, f[0 - 1])
        BY <2>1, <2>2
      <4> QED
        BY <3>3, <4>1, <4>2
    <3> QED
      BY <3>1, <3>2, <3>3
  <2>4. Built(g, n + 1)
    BY <2>2, <2>3
  <2> QED
    BY <2>4 DEF G
<1>3. Rounds \in G
  BY <1>1, <1>2, Induction, RoundsFinite
<1>4. PICK f : Built(f, Rounds)
  BY <1>3 DEF G
<1>5. Fresh = CHOOSE g : Built(g, Rounds)
  BY DEF Fresh, Worths, Rounds
<1> QED
  BY <1>4, <1>5

\* The rounds of evaluation after a step.
LEMMA FreshUnfoldsAfter == Fresh' = [n \in 0 .. Rounds |-> Worths(n, Fresh[n - 1])']
<1>1. (Fresh = [n \in 0 .. Rounds |-> Worths(n, Fresh[n - 1])])'
  BY FreshUnfolds, PTL
<1> QED
  BY <1>1 DEF Rounds

\* The first round knows the inputs only; each further one evaluates every query once.
LEMMA Round ==
    ASSUME NEW n \in 0 .. Rounds
    PROVE  /\ Fresh[n] = [id \in Ids |-> Fresh[n][id]]
           /\ \A id \in Inputs : Fresh[n][id] = IF entries[id] = None THEN "missing" ELSE entries[id].value
           /\ \A q \in Queries : Fresh[n][q] = IF n = 0 THEN "cycle" ELSE Evaluated(q, Fresh[n - 1])
<1>1. Fresh[n] = Worths(n, Fresh[n - 1])
  BY FreshUnfolds
<1>2. Inputs \subseteq Ids /\ \A q \in Queries : q \in Ids /\ q \notin Inputs
  BY Distinct DEF Ids
<1> QED
  BY <1>1, <1>2 DEF Worths

\* The round after another one evaluates every query by it.
LEMMA NextRound ==
    ASSUME NEW n \in 0 .. Rounds, n < Rounds
    PROVE  n + 1 \in 0 .. Rounds /\ \A q \in Queries : Fresh[n + 1][q] = Evaluated(q, Fresh[n])
<1>1. PICK m \in 0 .. Rounds : m = n + 1 /\ m # 0 /\ m - 1 = n
  BY RoundsFinite
<1>2. \A q \in Queries : Fresh[m][q] = Evaluated(q, Fresh[m - 1])
  BY <1>1, Round
<1> QED
  BY <1>1, <1>2

\* An evaluation gives a value or an error when what it reads is a value or an error.
LEMMA EvaluatedTyped ==
    ASSUME DataTyped, NEW q \in Queries, NEW worth, \A id \in Ids : worth[id] \in Values \cup Errors
    PROVE  Evaluated(q, worth) \in Values \cup Errors
<1>1. PICK f \in Ids : f = program[q].first
  BY ProviderTyped
<1>2. PICK a \in Values \cup Errors : a = worth[f]
  BY <1>1
<1>3. a \in Values => program[q].branch[a] \in Ids \cup {None}
  BY ProviderTyped
<1>4. PICK b : b = IF a \notin Values THEN a ELSE IF program[q].branch[a] = None THEN a ELSE worth[program[q].branch[a]]
  OBVIOUS
<1>5. b \in Values \cup Errors
  BY <1>3, <1>4
<1>6. Evaluated(q, worth) = IF b \in Values THEN program[q].out[b] ELSE b
  BY <1>1, <1>2, <1>4 DEF Evaluated
<1> QED
  BY <1>5, <1>6, ProviderTyped, Distinct

\* Every round gives each identity a value or an error.
LEMMA FreshTyped ==
    ASSUME DataTyped
    PROVE  \A n \in 0 .. Rounds : \A id \in Ids : Fresh[n][id] \in Values \cup Errors
<1> DEFINE G == {n \in Nat : n <= Rounds => \A id \in Ids : Fresh[n][id] \in Values \cup Errors}
<1>1. ASSUME NEW n \in 0 .. Rounds, NEW id \in Inputs PROVE Fresh[n][id] \in Values \cup Errors
  <2>1. id \in Ids
    BY DEF Ids
  <2>2. entries[id] # None => entries[id].value \in Values
    BY <2>1 DEF DataTyped, EntryRecords
  <2> QED
    BY <2>2, Round, Distinct
<1>2. 0 \in G
  BY <1>1, Round, RoundsFinite, Distinct DEF Ids
<1>3. ASSUME NEW n \in Nat, n \in G PROVE n + 1 \in G
  <2> SUFFICES ASSUME n + 1 <= Rounds, NEW id \in Ids PROVE Fresh[n + 1][id] \in Values \cup Errors
    OBVIOUS
  <2>1. n \in 0 .. Rounds /\ n < Rounds /\ n + 1 \in 0 .. Rounds
    BY RoundsFinite
  <2>2. CASE id \in Queries
    <3>1. PICK w : w = Fresh[n]
      OBVIOUS
    <3>2. \A x \in Ids : w[x] \in Values \cup Errors
      BY <1>3, <2>1, <3>1, RoundsFinite
    <3>3. Fresh[n + 1][id] = Evaluated(id, w)
      BY <2>1, <2>2, <3>1, NextRound
    <3> QED
      BY <2>2, <3>2, <3>3, EvaluatedTyped
  <2> QED
    BY <1>1, <2>1, <2>2 DEF Ids
<1>4. \A n \in Nat : n \in G
  <2> HIDE DEF G
  <2> QED
    BY <1>2, <1>3, Induction
<1> QED
  BY <1>4, RoundsFinite

\* What is not left open by one evaluation is not changed by another that knows more.
LEMMA EvaluatedMonotone ==
    ASSUME DataTyped, NEW q \in Queries, NEW less, NEW more,
           \A id \in Ids : less[id] # "cycle" => more[id] = less[id],
           Evaluated(q, less) # "cycle"
    PROVE  Evaluated(q, more) = Evaluated(q, less)
<1>1. PICK f \in Ids : f = program[q].first
  BY ProviderTyped
<1>2. PICK a : a = less[f]
  OBVIOUS
<1>3. a \in Values => program[q].branch[a] \in Ids \cup {None}
  BY ProviderTyped
<1>4. "cycle" \notin Values
  BY Distinct
<1>5. a # "cycle"
  BY <1>1, <1>2, <1>4 DEF Evaluated
<1>6. more[f] = a
  BY <1>1, <1>2, <1>5
<1>7. CASE a \notin Values \/ program[q].branch[a] = None
  BY <1>1, <1>2, <1>6, <1>7 DEF Evaluated
<1>8. CASE a \in Values /\ program[q].branch[a] # None
  <2>1. PICK g \in Ids : g = program[q].branch[a]
    BY <1>3, <1>8
  <2>2. Evaluated(q, less) = IF less[g] \in Values THEN program[q].out[less[g]] ELSE less[g]
    BY <1>1, <1>2, <1>8, <2>1 DEF Evaluated
  <2>3. Evaluated(q, more) = IF more[g] \in Values THEN program[q].out[more[g]] ELSE more[g]
    BY <1>1, <1>6, <1>8, <2>1 DEF Evaluated
  <2>4. less[g] # "cycle"
    BY <1>4, <2>2
  <2> QED
    BY <2>2, <2>3, <2>4
<1> QED
  BY <1>7, <1>8

\* A round keeps what the round before it found.
LEMMA RoundMonotone ==
    ASSUME DataTyped
    PROVE  \A n \in 0 .. Rounds : n < Rounds =>
              \A id \in Ids : Fresh[n][id] # "cycle" => Fresh[n + 1][id] = Fresh[n][id]
<1> DEFINE Kept(n) == \A id \in Ids : Fresh[n][id] # "cycle" => Fresh[n + 1][id] = Fresh[n][id]
           G == {n \in Nat : n < Rounds => Kept(n)}
<1>1. ASSUME NEW n \in Nat, n < Rounds, NEW id \in Inputs PROVE Fresh[n + 1][id] = Fresh[n][id]
  <2>1. n \in 0 .. Rounds /\ n + 1 \in 0 .. Rounds
    BY <1>1, RoundsFinite
  <2> QED
    BY <2>1, Round
<1>2. 0 \in G
  <2>1. \A q \in Queries : Fresh[0][q] = "cycle"
    BY Round, RoundsFinite
  <2> QED
    BY <1>1, <2>1 DEF Ids
<1>3. ASSUME NEW n \in Nat, n \in G PROVE n + 1 \in G
  <2> SUFFICES ASSUME n + 1 < Rounds, NEW q \in Queries, Fresh[n + 1][q] # "cycle"
               PROVE  Fresh[n + 1 + 1][q] = Fresh[n + 1][q]
    BY <1>1 DEF Ids
  <2>1. n \in 0 .. Rounds /\ n < Rounds /\ n + 1 \in 0 .. Rounds
    BY RoundsFinite
  <2>2. PICK w, x : w = Fresh[n] /\ x = Fresh[n + 1]
    OBVIOUS
  <2>3. \A id \in Ids : w[id] # "cycle" => x[id] = w[id]
    BY <1>3, <2>1, <2>2
  <2>4. Fresh[n + 1][q] = Evaluated(q, w) /\ Fresh[n + 1 + 1][q] = Evaluated(q, x)
    BY <2>1, <2>2, NextRound
  <2> QED
    BY <2>3, <2>4, EvaluatedMonotone
<1>4. \A n \in Nat : n \in G
  <2> HIDE DEF G
  <2> QED
    BY <1>2, <1>3, Induction
<1> QED
  BY <1>4, RoundsFinite

\* What any round finds is what the last one says.
LEMMA FoundForGood ==
    ASSUME DataTyped
    PROVE  \A n \in 0 .. Rounds : \A id \in Ids : Fresh[n][id] # "cycle" => Scratch(id) = Fresh[n][id]
<1> DEFINE G == {k \in Nat : k <= Rounds => \A id \in Ids :
                    Fresh[Rounds - k][id] # "cycle" => Scratch(id) = Fresh[Rounds - k][id]}
<1>1. 0 \in G
  BY RoundsFinite DEF Scratch, Rounds
<1>2. ASSUME NEW k \in Nat, k \in G PROVE k + 1 \in G
  <2> SUFFICES ASSUME k + 1 <= Rounds, NEW id \in Ids, Fresh[Rounds - (k + 1)][id] # "cycle"
               PROVE  Scratch(id) = Fresh[Rounds - (k + 1)][id]
    OBVIOUS
  <2>1. PICK n \in 0 .. Rounds : n = Rounds - (k + 1) /\ n < Rounds /\ n + 1 = Rounds - k
    BY RoundsFinite
  <2>2. Fresh[n + 1][id] = Fresh[n][id]
    BY <2>1, RoundMonotone
  <2>3. k <= Rounds
    BY RoundsFinite
  <2> QED
    BY <1>2, <2>1, <2>2, <2>3
<1>3. \A k \in Nat : k \in G
  <2> HIDE DEF G
  <2> QED
    BY <1>1, <1>2, Induction
<1>4. ASSUME NEW n \in 0 .. Rounds PROVE \A id \in Ids : Fresh[n][id] # "cycle" => Scratch(id) = Fresh[n][id]
  <2>1. PICK k \in Nat : k = Rounds - n /\ k <= Rounds /\ Rounds - k = n
    BY RoundsFinite
  <2> QED
    BY <1>3, <2>1
<1> QED
  BY <1>4

\* The queries that a round has found something for.
Found(n) == {q \in Queries : Fresh[n][q] # "cycle"}

\* One more round would change nothing.
Settled(n) == \A q \in Queries : Fresh[n][q] = Evaluated(q, Fresh[n])

\* A round that finds nothing for any further query is the last that matters.
LEMMA FoundGrows ==
    ASSUME DataTyped, NEW n \in 0 .. Rounds, n < Rounds
    PROVE  /\ Settled(n) => Settled(n + 1)
           /\ ~Settled(n) => Found(n) \subseteq Found(n + 1) /\ Found(n) # Found(n + 1)
<1>1. n + 1 \in 0 .. Rounds /\ \A q \in Queries : Fresh[n + 1][q] = Evaluated(q, Fresh[n])
  BY NextRound
<1>2. PICK m \in 0 .. Rounds : m = n + 1
  BY <1>1
<1>3. Inputs \subseteq Ids /\ Queries \subseteq Ids /\ Ids \subseteq Inputs \cup Queries
  BY DEF Ids
<1>4. \A id \in Inputs : Fresh[m][id] = Fresh[n][id]
  BY Round
<1>5. (\A q \in Queries : Fresh[m][q] = Fresh[n][q]) => Fresh[m] = Fresh[n]
  <2> SUFFICES ASSUME \A q \in Queries : Fresh[m][q] = Fresh[n][q] PROVE Fresh[m] = Fresh[n]
    OBVIOUS
  <2>1. \A id \in Ids : Fresh[m][id] = Fresh[n][id]
    BY <1>3, <1>4
  <2>2. Fresh[m] = [id \in Ids |-> Fresh[m][id]] /\ Fresh[n] = [id \in Ids |-> Fresh[n][id]]
    BY Round
  <2> QED
    BY <2>1, <2>2
<1>6. CASE Settled(n)
  <2>1. \A q \in Queries : Fresh[m][q] = Fresh[n][q]
    BY <1>1, <1>2, <1>6 DEF Settled
  <2>2. Fresh[m] = Fresh[n]
    BY <1>5, <2>1
  <2> QED
    BY <1>2, <1>6, <2>2 DEF Settled
<1>7. CASE ~Settled(n)
  <2>1. PICK q \in Queries : Fresh[n][q] # Evaluated(q, Fresh[n])
    BY <1>7 DEF Settled
  <2>2. Fresh[m][q] # Fresh[n][q] /\ q \in Ids
    BY <1>1, <1>2, <1>3, <2>1
  <2>3. \A id \in Ids : Fresh[n][id] # "cycle" => Fresh[m][id] = Fresh[n][id]
    BY <1>2, RoundMonotone
  <2>4. Fresh[n][q] = "cycle" /\ Fresh[m][q] # "cycle"
    BY <2>2, <2>3
  <2>5. Found(n) \subseteq Found(m)
    BY <1>3, <2>3 DEF Found
  <2> QED
    BY <1>2, <1>7, <2>4, <2>5 DEF Found
<1> QED
  BY <1>6, <1>7

\* After as many rounds as there are queries, one more would change nothing.
LEMMA LastRoundSettled ==
    ASSUME DataTyped
    PROVE  Settled(Rounds)
<1>1. \A n \in 0 .. Rounds : IsFiniteSet(Found(n)) /\ Cardinality(Found(n)) \in Nat
  BY QueriesAssumption, FS_Subset, FS_CardinalityType DEF Found
<1> DEFINE G == {n \in Nat : n <= Rounds => Settled(n) \/ Cardinality(Found(n)) >= n}
<1>2. 0 \in G
  BY <1>1, RoundsFinite
<1>3. ASSUME NEW n \in Nat, n \in G PROVE n + 1 \in G
  <2> SUFFICES ASSUME n + 1 <= Rounds, ~Settled(n + 1) PROVE Cardinality(Found(n + 1)) >= n + 1
    OBVIOUS
  <2>1. n \in 0 .. Rounds /\ n < Rounds /\ n + 1 \in 0 .. Rounds
    BY RoundsFinite
  <2>2. Found(n) \subseteq Found(n + 1) /\ Found(n) # Found(n + 1) /\ Cardinality(Found(n)) >= n
    BY <1>3, <2>1, FoundGrows
  <2>3. Cardinality(Found(n)) <= Cardinality(Found(n + 1)) /\ Cardinality(Found(n)) # Cardinality(Found(n + 1))
    <3>1. PICK S, T : S = Found(n) /\ T = Found(n + 1)
      OBVIOUS
    <3>2. IsFiniteSet(T) /\ S \subseteq T /\ S # T
      BY <1>1, <2>1, <2>2, <3>1
    <3>3. Cardinality(S) <= Cardinality(T) /\ (Cardinality(S) = Cardinality(T) => S = T)
      BY <3>2, FS_Subset
    <3> QED
      BY <3>1, <3>2, <3>3
  <2> QED
    BY <1>1, <2>1, <2>2, <2>3
<1>4. \A n \in Nat : n \in G
  <2> HIDE DEF G
  <2> QED
    BY <1>2, <1>3, Induction
<1>5. CASE Rounds # 0 /\ Cardinality(Found(Rounds)) >= Rounds
  <2>1. PICK m \in 0 .. Rounds : m < Rounds /\ m + 1 = Rounds
    BY <1>5, RoundsFinite
  <2>2. Found(Rounds) = Queries
    <3>1. PICK T : T = Found(Rounds)
      OBVIOUS
    <3>2. T \subseteq Queries /\ Cardinality(T) >= Cardinality(Queries)
      BY <1>5, <3>1 DEF Found, Rounds
    <3>3. Cardinality(T) <= Cardinality(Queries) /\ (Cardinality(T) = Cardinality(Queries) => T = Queries)
      BY <3>2, QueriesAssumption, FS_Subset
    <3>4. Cardinality(T) \in Nat /\ Cardinality(Queries) \in Nat
      BY <1>1, <3>1, RoundsFinite DEF Rounds
    <3> QED
      BY <3>1, <3>2, <3>3, <3>4
  <2>3. PICK w, x : w = Fresh[m] /\ x = Fresh[Rounds]
    OBVIOUS
  <2>4. \A id \in Ids : w[id] # "cycle" => x[id] = w[id]
    BY <2>1, <2>3, RoundMonotone
  <2>5. \A q \in Queries : x[q] = Evaluated(q, w) /\ x[q] # "cycle"
    <3>1. \A q \in Queries : Fresh[m + 1][q] = Evaluated(q, Fresh[m])
      BY <2>1, NextRound
    <3> QED
      BY <2>1, <2>2, <2>3, <3>1 DEF Found
  <2>6. \A q \in Queries : x[q] = Evaluated(q, x)
    BY <2>4, <2>5, EvaluatedMonotone
  <2> QED
    BY <2>3, <2>6 DEF Settled
<1>6. CASE Rounds = 0
  <2>1. Queries = {}
    BY <1>6, QueriesAssumption, FS_EmptySet DEF Rounds
  <2> QED
    BY <2>1 DEF Settled
<1> QED
  BY <1>4, <1>5, <1>6, RoundsFinite

\* What an input is worth.
LEMMA ScratchOfInput ==
    ASSUME NEW id \in Inputs
    PROVE  Scratch(id) = IF entries[id] = None THEN "missing" ELSE entries[id].value
<1> QED
  BY Round, RoundsFinite DEF Scratch, Rounds

\* What a query is worth, by what its provider reads is worth.
LEMMA ScratchOfQuery ==
    ASSUME DataTyped, NEW q \in Queries, NEW a, a = Scratch(program[q].first),
           NEW g, a \in Values => g = program[q].branch[a]
    PROVE  Scratch(q) = IF a \notin Values THEN a
                        ELSE IF g = None THEN program[q].out[a]
                        ELSE IF Scratch(g) \in Values THEN program[q].out[Scratch(g)] ELSE Scratch(g)
<1>1. PICK w : w = Fresh[Rounds]
  OBVIOUS
<1>2. \A id : Scratch(id) = w[id]
  BY <1>1 DEF Scratch, Rounds
<1>3. w[q] = Evaluated(q, w)
  BY <1>1, LastRoundSettled DEF Settled
<1>4. a = w[program[q].first]
  BY <1>2
<1>5. CASE a \notin Values
  BY <1>2, <1>3, <1>4, <1>5 DEF Evaluated
<1>6. CASE a \in Values /\ g = None
  BY <1>2, <1>3, <1>4, <1>6 DEF Evaluated
<1>7. CASE a \in Values /\ g # None
  <2>1. PICK b : b = w[g]
    OBVIOUS
  <2>2. Evaluated(q, w) = IF b \in Values THEN program[q].out[b] ELSE b
    BY <1>4, <1>7, <2>1 DEF Evaluated
  <2> QED
    BY <1>2, <1>3, <1>7, <2>1, <2>2
<1> QED
  BY <1>5, <1>6, <1>7

\* The providers are the same, and the inputs are worth what they were.
SameInputs ==
    /\ program' = program
    /\ \A id \in Inputs : /\ entries'[id] = None <=> entries[id] = None
                          /\ entries[id] # None => entries'[id].value = entries[id].value

\* While the inputs are, every evaluation from scratch gives what it gave.
LEMMA FreshSteady ==
    ASSUME SameInputs
    PROVE  /\ \A n \in 0 .. Rounds : Fresh'[n] = Fresh[n]
           /\ \A id : Scratch(id)' = Scratch(id)
<1>1. Fresh = [n \in 0 .. Rounds |-> Worths(n, Fresh[n - 1])]
  BY FreshUnfolds
<1>2. Fresh' = [n \in 0 .. Rounds |-> Worths(n, Fresh[n - 1])']
  BY FreshUnfoldsAfter
<1>3. ASSUME NEW n, NEW w PROVE Worths(n, w)' = Worths(n, w)
  <2>1. \A q : Evaluated(q, w)' = Evaluated(q, w)
    BY DEF SameInputs, Evaluated
  <2> QED
    BY <2>1 DEF SameInputs, Worths
<1> DEFINE G == {n \in Nat : n <= Rounds => Fresh'[n] = Fresh[n]}
<1>4. 0 \in G
  <2>1. \A w, x : Worths(0, w) = Worths(0, x)
    BY DEF Worths
  <2>2. PICK w, x : w = Fresh[0 - 1] /\ x = Fresh'[0 - 1]
    OBVIOUS
  <2>3. Fresh[0] = Worths(0, w) /\ Fresh'[0] = Worths(0, x)'
    BY <1>1, <1>2, <2>2, RoundsFinite
  <2> QED
    BY <1>3, <2>1, <2>3
<1>5. ASSUME NEW n \in Nat, n \in G PROVE n + 1 \in G
  <2> SUFFICES ASSUME n + 1 <= Rounds PROVE Fresh'[n + 1] = Fresh[n + 1]
    OBVIOUS
  <2>1. PICK m \in 0 .. Rounds : m = n + 1 /\ m - 1 = n /\ n <= Rounds
    BY RoundsFinite
  <2>2. PICK w : w = Fresh[n]
    OBVIOUS
  <2>3. Fresh[m] = Worths(m, w) /\ Fresh'[m] = Worths(m, w)'
    BY <1>1, <1>2, <1>5, <2>1, <2>2
  <2> QED
    BY <1>3, <2>1, <2>3
<1>6. \A n \in Nat : n \in G
  <2> HIDE DEF G
  <2> QED
    BY <1>4, <1>5, Induction
<1> QED
  BY <1>6, RoundsFinite DEF Scratch, Rounds

-----------------------------------------------------------------------------
(* What a query reads.                                                     *)

\* From scratch, b is evaluated at least one evaluation further in than a.
Deeper(a, b) == \A n \in 0 .. Rounds : n < Rounds /\ Fresh[n + 1][a] # "cycle" => Fresh[n][b] # "cycle"

\* Evaluated from scratch, q reads id.
ReadBy(q, id) ==
    LET p == program[q]
        a == Scratch(p.first)
    IN  id = p.first \/ (a \in Values /\ p.branch[a] # None /\ id = p.branch[a])

\* What a query reads is evaluated further in.
LEMMA ReadsDeeper ==
    ASSUME DataTyped, NEW q \in Queries, NEW id \in Ids, ReadBy(q, id)
    PROVE  Deeper(q, id)
<1> SUFFICES ASSUME NEW n \in 0 .. Rounds, n < Rounds, Fresh[n + 1][q] # "cycle" PROVE Fresh[n][id] # "cycle"
  BY DEF Deeper
<1>1. PICK w : w = Fresh[n]
  OBVIOUS
<1>2. Evaluated(q, w) # "cycle"
  BY <1>1, NextRound
<1>3. PICK f \in Ids : f = program[q].first
  BY ProviderTyped
<1>4. w[f] # "cycle"
  BY <1>2, <1>3, Distinct DEF Evaluated
<1>5. CASE id = f
  BY <1>1, <1>4, <1>5
<1>6. CASE id # f
  <2>1. PICK a : a = Scratch(f)
    OBVIOUS
  <2>2. a \in Values /\ program[q].branch[a] # None /\ id = program[q].branch[a]
    BY <1>3, <1>6, <2>1 DEF ReadBy
  <2>3. w[f] = a
    BY <1>1, <1>3, <1>4, <2>1, FoundForGood
  <2>4. Evaluated(q, w) = IF w[id] \in Values THEN program[q].out[w[id]] ELSE w[id]
    BY <1>3, <2>2, <2>3 DEF Evaluated
  <2> QED
    BY <1>1, <1>2, <2>4, Distinct
<1> QED
  BY <1>5, <1>6

\* Reading through a query.
LEMMA DeeperTransitive ==
    ASSUME DataTyped, NEW a, NEW q \in Queries, NEW b \in Ids, Deeper(a, q), Deeper(q, b)
    PROVE  Deeper(a, b)
<1> SUFFICES ASSUME NEW n \in 0 .. Rounds, n < Rounds, Fresh[n + 1][a] # "cycle" PROVE Fresh[n][b] # "cycle"
  BY DEF Deeper
<1>1. Fresh[n][q] # "cycle"
  BY DEF Deeper
<1>2. n # 0
  BY <1>1, Round
<1>3. PICK m \in 0 .. Rounds : m < Rounds /\ m + 1 = n
  BY <1>2, RoundsFinite
<1>4. Fresh[m][b] # "cycle"
  BY <1>1, <1>3 DEF Deeper
<1> QED
  BY <1>3, <1>4, RoundMonotone

\* A query that would have to be evaluated further in than itself has no value.
LEMMA DeeperThanItself ==
    ASSUME DataTyped, NEW q \in Queries, Deeper(q, q)
    PROVE  Scratch(q) = "cycle"
<1> DEFINE G == {n \in Nat : n <= Rounds => Fresh[n][q] = "cycle"}
<1>1. 0 \in G
  BY Round, RoundsFinite
<1>2. ASSUME NEW n \in Nat, n \in G PROVE n + 1 \in G
  <2> SUFFICES ASSUME n + 1 <= Rounds PROVE Fresh[n + 1][q] = "cycle"
    OBVIOUS
  <2>1. n \in 0 .. Rounds /\ n < Rounds /\ Fresh[n][q] = "cycle"
    BY <1>2, RoundsFinite
  <2> QED
    BY <2>1 DEF Deeper
<1>3. \A n \in Nat : n \in G
  <2> HIDE DEF G
  <2> QED
    BY <1>1, <1>2, Induction
<1> QED
  BY <1>3, RoundsFinite DEF Scratch, Rounds

\* The error of what is read is the error of the query.
LEMMA ErrorPassedOn ==
    ASSUME DataTyped, NEW q \in Queries, NEW id, ReadBy(q, id), Scratch(id) \in Errors
    PROVE  Scratch(q) = Scratch(id)
<1>1. PICK a, g : a = Scratch(program[q].first) /\ g = program[q].branch[a]
  OBVIOUS
<1>2. Scratch(q) = IF a \notin Values THEN a
                   ELSE IF g = None THEN program[q].out[a]
                   ELSE IF Scratch(g) \in Values THEN program[q].out[Scratch(g)] ELSE Scratch(g)
  BY <1>1, ScratchOfQuery
<1> QED
  BY <1>1, <1>2, Distinct DEF ReadBy

-----------------------------------------------------------------------------
(* Recorded dependencies.                                                  *)

\* The recorded dependencies are worth what they were when they were read.
Truthful(deps) == \A i \in 1 .. Len(deps) : deps[i].value = Scratch(deps[i].id)

\* The entry is the result of a run of the query's provider.
Shaped(q, e) ==
    LET p == program[q]
        v == e.deps[1].value
    IN  /\ e.deps[1].id = p.first
        /\ \/ p.branch[v] \in {None, p.first} /\ Len(e.deps) = 1 /\ e.value = p.out[v]
           \/ /\ p.branch[v] \notin {None, p.first} /\ Len(e.deps) = 2
              /\ e.deps[2].id = p.branch[v] /\ e.value = p.out[e.deps[2].value]

\* An entry whose dependencies are worth what they were is what an evaluation would give.
LEMMA TruthfulEntry ==
    ASSUME DataTyped, NEW q \in Queries, NEW e \in EntryRecords, Shaped(q, e), Truthful(e.deps)
    PROVE  e.value = Scratch(q)
<1>1. e.deps \in Seq(Dependencies) /\ Len(e.deps) \in 1 .. 2
  BY DEF EntryRecords, Shaped
<1>2. PICK d1 \in Dependencies : d1 = e.deps[1]
  BY <1>1, ElementOfSeq
<1>3. d1.value \in Values /\ d1.value = Scratch(d1.id) /\ d1.id = program[q].first
  BY <1>1, <1>2 DEF Truthful, Shaped, Dependencies
<1>4. PICK a, g : a = d1.value /\ g = program[q].branch[a]
  OBVIOUS
<1>5. Scratch(q) = IF g = None THEN program[q].out[a]
                   ELSE IF Scratch(g) \in Values THEN program[q].out[Scratch(g)] ELSE Scratch(g)
  BY <1>3, <1>4, ScratchOfQuery
<1>6. CASE g = None \/ g = d1.id
  <2>1. e.value = program[q].out[a]
    BY <1>2, <1>3, <1>4, <1>6 DEF Shaped
  <2> QED
    BY <1>3, <1>4, <1>5, <1>6, <2>1
<1>7. CASE g # None /\ g # d1.id
  <2>1. Len(e.deps) = 2 /\ e.deps[2].id = g /\ e.value = program[q].out[e.deps[2].value]
    BY <1>2, <1>3, <1>4, <1>7 DEF Shaped
  <2>2. PICK d2 \in Dependencies : d2 = e.deps[2]
    BY <1>1, <2>1, ElementOfSeq
  <2>3. d2.value \in Values /\ d2.value = Scratch(g)
    BY <2>1, <2>2 DEF Truthful, Dependencies
  <2> QED
    BY <1>5, <1>7, <2>1, <2>2, <2>3
<1> QED
  BY <1>6, <1>7

-----------------------------------------------------------------------------
(* The frames of the stack.                                                *)

Dependency(id, v) == [id |-> id, value |-> v]

\* A verification has found the dependencies it has done with worth what they were.
Done(f) == Len(entries[f.id].deps) - Len(f.todo)

EnsureFresh(f) ==
    /\ entries[f.id] # None
    /\ entries[f.id].verified < revision
    /\ Done(f) >= 0
    /\ \A i \in 1 .. Done(f) : entries[f.id].deps[i].value = Scratch(entries[f.id].deps[i].id)
    /\ \A i \in 1 .. Len(f.todo) : f.todo[i] = entries[f.id].deps[Done(f) + i]

\* An evaluation has read what an evaluation from scratch would, and recorded that; a result
\* it is to replace rests on a dependency that is worth something else now.
EvaluateFresh(f) ==
    LET p == program[f.id]
    IN  /\ Len(f.seen) <= 2
        /\ f.seen = <<>> => f.deps = <<>>
        /\ f.seen # <<>> => /\ f.seen[1] = Scratch(p.first)
                            /\ f.deps # <<>> /\ f.deps[1] = Dependency(p.first, f.seen[1])
        /\ Len(f.seen) = 1 => Len(f.deps) = 1
        /\ Len(f.seen) = 2 =>
              /\ p.branch[f.seen[1]] # None
              /\ f.seen[2] = Scratch(p.branch[f.seen[1]])
              /\ IF p.branch[f.seen[1]] = p.first THEN Len(f.deps) = 1
                 ELSE Len(f.deps) = 2 /\ f.deps[2] = Dependency(p.branch[f.seen[1]], f.seen[2])
        /\ entries[f.id] # None =>
              entries[f.id].verified < revision /\ ~Truthful(entries[f.id].deps)

FrameFresh(f) == IF f.op = "ensure" THEN EnsureFresh(f) ELSE EvaluateFresh(f)

\* Each frame needs the ones above it, and id, for its own evaluation.
Pending(frames, id) ==
    \A k \in 1 .. Len(frames) :
        /\ FrameFresh(frames[k])
        /\ Deeper(frames[k].id, id)
        /\ \A j \in 1 .. k - 1 : Deeper(frames[j].id, frames[k].id)

\* What the first frame was made for.
Origin(frames, id) == IF frames = <<>> THEN id ELSE frames[1].id

EntriesFresh ==
    \A q \in Queries : entries[q] # None =>
        /\ Shaped(q, entries[q])
        /\ entries[q].verified = revision => Truthful(entries[q].deps)

StackFresh ==
    /\ asked \in Ids \cup {None}
    /\ asked = None => stack = <<>> /\ reply = None
    /\ stack # <<>> =>
          /\ Pending(Front(stack), Top.id)
          /\ FrameFresh(Top)
          /\ asked = Origin(Front(stack), Top.id)

FreshInv == EntriesFresh /\ StackFresh /\ AnswersAreFresh

\* A frame waits for what its query reads.
LEMMA WaitingReads ==
    ASSUME DataTyped, EntriesFresh, NEW f \in Frames, FrameFresh(f), Waits(f)
    PROVE  ReadBy(f.id, Wants(f))
<1>1. f.id \in Queries /\ f.todo \in Seq(Dependencies) /\ f.seen \in Seq(Values)
  BY DEF Frames
<1>2. CASE f.op = "ensure"
  <2>1. PICK e : e = entries[f.id]
    OBVIOUS
  <2>2. e \in EntryRecords /\ Shaped(f.id, e)
    BY <1>1, <1>2, <2>1, Distinct DEF FrameFresh, EnsureFresh, EntriesFresh, DataTyped
  <2>3. Len(e.deps) \in 1 .. 2 /\ Len(f.todo) \in Nat \ {0}
    <3>1. Len(f.todo) \in Nat \ {0}
      BY <1>1, <1>2, EmptySeq DEF Waits
    <3>2. Len(e.deps) \in 1 .. 2
      BY <2>2 DEF Shaped
    <3> QED
      BY <3>1, <3>2
  <2>4. PICK n \in 0 .. 1 :
            /\ n + Len(f.todo) = Len(e.deps)
            /\ \A i \in 1 .. n : e.deps[i].value = Scratch(e.deps[i].id)
            /\ f.todo[1] = e.deps[n + 1]
    <3>1. PICK n : n = Done(f)
      OBVIOUS
    <3>2. /\ n = Len(e.deps) - Len(f.todo)
          /\ n >= 0
          /\ \A i \in 1 .. n : e.deps[i].value = Scratch(e.deps[i].id)
          /\ \A i \in 1 .. Len(f.todo) : f.todo[i] = e.deps[n + i]
      BY <1>2, <2>1, <3>1 DEF FrameFresh, EnsureFresh, Done
    <3>3. n \in 0 .. 1 /\ n + Len(f.todo) = Len(e.deps)
      <4>1. PICK a \in 1 .. 2, b \in Nat \ {0} : a = Len(e.deps) /\ b = Len(f.todo)
        BY <2>3
      <4>2. n = a - b /\ n >= 0
        BY <3>2, <4>1
      <4>3. n \in 0 .. 1 /\ n + b = a
        BY <4>2
      <4> QED
        BY <4>1, <4>3
    <3>4. 1 \in 1 .. Len(f.todo)
      BY <2>3
    <3> QED
      BY <3>2, <3>3, <3>4
  <2>5. Wants(f) = e.deps[n + 1].id
    <3>1. Head(f.todo) = f.todo[1]
      BY <1>1, <1>2 DEF Waits
    <3> QED
      BY <1>2, <2>4, <3>1 DEF Wants
  <2>6. CASE n = 0
    BY <2>2, <2>5, <2>6 DEF ReadBy, Shaped
  <2>7. CASE n # 0
    <3>1. n = 1 /\ Len(e.deps) = 2
      BY <2>3, <2>4, <2>7
    <3>2. PICK v : v = e.deps[1].value
      OBVIOUS
    <3>3. v = Scratch(program[f.id].first) /\ program[f.id].branch[v] # None /\ e.deps[2].id = program[f.id].branch[v]
      BY <2>2, <2>4, <3>1, <3>2 DEF Shaped
    <3>4. v \in Values
      <4>1. e.deps[1] \in Dependencies
        BY <2>2, <3>1, ElementOfSeq DEF EntryRecords
      <4> QED
        BY <3>2, <4>1 DEF Dependencies
    <3> QED
      BY <2>5, <3>1, <3>3, <3>4 DEF ReadBy
  <2> QED
    BY <2>6, <2>7
<1>3. CASE f.op # "ensure"
  <2>1. Wants(f) = NextRead(f.id, f.seen) /\ NextRead(f.id, f.seen) # None
    BY <1>3 DEF Wants, Waits
  <2>2. CASE f.seen = <<>>
    BY <2>1, <2>2 DEF NextRead, ReadBy
  <2>3. CASE f.seen # <<>>
    <3>1. Len(f.seen) = 1 /\ f.seen[1] \in Values
      <4>1. Len(f.seen) = 1
        BY <2>1, <2>3 DEF NextRead
      <4> QED
        BY <1>1, <4>1, ElementOfSeq
    <3>2. f.seen[1] = Scratch(program[f.id].first)
      BY <1>3, <2>3 DEF FrameFresh, EvaluateFresh
    <3> QED
      BY <2>1, <2>3, <3>1, <3>2 DEF NextRead, ReadBy
  <2> QED
    BY <2>2, <2>3
<1> QED
  BY <1>2, <1>3

\* The first frame stays the first.
LEMMA OriginBelow ==
    \A below \in Seq(Frames), top \in Frames : \A id :
        Origin(Append(below, top), id) = Origin(below, top.id)
<1> SUFFICES ASSUME NEW below \in Seq(Frames), NEW top \in Frames, NEW id, NEW frames, frames = Append(below, top)
             PROVE  Origin(frames, id) = Origin(below, top.id)
  OBVIOUS
<1>1. Len(below) \in Nat /\ frames # <<>> /\ frames[Len(below) + 1] = top
  BY AppendProperties, LenProperties
<1>2. CASE below = <<>>
  <2>1. Len(below) = 0
    BY <1>2
  <2> QED
    BY <1>1, <1>2, <2>1 DEF Origin
<1>3. CASE below # <<>>
  <2>1. 1 \in 1 .. Len(below)
    BY <1>1, <1>3, EmptySeq
  <2>2. frames[1] = below[1]
    BY <2>1, AppendProperties
  <2> QED
    BY <1>1, <1>3, <2>2 DEF Origin
<1> QED
  BY <1>2, <1>3

\* Everything that waits for the frame on top waits for what that one reads.
LEMMA PendingTop ==
    ASSUME DataTyped, EntriesFresh, NEW below \in Seq(Frames), NEW top \in Frames,
           NEW frames, frames = Append(below, top),
           Pending(below, top.id), FrameFresh(top), Waits(top), NEW id \in Ids, id = Wants(top)
    PROVE  Pending(frames, id)
<1>1. /\ Len(frames) = Len(below) + 1 /\ Len(below) \in Nat
      /\ \A i \in 1 .. Len(below) : frames[i] = below[i]
      /\ frames[Len(below) + 1] = top
      /\ frames # <<>>
  BY AppendProperties, LenProperties
<1>2. top.id \in Queries /\ Deeper(top.id, id)
  BY WaitingReads, ReadsDeeper DEF Frames
<1>3. ASSUME NEW k \in 1 .. Len(below)
      PROVE  /\ FrameFresh(below[k])
             /\ Deeper(below[k].id, top.id) /\ Deeper(below[k].id, id)
             /\ \A j \in 1 .. k - 1 : Deeper(below[j].id, below[k].id)
  <2>1. PICK q : q = below[k].id
    OBVIOUS
  <2>2. FrameFresh(below[k]) /\ Deeper(q, top.id) /\ \A j \in 1 .. k - 1 : Deeper(below[j].id, below[k].id)
    BY <2>1 DEF Pending
  <2>3. Deeper(q, id)
    <3>1. PICK t \in Queries : t = top.id
      BY <1>2
    <3> QED
      BY <1>2, <2>2, <3>1, DeeperTransitive
  <2> QED
    BY <2>1, <2>2, <2>3
<1> SUFFICES ASSUME NEW k \in 1 .. Len(frames)
             PROVE  /\ FrameFresh(frames[k])
                    /\ Deeper(frames[k].id, id)
                    /\ \A j \in 1 .. k - 1 : Deeper(frames[j].id, frames[k].id)
  BY DEF Pending
<1>4. CASE k = Len(frames)
  <2>1. \A j \in 1 .. k - 1 : j \in 1 .. Len(below)
    BY <1>1, <1>4
  <2> QED
    BY <1>1, <1>2, <1>3, <1>4, <2>1
<1>5. CASE k \in 1 .. Len(below)
  <2>1. frames[k] = below[k] /\ \A j \in 1 .. k - 1 : j \in 1 .. Len(below) /\ frames[j] = below[j]
    BY <1>1, <1>5
  <2> QED
    BY <1>3, <1>5, <2>1
<1> QED
  BY <1>1, <1>4, <1>5

\* After the step, what waits for the last frame.
LEMMA PendingBelow ==
    ASSUME NEW below \in Seq(Frames), NEW top \in Frames, NEW frames, frames = Append(below, top),
           NEW id, Pending(frames, id)'
    PROVE  Pending(below, top.id)' /\ FrameFresh(top)'
<1>1. /\ Len(frames) = Len(below) + 1 /\ Len(below) \in Nat
      /\ \A i \in 1 .. Len(below) : frames[i] = below[i]
      /\ frames[Len(below) + 1] = top
      /\ frames # <<>>
  BY AppendProperties, LenProperties
<1>2. FrameFresh(top)' /\ \A j \in 1 .. Len(below) : Deeper(frames[j].id, top.id)'
  <2>1. PICK k \in 1 .. Len(frames) : k = Len(frames) /\ k - 1 = Len(below) /\ frames[k] = top
    BY <1>1
  <2>2. FrameFresh(frames[k])' /\ \A j \in 1 .. k - 1 : Deeper(frames[j].id, frames[k].id)'
    BY DEF Pending
  <2> QED
    BY <2>1, <2>2
<1>3. ASSUME NEW k \in 1 .. Len(below)
      PROVE  /\ FrameFresh(below[k])'
             /\ Deeper(below[k].id, top.id)'
             /\ \A j \in 1 .. k - 1 : Deeper(below[j].id, below[k].id)'
  <2>1. k \in 1 .. Len(frames) /\ frames[k] = below[k]
    BY <1>1
  <2>2. FrameFresh(frames[k])' /\ \A j \in 1 .. k - 1 : Deeper(frames[j].id, frames[k].id)'
    BY <2>1 DEF Pending
  <2>3. \A j \in 1 .. k - 1 : frames[j] = below[j]
    BY <1>1
  <2>4. Deeper(frames[k].id, top.id)'
    BY <1>2
  <2> QED
    BY <2>1, <2>2, <2>3, <2>4
<1>4. Pending(below, top.id)'
  BY <1>3 DEF Pending
<1> QED
  BY <1>2, <1>4

-----------------------------------------------------------------------------
(* What the steps of one query leave as it is.                             *)

Steady == SameInputs /\ revision' = revision

\* What is said of entries and frames, but for the entry a frame is about.
LEMMA SteadyParts ==
    ASSUME Steady
    PROVE  /\ \A id : Scratch(id)' = Scratch(id)
           /\ \A deps : Truthful(deps)' <=> Truthful(deps)
           /\ \A q, e : Shaped(q, e)' <=> Shaped(q, e)
           /\ \A a, b : Deeper(a, b)' <=> Deeper(a, b)
<1>1. /\ \A n \in 0 .. Rounds : Fresh'[n] = Fresh[n]
      /\ \A id : Scratch(id)' = Scratch(id)
  BY FreshSteady DEF Steady
<1>2. \A deps : Truthful(deps)' <=> Truthful(deps)
  BY <1>1 DEF Truthful
<1>3. \A q, e : Shaped(q, e)' <=> Shaped(q, e)
  BY DEF Shaped, Steady, SameInputs
<1>4. ASSUME NEW a, NEW b PROVE Deeper(a, b)' <=> Deeper(a, b)
  <2>1. Rounds' = Rounds
    BY DEF Rounds
  <2>2. ASSUME NEW n \in 0 .. Rounds, n < Rounds PROVE Fresh'[n] = Fresh[n] /\ Fresh'[n + 1] = Fresh[n + 1]
    <3>1. n + 1 \in 0 .. Rounds
      BY <2>2, RoundsFinite
    <3> QED
      BY <1>1, <3>1
  <2> QED
    BY <2>1, <2>2 DEF Deeper
<1> QED
  BY <1>1, <1>2, <1>3, <1>4

\* A frame whose entry is left alone.
LEMMA FrameSteady ==
    ASSUME Steady, NEW f, FrameFresh(f), entries'[f.id] = entries[f.id]
    PROVE  FrameFresh(f)'
<1>1. program' = program /\ revision' = revision
  BY DEF Steady, SameInputs
<1>2. CASE f.op = "ensure"
  <2>1. EnsureFresh(f)
    BY <1>2 DEF FrameFresh
  <2>2. Done(f)' = Done(f)
    BY DEF Done
  <2>3. EnsureFresh(f)'
    <3>1. PICK e : e = entries[f.id]
      OBVIOUS
    <3>2. PICK n : n = Done(f)
      OBVIOUS
    <3>3. \A i \in 1 .. n : e.deps[i].value = Scratch(e.deps[i].id)'
      BY <2>1, <3>1, <3>2, SteadyParts DEF EnsureFresh
    <3> QED
      BY <1>1, <2>1, <2>2, <3>1, <3>2, <3>3 DEF EnsureFresh
  <2> QED
    BY <1>2, <2>3 DEF FrameFresh
<1>3. CASE f.op # "ensure"
  <2>1. EvaluateFresh(f)
    BY <1>3 DEF FrameFresh
  <2>2. PICK p : p = program[f.id]
    OBVIOUS
  <2>3. Scratch(p.first)' = Scratch(p.first) /\ Scratch(p.branch[f.seen[1]])' = Scratch(p.branch[f.seen[1]])
    BY SteadyParts
  <2>4. PICK e : e = entries[f.id]
    OBVIOUS
  <2>5. Truthful(e.deps)' <=> Truthful(e.deps)
    BY SteadyParts
  <2>6. EvaluateFresh(f)'
    BY <1>1, <2>1, <2>2, <2>3, <2>4, <2>5 DEF EvaluateFresh
  <2> QED
    BY <1>3, <2>6 DEF FrameFresh
<1> QED
  BY <1>2, <1>3

\* Frames whose entries are left alone.
LEMMA PendingSteady ==
    ASSUME Steady, NEW frames, NEW id, Pending(frames, id),
           \A k \in 1 .. Len(frames) : entries'[frames[k].id] = entries[frames[k].id]
    PROVE  Pending(frames, id)'
<1>1. ASSUME NEW k \in 1 .. Len(frames)
      PROVE  /\ FrameFresh(frames[k])'
             /\ Deeper(frames[k].id, id)'
             /\ \A j \in 1 .. k - 1 : Deeper(frames[j].id, frames[k].id)'
  <2>1. PICK f : f = frames[k]
    OBVIOUS
  <2>2. FrameFresh(f) /\ Deeper(f.id, id) /\ \A j \in 1 .. k - 1 : Deeper(frames[j].id, f.id)
    BY <2>1 DEF Pending
  <2>3. FrameFresh(f)'
    BY <2>1, <2>2, FrameSteady
  <2>4. Deeper(f.id, id)' /\ \A j \in 1 .. k - 1 : Deeper(frames[j].id, f.id)'
    BY <2>2, SteadyParts
  <2> QED
    BY <2>1, <2>3, <2>4
<1> QED
  BY <1>1 DEF Pending

\* The entries, when one is put in place that rests on what its dependencies are worth.
LEMMA EntriesRenewed ==
    ASSUME Steady, EntriesFresh, NEW id,
           \A q \in Queries : q # id => entries'[q] = entries[q],
           id \in Queries => \/ entries'[id] = entries[id]
                             \/ Shaped(id, entries'[id]) /\ Truthful(entries'[id].deps)
    PROVE  EntriesFresh'
<1> SUFFICES ASSUME NEW q \in Queries, entries'[q] # None
             PROVE  /\ Shaped(q, entries[q])'
                    /\ (entries[q].verified = revision => Truthful(entries[q].deps))'
  BY DEF EntriesFresh
<1>1. PICK e : e = entries'[q]
  OBVIOUS
<1>2. Shaped(q, e) /\ (e.verified = revision => Truthful(e.deps))
  BY <1>1 DEF EntriesFresh
<1>3. Shaped(q, e)' /\ (e.verified = revision => Truthful(e.deps)')
  BY <1>2, SteadyParts
<1> QED
  BY <1>1, <1>3 DEF Steady

-----------------------------------------------------------------------------
(* What becomes of an answer.                                              *)

\* The result of an evaluation from scratch arrives at the frame that waits for it.
LEMMA ReturnsFresh ==
    ASSUME NEW below, NEW id \in Ids, NEW result, Return(result, below),
           Suspended(below, id), program' = program, Pending(below, id)',
           asked' = Origin(below, id), asked' \in Ids, result = Scratch(id)'
    PROVE  StackFresh' /\ AnswersAreFresh'
<1>1. stack' = below /\ reply' = result /\ below \in Seq(Frames)
  BY DEF Return, Suspended
<1>2. Scratch(id)' = Fresh'[Cardinality(Queries)][id]
  BY DEF Scratch
<1>3. CASE below = <<>>
  <2>1. Wanted' = id
    BY <1>1, <1>3 DEF Wanted, Origin
  <2>2. AnswersAreFresh'
    BY <1>1, <1>2, <2>1 DEF AnswersAreFresh, Scratch
  <2>3. StackFresh'
    BY <1>1, <1>3, Distinct DEF StackFresh
  <2> QED
    BY <2>2, <2>3
<1>4. CASE below # <<>>
  <2>1. PICK b \in Seq(Frames), t \in Frames : below = Append(b, t)
    BY <1>1, <1>4, SequenceEmptyOrAppend
  <2>2. below[Len(below)] = t /\ Front(below) = b /\ Len(below) \in 1 .. Len(below)
    <3>1. Len(below) \in Nat \ {0}
      BY <1>1, <1>4, EmptySeq
    <3>2. below[Len(below)] = t /\ Front(below) = b
      BY <2>1, TopOfStack
    <3> QED
      BY <3>1, <3>2
  <2>3. Wants(t) = id
    BY <2>2 DEF Suspended
  <2>4. Top' = t /\ Front(stack)' = b
    BY <1>1, <2>2 DEF Top
  <2>5. Wanted' = id
    <3>1. Wants(t)' = id
      BY <2>3 DEF Wants, NextRead
    <3> QED
      BY <1>1, <1>4, <2>4, <3>1 DEF Wanted, Wants
  <2>6. AnswersAreFresh'
    BY <1>1, <1>2, <2>5 DEF AnswersAreFresh, Scratch
  <2>7. Pending(b, t.id)' /\ FrameFresh(t)' /\ Origin(below, id) = Origin(b, t.id)
    <3>1. Pending(b, t.id)' /\ FrameFresh(t)'
      BY <2>1, PendingBelow
    <3>2. Origin(below, id) = Origin(b, t.id)
      BY <2>1, OriginBelow
    <3> QED
      BY <3>1, <3>2
  <2>8. asked' = Origin(b, t.id) /\ asked' # None
    BY <2>7, Distinct
  <2>9. StackFresh'
    <3>1. Pending(Front(stack), Top.id)' /\ FrameFresh(Top)' /\ Origin(Front(stack), Top.id)' = Origin(b, t.id)
      BY <2>4, <2>7 DEF Pending, FrameFresh, EnsureFresh, EvaluateFresh, Done, Origin
    <3> QED
      BY <2>8, <3>1 DEF StackFresh
  <2> QED
    BY <2>6, <2>9
<1> QED
  BY <1>3, <1>4

\* A new frame on top.
LEMMA PushesFresh ==
    ASSUME NEW below \in Seq(Frames), NEW frame \in Frames, Push(frame, below),
           Pending(below, frame.id)', FrameFresh(frame)',
           asked' = Origin(below, frame.id), asked' \in Ids
    PROVE  StackFresh' /\ AnswersAreFresh'
<1>1. PICK s : s = stack'
  OBVIOUS
<1>2. s = Append(below, frame) /\ reply' = None
  BY <1>1 DEF Push
<1>3. s[Len(s)] = frame /\ Front(s) = below
  BY <1>2, TopOfStack
<1>4. Top' = frame /\ Front(stack)' = below
  BY <1>1, <1>3 DEF Top
<1>5. Pending(Front(stack), Top.id)' /\ FrameFresh(Top)' /\ Origin(Front(stack), Top.id)' = Origin(below, frame.id)
  BY <1>4 DEF Pending, FrameFresh, EnsureFresh, EvaluateFresh, Done, Origin
<1>6. StackFresh'
  BY <1>5, Distinct DEF StackFresh
<1>7. AnswersAreFresh'
  BY <1>2 DEF AnswersAreFresh
<1> QED
  BY <1>6, <1>7

-----------------------------------------------------------------------------
(* The calls, and what they give.                                          *)

\* The frames below wait for id, in the end for the owner of the database.
Asking(below, id) ==
    /\ DataTyped /\ ClosureRetained /\ EntriesFresh
    /\ Suspended(below, id) /\ Pending(below, id)
    /\ asked' = Origin(below, id) /\ asked' \in Ids
    /\ program' = program /\ revision' = revision

\* The answer for id.
LEMMA ReturnSteady ==
    ASSUME Steady, NEW id \in Ids, NEW below, Asking(below, id), NEW result, Return(result, below),
           result = Scratch(id),
           \A k \in 1 .. Len(below) : entries'[below[k].id] = entries[below[k].id]
    PROVE  StackFresh' /\ AnswersAreFresh'
<1>1. Pending(below, id)'
  BY PendingSteady DEF Asking
<1>2. result = Scratch(id)'
  BY SteadyParts
<1> QED
  BY <1>1, <1>2, ReturnsFresh DEF Asking

\* A call that has more to do.
LEMMA PushSteady ==
    ASSUME NEW frame \in Frames, NEW below, Asking(below, frame.id), Push(frame, below),
           FrameFresh(frame), entries' = entries
    PROVE  FreshInv'
<1>1. Steady
  BY DEF Asking, Steady, SameInputs
<1>2. Pending(below, frame.id)' /\ FrameFresh(frame)'
  <2>1. Pending(below, frame.id)'
    <3>1. PICK id : id = frame.id
      OBVIOUS
    <3> QED
      BY <1>1, <3>1, PendingSteady DEF Asking
  <2> QED
    BY <1>1, <2>1, FrameSteady
<1>3. StackFresh' /\ AnswersAreFresh'
  BY <1>2, PushesFresh DEF Asking, Suspended
<1>4. EntriesFresh'
  BY <1>1, EntriesRenewed DEF Asking
<1> QED
  BY <1>3, <1>4 DEF FreshInv

\* Confirming an entry keeps its value and its dependencies.
LEMMA TouchedSteady ==
    ASSUME DataTyped, NEW id \in Ids, entries[id] # None, entries' = Touched(id),
           program' = program, revision' = revision
    PROVE  /\ Steady
           /\ \A x \in Ids : x # id => entries'[x] = entries[x]
           /\ entries'[id].value = entries[id].value
           /\ entries'[id].deps = entries[id].deps
           /\ entries[id].verified = revision => entries'[id] = entries[id]
<1>1. PICK r \in EntryRecords : r = entries[id]
  BY DEF DataTyped
<1>2. PICK e : e = [r EXCEPT !.verified = revision]
  OBVIOUS
<1>3. e \in EntryRecords /\ e.value = r.value /\ e.deps = r.deps
  BY <1>1, <1>2 DEF EntryRecords, DataTyped
<1>4. entries'[id] = e /\ \A x \in Ids : x # id => entries'[x] = entries[x]
  BY <1>1, <1>2 DEF Touched, DataTyped
<1>5. r.verified = revision => e = r
  BY <1>1, <1>2 DEF EntryRecords
<1>6. e # None
  BY <1>3, Distinct
<1>7. Steady
  <2>1. ASSUME NEW i \in Inputs
        PROVE  (entries'[i] = None <=> entries[i] = None) /\ (entries[i] # None => entries'[i].value = entries[i].value)
    <3>1. i \in Ids
      BY DEF Ids
    <3> QED
      BY <1>1, <1>3, <1>4, <1>6, <3>1
  <2> QED
    BY <2>1 DEF Steady, SameInputs
<1> QED
  BY <1>1, <1>3, <1>4, <1>5, <1>7

\* An input, a query verified in this revision, or one whose dependencies are to be looked at.
LEMMA EnsureAnswers ==
    ASSUME NEW id \in Ids, NEW below, Asking(below, id), id \in Inputs \/ entries[id] # None,
           Ensure(id, below)
    PROVE  FreshInv'
<1>1. CASE entries[id] = None
  <2>1. Return("missing", below) /\ entries' = entries /\ id \in Inputs
    BY <1>1 DEF Ensure
  <2>2. Scratch(id) = "missing"
    BY <1>1, <2>1, ScratchOfInput
  <2>3. Steady
    BY <2>1 DEF Asking, Steady, SameInputs
  <2>4. StackFresh' /\ AnswersAreFresh'
    BY <2>1, <2>2, <2>3, ReturnSteady
  <2>5. EntriesFresh'
    BY <2>1, <2>3, EntriesRenewed DEF Asking
  <2> QED
    BY <2>4, <2>5 DEF FreshInv
<1>2. CASE entries[id] # None /\ (entries[id].verified = revision \/ id \in Inputs)
  <2>1. Return(entries[id].value, below) /\ entries' = Touched(id)
    <3>1. id \in Queries => id \notin Inputs
      BY Distinct
    <3> QED
      BY <1>2, <3>1 DEF Ensure
  <2>2. /\ Steady
        /\ \A x \in Ids : x # id => entries'[x] = entries[x]
        /\ entries[id].verified = revision => entries'[id] = entries[id]
    BY <1>2, <2>1, TouchedSteady DEF Asking
  <2>3. \A q \in Queries : entries'[q] = entries[q]
    <3>1. \A q \in Queries : q \in Ids /\ q \notin Inputs
      BY Distinct
    <3> QED
      BY <1>2, <2>2, <3>1
  <2>4. entries[id].value = Scratch(id)
    <3>1. CASE id \in Inputs
      BY <1>2, <3>1, ScratchOfInput
    <3>2. CASE id \notin Inputs
      <4>1. id \in Queries /\ entries[id].verified = revision
        BY <1>2, <3>2 DEF Ids
      <4>2. PICK e \in EntryRecords : e = entries[id]
        BY <1>2 DEF Asking, DataTyped
      <4>3. Shaped(id, e) /\ Truthful(e.deps)
        BY <1>2, <4>1, <4>2 DEF Asking, EntriesFresh
      <4> QED
        BY <4>1, <4>2, <4>3, TruthfulEntry DEF Asking
    <3> QED
      BY <3>1, <3>2
  <2>5. PICK v : v = entries[id].value
    OBVIOUS
  <2>6. \A k \in 1 .. Len(below) : below[k].id \in Queries
    <3>1. \A k \in 1 .. Len(below) : below[k] \in Frames
      BY ElementOfSeq DEF Asking, Suspended
    <3> QED
      BY <3>1 DEF Frames
  <2>7. StackFresh' /\ AnswersAreFresh'
    BY <2>1, <2>2, <2>3, <2>4, <2>5, <2>6, ReturnSteady
  <2>8. EntriesFresh'
    BY <2>2, <2>3, EntriesRenewed DEF Asking
  <2> QED
    BY <2>7, <2>8 DEF FreshInv
<1>3. CASE entries[id] # None /\ entries[id].verified # revision /\ id \in Queries
  <2>1. Push(EnsureFrame(id), below) /\ entries' = entries
    <3>1. id \notin Inputs
      BY <1>3, Distinct
    <3> QED
      BY <1>3, <3>1 DEF Ensure
  <2>2. PICK e \in EntryRecords : e = entries[id]
    BY <1>3 DEF Asking, DataTyped
  <2>3. e.deps \in Seq(Dependencies) /\ Len(e.deps) \in Nat /\ e.verified \in Nat /\ e.verified < revision
    <3>1. e.deps \in Seq(Dependencies) /\ e.verified \in Nat
      BY DEF EntryRecords
    <3>2. e.verified <= revision /\ e.verified # revision /\ revision \in Nat
      BY <1>3, <2>2 DEF Asking, DataTyped
    <3> QED
      BY <3>1, <3>2, LenProperties
  <2>4. PICK f : f = EnsureFrame(id)
    OBVIOUS
  <2>5. f \in Frames /\ f.op = "ensure" /\ f.id = id /\ f.todo = e.deps
    <3>1. <<>> \in Seq(Dependencies) /\ <<>> \in Seq(Values)
      BY EmptySeq
    <3> QED
      BY <1>3, <2>2, <2>3, <2>4, <3>1 DEF EnsureFrame, Frames
  <2>6. FrameFresh(f)
    <3>1. Done(f) = 0
      BY <2>2, <2>3, <2>5 DEF Done
    <3>2. \A i \in 1 .. Len(f.todo) : f.todo[i] = e.deps[0 + i]
      BY <2>3, <2>5
    <3> QED
      BY <1>3, <2>2, <2>3, <2>5, <3>1, <3>2 DEF FrameFresh, EnsureFresh
  <2> QED
    BY <2>1, <2>4, <2>5, <2>6, PushSteady
<1> QED
  BY <1>1, <1>2, <1>3 DEF Ensure, Ids

\* Beginning an evaluation, or reporting a cycle.
LEMMA EvaluateAnswers ==
    ASSUME NEW id \in Queries, NEW below, Asking(below, id),
           entries[id] # None => entries[id].verified < revision /\ ~Truthful(entries[id].deps),
           Evaluate(id, below)
    PROVE  FreshInv'
<1>1. entries' = entries /\ id \in Ids
  BY Distinct DEF Evaluate
<1>2. CASE id \in Evaluating(below)
  <2>1. PICK i \in 1 .. Len(below) : below[i].id = id
    BY <1>2 DEF Evaluating
  <2>2. Deeper(id, id)
    BY <2>1 DEF Asking, Pending
  <2>3. Scratch(id) = "cycle"
    BY <2>2, DeeperThanItself DEF Asking
  <2>4. Steady
    BY <1>1 DEF Asking, Steady, SameInputs
  <2>5. StackFresh' /\ AnswersAreFresh'
    BY <1>1, <1>2, <2>3, <2>4, ReturnSteady DEF Evaluate
  <2>6. EntriesFresh'
    BY <1>1, <2>4, EntriesRenewed DEF Asking
  <2> QED
    BY <2>5, <2>6 DEF FreshInv
<1>3. CASE id \notin Evaluating(below)
  <2>1. PICK f : f = EvaluateFrame(id)
    OBVIOUS
  <2>2. f \in Frames /\ f.op = "evaluate" /\ f.id = id /\ f.deps = <<>> /\ f.seen = <<>>
    <3>1. <<>> \in Seq(Dependencies) /\ <<>> \in Seq(Values)
      BY EmptySeq
    <3> QED
      BY <2>1, <3>1 DEF EvaluateFrame, Frames
  <2>3. FrameFresh(f)
    <3>1. Len(f.seen) = 0
      BY <2>2
    <3> QED
      BY <2>2, <3>1 DEF FrameFresh, EvaluateFresh
  <2> QED
    BY <1>1, <1>3, <2>1, <2>2, <2>3, PushSteady DEF Evaluate
<1> QED
  BY <1>2, <1>3

\* Asking for an input or a query.
LEMMA CallAnswers ==
    ASSUME NEW id \in Ids, NEW below, Asking(below, id), Call(id, below)
    PROVE  FreshInv'
<1>1. CASE id \in Queries /\ entries[id] = None
  BY <1>1, EvaluateAnswers DEF Call
<1>2. CASE ~(id \in Queries /\ entries[id] = None)
  BY <1>2, EnsureAnswers DEF Call, Ids
<1> QED
  BY <1>1, <1>2

-----------------------------------------------------------------------------
(* The steps of the frame on top of the stack, and what they give.         *)

FreshFramed(below, top) ==
    /\ Framed(below, top)
    /\ EntriesFresh /\ Pending(below, top.id) /\ FrameFresh(top)
    /\ asked = Origin(below, top.id) /\ asked \in Ids /\ asked' = asked
    /\ reply # None => reply = Scratch(Wants(top))

\* The frames below wait for the one on top.
LEMMA AskingBelow ==
    ASSUME NEW below, NEW top, FreshFramed(below, top)
    PROVE  Asking(below, top.id)
<1> QED
  BY DEF FreshFramed, Framed, Asking

\* The whole stack waits for what the frame on top reads.
LEMMA AskingTop ==
    ASSUME NEW below, NEW top, FreshFramed(below, top), Waits(top),
           NEW id \in Ids, id = Wants(top), NEW s, s = stack
    PROVE  Asking(s, id)
<1>1. /\ below \in Seq(Frames) /\ top \in Frames /\ s = Append(below, top)
      /\ DataTyped /\ ClosureRetained /\ EntriesFresh
      /\ Suspended(below, top.id) /\ FrameOK(top) /\ Pending(below, top.id) /\ FrameFresh(top)
      /\ asked' = Origin(below, top.id) /\ asked' \in Ids
      /\ program' = program /\ revision' = revision
  BY DEF FreshFramed, Framed
<1>2. Suspended(s, id)
  BY <1>1, SuspendTop
<1>3. Pending(s, id)
  BY <1>1, PendingTop
<1>4. Origin(s, id) = Origin(below, top.id)
  BY <1>1, OriginBelow
<1> QED
  BY <1>1, <1>2, <1>3, <1>4 DEF Asking

\* The frame on top is replaced by one that has taken the result into account.
LEMMA ResumesFresh ==
    ASSUME NEW below, NEW top, FreshFramed(below, top), NEW f \in Frames, f.id = top.id, FrameFresh(f),
           stack' = [stack EXCEPT ![Len(stack)] = f], reply' = None, entries' = entries
    PROVE  FreshInv'
<1>1. PICK s : s = stack
  OBVIOUS
<1>2. below \in Seq(Frames) /\ top \in Frames /\ s = Append(below, top)
  BY <1>1 DEF FreshFramed, Framed
<1>3. [s EXCEPT ![Len(s)] = f] = Append(below, f)
  BY <1>2, TopOfStack
<1>4. Push(f, below)
  BY <1>1, <1>3 DEF Push
<1>5. Asking(below, f.id)
  BY AskingBelow
<1> QED
  BY <1>4, <1>5, PushSteady

\* What a verification has done with, and what it has left to look at.
LEMMA NextDependency ==
    ASSUME NEW below, NEW top, FreshFramed(below, top), top.op = "ensure"
    PROVE  /\ entries[top.id] \in EntryRecords
           /\ entries[top.id].verified < revision
           /\ Done(top) \in Nat /\ Len(top.todo) \in Nat
           /\ Len(entries[top.id].deps) = Done(top) + Len(top.todo)
           /\ \A i \in 1 .. Done(top) : entries[top.id].deps[i].value = Scratch(entries[top.id].deps[i].id)
           /\ \A i \in 1 .. Len(top.todo) : top.todo[i] = entries[top.id].deps[Done(top) + i]
<1>1. top.id \in Ids /\ top.todo \in Seq(Dependencies)
  BY Distinct DEF FreshFramed, Framed, Frames
<1>2. EnsureFresh(top)
  BY DEF FreshFramed, FrameFresh
<1>3. entries[top.id] \in EntryRecords
  BY <1>1, <1>2 DEF FreshFramed, Framed, DataTyped, EnsureFresh
<1>4. PICK a, b \in Nat : a = Len(entries[top.id].deps) /\ b = Len(top.todo)
  <2>1. entries[top.id].deps \in Seq(Dependencies)
    BY <1>3 DEF EntryRecords
  <2> QED
    BY <1>1, <2>1, LenProperties
<1>5. Done(top) = a - b /\ a - b >= 0
  BY <1>2, <1>4 DEF EnsureFresh, Done
<1>6. Done(top) \in Nat /\ a = Done(top) + b
  BY <1>5
<1> QED
  BY <1>2, <1>3, <1>4, <1>6 DEF EnsureFresh

\* The dependency a verification looks at next is one of those its entry recorded.
LEMMA HeadDependency ==
    ASSUME NEW below, NEW top, FreshFramed(below, top), top.op = "ensure", top.todo # <<>>
    PROVE  /\ Done(top) + 1 \in 1 .. Len(entries[top.id].deps)
           /\ Head(top.todo) = entries[top.id].deps[Done(top) + 1]
<1>1. top.todo \in Seq(Dependencies)
  BY DEF FreshFramed, Framed, Frames
<1>2. Len(top.todo) \in Nat \ {0} /\ Head(top.todo) = top.todo[1]
  BY <1>1, EmptySeq
<1>3. PICK n \in Nat : n = Done(top)
  BY NextDependency
<1>4. /\ Len(entries[top.id].deps) = n + Len(top.todo)
      /\ \A i \in 1 .. Len(top.todo) : top.todo[i] = entries[top.id].deps[n + i]
  BY <1>3, NextDependency
<1>5. 1 \in 1 .. Len(top.todo)
  BY <1>2
<1> QED
  BY <1>2, <1>3, <1>4, <1>5

\* Verification of the next recorded dependency, which is retained.
LEMMA VerifyFresh ==
    ASSUME NEW below, NEW top, FreshFramed(below, top), Verify
    PROVE  FreshInv'
<1>1. top \in Frames /\ top.op = "ensure" /\ top.todo # <<>> /\ Ensure(Head(top.todo).id, stack)
  BY DEF FreshFramed, Framed, Verify, At
<1>2. Waits(top) /\ Wants(top) = Head(top.todo).id
  BY <1>1 DEF Waits, Wants
<1>3. PICK id \in Ids : id = Wants(top)
  BY <1>1, <1>2, WantsTyped DEF FreshFramed, Framed
<1>4. PICK s : s = stack
  OBVIOUS
<1>5. Asking(s, id)
  BY <1>2, <1>3, <1>4, AskingTop
<1>6. entries[id] # None
  <2>1. PICK q, k : q \in Queries /\ q = top.id /\ k = Done(top) + 1
    BY <1>1 DEF Frames
  <2>2. k \in 1 .. Len(entries[q].deps) /\ entries[q].deps[k].id = id
    BY <1>1, <1>2, <1>3, <2>1, HeadDependency
  <2>3. entries[q] # None
    BY <1>1, <2>1, NextDependency, Distinct
  <2>4. Retained(entries[q].deps[k].id, entries[q].verified)
    BY <2>1, <2>2, <2>3, ClosureOf DEF FreshFramed, Framed
  <2> QED
    BY <2>2, <2>4 DEF Retained
<1>7. Ensure(id, s)
  BY <1>1, <1>2, <1>3, <1>4
<1> QED
  BY <1>5, <1>6, <1>7, EnsureAnswers

\* A dependency with its old fingerprint: one more is worth what it was.
LEMMA UnchangedFresh ==
    ASSUME NEW below, NEW top, FreshFramed(below, top), Unchanged
    PROVE  FreshInv'
<1>1. /\ top \in Frames /\ top.op = "ensure" /\ reply \in Values /\ reply = Head(top.todo).value
      /\ stack' = [stack EXCEPT ![Len(stack)].todo = Tail(@)]
      /\ reply' = None /\ entries' = entries
  BY DEF FreshFramed, Framed, Unchanged, At
<1>2. Waits(top) /\ reply = Scratch(Wants(top))
  BY <1>1, Distinct DEF FreshFramed, Framed
<1>3. top.todo \in Seq(Dependencies) /\ top.todo # <<>> /\ Head(top.todo).value = Scratch(Head(top.todo).id)
  BY <1>1, <1>2 DEF Waits, Wants, Frames
<1>4. PICK t : t = Tail(top.todo)
  OBVIOUS
<1>5. /\ t \in Seq(Dependencies) /\ Len(t) = Len(top.todo) - 1 /\ Len(t) \in Nat
      /\ \A i \in 1 .. Len(t) : t[i] = top.todo[i + 1]
  <2>1. t \in Seq(Dependencies) /\ Len(t) = Len(top.todo) - 1 /\ \A i \in 1 .. Len(t) : t[i] = top.todo[i + 1]
    BY <1>3, <1>4, HeadTailProperties
  <2> QED
    BY <1>3, <2>1, LenProperties
<1>6. PICK f : f = [top EXCEPT !.todo = t]
  OBVIOUS
<1>7. f \in Frames /\ f.id = top.id /\ f.op = "ensure" /\ f.todo = t
  BY <1>1, <1>5, <1>6 DEF Frames
<1>8. FrameFresh(f)
  <2>1. PICK e \in EntryRecords : e = entries[top.id]
    BY <1>1, NextDependency
  <2>2. PICK n \in Nat : n = Done(top)
    BY <1>1, NextDependency
  <2>3. PICK l \in Nat : l = Len(t) /\ Len(top.todo) = l + 1
    BY <1>3, <1>5, LenProperties
  <2>4. /\ e.verified < revision
        /\ Len(e.deps) = n + (l + 1)
        /\ \A i \in 1 .. n : e.deps[i].value = Scratch(e.deps[i].id)
        /\ \A i \in 1 .. l + 1 : top.todo[i] = e.deps[n + i]
    BY <1>1, <2>1, <2>2, <2>3, NextDependency
  <2>5. Done(f) = n + 1
    <3>1. n + (l + 1) - l = n + 1
      OBVIOUS
    <3> QED
      BY <1>7, <2>1, <2>3, <2>4, <3>1 DEF Done
  <2>6. \A i \in 1 .. n + 1 : e.deps[i].value = Scratch(e.deps[i].id)
    <3>1. e.deps[n + 1].value = Scratch(e.deps[n + 1].id)
      BY <1>1, <1>3, <2>1, <2>2, HeadDependency
    <3>2. \A i \in 1 .. n + 1 : i \in 1 .. n \/ i = n + 1
      OBVIOUS
    <3> QED
      BY <2>4, <3>1, <3>2
  <2>7. \A i \in 1 .. l : t[i] = e.deps[n + 1 + i]
    <3> SUFFICES ASSUME NEW i \in 1 .. l PROVE t[i] = e.deps[n + 1 + i]
      OBVIOUS
    <3>1. t[i] = top.todo[i + 1] /\ i + 1 \in 1 .. l + 1 /\ n + (i + 1) = n + 1 + i
      BY <1>5, <2>3
    <3> QED
      BY <2>4, <3>1
  <2>8. entries[f.id] = e /\ e # None
    BY <1>7, <2>1, Distinct
  <2> QED
    BY <1>7, <2>3, <2>4, <2>5, <2>6, <2>7, <2>8 DEF FrameFresh, EnsureFresh
<1>9. PICK s : s = stack
  OBVIOUS
<1>10. [s EXCEPT ![Len(s)].todo = Tail(@)] = [s EXCEPT ![Len(s)] = f]
  BY <1>4, <1>6, <1>9 DEF FreshFramed, Framed, Top
<1> QED
  BY <1>1, <1>7, <1>8, <1>9, <1>10, ResumesFresh

\* A dependency that is worth something else: the query is evaluated again.
LEMMA ChangedFresh ==
    ASSUME NEW below, NEW top, FreshFramed(below, top), Changed
    PROVE  FreshInv'
<1>1. PICK id \in Queries : id = top.id
  BY DEF FreshFramed, Framed, Frames
<1>2. /\ top \in Frames /\ top.op = "ensure" /\ Evaluate(id, below)
      /\ reply \in Values /\ reply # Head(top.todo).value
  BY <1>1 DEF FreshFramed, Framed, Changed, At
<1>3. top.todo # <<>> /\ Head(top.todo).value # Scratch(Head(top.todo).id)
  BY <1>2, Distinct DEF FreshFramed, Framed, Waits, Wants
<1>4. ~Truthful(entries[id].deps)
  BY <1>1, <1>2, <1>3, HeadDependency DEF Truthful
<1>5. entries[id].verified < revision
  BY <1>1, <1>2, NextDependency
<1>6. Asking(below, id)
  BY <1>1, AskingBelow
<1> QED
  BY <1>2, <1>4, <1>5, <1>6, EvaluateAnswers

\* No frame below one whose query has a value is about the same query.
LEMMA NoneBelow ==
    ASSUME NEW below, NEW top, FreshFramed(below, top), Scratch(top.id) \in Values
    PROVE  \A k \in 1 .. Len(below) : below[k].id # top.id
<1> SUFFICES ASSUME NEW k \in 1 .. Len(below), below[k].id = top.id PROVE FALSE
  OBVIOUS
<1>1. PICK q \in Queries : q = top.id
  BY DEF FreshFramed, Framed, Frames
<1>2. Deeper(q, q)
  BY <1>1 DEF FreshFramed, Pending
<1>3. Scratch(q) = "cycle"
  BY <1>2, DeeperThanItself DEF FreshFramed, Framed
<1> QED
  BY <1>1, <1>3, Distinct

\* The value of a query, with an entry that rests on what its dependencies are worth.
LEMMA AnswerStored ==
    ASSUME NEW below, NEW top, FreshFramed(below, top), NEW id \in Queries, id = top.id,
           NEW v \in Values, v = Scratch(id), Return(v, below),
           Steady, \A x \in Ids : x # id => entries'[x] = entries[x],
           Shaped(id, entries'[id]), Truthful(entries'[id].deps)
    PROVE  FreshInv'
<1>1. \A k \in 1 .. Len(below) : entries'[below[k].id] = entries[below[k].id]
  <2>1. \A k \in 1 .. Len(below) : below[k].id # id
    BY NoneBelow
  <2>2. \A k \in 1 .. Len(below) : below[k] \in Frames
    BY ElementOfSeq DEF FreshFramed, Framed
  <2>3. \A k \in 1 .. Len(below) : below[k].id \in Ids
    BY <2>2, Distinct DEF Frames
  <2> QED
    BY <2>1, <2>3
<1>2. Asking(below, id) /\ id \in Ids
  BY AskingBelow, Distinct
<1>3. StackFresh' /\ AnswersAreFresh'
  BY <1>1, <1>2, ReturnSteady
<1>4. EntriesFresh'
  BY Distinct, EntriesRenewed DEF FreshFramed
<1> QED
  BY <1>3, <1>4 DEF FreshInv

\* All dependencies are worth what they were: so is the query.
LEMMA ConfirmFresh ==
    ASSUME NEW below, NEW top, FreshFramed(below, top), Confirm
    PROVE  FreshInv'
<1>1. PICK id \in Queries : id = top.id
  BY DEF FreshFramed, Framed, Frames
<1>2. /\ top.op = "ensure" /\ top.todo = <<>> /\ id \in Ids
      /\ entries' = Touched(id)
      /\ Return(entries[id].value, below)
  BY <1>1, Distinct DEF FreshFramed, Framed, Confirm, At
<1>3. PICK e \in EntryRecords : e = entries[id]
  BY <1>1, <1>2, NextDependency
<1>4. Truthful(e.deps)
  <2>1. PICK n \in Nat : n = Done(top)
    BY <1>2, NextDependency
  <2>2. Len(top.todo) = 0
    BY <1>2
  <2>3. Len(e.deps) = n
    BY <1>1, <1>2, <1>3, <2>1, <2>2, NextDependency
  <2>4. \A i \in 1 .. n : e.deps[i].value = Scratch(e.deps[i].id)
    BY <1>1, <1>2, <1>3, <2>1, NextDependency
  <2> QED
    BY <2>3, <2>4 DEF Truthful
<1>5. Shaped(id, e) /\ e # None
  BY <1>3, Distinct DEF FreshFramed, EntriesFresh
<1>6. e.value = Scratch(id) /\ e.value \in Values
  BY <1>3, <1>4, <1>5, TruthfulEntry DEF FreshFramed, Framed, EntryRecords
<1>7. /\ Steady
      /\ \A x \in Ids : x # id => entries'[x] = entries[x]
      /\ entries'[id].value = e.value
      /\ entries'[id].deps = e.deps
  BY <1>2, <1>3, <1>5, TouchedSteady DEF FreshFramed, Framed
<1>8. Shaped(id, entries'[id]) /\ Truthful(entries'[id].deps)
  BY <1>4, <1>5, <1>7 DEF Shaped
<1>9. PICK v \in Values : v = e.value
  BY <1>6
<1> QED
  BY <1>1, <1>2, <1>3, <1>6, <1>7, <1>8, <1>9, AnswerStored

\* An evaluation reads its next dependency.
LEMMA ReadFresh ==
    ASSUME NEW below, NEW top, FreshFramed(below, top), Read
    PROVE  FreshInv'
<1>1. top \in Frames /\ top.op = "evaluate" /\ DataTyped
  BY DEF FreshFramed, Framed, Read, At
<1>2. PICK id : id = NextRead(top.id, top.seen)
  OBVIOUS
<1>3. PICK s : s = stack
  OBVIOUS
<1>4. id # None /\ Call(id, s)
  BY <1>2, <1>3 DEF FreshFramed, Framed, Read
<1>5. id \in Ids /\ Waits(top) /\ Wants(top) = id
  BY <1>1, <1>2, <1>4, NextReadTyped DEF Waits, Wants
<1>6. Asking(s, id)
  BY <1>3, <1>5, AskingTop
<1> QED
  BY <1>4, <1>5, <1>6, CallAnswers

\* An evaluation records what it was given for what it reads.
LEMMA AbsorbFresh ==
    ASSUME NEW below, NEW top, FreshFramed(below, top), Absorb
    PROVE  FreshInv'
<1>1. /\ top \in Frames /\ top.op = "evaluate" /\ reply \in Values /\ reply' = None /\ entries' = entries
      /\ DataTyped /\ EvaluateFresh(top)
  BY DEF FreshFramed, Framed, FrameFresh, Absorb, At
<1>2. PICK v \in Values : v = reply
  BY <1>1
<1>3. PICK id : id = NextRead(top.id, top.seen)
  OBVIOUS
<1>4. id \in Ids /\ id # None /\ v = Scratch(id)
  <2>1. Waits(top) /\ v = Scratch(Wants(top))
    BY <1>1, <1>2, Distinct DEF FreshFramed, Framed
  <2> QED
    BY <1>1, <1>3, <2>1, WantsTyped, Distinct DEF Wants
<1>5. PICK d \in Dependencies : d = Dependency(id, v)
  BY <1>4 DEF Dependencies, Dependency
<1>6. PICK deps, seen : deps = Recorded(top.deps, id, v) /\ seen = Append(top.seen, v)
  OBVIOUS
<1>7. /\ top.deps \in Seq(Dependencies) /\ top.seen \in Seq(Values)
      /\ Append(top.deps, d) \in Seq(Dependencies) /\ seen \in Seq(Values)
      /\ Len(seen) = Len(top.seen) + 1 /\ Len(top.seen) \in Nat
      /\ seen[Len(top.seen) + 1] = v
      /\ \A i \in 1 .. Len(top.seen) : seen[i] = top.seen[i]
  BY <1>1, <1>6, AppendProperties, LenProperties DEF Frames
<1>8. PICK f : f = [top EXCEPT !.deps = deps, !.seen = seen]
  OBVIOUS
<1>9. deps = IF \E i \in 1 .. Len(top.deps) : top.deps[i].id = id THEN top.deps ELSE Append(top.deps, d)
  BY <1>5, <1>6 DEF Recorded, Dependency
<1>10. f \in Frames /\ f.id = top.id /\ f.op = "evaluate" /\ f.deps = deps /\ f.seen = seen
  BY <1>1, <1>7, <1>8, <1>9 DEF Frames
<1>11. seen # <<>>
  BY <1>7
<1>12. CASE top.seen = <<>>
  <2>1. id = program[top.id].first /\ top.deps = <<>> /\ Len(top.seen) = 0
    BY <1>1, <1>3, <1>12 DEF NextRead, EvaluateFresh
  <2>2. deps = Append(<<>>, d) /\ Len(deps) = 1 /\ deps[1] = d
    <3>1. Len(top.deps) = 0
      BY <2>1
    <3>2. deps = Append(<<>>, d)
      BY <1>9, <2>1, <3>1
    <3> QED
      BY <3>2
  <2>3. Len(seen) = 1 /\ seen[1] = v /\ deps # <<>>
    BY <1>7, <2>1, <2>2
  <2>4. FrameFresh(f)
    BY <1>1, <1>4, <1>5, <1>10, <1>11, <2>1, <2>2, <2>3 DEF FrameFresh, EvaluateFresh
  <2> QED
    BY <2>4, <1>1, <1>2, <1>3, <1>6, <1>8, <1>10, ResumesFresh DEF Absorb, FreshFramed, Framed
<1>13. CASE top.seen # <<>>
  <2>1. PICK s : s = top.seen[1]
    OBVIOUS
  <2>2. Len(top.seen) = 1 /\ id = program[top.id].branch[s]
    BY <1>3, <1>4, <1>13, <2>1 DEF NextRead
  <2>3. s = Scratch(program[top.id].first) /\ Len(top.deps) = 1 /\ top.deps[1] = Dependency(program[top.id].first, s)
    BY <1>1, <1>13, <2>1, <2>2 DEF EvaluateFresh
  <2>4. Len(seen) = 2 /\ seen[1] = s /\ seen[2] = v
    BY <1>7, <2>1, <2>2
  <2>5. deps[1] = top.deps[1] /\ deps # <<>>
        /\ IF id = program[top.id].first THEN Len(deps) = 1 ELSE Len(deps) = 2 /\ deps[2] = d
    <3>1. top.deps[1].id = program[top.id].first
      BY <2>3 DEF Dependency
    <3>2. CASE id = program[top.id].first
      <4>1. deps = top.deps
        BY <1>9, <2>3, <3>1, <3>2
      <4> QED
        BY <2>3, <3>2, <4>1
    <3>3. CASE id # program[top.id].first
      <4>1. deps = Append(top.deps, d)
        BY <1>9, <2>3, <3>1, <3>3
      <4>2. /\ Len(deps) = Len(top.deps) + 1
            /\ \A i \in 1 .. Len(top.deps) : deps[i] = top.deps[i]
            /\ deps[Len(top.deps) + 1] = d
        BY <1>7, <4>1, AppendProperties
      <4>3. Len(deps) = 2 /\ deps[1] = top.deps[1] /\ deps[2] = d
        BY <2>3, <4>2
      <4> QED
        BY <3>3, <4>1, <4>3
    <3> QED
      BY <3>2, <3>3
  <2>6. FrameFresh(f)
    BY <1>1, <1>4, <1>5, <1>10, <1>11, <2>2, <2>3, <2>4, <2>5 DEF FrameFresh, EvaluateFresh
  <2> QED
    BY <2>6, <1>1, <1>2, <1>3, <1>6, <1>8, <1>10, ResumesFresh DEF Absorb, FreshFramed, Framed
<1> QED
  BY <1>12, <1>13

\* A finished evaluation gives and stores what one from scratch would.
LEMMA FinishFresh ==
    ASSUME NEW below, NEW top, FreshFramed(below, top), Finish
    PROVE  FreshInv'
<1>1. /\ top \in Frames /\ top.op = "evaluate" /\ NextRead(top.id, top.seen) = None
      /\ DataTyped /\ ClosureRetained /\ EntriesFresh /\ EvaluateFresh(top)
      /\ program' = program /\ revision' = revision
  BY DEF FreshFramed, Framed, FrameFresh, Finish, At
<1>2. PICK id \in Queries : id = top.id
  BY <1>1 DEF Frames
<1>3. PICK result \in Values \cup {"fails"} : result = program[id].out[Last(top.seen)]
  BY <1>1, <1>2, NextReadTyped, ProviderTyped
<1>4. /\ Return(result, below)
      /\ entries' = IF result \in Errors THEN entries ELSE [entries EXCEPT ![id] = Entry(result, top.deps)]
  BY <1>2, <1>3 DEF FreshFramed, Framed, Finish
<1>5. PICK p : p = program[id]
  OBVIOUS
<1>6. PICK s : s = top.seen[1]
  OBVIOUS
<1>7. top.deps \in Seq(Dependencies) /\ top.seen \in Seq(Values) /\ p.first \in Ids
  BY <1>1, <1>2, <1>5, ProviderTyped DEF Frames
<1>8. top.seen # <<>> /\ Len(top.seen) \in 1 .. 2
  <2>1. top.seen # <<>>
    BY <1>1, <1>2, <1>5, <1>7, Distinct DEF NextRead
  <2>2. PICK l \in Nat \ {0} : l = Len(top.seen)
    BY <1>7, <2>1, EmptySeq
  <2>3. l <= 2
    BY <1>1, <2>2 DEF EvaluateFresh
  <2>4. l \in 1 .. 2
    BY <2>3
  <2> QED
    BY <2>1, <2>2, <2>4
<1>9. s \in Values /\ s = Scratch(p.first) /\ top.deps[1] = Dependency(p.first, s)
  <2>1. s \in Values
    BY <1>6, <1>7, <1>8, ElementOfSeq
  <2> QED
    BY <1>1, <1>2, <1>5, <1>6, <1>8, <2>1 DEF EvaluateFresh
<1>10. PICK g : g = p.branch[s]
  OBVIOUS
<1>11. Scratch(id) = IF g = None THEN p.out[s]
                     ELSE IF Scratch(g) \in Values THEN p.out[Scratch(g)] ELSE Scratch(g)
  BY <1>1, <1>5, <1>9, <1>10, ScratchOfQuery
<1>12. /\ result = Scratch(id)
       /\ Len(top.deps) \in 1 .. 2
       /\ \/ g \in {None, p.first} /\ Len(top.deps) = 1 /\ result = p.out[s]
          \/ /\ g \notin {None, p.first} /\ Len(top.deps) = 2
             /\ Scratch(g) \in Values /\ top.deps[2] = Dependency(g, Scratch(g)) /\ result = p.out[Scratch(g)]
  <2>1. CASE Len(top.seen) = 1
    <3>1. g = None /\ Last(top.seen) = s
      BY <1>1, <1>2, <1>5, <1>6, <1>8, <1>10, <2>1 DEF NextRead, Last
    <3>2. Len(top.deps) = 1
      BY <1>1, <2>1 DEF EvaluateFresh
    <3> QED
      BY <1>3, <1>5, <1>11, <3>1, <3>2
  <2>2. CASE Len(top.seen) = 2
    <3>1. PICK b \in Values : b = top.seen[2] /\ Last(top.seen) = b
      <4>1. top.seen[2] \in Values
        BY <1>7, <2>2, ElementOfSeq
      <4> QED
        BY <2>2, <4>1 DEF Last
    <3>2. /\ g # None /\ b = Scratch(g)
          /\ IF g = p.first THEN Len(top.deps) = 1 ELSE Len(top.deps) = 2 /\ top.deps[2] = Dependency(g, b)
      BY <1>1, <1>2, <1>5, <1>6, <1>10, <2>2, <3>1 DEF EvaluateFresh
    <3> QED
      BY <1>3, <1>5, <1>9, <1>11, <3>1, <3>2
  <2> QED
    BY <1>8, <2>1, <2>2
<1>13. CASE result \in Errors
  <2>1. entries' = entries /\ Steady /\ id \in Ids
    BY <1>1, <1>4, <1>13, Distinct DEF Steady, SameInputs
  <2>2. Asking(below, id)
    BY <1>2, AskingBelow
  <2>3. StackFresh' /\ AnswersAreFresh'
    BY <1>4, <1>12, <2>1, <2>2, ReturnSteady
  <2>4. EntriesFresh'
    BY <1>1, <2>1, EntriesRenewed
  <2> QED
    BY <2>3, <2>4 DEF FreshInv
<1>14. CASE result \notin Errors
  <2>1. PICK v \in Values : v = result
    BY <1>14, Distinct
  <2>2. PICK e : e = Entry(v, top.deps)
    OBVIOUS
  <2>3. e.value = v /\ e.deps = top.deps
    BY <2>2 DEF Entry
  <2>4. /\ entries'[id] = e /\ id \in Ids /\ id \notin Inputs
        /\ \A x \in Ids : x # id => entries'[x] = entries[x]
    BY <1>1, <1>4, <1>14, <2>1, <2>2, Distinct DEF DataTyped
  <2>5. Steady
    BY <1>1, <2>4 DEF Steady, SameInputs, Ids
  <2>6. Shaped(id, e)
    BY <1>5, <1>9, <1>10, <1>12, <2>1, <2>3 DEF Shaped, Dependency
  <2>7. Truthful(e.deps)
    <3>1. ASSUME NEW i \in 1 .. Len(top.deps) PROVE top.deps[i].value = Scratch(top.deps[i].id)
      <4>1. CASE i = 1
        BY <1>9, <4>1 DEF Dependency
      <4>2. CASE i # 1
        <5>1. PICK l \in 1 .. 2 : l = Len(top.deps)
          BY <1>12
        <5>2. i = 2 /\ l = 2
          <6>1. i \in 1 .. l
            BY <5>1
          <6> QED
            BY <4>2, <6>1
        <5>3. top.deps[2] = Dependency(g, Scratch(g))
          BY <1>12, <5>1, <5>2
        <5> QED
          BY <5>2, <5>3 DEF Dependency
      <4> QED
        BY <4>1, <4>2
    <3> QED
      BY <2>3, <3>1 DEF Truthful
  <2> QED
    BY <1>2, <1>4, <1>12, <2>1, <2>4, <2>5, <2>6, <2>7, AnswerStored
<1> QED
  BY <1>13, <1>14

\* An error is passed on, as an evaluation from scratch would.
LEMMA PropagateFresh ==
    ASSUME NEW below, NEW top, FreshFramed(below, top), Propagate
    PROVE  FreshInv'
<1>1. PICK result \in Errors : result = reply
  BY DEF Propagate
<1>2. Return(result, below) /\ entries' = entries
  BY <1>1 DEF FreshFramed, Framed, Propagate
<1>3. DataTyped /\ EntriesFresh /\ top \in Frames /\ FrameFresh(top) /\ Waits(top) /\ result = Scratch(Wants(top))
  BY <1>1, Distinct DEF FreshFramed, Framed
<1>4. PICK id, wanted : id \in Queries /\ id = top.id /\ wanted = Wants(top)
  BY <1>3 DEF Frames
<1>5. Scratch(id) = result
  BY <1>3, <1>4, WaitingReads, ErrorPassedOn
<1>6. Asking(below, id) /\ id \in Ids
  BY <1>4, AskingBelow, Distinct
<1>7. Steady
  BY <1>2, <1>6 DEF Asking, Steady, SameInputs
<1>8. StackFresh' /\ AnswersAreFresh'
  BY <1>2, <1>5, <1>6, <1>7, ReturnSteady
<1>9. EntriesFresh'
  BY <1>2, <1>3, <1>7, EntriesRenewed
<1> QED
  BY <1>8, <1>9 DEF FreshInv

\* Every step of a query keeps what its frames know, and answers are fresh.
LEMMA StepFresh ==
    ASSUME DatabaseInv, FreshInv, Step
    PROVE  FreshInv'
<1>1. stack # <<>> /\ program' = program /\ revision' = revision /\ asked' = asked
  BY DEF Step, Verify, Unchanged, Changed, Confirm, Read, Absorb, Finish, Propagate, At
<1>2. PICK below \in Seq(Frames), top \in Frames :
          /\ stack = Append(below, top)
          /\ Suspended(below, top.id)
          /\ FrameOK(top)
          /\ reply # None => Waits(top)
          /\ reply \in Values => Current(Wants(top))
  BY <1>1 DEF DatabaseInv, StackInv
<1>3. PICK s : s = stack
  OBVIOUS
<1>4. s[Len(s)] = top /\ Front(s) = below
  BY <1>2, <1>3, TopOfStack
<1>5. Framed(below, top)
  BY <1>1, <1>2, <1>3, <1>4 DEF DatabaseInv, Framed, Top
<1>6. Top = top /\ Front(stack) = below
  BY <1>3, <1>4 DEF Top
<1>7. /\ EntriesFresh /\ Pending(below, top.id) /\ FrameFresh(top)
      /\ asked = Origin(below, top.id) /\ asked \in Ids
  BY <1>1, <1>6 DEF FreshInv, StackFresh
<1>8. ASSUME reply # None PROVE reply = Scratch(Wants(top))
  <2>1. Wanted = Wants(top)
    BY <1>1, <1>6 DEF Wanted, Wants
  <2>2. reply = Scratch(Wanted)
    BY <1>8 DEF FreshInv, AnswersAreFresh
  <2> QED
    BY <2>1, <2>2
<1>9. FreshFramed(below, top)
  BY <1>1, <1>5, <1>7, <1>8 DEF FreshFramed
<1> QED
  BY <1>9, VerifyFresh, UnchangedFresh, ChangedFresh, ConfirmFresh, ReadFresh, AbsorbFresh, FinishFresh, PropagateFresh DEF Step

-----------------------------------------------------------------------------
(* What the owner of the database does between its queries.                *)

\* An empty database knows nothing that could be wrong.
LEMMA InitFresh == Init => FreshInv
<1> SUFFICES ASSUME Init PROVE FreshInv
  OBVIOUS
<1>1. \A q \in Queries : entries[q] = None
  BY Distinct DEF Init
<1> QED
  BY <1>1 DEF Init, FreshInv, EntriesFresh, StackFresh, AnswersAreFresh

\* The first call of a query.
LEMMA AskFresh ==
    ASSUME DatabaseInv, FreshInv, NEW id \in Ids, Ask(id)
    PROVE  FreshInv'
<1>1. PICK s : s = stack
  OBVIOUS
<1>2. s = <<>> /\ Call(id, s) /\ program' = program /\ revision' = revision /\ asked' = id
  BY <1>1 DEF Ask, Idle
<1>3. Suspended(s, id) /\ Pending(s, id) /\ Origin(s, id) = id
  BY <1>2, EmptySeq DEF Suspended, Pending, Origin
<1>4. Asking(s, id)
  BY <1>2, <1>3 DEF Asking, DatabaseInv, FreshInv
<1> QED
  BY <1>2, <1>4, CallAnswers

\* The owner takes the answer.
LEMMA AnswerFresh ==
    ASSUME FreshInv, Answer
    PROVE  FreshInv'
<1>1. entries' = entries /\ program' = program /\ revision' = revision /\ stack' = <<>> /\ reply' = None /\ asked' = None
  BY DEF Answer
<1>2. Steady
  BY <1>1 DEF Steady, SameInputs
<1>3. EntriesFresh'
  BY <1>1, <1>2, EntriesRenewed DEF FreshInv
<1>4. StackFresh' /\ AnswersAreFresh'
  BY <1>1 DEF StackFresh, AnswersAreFresh
<1> QED
  BY <1>3, <1>4 DEF FreshInv

\* A new input revision leaves no query verified, so nothing is said of what it rests on.
LEMMA AdvanceFresh ==
    ASSUME DatabaseInv, FreshInv, NEW changes \in Changes, Advance(changes)
    PROVE  FreshInv'
<1>1. /\ stack' = <<>> /\ reply' = None /\ asked' = None /\ program' = program
      /\ revision \in Nat /\ revision' = revision + 1
  BY DEF Advance, Idle, FreshInv, StackFresh, DatabaseInv, DataTyped
<1>2. PICK S \in SUBSET Inputs : changes \in [S -> Values]
  BY DEF Changes
<1>3. ASSUME NEW q \in Queries PROVE entries'[q] = entries[q]
  <2>1. q \in Ids /\ q \notin DOMAIN changes
    BY <1>2, Distinct
  <2> QED
    BY <2>1 DEF Advance
<1>4. ASSUME NEW q \in Queries, entries'[q] # None
      PROVE  /\ Shaped(q, entries[q])'
             /\ (entries[q].verified = revision => Truthful(entries[q].deps))'
  <2>1. PICK e \in EntryRecords : e = entries[q] /\ e.verified <= revision
    BY <1>3, <1>4, Distinct DEF DatabaseInv, DataTyped
  <2>2. Shaped(q, e)
    BY <1>3, <1>4, <2>1 DEF FreshInv, EntriesFresh
  <2>3. Shaped(q, e)'
    BY <1>1, <2>2 DEF Shaped
  <2>4. e.verified # revision'
    BY <1>1, <2>1 DEF EntryRecords
  <2> QED
    BY <1>3, <2>1, <2>3, <2>4
<1>5. EntriesFresh'
  BY <1>4 DEF EntriesFresh
<1>6. StackFresh' /\ AnswersAreFresh'
  BY <1>1 DEF StackFresh, AnswersAreFresh
<1> QED
  BY <1>5, <1>6 DEF FreshInv

\* A verified query is evaluated to the same value by two rounds that agree on what it has
\* recorded, as far as the first one gets.
LEMMA EvaluatedAlike ==
    ASSUME DataTyped, NEW q \in Queries, NEW e \in EntryRecords, Shaped(q, e), NEW w, NEW x,
           \A d \in Dependencies :
              (\E i \in 1 .. Len(e.deps) : e.deps[i] = d) /\ w[d.id] # "cycle" => w[d.id] = d.value /\ x[d.id] = w[d.id],
           Evaluated(q, w) # "cycle"
    PROVE  Evaluated(q, x) = Evaluated(q, w)
<1>1. e.deps \in Seq(Dependencies) /\ Len(e.deps) \in 1 .. 2
  BY DEF EntryRecords, Shaped
<1>2. PICK d1 \in Dependencies : d1 = e.deps[1]
  BY <1>1, ElementOfSeq
<1>3. PICK p : p = program[q]
  OBVIOUS
<1>4. d1.value \in Values /\ d1.id = p.first
  BY <1>2, <1>3 DEF Shaped, Dependencies
<1>5. w[d1.id] # "cycle"
  BY <1>3, <1>4, Distinct DEF Evaluated
<1>6. w[d1.id] = d1.value /\ x[d1.id] = d1.value
  BY <1>1, <1>2, <1>5
<1>7. PICK a, g : a = d1.value /\ g = p.branch[a]
  OBVIOUS
<1>8. CASE g = None \/ g = d1.id
  BY <1>3, <1>4, <1>6, <1>7, <1>8 DEF Evaluated
<1>9. CASE g # None /\ g # d1.id
  <2>1. Len(e.deps) = 2 /\ e.deps[2].id = g
    BY <1>2, <1>3, <1>4, <1>7, <1>9 DEF Shaped
  <2>2. PICK d2 \in Dependencies : d2 = e.deps[2]
    BY <1>1, <2>1, ElementOfSeq
  <2>3. w[g] # "cycle"
    BY <1>3, <1>4, <1>6, <1>7, <1>9, Distinct DEF Evaluated
  <2>4. x[g] = w[g]
    BY <1>1, <2>1, <2>2, <2>3
  <2> QED
    BY <1>3, <1>4, <1>6, <1>7, <1>9, <2>4 DEF Evaluated
<1> QED
  BY <1>8, <1>9

\* What is left after collection and holds for this revision.
Left == {id \in Ids : entries'[id] # None /\ (id \in Queries => entries[id].verified = revision)}

\* Collection leaves entries as they are, and what verified queries depend on.
LEMMA LeftClosed ==
    ASSUME DatabaseInv, FreshInv, NEW cutoff \in 0 .. revision, Collect(cutoff)
    PROVE  /\ \A id \in Ids : entries'[id] # None => entries'[id] = entries[id]
           /\ \A q \in Left \cap Queries :
                 /\ entries[q] \in EntryRecords /\ Shaped(q, entries[q]) /\ Truthful(entries[q].deps)
                 /\ \A i \in 1 .. Len(entries[q].deps) : entries[q].deps[i].id \in Left
<1>1. DataTyped /\ ClosureRetained /\ EntriesFresh /\ revision \in Nat
  BY DEF DatabaseInv, FreshInv, DataTyped
<1>2. \A id \in Ids : entries'[id] # None => entries'[id] = entries[id]
  BY DEF Collect
<1>3. ASSUME NEW q \in Queries, q \in Left
      PROVE  /\ entries[q] \in EntryRecords /\ Shaped(q, entries[q]) /\ Truthful(entries[q].deps)
             /\ \A i \in 1 .. Len(entries[q].deps) : entries[q].deps[i].id \in Left
  <2>1. q \in Ids /\ entries[q] # None /\ entries[q].verified = revision
    BY <1>2, <1>3 DEF Left
  <2>2. PICK e \in EntryRecords : e = entries[q] /\ e.verified = revision
    BY <1>1, <2>1 DEF DataTyped
  <2>3. Shaped(q, e) /\ Truthful(e.deps)
    BY <1>1, <2>1, <2>2 DEF EntriesFresh
  <2>4. ASSUME NEW i \in 1 .. Len(e.deps) PROVE e.deps[i].id \in Left
    <3>1. PICK d \in Dependencies : d = e.deps[i] /\ d.id \in Ids
      BY ElementOfSeq DEF EntryRecords, Dependencies
    <3>2. Retained(d.id, e.verified)
      BY <1>1, <2>1, <2>2, <3>1, ClosureOf
    <3>3. PICK r \in EntryRecords : r = entries[d.id] /\ r.verified <= revision /\ r.verified \in Nat
      BY <1>1, <3>1, <3>2 DEF Retained, DataTyped, EntryRecords
    <3>4. d.id \in Persistent \/ r.verified = revision
      BY <1>1, <2>2, <3>2, <3>3 DEF Retained
    <3>5. entries'[d.id] = r
      <4>1. d.id \in Persistent \/ ~(r.verified < cutoff)
        BY <1>1, <3>4
      <4> QED
        BY <3>1, <3>3, <4>1 DEF Collect
    <3>6. r # None
      BY <3>3, Distinct
    <3>7. d.id \in Queries => r.verified = revision
      BY <3>4, Distinct
    <3> QED
      BY <3>1, <3>3, <3>5, <3>6, <3>7 DEF Left
  <2> QED
    BY <2>2, <2>3, <2>4
<1> QED
  BY <1>2, <1>3

\* A round of evaluation after a step, of the round before it.
LEMMA RoundAfter ==
    ASSUME program' = program, NEW k \in 0 .. Rounds, NEW x, x = Fresh'[k - 1]
    PROVE  /\ \A id \in Inputs : Fresh'[k][id] = IF entries'[id] = None THEN "missing" ELSE entries'[id].value
           /\ \A q \in Queries : Fresh'[k][q] = IF k = 0 THEN "cycle" ELSE Evaluated(q, x)
<1>1. Fresh' = [n \in 0 .. Rounds |-> Worths(n, Fresh[n - 1])']
  BY FreshUnfoldsAfter
<1>2. Fresh'[k] = Worths(k, x)'
  BY <1>1
<1>3. \A q : Evaluated(q, x)' = Evaluated(q, x)
  BY DEF Evaluated
<1>4. Inputs \subseteq Ids /\ \A q \in Queries : q \in Ids /\ q \notin Inputs
  BY Distinct DEF Ids
<1> QED
  BY <1>2, <1>3, <1>4 DEF Worths

\* After collection an evaluation from scratch gives what it gave, for what is left.
LEMMA LeftEvaluated ==
    ASSUME DatabaseInv, FreshInv, NEW cutoff \in 0 .. revision, Collect(cutoff)
    PROVE  \A id \in Left : Scratch(id) # "cycle" => Scratch(id)' = Scratch(id)
<1>1. DataTyped /\ program' = program
  BY DEF DatabaseInv, Collect
<1> DEFINE Alike(n) == \A id \in Left : Fresh[n][id] # "cycle" => Fresh'[n][id] = Fresh[n][id]
           G == {n \in Nat : n <= Rounds => Alike(n)}
<1>2. ASSUME NEW n \in 0 .. Rounds, NEW id \in Inputs, id \in Left PROVE Fresh'[n][id] = Fresh[n][id]
  <2>1. entries'[id] = entries[id]
    BY <1>2, LeftClosed DEF Left
  <2>2. PICK x : x = Fresh'[n - 1]
    OBVIOUS
  <2>3. Fresh'[n][id] = IF entries'[id] = None THEN "missing" ELSE entries'[id].value
    BY <1>1, <1>2, <2>2, RoundAfter
  <2>4. Fresh[n][id] = IF entries[id] = None THEN "missing" ELSE entries[id].value
    BY <1>2, Round
  <2> QED
    BY <2>1, <2>3, <2>4
<1>3. 0 \in G
  <2>1. \A q \in Queries : Fresh[0][q] = "cycle"
    BY Round, RoundsFinite
  <2> QED
    BY <1>2, <2>1, RoundsFinite DEF Left, Ids
<1>4. ASSUME NEW n \in Nat, n \in G PROVE n + 1 \in G
  <2> SUFFICES ASSUME n + 1 <= Rounds, NEW q \in Left, Fresh[n + 1][q] # "cycle"
               PROVE  Fresh'[n + 1][q] = Fresh[n + 1][q]
    OBVIOUS
  <2>1. /\ n \in 0 .. Rounds /\ n < Rounds
        /\ n + 1 \in 0 .. Rounds /\ (n + 1) - 1 = n /\ n + 1 # 0
    BY RoundsFinite
  <2>2. CASE q \in Inputs
    BY <1>2, <2>1, <2>2
  <2>3. CASE q \in Queries
    <3>1. PICK w, x : w = Fresh[n] /\ x = Fresh'[n]
      OBVIOUS
    <3>2. PICK m \in 0 .. Rounds : m = n + 1
      BY <2>1
    <3>3. Fresh[m][q] = Evaluated(q, w)
      BY <2>1, <2>3, <3>1, <3>2, NextRound
    <3>4. Fresh'[m][q] = Evaluated(q, x)
      BY <1>1, <2>1, <2>3, <3>1, <3>2, RoundAfter
    <3>5. PICK e \in EntryRecords : /\ e = entries[q] /\ Shaped(q, e) /\ Truthful(e.deps)
                                    /\ \A i \in 1 .. Len(e.deps) : e.deps[i].id \in Left
      BY <2>3, LeftClosed
    <3>6. ASSUME NEW d \in Dependencies, NEW i \in 1 .. Len(e.deps), e.deps[i] = d, w[d.id] # "cycle"
          PROVE  w[d.id] = d.value /\ x[d.id] = w[d.id]
      <4>1. d.id \in Left /\ d.id \in Ids /\ d.value = Scratch(d.id)
        BY <3>5, <3>6 DEF Truthful, Dependencies
      <4>2. x[d.id] = w[d.id]
        BY <1>4, <2>1, <3>1, <3>6, <4>1, RoundsFinite
      <4>3. Scratch(d.id) = w[d.id]
        BY <1>1, <2>1, <3>1, <3>6, <4>1, FoundForGood
      <4> QED
        BY <4>1, <4>2, <4>3
    <3>7. Evaluated(q, w) # "cycle"
      BY <3>2, <3>3
    <3>8. Evaluated(q, x) = Evaluated(q, w)
      BY <1>1, <2>3, <3>5, <3>6, <3>7, EvaluatedAlike
    <3> QED
      BY <3>2, <3>3, <3>4, <3>8
  <2> QED
    BY <2>2, <2>3 DEF Left, Ids
<1>5. \A n \in Nat : n \in G
  <2> HIDE DEF G
  <2> QED
    BY <1>3, <1>4, Induction
<1>6. Alike(Rounds)
  BY <1>5, RoundsFinite
<1> QED
  BY <1>6 DEF Scratch, Rounds

\* Collection: what a query that is left and verified rests on is left with it.
LEMMA CollectFresh ==
    ASSUME DatabaseInv, FreshInv, NEW cutoff \in 0 .. revision, Collect(cutoff)
    PROVE  FreshInv'
<1>1. /\ stack' = <<>> /\ reply' = None /\ asked' = None /\ program' = program /\ revision' = revision
  BY DEF Collect, Idle, FreshInv, StackFresh
<1>2. ASSUME NEW q \in Queries, entries'[q] # None
      PROVE  /\ Shaped(q, entries[q])'
             /\ (entries[q].verified = revision => Truthful(entries[q].deps))'
  <2>1. q \in Ids /\ entries'[q] = entries[q]
    BY <1>2, LeftClosed, Distinct
  <2>2. PICK e \in EntryRecords : e = entries[q]
    BY <1>2, <2>1 DEF DatabaseInv, DataTyped
  <2>3. Shaped(q, e)
    BY <1>2, <2>1, <2>2 DEF FreshInv, EntriesFresh
  <2>4. Shaped(q, e)'
    BY <1>1, <2>3 DEF Shaped
  <2>5. ASSUME e.verified = revision PROVE Truthful(e.deps)'
    <3>1. q \in Left
      BY <1>2, <2>1, <2>2, <2>5 DEF Left
    <3>2. Truthful(e.deps) /\ \A i \in 1 .. Len(e.deps) : e.deps[i].id \in Left
      BY <2>2, <3>1, LeftClosed
    <3>3. ASSUME NEW i \in 1 .. Len(e.deps) PROVE e.deps[i].value = Scratch(e.deps[i].id)'
      <4>1. PICK d \in Dependencies : d = e.deps[i]
        BY ElementOfSeq DEF EntryRecords
      <4>2. d.value \in Values /\ d.value = Scratch(d.id) /\ d.id \in Left
        BY <3>2, <4>1 DEF Truthful, Dependencies
      <4>3. Scratch(d.id)' = Scratch(d.id)
        BY <4>2, LeftEvaluated, Distinct
      <4> QED
        BY <4>1, <4>2, <4>3
    <3> QED
      BY <3>3 DEF Truthful
  <2> QED
    BY <1>1, <2>1, <2>2, <2>4, <2>5
<1>3. EntriesFresh'
  BY <1>2 DEF EntriesFresh
<1>4. StackFresh' /\ AnswersAreFresh'
  BY <1>1 DEF StackFresh, AnswersAreFresh
<1> QED
  BY <1>3, <1>4 DEF FreshInv

\* Every step of the database keeps its answers fresh.
LEMMA NextFresh == DatabaseInv /\ FreshInv /\ [Next]_vars => FreshInv'
<1> SUFFICES ASSUME DatabaseInv, FreshInv, [Next]_vars PROVE FreshInv'
  OBVIOUS
<1>1. CASE \E changes \in Changes : Advance(changes)
  BY <1>1, AdvanceFresh
<1>2. CASE \E cutoff \in 0 .. revision : Collect(cutoff)
  BY <1>2, CollectFresh
<1>3. CASE \E id \in Ids : Ask(id)
  BY <1>3, AskFresh
<1>4. CASE Answer
  BY <1>4, AnswerFresh
<1>5. CASE Step
  BY <1>5, StepFresh
<1>6. CASE UNCHANGED vars
  <2>1. Steady /\ entries' = entries /\ stack' = stack /\ reply' = reply /\ asked' = asked /\ program' = program
    BY <1>6 DEF vars, Steady, SameInputs
  <2>2. EntriesFresh'
    BY <2>1, EntriesRenewed DEF FreshInv
  <2>3. PICK s, t, b : s = stack /\ t = Top /\ b = Front(stack)
    OBVIOUS
  <2>4. stack' = s /\ Top' = t /\ Front(stack)' = b
    BY <2>1, <2>3 DEF Top
  <2>5. StackFresh'
    <3>1. ASSUME s # <<>> PROVE Pending(b, t.id)' /\ FrameFresh(t)' /\ asked' = Origin(b, t.id)
      <4>1. Pending(b, t.id) /\ FrameFresh(t) /\ asked = Origin(b, t.id)
        BY <2>3, <3>1 DEF FreshInv, StackFresh
      <4>2. PICK id : id = t.id
        OBVIOUS
      <4> QED
        BY <2>1, <4>1, <4>2, PendingSteady, FrameSteady
    <3>2. Origin(Front(stack), Top.id)' = Origin(b, t.id)
      BY <2>4 DEF Origin
    <3>3. s # <<>> => Pending(Front(stack), Top.id)'
      BY <2>4, <3>1 DEF Pending
    <3>4. s # <<>> => FrameFresh(Top)'
      BY <2>4, <3>1 DEF FrameFresh, EnsureFresh, EvaluateFresh, Done
    <3> QED
      BY <2>1, <2>4, <3>1, <3>2, <3>3, <3>4 DEF FreshInv, StackFresh
  <2>6. AnswersAreFresh'
    <3>1. Wanted' = Wanted
      BY <2>1, <2>3, <2>4 DEF Wanted, NextRead
    <3>2. PICK id : id = Wanted
      OBVIOUS
    <3>3. Scratch(id)' = Scratch(id)
      BY <2>1, SteadyParts
    <3>4. Scratch(Wanted)' = Scratch(id)'
      BY <3>1, <3>2 DEF Scratch
    <3> QED
      BY <2>1, <3>2, <3>3, <3>4 DEF FreshInv, AnswersAreFresh
  <2> QED
    BY <2>2, <2>5, <2>6 DEF FreshInv
<1> QED
  BY <1>1, <1>2, <1>3, <1>4, <1>5, <1>6 DEF Next

\* What the frames know includes that no result is made again that could have been kept.
LEMMA FramesDirty ==
    ASSUME DatabaseInv, FreshInv
    PROVE  RecomputedOnlyIfChanged
<1> SUFFICES ASSUME NEW i \in 1 .. Len(stack), stack[i].op = "evaluate", entries[stack[i].id] # None
             PROVE  /\ entries[stack[i].id].verified < revision
                    /\ \E j \in 1 .. Len(entries[stack[i].id].deps) :
                          Scratch(entries[stack[i].id].deps[j].id) # entries[stack[i].id].deps[j].value
  BY DEF RecomputedOnlyIfChanged
<1>1. PICK s : s = stack
  OBVIOUS
<1>2. s \in Seq(Frames) /\ s # <<>>
  BY <1>1, EmptySeq DEF DatabaseInv, StackInv
<1>3. PICK below \in Seq(Frames), top \in Frames : s = Append(below, top)
  BY <1>2, SequenceEmptyOrAppend
<1>4. s[Len(s)] = top /\ Front(s) = below
  BY <1>3, TopOfStack
<1>5. Pending(below, top.id) /\ FrameFresh(top)
  BY <1>1, <1>2, <1>4 DEF FreshInv, StackFresh, Top
<1>6. PICK n \in Nat : n = Len(below) /\ Len(s) = n + 1 /\ (\A k \in 1 .. n : s[k] = below[k]) /\ s[n + 1] = top
  BY <1>3, LenProperties, AppendProperties
<1>7. FrameFresh(s[i])
  <2>1. i \in 1 .. n + 1
    BY <1>1, <1>6
  <2>2. CASE i = n + 1
    BY <1>5, <1>6, <2>2
  <2>3. CASE i \in 1 .. n
    BY <1>5, <1>6, <2>3 DEF Pending
  <2> QED
    BY <2>1, <2>2, <2>3
<1>8. EvaluateFresh(s[i])
  BY <1>1, <1>7 DEF FrameFresh
<1> QED
  BY <1>1, <1>8 DEF EvaluateFresh, Truthful

\* Verified results are the truth: every answer, to the owner and to every verification and
\* evaluation on the way, is what an evaluation from scratch would give (ensure, query, input).
THEOREM AnswersFresh == Spec => []AnswersAreFresh
<1>1. FreshInv => AnswersAreFresh
  BY DEF FreshInv
<1> QED
  BY <1>1, InitDatabase, NextDatabase, InitFresh, NextFresh, PTL DEF Spec

\* Early cutoff: a query that has a result is executed again only when one of its recorded
\* dependencies is worth something else now (ensure).
THEOREM RecomputationNeeded == Spec => []RecomputedOnlyIfChanged
<1>1. DatabaseInv /\ FreshInv => RecomputedOnlyIfChanged
  BY FramesDirty
<1> QED
  BY <1>1, InitDatabase, NextDatabase, InitFresh, NextFresh, PTL DEF Spec
=============================================================================
