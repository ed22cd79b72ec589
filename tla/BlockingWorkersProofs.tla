------------------------- MODULE BlockingWorkersProofs -------------------------
(***************************************************************************)
(* The blocking service and its worker threads, for any number of workers, *)
(* of admitted jobs, of identities and of computations.                    *)
(*                                                                         *)
(* The argument has two layers.  JobInv is about the service alone: what   *)
(* was given back and what is admitted always add up to the identities     *)
(* issued, which is why the epoch never saturates.  WorkerInv relates it   *)
(* to the threads: each guard is held by one operating worker, so that a   *)
(* worker that claims nothing has seen an empty queue.                     *)
(***************************************************************************)
EXTENDS BlockingWorkers, FiniteSetTheorems, SequenceTheorems, TLAPS

Active == InState(JobStates \ {"none"})

\* A closed service holds nothing but the jobs that workers still run for nobody.
ClosedIsEmpty ==
    ~accepting => queue = <<>> /\ \A j \in JobIds : active[j] \in {"none", "abandoned"}

Conserved == epoch + Admitted = nextJob /\ Admitted <= MaximumJobs

JobInv == TypeOK /\ OneOwner /\ Conserved /\ ClosedIsEmpty

-----------------------------------------------------------------------------
(* Sequences and finite sets.                                              *)

\* A sequence without its i-th element.
LEMMA Removing ==
    ASSUME NEW S, NEW s \in Seq(S), NEW i \in 1 .. Len(s)
    PROVE  /\ RemoveAt(s, i) \in Seq(S)
           /\ Len(RemoveAt(s, i)) = Len(s) - 1
           /\ \A k \in 1 .. Len(s) - 1 : RemoveAt(s, i)[k] = IF k < i THEN s[k] ELSE s[k + 1]
<1>1. Len(s) \in Nat /\ \A k \in 1 .. Len(s) : s[k] \in S
  BY LenProperties, ElementOfSeq
<1>2. /\ SubSeq(s, 1, i - 1) \in Seq(S)
      /\ Len(SubSeq(s, 1, i - 1)) = i - 1
      /\ \A k \in 1 .. i - 1 : SubSeq(s, 1, i - 1)[k] = s[k]
  <2>1. 1 \in Int /\ i - 1 \in Int /\ \A k \in 1 .. i - 1 : s[k] \in S
    BY <1>1
  <2>2. /\ SubSeq(s, 1, i - 1) \in Seq(S)
        /\ Len(SubSeq(s, 1, i - 1)) = IF 1 <= i - 1 THEN i - 1 - 1 + 1 ELSE 0
        /\ \A k \in 1 .. i - 1 - 1 + 1 : SubSeq(s, 1, i - 1)[k] = s[1 + k - 1]
    BY <2>1, SubSeqProperties
  <2> QED
    BY <1>1, <2>2
<1>3. /\ SubSeq(s, i + 1, Len(s)) \in Seq(S)
      /\ Len(SubSeq(s, i + 1, Len(s))) = Len(s) - i
      /\ \A k \in 1 .. Len(s) - i : SubSeq(s, i + 1, Len(s))[k] = s[i + k]
  <2>1. i + 1 \in Int /\ Len(s) \in Int /\ \A k \in i + 1 .. Len(s) : s[k] \in S
    BY <1>1
  <2>2. /\ SubSeq(s, i + 1, Len(s)) \in Seq(S)
        /\ Len(SubSeq(s, i + 1, Len(s))) = IF i + 1 <= Len(s) THEN Len(s) - (i + 1) + 1 ELSE 0
        /\ \A k \in 1 .. Len(s) - (i + 1) + 1 : SubSeq(s, i + 1, Len(s))[k] = s[i + 1 + k - 1]
    BY <2>1, SubSeqProperties
  <2> QED
    BY <1>1, <2>2
<1>4. PICK a \in Seq(S), b \in Seq(S) : a = SubSeq(s, 1, i - 1) /\ b = SubSeq(s, i + 1, Len(s))
  BY <1>2, <1>3
<1>5. RemoveAt(s, i) = a \o b
  BY <1>4 DEF RemoveAt
<1>6. /\ a \o b \in Seq(S)
      /\ Len(a \o b) = Len(a) + Len(b)
      /\ \A k \in 1 .. Len(a) + Len(b) : (a \o b)[k] = IF k <= Len(a) THEN a[k] ELSE b[k - Len(a)]
  BY ConcatProperties
<1>7. Len(a) = i - 1 /\ Len(b) = Len(s) - i
  BY <1>2, <1>3, <1>4
<1>8. ASSUME NEW k \in 1 .. Len(s) - 1 PROVE RemoveAt(s, i)[k] = IF k < i THEN s[k] ELSE s[k + 1]
  <2>1. CASE k < i
    <3>1. k \in 1 .. i - 1 /\ k \in 1 .. Len(a) + Len(b) /\ k <= Len(a)
      BY <1>1, <1>7, <2>1
    <3>2. (a \o b)[k] = a[k] /\ a[k] = s[k]
      BY <1>2, <1>4, <1>6, <3>1
    <3> QED
      BY <1>5, <2>1, <3>2
  <2>2. CASE ~(k < i)
    <3>1. k - (i - 1) \in 1 .. Len(s) - i
      BY <1>1, <2>2
    <3>2. b[k - (i - 1)] = s[i + (k - (i - 1))]
      BY <1>3, <1>4, <3>1
    <3> QED
      BY <1>1, <1>5, <1>6, <1>7, <2>2, <3>1, <3>2
  <2> QED
    BY <2>1, <2>2
<1> QED
  BY <1>1, <1>5, <1>6, <1>7, <1>8

\* The jobs in some states, and how their number changes with one job's state.
LEMMA StatesFinite ==
    ASSUME NEW S
    PROVE  IsFiniteSet(InState(S)) /\ Cardinality(InState(S)) \in Nat
<1>1. IsFiniteSet(JobIds)
  BY BlockingJobsAssumption, FS_Interval DEF JobIds
<1>2. InState(S) \in SUBSET JobIds
  BY DEF InState
<1> QED
  BY <1>1, <1>2, FS_Subset, FS_CardinalityType

\* One job record changes its state: what becomes of the number of slots in use.
LEMMA ActiveChanges ==
    ASSUME TypeOK, NEW j \in JobIds, NEW state \in JobStates, active' = [active EXCEPT ![j] = state]
    PROVE  /\ active[j] = "none" /\ state # "none" => Cardinality(Active)' = Cardinality(Active) + 1
           /\ active[j] # "none" /\ state = "none" => Cardinality(Active)' = Cardinality(Active) - 1
           /\ active[j] # "none" /\ state # "none" => Cardinality(Active)' = Cardinality(Active)
<1>1. active \in [JobIds -> JobStates] /\ active'[j] = state /\ \A k \in JobIds : k # j => active'[k] = active[k]
  BY DEF TypeOK
<1>2. Active = {k \in JobIds : active[k] # "none"} /\ Active' = {k \in JobIds : active'[k] # "none"}
  <2>1. \A k \in JobIds : active[k] \in JobStates /\ active'[k] \in JobStates
    BY <1>1
  <2> QED
    BY <2>1 DEF Active, InState
<1>3. IsFiniteSet(Active) /\ Cardinality(Active) \in Nat
  BY StatesFinite DEF Active
<1>4. CASE state = "none"
  <2>1. Active' = Active \ {j}
    BY <1>1, <1>2, <1>4
  <2>2. PICK A : A = Active
    OBVIOUS
  <2>3. Cardinality(A \ {j}) = IF j \in A THEN Cardinality(A) - 1 ELSE Cardinality(A)
    BY <1>3, <2>2, FS_RemoveElement
  <2>4. j \in A <=> active[j] # "none"
    BY <1>2, <2>2
  <2>5. Cardinality(Active)' = Cardinality(A \ {j})
    BY <2>1, <2>2
  <2> QED
    BY <1>3, <1>4, <2>2, <2>3, <2>4, <2>5
<1>5. CASE state # "none"
  <2>1. Active' = Active \cup {j}
    BY <1>1, <1>2, <1>5
  <2>2. PICK A : A = Active
    OBVIOUS
  <2>3. Cardinality(A \cup {j}) = IF j \in A THEN Cardinality(A) ELSE Cardinality(A) + 1
    BY <1>3, <2>2, FS_AddElement
  <2> QED
    BY <1>2, <1>3, <1>5, <2>1, <2>2, <2>3
<1> QED
  BY <1>4, <1>5

-----------------------------------------------------------------------------
(* The service.                                                            *)

\* A step of the service is one of the pool: an admission, a number of releases, or neither.
PoolStep ==
    \/ UNCHANGED <<accepting, epoch>> /\ Admitted' = Admitted
    \/ /\ accepting /\ Admitted < MaximumJobs
       /\ Admitted' = Admitted + 1
       /\ UNCHANGED <<accepting, epoch>>
    \/ \E n \in 0 .. Admitted :
          /\ Admitted' = Admitted - n
          /\ epoch' = epoch + n
          /\ accepting' \in {accepting, FALSE}

\* What the provers need of the types of the job service, in one place.
LEMMA JobTypes ==
    ASSUME JobInv
    PROVE  /\ accepting \in BOOLEAN
           /\ nextJob \in 0 .. MaxU64 /\ epoch \in 0 .. MaxU64
           /\ queue \in Seq(JobIds) /\ Len(queue) \in Nat
           /\ \A i \in 1 .. Len(queue) : queue[i] \in JobIds
           /\ active \in [JobIds -> JobStates]
           /\ guards \in SUBSET JobIds
           /\ Cardinality(Active) \in Nat
           /\ Admitted = Len(queue) + Cardinality(Active) /\ Admitted \in Nat
           /\ epoch + Admitted = nextJob /\ Admitted <= MaximumJobs
           /\ MaximumJobs \in Nat /\ MaxU64 \in Nat
<1>1. TypeOK /\ Conserved
  BY DEF JobInv
<1>2. accepting \in BOOLEAN
  BY <1>1 DEF TypeOK
<1>3. queue \in Seq(JobIds) /\ Len(queue) \in Nat /\ \A i \in 1 .. Len(queue) : queue[i] \in JobIds
  BY <1>1, LenProperties, ElementOfSeq DEF TypeOK
<1>4. Cardinality(Active) \in Nat /\ Admitted = Len(queue) + Cardinality(Active)
  BY StatesFinite DEF Active, Admitted
<1> QED
  BY <1>1, <1>2, <1>3, <1>4, BlockingJobsAssumption DEF TypeOK, Conserved

\* Admitted reads the records only, so it can be primed by its definition.
LEMMA AdmittedThen == Admitted' = Len(queue') + Cardinality(Active)'
<1> QED
  BY DEF Admitted, Active

\* The epoch does not saturate: what is released was admitted.
LEMMA ReleaseCounts ==
    ASSUME JobInv, NEW n \in 0 .. Admitted
    PROVE  ReleasedEpoch(n) = epoch + n
<1> QED
  BY JobTypes DEF ReleasedEpoch

\* Giving up n slots advances the epoch by n and keeps the balance with the identities issued,
\* so the epoch stays below the end of its range.
LEMMA ReleaseConserves ==
    ASSUME JobInv, NEW n \in 0 .. Admitted, Admitted' = Admitted - n, epoch' = epoch + n, nextJob' = nextJob
    PROVE  Conserved' /\ epoch' \in 0 .. MaxU64
<1>1. PICK a \in Nat : a = Admitted
  BY JobTypes
<1>2. PICK b \in Nat : b = Admitted' /\ b = a - n
  BY <1>1
<1>3. epoch + n + b = nextJob /\ b <= MaximumJobs
  <2>1. epoch \in Nat /\ n \in 0 .. a /\ epoch + a = nextJob /\ a <= MaximumJobs /\ MaximumJobs \in Nat
    BY <1>1, JobTypes
  <2> QED
    BY <1>2, <2>1
<1>4. PICK e \in Nat, m \in 0 .. MaxU64 : e = epoch' /\ m = nextJob' /\ e = epoch + n /\ m = nextJob
  BY JobTypes
<1>5. e + b = m /\ MaxU64 \in Nat
  BY <1>1, <1>2, <1>3, <1>4, JobTypes
<1>6. epoch' + Admitted' = nextJob' /\ Admitted' <= MaximumJobs
  BY <1>2, <1>3, <1>4, <1>5
<1>7. epoch' \in 0 .. MaxU64
  BY <1>4, <1>5
<1> QED
  BY <1>6, <1>7 DEF Conserved

\* A new service has an empty registry: the invariant of jobs holds.
LEMMA InitJobs == Init => JobInv
<1> SUFFICES ASSUME Init PROVE JobInv
  OBVIOUS
<1>1. TypeOK
  BY BlockingJobsAssumption, EmptySeq DEF Init, TypeOK, JobStates
<1>2. Active = {} /\ InState(Running) = {}
  BY DEF Init, Active, InState, JobStates, Running
<1>3. Admitted = 0
  <2>1. Cardinality(InState(JobStates \ {"none"})) = 0
    BY <1>2, FS_EmptySet DEF Active
  <2>2. Len(queue) = 0
    BY DEF Init
  <2> QED
    BY <2>1, <2>2 DEF Admitted
<1>4. Conserved
  BY <1>3, BlockingJobsAssumption DEF Init, Conserved
<1>5. OneOwner
  BY <1>2 DEF Init, OneOwner
<1> QED
  BY <1>1, <1>4, <1>5 DEF JobInv, Init, ClosedIsEmpty

\* Admission uses the next identity and one slot of the capacity.
LEMMA SubmitJobs ==
    ASSUME JobInv, Submit
    PROVE  JobInv' /\ PoolStep
<1>1. nextJob \in JobIds
  BY JobTypes DEF Submit, JobIds
<1>2. /\ queue' = Append(queue, nextJob) /\ queue' \in Seq(JobIds) /\ Len(queue') = Len(queue) + 1
      /\ \A i \in 1 .. Len(queue) : queue'[i] = queue[i]
      /\ queue'[Len(queue) + 1] = nextJob
  BY <1>1, JobTypes, AppendProperties DEF Submit
<1>3. Admitted' = Admitted + 1
  <2>1. Cardinality(Active)' = Cardinality(Active)
    BY DEF Submit, Active, InState
  <2> QED
    BY <1>2, <2>1, JobTypes, AdmittedThen
<1>4. TypeOK'
  BY <1>2, JobTypes DEF Submit, TypeOK
<1>5. Conserved'
  BY <1>3, JobTypes DEF Submit, Conserved
<1>6. OneOwner'
  <2>1. guards' = InState(Running)'
    BY DEF JobInv, OneOwner, Submit, InState
  <2>2. active[nextJob] = "none"
    BY <1>1, JobTypes DEF JobInv, OneOwner
  <2>3. ASSUME NEW i \in 1 .. Len(queue') PROVE active'[queue'[i]] = "none" /\ queue'[i] < nextJob'
    <3>0. active' = active /\ nextJob' = nextJob + 1 /\ nextJob \in Nat
      BY JobTypes DEF Submit
    <3>1. CASE i \in 1 .. Len(queue)
      <4>1. queue[i] \in Nat /\ active[queue[i]] = "none" /\ queue[i] < nextJob
        BY <3>1, JobTypes DEF JobIds, JobInv, OneOwner
      <4>2. queue'[i] = queue[i]
        BY <1>2, <3>1
      <4> QED
        BY <3>0, <4>1, <4>2
    <3>2. CASE i = Len(queue) + 1
      <4>1. queue'[i] = nextJob
        BY <1>2, <3>2
      <4> QED
        BY <2>2, <3>0, <4>1
    <3> QED
      BY <1>2, <3>1, <3>2, JobTypes
  <2>4. ASSUME NEW i \in 1 .. Len(queue'), NEW k \in 1 .. Len(queue'), i < k PROVE queue'[i] < queue'[k]
    <3>1. CASE k \in 1 .. Len(queue)
      BY <1>2, <2>4, <3>1, JobTypes DEF JobInv, OneOwner
    <3>2. CASE k = Len(queue) + 1
      <4>1. i \in 1 .. Len(queue)
        BY <1>2, <2>4, <3>2, JobTypes
      <4> QED
        BY <1>2, <3>2, <4>1 DEF JobInv, OneOwner
    <3> QED
      BY <1>2, <3>1, <3>2, JobTypes
  <2>5. \A j \in JobIds : active'[j] # "none" => j < nextJob'
    BY JobTypes DEF Submit, JobInv, OneOwner, JobIds
  <2> QED
    BY <2>1, <2>3, <2>4, <2>5 DEF OneOwner
<1>7. ClosedIsEmpty'
  BY DEF Submit, ClosedIsEmpty
<1>8. PoolStep
  BY <1>3 DEF Submit, PoolStep
<1> QED
  BY <1>4, <1>5, <1>6, <1>7, <1>8 DEF JobInv

\* A claim moves the first queued job to its worker and leaves the rest queued once.
LEMMA ClaimJobs ==
    ASSUME JobInv, Claim
    PROVE  JobInv' /\ PoolStep
<1>1. queue # <<>> /\ Len(queue) \in Nat \ {0}
  BY JobTypes, EmptySeq DEF Claim
<1>2. PICK j \in JobIds : j = Head(queue) /\ j = queue[1]
  BY <1>1, JobTypes
<1>3. /\ queue' \in Seq(JobIds) /\ Len(queue') = Len(queue) - 1
      /\ \A i \in 1 .. Len(queue') : queue'[i] = queue[i + 1]
  BY <1>1, JobTypes, HeadTailProperties DEF Claim
<1>4. active' = [active EXCEPT ![j] = "running"] /\ active[j] = "none"
  BY <1>1, <1>2 DEF Claim, JobInv, OneOwner
<1>5. Cardinality(Active)' = Cardinality(Active) + 1
  <2>1. "running" \in JobStates /\ "running" # "none"
    BY DEF JobStates, Running
  <2>2. TypeOK
    BY DEF JobInv
  <2>3. Cardinality(Active) \in Nat
    BY JobTypes
  <2> QED
    BY <1>4, <2>1, <2>2, <2>3, ActiveChanges
<1>6. Admitted' = Admitted
  BY <1>1, <1>3, <1>5, JobTypes, AdmittedThen
<1>7. TypeOK'
  BY <1>2, <1>3, <1>4, JobTypes DEF Claim, TypeOK, JobStates, Running
<1>8. Conserved'
  BY <1>6 DEF Claim, JobInv, Conserved
<1>9. active'[j] = "running" /\ \A k \in JobIds : k # j => active'[k] = active[k]
  BY <1>4, JobTypes
<1>10. OneOwner'
  <2>1. guards' = InState(Running)'
    <3>1. guards' = guards \cup {j} /\ guards = InState(Running)
      BY <1>2 DEF Claim, JobInv, OneOwner
    <3> QED
      BY <1>4, <1>9, <3>1 DEF InState, Running
  <2>2. ASSUME NEW i \in 1 .. Len(queue') PROVE active'[queue'[i]] = "none" /\ queue'[i] < nextJob'
    <3>1. i + 1 \in 1 .. Len(queue) /\ 1 \in 1 .. Len(queue) /\ 1 < i + 1
      BY <1>1, <1>3
    <3>2. queue[1] < queue[i + 1] /\ active[queue[i + 1]] = "none" /\ queue[i + 1] < nextJob /\ queue[i + 1] \in JobIds
      BY <3>1, JobTypes DEF JobInv, OneOwner
    <3>3. queue[i + 1] # j
      BY <1>2, <3>2 DEF JobIds
    <3> QED
      BY <1>3, <1>9, <3>2, <3>3 DEF Claim
  <2>3. ASSUME NEW i \in 1 .. Len(queue'), NEW k \in 1 .. Len(queue'), i < k PROVE queue'[i] < queue'[k]
    <3>1. i + 1 \in 1 .. Len(queue) /\ k + 1 \in 1 .. Len(queue) /\ i + 1 < k + 1
      BY <1>1, <1>3, <2>3
    <3> QED
      BY <1>3, <3>1 DEF JobInv, OneOwner
  <2>4. \A k \in JobIds : active'[k] # "none" => k < nextJob'
    <3>1. j < nextJob
      BY <1>1, <1>2 DEF JobInv, OneOwner
    <3> QED
      BY <1>9, <3>1 DEF Claim, JobInv, OneOwner
  <2> QED
    BY <2>1, <2>2, <2>3, <2>4 DEF OneOwner
<1>11. accepting
  BY <1>1 DEF JobInv, ClosedIsEmpty
<1>12. ClosedIsEmpty'
  BY <1>11 DEF Claim, ClosedIsEmpty
<1>13. PoolStep
  BY <1>6 DEF Claim, PoolStep
<1> QED
  BY <1>7, <1>8, <1>10, <1>12, <1>13 DEF JobInv

\* A queued job that is cancelled leaves the queue and its slot.
LEMMA CancelQueuedJobs ==
    ASSUME JobInv, NEW j \in JobIds, CancelQueued(j)
    PROVE  JobInv' /\ PoolStep
<1>1. PICK i \in 1 .. Len(queue) : queue[i] = j /\ queue' = RemoveAt(queue, i)
  BY DEF CancelQueued
<1>2. /\ queue' \in Seq(JobIds) /\ Len(queue') = Len(queue) - 1
      /\ \A k \in 1 .. Len(queue') : queue'[k] = IF k < i THEN queue[k] ELSE queue[k + 1]
  BY <1>1, JobTypes, Removing
<1>3. Admitted' = Admitted - 1 /\ Admitted \in Nat \ {0}
  <2>1. Cardinality(Active)' = Cardinality(Active)
    BY DEF CancelQueued, Active, InState
  <2> QED
    BY <1>1, <1>2, <2>1, JobTypes, AdmittedThen
<1>4. epoch' = epoch + 1
  BY <1>3, ReleaseCounts DEF CancelQueued
<1>5. TypeOK'
  <2>1. epoch' \in 0 .. MaxU64
    <3>1. epoch \in Nat /\ nextJob \in 0 .. MaxU64 /\ epoch + Admitted = nextJob /\ MaxU64 \in Nat
      BY JobTypes
    <3> QED
      BY <1>3, <1>4, <3>1
  <2> QED
    BY <1>2, <2>1, JobTypes DEF CancelQueued, TypeOK
<1>6. Conserved'
  <2>1. 1 \in 0 .. Admitted
    BY <1>3
  <2> QED
    BY <1>3, <1>4, <2>1, ReleaseConserves DEF CancelQueued
<1>7. OneOwner'
  <2>1. guards' = InState(Running)' /\ \A k \in JobIds : active'[k] # "none" => k < nextJob'
    BY DEF CancelQueued, JobInv, OneOwner, InState
  <2>2. \A k \in 1 .. Len(queue') : active'[queue'[k]] = "none" /\ queue'[k] < nextJob'
    <3>1. \A k \in 1 .. Len(queue') : k \in 1 .. Len(queue) /\ k + 1 \in 1 .. Len(queue)
      BY <1>2, JobTypes
    <3> QED
      BY <1>2, <3>1 DEF CancelQueued, JobInv, OneOwner
  <2>3. ASSUME NEW k \in 1 .. Len(queue'), NEW m \in 1 .. Len(queue'), k < m PROVE queue'[k] < queue'[m]
    <3>1. PICK a \in 1 .. Len(queue), b \in 1 .. Len(queue) : a < b /\ queue'[k] = queue[a] /\ queue'[m] = queue[b]
      <4>1. k \in 1 .. Len(queue) /\ k + 1 \in 1 .. Len(queue) /\ m \in 1 .. Len(queue) /\ m + 1 \in 1 .. Len(queue)
        BY <1>2, JobTypes
      <4>2. CASE m < i
        BY <1>2, <2>3, <4>1, <4>2
      <4>3. CASE k < i /\ ~(m < i)
        <5>1. k < m + 1
          BY <2>3
        <5> QED
          BY <1>2, <4>1, <4>3, <5>1
      <4>4. CASE ~(k < i)
        <5>1. ~(m < i) /\ k + 1 < m + 1
          BY <2>3, <4>4
        <5> QED
          BY <1>2, <4>1, <4>4, <5>1
      <4> QED
        BY <4>2, <4>3, <4>4
    <3> QED
      BY <3>1 DEF JobInv, OneOwner
  <2> QED
    BY <2>1, <2>2, <2>3 DEF OneOwner
<1>8. ClosedIsEmpty'
  <2>1. queue # <<>>
    BY <1>1
  <2> QED
    BY <2>1 DEF CancelQueued, JobInv, ClosedIsEmpty
<1>9. PoolStep
  BY <1>3, <1>4 DEF CancelQueued, PoolStep
<1> QED
  BY <1>5, <1>6, <1>7, <1>8, <1>9 DEF JobInv

\* A job that is not queued changes its state, which gives back its admission or does not.
LEMMA StateChanges ==
    ASSUME JobInv, NEW j \in JobIds, NEW state \in JobStates,
           active[j] # "none", active' = [active EXCEPT ![j] = state],
           accepting' = accepting, nextJob' = nextJob, queue' = queue,
           guards' = IF state \in Running THEN guards ELSE guards \ {j},
           state \in Running => active[j] \in Running,
           epoch' = IF state = "none" THEN ReleasedEpoch(1) ELSE epoch,
           accepting \/ state \in {"none", "abandoned"}
    PROVE  JobInv' /\ PoolStep
<1>1. active'[j] = state /\ \A k \in JobIds : k # j => active'[k] = active[k]
  BY JobTypes
<1>2. TypeOK
  BY DEF JobInv
<1>3. Cardinality(Active)' = IF state = "none" THEN Cardinality(Active) - 1 ELSE Cardinality(Active)
  BY <1>2, ActiveChanges
<1>4. Cardinality(Active) # 0
  <2>1. j \in Active
    BY JobTypes DEF Active, InState
  <2>2. IsFiniteSet(Active)
    BY StatesFinite DEF Active
  <2> QED
    BY <2>1, <2>2, FS_EmptySet
<1>5. Admitted \in Nat \ {0} /\ Admitted' = IF state = "none" THEN Admitted - 1 ELSE Admitted
  BY <1>3, <1>4, JobTypes, AdmittedThen
<1>6. epoch' = IF state = "none" THEN epoch + 1 ELSE epoch
  BY <1>5, ReleaseCounts
<1>7. TypeOK'
  BY <1>5, <1>6, JobTypes DEF TypeOK
<1>8. Conserved'
  BY <1>5, <1>6, JobTypes DEF Conserved
<1>9. OneOwner'
  <2>1. guards' = InState(Running)'
    <3>1. guards = InState(Running)
      BY DEF JobInv, OneOwner
    <3> QED
      BY <1>1, <3>1 DEF InState
  <2>2. \A i \in 1 .. Len(queue') : active'[queue'[i]] = "none" /\ queue'[i] < nextJob'
    BY <1>1, JobTypes DEF JobInv, OneOwner
  <2>3. \A k \in JobIds : active'[k] # "none" => k < nextJob'
    BY <1>1 DEF JobInv, OneOwner
  <2> QED
    BY <2>1, <2>2, <2>3 DEF JobInv, OneOwner
<1>10. ClosedIsEmpty'
  BY <1>1 DEF JobInv, ClosedIsEmpty
<1>11. PoolStep
  <2>1. CASE state = "none"
    <3>1. Admitted' = Admitted - 1 /\ epoch' = epoch + 1 /\ 1 \in 0 .. Admitted
      BY <1>5, <1>6, <2>1
    <3> QED
      BY <3>1 DEF PoolStep
  <2>2. CASE state # "none"
    BY <1>5, <1>6, <2>2 DEF PoolStep
  <2> QED
    BY <2>1, <2>2
<1> QED
  BY <1>7, <1>8, <1>9, <1>10, <1>11 DEF JobInv

\* A running job that is cancelled keeps its slot: only its owner changes.
LEMMA CancelRunningJobs ==
    ASSUME JobInv, NEW j \in JobIds, CancelRunning(j)
    PROVE  JobInv' /\ PoolStep
<1>1. "abandoned" \in JobStates /\ "abandoned" \in Running /\ "running" \in Running
  BY DEF JobStates, Running
<1> QED
  BY <1>1, StateChanges DEF CancelRunning

\* Taking an outcome frees the slot of a job nobody runs.
LEMMA TakeOutcomeJobs ==
    ASSUME JobInv, NEW j \in JobIds, TakeOutcome(j)
    PROVE  JobInv' /\ PoolStep
<1>1. "none" \in JobStates /\ "none" \notin Running /\ active[j] # "none" /\ active[j] \notin Running
  BY DEF TakeOutcome, JobStates, Running, Outcomes
<1>2. guards' = guards \ {j}
  <2>1. j \notin guards
    BY <1>1 DEF JobInv, OneOwner, InState
  <2> QED
    BY <2>1 DEF TakeOutcome
<1> QED
  BY <1>1, <1>2, StateChanges DEF TakeOutcome

\* A worker that finishes publishes an outcome, or frees the slot of an abandoned job.
LEMMA FinishJobs ==
    ASSUME JobInv, NEW j \in JobIds, NEW outcome \in Outcomes, Finish(j, outcome)
    PROVE  JobInv' /\ PoolStep
<1>1. /\ outcome \in JobStates /\ outcome \notin Running /\ outcome # "none"
      /\ "none" \in JobStates /\ "none" \notin Running
      /\ active[j] # "none"
  BY DEF Finish, JobStates, Running, Outcomes
<1>2. CASE active[j] = "running"
  <2>1. accepting
    BY <1>2 DEF JobInv, ClosedIsEmpty
  <2>2. active' = [active EXCEPT ![j] = outcome] /\ epoch' = epoch
    BY <1>2 DEF Finish
  <2> QED
    BY <1>1, <2>1, <2>2, StateChanges DEF Finish
<1>3. CASE active[j] # "running"
  <2>1. active' = [active EXCEPT ![j] = "none"] /\ epoch' = ReleasedEpoch(1)
    BY <1>3 DEF Finish
  <2> QED
    BY <1>1, <2>1, StateChanges DEF Finish
<1> QED
  BY <1>2, <1>3

\* Shutdown empties the queue, abandons what runs and discards the outcomes, and releases
\* exactly the slots it frees.
LEMMA ShutdownJobs ==
    ASSUME JobInv, BeginShutdown
    PROVE  JobInv' /\ PoolStep
<1>1. PICK R, O : R = InState(Running) /\ O = InState(Outcomes)
  OBVIOUS
<1>2. IsFiniteSet(R) /\ Cardinality(R) \in Nat /\ IsFiniteSet(O) /\ Cardinality(O) \in Nat
  BY <1>1, StatesFinite
<1>3. \A j \in JobIds : /\ active[j] \in JobStates
                        /\ active'[j] = IF active[j] \in Running THEN "abandoned" ELSE "none"
  BY JobTypes DEF BeginShutdown
<1>4. Active = R \cup O /\ R \cap O = {} /\ Active' = R
  BY <1>1, <1>3 DEF Active, InState, JobStates, Running, Outcomes
<1>5. Cardinality(Active) = Cardinality(R) + Cardinality(O) /\ Cardinality(Active)' = Cardinality(R)
  <2>1. Cardinality(R \cup O) = Cardinality(R) + Cardinality(O) - Cardinality(R \cap O)
    BY <1>2, FS_Union
  <2> QED
    BY <1>2, <1>4, <2>1, FS_EmptySet
<1>6. Len(queue') = 0 /\ queue' = <<>> /\ queue' \in Seq(JobIds)
  BY EmptySeq DEF BeginShutdown
<1>7. PICK n \in 0 .. Admitted : n = Len(queue) + Cardinality(O) /\ Admitted' = Admitted - n
  <2>1. PICK n : n = Len(queue) + Cardinality(O)
    OBVIOUS
  <2>2. Admitted = Len(queue) + Cardinality(R) + Cardinality(O) /\ Admitted' = Cardinality(R) /\ Len(queue) \in Nat
    BY <1>2, <1>5, <1>6, JobTypes, AdmittedThen
  <2> QED
    BY <1>2, <2>1, <2>2
<1>8. epoch' = epoch + n
  BY <1>1, <1>7, ReleaseCounts DEF BeginShutdown
<1>9. TypeOK'
  <2>1. active' \in [JobIds -> JobStates]
    BY DEF BeginShutdown, JobStates, Running
  <2> QED
    BY <1>6, <1>7, <1>8, <2>1, JobTypes, ReleaseConserves DEF BeginShutdown, TypeOK
<1>10. Conserved'
  BY <1>7, <1>8, ReleaseConserves DEF BeginShutdown
<1>11. OneOwner'
  <2>1. guards' = InState(Running)'
    BY <1>3 DEF BeginShutdown, JobInv, OneOwner, InState, Running
  <2>2. \A j \in JobIds : active'[j] # "none" => j < nextJob'
    BY <1>3 DEF BeginShutdown, JobInv, OneOwner, Running
  <2> QED
    BY <1>6, <2>1, <2>2 DEF OneOwner
<1>12. ClosedIsEmpty'
  BY <1>3, <1>6 DEF ClosedIsEmpty
<1>13. PoolStep
  BY <1>7, <1>8 DEF BeginShutdown, PoolStep
<1> QED
  BY <1>9, <1>10, <1>11, <1>12, <1>13 DEF JobInv

\* Every operation of the service keeps the invariant of jobs and is a step of the pool.
LEMMA NextJobs ==
    ASSUME JobInv, Next
    PROVE  JobInv' /\ PoolStep
<1> QED
  BY SubmitJobs, ClaimJobs, ShutdownJobs, CancelQueuedJobs, CancelRunningJobs, TakeOutcomeJobs, FinishJobs
  DEF Next, Cancel, Consume

-----------------------------------------------------------------------------
(* The threads.                                                            *)

Kinds ==
    /\ owner \in OwnerSteps
    /\ worker \in [Workers -> WorkerSteps]
    /\ current \subseteq Workers
    /\ phase \in [Callers -> Phases]
    /\ ticket \in [Callers -> 0 .. MaxU64]
    /\ due \subseteq Callers
    /\ \A c \in Callers : phase[c] = "waiting" => ticket[c] \in JobIds

Flags == stop \in BOOLEAN /\ readable \in BOOLEAN

\* Each guard is owned by one worker, which operates on its job.
Held ==
    /\ holding \in [Workers -> SUBSET JobIds]
    /\ guards = UNION {holding[w] : w \in Workers}
    /\ \A w \in Workers : holding[w] # {} <=> worker[w] = "operate"
    /\ \A w \in Workers : \A i, j \in holding[w] : i = j
    /\ \A v, w \in Workers : v # w => holding[v] \cap holding[w] = {}

\* What a step of the threads is to the service.
LEMMA ServiceStep ==
    ASSUME Kinds, Held, [WNext]_vars
    PROVE  Next \/ UNCHANGED jobVars
<1>1. ASSUME NEW w \in Workers, Build(w) \/ Observe(w) \/ ClaimsNone(w) \/ WorkerSignals(w) \/ WaitForChange(w) \/ SpuriousWake(w)
      PROVE  UNCHANGED jobVars
  BY <1>1 DEF Build, Observe, ClaimsNone, WorkerSignals, WaitForChange, SpuriousWake
<1>2. ASSUME NEW w \in Workers, ClaimsJob(w) PROVE Next
  BY <1>2 DEF ClaimsJob, Next
<1>3. ASSUME NEW w \in Workers, Operate(w) PROVE Next
  <2>1. PICK j \in holding[w], outcome \in Outcomes : Finish(j, outcome)
    BY <1>3 DEF Operate
  <2>2. j \in JobIds
    BY DEF Held
  <2> QED
    BY <2>1, <2>2 DEF Next
<1>4. ASSUME Kick \/ OwnerSignals \/ Close \/ Join \/ Drain PROVE UNCHANGED jobVars
  BY <1>4 DEF Kick, OwnerSignals, Close, Join, Drain
<1>5. ASSUME Shutdown PROVE Next
  BY <1>5 DEF Shutdown, Next
<1>6. ASSUME NEW c \in Callers, SubmitJob(c) PROVE Next
  BY <1>6 DEF SubmitJob, Next
<1>7. ASSUME NEW c \in Callers, Rejected(c) \/ SuspendsAgain(c) PROVE UNCHANGED jobVars
  BY <1>7 DEF Rejected, SuspendsAgain
<1>8. ASSUME NEW c \in Callers, TakesOutcome(c) \/ Abandons(c) PROVE Next
  <2>1. PICK j \in JobIds : j = ticket[c] /\ (Consume(j) \/ Cancel(j))
    BY <1>8 DEF TakesOutcome, Abandons, Kinds
  <2> QED
    BY <2>1 DEF Next
<1>9. CASE UNCHANGED vars
  BY <1>9 DEF vars
<1> QED
  BY <1>1, <1>2, <1>3, <1>4, <1>5, <1>6, <1>7, <1>8, <1>9 DEF WNext, WorkerStep, OwnerStep, CallerStep

\* The same of every step of the adapter: a worker completes a job only when it holds its
\* guard.
LEMMA JobsNext ==
    ASSUME JobInv, Kinds, Held, [WNext]_vars
    PROVE  JobInv' /\ PoolStep
<1>1. CASE Next
  BY <1>1, NextJobs
<1>2. CASE UNCHANGED jobVars
  <2>1. Admitted' = Admitted
    BY <1>2 DEF jobVars, Admitted, InState
  <2>2. JobInv'
    BY <1>2, <2>1 DEF jobVars, JobInv, TypeOK, OneOwner, Conserved, ClosedIsEmpty, InState
  <2> QED
    BY <1>2, <2>1, <2>2 DEF jobVars, PoolStep
<1> QED
  BY <1>1, <1>2, ServiceStep

\* The states of threads and callers keep their types.
LEMMA KindsNext ==
    ASSUME JobInv, Kinds, [WNext]_vars
    PROVE  Kinds'
<1>1. ASSUME NEW w \in Workers, Build(w) PROVE Kinds'
  BY <1>1 DEF Build, callerVars, Kinds, OwnerSteps, WorkerSteps, Phases
<1>2. ASSUME NEW w \in Workers, Observe(w) PROVE Kinds'
  BY <1>2 DEF Observe, callerVars, Kinds, WorkerSteps
<1>3. ASSUME NEW w \in Workers, ClaimsJob(w) PROVE Kinds'
  BY <1>3 DEF ClaimsJob, callerVars, Kinds, OwnerSteps, WorkerSteps, Phases
<1>4. ASSUME NEW w \in Workers, ClaimsNone(w) PROVE Kinds'
  BY <1>4 DEF ClaimsNone, callerVars, Kinds, OwnerSteps, WorkerSteps, Phases
<1>5. ASSUME NEW w \in Workers, Operate(w) PROVE Kinds'
  BY <1>5 DEF Operate, callerVars, Kinds, OwnerSteps, WorkerSteps, Phases
<1>6. ASSUME NEW w \in Workers, WorkerSignals(w) PROVE Kinds'
  BY <1>6 DEF WorkerSignals, callerVars, Kinds, OwnerSteps, WorkerSteps, Phases
<1>7. ASSUME NEW w \in Workers, WaitForChange(w) PROVE Kinds'
  BY <1>7 DEF WaitForChange, callerVars, Kinds, OwnerSteps, WorkerSteps, Phases
<1>8. ASSUME NEW w \in Workers, SpuriousWake(w) PROVE Kinds'
  <2>1. Rouse({w}) \in [Workers -> WorkerSteps]
    BY DEF Rouse, Kinds, WorkerSteps
  <2> QED
    BY <1>8, <2>1 DEF SpuriousWake, callerVars, Kinds
<1>9. ASSUME Kick PROVE Kinds'
  <2>1. \A v \in Workers : Rouse({v}) \in [Workers -> WorkerSteps]
    BY DEF Rouse, Kinds, WorkerSteps
  <2> QED
    BY <1>9, <2>1 DEF Kick, Asleep, callerVars, Kinds, OwnerSteps
<1>10. ASSUME OwnerSignals PROVE Kinds'
  BY <1>10 DEF OwnerSignals, callerVars, Kinds, OwnerSteps, WorkerSteps, Phases
<1>11. ASSUME Close PROVE Kinds'
  <2>1. Rouse(Asleep) \in [Workers -> WorkerSteps]
    BY DEF Rouse, Kinds, WorkerSteps
  <2> QED
    BY <1>11, <2>1 DEF Close, callerVars, Kinds, OwnerSteps
<1>12. ASSUME Join PROVE Kinds'
  BY <1>12 DEF Join, callerVars, Kinds, OwnerSteps, WorkerSteps, Phases
<1>13. ASSUME Drain PROVE Kinds'
  BY <1>13 DEF Drain, Kinds, OwnerSteps, WorkerSteps, Phases
<1>14. ASSUME Shutdown PROVE Kinds'
  BY <1>14 DEF Shutdown, Kinds, OwnerSteps, WorkerSteps, Phases
<1>15. ASSUME NEW c \in Callers, SubmitJob(c) PROVE Kinds'
  <2>1. nextJob \in JobIds /\ nextJob \in 0 .. MaxU64
    BY <1>15, JobTypes DEF SubmitJob, Submit, JobIds
  <2> QED
    BY <1>15, <2>1 DEF SubmitJob, Offers, Kinds, OwnerSteps, Phases
<1>16. ASSUME NEW c \in Callers, Rejected(c) PROVE Kinds'
  <2>1. epoch \in 0 .. MaxU64
    BY JobTypes
  <2> QED
    BY <1>16, <2>1 DEF Rejected, Offers, poolVars, Kinds, Phases
<1>17. ASSUME NEW c \in Callers, TakesOutcome(c) PROVE Kinds'
  BY <1>17 DEF TakesOutcome, Kinds, OwnerSteps, WorkerSteps, Phases
<1>18. ASSUME NEW c \in Callers, SuspendsAgain(c) PROVE Kinds'
  BY <1>18 DEF SuspendsAgain, poolVars, Kinds
<1>19. ASSUME NEW c \in Callers, Abandons(c) PROVE Kinds'
  BY <1>19 DEF Abandons, Kinds, OwnerSteps, WorkerSteps, Phases
<1>20. CASE UNCHANGED vars
  BY <1>20 DEF vars, poolVars, callerVars, Kinds, OwnerSteps, WorkerSteps, Phases
<1> QED
  BY <1>1, <1>2, <1>3, <1>4, <1>5, <1>6, <1>7, <1>8, <1>9, <1>10, <1>11, <1>12, <1>13, <1>14, <1>15, <1>16, <1>17, <1>18, <1>19, <1>20 DEF WNext, WorkerStep, OwnerStep, CallerStep

\* Each guard stays with one worker, which operates on its job.
LEMMA HeldNext ==
    ASSUME JobInv, Kinds, Held, [WNext]_vars
    PROVE  Held'
<1>1. ASSUME NEW w \in Workers, Build(w) PROVE Held'
  BY <1>1 DEF Build, jobVars, poolVars, Held, Kinds
<1>2. ASSUME NEW w \in Workers, Observe(w) PROVE Held'
  BY <1>2 DEF Observe, jobVars, poolVars, Held, Kinds
<1>3. ASSUME NEW w \in Workers, ClaimsJob(w) PROVE Held'
  <2>1. queue # <<>> /\ Len(queue) \in Nat \ {0}
    BY <1>3, JobTypes, EmptySeq DEF ClaimsJob, Claim
  <2>2. PICK j \in JobIds : j = Head(queue) /\ j \notin guards
    <3>1. active[queue[1]] = "none" /\ queue[1] \in JobIds /\ Head(queue) = queue[1]
      BY <2>1, JobTypes DEF JobInv, OneOwner
    <3> QED
      BY <3>1 DEF JobInv, OneOwner, InState, Running
  <2>3. /\ worker[w] = "claim" /\ holding[w] = {}
        /\ worker' = [worker EXCEPT ![w] = "operate"]
        /\ holding' = [holding EXCEPT ![w] = {j}]
        /\ guards' = guards \cup {j}
    BY <1>3, <2>2 DEF ClaimsJob, Claim, Held
  <2>4. /\ holding'[w] = {j} /\ worker'[w] = "operate"
        /\ \A v \in Workers : v # w => holding'[v] = holding[v] /\ worker'[v] = worker[v]
    BY <2>3 DEF Held, Kinds
  <2>5. holding' \in [Workers -> SUBSET JobIds]
    BY <2>2, <2>3 DEF Held
  <2>6. guards' = UNION {holding'[v] : v \in Workers}
    BY <2>3, <2>4 DEF Held
  <2>7. \A v \in Workers : (holding'[v] # {} <=> worker'[v] = "operate") /\ \A i, k \in holding'[v] : i = k
    BY <2>4 DEF Held
  <2>8. \A v \in Workers : j \notin holding[v]
    BY <2>2 DEF Held
  <2>9. \A u, v \in Workers : u # v => holding'[u] \cap holding'[v] = {}
    BY <2>4, <2>8 DEF Held
  <2> QED
    BY <2>5, <2>6, <2>7, <2>9 DEF Held
<1>4. ASSUME NEW w \in Workers, ClaimsNone(w) PROVE Held'
  BY <1>4 DEF ClaimsNone, jobVars, poolVars, Held, Kinds
<1>5. ASSUME NEW w \in Workers, Operate(w) PROVE Held'
  <2>1. PICK j \in holding[w], outcome \in Outcomes : Finish(j, outcome)
    BY <1>5 DEF Operate
  <2>2. /\ holding' = [holding EXCEPT ![w] = {}]
        /\ worker' = [worker EXCEPT ![w] = "signal"]
        /\ guards' = guards \ {j}
    BY <1>5, <2>1 DEF Operate, Finish
  <2>3. /\ holding'[w] = {} /\ worker'[w] = "signal"
        /\ \A v \in Workers : v # w => holding'[v] = holding[v] /\ worker'[v] = worker[v]
    BY <2>2 DEF Held, Kinds
  <2>4. holding' \in [Workers -> SUBSET JobIds]
    BY <2>2 DEF Held
  <2>5. holding[w] = {j} /\ \A v \in Workers : v # w => j \notin holding[v]
    BY <2>1 DEF Held
  <2>6. guards' = UNION {holding'[v] : v \in Workers}
    BY <2>2, <2>3, <2>5 DEF Held
  <2>7. \A v \in Workers : (holding'[v] # {} <=> worker'[v] = "operate") /\ \A i, k \in holding'[v] : i = k
    BY <2>3 DEF Held
  <2>8. \A u, v \in Workers : u # v => holding'[u] \cap holding'[v] = {}
    BY <2>3 DEF Held
  <2> QED
    BY <2>4, <2>6, <2>7, <2>8 DEF Held
<1>6. ASSUME NEW w \in Workers, WorkerSignals(w) PROVE Held'
  BY <1>6 DEF WorkerSignals, jobVars, poolVars, Held, Kinds
<1>7. ASSUME NEW w \in Workers, WaitForChange(w) PROVE Held'
  BY <1>7 DEF WaitForChange, jobVars, poolVars, Held, Kinds
<1>8. ASSUME NEW w \in Workers, SpuriousWake(w) PROVE Held'
  <2>1. \A x \in Workers : Rouse({w})[x] = "operate" <=> worker[x] = "operate"
    BY <1>8 DEF SpuriousWake, Rouse
  <2> QED
    BY <1>8, <2>1 DEF SpuriousWake, jobVars, Held
<1>9. ASSUME Kick PROVE Held'
  <2>1. \A v \in Asleep, x \in Workers : Rouse({v})[x] = "operate" <=> worker[x] = "operate"
    BY DEF Rouse, Asleep
  <2>2. \A x \in Workers : worker'[x] = "operate" <=> worker[x] = "operate"
    BY <1>9, <2>1 DEF Kick
  <2> QED
    BY <1>9, <2>2 DEF Kick, jobVars, Held
<1>10. ASSUME OwnerSignals PROVE Held'
  BY <1>10 DEF OwnerSignals, jobVars, poolVars, Held, Kinds
<1>11. ASSUME Close PROVE Held'
  <2>1. \A x \in Workers : Rouse(Asleep)[x] = "operate" <=> worker[x] = "operate"
    BY DEF Rouse, Asleep
  <2> QED
    BY <1>11, <2>1 DEF Close, jobVars, Held
<1>12. ASSUME Join PROVE Held'
  BY <1>12 DEF Join, jobVars, poolVars, Held, Kinds
<1>13. ASSUME Drain PROVE Held'
  BY <1>13 DEF Drain, jobVars, poolVars, Held, Kinds
<1>14. ASSUME Shutdown PROVE Held'
  BY <1>14 DEF Shutdown, BeginShutdown, Held
<1>15. ASSUME NEW c \in Callers, SubmitJob(c) PROVE Held'
  BY <1>15 DEF SubmitJob, Submit, Held
<1>16. ASSUME NEW c \in Callers, Rejected(c) PROVE Held'
  BY <1>16 DEF Rejected, jobVars, poolVars, Held, Kinds
<1>17. ASSUME NEW c \in Callers, TakesOutcome(c) PROVE Held'
  BY <1>17 DEF TakesOutcome, Consume, TakeOutcome, Held
<1>18. ASSUME NEW c \in Callers, SuspendsAgain(c) PROVE Held'
  BY <1>18 DEF SuspendsAgain, jobVars, poolVars, Held, Kinds
<1>19. ASSUME NEW c \in Callers, Abandons(c) PROVE Held'
  BY <1>19 DEF Abandons, Cancel, CancelQueued, CancelRunning, TakeOutcome, Held
<1>20. CASE UNCHANGED vars
  BY <1>20 DEF vars, jobVars, poolVars, Held
<1> QED
  BY <1>1, <1>2, <1>3, <1>4, <1>5, <1>6, <1>7, <1>8, <1>9, <1>10, <1>11, <1>12, <1>13, <1>14, <1>15, <1>16, <1>17, <1>18, <1>19, <1>20 DEF WNext, WorkerStep, OwnerStep, CallerStep

\* The flags stay Boolean.
LEMMA FlagsNext ==
    ASSUME Flags, [WNext]_vars
    PROVE  Flags'
<1>1. stop' \in {stop, TRUE} /\ readable' \in {readable, TRUE, FALSE}
  BY DEF WNext, WorkerStep, OwnerStep, CallerStep, Build, Observe, ClaimsJob, ClaimsNone, Operate, WorkerSignals,
         WaitForChange, SpuriousWake, Kick, OwnerSignals, Close, Join, Drain, Shutdown, SubmitJob, Rejected,
         TakesOutcome, SuspendsAgain, Abandons, vars, poolVars
<1> QED
  BY <1>1 DEF Flags

\* The adapter is past its closing steps only when the service is closed.
Closing ==
    /\ owner \in {"close", "join", "stopped"} => ~accepting
    /\ stop => ~accepting
    /\ owner = "stopped" => \A w \in Workers : worker[w] \in {"unborn", "exited"}

\* Admission is never reopened.
LEMMA AcceptingNext ==
    ASSUME Kinds, Held, [WNext]_vars, ~accepting
    PROVE  ~accepting'
<1> QED
  BY ServiceStep DEF Next, Submit, Claim, BeginShutdown, Cancel, CancelQueued, CancelRunning, Consume, TakeOutcome, Finish, jobVars

\* The closing steps are reached with admission closed, and after shutdown every started thread
\* has left.
LEMMA ClosingNext ==
    ASSUME Kinds, Held, Closing, [WNext]_vars
    PROVE  Closing'
<1>0. ~accepting => ~accepting'
  BY AcceptingNext
<1>1. ASSUME NEW w \in Workers, Build(w) PROVE Closing'
  BY <1>0, <1>1 DEF Build, Kinds, Closing
<1>2. ASSUME NEW w \in Workers, Observe(w) PROVE Closing'
  BY <1>0, <1>2 DEF Observe, Kinds, Closing
<1>3. ASSUME NEW w \in Workers, ClaimsJob(w) PROVE Closing'
  BY <1>0, <1>3 DEF ClaimsJob, Kinds, Closing
<1>4. ASSUME NEW w \in Workers, ClaimsNone(w) PROVE Closing'
  BY <1>0, <1>4 DEF ClaimsNone, Kinds, Closing
<1>5. ASSUME NEW w \in Workers, Operate(w) PROVE Closing'
  BY <1>0, <1>5 DEF Operate, Kinds, Closing
<1>6. ASSUME NEW w \in Workers, WorkerSignals(w) PROVE Closing'
  BY <1>0, <1>6 DEF WorkerSignals, Kinds, Closing
<1>7. ASSUME NEW w \in Workers, WaitForChange(w) PROVE Closing'
  <2>1. owner' = owner /\ stop' = stop /\ (owner = "stopped" => worker[w] \in {"unborn", "exited"})
    BY <1>0, <1>7 DEF WaitForChange, Closing
  <2>2. owner # "stopped"
    BY <1>0, <1>7, <2>1 DEF WaitForChange
  <2> QED
    BY <1>0, <1>7, <2>1, <2>2 DEF Closing
<1>8. ASSUME NEW w \in Workers, SpuriousWake(w) PROVE Closing'
  <2>1. owner' = owner /\ stop' = stop /\ owner # "stopped"
    BY <1>0, <1>8 DEF SpuriousWake, Closing
  <2> QED
    BY <1>0, <1>8, <2>1 DEF Closing
<1>9. ASSUME Kick PROVE Closing'
  BY <1>0, <1>9 DEF Kick, Closing
<1>10. ASSUME OwnerSignals PROVE Closing'
  <2>1. accepting' = accepting /\ stop' = stop /\ owner' = IF accepting THEN "free" ELSE "close"
    BY <1>0, <1>10 DEF OwnerSignals, jobVars
  <2>2. owner' = "close" => ~accepting
    BY <2>1
  <2> QED
    BY <1>0, <1>10, <2>1, <2>2 DEF Closing
<1>11. ASSUME Close PROVE Closing'
  BY <1>0, <1>11 DEF Close, Closing
<1>12. ASSUME Join PROVE Closing'
  BY <1>0, <1>12 DEF Join, Closing
<1>13. ASSUME Drain PROVE Closing'
  BY <1>0, <1>13 DEF Drain, Offers, poolVars, Closing
<1>14. ASSUME Shutdown PROVE Closing'
  BY <1>0, <1>14 DEF Shutdown, Offers, poolVars, Closing
<1>15. ASSUME NEW c \in Callers, SubmitJob(c) PROVE Closing'
  BY <1>0, <1>15 DEF SubmitJob, Offers, poolVars, Closing
<1>16. ASSUME NEW c \in Callers, Rejected(c) PROVE Closing'
  BY <1>0, <1>16 DEF Rejected, Offers, poolVars, Closing
<1>17. ASSUME NEW c \in Callers, TakesOutcome(c) PROVE Closing'
  BY <1>0, <1>17 DEF TakesOutcome, Offers, poolVars, Closing
<1>18. ASSUME NEW c \in Callers, SuspendsAgain(c) PROVE Closing'
  BY <1>0, <1>18 DEF SuspendsAgain, Offers, poolVars, Closing
<1>19. ASSUME NEW c \in Callers, Abandons(c) PROVE Closing'
  BY <1>0, <1>19 DEF Abandons, Offers, poolVars, Closing
<1>20. CASE UNCHANGED vars
  BY <1>0, <1>20, <1>0 DEF vars, jobVars, poolVars, Closing
<1> QED
  BY <1>0, <1>1, <1>2, <1>3, <1>4, <1>5, <1>6, <1>7, <1>8, <1>9, <1>10, <1>11, <1>12, <1>13, <1>14, <1>15, <1>16, <1>17, <1>18, <1>19, <1>20 DEF WNext, WorkerStep, OwnerStep, CallerStep

\* There is news for a sleeping computation; a byte is there, or some thread will write one.
News(c) ==
    /\ c \notin due
    /\ \/ phase[c] = "waiting" /\ active[ticket[c]] \in Outcomes
       \/ phase[c] = "blocked" /\ epoch # ticket[c]

Announced ==
    (\E c \in Callers : News(c)) /\ owner # "signal" /\ (\A w \in Workers : worker[w] # "signal")
        => readable = TRUE

\* Unseen news goes with a readable channel or with a worker about to write to it.
LEMMA AnnouncedNext ==
    ASSUME JobInv, Kinds, Announced, [WNext]_vars
    PROVE  Announced'
<1>1. ASSUME NEW w \in Workers, Build(w) PROVE Announced'
  BY <1>1 DEF Build, jobVars, callerVars, Announced, News, Kinds
<1>2. ASSUME NEW w \in Workers, Observe(w) PROVE Announced'
  BY <1>2 DEF Observe, jobVars, callerVars, Announced, News, Kinds
<1>3. ASSUME NEW w \in Workers, ClaimsJob(w) PROVE Announced'
  <2>1. PICK j : active' = [active EXCEPT ![j] = "running"]
    BY <1>3 DEF ClaimsJob, Claim
  <2>2. \A d \in Callers : News(d)' => News(d)
    <3>1. \A k \in JobIds : active'[k] \in Outcomes => active[k] \in Outcomes
      BY <2>1, JobTypes DEF Outcomes
    <3> QED
      BY <1>3, <3>1 DEF ClaimsJob, Claim, callerVars, News, Kinds
  <2>3. worker'[w] = "operate" /\ \A x \in Workers : x # w => worker'[x] = worker[x]
    BY <1>3 DEF ClaimsJob, Kinds
  <2>4. worker[w] = "claim" /\ owner' = owner /\ readable' = readable
    BY <1>3 DEF ClaimsJob
  <2> QED
    BY <2>2, <2>3, <2>4 DEF Announced
<1>4. ASSUME NEW w \in Workers, ClaimsNone(w) PROVE Announced'
  BY <1>4 DEF ClaimsNone, jobVars, callerVars, Announced, News, Kinds
<1>5. ASSUME NEW w \in Workers, Operate(w) PROVE Announced'
  <2>1. worker'[w] = "signal"
    BY <1>5 DEF Operate, Kinds
  <2> QED
    BY <2>1 DEF Announced
<1>6. ASSUME NEW w \in Workers, WorkerSignals(w) PROVE Announced'
  BY <1>6 DEF WorkerSignals, Announced
<1>7. ASSUME NEW w \in Workers, WaitForChange(w) PROVE Announced'
  BY <1>7 DEF WaitForChange, jobVars, callerVars, Announced, News, Kinds
<1>8. ASSUME NEW w \in Workers, SpuriousWake(w) PROVE Announced'
  <2>1. \A x \in Workers : worker'[x] = "signal" <=> worker[x] = "signal"
    BY <1>8 DEF SpuriousWake, Rouse, Asleep
  <2> QED
    BY <1>8, <2>1 DEF SpuriousWake, jobVars, callerVars, Announced, News
<1>9. ASSUME Kick PROVE Announced'
  <2>1. \A v \in Asleep, x \in Workers : Rouse({v})[x] = "signal" <=> worker[x] = "signal"
    BY DEF Rouse, Asleep
  <2>2. \A x \in Workers : worker'[x] = "signal" <=> worker[x] = "signal"
    BY <1>9, <2>1 DEF Kick
  <2> QED
    BY <1>9, <2>2 DEF Kick, jobVars, callerVars, Announced, News
<1>10. ASSUME OwnerSignals PROVE Announced'
  BY <1>10 DEF OwnerSignals, Announced
<1>11. ASSUME Close PROVE Announced'
  <2>1. \A x \in Workers : worker'[x] = "signal" <=> worker[x] = "signal"
    BY <1>11 DEF Close, Rouse, Asleep
  <2> QED
    BY <1>11, <2>1 DEF Close, jobVars, callerVars, Announced, News
<1>12. ASSUME Join PROVE Announced'
  BY <1>12 DEF Join, jobVars, callerVars, Announced, News
<1>13. ASSUME Drain PROVE Announced'
  <2>1. \A d \in Callers : ~News(d)'
    BY <1>13 DEF Drain, News
  <2> QED
    BY <2>1 DEF Announced
<1>14. ASSUME Shutdown PROVE Announced'
  BY <1>14 DEF Shutdown, Announced
<1>15. ASSUME NEW c \in Callers, SubmitJob(c) PROVE Announced'
  <2>1. active[nextJob] \notin Outcomes
    <3>1. nextJob \in JobIds
      BY <1>15, JobTypes DEF SubmitJob, Submit, JobIds
    <3> QED
      BY <3>1, JobTypes DEF JobInv, OneOwner, Outcomes
  <2>2. phase'[c] = "waiting" /\ ticket'[c] = nextJob
        /\ \A d \in Callers : d # c => phase'[d] = phase[d] /\ ticket'[d] = ticket[d] /\ (d \in due' <=> d \in due)
    BY <1>15 DEF SubmitJob, Offers, Kinds
  <2>3. active' = active /\ epoch' = epoch
    BY <1>15 DEF SubmitJob, Submit
  <2>4. \A d \in Callers : News(d)' => News(d)
    BY <2>1, <2>2, <2>3 DEF News
  <2>5. worker' = worker /\ readable' = readable /\ owner = "free" /\ owner' = "kick"
    BY <1>15 DEF SubmitJob, Offers
  <2> QED
    BY <2>4, <2>5 DEF Announced
<1>16. ASSUME NEW c \in Callers, Rejected(c) PROVE Announced'
  <2>1. \/ phase'[c] = "idle"
        \/ phase'[c] = "blocked" /\ ticket'[c] = epoch
    BY <1>16 DEF Rejected, Kinds
  <2>2. \A d \in Callers : d # c => phase'[d] = phase[d] /\ ticket'[d] = ticket[d] /\ (d \in due' <=> d \in due)
    BY <1>16 DEF Rejected, Offers, Kinds
  <2>3. active' = active /\ epoch' = epoch
    BY <1>16 DEF Rejected, jobVars
  <2>4. \A d \in Callers : News(d)' => News(d)
    BY <2>1, <2>2, <2>3 DEF News
  <2>5. worker' = worker /\ readable' = readable /\ owner' = owner
    BY <1>16 DEF Rejected, poolVars
  <2> QED
    BY <2>4, <2>5 DEF Announced
<1>17. ASSUME NEW c \in Callers, TakesOutcome(c) PROVE Announced'
  BY <1>17 DEF TakesOutcome, Announced
<1>18. ASSUME NEW c \in Callers, SuspendsAgain(c) PROVE Announced'
  <2>1. \A d \in Callers : News(d)' => News(d)
    BY <1>18 DEF SuspendsAgain, jobVars, News, Kinds, Phases
  <2>2. worker' = worker /\ readable' = readable /\ owner' = owner
    BY <1>18 DEF SuspendsAgain, poolVars
  <2> QED
    BY <2>1, <2>2 DEF Announced
<1>19. ASSUME NEW c \in Callers, Abandons(c) PROVE Announced'
  <2>1. PICK j \in JobIds : j = ticket[c]
    BY <1>19 DEF Abandons, Kinds
  <2>2. CASE active[j] # "running"
    BY <1>19, <2>1, <2>2 DEF Abandons, Announced
  <2>3. CASE active[j] = "running"
    <3>1. ~CancelQueued(j)
      BY <2>3 DEF CancelQueued, JobInv, OneOwner
    <3>2. CancelRunning(j)
      BY <1>19, <2>1, <2>3, <3>1 DEF Abandons, Cancel, TakeOutcome, Outcomes
    <3>3. epoch' = epoch /\ \A k \in JobIds : active'[k] \in Outcomes => active[k] \in Outcomes
      BY <3>2, JobTypes DEF CancelRunning, Outcomes
    <3>4. \A d \in Callers : News(d)' => News(d)
      BY <1>19, <3>3 DEF Abandons, News, Kinds
    <3>5. worker' = worker /\ readable' = readable /\ owner = "free" /\ owner' = "free"
      BY <1>19, <2>1, <2>3 DEF Abandons
    <3> QED
      BY <3>4, <3>5 DEF Announced
  <2> QED
    BY <2>2, <2>3
<1>20. CASE UNCHANGED vars
  BY <1>20 DEF vars, jobVars, poolVars, callerVars, Announced, News
<1> QED
  BY <1>1, <1>2, <1>3, <1>4, <1>5, <1>6, <1>7, <1>8, <1>9, <1>10, <1>11, <1>12, <1>13, <1>14, <1>15, <1>16, <1>17, <1>18, <1>19, <1>20 DEF WNext, WorkerStep, OwnerStep, CallerStep

\* NoWorkerOversleeps while a notification is still to be sent, too.
Pending ==
    Len(queue) > Cardinality(OnTheWay) + (IF owner = "kick" THEN 1 ELSE 0) => Sleeping = {}

\* The workers on the way to a claim are finitely many, before and after a step.
LEMMA WayCounted ==
    /\ IsFiniteSet(OnTheWay) /\ Cardinality(OnTheWay) \in Nat
    /\ IsFiniteSet(OnTheWay)' /\ Cardinality(OnTheWay)' \in Nat
<1>1. IsFiniteSet(Workers)
  BY BlockingJobsAssumption, FS_Interval DEF Workers
<1>2. OnTheWay \in SUBSET Workers /\ OnTheWay' \in SUBSET Workers
  BY DEF OnTheWay
<1>3. \A W \in SUBSET Workers : IsFiniteSet(W) /\ Cardinality(W) \in Nat
  BY <1>1, FS_Subset, FS_CardinalityType
<1> QED
  BY <1>2, <1>3

\* A step that puts nobody to sleep, holds nobody up and queues nothing keeps Pending.
LEMMA PendingKept ==
    ASSUME JobInv, JobInv', Pending, Sleeping' \subseteq Sleeping, OnTheWay \subseteq OnTheWay',
           Len(queue') <= Len(queue), owner = "kick" => owner' = "kick"
    PROVE  Pending'
<1>1. PICK A, B : A = OnTheWay /\ B = OnTheWay'
  OBVIOUS
<1>2. IsFiniteSet(B) /\ Cardinality(A) \in Nat /\ Cardinality(B) \in Nat /\ A \in SUBSET B
  BY <1>1, WayCounted
<1>3. Cardinality(A) <= Cardinality(B)
  BY <1>2, FS_Subset
<1>4. Len(queue) \in Nat /\ Len(queue') \in Nat
  <2>1. queue' \in Seq(JobIds)
    BY DEF JobInv, TypeOK
  <2> QED
    BY <2>1, JobTypes, LenProperties
<1>5. Cardinality(OnTheWay) = Cardinality(A) /\ Cardinality(OnTheWay)' = Cardinality(B)
  BY <1>1
<1>6. CASE owner = "kick"
  BY <1>2, <1>3, <1>4, <1>5, <1>6 DEF Pending
<1>7. CASE owner # "kick"
  BY <1>2, <1>3, <1>4, <1>5, <1>7 DEF Pending
<1> QED
  BY <1>6, <1>7

\* Pending holds of an empty queue.
LEMMA EmptyPending ==
    ASSUME queue' = <<>>
    PROVE  Pending'
<1>1. Len(queue') = 0
  BY EmptySeq
<1> QED
  BY <1>1, WayCounted DEF Pending

\* A worker that does not operate leaves room for one more running job.
LEMMA RoomForOne ==
    ASSUME JobInv, Held, NEW w \in Workers, worker[w] # "operate"
    PROVE  RunningCount < WorkerLimit
<1>1. guards = InState(Running) /\ IsFiniteSet(guards) /\ RunningCount = Cardinality(guards)
  BY StatesFinite DEF JobInv, OneOwner, RunningCount
<1>2. PICK f : f = [j \in guards |-> CHOOSE v \in Workers : j \in holding[v]]
  OBVIOUS
<1>3. \A j \in guards : f[j] \in Workers /\ j \in holding[f[j]]
  BY <1>2 DEF Held
<1>4. \A j \in guards : f[j] # w
  BY <1>3 DEF Held
<1>5. f \in Injection(guards, Workers \ {w})
  <2>1. f \in [guards -> Workers \ {w}]
    BY <1>2, <1>3, <1>4
  <2>2. \A i, j \in guards : f[i] = f[j] => i = j
    BY <1>3 DEF Held
  <2> QED
    BY <2>1, <2>2 DEF Injection, IsInjective
<1>6. IsFiniteSet(Workers) /\ Cardinality(Workers) = WorkerLimit /\ WorkerLimit \in Nat
  BY BlockingJobsAssumption, FS_Interval DEF Workers
<1>7. IsFiniteSet(Workers \ {w}) /\ Cardinality(Workers \ {w}) = WorkerLimit - 1
  BY <1>6, FS_RemoveElement
<1>8. Cardinality(guards) <= WorkerLimit - 1 /\ Cardinality(guards) \in Nat
  BY <1>1, <1>5, <1>7, FS_Injection, FS_CardinalityType
<1> QED
  BY <1>1, <1>6, <1>8

\* Queued jobs outnumber the workers on their way to them, with a notification about to be
\* sent, only while nobody sleeps.
LEMMA PendingNext ==
    ASSUME JobInv, JobInv', Kinds, Held, Closing, Pending, [WNext]_vars
    PROVE  Pending'
<1>1. ASSUME NEW w \in Workers, Build(w) PROVE Pending'
  <2>1. Sleeping' \subseteq Sleeping /\ OnTheWay \subseteq OnTheWay'
    BY <1>1 DEF Build, Sleeping, OnTheWay, Kinds
  <2>2. Len(queue') <= Len(queue) /\ (owner = "kick" => owner' = "kick")
    BY <1>1, JobTypes DEF Build, jobVars
  <2> QED
    BY <2>1, <2>2, PendingKept
<1>2. ASSUME NEW w \in Workers, Observe(w) PROVE Pending'
  <2>1. Sleeping' \subseteq Sleeping /\ OnTheWay \subseteq OnTheWay'
    BY <1>2 DEF Observe, Sleeping, OnTheWay, Kinds
  <2>2. Len(queue') <= Len(queue) /\ (owner = "kick" => owner' = "kick")
    BY <1>2, JobTypes DEF Observe, jobVars
  <2> QED
    BY <2>1, <2>2, PendingKept
<1>3. ASSUME NEW w \in Workers, ClaimsJob(w) PROVE Pending'
  <2>1. queue # <<>> /\ queue' = Tail(queue)
    BY <1>3 DEF ClaimsJob, Claim
  <2>2. Len(queue') = Len(queue) - 1 /\ Len(queue) \in Nat \ {0}
    BY <2>1, JobTypes, EmptySeq, HeadTailProperties
  <2>3. PICK A, B : A = OnTheWay /\ B = OnTheWay'
    OBVIOUS
  <2>4. B = A \ {w} /\ w \in A /\ Sleeping' = Sleeping /\ owner' = owner
    BY <1>3, <2>3 DEF ClaimsJob, OnTheWay, Sleeping, Kinds
  <2>5. IsFiniteSet(A) /\ Cardinality(A) \in Nat /\ Cardinality(B) = Cardinality(A) - 1
    BY <2>3, <2>4, WayCounted, FS_RemoveElement
  <2>6. Cardinality(OnTheWay)' = Cardinality(OnTheWay) - 1 /\ Cardinality(OnTheWay) \in Nat
    BY <2>3, <2>5
  <2>7. CASE owner = "kick"
    BY <2>2, <2>4, <2>6, <2>7 DEF Pending
  <2>8. CASE owner # "kick"
    BY <2>2, <2>4, <2>6, <2>8 DEF Pending
  <2> QED
    BY <2>7, <2>8
<1>4. ASSUME NEW w \in Workers, ClaimsNone(w) PROVE Pending'
  <2>1. worker[w] # "operate"
    BY <1>4 DEF ClaimsNone
  <2>2. RunningCount < WorkerLimit
    BY <2>1, RoomForOne
  <2>3. RunningCount \in Nat /\ WorkerLimit \in Nat
    BY BlockingJobsAssumption, StatesFinite DEF RunningCount
  <2>4. queue = <<>> \/ RunningCount >= WorkerLimit
    BY <1>4 DEF ClaimsNone
  <2>5. ~(RunningCount >= WorkerLimit)
    BY <2>2, <2>3
  <2>6. queue' = queue
    BY <1>4 DEF ClaimsNone, jobVars
  <2> QED
    BY <2>4, <2>5, <2>6, EmptyPending
<1>5. ASSUME NEW w \in Workers, Operate(w) PROVE Pending'
  <2>1. Sleeping' \subseteq Sleeping /\ OnTheWay \subseteq OnTheWay'
    BY <1>5 DEF Operate, Sleeping, OnTheWay, Kinds
  <2>2. Len(queue') <= Len(queue) /\ (owner = "kick" => owner' = "kick")
    BY <1>5, JobTypes DEF Operate, Finish
  <2> QED
    BY <2>1, <2>2, PendingKept
<1>6. ASSUME NEW w \in Workers, WorkerSignals(w) PROVE Pending'
  <2>1. Sleeping' \subseteq Sleeping /\ OnTheWay \subseteq OnTheWay'
    BY <1>6 DEF WorkerSignals, Sleeping, OnTheWay, Kinds
  <2>2. Len(queue') <= Len(queue) /\ (owner = "kick" => owner' = "kick")
    BY <1>6, JobTypes DEF WorkerSignals, jobVars
  <2> QED
    BY <2>1, <2>2, PendingKept
<1>7. ASSUME NEW w \in Workers, WaitForChange(w) PROVE Pending'
  <2>1. CASE stop
    <3>1. ~accepting
      BY <2>1 DEF Closing
    <3>2. queue = <<>> /\ queue' = queue
      BY <1>7, <3>1 DEF WaitForChange, JobInv, ClosedIsEmpty, jobVars
    <3> QED
      BY <3>2, EmptyPending
  <2>2. CASE ~stop
    <3>1. worker[w] = "wait" /\ worker' = [worker EXCEPT ![w] = IF w \in current THEN "asleep" ELSE "observe"]
      BY <1>7, <2>2 DEF WaitForChange
    <3>2. Sleeping' \subseteq Sleeping /\ OnTheWay \subseteq OnTheWay'
      BY <1>7, <3>1 DEF WaitForChange, Sleeping, OnTheWay, Kinds
    <3>3. Len(queue') <= Len(queue) /\ owner' = owner
      BY <1>7, JobTypes DEF WaitForChange, jobVars
    <3> QED
      BY <3>2, <3>3, PendingKept
  <2> QED
    BY <2>1, <2>2
<1>8. ASSUME NEW w \in Workers, SpuriousWake(w) PROVE Pending'
  <2>1. Sleeping' \subseteq Sleeping /\ OnTheWay \subseteq OnTheWay'
    BY <1>8 DEF SpuriousWake, Rouse, Sleeping, OnTheWay, Kinds
  <2>2. Len(queue') <= Len(queue) /\ (owner = "kick" => owner' = "kick")
    BY <1>8, JobTypes DEF SpuriousWake, jobVars
  <2> QED
    BY <2>1, <2>2, PendingKept
<1>9. ASSUME Kick PROVE Pending'
  <2>1. CASE Asleep = {}
    <3>1. Sleeping' = {}
      BY <1>9, <2>1 DEF Kick, Asleep, Sleeping
    <3> QED
      BY <3>1 DEF Pending
  <2>2. CASE Asleep # {}
    <3>1. PICK v \in Asleep : worker' = Rouse({v})
      BY <1>9, <2>2 DEF Kick
    <3>2. PICK A, B : A = OnTheWay /\ B = OnTheWay'
      OBVIOUS
    <3>3. v \in Sleeping /\ v \notin A /\ A \cup {v} \subseteq B
      BY <1>9, <3>1, <3>2 DEF Kick, Asleep, Sleeping, OnTheWay, Rouse, Kinds
    <3>4. IsFiniteSet(A) /\ IsFiniteSet(B) /\ Cardinality(A) \in Nat /\ Cardinality(B) \in Nat
      BY <3>2, WayCounted
    <3>5. Cardinality(A \cup {v}) = Cardinality(A) + 1
      BY <3>3, <3>4, FS_AddElement
    <3>6. Cardinality(A) + 1 <= Cardinality(B)
      BY <3>3, <3>4, <3>5, FS_Subset
    <3>7. queue' = queue /\ owner = "kick" /\ owner' = "free"
      BY <1>9 DEF Kick, jobVars
    <3>8. ~(Len(queue) > Cardinality(A) + 1)
      BY <3>2, <3>3, <3>7 DEF Pending
    <3>9. ~(Len(queue) > Cardinality(B))
      BY <3>4, <3>6, <3>8, JobTypes
    <3>10. ~(Len(queue') > Cardinality(OnTheWay)' + 0)
      BY <3>2, <3>4, <3>7, <3>9
    <3> QED
      BY <3>7, <3>10 DEF Pending
  <2> QED
    BY <2>1, <2>2
<1>10. ASSUME OwnerSignals PROVE Pending'
  <2>1. Sleeping' \subseteq Sleeping /\ OnTheWay \subseteq OnTheWay'
    BY <1>10 DEF OwnerSignals, Sleeping, OnTheWay, Kinds
  <2>2. Len(queue') <= Len(queue) /\ (owner = "kick" => owner' = "kick")
    BY <1>10, JobTypes DEF OwnerSignals, jobVars
  <2> QED
    BY <2>1, <2>2, PendingKept
<1>11. ASSUME Close PROVE Pending'
  <2>1. Sleeping' = {}
    BY <1>11 DEF Close, Rouse, Asleep, Sleeping, Kinds
  <2> QED
    BY <2>1 DEF Pending
<1>12. ASSUME Join PROVE Pending'
  <2>1. Sleeping' \subseteq Sleeping /\ OnTheWay \subseteq OnTheWay'
    BY <1>12 DEF Join, Sleeping, OnTheWay, Kinds
  <2>2. Len(queue') <= Len(queue) /\ (owner = "kick" => owner' = "kick")
    BY <1>12, JobTypes DEF Join, jobVars
  <2> QED
    BY <2>1, <2>2, PendingKept
<1>13. ASSUME Drain PROVE Pending'
  <2>1. Sleeping' \subseteq Sleeping /\ OnTheWay \subseteq OnTheWay'
    BY <1>13 DEF Drain, Sleeping, OnTheWay, Kinds
  <2>2. Len(queue') <= Len(queue) /\ (owner = "kick" => owner' = "kick")
    BY <1>13, JobTypes DEF Drain, jobVars
  <2> QED
    BY <2>1, <2>2, PendingKept
<1>14. ASSUME Shutdown PROVE Pending'
  <2>1. queue' = <<>>
    BY <1>14 DEF Shutdown, BeginShutdown
  <2> QED
    BY <2>1, EmptyPending
<1>15. ASSUME NEW c \in Callers, SubmitJob(c) PROVE Pending'
  <2>1. Sleeping' = Sleeping /\ OnTheWay' = OnTheWay /\ owner # "kick" /\ owner' = "kick"
    BY <1>15 DEF SubmitJob, Offers, Sleeping, OnTheWay
  <2>2. Len(queue') = Len(queue) + 1
    BY <1>15, JobTypes DEF SubmitJob, Submit
  <2> QED
    BY <2>1, <2>2, WayCounted, JobTypes DEF Pending
<1>16. ASSUME NEW c \in Callers, Rejected(c) PROVE Pending'
  <2>1. Sleeping' \subseteq Sleeping /\ OnTheWay \subseteq OnTheWay'
    BY <1>16 DEF Rejected, poolVars, Sleeping, OnTheWay, Kinds
  <2>2. Len(queue') <= Len(queue) /\ (owner = "kick" => owner' = "kick")
    BY <1>16, JobTypes DEF Rejected, jobVars, poolVars
  <2> QED
    BY <2>1, <2>2, PendingKept
<1>17. ASSUME NEW c \in Callers, TakesOutcome(c) PROVE Pending'
  <2>1. Sleeping' \subseteq Sleeping /\ OnTheWay \subseteq OnTheWay'
    BY <1>17 DEF TakesOutcome, Sleeping, OnTheWay, Kinds
  <2>2. Len(queue') <= Len(queue) /\ (owner = "kick" => owner' = "kick")
    BY <1>17, JobTypes DEF TakesOutcome, Consume, TakeOutcome
  <2> QED
    BY <2>1, <2>2, PendingKept
<1>18. ASSUME NEW c \in Callers, SuspendsAgain(c) PROVE Pending'
  <2>1. Sleeping' \subseteq Sleeping /\ OnTheWay \subseteq OnTheWay'
    BY <1>18 DEF SuspendsAgain, poolVars, Sleeping, OnTheWay, Kinds
  <2>2. Len(queue') <= Len(queue) /\ (owner = "kick" => owner' = "kick")
    BY <1>18, JobTypes DEF SuspendsAgain, jobVars, poolVars
  <2> QED
    BY <2>1, <2>2, PendingKept
<1>19. ASSUME NEW c \in Callers, Abandons(c) PROVE Pending'
  <2>1. Sleeping' \subseteq Sleeping /\ OnTheWay \subseteq OnTheWay'
    BY <1>19 DEF Abandons, Sleeping, OnTheWay
  <2>2. Len(queue') <= Len(queue)
    <3>1. CASE queue' = queue
      BY <3>1, JobTypes
    <3>2. CASE CancelQueued(ticket[c])
      <4>1. PICK i \in 1 .. Len(queue) : queue' = RemoveAt(queue, i)
        BY <3>2 DEF CancelQueued
      <4> QED
        BY <4>1, JobTypes, Removing
    <3> QED
      BY <1>19, <3>1, <3>2 DEF Abandons, Cancel, CancelRunning, TakeOutcome
  <2> QED
    BY <1>19, <2>1, <2>2, PendingKept DEF Abandons
<1>20. CASE UNCHANGED vars
  <2>1. Sleeping' \subseteq Sleeping /\ OnTheWay \subseteq OnTheWay'
    BY <1>20 DEF vars, poolVars, Sleeping, OnTheWay
  <2>2. Len(queue') <= Len(queue) /\ owner' = owner
    BY <1>20, JobTypes DEF vars, jobVars, poolVars
  <2> QED
    BY <2>1, <2>2, PendingKept
<1> QED
  BY <1>1, <1>2, <1>3, <1>4, <1>5, <1>6, <1>7, <1>8, <1>9, <1>10, <1>11, <1>12, <1>13, <1>14, <1>15, <1>16, <1>17, <1>18, <1>19, <1>20 DEF WNext, WorkerStep, OwnerStep, CallerStep

-----------------------------------------------------------------------------
(* The invariant, and what follows from it.                                *)

WorkerInv == JobInv /\ Kinds /\ Flags /\ Held /\ Closing /\ Announced /\ Pending

\* The invariant of the adapter holds of a service that has not started its workers.
LEMMA InitWorkers == WInit => WorkerInv
<1> SUFFICES ASSUME WInit PROVE WorkerInv
  OBVIOUS
<1>1. JobInv
  BY InitJobs DEF WInit
<1>2. Kinds
  BY BlockingJobsAssumption DEF WInit, Kinds, OwnerSteps, WorkerSteps, Phases
<1>3. Flags
  BY DEF WInit, Flags
<1>4. Held
  <2>1. guards = {} /\ holding = [w \in Workers |-> {}] /\ worker = [w \in Workers |-> "unborn"]
    BY DEF WInit, Init
  <2> QED
    BY <2>1 DEF Held
<1>5. Closing
  BY DEF WInit, Closing
<1>6. Announced
  BY DEF WInit, Announced, News
<1>7. Pending
  <2>1. Sleeping = {}
    BY DEF WInit, Sleeping
  <2> QED
    BY <2>1 DEF Pending
<1> QED
  BY <1>1, <1>2, <1>3, <1>4, <1>5, <1>6, <1>7 DEF WorkerInv

\* Every step of the adapter keeps its invariant.
LEMMA NextWorkers == WorkerInv /\ [WNext]_vars => WorkerInv'
<1> SUFFICES ASSUME WorkerInv, [WNext]_vars PROVE WorkerInv'
  OBVIOUS
<1>1. JobInv /\ Kinds /\ Flags /\ Held /\ Closing /\ Announced /\ Pending
  BY DEF WorkerInv
<1>2. JobInv'
  BY <1>1, JobsNext
<1>3. Kinds' /\ Flags' /\ Held' /\ Closing' /\ Announced'
  BY <1>1, KindsNext, FlagsNext, HeldNext, ClosingNext, AnnouncedNext
<1>4. Pending'
  BY <1>1, <1>2, PendingNext
<1> QED
  BY <1>2, <1>3, <1>4 DEF WorkerInv

(* The invariant holds in every reachable state, whatever the threads and  *)
(* the computations do.                                                    *)
THEOREM WorkersKeepInvariant == WSpec => []WorkerInv
<1> QED
  BY InitWorkers, NextWorkers, PTL DEF WSpec

(* Every variable has its type, and the guards of the service are exactly  *)
(* those the operating workers own.                                        *)
THEOREM WorkersTyped == WSpec => []WTypeOK
<1>1. WorkerInv => WTypeOK
  <2> SUFFICES ASSUME WorkerInv PROVE WTypeOK
    OBVIOUS
  <2>1. TypeOK /\ Kinds /\ Held
    BY DEF WorkerInv, JobInv
  <2>2. stop \in BOOLEAN /\ readable \in BOOLEAN
    BY DEF WorkerInv, Flags
  <2> QED
    BY <2>1, <2>2 DEF WTypeOK, Kinds, Held
<1> QED
  BY <1>1, WorkersKeepInvariant, PTL

(* A job is queued, or held by one guard, or kept as an outcome: complete  *)
(* never meets UnknownJob or InvalidJobState, however many workers there   *)
(* are.                                                                    *)
THEOREM JobsHaveOneOwner == WSpec => []OneOwner
<1>1. WorkerInv => OneOwner
  BY DEF WorkerInv, JobInv
<1> QED
  BY <1>1, WorkersKeepInvariant, PTL

(* No wakeup of a worker is lost: once submit has returned, no worker      *)
(* sleeps over a queue that holds more jobs than workers are on their way. *)
THEOREM WorkersNeverOversleep == WSpec => []NoWorkerOversleeps
<1>1. WorkerInv => NoWorkerOversleeps
  <2> SUFFICES ASSUME WorkerInv, owner # "kick", Len(queue) > Cardinality(OnTheWay) PROVE Sleeping = {}
    BY DEF NoWorkerOversleeps
  <2>1. Pending /\ Cardinality(OnTheWay) \in Nat
    BY WayCounted DEF WorkerInv
  <2> QED
    BY <2>1 DEF Pending
<1> QED
  BY <1>1, WorkersKeepInvariant, PTL

(* No notification of a computation is lost: who sleeps although its news  *)
(* is there has an unread byte, or a thread about to write one.            *)
THEOREM NewsAlwaysAnnounced == WSpec => []NewsIsAnnounced
<1>1. WorkerInv => NewsIsAnnounced
  <2> SUFFICES ASSUME WorkerInv,
                      NEW c \in Callers \ due,
                      \/ phase[c] = "waiting" /\ active[ticket[c]] \in Outcomes
                      \/ phase[c] = "blocked" /\ epoch # ticket[c],
                      owner # "signal", \A w \in Workers : worker[w] # "signal"
               PROVE  readable
    BY DEF NewsIsAnnounced
  <2>1. News(c) /\ c \in Callers
    BY DEF News
  <2> QED
    BY <2>1 DEF WorkerInv, Announced
<1> QED
  BY <1>1, WorkersKeepInvariant, PTL

(* When shutdown has returned, no thread is left and nothing of any job    *)
(* is, not even of one that was still running when it began.               *)
THEOREM ShutdownLeavesNothing == WSpec => []ShutdownIsComplete
<1>1. WorkerInv => ShutdownIsComplete
  <2> SUFFICES ASSUME WorkerInv, owner = "stopped"
               PROVE  /\ \A w \in Workers : worker[w] \in {"unborn", "exited"}
                      /\ queue = <<>> /\ InState(JobStates \ {"none"}) = {}
    BY DEF ShutdownIsComplete
  <2>1. ~accepting /\ \A w \in Workers : worker[w] \in {"unborn", "exited"}
    BY DEF WorkerInv, Closing
  <2>2. queue = <<>> /\ \A j \in JobIds : active[j] \in {"none", "abandoned"}
    BY <2>1 DEF WorkerInv, JobInv, ClosedIsEmpty
  <2>3. guards = {}
    BY <2>1 DEF WorkerInv, Held
  <2>4. \A j \in JobIds : active[j] # "abandoned"
    BY <2>3 DEF WorkerInv, JobInv, OneOwner, InState, Running
  <2> QED
    BY <2>1, <2>2, <2>4 DEF InState
<1> QED
  BY <1>1, WorkersKeepInvariant, PTL

\* What one operation of the service may do to the job of an identity.
LEMMA FinalStep ==
    ASSUME JobInv, Next \/ UNCHANGED jobVars, NEW j \in JobIds
    PROVE  /\ active[j] = "abandoned" => active'[j] \in {"abandoned", "none"}
           /\ active[j] \in Outcomes => active'[j] \in {active[j], "none"}
           /\ (active[j] = "none" /\ j \notin Queued /\ j < nextJob)
                => active'[j] = "none" /\ j \notin ToSet(queue')
<1> DEFINE Final == /\ active[j] = "abandoned" => active'[j] \in {"abandoned", "none"}
                    /\ active[j] \in Outcomes => active'[j] \in {active[j], "none"}
                    /\ (active[j] = "none" /\ j \notin Queued /\ j < nextJob)
                         => active'[j] = "none" /\ j \notin ToSet(queue')
<1>1. Queued = {queue[i] : i \in 1 .. Len(queue)} /\ ToSet(queue') = {queue'[i] : i \in 1 .. Len(queue')}
  BY DEF Queued, ToSet
<1>2. CASE Submit
  <2>1. nextJob \in JobIds /\ queue' = Append(queue, nextJob) /\ active' = active
    BY <1>2, JobTypes DEF Submit, JobIds
  <2>2. /\ Len(queue') = Len(queue) + 1
        /\ \A i \in 1 .. Len(queue) : queue'[i] = queue[i]
        /\ queue'[Len(queue) + 1] = nextJob
    BY <2>1, JobTypes, AppendProperties
  <2>3. j \in ToSet(queue') => j \in Queued \/ j = nextJob
    <3>1. \A i \in 1 .. Len(queue') : i \in 1 .. Len(queue) \/ i = Len(queue) + 1
      BY <2>2, JobTypes
    <3> QED
      BY <1>1, <2>2, <3>1
  <2> QED
    BY <2>1, <2>3, JobTypes DEF JobIds
<1>3. CASE Claim
  <2>1. queue # <<>> /\ queue' = Tail(queue) /\ active' = [active EXCEPT ![Head(queue)] = "running"]
    BY <1>3 DEF Claim
  <2>2. /\ Len(queue') = Len(queue) - 1
        /\ \A i \in 1 .. Len(queue) - 1 : queue'[i] = queue[i + 1]
        /\ Head(queue) = queue[1] /\ 1 \in 1 .. Len(queue)
    BY <2>1, JobTypes, EmptySeq, HeadTailProperties
  <2>3. j \in ToSet(queue') => j \in Queued
    <3>1. \A i \in 1 .. Len(queue') : i + 1 \in 1 .. Len(queue) /\ queue'[i] = queue[i + 1]
      BY <2>2, JobTypes
    <3> QED
      BY <1>1, <3>1
  <2>4. Head(queue) \in Queued /\ active[Head(queue)] = "none" /\ Head(queue) \in JobIds
    BY <1>1, <2>2, JobTypes DEF JobInv, OneOwner
  <2> QED
    BY <2>1, <2>3, <2>4, JobTypes DEF Outcomes
<1>4. CASE BeginShutdown
  <2>1. queue' = <<>> /\ active'[j] = IF active[j] \in Running THEN "abandoned" ELSE "none"
    BY <1>4 DEF BeginShutdown
  <2>2. ToSet(queue') = {}
    BY <1>1, <2>1, EmptySeq
  <2> QED
    BY <2>1, <2>2 DEF Running, Outcomes
<1>5. ASSUME NEW k \in JobIds, CancelQueued(k) PROVE Final
  <2>1. PICK i \in 1 .. Len(queue) : queue' = RemoveAt(queue, i)
    BY <1>5 DEF CancelQueued
  <2>2. /\ Len(queue') = Len(queue) - 1
        /\ \A n \in 1 .. Len(queue) - 1 : queue'[n] = IF n < i THEN queue[n] ELSE queue[n + 1]
    BY <2>1, JobTypes, Removing
  <2>3. j \in ToSet(queue') => j \in Queued
    BY <1>1, <2>2, JobTypes
  <2> QED
    BY <1>5, <2>3 DEF CancelQueued
<1>6. ASSUME NEW k \in JobIds, CancelRunning(k) PROVE Final
  BY <1>1, <1>6, JobTypes DEF CancelRunning, Outcomes
<1>7. ASSUME NEW k \in JobIds, TakeOutcome(k) PROVE Final
  BY <1>1, <1>7, JobTypes DEF TakeOutcome, Outcomes
<1>8. ASSUME NEW k \in JobIds, NEW outcome \in Outcomes, Finish(k, outcome) PROVE Final
  <2>1. /\ active[k] \in Running /\ queue' = queue
        /\ active[k] = "running" => active' = [active EXCEPT ![k] = outcome]
        /\ active[k] # "running" => active' = [active EXCEPT ![k] = "none"]
    BY <1>8 DEF Finish
  <2> QED
    BY <1>1, <2>1, JobTypes DEF Running, Outcomes
<1>9. CASE UNCHANGED jobVars
  BY <1>1, <1>9 DEF jobVars
<1> QED
  BY <1>2, <1>3, <1>4, <1>5, <1>6, <1>7, <1>8, <1>9 DEF Next, Cancel, Consume

(* The outcome of an abandoned job never becomes visible, and an identity  *)
(* whose slot was given back is never admitted again.                      *)
THEOREM OutcomesStayFinal == WSpec => OutcomesAreFinal
<1>1. WorkerInv /\ [WNext]_vars =>
        [\A j \in JobIds :
           /\ active[j] = "abandoned" => active'[j] \in {"abandoned", "none"}
           /\ active[j] \in Outcomes => active'[j] \in {active[j], "none"}
           /\ (active[j] = "none" /\ j \notin Queued /\ j < nextJob)
                => active'[j] = "none" /\ j \notin ToSet(queue')]_jobVars
  BY ServiceStep, FinalStep DEF WorkerInv
<1> QED
  BY <1>1, WorkersKeepInvariant, PTL DEF WSpec, OutcomesAreFinal

(* The service, driven by any number of threads, implements the abstract   *)
(* bounded pool: at most maximum_jobs admissions, and an epoch that counts *)
(* every slot given back and never sticks at u64::MAX.                     *)
THEOREM ServiceImplementsPool == WSpec => PoolSpec
<1>1. WInit => Pool!Init
  <2> SUFFICES ASSUME WInit PROVE Pool!Init
    OBVIOUS
  <2>1. accepting = TRUE /\ epoch = 0 /\ nextJob = 0
    BY DEF WInit, Init
  <2>2. JobInv
    BY InitJobs DEF WInit
  <2>3. Admitted = 0
    BY <2>1, <2>2, JobTypes
  <2> QED
    BY <2>1, <2>3 DEF Pool!Init
<1>2. WorkerInv /\ [WNext]_vars => [Pool!Next]_(Pool!vars)
  <2> SUFFICES ASSUME WorkerInv, [WNext]_vars PROVE [Pool!Next]_(Pool!vars)
    OBVIOUS
  <2>1. PoolStep
    BY JobsNext DEF WorkerInv
  <2>2. CASE UNCHANGED <<accepting, epoch>> /\ Admitted' = Admitted
    BY <2>2 DEF Pool!vars
  <2>3. CASE /\ accepting /\ Admitted < MaximumJobs
             /\ Admitted' = Admitted + 1
             /\ UNCHANGED <<accepting, epoch>>
    BY <2>3 DEF Pool!Next, Pool!Admit
  <2>4. CASE \E n \in 0 .. Admitted :
                /\ Admitted' = Admitted - n
                /\ epoch' = epoch + n
                /\ accepting' \in {accepting, FALSE}
    BY <2>4 DEF Pool!Next, Pool!Release
  <2> QED
    BY <2>1, <2>2, <2>3, <2>4 DEF PoolStep
<1> QED
  BY <1>1, <1>2, WorkersKeepInvariant, PTL DEF WSpec, PoolSpec, Pool!Spec
=============================================================================
