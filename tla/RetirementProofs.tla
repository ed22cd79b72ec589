--------------------------- MODULE RetirementProofs ---------------------------
(***************************************************************************)
(* Proofs about ResourceRetirement, for any capacity and any last value of *)
(* the counters, and about the cleanup threads of RetirementWorkers, for   *)
(* any number of threads, of resources and of identities.                  *)
(*                                                                         *)
(* The service: reservations are exact and bounded, an explicit retirement *)
(* is in one place, no counter runs out, and the abstract pool of          *)
(* admissions is implemented.  The properties are proved together.  That   *)
(* no identity is in the queue and with a worker makes the reservations    *)
(* countable; that they are exact keeps their counter from going below     *)
(* zero; and only a reserved one that is at most MaximumResources makes    *)
(* Reserve an Admit of the pool.                                           *)
(*                                                                         *)
(* The threads: on top of that stand which guard each thread holds (Held), *)
(* that no notification is lost, which is inductive as it stands, and the  *)
(* life of the adapter (Life): a thread is told to stop only when every    *)
(* reservation is gone, either because a failed construction never made    *)
(* one or because the adapter waited for all its threads to leave by       *)
(* themselves.                                                             *)
(***************************************************************************)
EXTENDS RetirementWorkers, FiniteSetTheorems, SequenceTheorems, TLAPS

Entries == Retirements \cup {Unobserved}
Busy    == InState({"running", "detached", "completed"})
Working == InState({"running", "detached"})

Bounded == reserved <= MaximumResources

IInv == TypeOK /\ OnePlace /\ ReservationsExact /\ NothingExhausts /\ Bounded

-----------------------------------------------------------------------------

(* The identities in some state are finitely many.                         *)
LEMMA FinitelyMany ==
    ASSUME NEW S \in SUBSET Retirements
    PROVE  IsFiniteSet(S) /\ Cardinality(S) \in Nat
<1>1. IsFiniteSet(Retirements)
  BY RetirementAssumption, FS_Interval DEF Retirements
<1>2. IsFiniteSet(S)
  BY <1>1, FS_Subset
<1> QED
  BY <1>2, FS_CardinalityType

(* A queue appended to, for each entry it may get.                         *)
LEMMA Appended ==
    ASSUME queue \in Seq(Entries), NEW e \in Entries
    PROVE  /\ Append(queue, e) \in Seq(Entries)
           /\ Len(Append(queue, e)) = Len(queue) + 1
           /\ \A i \in 1 .. Len(queue) : Append(queue, e)[i] = queue[i]
           /\ Append(queue, e)[Len(queue) + 1] = e
  BY AppendProperties

(* A queue whose entries are replaced keeps its length.                    *)
LEMMA Relabelled ==
    ASSUME NEW n \in Nat, NEW f \in [1 .. n -> Entries]
    PROVE  f \in Seq(Entries) /\ Len(f) = n
  BY DEF Entries

(* A new service holds nothing.                                            *)
LEMMA InitHolds == Init => IInv
<1> SUFFICES ASSUME Init PROVE IInv
  OBVIOUS
<1>1. \A S : "none" \notin S => InState(S) = {}
  BY DEF Init, InState
<1>2. Len(<<>>) = 0 /\ <<>> \in Seq(Entries)
  BY EmptySeq
<1>3. Cardinality({}) = 0
  BY FS_EmptySet
<1>4. TypeOK
  BY <1>2, RetirementAssumption DEF Init, TypeOK, ActiveStates, Entries
<1>5. OnePlace
  BY <1>1, <1>2 DEF Init, OnePlace
<1>6. ReservationsExact
  BY <1>1, <1>2, <1>3 DEF Init, ReservationsExact
<1> QED
  BY <1>4, <1>5, <1>6, RetirementAssumption DEF IInv, Init, NothingExhausts, Bounded

-----------------------------------------------------------------------------
(* The step of each operation.                                             *)

(* Admission, and the ends of a permit, move reservations between counters.*)
LEMMA AdmissionHolds ==
    ASSUME IInv, Reserve \/ Attach \/ DropPermit \/ CloseAdmission
    PROVE  IInv'
<1>1. Cardinality(Busy) \in Nat /\ Len(queue) \in Nat
  BY FinitelyMany, LenProperties DEF Busy, InState, IInv, TypeOK
<1>2. Busy' = Busy
  BY DEF Busy, InState, Reserve, Attach, DropPermit, CloseAdmission
<1>r. permits > 0 => reserved > 0
  BY <1>1 DEF IInv, TypeOK, ReservationsExact, Busy
<1>a. accepting' \in BOOLEAN
  BY DEF IInv, TypeOK, Reserve, Attach, DropPermit, CloseAdmission
<1>n. /\ reserved' \in Nat /\ epoch' \in Nat
      /\ permits' \in Nat /\ owners' \in Nat
  BY <1>r DEF IInv, TypeOK, Reserve, Attach, DropPermit, CloseAdmission, Release
<1>3. TypeOK'
  BY <1>a, <1>n DEF IInv, TypeOK, Reserve, Attach, DropPermit, CloseAdmission
<1>4. OnePlace'
  BY DEF IInv, OnePlace, InState, Reserve, Attach, DropPermit, CloseAdmission
<1>5. ReservationsExact'
  BY <1>1, <1>2 DEF IInv, TypeOK, ReservationsExact, Busy, Reserve, Attach, DropPermit,
     CloseAdmission, Release
<1>6. NothingExhausts' /\ Bounded'
  BY RetirementAssumption DEF IInv, TypeOK, NothingExhausts, Bounded, Reserve, Attach, DropPermit,
     CloseAdmission, Release
<1> QED
  BY <1>3, <1>4, <1>5, <1>6 DEF IInv

(* An owner that ends enters the queue, under a new identity or without.   *)
LEMMA OwnerEndHolds ==
    ASSUME IInv, Retire \/ DropOwner
    PROVE  IInv'
<1>1. PICK e \in Entries : queue' = Append(queue, e) /\ e \in {nextRetirement, Unobserved}
                            /\ (e = nextRetirement => nextRetirement' = nextRetirement + 1)
  BY RetirementAssumption DEF IInv, TypeOK, Retire, DropOwner, Entries, Retirements, Unobserved
<1>2. Cardinality(Busy) \in Nat /\ Len(queue) \in Nat /\ queue \in Seq(Entries)
  BY FinitelyMany, LenProperties DEF Busy, InState, IInv, TypeOK, Entries
<1>3. /\ queue' \in Seq(Entries)
      /\ Len(queue') = Len(queue) + 1
      /\ \A i \in 1 .. Len(queue) : queue'[i] = queue[i]
      /\ queue'[Len(queue) + 1] = e
  BY <1>1, <1>2, Appended
<1>4. nextRetirement' \in 0 .. MaxU64 /\ nextRetirement' >= nextRetirement
      /\ nextRetirement' + owners' <= nextRetirement + owners
  BY RetirementAssumption DEF IInv, TypeOK, Retire, DropOwner
<1>5. Busy' = Busy /\ Working' = Working
  BY DEF Busy, Working, InState, Retire, DropOwner
<1>6. TypeOK'
  BY <1>3, <1>4 DEF IInv, TypeOK, Retire, DropOwner, Entries
<1>7. OnePlace'
  <2>1. \A i \in 1 .. Len(queue) : queue[i] # Unobserved => queue[i] < nextRetirement /\ queue[i] \in Nat
    BY <1>2, ElementOfSeq, RetirementAssumption DEF IInv, OnePlace, Entries, Retirements
  <2>2. e = nextRetirement /\ e # Unobserved =>
            e < nextRetirement' /\ active[e] = "none" /\ \A i \in 1 .. Len(queue) : queue[i] # e
    BY <1>1, <2>1 DEF IInv, OnePlace, TypeOK, Entries, ActiveStates
  <2>3. \A i \in 1 .. Len(queue') : queue'[i] # Unobserved =>
           /\ active'[queue'[i]] = "none" /\ queue'[i] < nextRetirement'
           /\ \A k \in 1 .. Len(queue') : queue'[k] = queue'[i] => k = i
    <3> SUFFICES ASSUME NEW i \in 1 .. Len(queue'), queue'[i] # Unobserved
                 PROVE  /\ active'[queue'[i]] = "none" /\ queue'[i] < nextRetirement'
                        /\ \A k \in 1 .. Len(queue') : queue'[k] = queue'[i] => k = i
      OBVIOUS
    <3>1. active' = active
      BY DEF Retire, DropOwner
    <3>2. CASE i = Len(queue) + 1
      BY <1>1, <1>2, <1>3, <2>2, <3>1, <3>2
    <3>3. CASE i \in 1 .. Len(queue)
      <4>1. active[queue[i]] = "none" /\ queue[i] < nextRetirement
            /\ \A k \in 1 .. Len(queue) : queue[k] = queue[i] => k = i
        BY <1>3, <3>3 DEF IInv, OnePlace
      <4>2. queue[i] < nextRetirement'
        BY <1>3, <1>4, <2>1, <3>3 DEF IInv, TypeOK
      <4>3. queue[i] # e
        BY <1>1, <1>3, <2>2, <3>3
      <4> QED
        BY <1>2, <1>3, <3>1, <3>3, <4>1, <4>2, <4>3
    <3> QED
      BY <1>2, <1>3, <3>2, <3>3
  <2>4. \A r \in Retirements : active'[r] # "none" => r < nextRetirement'
    <3> SUFFICES ASSUME NEW r \in Retirements, active'[r] # "none"
                 PROVE  r < nextRetirement'
      OBVIOUS
    <3>1. r < nextRetirement /\ r \in Int
      BY RetirementAssumption DEF IInv, OnePlace, Retire, DropOwner, Retirements
    <3> QED
      BY <1>4, <3>1, RetirementAssumption DEF IInv, TypeOK
  <2> QED
    BY <2>3, <2>4, <1>5 DEF OnePlace, Working, IInv, Retire, DropOwner
<1>8. ReservationsExact'
  BY <1>2, <1>3, <1>5 DEF IInv, TypeOK, ReservationsExact, Busy, Retire, DropOwner
<1>9. NothingExhausts' /\ Bounded'
  BY <1>4, RetirementAssumption DEF IInv, TypeOK, NothingExhausts, Bounded, Retire, DropOwner
<1> QED
  BY <1>6, <1>7, <1>8, <1>9 DEF IInv

(* A completion that is taken gives one reservation back.                  *)
LEMMA ConsumeHolds ==
    ASSUME IInv, NEW r \in Retirements, Consume(r)
    PROVE  IInv'
<1>1. Busy' = Busy \ {r} /\ r \in Busy /\ Working' = Working
  BY DEF IInv, TypeOK, Busy, Working, InState, Consume
<1>2. IsFiniteSet(Busy) /\ Cardinality(Busy) \in Nat /\ Cardinality(Busy') \in Nat /\ Len(queue) \in Nat
  BY FinitelyMany, LenProperties DEF Busy, InState, IInv, TypeOK
<1>3. Cardinality(Busy') = Cardinality(Busy) - 1
  BY <1>1, <1>2, FS_RemoveElement
<1>4. reserved > 0
  BY <1>2, <1>3 DEF IInv, TypeOK, ReservationsExact, Busy
<1>5. reserved' \in Nat /\ epoch' \in Nat
  BY <1>4 DEF IInv, TypeOK, Consume, Release
<1>6. active' \in [Retirements -> ActiveStates]
  BY DEF IInv, TypeOK, Consume, ActiveStates
<1>7. TypeOK'
  BY <1>5, <1>6 DEF IInv, TypeOK, Consume
<1>8. OnePlace'
  <2>1. \A q : active[q] = "none" => active'[q] = "none"
    BY DEF Consume, IInv, TypeOK
  <2>2. \A q \in Retirements : active'[q] # "none" => active[q] # "none"
    BY DEF Consume, IInv, TypeOK
  <2> QED
    BY <1>1, <2>1, <2>2 DEF IInv, OnePlace, Working, Consume
<1>9. ReservationsExact'
  BY <1>2, <1>3 DEF IInv, TypeOK, ReservationsExact, Busy, Consume, Release
<1>10. NothingExhausts' /\ Bounded'
  BY RetirementAssumption DEF IInv, TypeOK, NothingExhausts, Bounded, Consume, Release
<1> QED
  BY <1>7, <1>8, <1>9, <1>10 DEF IInv

(* A queued entry that loses its identity keeps its place and reservation. *)
LEMMA DetachQueuedHolds ==
    ASSUME IInv, NEW r \in Retirements, DetachQueued(r)
    PROVE  IInv'
<1>1. queue \in Seq(Entries) /\ Len(queue) \in Nat /\ \A i \in 1 .. Len(queue) : queue[i] \in Entries
  BY LenProperties, ElementOfSeq DEF IInv, TypeOK, Entries
<1>2. queue' \in [1 .. Len(queue) -> Entries]
  BY <1>1 DEF DetachQueued, Entries
<1>3. queue' \in Seq(Entries) /\ Len(queue') = Len(queue)
  BY <1>1, <1>2, Relabelled
<1>4. \A i \in 1 .. Len(queue) : queue'[i] # Unobserved => queue'[i] = queue[i]
  BY DEF DetachQueued
<1>5. Busy' = Busy /\ Working' = Working
  BY DEF Busy, Working, InState, DetachQueued
<1>6. TypeOK'
  BY <1>3 DEF IInv, TypeOK, DetachQueued, Entries
<1>7. OnePlace'
  BY <1>3, <1>4, <1>5 DEF IInv, OnePlace, Working, DetachQueued
<1>8. ReservationsExact'
  BY <1>3, <1>5 DEF IInv, ReservationsExact, Busy, DetachQueued
<1>9. NothingExhausts' /\ Bounded'
  BY DEF IInv, NothingExhausts, Bounded, DetachQueued
<1> QED
  BY <1>6, <1>7, <1>8, <1>9 DEF IInv

(* A running retirement that is detached stays with its guard.             *)
LEMMA DetachRunningHolds ==
    ASSUME IInv, NEW r \in Retirements, DetachRunning(r)
    PROVE  IInv'
<1>1. Busy' = Busy /\ Working' = Working
  BY DEF IInv, TypeOK, Busy, Working, InState, DetachRunning
<1>2. active' \in [Retirements -> ActiveStates]
  BY DEF IInv, TypeOK, DetachRunning, ActiveStates
<1>3. TypeOK'
  BY <1>2 DEF IInv, TypeOK, DetachRunning
<1>4. \A q : active[q] = "none" => active'[q] = "none"
  BY DEF IInv, TypeOK, DetachRunning
<1>5. \A q \in Retirements : active'[q] # "none" => active[q] # "none"
  BY DEF IInv, TypeOK, DetachRunning
<1>6. OnePlace'
  BY <1>1, <1>4, <1>5 DEF IInv, OnePlace, Working, DetachRunning
<1>7. ReservationsExact' /\ NothingExhausts' /\ Bounded'
  BY <1>1 DEF IInv, ReservationsExact, NothingExhausts, Bounded, Busy, DetachRunning
<1> QED
  BY <1>3, <1>6, <1>7 DEF IInv

(* Detaching everything drops the completions, each with its reservation.  *)
LEMMA DetachAllHolds ==
    ASSUME IInv, DetachAll
    PROVE  IInv'
<1> DEFINE Completed == InState({"completed"})
<1>1. Busy' = Busy \ Completed /\ Completed \subseteq Busy /\ Working' = Working
  BY DEF IInv, TypeOK, Busy, Working, InState, DetachAll
<1>2. /\ IsFiniteSet(Busy)
      /\ Cardinality(Busy) \in Nat /\ Cardinality(Busy') \in Nat /\ Cardinality(Completed) \in Nat
  BY FinitelyMany DEF Busy, InState
<1>3. Cardinality(Busy') = Cardinality(Busy) - Cardinality(Completed)
  <2>1. Busy \cap Completed = Completed
    BY <1>1
  <2> QED
    BY <1>1, <1>2, <2>1, FS_Difference
<1>4. queue \in Seq(Entries) /\ Len(queue) \in Nat
  BY LenProperties DEF IInv, TypeOK, Entries
<1>5. queue' \in [1 .. Len(queue) -> Entries]
  BY DEF DetachAll, Entries
<1>6. queue' \in Seq(Entries) /\ Len(queue') = Len(queue)
  BY <1>4, <1>5, Relabelled
<1>7. reserved >= Cardinality(Completed)
  BY <1>2, <1>3, <1>4 DEF IInv, TypeOK, ReservationsExact, Busy
<1>8. reserved' \in Nat /\ epoch' \in Nat
  BY <1>2, <1>7 DEF IInv, TypeOK, DetachAll, Release
<1>9. active' \in [Retirements -> ActiveStates]
  BY DEF DetachAll, IInv, TypeOK, ActiveStates
<1>10. TypeOK'
  BY <1>6, <1>8, <1>9 DEF IInv, TypeOK, DetachAll, Entries
<1>11. OnePlace'
  <2>1. \A i \in 1 .. Len(queue') : queue'[i] = Unobserved
    BY <1>6 DEF DetachAll
  <2>2. \A q \in Retirements : active'[q] # "none" => active[q] # "none"
    BY DEF DetachAll
  <2> QED
    BY <1>1, <2>1, <2>2 DEF IInv, OnePlace, Working, DetachAll
<1>12. ReservationsExact'
  BY <1>2, <1>3, <1>4, <1>6 DEF IInv, TypeOK, ReservationsExact, Busy, DetachAll, Release
<1>13. NothingExhausts' /\ Bounded'
  BY <1>2, RetirementAssumption DEF IInv, TypeOK, NothingExhausts, Bounded, DetachAll, Release
<1> QED
  BY <1>10, <1>11, <1>12, <1>13 DEF IInv

(* A worker that takes an entry takes it out of the queue.                 *)
LEMMA ClaimHolds ==
    ASSUME IInv, Claim
    PROVE  IInv'
<1> DEFINE h == Head(queue)
<1>1. queue \in Seq(Entries) /\ queue # <<>> /\ Len(queue) \in Nat
  BY LenProperties DEF IInv, TypeOK, Entries, Claim, Claimable
<1>2. /\ h \in Entries
      /\ queue' \in Seq(Entries) /\ Len(queue') = Len(queue) - 1
      /\ \A i \in 1 .. Len(queue') : queue'[i] = queue[i + 1]
  BY <1>1, HeadTailProperties DEF Claim
<1>3. Len(queue) \in Nat \ {0} /\ h = queue[1] /\ Len(queue') \in Nat
  BY <1>1, <1>2, EmptySeq, LenProperties
<1>4. \A i \in 1 .. Len(queue') : queue'[i] # Unobserved =>
         /\ active[queue'[i]] = "none" /\ queue'[i] < nextRetirement
         /\ queue'[i] # h
         /\ \A k \in 1 .. Len(queue') : queue'[k] = queue'[i] => k = i
  <2> SUFFICES ASSUME NEW i \in 1 .. Len(queue'), queue'[i] # Unobserved
               PROVE  /\ active[queue'[i]] = "none" /\ queue'[i] < nextRetirement
                      /\ queue'[i] # h
                      /\ \A k \in 1 .. Len(queue') : queue'[k] = queue'[i] => k = i
    OBVIOUS
  <2>1. i + 1 \in 1 .. Len(queue) /\ queue'[i] = queue[i + 1]
    BY <1>2, <1>3
  <2>2. /\ active[queue[i + 1]] = "none" /\ queue[i + 1] < nextRetirement
        /\ \A k \in 1 .. Len(queue) : queue[k] = queue[i + 1] => k = i + 1
    BY <2>1 DEF IInv, OnePlace
  <2>3. queue'[i] # h
    BY <1>3, <2>1, <2>2
  <2>4. ASSUME NEW k \in 1 .. Len(queue'), queue'[k] = queue'[i]
        PROVE  k = i
    <3>1. k + 1 \in 1 .. Len(queue) /\ queue'[k] = queue[k + 1]
      BY <1>2, <1>3
    <3>2. k + 1 = i + 1
      BY <2>1, <2>2, <2>4, <3>1
    <3> QED
      BY <3>2
  <2> QED
    BY <2>1, <2>2, <2>3, <2>4
<1>5. /\ IsFiniteSet(Busy)
      /\ Cardinality(Busy) \in Nat /\ Cardinality(Busy') \in Nat
  BY FinitelyMany DEF Busy, InState
<1>6. NothingExhausts' /\ Bounded'
  BY DEF IInv, NothingExhausts, Bounded, Claim
<1>7. CASE h = Unobserved
  <2>1. unobserved' = unobserved + 1 /\ active' = active /\ guards' = guards
    BY <1>7 DEF Claim
  <2>2. Busy' = Busy /\ Working' = Working
    BY <2>1 DEF Busy, Working, InState
  <2>3. TypeOK'
    BY <1>2, <2>1 DEF IInv, TypeOK, Entries, Claim
  <2>4. OnePlace'
    BY <1>4, <2>1, <2>2 DEF IInv, OnePlace, Working, Claim
  <2>5. ReservationsExact'
    BY <1>1, <1>2, <1>5, <2>1, <2>2 DEF IInv, TypeOK, ReservationsExact, Busy, Claim
  <2> QED
    BY <1>6, <2>3, <2>4, <2>5 DEF IInv
<1>8. CASE h # Unobserved
  <2>1. /\ active' = [active EXCEPT ![h] = "running"]
        /\ guards' = guards \cup {h} /\ unobserved' = unobserved
        /\ h \in Retirements
    BY <1>2, <1>8 DEF Claim, Entries
  <2>2. active[h] = "none" /\ h < nextRetirement
    BY <1>3, <1>8 DEF IInv, OnePlace
  <2>3. Busy' = Busy \cup {h} /\ h \notin Busy /\ Working' = Working \cup {h}
    BY <2>1, <2>2 DEF IInv, TypeOK, Busy, Working, InState
  <2>4. Cardinality(Busy') = Cardinality(Busy) + 1
    BY <1>5, <2>3, FS_AddElement
  <2>5. active' \in [Retirements -> ActiveStates]
    BY <2>1 DEF IInv, TypeOK, ActiveStates
  <2>6. TypeOK'
    BY <1>2, <2>1, <2>5 DEF IInv, TypeOK, Entries, Claim
  <2>7. OnePlace'
    <3>1. \A q : q # h /\ active[q] = "none" => active'[q] = "none"
      BY <2>1 DEF IInv, TypeOK
    <3>2. \A q \in Retirements : active'[q] # "none" => q = h \/ active[q] # "none"
      BY <2>1 DEF IInv, TypeOK
    <3> QED
      BY <1>4, <2>1, <2>2, <2>3, <3>1, <3>2 DEF IInv, OnePlace, Working, Claim
  <2>8. ReservationsExact'
    BY <1>1, <1>2, <1>5, <2>1, <2>4 DEF IInv, TypeOK, ReservationsExact, Busy, Claim
  <2> QED
    BY <1>6, <2>6, <2>7, <2>8 DEF IInv
<1> QED
  BY <1>7, <1>8

(* A guard that is destroyed leaves a completion, or gives one reservation *)
(* back when its retirement was detached.                                  *)
LEMMA FinishObservedHolds ==
    ASSUME IInv, NEW r \in Retirements, FinishObserved(r)
    PROVE  IInv'
<1>1. r \in Working /\ guards' = guards \ {r}
  BY DEF IInv, OnePlace, Working, FinishObserved
<1>2. /\ IsFiniteSet(Busy) /\ Len(queue) \in Nat
      /\ Cardinality(Busy) \in Nat /\ Cardinality(Busy') \in Nat
  BY FinitelyMany, LenProperties DEF Busy, InState, IInv, TypeOK
<1>3. active' \in [Retirements -> ActiveStates]
  BY DEF IInv, TypeOK, FinishObserved, ActiveStates
<1>4. Working' = Working \ {r}
  BY <1>1 DEF IInv, TypeOK, Working, InState, FinishObserved
<1>5. /\ Busy' \subseteq Busy
      /\ Cardinality(Busy) - Cardinality(Busy') \in 0 .. 1
      /\ reserved' = reserved - (Cardinality(Busy) - Cardinality(Busy'))
      /\ epoch' = epoch + (Cardinality(Busy) - Cardinality(Busy'))
  <2>1. CASE active[r] = "running"
    <3>1. Busy' = Busy
      BY <1>1, <2>1 DEF IInv, TypeOK, Busy, Working, InState, FinishObserved
    <3> QED
      BY <1>2, <2>1, <3>1 DEF IInv, TypeOK, FinishObserved
  <2>2. CASE active[r] # "running"
    <3>1. Busy' = Busy \ {r} /\ r \in Busy
      BY <1>1, <2>2 DEF IInv, TypeOK, Busy, Working, InState, FinishObserved
    <3>2. Cardinality(Busy') = Cardinality(Busy) - 1
      BY <1>2, <3>1, FS_RemoveElement
    <3> QED
      BY <1>2, <2>2, <3>1, <3>2 DEF IInv, TypeOK, FinishObserved, Release
  <2> QED
    BY <2>1, <2>2
<1>6. reserved' \in Nat /\ epoch' \in Nat
  <2>1. reserved >= Cardinality(Busy) /\ reserved \in Nat /\ epoch \in Nat
    BY <1>2 DEF IInv, TypeOK, ReservationsExact, Busy
  <2> QED
    BY <1>2, <1>5, <2>1
<1>7. TypeOK'
  BY <1>1, <1>3, <1>6 DEF IInv, TypeOK, FinishObserved
<1>8. OnePlace'
  <2>1. active[r] # "none"
    BY <1>1 DEF Working, InState
  <2>a. PICK v : active' = [active EXCEPT ![r] = v]
    BY DEF FinishObserved
  <2>2. \A q : active[q] = "none" => active'[q] = "none"
    BY <2>1, <2>a DEF IInv, TypeOK
  <2>3. \A q \in Retirements : active'[q] # "none" => active[q] # "none"
    BY <2>1, <2>a DEF IInv, TypeOK
  <2> QED
    BY <1>1, <1>4, <2>2, <2>3 DEF IInv, OnePlace, Working, FinishObserved
<1>9. ReservationsExact'
  BY <1>2, <1>5 DEF IInv, TypeOK, ReservationsExact, Busy, FinishObserved
<1>10. NothingExhausts' /\ Bounded'
  BY <1>2, <1>5, RetirementAssumption
  DEF IInv, TypeOK, NothingExhausts, Bounded, FinishObserved
<1> QED
  BY <1>7, <1>8, <1>9, <1>10 DEF IInv

(* A guard without an identity gives its reservation back.                 *)
LEMMA FinishUnobservedHolds ==
    ASSUME IInv, FinishUnobserved
    PROVE  IInv'
<1>1. Cardinality(Busy) \in Nat /\ Len(queue) \in Nat
  BY FinitelyMany, LenProperties DEF Busy, InState, IInv, TypeOK
<1>2. Busy' = Busy /\ Working' = Working
  BY DEF Busy, Working, InState, FinishUnobserved
<1>3. reserved > 0
  BY <1>1 DEF IInv, TypeOK, ReservationsExact, Busy, FinishUnobserved
<1>4. reserved' \in Nat /\ epoch' \in Nat /\ unobserved' \in Nat
  BY <1>3 DEF IInv, TypeOK, FinishUnobserved, Release
<1>5. TypeOK'
  BY <1>4 DEF IInv, TypeOK, FinishUnobserved
<1>6. OnePlace'
  BY <1>2 DEF IInv, OnePlace, Working, FinishUnobserved
<1>7. ReservationsExact'
  BY <1>1, <1>2 DEF IInv, TypeOK, ReservationsExact, Busy, FinishUnobserved, Release
<1>8. NothingExhausts' /\ Bounded'
  BY RetirementAssumption DEF IInv, TypeOK, NothingExhausts, Bounded, FinishUnobserved, Release
<1> QED
  BY <1>5, <1>6, <1>7, <1>8 DEF IInv

(* Every step of the service keeps the invariant.                          *)
LEMMA StepHolds == IInv /\ [Next]_retirementVars => IInv'
<1> SUFFICES ASSUME IInv, [Next]_retirementVars
             PROVE  IInv'
  OBVIOUS
<1>1. CASE Reserve \/ Attach \/ DropPermit \/ CloseAdmission
  BY <1>1, AdmissionHolds
<1>2. CASE Retire \/ DropOwner
  BY <1>2, OwnerEndHolds
<1>3. CASE \E r \in Retirements : Detach(r)
  BY <1>3, ConsumeHolds, DetachQueuedHolds, DetachRunningHolds DEF Detach
<1>4. CASE DetachAll
  BY <1>4, DetachAllHolds
<1>5. CASE Claim
  BY <1>5, ClaimHolds
<1>6. CASE Finish
  BY <1>6, FinishObservedHolds, FinishUnobservedHolds DEF Finish
<1>7. CASE UNCHANGED retirementVars
  BY <1>7 DEF retirementVars, IInv, TypeOK, OnePlace, ReservationsExact, NothingExhausts, Bounded, InState
<1> QED
  BY <1>1, <1>2, <1>3, <1>4, <1>5, <1>6, <1>7 DEF Next

(* The invariant holds of every reachable state.                           *)
LEMMA InvariantHolds == Spec => []IInv
<1> QED
  BY InitHolds, StepHolds, PTL DEF Spec

-----------------------------------------------------------------------------

(* Every variable of the service has its type: no counter goes below zero, *)
(* whatever the order in which permits, owners and guards end.             *)
THEOREM RetirementTyped == Spec => []TypeOK
<1>1. IInv => TypeOK
  BY DEF IInv
<1> QED
  BY <1>1, InvariantHolds, PTL

(* Every reservation has one holder, and is given back once whichever way  *)
(* its resource ends.                                                      *)
THEOREM ReservationsCounted == Spec => []ReservationsExact
<1>1. IInv => ReservationsExact
  BY DEF IInv
<1> QED
  BY <1>1, InvariantHolds, PTL

(* An explicit retirement is queued once, or held by its one guard, or     *)
(* completed, and its identity is not issued again: the destructor of the  *)
(* guard finds its entry, and claim finds none.                            *)
THEOREM RetirementInOnePlace == Spec => []OnePlace
<1>1. IInv => OnePlace
  BY DEF IInv
<1> QED
  BY <1>1, InvariantHolds, PTL

(* No destructor finds the epoch at its end, and no owner an identity.     *)
THEOREM NothingRunsOut == Spec => []NothingExhausts
<1>1. IInv => NothingExhausts
  BY DEF IInv
<1> QED
  BY <1>1, InvariantHolds, PTL

-----------------------------------------------------------------------------

(* A step that gives n reservations back is a Release of the pool.         *)
LEMMA GivesBack ==
    ASSUME NEW n \in Nat, n <= reserved, Release(n), accepting' = accepting
    PROVE  Pool!Release
  BY DEF Release, Pool!Release

(* Every step of the service is a step of the abstract pool.               *)
LEMMA StepRefines == IInv /\ [Next]_retirementVars => [Pool!Next]_(Pool!vars)
<1> SUFFICES ASSUME IInv, [Next]_retirementVars
             PROVE  [Pool!Next]_(Pool!vars)
  OBVIOUS
<1>c. /\ reserved \in Nat /\ reserved <= MaximumResources
      /\ permits \in Nat /\ owners \in Nat /\ unobserved \in Nat /\ Len(queue) \in Nat
      /\ IsFiniteSet(Busy) /\ Cardinality(Busy) \in Nat
      /\ reserved = permits + owners + Len(queue) + unobserved + Cardinality(Busy)
  BY FinitelyMany, LenProperties DEF IInv, TypeOK, Bounded, ReservationsExact, Busy, InState
<1>1. CASE Reserve
  <2>1. Pool!Admit
    BY <1>1, <1>c, RetirementAssumption DEF Reserve, Pool!Admit
  <2> QED
    BY <2>1 DEF Pool!Next
<1>2. CASE CloseAdmission
  <2>1. Pool!Release
    <3>1. reserved' = reserved - 0 /\ epoch' = epoch + 0 /\ accepting' = FALSE
      BY <1>2, <1>c DEF CloseAdmission, IInv, TypeOK
    <3>2. 0 \in 0 .. reserved
      BY <1>c
    <3>3. accepting' \in {accepting, FALSE}
      BY <3>1
    <3> QED
      BY <3>1, <3>2, <3>3, Zenon DEF Pool!Release
  <2> QED
    BY <2>1 DEF Pool!Next
<1>3. CASE Attach \/ Retire \/ DropOwner \/ Claim
  BY <1>3 DEF Attach, Retire, DropOwner, Claim, Pool!vars
<1>4. CASE DropPermit
  BY <1>4, <1>c, GivesBack DEF DropPermit, Pool!Next
<1>5. ASSUME NEW r \in Retirements, Consume(r)
      PROVE  Pool!Next
  <2>1. reserved >= 1
    <3>1. r \in Busy
      BY <1>5 DEF Consume, Busy, InState
    <3>2. Cardinality(Busy) # 0
      BY <3>1, <1>c, FS_EmptySet
    <3> QED
      BY <3>2, <1>c
  <2> QED
    BY <1>5, <2>1, GivesBack DEF Consume, Pool!Next
<1>6. ASSUME NEW r \in Retirements, DetachQueued(r) \/ DetachRunning(r)
      PROVE  UNCHANGED Pool!vars
  BY <1>6 DEF DetachQueued, DetachRunning, Pool!vars
<1>7. CASE DetachAll
  <2> DEFINE n == Cardinality(InState({"completed"}))
  <2>1. n \in Nat
    BY FinitelyMany DEF InState
  <2>2. n <= Cardinality(Busy)
    BY <1>c, FS_Subset DEF Busy, InState
  <2>3. Release(n) /\ accepting' = accepting
    BY <1>7 DEF DetachAll
  <2>4. n <= reserved
    BY <1>c, <2>1, <2>2
  <2> HIDE DEF n
  <2> QED
    BY <2>1, <2>3, <2>4, GivesBack DEF Pool!Next
<1>8. CASE Finish
  <2>1. CASE FinishUnobserved
    BY <2>1, <1>c, GivesBack DEF FinishUnobserved, Pool!Next
  <2>2. ASSUME NEW r \in Retirements, FinishObserved(r)
        PROVE  [Pool!Next]_(Pool!vars)
    <3>1. reserved >= 1
      <4>1. r \in Busy
        BY <2>2 DEF FinishObserved, IInv, OnePlace, Busy, InState
      <4>2. Cardinality(Busy) # 0
        BY <4>1, <1>c, FS_EmptySet
      <4> QED
        BY <4>2, <1>c
    <3>2. CASE active[r] = "running"
      BY <2>2, <3>2 DEF FinishObserved, Pool!vars
    <3>3. CASE active[r] # "running"
      BY <2>2, <3>1, <3>3, GivesBack DEF FinishObserved, Pool!Next
    <3> QED
      BY <3>2, <3>3
  <2> QED
    BY <1>8, <2>1, <2>2 DEF Finish
<1>9. CASE UNCHANGED retirementVars
  BY <1>9 DEF retirementVars, Pool!vars
<1> QED
  BY <1>1, <1>2, <1>3, <1>4, <1>5, <1>6, <1>7, <1>8, <1>9 DEF Next, Detach

(* The service is a bounded pool of admissions: resources never exceed     *)
(* maximum_resources, closing is final, and the epoch moves once for every *)
(* reservation given back.                                                 *)
THEOREM RetirementImplementsPool == Spec => PoolSpec
<1>1. Init => Pool!Init
  BY DEF Init, Pool!Init
<1> QED
  BY <1>1, InvariantHolds, StepRefines, PTL DEF Spec, PoolSpec, Pool!Spec

-----------------------------------------------------------------------------

(* The threads of RetirementWorkers change the service by its operations;  *)
(* a guard that one of them destroys is the guard of an issued identity.   *)
LEMMA WorkersStep == IInv /\ [WNext]_vars => [Next]_retirementVars
<1> SUFFICES ASSUME IInv, WNext
             PROVE  [Next]_retirementVars
  BY DEF vars
<1>1. ASSUME NEW w \in Workers, Build(w) \/ WorkerStep(w) \/ SpuriousWake(w)
      PROVE  [Next]_retirementVars
  <2>1. CASE Claims(w)
    BY <2>1 DEF Claims, Next
  <2>2. CASE Cleans(w)
    <3>1. CASE FinishUnobserved
      BY <3>1 DEF Finish, Next
    <3>2. CASE \E r \in holding[w] \ {Unobserved} : FinishObserved(r)
      BY <3>2 DEF FinishObserved, IInv, TypeOK, Finish, Next
    <3> QED
      BY <2>2, <3>1, <3>2 DEF Cleans
  <2> QED
    BY <1>1, <2>1, <2>2 DEF Build, WorkerStep, SpuriousWake, Observe, ClaimsNone, Leaves,
       WorkerNotifies, WaitForChange
<1>2. CASE OwnerStep
  BY <1>2 DEF OwnerStep, OwnerNotifies, Close, Detaches, Looks, Join, Next
<1>3. CASE BuildFails \/ CallReserve \/ Initializes \/ GivesUp \/ Announces
  BY <1>3 DEF BuildFails, CallReserve, Initializes, GivesUp, Announces, Next
<1>4. ASSUME NEW r \in Retirements, CallConsume(r) \/ CallDetach(r)
      PROVE  Next
  BY <1>4 DEF CallConsume, CallDetach, Detach, Next
<1>5. ASSUME NEW how \in {"shutdown", "drop"}, BeginsEnd(how)
      PROVE  [Next]_retirementVars
  BY <1>5 DEF BeginsEnd, Next
<1> QED
  BY <1>1, <1>2, <1>3, <1>4, <1>5 DEF WNext

(* Whatever the adapter's owner, its cleanup threads and the threads that  *)
(* hold permits and owners do, in any interleaving, the service behaves as *)
(* specified; so all of the above holds of the adapter.                    *)
THEOREM WorkersUseService == WSpec => Spec
<1>1. WInit => Init
  BY DEF WInit
<1> QED
  BY <1>1, InitHolds, StepHolds, WorkersStep, PTL DEF WSpec, Spec

-----------------------------------------------------------------------------
(* The cleanup threads.                                                    *)

Kinds ==
    /\ owner \in OwnerSteps /\ ending \in {"none", "shutdown", "drop"}
    /\ worker \in [Workers -> WorkerSteps]
    /\ current \subseteq Workers /\ pending \in Nat

Flag == stop \in BOOLEAN

\* Each guard is owned by one thread, which cleans its resource.
Carriers == {w \in Workers : Unobserved \in holding[w]}
Held ==
    /\ holding \in [Workers -> SUBSET Entries]
    /\ \A w \in Workers : holding[w] # {} <=> worker[w] = "clean"
    /\ \A w \in Workers : \A i, j \in holding[w] : i = j
    /\ \A v, w \in Workers : v # w => holding[v] \cap holding[w] \subseteq {Unobserved}
    /\ \A e : e \in guards <=> e # Unobserved /\ \E w \in Workers : e \in holding[w]
    /\ unobserved = Cardinality(Carriers)

\* Nobody is told to stop, and no thread leaves, before the last reservation is gone.
Begun == owner \in {"building", "notifyFailed", "close"}
Life ==
    /\ Begun => reserved = 0
    /\ owner \in {"notifyFailed", "close"} => ~accepting
    /\ ~Begun => stop \/ \A w \in Workers : worker[w] # "unborn"
    /\ stop => ~accepting /\ reserved = 0
    /\ \A w \in Workers : worker[w] = "exited" => ~accepting /\ reserved = 0

WorkerInv == IInv /\ Kinds /\ Flag /\ Held /\ NoWorkerOversleeps /\ Life

-----------------------------------------------------------------------------
(* The threads.                                                            *)

(* The numbers of the service.                                             *)
LEMMA Counters ==
    ASSUME IInv
    PROVE  /\ reserved \in Nat /\ unobserved \in Nat /\ permits \in Nat /\ owners \in Nat
           /\ queue \in Seq(Entries) /\ Len(queue) \in Nat
           /\ active \in [Retirements -> ActiveStates] /\ guards \in SUBSET Retirements
           /\ Unobserved \notin Retirements
<1>1. queue \in Seq(Entries) /\ Len(queue) \in Nat
  BY LenProperties DEF IInv, TypeOK, Entries
<1> QED
  BY <1>1, RetirementAssumption DEF IInv, TypeOK, Retirements, Unobserved

(* Every step keeps the kinds of the variables.                            *)
LEMMA KindsNext ==
    ASSUME Kinds, [WNext]_vars
    PROVE  Kinds'
<1>1. ASSUME NEW w \in Workers, Build(w)
      PROVE  Kinds'
  BY <1>1 DEF Build, Kinds, OwnerSteps, WorkerSteps
<1>2. ASSUME NEW w \in Workers, Observe(w)
      PROVE  Kinds'
  BY <1>2 DEF Observe, Kinds, OwnerSteps, WorkerSteps
<1>3. ASSUME NEW w \in Workers, Claims(w)
      PROVE  Kinds'
  BY <1>3 DEF Claims, Kinds, OwnerSteps, WorkerSteps
<1>4. ASSUME NEW w \in Workers, ClaimsNone(w)
      PROVE  Kinds'
  BY <1>4 DEF ClaimsNone, Kinds, OwnerSteps, WorkerSteps
<1>5. ASSUME NEW w \in Workers, Leaves(w)
      PROVE  Kinds'
  BY <1>5 DEF Leaves, Kinds, OwnerSteps, WorkerSteps
<1>6. ASSUME NEW w \in Workers, Cleans(w)
      PROVE  Kinds'
  BY <1>6 DEF Cleans, Kinds, OwnerSteps, WorkerSteps
<1>7. ASSUME NEW w \in Workers, WorkerNotifies(w)
      PROVE  Kinds'
  BY <1>7 DEF WorkerNotifies, Kinds, OwnerSteps, WorkerSteps
<1>8. ASSUME NEW w \in Workers, WaitForChange(w)
      PROVE  Kinds'
  BY <1>8 DEF WaitForChange, Kinds, OwnerSteps, WorkerSteps
<1>9. ASSUME NEW w \in Workers, SpuriousWake(w)
      PROVE  Kinds'
  BY <1>9 DEF SpuriousWake, Kinds, OwnerSteps, WorkerSteps
<1>10. ASSUME BuildFails
      PROVE  Kinds'
  BY <1>10 DEF BuildFails, Kinds, OwnerSteps, WorkerSteps
<1>11. ASSUME OwnerNotifies
      PROVE  Kinds'
  BY <1>11 DEF OwnerNotifies, NotifyAll, Kinds, OwnerSteps, WorkerSteps
<1>12. ASSUME Close
      PROVE  Kinds'
  BY <1>12 DEF Close, NotifyAll, Kinds, OwnerSteps, WorkerSteps
<1>13. ASSUME Detaches
      PROVE  Kinds'
  BY <1>13 DEF Detaches, Kinds, OwnerSteps, WorkerSteps
<1>14. ASSUME Looks
      PROVE  Kinds'
  BY <1>14 DEF Looks, Kinds, OwnerSteps, WorkerSteps
<1>15. ASSUME Join
      PROVE  Kinds'
  BY <1>15 DEF Join, Kinds, OwnerSteps, WorkerSteps
<1>16. ASSUME CallReserve
      PROVE  Kinds'
  BY <1>16 DEF CallReserve, poolVars, Kinds, OwnerSteps, WorkerSteps
<1>17. ASSUME Initializes
      PROVE  Kinds'
  BY <1>17 DEF Initializes, poolVars, Kinds, OwnerSteps, WorkerSteps
<1>18. ASSUME GivesUp
      PROVE  Kinds'
  BY <1>18 DEF GivesUp, Kinds, OwnerSteps, WorkerSteps
<1>19. ASSUME Announces
      PROVE  Kinds'
  BY <1>19 DEF Announces, NotifyAll, Kinds, OwnerSteps, WorkerSteps
<1>20. ASSUME NEW r \in Retirements, CallConsume(r)
      PROVE  Kinds'
  BY <1>20 DEF CallConsume, Kinds, OwnerSteps, WorkerSteps
<1>21. ASSUME NEW r \in Retirements, CallDetach(r)
      PROVE  Kinds'
  BY <1>21 DEF CallDetach, Kinds, OwnerSteps, WorkerSteps
<1>22. ASSUME NEW how \in {"shutdown", "drop"}, BeginsEnd(how)
      PROVE  Kinds'
  BY <1>22 DEF BeginsEnd, Kinds, OwnerSteps, WorkerSteps
<1>23. CASE UNCHANGED vars
  BY <1>23 DEF vars, poolVars, retirementVars, Kinds, OwnerSteps, WorkerSteps
<1> QED
  BY <1>1, <1>2, <1>3, <1>4, <1>5, <1>6, <1>7, <1>8, <1>9, <1>10, <1>11, <1>12, <1>13, <1>14, <1>15, <1>16, <1>17, <1>18, <1>19, <1>20, <1>21, <1>22, <1>23
  DEF WNext, WorkerStep, OwnerStep

(* The flag is only ever set.                                              *)
LEMMA FlagNext ==
    ASSUME Flag, [WNext]_vars
    PROVE  Flag'
<1>1. stop' \in {stop, TRUE}
  BY DEF WNext, WorkerStep, OwnerStep, Build, Observe, Claims, ClaimsNone, Leaves, Cleans, WorkerNotifies, WaitForChange,
         SpuriousWake, BuildFails, OwnerNotifies, Close, Detaches, Looks, Join, CallReserve, CallConsume, CallDetach,
         BeginsEnd, Initializes, GivesUp, Announces, vars, poolVars
<1> QED
  BY <1>1 DEF Flag

(* A step that neither claims nor cleans keeps the guards where they are.  *)
LEMMA HeldKept ==
    ASSUME Held, UNCHANGED <<holding, guards, unobserved>>,
           \A w \in Workers : worker'[w] = "clean" <=> worker[w] = "clean"
    PROVE  Held'
<1>1. Carriers' = Carriers
  BY DEF Carriers
<1> QED
  BY <1>1 DEF Held

(* The threads that carry a guard without an identity are finitely many.   *)
LEMMA CarriersFinite == IsFiniteSet(Carriers) /\ Cardinality(Carriers) \in Nat
<1>1. IsFiniteSet(Workers)
  BY RetirementAssumption, FS_Interval DEF Workers
<1>2. Carriers \in SUBSET Workers
  BY DEF Carriers
<1> QED
  BY <1>1, <1>2, FS_Subset, FS_CardinalityType

(* Every step leaves each guard with the one thread that cleans with it.   *)
LEMMA HeldNext ==
    ASSUME IInv, Kinds, Held, [WNext]_vars
    PROVE  Held'
<1>1. ASSUME NEW w \in Workers, Build(w)
      PROVE  Held'
  BY <1>1, HeldKept DEF Build, retirementVars, Kinds
<1>2. ASSUME NEW w \in Workers, Observe(w)
      PROVE  Held'
  BY <1>2, HeldKept DEF Observe, retirementVars, Kinds
<1>3. ASSUME NEW w \in Workers, Claims(w)
      PROVE  Held'
  <2>1. worker[w] = "claim" /\ worker' = [worker EXCEPT ![w] = "clean"] /\ holding' = [holding EXCEPT ![w] = {Head(queue)}]
    BY <1>3 DEF Claims
  <2>2. PICK h \in Entries : h = Head(queue) /\ h = queue[1] /\ 1 \in 1 .. Len(queue)
    BY <1>3, Counters, EmptySeq, HeadTailProperties DEF Claims, Claim, Claimable
  <2>3. holding[w] = {} /\ holding'[w] = {h} /\ \A v \in Workers : v # w => holding'[v] = holding[v]
    BY <2>1, <2>2 DEF Held
  <2>4. h # Unobserved => \A v \in Workers : h \notin holding[v]
    <3>1. h # Unobserved => h \notin guards
      BY <2>2 DEF IInv, OnePlace, InState
    <3> QED
      BY <3>1 DEF Held
  <2>5. holding' \in [Workers -> SUBSET Entries]
    BY <2>1, <2>2 DEF Held
  <2>6. \A v \in Workers : holding'[v] # {} <=> worker'[v] = "clean"
    BY <2>1, <2>3 DEF Held, Kinds
  <2>7. \A v \in Workers : \A i, j \in holding'[v] : i = j
    BY <2>3 DEF Held
  <2>8. \A u, v \in Workers : u # v => holding'[u] \cap holding'[v] \subseteq {Unobserved}
    BY <2>3, <2>4 DEF Held
  <2>9. PICK A, B : A = Carriers /\ B = Carriers'
    OBVIOUS
  <2>10. CASE h = Unobserved
    <3>1. guards' = guards /\ unobserved' = unobserved + 1
      BY <1>3, <2>2, <2>10 DEF Claims, Claim
    <3>2. \A e : e \in guards' <=> e # Unobserved /\ \E v \in Workers : e \in holding'[v]
      BY <2>3, <2>10, <3>1 DEF Held
    <3>3. B = A \cup {w} /\ w \notin A
      BY <2>3, <2>9, <2>10 DEF Carriers
    <3>4. unobserved' = Cardinality(B)
      BY <2>9, <3>1, <3>3, CarriersFinite, FS_AddElement DEF Held
    <3> QED
      BY <2>5, <2>6, <2>7, <2>8, <2>9, <3>2, <3>4 DEF Held
  <2>11. CASE h # Unobserved
    <3>1. guards' = guards \cup {h} /\ unobserved' = unobserved
      BY <1>3, <2>2, <2>11 DEF Claims, Claim
    <3>2. \A e : e \in guards' <=> e # Unobserved /\ \E v \in Workers : e \in holding'[v]
      BY <2>3, <2>11, <3>1 DEF Held
    <3>3. B = A
      BY <2>3, <2>9, <2>11 DEF Carriers
    <3> QED
      BY <2>5, <2>6, <2>7, <2>8, <2>9, <3>1, <3>2, <3>3 DEF Held
  <2> QED
    BY <2>10, <2>11
<1>4. ASSUME NEW w \in Workers, ClaimsNone(w)
      PROVE  Held'
  BY <1>4, HeldKept DEF ClaimsNone, retirementVars, Kinds
<1>5. ASSUME NEW w \in Workers, Leaves(w)
      PROVE  Held'
  BY <1>5, HeldKept DEF Leaves, retirementVars, Kinds
<1>6. ASSUME NEW w \in Workers, Cleans(w)
      PROVE  Held'
  <2>1. worker[w] = "clean" /\ worker' = [worker EXCEPT ![w] = "notify"] /\ holding' = [holding EXCEPT ![w] = {}]
    BY <1>6 DEF Cleans
  <2>2. holding'[w] = {} /\ \A v \in Workers : v # w => holding'[v] = holding[v]
    BY <2>1 DEF Held
  <2>3. holding' \in [Workers -> SUBSET Entries]
    BY <2>1 DEF Held
  <2>4. \A v \in Workers : holding'[v] # {} <=> worker'[v] = "clean"
    BY <2>1, <2>2 DEF Held, Kinds
  <2>5. \A v \in Workers : \A i, j \in holding'[v] : i = j
    BY <2>2 DEF Held
  <2>6. \A u, v \in Workers : u # v => holding'[u] \cap holding'[v] \subseteq {Unobserved}
    BY <2>2 DEF Held
  <2>7. PICK A, B : A = Carriers /\ B = Carriers'
    OBVIOUS
  <2>8. CASE Unobserved \in holding[w] /\ FinishUnobserved
    <3>1. guards' = guards /\ unobserved' = unobserved - 1 /\ holding[w] = {Unobserved}
      BY <2>8 DEF FinishUnobserved, Held
    <3>2. \A e : e \in guards' <=> e # Unobserved /\ \E v \in Workers : e \in holding'[v]
      BY <2>2, <3>1 DEF Held
    <3>3. B = A \ {w} /\ w \in A
      BY <2>2, <2>7, <3>1 DEF Carriers
    <3>4. unobserved' = Cardinality(B)
      BY <2>7, <3>1, <3>3, CarriersFinite, FS_RemoveElement DEF Held
    <3> QED
      BY <2>3, <2>4, <2>5, <2>6, <2>7, <3>2, <3>4 DEF Held
  <2>9. ASSUME NEW r \in holding[w] \ {Unobserved}, FinishObserved(r)
        PROVE  Held'
    <3>1. guards' = guards \ {r} /\ unobserved' = unobserved /\ holding[w] = {r}
      BY <2>9 DEF FinishObserved, Held
    <3>2. \A v \in Workers : v # w => r \notin holding[v]
      BY <2>9, <3>1 DEF Held
    <3>3. \A e : e \in guards' <=> e # Unobserved /\ \E v \in Workers : e \in holding'[v]
      BY <2>2, <3>1, <3>2 DEF Held
    <3>4. B = A
      BY <2>2, <2>7, <2>9, <3>1 DEF Carriers
    <3> QED
      BY <2>3, <2>4, <2>5, <2>6, <2>7, <3>1, <3>3, <3>4 DEF Held
  <2> QED
    BY <1>6, <2>8, <2>9 DEF Cleans
<1>7. ASSUME NEW w \in Workers, WorkerNotifies(w)
      PROVE  Held'
  BY <1>7, HeldKept DEF WorkerNotifies, retirementVars, Kinds
<1>8. ASSUME NEW w \in Workers, WaitForChange(w)
      PROVE  Held'
  BY <1>8, HeldKept DEF WaitForChange, retirementVars, Kinds
<1>9. ASSUME NEW w \in Workers, SpuriousWake(w)
      PROVE  Held'
  BY <1>9, HeldKept DEF SpuriousWake, retirementVars, Kinds
<1>10. ASSUME BuildFails
      PROVE  Held'
  BY <1>10, HeldKept DEF BuildFails, CloseAdmission, Kinds
<1>11. ASSUME OwnerNotifies
      PROVE  Held'
  BY <1>11, HeldKept DEF OwnerNotifies, NotifyAll, retirementVars, Kinds
<1>12. ASSUME Close
      PROVE  Held'
  BY <1>12, HeldKept DEF Close, NotifyAll, retirementVars, Kinds
<1>13. ASSUME Detaches
      PROVE  Held'
  BY <1>13, HeldKept DEF Detaches, DetachAll, Kinds
<1>14. ASSUME Looks
      PROVE  Held'
  BY <1>14, HeldKept DEF Looks, retirementVars, Kinds
<1>15. ASSUME Join
      PROVE  Held'
  BY <1>15, HeldKept DEF Join, retirementVars, Kinds
<1>16. ASSUME CallReserve
      PROVE  Held'
  BY <1>16, HeldKept DEF CallReserve, poolVars, Reserve, Kinds
<1>17. ASSUME Initializes
      PROVE  Held'
  BY <1>17, HeldKept DEF Initializes, poolVars, Attach, Kinds
<1>18. ASSUME GivesUp
      PROVE  Held'
  BY <1>18, HeldKept DEF GivesUp, DropPermit, DropOwner, Retire, Kinds
<1>19. ASSUME Announces
      PROVE  Held'
  BY <1>19, HeldKept DEF Announces, NotifyAll, retirementVars, Kinds
<1>20. ASSUME NEW r \in Retirements, CallConsume(r)
      PROVE  Held'
  BY <1>20, HeldKept DEF CallConsume, Consume, Kinds
<1>21. ASSUME NEW r \in Retirements, CallDetach(r)
      PROVE  Held'
  BY <1>21, HeldKept DEF CallDetach, Detach, DetachQueued, DetachRunning, Consume, Kinds
<1>22. ASSUME NEW how \in {"shutdown", "drop"}, BeginsEnd(how)
      PROVE  Held'
  BY <1>22, HeldKept DEF BeginsEnd, CloseAdmission, retirementVars, Kinds
<1>23. CASE UNCHANGED vars
  BY <1>23, HeldKept DEF vars, poolVars, retirementVars
<1> QED
  BY <1>1, <1>2, <1>3, <1>4, <1>5, <1>6, <1>7, <1>8, <1>9, <1>10, <1>11, <1>12, <1>13, <1>14, <1>15, <1>16, <1>17, <1>18, <1>19, <1>20, <1>21, <1>22, <1>23
  DEF WNext, WorkerStep, OwnerStep

(* A step that wakes everybody, or leaves a notification to be sent.       *)
LEMMA Woken ==
    ASSUME Sleeping' = {} \/ Notifiers'
    PROVE  NoWorkerOversleeps'
<1> QED
  BY DEF NoWorkerOversleeps

(* A step that puts nobody to sleep, and makes nothing claimable or final. *)
LEMMA SleepKept ==
    ASSUME NoWorkerOversleeps, Notifiers => Notifiers', Sleeping' \subseteq Sleeping,
           \A w \in Sleeping' : worker[w] = "look" => worker'[w] = "look",
           Claimable' => Claimable, ~accepting' /\ Drained' => ~accepting /\ Drained
    PROVE  NoWorkerOversleeps'
<1> QED
  BY DEF NoWorkerOversleeps

(* The resources in the hands of cleanup threads stay as many.             *)
LEMMA SameRunning ==
    ASSUME InState({"running", "detached"})' = InState({"running", "detached"}), unobserved' = unobserved
    PROVE  RunningCount' = RunningCount
<1> QED
  BY DEF RunningCount

(* No step puts a cleanup thread to sleep over something to do.            *)
LEMMA SleepNext ==
    ASSUME IInv, Kinds, NoWorkerOversleeps, [WNext]_vars
    PROVE  NoWorkerOversleeps'
<1>1. ASSUME NEW w \in Workers, Build(w)
      PROVE  NoWorkerOversleeps'
  <2>1. Sleeping' \subseteq Sleeping /\ (Notifiers => Notifiers') /\ \A v \in Sleeping' : worker[v] = "look" => worker'[v] = "look"
    BY <1>1 DEF Build, Sleeping, Notifiers, Kinds
  <2>2. (Claimable' => Claimable) /\ (~accepting' /\ Drained' => ~accepting /\ Drained)
    BY <1>1 DEF Build, retirementVars, Claimable, RunningCount, InState, Drained
  <2> QED
    BY <2>1, <2>2, SleepKept
<1>2. ASSUME NEW w \in Workers, Observe(w)
      PROVE  NoWorkerOversleeps'
  <2>1. Sleeping' \subseteq Sleeping /\ (Notifiers => Notifiers') /\ \A v \in Sleeping' : worker[v] = "look" => worker'[v] = "look"
    BY <1>2 DEF Observe, Sleeping, Notifiers, Kinds
  <2>2. (Claimable' => Claimable) /\ (~accepting' /\ Drained' => ~accepting /\ Drained)
    BY <1>2 DEF Observe, retirementVars, Claimable, RunningCount, InState, Drained
  <2> QED
    BY <2>1, <2>2, SleepKept
<1>3. ASSUME NEW w \in Workers, Claims(w)
      PROVE  NoWorkerOversleeps'
  <2>1. Sleeping' = Sleeping /\ (Notifiers => Notifiers') /\ \A v \in Sleeping' : worker[v] = "look" => worker'[v] = "look"
    BY <1>3 DEF Claims, Sleeping, Notifiers, Kinds
  <2>2. Claimable /\ UNCHANGED <<accepting, reserved>>
    BY <1>3 DEF Claims, Claim
  <2> QED
    BY <2>1, <2>2, SleepKept DEF Drained
<1>4. ASSUME NEW w \in Workers, ClaimsNone(w)
      PROVE  NoWorkerOversleeps'
  <2>1. ~Claimable' /\ accepting' = accepting /\ Drained' = Drained
    BY <1>4 DEF ClaimsNone, retirementVars, Claimable, RunningCount, InState, Drained
  <2>2. Sleeping' \subseteq Sleeping \cup {w} /\ worker' = [worker EXCEPT ![w] = "look"] /\ (Notifiers' <=> Notifiers)
    BY <1>4 DEF ClaimsNone, Sleeping, Notifiers, Kinds
  <2>3. worker'[w] = "look" /\ \A v \in Workers : worker[v] = "look" => worker'[v] = "look"
    BY <2>2 DEF Kinds
  <2>4. Sleeping' \subseteq Workers
    BY DEF Sleeping
  <2> QED
    BY <2>1, <2>2, <2>3, <2>4 DEF NoWorkerOversleeps, Sleeping
<1>5. ASSUME NEW w \in Workers, Leaves(w)
      PROVE  NoWorkerOversleeps'
  <2>1. UNCHANGED retirementVars /\ worker[w] = "look"
    BY <1>5 DEF Leaves
  <2>2. Claimable' = Claimable /\ Drained' = Drained /\ accepting' = accepting
    BY <2>1 DEF retirementVars, Claimable, RunningCount, InState, Drained
  <2>3. Sleeping' \subseteq Sleeping /\ (Notifiers => Notifiers')
    BY <1>5 DEF Leaves, Sleeping, Notifiers, Kinds
  <2>4. CASE ~accepting /\ Drained
    <3>1. worker' = [worker EXCEPT ![w] = "exited"]
      BY <1>5, <2>4 DEF Leaves
    <3>2. \A v \in Sleeping' : worker[v] = "look" => worker'[v] = "look"
      BY <3>1 DEF Sleeping, Kinds
    <3> QED
      BY <2>2, <2>3, <3>2, SleepKept
  <2>5. CASE ~(~accepting /\ Drained)
    BY <2>2, <2>3, <2>5 DEF NoWorkerOversleeps
  <2> QED
    BY <2>4, <2>5
<1>6. ASSUME NEW w \in Workers, Cleans(w)
      PROVE  NoWorkerOversleeps'
  <2>1. Notifiers'
    BY <1>6 DEF Cleans, Kinds, Notifiers
  <2> QED
    BY <2>1, Woken
<1>7. ASSUME NEW w \in Workers, WorkerNotifies(w)
      PROVE  NoWorkerOversleeps'
  <2>1. Sleeping' = {}
    BY <1>7 DEF WorkerNotifies, Sleeping, Kinds
  <2> QED
    BY <2>1, Woken
<1>8. ASSUME NEW w \in Workers, WaitForChange(w)
      PROVE  NoWorkerOversleeps'
  <2>1. UNCHANGED retirementVars /\ worker[w] = "wait"
    BY <1>8 DEF WaitForChange
  <2>2. Claimable' = Claimable /\ Drained' = Drained /\ accepting' = accepting
    BY <2>1 DEF retirementVars, Claimable, RunningCount, InState, Drained
  <2>3. Sleeping' \subseteq Sleeping /\ (Notifiers => Notifiers') /\ \A v \in Sleeping' : worker[v] = "look" => worker'[v] = "look"
    BY <1>8 DEF WaitForChange, Sleeping, Notifiers, Kinds
  <2> QED
    BY <2>2, <2>3, SleepKept
<1>9. ASSUME NEW w \in Workers, SpuriousWake(w)
      PROVE  NoWorkerOversleeps'
  <2>1. UNCHANGED retirementVars /\ worker[w] = "asleep"
    BY <1>9 DEF SpuriousWake
  <2>2. Claimable' = Claimable /\ Drained' = Drained /\ accepting' = accepting
    BY <2>1 DEF retirementVars, Claimable, RunningCount, InState, Drained
  <2>3. Sleeping' \subseteq Sleeping /\ (Notifiers => Notifiers') /\ \A v \in Sleeping' : worker[v] = "look" => worker'[v] = "look"
    BY <1>9 DEF SpuriousWake, Sleeping, Notifiers, Kinds
  <2> QED
    BY <2>2, <2>3, SleepKept
<1>10. ASSUME BuildFails
      PROVE  NoWorkerOversleeps'
  <2>1. Notifiers'
    BY <1>10 DEF BuildFails, Notifiers
  <2> QED
    BY <2>1, Woken
<1>11. ASSUME OwnerNotifies
      PROVE  NoWorkerOversleeps'
  <2>1. Sleeping' = {}
    BY <1>11 DEF OwnerNotifies, NotifyAll, Sleeping, Kinds
  <2> QED
    BY <2>1, Woken
<1>12. ASSUME Close
      PROVE  NoWorkerOversleeps'
  <2>1. Sleeping' = {}
    BY <1>12 DEF Close, NotifyAll, Sleeping, Kinds
  <2> QED
    BY <2>1, Woken
<1>13. ASSUME Detaches
      PROVE  NoWorkerOversleeps'
  <2>1. CASE owner' = "notifyDetached"
    BY <2>1, Woken DEF Notifiers
  <2>2. CASE owner' # "notifyDetached"
    <3>1. QueuedIdentities = {} /\ InState({"running", "completed"}) = {}
      BY <1>13, <2>2 DEF Detaches
    <3>2. Sleeping' = Sleeping /\ worker' = worker /\ (Notifiers => Notifiers')
      BY <1>13 DEF Detaches, Sleeping, Notifiers
    <3>3. accepting' = accepting /\ unobserved' = unobserved /\ reserved' = reserved - Cardinality(InState({"completed"}))
      BY <1>13 DEF Detaches, DetachAll, Release
    <3>4. InState({"completed"}) = {}
      BY <3>1 DEF InState
    <3>5. reserved' = reserved
      <4>1. Cardinality(InState({"completed"})) = 0 /\ reserved \in Nat
        BY <3>4, Counters, FS_EmptySet
      <4> QED
        BY <3>3, <4>1
    <3>6. InState({"running", "detached"})' = InState({"running", "detached"})
      BY <1>13 DEF Detaches, DetachAll, InState
    <3>7. queue' # <<>> => queue # <<>>
      <4>1. ASSUME queue = <<>> PROVE queue' = <<>>
        <5>1. Len(queue) = 0
          BY <4>1, EmptySeq
        <5> QED
          BY <1>13, <5>1, EmptySeq DEF Detaches, DetachAll
      <4> QED
        BY <4>1
    <3>8. Claimable' => Claimable
      BY <3>3, <3>6, <3>7, SameRunning DEF Claimable
    <3> QED
      BY <3>2, <3>3, <3>5, <3>8, SleepKept DEF Drained
  <2> QED
    BY <2>1, <2>2
<1>14. ASSUME Looks
      PROVE  NoWorkerOversleeps'
  <2>1. Sleeping' \subseteq Sleeping /\ (Notifiers => Notifiers') /\ \A v \in Sleeping' : worker[v] = "look" => worker'[v] = "look"
    BY <1>14 DEF Looks, Sleeping, Notifiers, Kinds
  <2>2. (Claimable' => Claimable) /\ (~accepting' /\ Drained' => ~accepting /\ Drained)
    BY <1>14 DEF Looks, retirementVars, Claimable, RunningCount, InState, Drained
  <2> QED
    BY <2>1, <2>2, SleepKept
<1>15. ASSUME Join
      PROVE  NoWorkerOversleeps'
  <2>1. Sleeping' \subseteq Sleeping /\ (Notifiers => Notifiers') /\ \A v \in Sleeping' : worker[v] = "look" => worker'[v] = "look"
    BY <1>15 DEF Join, Sleeping, Notifiers, Kinds
  <2>2. (Claimable' => Claimable) /\ (~accepting' /\ Drained' => ~accepting /\ Drained)
    BY <1>15 DEF Join, retirementVars, Claimable, RunningCount, InState, Drained
  <2> QED
    BY <2>1, <2>2, SleepKept
<1>16. ASSUME CallReserve
      PROVE  NoWorkerOversleeps'
  <2>1. UNCHANGED <<worker, current, owner, pending>> /\ accepting'
    BY <1>16 DEF CallReserve, Reserve, poolVars
  <2>2. Sleeping' = Sleeping /\ (Notifiers' <=> Notifiers)
    BY <2>1 DEF Sleeping, Notifiers
  <2>3. Claimable' = Claimable
    BY <1>16 DEF CallReserve, Reserve, Claimable, RunningCount, InState
  <2> QED
    BY <2>1, <2>2, <2>3, SleepKept
<1>17. ASSUME Initializes
      PROVE  NoWorkerOversleeps'
  <2>1. Sleeping' = Sleeping /\ worker' = worker /\ (Notifiers' <=> Notifiers)
    BY <1>17 DEF Initializes, poolVars, Sleeping, Notifiers
  <2>2. Claimable' = Claimable /\ UNCHANGED <<accepting, reserved>>
    BY <1>17 DEF Initializes, Attach, Claimable, RunningCount, InState
  <2> QED
    BY <2>1, <2>2, SleepKept DEF Drained
<1>18. ASSUME GivesUp
      PROVE  NoWorkerOversleeps'
  <2>1. pending' > 0
    BY <1>18 DEF GivesUp, Kinds
  <2> QED
    BY <2>1, Woken DEF Notifiers
<1>19. ASSUME Announces
      PROVE  NoWorkerOversleeps'
  <2>1. Sleeping' = {}
    BY <1>19 DEF Announces, NotifyAll, Sleeping, Kinds
  <2> QED
    BY <2>1, Woken
<1>20. ASSUME NEW r \in Retirements, CallConsume(r)
      PROVE  NoWorkerOversleeps'
  <2>1. Notifiers'
    BY <1>20 DEF CallConsume, Notifiers
  <2> QED
    BY <2>1, Woken
<1>21. ASSUME NEW r \in Retirements, CallDetach(r)
      PROVE  NoWorkerOversleeps'
  <2>1. CASE owner' = "notify"
    BY <2>1, Woken DEF Notifiers
  <2>2. CASE owner' # "notify"
    <3>1. (DetachQueued(r) \/ DetachRunning(r)) /\ UNCHANGED <<worker, current, pending>> /\ owner = "free"
      BY <1>21, <2>2 DEF CallDetach, Detach, Consume
    <3>2. Sleeping' = Sleeping /\ worker' = worker /\ (Notifiers => Notifiers')
      BY <3>1 DEF Sleeping, Notifiers
    <3>3. UNCHANGED <<accepting, reserved, unobserved>>
      BY <3>1 DEF DetachQueued, DetachRunning
    <3>4. InState({"running", "detached"})' = InState({"running", "detached"})
      BY <3>1, Counters DEF DetachQueued, DetachRunning, InState
    <3>5. queue' # <<>> => queue # <<>>
      <4>1. ASSUME queue = <<>> PROVE queue' = <<>>
        <5>1. Len(queue) = 0 /\ QueuedIdentities = {}
          BY <4>1, EmptySeq DEF QueuedIdentities
        <5> QED
          BY <3>1, <4>1, <5>1 DEF DetachQueued, DetachRunning
      <4> QED
        BY <4>1
    <3>6. Claimable' => Claimable
      BY <3>3, <3>4, <3>5, SameRunning DEF Claimable
    <3> QED
      BY <3>2, <3>3, <3>6, SleepKept DEF Drained
  <2> QED
    BY <2>1, <2>2
<1>22. ASSUME NEW how \in {"shutdown", "drop"}, BeginsEnd(how)
      PROVE  NoWorkerOversleeps'
  <2>1. CASE owner' = "notifyClosed"
    BY <2>1, Woken DEF Notifiers
  <2>2. CASE owner' # "notifyClosed"
    <3>1. UNCHANGED retirementVars
      BY <1>22, <2>2 DEF BeginsEnd
    <3>2. Sleeping' = Sleeping /\ worker' = worker /\ (Notifiers => Notifiers')
      BY <1>22 DEF BeginsEnd, Sleeping, Notifiers
    <3>3. Claimable' = Claimable /\ Drained' = Drained /\ accepting' = accepting
      BY <3>1 DEF retirementVars, Claimable, RunningCount, InState, Drained
    <3> QED
      BY <3>2, <3>3, SleepKept
  <2> QED
    BY <2>1, <2>2
<1>23. CASE UNCHANGED vars
  <2>1. Sleeping' \subseteq Sleeping /\ (Notifiers => Notifiers') /\ \A v \in Sleeping' : worker[v] = "look" => worker'[v] = "look"
    BY <1>23 DEF vars, poolVars, Sleeping, Notifiers, Kinds
  <2>2. (Claimable' => Claimable) /\ (~accepting' /\ Drained' => ~accepting /\ Drained)
    BY <1>23 DEF vars, retirementVars, Claimable, RunningCount, InState, Drained
  <2> QED
    BY <2>1, <2>2, SleepKept
<1> QED
  BY <1>1, <1>2, <1>3, <1>4, <1>5, <1>6, <1>7, <1>8, <1>9, <1>10, <1>11, <1>12, <1>13, <1>14, <1>15, <1>16, <1>17, <1>18, <1>19, <1>20, <1>21, <1>22, <1>23
  DEF WNext, WorkerStep, OwnerStep

-----------------------------------------------------------------------------
(* The life of the adapter.                                                *)

(* An operation of the service other than Reserve admits nothing.          *)
LEMMA ReleaseShrinks ==
    ASSUME IInv, NEW n \in Nat, Release(n)
    PROVE  reserved' <= reserved
<1> QED
  BY Counters DEF Release

\* Admission is never reopened, and reservations grow only in a step taken from owner state
\* "free".
LEMMA Shrinks ==
    ASSUME IInv, [WNext]_vars
    PROVE  (accepting' => accepting) /\ (owner = "free" \/ reserved' <= reserved)
<1>0. reserved \in Nat /\ Cardinality(InState({"completed"})) \in Nat
  BY Counters, FinitelyMany DEF InState
<1>1. ASSUME NEW w \in Workers, Build(w) \/ Observe(w) \/ ClaimsNone(w) \/ Leaves(w) \/ WorkerNotifies(w)
                                \/ WaitForChange(w) \/ SpuriousWake(w)
      PROVE  UNCHANGED <<accepting, reserved>>
  BY <1>1 DEF Build, Observe, ClaimsNone, Leaves, WorkerNotifies, WaitForChange, SpuriousWake, retirementVars
<1>2. ASSUME NEW w \in Workers, Claims(w) PROVE UNCHANGED <<accepting, reserved>>
  BY <1>2 DEF Claims, Claim
<1>3. ASSUME NEW w \in Workers, Cleans(w) PROVE accepting' = accepting /\ reserved' <= reserved
  BY <1>0, <1>3, ReleaseShrinks DEF Cleans, FinishUnobserved, FinishObserved
<1>4. CASE OwnerNotifies \/ Close \/ Looks \/ Join
  BY <1>0, <1>4 DEF OwnerNotifies, Close, Looks, Join, retirementVars
<1>5. CASE Detaches
  BY <1>0, <1>5, ReleaseShrinks DEF Detaches, DetachAll
<1>6. CASE BuildFails
  BY <1>0, <1>6 DEF BuildFails, CloseAdmission
<1>7. ASSUME NEW how \in {"shutdown", "drop"}, BeginsEnd(how) PROVE (accepting' => accepting) /\ owner = "free"
  BY <1>7 DEF BeginsEnd, CloseAdmission, retirementVars
<1>8. CASE CallReserve
  BY <1>8 DEF CallReserve, Reserve
<1>9. ASSUME NEW r \in Retirements, CallConsume(r) \/ CallDetach(r) PROVE accepting' = accepting /\ owner = "free"
  BY <1>9 DEF CallConsume, CallDetach, Consume, Detach, DetachQueued, DetachRunning
<1>10. CASE Initializes
  BY <1>0, <1>10 DEF Initializes, Attach
<1>11. CASE GivesUp
  BY <1>0, <1>11, ReleaseShrinks DEF GivesUp, DropPermit, DropOwner, Retire
<1>12. CASE Announces
  BY <1>0, <1>12 DEF Announces, retirementVars
<1>13. CASE UNCHANGED vars
  BY <1>0, <1>13 DEF vars, retirementVars
<1> QED
  BY <1>0, <1>1, <1>2, <1>3, <1>4, <1>5, <1>6, <1>7, <1>8, <1>9, <1>10, <1>11, <1>12, <1>13
  DEF WNext, WorkerStep, OwnerStep

(* Nobody is told to stop while a reservation is held.                     *)
LEMMA LifeNext ==
    ASSUME IInv, IInv', Kinds, Life, [WNext]_vars
    PROVE  Life'
<1>a. reserved \in Nat /\ reserved' \in Nat /\ WorkerLimit \in Nat \ {0}
  BY Counters, RetirementAssumption DEF IInv, TypeOK
<1>b. Begun => reserved' = 0
  BY <1>a, Shrinks DEF Begun, Life
<1>c. (~accepting => ~accepting') /\ (~accepting /\ reserved = 0 => reserved' = 0)
  <2>1. ASSUME ~accepting, reserved = 0, owner = "free" PROVE reserved' = 0
    <3>1. ~Reserve
      BY <2>1 DEF Reserve
    <3>2. [Next]_retirementVars
      BY WorkersStep
    <3>3. Cardinality(InState({"completed"})) \in Nat
      BY FinitelyMany DEF InState
    <3>4. reserved' <= reserved
      BY <1>a, <3>1, <3>2, <3>3, ReleaseShrinks
      DEF Next, Attach, DropPermit, CloseAdmission, Retire, DropOwner, Detach, DetachQueued, DetachRunning, Consume,
          DetachAll, Claim, Finish, FinishUnobserved, FinishObserved, retirementVars
    <3> QED
      BY <1>a, <2>1, <3>4
  <2> QED
    BY <1>a, <2>1, Shrinks
<1>1. ASSUME NEW w \in Workers, Build(w)
      PROVE  Life'
  <2>1. /\ owner = "building" /\ worker' = [worker EXCEPT ![w] = "observe"] /\ stop' = stop
        /\ owner' = IF w = WorkerLimit THEN "free" ELSE owner
        /\ \A v \in Workers : v < w => worker[v] # "unborn"
    BY <1>1 DEF Build
  <2>2. w = WorkerLimit => \A v \in Workers : worker'[v] # "unborn"
    BY <1>a, <2>1 DEF Workers, Kinds
  <2> QED
    BY <1>b, <1>c, <2>1, <2>2 DEF Life, Begun, Kinds
<1>2. ASSUME NEW w \in Workers, Observe(w)
      PROVE  Life'
  BY <1>2, <1>b, <1>c DEF Observe, Life, Begun, Kinds
<1>3. ASSUME NEW w \in Workers, Claims(w)
      PROVE  Life'
  BY <1>3, <1>b, <1>c DEF Claims, Life, Begun, Kinds
<1>4. ASSUME NEW w \in Workers, ClaimsNone(w)
      PROVE  Life'
  BY <1>4, <1>b, <1>c DEF ClaimsNone, Life, Begun, Kinds
<1>5. ASSUME NEW w \in Workers, Leaves(w)
      PROVE  Life'
  <2>1. UNCHANGED <<owner, stop, accepting, reserved>>
    BY <1>5 DEF Leaves, retirementVars
  <2>2. \/ worker' = [worker EXCEPT ![w] = "exited"] /\ ~accepting /\ reserved = 0
        \/ worker' = [worker EXCEPT ![w] = "wait"]
    BY <1>5 DEF Leaves, Drained
  <2> QED
    BY <2>1, <2>2 DEF Life, Begun, Kinds
<1>6. ASSUME NEW w \in Workers, Cleans(w)
      PROVE  Life'
  BY <1>6, <1>b, <1>c DEF Cleans, Life, Begun, Kinds
<1>7. ASSUME NEW w \in Workers, WorkerNotifies(w)
      PROVE  Life'
  <2>1. UNCHANGED <<owner, stop, accepting, reserved>>
    BY <1>7 DEF WorkerNotifies, retirementVars
  <2>2. \A v \in Workers : worker'[v] = "exited" => worker[v] = "exited"
    BY <1>7 DEF WorkerNotifies
  <2>3. \A v \in Workers : worker'[v] = "unborn" => worker[v] = "unborn"
    BY <1>7 DEF WorkerNotifies
  <2> QED
    BY <2>1, <2>2, <2>3 DEF Life, Begun
<1>8. ASSUME NEW w \in Workers, WaitForChange(w)
      PROVE  Life'
  BY <1>8, <1>b, <1>c DEF WaitForChange, Life, Begun, Kinds
<1>9. ASSUME NEW w \in Workers, SpuriousWake(w)
      PROVE  Life'
  BY <1>9, <1>b, <1>c DEF SpuriousWake, Life, Begun, Kinds
<1>10. ASSUME BuildFails
      PROVE  Life'
  BY <1>10, <1>b, <1>c DEF BuildFails, CloseAdmission, Life, Begun, Kinds
<1>11. ASSUME OwnerNotifies
      PROVE  Life'
  BY <1>11, <1>b, <1>c DEF OwnerNotifies, NotifyAll, Life, Begun, Kinds
<1>12. ASSUME Close
      PROVE  Life'
  BY <1>12, <1>b, <1>c DEF Close, NotifyAll, Life, Begun, Kinds
<1>13. ASSUME Detaches
      PROVE  Life'
  BY <1>13, <1>b, <1>c DEF Detaches, Life, Begun, Kinds
<1>14. ASSUME Looks
      PROVE  Life'
  BY <1>14, <1>b, <1>c DEF Looks, Life, Begun, Kinds
<1>15. ASSUME Join
      PROVE  Life'
  <2>1. UNCHANGED <<worker, accepting, reserved>> /\ stop' = TRUE /\ owner = "join" /\ owner' = "stopped" /\ Exited
    BY <1>15 DEF Join, retirementVars
  <2>2. 1 \in Workers
    BY <1>a DEF Workers
  <2>3. ~accepting /\ reserved = 0
    BY <2>1, <2>2 DEF Life, Begun, Exited
  <2> QED
    BY <2>1, <2>3 DEF Life, Begun
<1>16. ASSUME CallReserve
      PROVE  Life'
  BY <1>16, <1>b, <1>c DEF CallReserve, poolVars, Life, Begun, Kinds
<1>17. ASSUME Initializes
      PROVE  Life'
  BY <1>17, <1>b, <1>c DEF Initializes, poolVars, Life, Begun, Kinds
<1>18. ASSUME GivesUp
      PROVE  Life'
  BY <1>18, <1>b, <1>c DEF GivesUp, Life, Begun, Kinds
<1>19. ASSUME Announces
      PROVE  Life'
  BY <1>19, <1>b, <1>c DEF Announces, NotifyAll, Life, Begun, Kinds
<1>20. ASSUME NEW r \in Retirements, CallConsume(r)
      PROVE  Life'
  BY <1>20, <1>b, <1>c DEF CallConsume, Life, Begun, Kinds
<1>21. ASSUME NEW r \in Retirements, CallDetach(r)
      PROVE  Life'
  BY <1>21, <1>b, <1>c DEF CallDetach, Life, Begun, Kinds
<1>22. ASSUME NEW how \in {"shutdown", "drop"}, BeginsEnd(how)
      PROVE  Life'
  BY <1>22, <1>b, <1>c DEF BeginsEnd, Life, Begun, Kinds
<1>23. CASE UNCHANGED vars
  BY <1>23, <1>b, <1>c DEF vars, poolVars, retirementVars, Life, Begun, Kinds
<1> QED
  BY <1>1, <1>2, <1>3, <1>4, <1>5, <1>6, <1>7, <1>8, <1>9, <1>10, <1>11, <1>12, <1>13, <1>14, <1>15, <1>16, <1>17, <1>18, <1>19, <1>20, <1>21, <1>22, <1>23
  DEF WNext, WorkerStep, OwnerStep

-----------------------------------------------------------------------------
(* What follows.                                                           *)

(* A new adapter.                                                          *)
LEMMA InitWorkers == WInit => WorkerInv
<1> SUFFICES ASSUME WInit PROVE WorkerInv
  OBVIOUS
<1>1. IInv
  BY InitHolds DEF WInit
<1>2. Kinds /\ Flag
  BY DEF WInit, Kinds, Flag, OwnerSteps, WorkerSteps
<1>3. Held
  <2>1. guards = {} /\ unobserved = 0 /\ holding = [w \in Workers |-> {}] /\ worker = [w \in Workers |-> "unborn"]
    BY DEF WInit, Init
  <2>2. Carriers = {}
    BY <2>1 DEF Carriers
  <2> QED
    BY <2>1, <2>2, FS_EmptySet DEF Held
<1>4. NoWorkerOversleeps
  <2>1. Sleeping = {}
    BY DEF WInit, Sleeping
  <2> QED
    BY <2>1 DEF NoWorkerOversleeps
<1>5. Life
  BY DEF WInit, Init, Life, Begun
<1> QED
  BY <1>1, <1>2, <1>3, <1>4, <1>5 DEF WorkerInv

(* Every step keeps the invariant.                                         *)
LEMMA NextWorkers == WorkerInv /\ [WNext]_vars => WorkerInv'
<1> SUFFICES ASSUME WorkerInv, [WNext]_vars PROVE WorkerInv'
  OBVIOUS
<1>1. IInv /\ Kinds /\ Flag /\ Held /\ NoWorkerOversleeps /\ Life
  BY DEF WorkerInv
<1>2. IInv'
  BY <1>1, StepHolds, WorkersStep
<1>3. Kinds' /\ Flag' /\ Held' /\ NoWorkerOversleeps'
  BY <1>1, KindsNext, FlagNext, HeldNext, SleepNext
<1>4. Life'
  BY <1>1, <1>2, LifeNext
<1> QED
  BY <1>2, <1>3, <1>4 DEF WorkerInv

\* The invariant of the cleanup threads holds throughout.
LEMMA WorkersHold == WSpec => []WorkerInv
<1> QED
  BY InitWorkers, NextWorkers, PTL DEF WSpec

(* Every variable has its type, and the guards of the service are those    *)
(* the cleaning threads hold.                                              *)
THEOREM WorkersTyped == WSpec => []WTypeOK
<1>1. WorkerInv => WTypeOK
  <2> SUFFICES ASSUME WorkerInv PROVE WTypeOK
    OBVIOUS
  <2>1. TypeOK /\ Kinds /\ Held
    BY DEF WorkerInv, IInv
  <2>2. stop \in BOOLEAN
    BY DEF WorkerInv, Flag
  <2>3. guards = (UNION {holding[w] : w \in Workers}) \ {Unobserved}
    <3>1. PICK U : U = UNION {holding[w] : w \in Workers}
      OBVIOUS
    <3>2. \A e : e \in U <=> \E w \in Workers : e \in holding[w]
      BY <3>1
    <3>3. \A e : e \in guards <=> e # Unobserved /\ \E w \in Workers : e \in holding[w]
      BY <2>1 DEF Held
    <3>4. guards = U \ {Unobserved}
      BY <3>2, <3>3
    <3> QED
      BY <3>1, <3>4
  <2> QED
    BY <2>1, <2>2, <2>3 DEF WTypeOK, Kinds, Held, Carriers
<1> QED
  BY <1>1, WorkersHold, PTL

(* No cleanup thread sleeps over a resource it could clean, or over a      *)
(* closed and drained service, unless a notification is on its way: with   *)
(* any number of threads, none of them signalled by name.                  *)
THEOREM WorkersNeverOversleep == WSpec => []NoWorkerOversleeps
<1>1. WorkerInv => NoWorkerOversleeps
  BY DEF WorkerInv
<1> QED
  BY <1>1, WorkersHold, PTL

(* No cleanup thread leaves while a permit, an owner, a queued resource or *)
(* an explicit retirement still needs it.                                  *)
THEOREM WorkersStay == WSpec => []WorkersStayForOwners
<1>1. WorkerInv => WorkersStayForOwners
  BY DEF WorkerInv, Life, WorkersStayForOwners, Drained
<1> QED
  BY <1>1, WorkersHold, PTL
=============================================================================
