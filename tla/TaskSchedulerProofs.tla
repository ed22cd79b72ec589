------------------------- MODULE TaskSchedulerProofs -------------------------
(* Proofs about TaskScheduler, alone and as its executor drives it, for    *)
(* every number of slots and generations.                                  *)
EXTENDS TaskExecutor, FiniteSetTheorems, SequenceTheorems, TLAPS

(* A sequence of registrations that detaches the tasks of S deactivates    *)
(* exactly the registrations those tasks own.                              *)
LEMMA RemoveWaits ==
    ASSUME TypeOK, WaitSetsExact, NEW S \in SUBSET TaskSlots,
           RemoveRegistrations(UNION {waitSet[s] : s \in S})
    PROVE  \E A \in SUBSET RegSlots :
             /\ A = {a \in RegSlots : \E s \in S : regOwner[a] = {Task(s)}}
             /\ A \subseteq ActiveSlots
             /\ regOwner' = [a \in RegSlots |-> IF a \in A THEN {} ELSE regOwner[a]]
             /\ regGen' = NextRegGen(A)
             /\ freeRegs' = freeRegs \cup Reusable(A)
             /\ installed' = installed \ {Reg(a) : a \in A}
             /\ regLen' = regLen
<1> DEFINE R == UNION {waitSet[s] : s \in S}
           B == {r.slot : r \in {x \in R : Active(x)}}
           A == {a \in RegSlots : \E s \in S : regOwner[a] = {Task(s)}}
<1>1. \A r \in R : r \in RegIds /\ r = Reg(r.slot) /\ r.slot \in A /\ Active(r)
  <2> SUFFICES ASSUME NEW r \in R PROVE r \in RegIds /\ r = Reg(r.slot) /\ r.slot \in A /\ Active(r)
    OBVIOUS
  <2>1. PICK s \in S : r \in waitSet[s]
    OBVIOUS
  <2>2. PICK a \in RegSlots : regOwner[a] = {Task(s)} /\ r = Reg(a)
    <3>1. s \in TaskSlots
      OBVIOUS
    <3>2. waitSet[s] = {Reg(a) : a \in {b \in RegSlots : regOwner[b] = {Task(s)}}}
      BY <3>1 DEF WaitSetsExact
    <3> HIDE DEF R
    <3> QED BY <2>1, <3>2
  <2>3. r.slot = a /\ r.gen = regGen[a]
    BY <2>2 DEF Reg
  <2> QED
    BY <2>1, <2>2, <2>3 DEF TypeOK, Active
<1>2. \A a \in A : Reg(a) \in R
  BY DEF WaitSetsExact
<1>3. B = A
  <2>1. B \subseteq A
    BY <1>1
  <2>2. ASSUME NEW a \in A PROVE a \in B
    <3>1. Reg(a) \in R /\ Active(Reg(a)) /\ Reg(a).slot = a
      BY <1>1, <1>2 DEF Reg
    <3> QED BY <3>1
  <2> QED BY <2>1, <2>2
<1>4. A \subseteq ActiveSlots
  BY DEF ActiveSlots
<1> QED
  BY <1>3, <1>4 DEF RemoveRegistrations

(* The order in which a batch wakes its tasks is a sequence of tasks.      *)
LEMMA WakeOrderType ==
    ASSUME NEW batch, NEW w \in SetToSeqs(Woken(batch)), SchedulerAssumption
    PROVE  /\ w \in Seq(TaskSlots)
           /\ \A i, j \in 1 .. Len(w) : w[i] = w[j] => i = j
<1>1. IsFiniteSet(TaskSlots)
  BY FS_Interval DEF TaskSlots, SchedulerAssumption
<1>2. IsFiniteSet(Woken(batch))
  BY <1>1, FS_Subset DEF Woken
<1>3. Cardinality(Woken(batch)) \in Nat
  BY <1>2, FS_CardinalityType
<1>4. w \in [1 .. Cardinality(Woken(batch)) -> TaskSlots]
  BY DEF SetToSeqs, Woken
<1>5. Len(w) = Cardinality(Woken(batch)) /\ w \in Seq(TaskSlots)
  BY <1>3, <1>4
<1>6. \A i, j \in 1 .. Cardinality(Woken(batch)) : i # j => w[i] # w[j]
  BY DEF SetToSeqs
<1> QED
  BY <1>5, <1>6

(* Detaching registrations keeps their variables typed.                    *)
LEMMA RemoveRegistrationsType ==
    ASSUME TypeOK, NEW R \in SUBSET RegIds, RemoveRegistrations(R), SchedulerAssumption
    PROVE  /\ regLen' \in 0 .. RegSlotCount
           /\ regGen' \in [RegSlots -> Gens]
           /\ regOwner' \in [RegSlots -> SUBSET TaskIds]
           /\ freeRegs' \in SUBSET RegSlots
           /\ installed' \in SUBSET RegIds
<1> DEFINE A == {r.slot : r \in {x \in R : Active(x)}}
<1>1. regGen' \in [RegSlots -> Gens]
  BY DEF RemoveRegistrations, NextRegGen, TypeOK, Gens, SchedulerAssumption
<1>2. regOwner' \in [RegSlots -> SUBSET TaskIds]
  BY DEF RemoveRegistrations, TypeOK
<1>3. A \subseteq RegSlots
  BY DEF RegIds
<1> QED
  BY <1>1, <1>2, <1>3 DEF RemoveRegistrations, TypeOK, Reusable

(* Every step keeps the types.                                             *)
LEMMA TypeOKStep == SchedulerAssumption /\ TypeOK /\ [Next]_schedVars => TypeOK'
<1> SUFFICES ASSUME SchedulerAssumption, TypeOK, [Next]_schedVars PROVE TypeOK'
  OBVIOUS
<1> USE DEF TaskStates, Cancelling
<1>1. ASSUME NEW s \in TaskSlots PROVE Task(s) \in TaskIds
  BY DEF Task, TaskIds, TypeOK
<1>2. ASSUME NEW a \in RegSlots PROVE Reg(a) \in RegIds
  BY DEF Reg, RegIds, TypeOK
<1>3. ASSUME NEW S \in SUBSET TaskSlots PROVE UNION {waitSet[s] : s \in S} \in SUBSET RegIds
  BY DEF TypeOK
<1>4. ASSUME NEW s \in TaskSlots, Spawn(s) PROVE TypeOK'
  <2>1. taskLen' \in 0 .. TaskSlotCount /\ freeTasks' \in SUBSET TaskSlots
    <3>1. AllocateTask(s) /\ s \in 0 .. TaskSlotCount - 1
      BY <1>4 DEF Spawn, TaskSlots
    <3>2. CASE s \in freeTasks /\ freeTasks' = freeTasks \ {s} /\ taskLen' = taskLen
      BY <3>2 DEF TypeOK
    <3>3. CASE s = taskLen /\ taskLen' = taskLen + 1 /\ freeTasks' = freeTasks
      BY <3>1, <3>3 DEF TypeOK, SchedulerAssumption
    <3> QED
      BY <3>1, <3>2, <3>3 DEF AllocateTask
  <2>2. runnable' \in Seq(TaskIds)
    BY <1>1, <1>4 DEF Spawn, TypeOK
  <2> QED
    BY <1>4, <2>1, <2>2 DEF Spawn, TypeOK, regVars
<1>5. ASSUME NEW i \in 1 .. Len(runnable), Resume(i) PROVE TypeOK'
  <2>1. runnable' \in Seq(TaskIds)
    BY <1>5 DEF Resume, TypeOK
  <2> QED
    BY <1>5, <2>1 DEF Resume, TypeOK, regVars
<1>6. CASE Idle
  BY <1>6 DEF Idle, TypeOK, taskVars, regVars
<1>7. ASSUME NEW batch, NEW w \in SetToSeqs(Woken(batch)), Wait(batch, w) PROVE TypeOK'
  <2>1. w \in Seq(TaskSlots)
    BY WakeOrderType
  <2>2. [i \in 1 .. Len(w) |-> Task(w[i])] \in Seq(TaskIds)
    BY <1>1, <2>1
  <2>3. runnable' \in Seq(TaskIds)
    <3>1. CASE w = <<>>
      BY <1>7, <3>1 DEF Wait
    <3>2. CASE w # <<>>
      <4>1. Len([i \in 1 .. Len(w) |-> Task(w[i])]) = Len(w) /\ Len(w) > 0
        BY <2>1, <3>2
      <4> QED
        BY <1>7, <2>2, <3>2, <4>1, HeadTailProperties DEF Wait
    <3> QED
      BY <3>1, <3>2
  <2>4. Woken(batch) \in SUBSET TaskSlots
    BY DEF Woken
  <2>5. RemoveRegistrations(UNION {waitSet[s] : s \in Woken(batch)})
    BY <1>7 DEF Wait
  <2>6. /\ regLen' \in 0 .. RegSlotCount
        /\ regGen' \in [RegSlots -> Gens]
        /\ regOwner' \in [RegSlots -> SUBSET TaskIds]
        /\ freeRegs' \in SUBSET RegSlots
        /\ installed' \in SUBSET RegIds
    BY <1>3, <2>4, <2>5, RemoveRegistrationsType
  <2>7. /\ taskState' \in [TaskSlots -> TaskStates]
        /\ waitSet' \in [TaskSlots -> SUBSET RegIds]
    BY <1>7 DEF Wait, TypeOK
  <2> QED
    BY <1>7, <2>3, <2>6, <2>7 DEF Wait, TypeOK
<1>8. ASSUME NEW s \in TaskSlots, YieldNow(s) PROVE TypeOK'
  BY <1>1, <1>8 DEF YieldNow, Requeue, TypeOK, regVars
<1>9. ASSUME NEW s \in TaskSlots, NEW A \in SUBSET RegSlots,
             NEW hi \in regLen .. RegSlotCount, Suspend(s, A, hi)
      PROVE  TypeOK'
  <2>1. {Reg(a) : a \in A} \in SUBSET RegIds
    BY <1>2
  <2>2. hi \in 0 .. RegSlotCount
    BY DEF TypeOK, SchedulerAssumption
  <2>3. regOwner' \in [RegSlots -> SUBSET TaskIds]
    BY <1>1, <1>9 DEF Suspend, TypeOK
  <2> QED
    BY <1>9, <2>1, <2>2, <2>3 DEF Suspend, TypeOK
<1>10. ASSUME NEW s \in TaskSlots, NEW A \in SUBSET RegSlots,
              NEW hi \in regLen .. RegSlotCount, SuspendFails(s, A, hi)
       PROVE  TypeOK'
  <2>1. regGen' \in [RegSlots -> Gens]
    BY <1>10 DEF SuspendFails, RollBack, NextRegGen, TypeOK, Gens, SchedulerAssumption
  <2>2. regLen' \in 0 .. RegSlotCount
    BY <1>10 DEF SuspendFails, RollBack, TypeOK, SchedulerAssumption
  <2>3. freeRegs' \in SUBSET RegSlots
    BY <1>10 DEF SuspendFails, RollBack, Reusable, TypeOK
  <2> QED
    BY <1>10, <2>1, <2>2, <2>3 DEF SuspendFails, RollBack, taskVars, TypeOK
<1>11. ASSUME NEW s \in TaskSlots, Complete(s) PROVE TypeOK'
  BY <1>11 DEF Complete, TypeOK, regVars
<1>12. ASSUME NEW S \in SUBSET TaskSlots, CancelAll(S) PROVE TypeOK'
  <2>1. /\ regLen' \in 0 .. RegSlotCount
        /\ regGen' \in [RegSlots -> Gens]
        /\ regOwner' \in [RegSlots -> SUBSET TaskIds]
        /\ freeRegs' \in SUBSET RegSlots
        /\ installed' \in SUBSET RegIds
    BY <1>3, <1>12, RemoveRegistrationsType DEF CancelAll
  <2> QED
    BY <1>12, <2>1 DEF CancelAll, TypeOK
<1>13. ASSUME NEW s \in TaskSlots, ReleaseTask(s), UNCHANGED <<regVars, runnable>> PROVE TypeOK'
  <2>1. taskGen' \in [TaskSlots -> Gens] /\ freeTasks' \in SUBSET TaskSlots
    BY <1>13 DEF ReleaseTask, TypeOK, Gens, SchedulerAssumption
  <2> QED
    BY <1>13, <2>1 DEF ReleaseTask, TypeOK, regVars
<1>14. CASE UNCHANGED schedVars
  BY <1>14 DEF schedVars, taskVars, regVars, TypeOK
<1> QED
  <2>1. CASE NextProgress
    BY <1>5, <1>6, <1>7, <2>1 DEF NextProgress, WaitForEvents
  <2>2. CASE BeginShutdown
    BY <1>12, <2>2 DEF BeginShutdown, Occupied
  <2>3. ASSUME NEW s \in TaskSlots, Cancel(s) PROVE TypeOK'
    BY <1>12, <2>3 DEF Cancel
  <2>4. ASSUME NEW s \in TaskSlots, FinishCancellation(s) \/ ConsumeCompleted(s) PROVE TypeOK'
    BY <1>13, <2>4 DEF FinishCancellation, ConsumeCompleted
  <2>5. ASSUME NEW s \in TaskSlots, Suspends(s) \/ FailsToSuspend(s) PROVE TypeOK'
    BY <1>9, <1>10, <2>5 DEF Suspends, FailsToSuspend
  <2> QED
    BY <1>4, <1>8, <1>11, <1>14, <2>1, <2>2, <2>3, <2>4, <2>5 DEF Next

(* Every reachable state is well typed.                                    *)
THEOREM TypeCorrect == Spec => []TypeOK
<1>1. Init => TypeOK
  BY SchedulerAssumption DEF Init, TypeOK, TaskStates, Gens, SchedulerAssumption
<1>2. TypeOK /\ [Next]_schedVars => TypeOK'
  BY SchedulerAssumption, TypeOKStep
<1> QED
  BY <1>1, <1>2, PTL DEF Spec

-----------------------------------------------------------------------------
(* Registrations.                                                          *)

\* The registration half of the invariant.
RegInv == WaitSetsExact /\ ReactorMirrors /\ RegSlotsConserved

(* A step that leaves the registrations alone preserves RegInv if it moves *)
(* no task into or out of waiting and gives new generations only to tasks  *)
(* that do not wait.                                                       *)
LEMMA RegFrame ==
    ASSUME SchedulerAssumption, TypeOK, RegInv, UNCHANGED <<regVars, waitSet>>,
           \A s \in TaskSlots : taskState'[s] = "waiting" <=> taskState[s] = "waiting",
           \A s \in TaskSlots : taskState[s] = "waiting" => taskGen'[s] = taskGen[s]
    PROVE  RegInv'
<1>1. ASSUME NEW s \in TaskSlots
      PROVE  {b \in RegSlots : regOwner[b] = {Task(s)'}} = {b \in RegSlots : regOwner[b] = {Task(s)}}
  <2>1. CASE taskState[s] = "waiting"
    BY <2>1 DEF Task
  <2>2. CASE taskState[s] # "waiting"
    <3>1. \A b \in RegSlots : regOwner[b] # {Task(s)}
      BY <2>2 DEF RegInv, WaitSetsExact
    <3>2. ASSUME NEW b \in RegSlots, regOwner[b] = {Task(s)'} PROVE FALSE
      <4>1. PICK t \in TaskSlots : regOwner[b] = {Task(t)}
        BY <3>2 DEF RegInv, WaitSetsExact, ActiveSlots
      <4>2. t = s
        <5>1. Task(s)' = Task(t)
          BY <3>2, <4>1
        <5>2. Task(s)'.slot = s /\ Task(t).slot = t
          BY DEF Task
        <5> QED
          BY <5>1, <5>2
      <4> QED
        BY <3>1, <4>1, <4>2
    <3> QED
      BY <3>1, <3>2
  <2> QED
    BY <2>1, <2>2
<1>2. \A a \in RegSlots : Reg(a)' = Reg(a)
  BY DEF Reg, regVars
<1>3. ActiveSlots' = ActiveSlots
  BY DEF ActiveSlots, regVars
<1>4. \A s \in TaskSlots : waitSet'[s] = {Reg(a)' : a \in {b \in RegSlots : regOwner'[b] = {Task(s)'}}}
  <2> SUFFICES ASSUME NEW s \in TaskSlots
               PROVE  waitSet'[s] = {Reg(a)' : a \in {b \in RegSlots : regOwner'[b] = {Task(s)'}}}
    OBVIOUS
  <2>1. waitSet[s] = {Reg(a) : a \in {b \in RegSlots : regOwner[b] = {Task(s)}}}
    BY DEF RegInv, WaitSetsExact
  <2>2. waitSet'[s] = waitSet[s] /\ regOwner' = regOwner
    BY DEF regVars
  <2> QED
    BY <1>1, <1>2, <2>1, <2>2
<1>5. \A a \in ActiveSlots : \E s \in TaskSlots : regOwner'[a] = {Task(s)'}
  <2> SUFFICES ASSUME NEW a \in ActiveSlots PROVE \E s \in TaskSlots : regOwner'[a] = {Task(s)'}
    OBVIOUS
  <2>1. PICK s \in TaskSlots : regOwner[a] = {Task(s)}
    BY DEF RegInv, WaitSetsExact
  <2>2. a \in {b \in RegSlots : regOwner[b] = {Task(s)}}
    BY <2>1 DEF ActiveSlots
  <2> QED
    BY <1>1, <2>2 DEF regVars
<1>6. \A s \in TaskSlots : waitSet'[s] # {} <=> taskState'[s] = "waiting"
  BY DEF RegInv, WaitSetsExact
<1>7. WaitSetsExact'
  BY <1>3, <1>4, <1>5, <1>6 DEF WaitSetsExact
<1>8. ReactorMirrors'
  <2>1. {Reg(a)' : a \in ActiveSlots} = {Reg(a) : a \in ActiveSlots}
    BY <1>2 DEF ActiveSlots
  <2> QED
    BY <1>3, <2>1 DEF RegInv, ReactorMirrors, regVars
<1>9. RegSlotsConserved'
  BY <1>3 DEF RegInv, RegSlotsConserved, regVars
<1> QED
  BY <1>7, <1>8, <1>9 DEF RegInv

(* Detaching the tasks of S preserves RegInv if they stop waiting and the  *)
(* other tasks stay as they are.                                           *)
LEMMA RegDetach ==
    ASSUME SchedulerAssumption, TypeOK, RegInv, NEW S \in SUBSET TaskSlots,
           RemoveRegistrations(UNION {waitSet[s] : s \in S}),
           waitSet' = [s \in TaskSlots |-> IF s \in S THEN {} ELSE waitSet[s]],
           taskGen' = taskGen,
           \A s \in S : taskState'[s] # "waiting",
           \A s \in TaskSlots \ S : taskState'[s] = taskState[s]
    PROVE  RegInv'
<1>1. PICK A \in SUBSET RegSlots :
         /\ A = {a \in RegSlots : \E s \in S : regOwner[a] = {Task(s)}}
         /\ A \subseteq ActiveSlots
         /\ regOwner' = [a \in RegSlots |-> IF a \in A THEN {} ELSE regOwner[a]]
         /\ regGen' = NextRegGen(A)
         /\ freeRegs' = freeRegs \cup Reusable(A)
         /\ installed' = installed \ {Reg(a) : a \in A}
         /\ regLen' = regLen
  BY RemoveWaits DEF RegInv
<1>2. \A s \in TaskSlots : Task(s)' = Task(s)
  BY DEF Task
<1>3. \A a \in RegSlots \ A : Reg(a)' = Reg(a)
  BY <1>1 DEF Reg, NextRegGen, TypeOK
<1>4. ActiveSlots' = ActiveSlots \ A
  BY <1>1 DEF ActiveSlots
<1>5. \A s \in TaskSlots : waitSet'[s] = {Reg(a)' : a \in {b \in RegSlots : regOwner'[b] = {Task(s)'}}}
  <2>1. ASSUME NEW s \in S
        PROVE  waitSet'[s] = {Reg(a)' : a \in {b \in RegSlots : regOwner'[b] = {Task(s)'}}}
    <3>1. waitSet'[s] = {} /\ Task(s)' = Task(s)
      BY <1>2
    <3>2. \A b \in RegSlots : regOwner'[b] # {Task(s)}
      BY <1>1
    <3> QED
      BY <3>1, <3>2
  <2>2. ASSUME NEW s \in TaskSlots \ S
        PROVE  waitSet'[s] = {Reg(a)' : a \in {b \in RegSlots : regOwner'[b] = {Task(s)'}}}
    <3>1. waitSet'[s] = {Reg(a) : a \in {b \in RegSlots : regOwner[b] = {Task(s)}}}
      BY DEF RegInv, WaitSetsExact
    <3>2. ASSUME NEW b \in A PROVE regOwner[b] # {Task(s)}
      <4>1. PICK t \in S : regOwner[b] = {Task(t)}
        BY <1>1
      <4>2. Task(s).slot = s /\ Task(t).slot = t
        BY DEF Task
      <4> QED
        BY <4>1, <4>2
    <3>3. {b \in RegSlots : regOwner'[b] = {Task(s)'}} = {b \in RegSlots : regOwner[b] = {Task(s)}}
      BY <1>1, <1>2, <3>2
    <3>4. \A a \in {b \in RegSlots : regOwner[b] = {Task(s)}} : Reg(a)' = Reg(a)
      BY <1>3, <3>2
    <3> QED
      BY <3>1, <3>3, <3>4
  <2> QED
    BY <2>1, <2>2
<1>6. \A a \in ActiveSlots' : \E s \in TaskSlots : regOwner'[a] = {Task(s)'}
  BY <1>1, <1>2, <1>4 DEF RegInv, WaitSetsExact, ActiveSlots
<1>7. \A s \in TaskSlots : waitSet'[s] # {} <=> taskState'[s] = "waiting"
  BY DEF RegInv, WaitSetsExact
<1>8. WaitSetsExact'
  BY <1>5, <1>6, <1>7 DEF WaitSetsExact
<1>9. ReactorMirrors'
  <2>1. \A a, b \in RegSlots : Reg(a) = Reg(b) => a = b
    BY DEF Reg
  <2>2. installed = {Reg(a) : a \in ActiveSlots}
    BY DEF RegInv, ReactorMirrors
  <2>3. installed' = {Reg(a) : a \in ActiveSlots \ A}
    BY <1>1, <2>1, <2>2 DEF ActiveSlots
  <2>4. \A a \in ActiveSlots \ A : Reg(a)' = Reg(a)
    BY <1>3 DEF ActiveSlots
  <2>5. {Reg(a)' : a \in ActiveSlots \ A} = {Reg(a) : a \in ActiveSlots \ A}
    BY <2>4
  <2> QED
    BY <1>4, <2>3, <2>5 DEF ReactorMirrors
<1>10. RegSlotsConserved'
  <2>1. \A a \in A \ Reusable(A) : regGen'[a] = MaxGen
    BY <1>1 DEF Reusable, NextRegGen, TypeOK, Gens, SchedulerAssumption
  <2>2. \A a \in RegSlots \ A : regGen'[a] = regGen[a]
    BY <1>1 DEF NextRegGen
  <2>3. 0 .. regLen - 1 \subseteq RegSlots
    BY DEF TypeOK, RegSlots, SchedulerAssumption
  <2>4. Reusable(A) \subseteq A
    BY DEF Reusable
  <2> QED
    BY <1>1, <1>4, <2>1, <2>2, <2>3, <2>4 DEF RegInv, RegSlotsConserved
<1> QED
  BY <1>8, <1>9, <1>10 DEF RegInv

(* What successive allocations yield was inactive, and is created below hi.*)
LEMMA AllocatesInactive ==
    ASSUME SchedulerAssumption, TypeOK, RegInv, NEW A \in SUBSET RegSlots,
           NEW hi \in regLen .. RegSlotCount, Allocates(A, hi)
    PROVE  /\ A \cap ActiveSlots = {}
           /\ 0 .. hi - 1 = 0 .. regLen - 1 \cup A
<1>1. regLen \in Nat /\ hi \in Nat /\ regLen <= hi
  BY DEF TypeOK, SchedulerAssumption
<1>2. \A a \in A : a \in freeRegs \/ (a \in Nat /\ regLen <= a /\ a < hi)
  BY <1>1 DEF Allocates
<1>3. \A a \in freeRegs : a \in 0 .. regLen - 1 /\ a \notin ActiveSlots
  BY DEF RegInv, RegSlotsConserved
<1>4. \A a \in ActiveSlots : a \in 0 .. regLen - 1
  BY DEF RegInv, RegSlotsConserved
<1>5. A \cap ActiveSlots = {}
  BY <1>1, <1>2, <1>3, <1>4
<1>6. ASSUME NEW a \in 0 .. hi - 1, a \notin 0 .. regLen - 1 PROVE a \in A
  <2>1. a \in regLen .. hi - 1
    BY <1>1, <1>6
  <2> QED
    BY <2>1 DEF Allocates
<1>7. A \subseteq 0 .. hi - 1
  BY <1>1, <1>2, <1>3
<1>8. 0 .. regLen - 1 \subseteq 0 .. hi - 1
  BY <1>1
<1> QED
  BY <1>5, <1>6, <1>7, <1>8

(* A suspend installs every registration of the new wait set, and no       *)
(* other.                                                                  *)
LEMMA RegSuspend ==
    ASSUME SchedulerAssumption, TypeOK, RegInv, NEW s \in TaskSlots, NEW A \in SUBSET RegSlots,
           NEW hi \in regLen .. RegSlotCount, Suspend(s, A, hi)
    PROVE  RegInv'
<1>1. /\ A \cap ActiveSlots = {}
      /\ 0 .. hi - 1 = 0 .. regLen - 1 \cup A
  BY AllocatesInactive DEF Suspend
<1>2. (\A t \in TaskSlots : Task(t)' = Task(t)) /\ (\A a \in RegSlots : Reg(a)' = Reg(a))
  BY DEF Suspend, Task, Reg
<1>3. ActiveSlots' = ActiveSlots \cup A
  BY DEF Suspend, ActiveSlots
<1>4. regOwner' = [a \in RegSlots |-> IF a \in A THEN {Task(s)} ELSE regOwner[a]]
  BY DEF Suspend
<1>5. waitSet[s] = {} /\ \A b \in RegSlots : regOwner[b] # {Task(s)}
  BY DEF Suspend, RegInv, WaitSetsExact
<1>6. \A t \in TaskSlots : waitSet'[t] = {Reg(a) : a \in {b \in RegSlots : regOwner'[b] = {Task(t)}}}
  <2>1. waitSet'[s] = {Reg(a) : a \in {b \in RegSlots : regOwner'[b] = {Task(s)}}}
    <3>1. {b \in RegSlots : regOwner'[b] = {Task(s)}} = A
      BY <1>4, <1>5
    <3>2. waitSet'[s] = {Reg(a) : a \in A}
      BY DEF Suspend, TypeOK
    <3> QED
      BY <3>1, <3>2
  <2>2. ASSUME NEW t \in TaskSlots, t # s
        PROVE  waitSet'[t] = {Reg(a) : a \in {b \in RegSlots : regOwner'[b] = {Task(t)}}}
    <3>1. Task(t) # Task(s)
      <4>1. Task(t).slot = t /\ Task(s).slot = s
        BY DEF Task
      <4> QED
        BY <2>2, <4>1
    <3>2. \A b \in A : regOwner[b] # {Task(t)}
      BY <1>1 DEF ActiveSlots
    <3>3. {b \in RegSlots : regOwner'[b] = {Task(t)}} = {b \in RegSlots : regOwner[b] = {Task(t)}}
      BY <1>4, <3>1, <3>2
    <3>4. waitSet'[t] = waitSet[t]
      BY <2>2 DEF Suspend, TypeOK
    <3>5. waitSet[t] = {Reg(a) : a \in {b \in RegSlots : regOwner[b] = {Task(t)}}}
      BY DEF RegInv, WaitSetsExact
    <3> QED
      BY <3>3, <3>4, <3>5
  <2> QED
    BY <2>1, <2>2
<1>7. \A t \in TaskSlots : waitSet'[t] = {Reg(a)' : a \in {b \in RegSlots : regOwner'[b] = {Task(t)'}}}
  <2> SUFFICES ASSUME NEW t \in TaskSlots
               PROVE  waitSet'[t] = {Reg(a)' : a \in {b \in RegSlots : regOwner'[b] = {Task(t)'}}}
    OBVIOUS
  <2> DEFINE B == {b \in RegSlots : regOwner'[b] = {Task(t)}}
  <2>1. B = {b \in RegSlots : regOwner'[b] = {Task(t)'}}
    BY <1>2
  <2>2. {Reg(a)' : a \in B} = {Reg(a) : a \in B}
    BY <1>2
  <2> QED
    BY <1>6, <2>1, <2>2
<1>8. \A a \in ActiveSlots' : \E t \in TaskSlots : regOwner'[a] = {Task(t)'}
  BY <1>2, <1>3, <1>4 DEF RegInv, WaitSetsExact, ActiveSlots
<1>9. \A t \in TaskSlots : waitSet'[t] # {} <=> taskState'[t] = "waiting"
  BY DEF Suspend, RegInv, WaitSetsExact, TypeOK
<1>10. WaitSetsExact'
  BY <1>7, <1>8, <1>9 DEF WaitSetsExact
<1>11. ReactorMirrors'
  <2>1. installed' = {Reg(a) : a \in ActiveSlots} \cup {Reg(a) : a \in A}
    BY DEF Suspend, RegInv, ReactorMirrors
  <2>2. installed' = {Reg(a) : a \in ActiveSlots'}
    BY <1>3, <2>1
  <2>3. {Reg(a) : a \in ActiveSlots'} = {Reg(a)' : a \in ActiveSlots'}
    BY <1>2 DEF ActiveSlots
  <2> QED
    BY <2>2, <2>3 DEF ReactorMirrors
<1>12. RegSlotsConserved'
  <2>1. regLen' = hi /\ freeRegs' = freeRegs \ A /\ regGen' = regGen
    BY DEF Suspend
  <2> QED
    BY <1>1, <1>3, <2>1 DEF RegInv, RegSlotsConserved
<1> QED
  BY <1>10, <1>11, <1>12 DEF RegInv

(* A suspend that fails leaves the registrations as they were, released    *)
(* slots included.                                                         *)
LEMMA RegRollBack ==
    ASSUME SchedulerAssumption, TypeOK, RegInv, NEW A \in SUBSET RegSlots,
           NEW hi \in regLen .. RegSlotCount, RollBack(A, hi), UNCHANGED <<taskGen, waitSet>>,
           \A s \in TaskSlots : taskState'[s] = "waiting" <=> taskState[s] = "waiting"
    PROVE  RegInv'
<1>1. /\ A \cap ActiveSlots = {}
      /\ 0 .. hi - 1 = 0 .. regLen - 1 \cup A
  BY AllocatesInactive DEF RollBack
<1>2. \A t \in TaskSlots : Task(t)' = Task(t)
  BY DEF Task
<1>3. ActiveSlots' = ActiveSlots
  BY DEF RollBack, ActiveSlots
<1>4. \A a \in ActiveSlots : Reg(a)' = Reg(a)
  BY <1>1 DEF Reg, RollBack, NextRegGen, ActiveSlots
<1>5. WaitSetsExact'
  <2>1. ASSUME NEW t \in TaskSlots
        PROVE  waitSet'[t] = {Reg(a)' : a \in {b \in RegSlots : regOwner'[b] = {Task(t)'}}}
    <3> DEFINE B == {b \in RegSlots : regOwner[b] = {Task(t)}}
    <3>1. B = {b \in RegSlots : regOwner'[b] = {Task(t)'}}
      BY <1>2 DEF RollBack
    <3>2. \A a \in B : Reg(a)' = Reg(a)
      BY <1>4 DEF ActiveSlots
    <3>3. {Reg(a)' : a \in B} = {Reg(a) : a \in B}
      BY <3>2
    <3> QED
      BY <3>1, <3>3 DEF RegInv, WaitSetsExact
  <2>2. \A a \in ActiveSlots' : \E t \in TaskSlots : regOwner'[a] = {Task(t)'}
    BY <1>2, <1>3 DEF RollBack, RegInv, WaitSetsExact
  <2> QED
    BY <2>1, <2>2 DEF RegInv, WaitSetsExact
<1>6. ReactorMirrors'
  <2>1. {Reg(a)' : a \in ActiveSlots} = {Reg(a) : a \in ActiveSlots}
    BY <1>4
  <2> QED
    BY <1>3, <2>1 DEF RollBack, RegInv, ReactorMirrors
<1>7. RegSlotsConserved'
  <2>1. /\ regLen' = hi /\ freeRegs' = (freeRegs \ A) \cup Reusable(A)
        /\ regGen' = NextRegGen(A)
    BY DEF RollBack
  <2>2. \A a \in A \ Reusable(A) : regGen'[a] = MaxGen
    BY <2>1 DEF Reusable, NextRegGen, TypeOK, Gens, SchedulerAssumption
  <2>3. \A a \in RegSlots \ A : regGen'[a] = regGen[a]
    BY <2>1 DEF NextRegGen
  <2>4. 0 .. regLen - 1 \subseteq RegSlots
    BY DEF TypeOK, RegSlots, SchedulerAssumption
  <2>5. Reusable(A) \subseteq A
    BY DEF Reusable
  <2> QED
    BY <1>1, <1>3, <2>1, <2>2, <2>3, <2>4, <2>5 DEF RegInv, RegSlotsConserved
<1> QED
  BY <1>5, <1>6, <1>7 DEF RegInv

(* A slot that is allocated was vacant and is counted afterwards.          *)
LEMMA AllocatedVacant ==
    ASSUME SchedulerAssumption, TypeOK, TaskSlotsConserved, NEW s \in TaskSlots, AllocateTask(s)
    PROVE  /\ taskState[s] = "vacant"
           /\ 0 .. taskLen' - 1 = 0 .. taskLen - 1 \cup {s}
           /\ freeTasks' = freeTasks \ {s}
<1>1. taskLen \in Nat /\ s \in Nat
  BY DEF TypeOK, TaskSlots, SchedulerAssumption
<1>2. CASE s \in freeTasks /\ freeTasks' = freeTasks \ {s} /\ taskLen' = taskLen
  BY <1>2 DEF TaskSlotsConserved, Occupied
<1>3. CASE freeTasks = {} /\ s = taskLen /\ taskLen' = taskLen + 1 /\ freeTasks' = freeTasks
  <2>1. s \notin 0 .. taskLen - 1
    BY <1>1, <1>3
  <2>2. taskState[s] = "vacant"
    BY <2>1 DEF TaskSlotsConserved, Occupied
  <2>3. 0 .. taskLen' - 1 = 0 .. taskLen - 1 \cup {s}
    BY <1>1, <1>3
  <2> QED
    BY <1>3, <2>2, <2>3
<1> QED
  BY <1>2, <1>3 DEF AllocateTask

(* Every step conserves the task slots.                                    *)
LEMMA TaskSlotsStep ==
    SchedulerAssumption /\ TypeOK /\ TaskSlotsConserved /\ [Next]_schedVars => TaskSlotsConserved'
<1> SUFFICES ASSUME SchedulerAssumption, TypeOK, TaskSlotsConserved, [Next]_schedVars
             PROVE  TaskSlotsConserved'
  OBVIOUS
<1>1. ASSUME UNCHANGED <<taskLen, taskGen, freeTasks>>, Occupied' = Occupied
      PROVE  TaskSlotsConserved'
  BY <1>1 DEF TaskSlotsConserved
<1>2. ASSUME NEW s \in TaskSlots, Spawn(s) PROVE TaskSlotsConserved'
  <2>1. /\ taskState[s] = "vacant"
        /\ 0 .. taskLen' - 1 = 0 .. taskLen - 1 \cup {s}
        /\ freeTasks' = freeTasks \ {s}
    BY <1>2, AllocatedVacant DEF Spawn
  <2>2. Occupied' = Occupied \cup {s}
    BY <1>2 DEF Spawn, Occupied, TypeOK
  <2>3. taskGen' = taskGen
    BY <1>2 DEF Spawn
  <2> QED
    BY <2>1, <2>2, <2>3 DEF TaskSlotsConserved
<1>3. ASSUME NEW i \in 1 .. Len(runnable), Resume(i) PROVE TaskSlotsConserved'
  <2>1. runnable[i] \in TaskIds
    BY DEF TypeOK
  <2>2. Occupied' = Occupied
    BY <1>3, <2>1 DEF Resume, Live, IsTask, Occupied, TypeOK, TaskIds
  <2> QED
    BY <1>1, <1>3, <2>2 DEF Resume
<1>4. CASE Idle
  BY <1>1, <1>4 DEF Idle, taskVars, Occupied
<1>5. ASSUME NEW batch, NEW w, Wait(batch, w) PROVE TaskSlotsConserved'
  <2>1. Occupied' = Occupied
    BY <1>5 DEF Wait, Occupied, Woken
  <2> QED
    BY <1>1, <1>5, <2>1 DEF Wait
<1>6. ASSUME NEW s \in TaskSlots, YieldNow(s) PROVE TaskSlotsConserved'
  <2>1. Occupied' = Occupied
    BY <1>6 DEF YieldNow, Requeue, Occupied, TypeOK
  <2> QED
    BY <1>1, <1>6, <2>1 DEF YieldNow, Requeue
<1>7. ASSUME NEW s \in TaskSlots, NEW A, NEW hi, Suspend(s, A, hi) PROVE TaskSlotsConserved'
  <2>1. Occupied' = Occupied
    BY <1>7 DEF Suspend, Occupied, TypeOK
  <2> QED
    BY <1>1, <1>7, <2>1 DEF Suspend
<1>8. ASSUME NEW s \in TaskSlots, NEW A, NEW hi, SuspendFails(s, A, hi) PROVE TaskSlotsConserved'
  BY <1>1, <1>8 DEF SuspendFails, taskVars, Occupied
<1>9. ASSUME NEW s \in TaskSlots, Complete(s) PROVE TaskSlotsConserved'
  <2>1. Occupied' = Occupied
    BY <1>9 DEF Complete, Occupied, TypeOK
  <2> QED
    BY <1>1, <1>9, <2>1 DEF Complete
<1>10. ASSUME NEW S \in SUBSET Occupied, CancelAll(S) PROVE TaskSlotsConserved'
  <2>1. Occupied' = Occupied
    BY <1>10 DEF CancelAll, Occupied
  <2> QED
    BY <1>1, <1>10, <2>1 DEF CancelAll
<1>11. ASSUME NEW s \in Occupied, ReleaseTask(s) PROVE TaskSlotsConserved'
  <2>1. s \in TaskSlots /\ Occupied' = Occupied \ {s} /\ taskLen' = taskLen
    BY <1>11 DEF ReleaseTask, Occupied, TypeOK
  <2>2. 0 .. taskLen - 1 \subseteq TaskSlots
    BY DEF TypeOK, TaskSlots, SchedulerAssumption
  <2>3. CASE taskGen[s] < MaxGen
    <3>1. /\ freeTasks' = freeTasks \cup {s}
          /\ \A t \in TaskSlots \ {s} : taskGen'[t] = taskGen[t]
      BY <1>11, <2>3 DEF ReleaseTask, TypeOK
    <3> QED
      BY <2>1, <2>2, <3>1 DEF TaskSlotsConserved
  <2>4. CASE ~(taskGen[s] < MaxGen)
    <3>1. freeTasks' = freeTasks /\ taskGen' = taskGen
      BY <1>11, <2>4 DEF ReleaseTask
    <3>2. taskGen[s] = MaxGen
      BY <2>1, <2>4 DEF TypeOK, Gens, SchedulerAssumption
    <3> QED
      BY <2>1, <3>1, <3>2 DEF TaskSlotsConserved
  <2> QED
    BY <2>3, <2>4
<1>12. CASE UNCHANGED schedVars
  BY <1>1, <1>12 DEF schedVars, taskVars, Occupied
<1> QED
  <2>1. CASE NextProgress
    BY <1>3, <1>4, <1>5, <2>1 DEF NextProgress, WaitForEvents
  <2>2. CASE BeginShutdown
    BY <1>10, <2>2 DEF BeginShutdown
  <2>3. ASSUME NEW s \in TaskSlots, Cancel(s) PROVE TaskSlotsConserved'
    BY <1>10, <2>3 DEF Cancel, Occupied
  <2>4. ASSUME NEW s \in TaskSlots, FinishCancellation(s) \/ ConsumeCompleted(s)
        PROVE  TaskSlotsConserved'
    BY <1>11, <2>4 DEF FinishCancellation, ConsumeCompleted, Occupied, Cancelling
  <2>5. ASSUME NEW s \in TaskSlots, Suspends(s) \/ FailsToSuspend(s) PROVE TaskSlotsConserved'
    BY <1>7, <1>8, <2>5 DEF Suspends, FailsToSuspend
  <2> QED
    BY <1>2, <1>6, <1>9, <1>12, <2>1, <2>2, <2>3, <2>4, <2>5 DEF Next

(* Every step keeps wait sets, owners, reactor and registration slots in   *)
(* agreement.                                                              *)
LEMMA RegInvStep ==
    SchedulerAssumption /\ TypeOK /\ TaskSlotsConserved /\ RegInv /\ [Next]_schedVars => RegInv'
<1> SUFFICES ASSUME SchedulerAssumption, TypeOK, TaskSlotsConserved, RegInv, [Next]_schedVars
             PROVE  RegInv'
  OBVIOUS
<1>1. ASSUME NEW s \in TaskSlots, Spawn(s) PROVE RegInv'
  <2>1. taskState[s] # "waiting"
    BY <1>1, AllocatedVacant DEF Spawn
  <2>2. /\ \A t \in TaskSlots : taskState'[t] = "waiting" <=> taskState[t] = "waiting"
        /\ UNCHANGED <<regVars, waitSet, taskGen>>
    BY <1>1, <2>1 DEF Spawn, TypeOK
  <2> QED
    BY <2>2, RegFrame
<1>2. ASSUME NEW i \in 1 .. Len(runnable), Resume(i) PROVE RegInv'
  <2>1. runnable[i] \in TaskIds
    BY DEF TypeOK
  <2>2. /\ \A t \in TaskSlots : taskState'[t] = "waiting" <=> taskState[t] = "waiting"
        /\ UNCHANGED <<regVars, waitSet, taskGen>>
    BY <1>2, <2>1 DEF Resume, Live, IsTask, TaskIds, TypeOK
  <2> QED
    BY <2>2, RegFrame
<1>3. CASE Idle
  BY <1>3, RegFrame DEF Idle, taskVars
<1>4. ASSUME NEW batch, NEW w, Wait(batch, w) PROVE RegInv'
  <2> DEFINE S == Woken(batch)
  <2>1. S \in SUBSET TaskSlots
    BY DEF Woken
  <2>2. /\ RemoveRegistrations(UNION {waitSet[s] : s \in S})
        /\ waitSet' = [s \in TaskSlots |-> IF s \in S THEN {} ELSE waitSet[s]]
        /\ taskGen' = taskGen
        /\ \A s \in S : taskState'[s] # "waiting"
        /\ \A s \in TaskSlots \ S : taskState'[s] = taskState[s]
    BY <1>4, <2>1 DEF Wait
  <2> HIDE DEF S
  <2> QED
    BY <2>1, <2>2, RegDetach
<1>5. ASSUME NEW s \in TaskSlots, YieldNow(s) \/ Complete(s) PROVE RegInv'
  <2>1. /\ \A t \in TaskSlots : taskState'[t] = "waiting" <=> taskState[t] = "waiting"
        /\ UNCHANGED <<regVars, waitSet, taskGen>>
    BY <1>5 DEF YieldNow, Requeue, Complete, TypeOK
  <2> QED
    BY <2>1, RegFrame
<1>6. ASSUME NEW s \in TaskSlots, Suspends(s) PROVE RegInv'
  BY <1>6, RegSuspend DEF Suspends
<1>7. ASSUME NEW s \in TaskSlots, FailsToSuspend(s) PROVE RegInv'
  BY <1>7, RegRollBack DEF FailsToSuspend, SuspendFails, taskVars
<1>8. ASSUME NEW S \in SUBSET TaskSlots, CancelAll(S) PROVE RegInv'
  <2>1. /\ RemoveRegistrations(UNION {waitSet[s] : s \in S})
        /\ waitSet' = [s \in TaskSlots |-> IF s \in S THEN {} ELSE waitSet[s]]
        /\ taskGen' = taskGen
        /\ \A s \in S : taskState'[s] # "waiting"
        /\ \A s \in TaskSlots \ S : taskState'[s] = taskState[s]
    BY <1>8 DEF CancelAll
  <2> QED
    BY <2>1, RegDetach
<1>9. ASSUME NEW s \in TaskSlots, FinishCancellation(s) \/ ConsumeCompleted(s) PROVE RegInv'
  <2>1. /\ taskState[s] # "waiting"
        /\ ReleaseTask(s)
        /\ UNCHANGED regVars
    BY <1>9 DEF FinishCancellation, ConsumeCompleted, Cancelling
  <2>2. /\ \A t \in TaskSlots : taskState'[t] = "waiting" <=> taskState[t] = "waiting"
        /\ \A t \in TaskSlots : taskState[t] = "waiting" => taskGen'[t] = taskGen[t]
        /\ waitSet' = waitSet
    BY <2>1 DEF ReleaseTask, TypeOK
  <2> QED
    BY <2>1, <2>2, RegFrame
<1>10. CASE UNCHANGED schedVars
  BY <1>10, RegFrame DEF schedVars, taskVars
<1> QED
  <2>1. CASE NextProgress
    BY <1>2, <1>3, <1>4, <2>1 DEF NextProgress, WaitForEvents
  <2>2. CASE BeginShutdown
    BY <1>8, <2>2 DEF BeginShutdown, Occupied
  <2>3. ASSUME NEW s \in TaskSlots, Cancel(s) PROVE RegInv'
    BY <1>8, <2>3 DEF Cancel
  <2> QED
    BY <1>1, <1>5, <1>6, <1>7, <1>9, <1>10, <2>1, <2>2, <2>3 DEF Next

\* The part of the invariant about slots and registrations.
SlotInv == TypeOK /\ TaskSlotsConserved /\ RegInv

-----------------------------------------------------------------------------
(* The queue.                                                              *)

QueueInv == QueueExact /\ FreshUnqueued

(* Identities of different slots differ, and current ones have their slot. *)
LEMMA TaskSlot == \A s \in TaskSlots : Task(s).slot = s /\ Task(s).gen = taskGen[s]
BY DEF Task

(* A task that is not in the queue may be made runnable and appended.      *)
LEMMA QueueAppend ==
    ASSUME SchedulerAssumption, TypeOK, QueueInv, NEW s \in TaskSlots,
           \A i \in 1 .. Len(runnable) : runnable[i] # Task(s),
           runnable' = Append(runnable, Task(s)),
           taskState' = [taskState EXCEPT ![s] = "runnable"],
           taskGen' = taskGen
    PROVE  QueueExact'
<1>1. Len(runnable) \in Nat /\ runnable \in Seq(TaskIds) /\ Task(s) \in TaskIds
  BY DEF TypeOK, Task, TaskIds
<1>2. /\ Len(runnable') = Len(runnable) + 1
      /\ \A i \in 1 .. Len(runnable) : runnable'[i] = runnable[i]
      /\ runnable'[Len(runnable) + 1] = Task(s)
  BY <1>1
<1>3. 1 .. Len(runnable') = 1 .. Len(runnable) \cup {Len(runnable) + 1}
  BY <1>1, <1>2
<1>4. \A t \in TaskSlots : Task(t)' = Task(t)
  BY DEF Task
<1>5. \A t \in TaskSlots : taskState'[t] = IF t = s THEN "runnable" ELSE taskState[t]
  BY DEF TypeOK
<1>6. \A t \in TaskSlots : taskState'[t] = "runnable" =>
        \E i \in 1 .. Len(runnable') : runnable'[i] = Task(t)'
  BY <1>2, <1>3, <1>4, <1>5 DEF QueueInv, QueueExact
<1>7. \A i \in 1 .. Len(runnable'), t \in TaskSlots : runnable'[i] = Task(t)' =>
        taskState'[t] \in {"runnable", "pendingFrame", "vacant"}
  <2> SUFFICES ASSUME NEW i \in 1 .. Len(runnable'), NEW t \in TaskSlots, runnable'[i] = Task(t)'
               PROVE  taskState'[t] \in {"runnable", "pendingFrame", "vacant"}
    OBVIOUS
  <2>1. CASE i \in 1 .. Len(runnable)
    BY <1>2, <1>4, <1>5, <2>1 DEF QueueInv, QueueExact
  <2>2. CASE i = Len(runnable) + 1
    <3>1. t = s
      BY <1>2, <1>4, <2>2, TaskSlot
    <3> QED
      BY <1>5, <3>1
  <2> QED
    BY <1>3, <2>1, <2>2
<1>8. \A i, j \in 1 .. Len(runnable') : runnable'[i] = runnable'[j] => i = j
  BY <1>2, <1>3 DEF QueueInv, QueueExact
<1> QED
  BY <1>6, <1>7, <1>8 DEF QueueExact

(* A step that leaves the queue alone preserves the invariant if a task in *)
(* the queue can only become cancelled, or vacant under an older entry.    *)
LEMMA QueueFrame ==
    ASSUME QueueInv, UNCHANGED runnable,
           \A s \in TaskSlots : taskState'[s] = "runnable" =>
               taskState[s] = "runnable" /\ Task(s)' = Task(s),
           \A i \in 1 .. Len(runnable), s \in TaskSlots : runnable[i] = Task(s)' =>
               taskState'[s] \in {"runnable", "pendingFrame", "vacant"}
    PROVE  QueueExact'
BY DEF QueueInv, QueueExact

(* A step that changes neither the queue nor the identities keeps          *)
(* FreshUnqueued.                                                          *)
LEMMA FreshFrame ==
    ASSUME QueueInv, UNCHANGED <<runnable, taskLen, taskGen, freeTasks>>
    PROVE  FreshUnqueued'
BY DEF QueueInv, FreshUnqueued

(* Resuming an entry drops the stale ones before it and keeps the queue    *)
(* exact.                                                                  *)
LEMMA QueueResume ==
    ASSUME SchedulerAssumption, TypeOK, QueueInv, NEW i \in 1 .. Len(runnable), Resume(i)
    PROVE  QueueInv'
<1> DEFINE n == Len(runnable) - i
           s == runnable[i].slot
<1>1. /\ Len(runnable) \in Nat /\ i \in Nat /\ runnable \in Seq(TaskIds)
      /\ runnable[i] \in TaskIds /\ s \in TaskSlots
  <2>1. runnable \in Seq(TaskIds) /\ Len(runnable) \in Nat /\ i \in Nat
    BY DEF TypeOK
  <2>2. runnable[i] \in TaskIds
    BY <2>1, ElementOfSeq
  <2> QED
    BY <2>1, <2>2 DEF TaskIds
<1>2. /\ Len(runnable') = n
      /\ \A k \in 1 .. n : runnable'[k] = runnable[i + k]
  BY <1>1 DEF Resume
<1>3. runnable[i] = Task(s) /\ taskState[s] = "runnable"
  BY <1>1 DEF Resume, Live, IsTask, Task, TaskIds
<1>4. \A t \in TaskSlots : Task(t)' = Task(t)
  BY DEF Resume, Task
<1>5. \A t \in TaskSlots : taskState'[t] = IF t = s THEN "running" ELSE taskState[t]
  BY <1>1 DEF Resume, TypeOK
<1>6. ASSUME NEW t \in TaskSlots, taskState'[t] = "runnable"
      PROVE  \E k \in 1 .. Len(runnable') : runnable'[k] = Task(t)'
  <2>1. t # s /\ taskState[t] = "runnable"
    BY <1>5, <1>6
  <2>2. PICK j \in 1 .. Len(runnable) : runnable[j] = Task(t)
    BY <2>1 DEF QueueInv, QueueExact
  <2>3. Live(runnable[j])
    BY <2>1, <2>2, TaskSlot DEF Live, IsTask
  <2>4. j # i
    BY <1>3, <2>1, <2>2, TaskSlot
  <2>5. ~(j \in 1 .. i - 1)
    BY <2>3 DEF Resume
  <2>6. j - i \in 1 .. n /\ i + (j - i) = j
    BY <1>1, <2>4, <2>5
  <2> QED
    BY <1>2, <1>4, <2>2, <2>6
<1>7. ASSUME NEW k \in 1 .. Len(runnable'), NEW t \in TaskSlots, runnable'[k] = Task(t)'
      PROVE  taskState'[t] \in {"runnable", "pendingFrame", "vacant"}
  <2>1. k \in 1 .. n /\ i + k \in 1 .. Len(runnable) /\ i + k # i
    BY <1>1, <1>2
  <2>2. runnable[i + k] = Task(t)
    BY <1>2, <1>4, <1>7, <2>1
  <2>3. t # s
    BY <1>3, <2>1, <2>2 DEF QueueInv, QueueExact
  <2> QED
    BY <1>5, <2>1, <2>2, <2>3 DEF QueueInv, QueueExact
<1>8. ASSUME NEW k \in 1 .. Len(runnable'), NEW l \in 1 .. Len(runnable'), runnable'[k] = runnable'[l]
      PROVE  k = l
  <2>1. k \in 1 .. n /\ l \in 1 .. n /\ i + k \in 1 .. Len(runnable) /\ i + l \in 1 .. Len(runnable)
    BY <1>1, <1>2
  <2>2. i + k = i + l
    BY <1>2, <1>8, <2>1 DEF QueueInv, QueueExact
  <2> QED
    BY <1>1, <2>1, <2>2
<1>9. QueueExact'
  BY <1>6, <1>7, <1>8 DEF QueueExact
<1>10. FreshUnqueued'
  <2>1. \A k \in 1 .. n : i + k \in 1 .. Len(runnable)
    BY <1>1
  <2> QED
    BY <1>2, <2>1 DEF QueueInv, FreshUnqueued, Resume
<1> QED
  BY <1>9, <1>10 DEF QueueInv

(* With no live entry no task is runnable, so the queue may be emptied.    *)
LEMMA NoneRunnable ==
    ASSUME QueueInv, NoLiveEntry, NEW s \in TaskSlots
    PROVE  taskState[s] # "runnable"
BY TaskSlot DEF QueueInv, QueueExact, NoLiveEntry, Live, IsTask

(* A batch of events queues every task it wakes once, the first of them    *)
(* resumed.                                                                *)
LEMMA QueueWait ==
    ASSUME SchedulerAssumption, TypeOK, TaskSlotsConserved, QueueInv,
           NEW batch, NEW w \in SetToSeqs(Woken(batch)), Wait(batch, w)
    PROVE  QueueInv'
<1>1. w \in Seq(TaskSlots) /\ Len(w) \in Nat
  BY WakeOrderType
<1>2. /\ \A s \in Woken(batch) : \E i \in 1 .. Len(w) : w[i] = s
      /\ \A i \in 1 .. Len(w) : w[i] \in Woken(batch)
  BY <1>1 DEF Wait, ToSet
<1>3. \A i, j \in 1 .. Len(w) : w[i] = w[j] => i = j
  BY WakeOrderType
<1>4. \A t \in TaskSlots : Task(t)' = Task(t)
  BY DEF Wait, Task
<1>5. \A t \in TaskSlots : taskState'[t] = "runnable" => t \in Woken(batch) /\ t # w[1]
  BY NoneRunnable DEF Wait
<1>6. CASE w = <<>>
  <2>1. runnable' = <<>>
    BY <1>6 DEF Wait
  <2>2. Len(w) = 0
    BY <1>6
  <2> QED
    BY <1>2, <1>5, <2>1, <2>2 DEF QueueInv, QueueExact, FreshUnqueued
<1>7. CASE w # <<>>
  <2> DEFINE q == [i \in 1 .. Len(w) |-> Task(w[i])]
  <2>1. q \in Seq(TaskIds) /\ Len(q) = Len(w) /\ Len(w) > 0 /\ q # <<>>
    <3>1. \A i \in 1 .. Len(w) : w[i] \in TaskSlots /\ Task(w[i]) \in TaskIds
      BY <1>1 DEF Task, TaskIds, TypeOK
    <3>2. Len(w) > 0
      BY <1>1, <1>7
    <3>3. q \in Seq(TaskIds) /\ Len(q) = Len(w)
      BY <1>1, <3>1
    <3> QED
      BY <3>2, <3>3
  <2>2. /\ Len(runnable') = Len(w) - 1
        /\ \A k \in 1 .. Len(w) - 1 : runnable'[k] = Task(w[k + 1])
    <3>1. runnable' = Tail(q)
      BY <1>7 DEF Wait
    <3>2. Len(Tail(q)) = Len(w) - 1 /\ \A k \in 1 .. Len(Tail(q)) : Tail(q)[k] = q[k + 1]
      BY <2>1, HeadTailProperties
    <3> QED
      BY <1>1, <3>1, <3>2
  <2>3. \A k \in 1 .. Len(w) - 1 : /\ k + 1 \in 1 .. Len(w)
                                   /\ w[k + 1] \in Woken(batch) /\ w[k + 1] # w[1]
    BY <1>1, <1>2, <1>3, <2>1
  <2>4. \A k \in 1 .. Len(w) - 1 : /\ w[k + 1] \in TaskSlots
                                   /\ taskState'[w[k + 1]] = "runnable"
                                   /\ taskState[w[k + 1]] = "waiting"
    BY <2>3 DEF Wait, Woken
  <2>5. ASSUME NEW t \in TaskSlots, taskState'[t] = "runnable"
        PROVE  \E k \in 1 .. Len(runnable') : runnable'[k] = Task(t)'
    <3>1. PICK i \in 1 .. Len(w) : w[i] = t
      BY <1>2, <1>5, <2>5
    <3>2. i # 1
      BY <1>5, <2>5, <3>1
    <3>3. i - 1 \in 1 .. Len(w) - 1 /\ (i - 1) + 1 = i
      BY <1>1, <3>2
    <3> QED
      BY <1>4, <2>2, <3>1, <3>3
  <2>6. \A k \in 1 .. Len(runnable'), t \in TaskSlots : runnable'[k] = Task(t)' =>
          taskState'[t] \in {"runnable", "pendingFrame", "vacant"}
    BY <1>4, <2>2, <2>4, TaskSlot
  <2>7. ASSUME NEW k \in 1 .. Len(w) - 1, NEW l \in 1 .. Len(w) - 1, runnable'[k] = runnable'[l]
        PROVE  k = l
    <3>1. w[k + 1] = w[l + 1]
      BY <2>2, <2>4, <2>7, TaskSlot
    <3>2. k + 1 = l + 1
      BY <1>3, <2>3, <3>1
    <3> QED
      BY <1>1, <3>2
  <2>8. QueueExact'
    BY <2>2, <2>5, <2>6, <2>7 DEF QueueExact
  <2>9. FreshUnqueued'
    <3>1. UNCHANGED <<taskLen, taskGen, freeTasks>>
      BY DEF Wait
    <3>2. ASSUME NEW k \in 1 .. Len(w) - 1
          PROVE  LET s == runnable'[k].slot IN
                   s < taskLen /\ runnable'[k].gen <= taskGen[s] /\ s \notin freeTasks
      <4> DEFINE s == w[k + 1]
      <4>1. runnable'[k].slot = s /\ runnable'[k].gen = taskGen[s] /\ s \in TaskSlots
        BY <2>2, <2>4, TaskSlot
      <4>2. s \in Occupied
        BY <2>4 DEF Occupied
      <4>3. s \in 0 .. taskLen - 1 /\ s \notin freeTasks
        BY <4>2 DEF TaskSlotsConserved
      <4>4. taskGen[s] \in Int
        BY <4>1 DEF TypeOK, Gens, SchedulerAssumption
      <4>5. s < taskLen
        BY <4>3 DEF TypeOK, SchedulerAssumption
      <4> HIDE DEF s
      <4> QED
        BY <4>1, <4>3, <4>4, <4>5
    <3> QED
      BY <2>2, <3>1, <3>2 DEF FreshUnqueued
  <2> QED
    BY <2>8, <2>9 DEF QueueInv
<1> QED
  BY <1>6, <1>7

(* A running task is not in the queue and may be put at its end.           *)
LEMMA QueueRequeue ==
    ASSUME SchedulerAssumption, TypeOK, TaskSlotsConserved, QueueInv, NEW s \in TaskSlots, Requeue(s)
    PROVE  QueueInv'
<1>1. \A i \in 1 .. Len(runnable) : runnable[i] # Task(s)
  BY DEF Requeue, QueueInv, QueueExact
<1>2. QueueExact'
  BY <1>1, QueueAppend DEF Requeue
<1>3. s \in 0 .. taskLen - 1 /\ s \notin freeTasks
  BY DEF Requeue, TaskSlotsConserved, Occupied
<1>4. FreshUnqueued'
  <2>1. /\ Len(runnable') = Len(runnable) + 1
        /\ \A i \in 1 .. Len(runnable) : runnable'[i] = runnable[i]
        /\ runnable'[Len(runnable) + 1] = Task(s)
        /\ 1 .. Len(runnable') = 1 .. Len(runnable) \cup {Len(runnable) + 1}
    <3>1. runnable \in Seq(TaskIds) /\ Task(s) \in TaskIds /\ Len(runnable) \in Nat
      BY DEF TypeOK, Task, TaskIds
    <3>2. runnable' = Append(runnable, Task(s))
      BY DEF Requeue
    <3>3. Len(runnable') = Len(runnable) + 1
      BY <3>1, <3>2
    <3> QED
      BY <3>1, <3>2, <3>3
  <2>2. s < taskLen /\ taskGen[s] \in Int
    BY <1>3 DEF TypeOK, Gens, SchedulerAssumption
  <2> QED
    BY <1>3, <2>1, <2>2, TaskSlot DEF Requeue, QueueInv, FreshUnqueued
<1> QED
  BY <1>2, <1>4 DEF QueueInv

(* Every step keeps the queue exact.                                       *)
LEMMA QueueStep ==
    SchedulerAssumption /\ SlotInv /\ QueueInv /\ [Next]_schedVars => QueueInv'
<1> SUFFICES ASSUME SchedulerAssumption, SlotInv, QueueInv, [Next]_schedVars PROVE QueueInv'
  OBVIOUS
<1> USE DEF SlotInv
<1>1. ASSUME NEW s \in TaskSlots, Spawn(s) PROVE QueueInv'
  <2>1. /\ taskState[s] = "vacant"
        /\ 0 .. taskLen' - 1 = 0 .. taskLen - 1 \cup {s}
        /\ freeTasks' = freeTasks \ {s}
    BY <1>1, AllocatedVacant DEF Spawn
  <2>2. s \in freeTasks \/ s = taskLen
    BY <1>1 DEF Spawn, AllocateTask
  <2>3. ASSUME NEW i \in 1 .. Len(runnable) PROVE runnable[i] # Task(s)
    <3>1. /\ runnable[i].slot < taskLen
          /\ runnable[i].slot \in freeTasks => runnable[i].gen < taskGen[runnable[i].slot]
      BY DEF QueueInv, FreshUnqueued
    <3>2. taskLen \in Int /\ taskGen[s] \in Int
      BY DEF TypeOK, Gens, SchedulerAssumption
    <3> QED
      BY <2>2, <3>1, <3>2, TaskSlot
  <2>4. /\ runnable' = Append(runnable, Task(s))
        /\ taskState' = [taskState EXCEPT ![s] = "runnable"]
        /\ taskGen' = taskGen
    BY <1>1 DEF Spawn
  <2>5. QueueExact'
    BY <2>3, <2>4, QueueAppend
  <2>6. FreshUnqueued'
    <3>1. s \in 0 .. taskLen' - 1 /\ s \notin freeTasks' /\ taskLen <= taskLen' /\ taskLen' \in Int
      BY <1>1, <2>1 DEF Spawn, AllocateTask, TypeOK, SchedulerAssumption
    <3>2. /\ Len(runnable') = Len(runnable) + 1
          /\ \A i \in 1 .. Len(runnable) : runnable'[i] = runnable[i]
          /\ runnable'[Len(runnable) + 1] = Task(s)
      <4>1. runnable \in Seq(TaskIds) /\ Task(s) \in TaskIds
        BY DEF TypeOK, Task, TaskIds
      <4> QED
        BY <2>4, <4>1
    <3>3. 1 .. Len(runnable') = 1 .. Len(runnable) \cup {Len(runnable) + 1} /\ Len(runnable) \in Nat
      <4>1. Len(runnable) \in Nat
        BY DEF TypeOK
      <4> QED
        BY <3>2, <4>1
    <3>4. ASSUME NEW i \in 1 .. Len(runnable)
          PROVE  LET t == runnable'[i].slot IN
                   /\ t < taskLen'
                   /\ runnable'[i].gen <= taskGen'[t]
                   /\ t \in freeTasks' => runnable'[i].gen < taskGen'[t]
      <4> DEFINE t == runnable[i].slot
      <4>1. t < taskLen /\ runnable[i].gen <= taskGen[t] /\ (t \in freeTasks => runnable[i].gen < taskGen[t])
        BY DEF QueueInv, FreshUnqueued
      <4>2. runnable[i] \in TaskIds
        BY ElementOfSeq DEF TypeOK
      <4>3. t < taskLen'
        BY <3>1, <4>1, <4>2 DEF TaskIds, TaskSlots, TypeOK, SchedulerAssumption
      <4> QED
        BY <2>1, <2>4, <3>2, <4>1, <4>3
    <3>5. LET t == Task(s).slot IN
            /\ t < taskLen'
            /\ Task(s).gen <= taskGen'[t]
            /\ t \in freeTasks' => Task(s).gen < taskGen'[t]
      <4>1. Task(s).slot = s /\ Task(s).gen = taskGen[s] /\ taskGen' = taskGen
        BY <2>4, TaskSlot
      <4>2. taskGen[s] \in Int
        BY DEF TypeOK, Gens, SchedulerAssumption
      <4>3. s < taskLen'
        <5>1. \A n \in Int : \A m \in 0 .. n - 1 : m < n
          OBVIOUS
        <5> QED
          BY <3>1, <5>1
      <4> QED
        BY <3>1, <4>1, <4>2, <4>3
    <3> QED
      BY <3>2, <3>3, <3>4, <3>5 DEF FreshUnqueued
  <2> QED
    BY <2>5, <2>6 DEF QueueInv
<1>2. ASSUME NEW s \in TaskSlots, YieldNow(s) PROVE QueueInv'
  BY <1>2, QueueRequeue DEF YieldNow
<1>3. CASE Idle
  <2>1. \A s \in TaskSlots : taskState'[s] # "runnable"
    BY <1>3, NoneRunnable DEF Idle, taskVars
  <2>2. runnable' = <<>>
    BY <1>3 DEF Idle
  <2> QED
    BY <2>1, <2>2 DEF QueueInv, QueueExact, FreshUnqueued
<1>4. ASSUME NEW s \in TaskSlots, Suspends(s) \/ Complete(s) PROVE QueueInv'
  <2>1. /\ UNCHANGED <<runnable, taskLen, taskGen, freeTasks>>
        /\ taskState[s] = "running"
        /\ \A t \in TaskSlots : t # s => taskState'[t] = taskState[t]
        /\ taskState'[s] \in {"waiting", "completed"}
    BY <1>4 DEF Suspends, Suspend, Complete, TypeOK
  <2>2. \A t \in TaskSlots : Task(t)' = Task(t)
    BY <2>1 DEF Task
  <2>3. \A i \in 1 .. Len(runnable) : runnable[i] # Task(s)
    BY <2>1 DEF QueueInv, QueueExact
  <2>4. QueueExact'
    BY <2>1, <2>2, <2>3 DEF QueueInv, QueueExact
  <2> QED
    BY <2>1, <2>4, FreshFrame DEF QueueInv
<1>5. ASSUME NEW S \in SUBSET TaskSlots, CancelAll(S),
             \A s \in S : taskState[s] \in {"runnable", "waiting", "completed"}
      PROVE  QueueInv'
  <2>1. /\ UNCHANGED <<runnable, taskLen, taskGen, freeTasks>>
        /\ \A t \in TaskSlots : taskState'[t] =
             IF t \notin S THEN taskState[t]
             ELSE IF taskState[t] = "completed" THEN "completedOutput" ELSE "pendingFrame"
    BY <1>5 DEF CancelAll
  <2>2. \A t \in TaskSlots : Task(t)' = Task(t)
    BY <2>1 DEF Task
  <2>3. QueueExact'
    BY <2>1, <2>2, <1>5 DEF QueueInv, QueueExact
  <2> QED
    BY <2>1, <2>3, FreshFrame DEF QueueInv
<1>6. ASSUME NEW s \in TaskSlots, FinishCancellation(s) \/ ConsumeCompleted(s) PROVE QueueInv'
  <2>1. /\ UNCHANGED <<runnable, taskLen>>
        /\ \A t \in TaskSlots : t # s => taskState'[t] = taskState[t] /\ taskGen'[t] = taskGen[t]
        /\ taskState'[s] = "vacant"
    BY <1>6 DEF FinishCancellation, ConsumeCompleted, ReleaseTask, TypeOK
  <2>2. \A i \in 1 .. Len(runnable) : runnable[i] \in TaskIds
    BY ElementOfSeq DEF TypeOK
  <2>3. \A t \in TaskSlots : t # s => Task(t)' = Task(t)
    BY <2>1 DEF Task
  <2>4. QueueExact'
    BY <2>1, <2>3 DEF QueueInv, QueueExact
  <2>5. CASE taskGen[s] < MaxGen
    <3>1. taskGen'[s] = taskGen[s] + 1 /\ freeTasks' = freeTasks \cup {s}
      BY <1>6, <2>5 DEF FinishCancellation, ConsumeCompleted, ReleaseTask, TypeOK
    <3>2. taskGen[s] \in Int
      BY DEF TypeOK, Gens, SchedulerAssumption
    <3>3. ASSUME NEW i \in 1 .. Len(runnable)
          PROVE  LET t == runnable[i].slot IN
                   /\ t < taskLen
                   /\ runnable[i].gen <= taskGen'[t]
                   /\ t \in freeTasks' => runnable[i].gen < taskGen'[t]
      <4>1. /\ runnable[i].slot < taskLen
            /\ runnable[i].gen <= taskGen[runnable[i].slot]
            /\ runnable[i].slot \in freeTasks => runnable[i].gen < taskGen[runnable[i].slot]
        BY DEF QueueInv, FreshUnqueued
      <4>2. runnable[i].slot \in TaskSlots /\ runnable[i].gen \in Int
        BY <2>2 DEF TaskIds, Gens, SchedulerAssumption
      <4> QED
        BY <2>1, <3>1, <3>2, <4>1, <4>2
    <3> QED
      BY <2>1, <2>4, <3>3 DEF QueueInv, FreshUnqueued
  <2>6. CASE ~(taskGen[s] < MaxGen)
    <3>1. UNCHANGED <<taskGen, freeTasks>>
      BY <1>6, <2>6 DEF FinishCancellation, ConsumeCompleted, ReleaseTask
    <3> QED
      BY <2>1, <2>4, <3>1, FreshFrame DEF QueueInv
  <2> QED
    BY <2>5, <2>6
<1>7. ASSUME UNCHANGED <<taskVars, runnable>> PROVE QueueInv'
  BY <1>7 DEF taskVars, QueueInv, QueueExact, FreshUnqueued, Task
<1> QED
  <2>1. CASE NextProgress
    BY <1>3, <2>1, QueueResume, QueueWait DEF NextProgress, WaitForEvents
  <2>2. CASE BeginShutdown
    <3>1. Occupied \in SUBSET TaskSlots
      BY DEF Occupied
    <3>2. \A s \in Occupied : taskState[s] \in {"runnable", "waiting", "completed"}
      BY <2>2 DEF BeginShutdown, Occupied, TypeOK, TaskStates, Cancelling
    <3> QED
      BY <1>5, <2>2, <3>1, <3>2 DEF BeginShutdown
  <2>3. ASSUME NEW s \in TaskSlots, Cancel(s) PROVE QueueInv'
    BY <1>5, <2>3 DEF Cancel
  <2>4. ASSUME NEW s \in TaskSlots, FailsToSuspend(s) PROVE QueueInv'
    BY <1>7, <2>4 DEF FailsToSuspend, SuspendFails
  <2>5. CASE UNCHANGED schedVars
    BY <1>7, <2>5 DEF schedVars
  <2> QED
    BY <1>1, <1>2, <1>4, <1>6, <2>1, <2>2, <2>3, <2>4, <2>5 DEF Next

-----------------------------------------------------------------------------
(* The theorems.                                                           *)

\* The inductive invariant.
Inv == SlotInv /\ QueueInv

(* The invariant holds of a new scheduler.                                 *)
LEMMA InvInit == Init => Inv
<1> SUFFICES ASSUME Init PROVE Inv
  OBVIOUS
<1>1. TypeOK
  BY SchedulerAssumption DEF Init, TypeOK, TaskStates, Gens, SchedulerAssumption
<1>2. Occupied = {} /\ ActiveSlots = {} /\ 0 .. 0 - 1 = {}
  BY DEF Init, Occupied, ActiveSlots
<1>3. TaskSlotsConserved /\ RegSlotsConserved /\ ReactorMirrors
  BY <1>2 DEF Init, TaskSlotsConserved, RegSlotsConserved, ReactorMirrors
<1>4. WaitSetsExact
  BY <1>2 DEF Init, WaitSetsExact
<1>5. QueueInv
  BY DEF Init, QueueInv, QueueExact, FreshUnqueued
<1> QED
  BY <1>1, <1>3, <1>4, <1>5 DEF Inv, SlotInv, RegInv

(* The invariant is inductive.                                             *)
LEMMA InvStep == Inv /\ [Next]_schedVars => Inv'
BY SchedulerAssumption, TypeOKStep, TaskSlotsStep, RegInvStep, QueueStep DEF Inv, SlotInv

(* The invariant holds of every reachable state.                           *)
LEMMA InvCorrect == Spec => []Inv
BY InvInit, InvStep, PTL DEF Spec

(* Wait sets, owners and the reactor's registrations agree in every        *)
(* reachable state: no wakeup is lost and none outlives its task's wait.   *)
THEOREM WaitSetsCorrect == Spec => []NoLostWakeup
<1>1. Inv => NoLostWakeup
  BY DEF Inv, SlotInv, RegInv, NoLostWakeup
<1> QED
  BY <1>1, InvCorrect, PTL

(* No task or registration slot is leaked or handed out twice.             *)
THEOREM SlotsCorrect == Spec => []SlotsConserved
<1>1. Inv => SlotsConserved
  BY DEF Inv, SlotInv, RegInv, SlotsConserved
<1> QED
  BY <1>1, InvCorrect, PTL

(* A task is queued exactly when it is runnable, and once; no entry names  *)
(* an identity still to be issued.                                         *)
THEOREM QueueCorrect == Spec => []QueueConsistent
<1>1. Inv => QueueConsistent
  BY DEF Inv, QueueInv, QueueConsistent
<1> QED
  BY <1>1, InvCorrect, PTL

(* Wait sets and queue say who can make progress.                          *)
LEMMA QuiescenceFollows == Inv => QuiescenceExact
<1>1. ASSUME Inv PROVE QuiescenceExact
  <2> USE <1>1 DEF Inv, SlotInv, RegInv, QueueInv
  <2>1. ASSUME NEW s \in TaskSlots, taskState[s] = "runnable" PROVE ~NoLiveEntry
    BY <2>1, NoneRunnable
  <2>2. ASSUME NEW s \in TaskSlots, taskState[s] = "waiting" PROVE ActiveSlots # {}
    <3>1. {b \in RegSlots : regOwner[b] = {Task(s)}} # {}
      BY <2>2 DEF WaitSetsExact
    <3> QED
      BY <3>1 DEF ActiveSlots
  <2>3. ASSUME NEW i \in 1 .. Len(runnable), Live(runnable[i])
        PROVE  \E s \in TaskSlots : taskState[s] = "runnable"
    <3>1. runnable[i].slot \in TaskSlots
      <4>1. runnable[i] \in TaskIds
        BY ElementOfSeq DEF TypeOK
      <4> QED
        BY <4>1 DEF TaskIds
    <3> QED
      BY <2>3, <3>1 DEF Live, IsTask
  <2>4. ASSUME NEW a \in ActiveSlots PROVE \E s \in TaskSlots : taskState[s] = "waiting"
    <3>1. PICK s \in TaskSlots : regOwner[a] = {Task(s)}
      BY DEF WaitSetsExact
    <3>2. Reg(a) \in {Reg(c) : c \in {b \in RegSlots : regOwner[b] = {Task(s)}}}
      BY <3>1 DEF ActiveSlots
    <3> QED
      BY <3>2 DEF WaitSetsExact
  <2> QED
    BY <2>1, <2>2, <2>3, <2>4 DEF QuiescenceExact, NoLiveEntry
<1> QED
  BY <1>1

(* The executor's loop stops exactly when no task can make progress.       *)
THEOREM QuiescenceCorrect == Spec => []QuiescenceExact
BY QuiescenceFollows, InvCorrect, PTL

\* What IdentitiesAdvance says of a step.
Advances ==
    /\ \A s \in TaskSlots : taskGen'[s] >= taskGen[s]
    /\ \A a \in RegSlots : regGen'[a] >= regGen[a]
    /\ \A s \in freeTasks' \ freeTasks : taskGen'[s] > taskGen[s]
    /\ \A a \in freeRegs' \ freeRegs : regGen'[a] > regGen[a]

(* A set of registration slots that is released advances.                  *)
LEMMA ReleasedAdvance ==
    ASSUME SchedulerAssumption, TypeOK, NEW A \in SUBSET RegSlots, regGen' = NextRegGen(A)
    PROVE  /\ \A a \in RegSlots : regGen'[a] >= regGen[a]
           /\ \A a \in Reusable(A) : regGen'[a] > regGen[a]
<1>1. \A a \in RegSlots : regGen[a] \in Int
  BY DEF TypeOK, Gens, SchedulerAssumption
<1> QED
  BY <1>1 DEF NextRegGen, Reusable

(* Every step advances the generations it changes.                         *)
LEMMA AdvancesStep == TypeOK /\ Next => Advances
<1> DEFINE P == Advances
<1> USE SchedulerAssumption DEF Advances
<1>1. ASSUME TypeOK, Next PROVE P
  <2> USE <1>1
  <2>1. /\ \A s \in TaskSlots : taskGen[s] \in Int
        /\ \A a \in RegSlots : regGen[a] \in Int
    BY DEF TypeOK, Gens, SchedulerAssumption
  <2>2. ASSUME NEW A \in SUBSET RegSlots, regGen' = NextRegGen(A)
        PROVE  /\ \A a \in RegSlots : regGen'[a] >= regGen[a]
               /\ \A a \in Reusable(A) : regGen'[a] > regGen[a]
    BY <2>2, ReleasedAdvance
  <2>3. ASSUME NEW R \in SUBSET RegIds, RemoveRegistrations(R), UNCHANGED <<taskGen, freeTasks>>
        PROVE  P
    <3> DEFINE A == {r.slot : r \in {x \in R : Active(x)}}
    <3>1. A \in SUBSET RegSlots
      BY DEF RegIds
    <3>2. regGen' = NextRegGen(A) /\ freeRegs' = freeRegs \cup Reusable(A)
      BY <2>3 DEF RemoveRegistrations
    <3> HIDE DEF A
    <3> QED
      BY <2>1, <2>2, <2>3, <3>1, <3>2
  <2>4. ASSUME NEW S \in SUBSET TaskSlots PROVE UNION {waitSet[s] : s \in S} \in SUBSET RegIds
    BY DEF TypeOK
  <2>5. ASSUME UNCHANGED <<taskGen, regGen>>, freeTasks' \subseteq freeTasks, freeRegs' \subseteq freeRegs
        PROVE  P
    BY <2>1, <2>5
  <2>6. ASSUME NEW batch, NEW w, Wait(batch, w) PROVE P
    <3>1. Woken(batch) \in SUBSET TaskSlots
      BY DEF Woken
    <3> QED
      BY <2>3, <2>4, <2>6, <3>1 DEF Wait
  <2>7. CASE NextProgress
    <3>1. ASSUME NEW i, Resume(i) PROVE P
      BY <2>5, <3>1 DEF Resume, regVars
    <3>2. CASE Idle
      BY <2>5, <3>2 DEF Idle, regVars, taskVars
    <3> QED
      BY <2>6, <2>7, <3>1, <3>2 DEF NextProgress, WaitForEvents
  <2>8. ASSUME NEW S \in SUBSET TaskSlots, CancelAll(S) PROVE P
    BY <2>3, <2>4, <2>8 DEF CancelAll
  <2>9. ASSUME NEW s \in TaskSlots, Spawn(s) \/ YieldNow(s) \/ Complete(s) \/ Suspends(s) PROVE P
    BY <2>5, <2>9 DEF Spawn, AllocateTask, YieldNow, Requeue, Complete, Suspends, Suspend, regVars
  <2>10. ASSUME NEW s \in TaskSlots, FailsToSuspend(s) PROVE P
    <3>1. PICK A \in SUBSET RegSlots :
            /\ regGen' = NextRegGen(A)
            /\ freeRegs' = (freeRegs \ A) \cup Reusable(A)
            /\ UNCHANGED <<taskGen, freeTasks>>
      BY <2>10 DEF FailsToSuspend, SuspendFails, RollBack, taskVars
    <3> QED
      BY <2>1, <2>2, <3>1
  <2>11. ASSUME NEW s \in TaskSlots, ReleaseTask(s), UNCHANGED regVars PROVE P
    <3>1. CASE taskGen[s] < MaxGen
      <4>1. /\ \A t \in TaskSlots : taskGen'[t] = IF t = s THEN taskGen[s] + 1 ELSE taskGen[t]
            /\ freeTasks' = freeTasks \cup {s}
        BY <2>11, <3>1 DEF ReleaseTask, TypeOK
      <4> QED
        BY <2>1, <2>11, <4>1 DEF regVars
    <3>2. CASE ~(taskGen[s] < MaxGen)
      BY <2>1, <2>11, <3>2 DEF ReleaseTask, regVars
    <3> QED
      BY <3>1, <3>2
  <2>12. CASE BeginShutdown
    BY <2>8, <2>12 DEF BeginShutdown, Occupied
  <2>13. ASSUME NEW s \in TaskSlots, Cancel(s) PROVE P
    BY <2>8, <2>13 DEF Cancel
  <2>14. ASSUME NEW s \in TaskSlots, FinishCancellation(s) \/ ConsumeCompleted(s) PROVE P
    BY <2>11, <2>14 DEF FinishCancellation, ConsumeCompleted
  <2> QED
    BY <2>7, <2>9, <2>10, <2>12, <2>13, <2>14 DEF Next
<1> QED
  BY <1>1

(* Generations only grow, and grow with every release that allows reuse,   *)
(* so no task and no registration identity is issued twice.                *)
THEOREM IdentitiesCorrect == Spec => IdentitiesAdvance
<1>1. TypeOK /\ [Next]_schedVars => [Advances]_schedVars
  BY AdvancesStep
<1> QED
  BY <1>1, TypeCorrect, PTL DEF Spec, IdentitiesAdvance, Advances

-----------------------------------------------------------------------------
(* The scheduler implements TaskLifecycle.                                 *)

(* No identity of a new scheduler has been issued.                         *)
LEMMA LifecycleInit == Init => Lifecycle!Init
<1> SUFFICES ASSUME Init, NEW id \in TaskIds PROVE Fate(id) = "fresh"
  BY DEF Lifecycle!Init
<1>1. id.slot \in TaskSlots /\ id.slot \in Nat /\ id.gen \in Nat
  BY SchedulerAssumption DEF TaskIds, TaskSlots, Gens, SchedulerAssumption
<1>2. taskGen[id.slot] = 0 /\ taskState[id.slot] = "vacant" /\ taskLen = 0
  BY <1>1 DEF Init
<1>3. FateOfState(id.slot) = "fresh"
  <2>1. ~(id.slot < taskLen)
    BY <1>1, <1>2
  <2> QED
    BY <1>2, <2>1 DEF FateOfState, Cancelling
<1> QED
  BY <1>1, <1>2, <1>3 DEF Fate

(* Only the fates of the identities a step names change.                   *)
LEMMA FateFrame ==
    ASSUME NEW id \in TaskIds,
           taskGen'[id.slot] = taskGen[id.slot], taskState'[id.slot] = taskState[id.slot],
           taskState[id.slot] = "vacant" =>
             /\ id.slot \in freeTasks' <=> id.slot \in freeTasks
             /\ id.slot < taskLen' <=> id.slot < taskLen
    PROVE  Fate(id)' = Fate(id)
BY DEF Fate, FateOfState

(* A step that changes the fate of one identity is a Move.                 *)
LEMMA LifecycleMove ==
    ASSUME NEW x \in TaskIds, NEW from, NEW to, Fate(x) = from, Fate(x)' = to,
           \A id \in TaskIds : id # x => Fate(id)' = Fate(id)
    PROVE  Lifecycle!Move(x, from, to)
BY DEF Lifecycle!Move

\* The states that the abstract lifecycle does not tell apart.
PendingStates == {"runnable", "running", "waiting"}

(* Runnable, running and waiting tasks are pending.                        *)
LEMMA PendingFate ==
    ASSUME NEW s \in TaskSlots, taskState[s] \in PendingStates
    PROVE  FateOfState(s) = "pending"
BY DEF FateOfState, PendingStates, Cancelling

\* No fate changes.
FatesStay == \A id \in TaskIds : Fate(id)' = Fate(id)

(* A step that moves tasks between pending states only is a stutter.       *)
LEMMA LifecycleStutter ==
    ASSUME UNCHANGED <<taskGen, taskLen, freeTasks>>,
           \A s \in TaskSlots : \/ taskState'[s] = taskState[s]
                                \/ taskState[s] \in PendingStates /\ taskState'[s] \in PendingStates
    PROVE  FatesStay
<1> SUFFICES ASSUME NEW id \in TaskIds PROVE Fate(id)' = Fate(id)
  BY DEF FatesStay
<1>1. id.slot \in TaskSlots
  BY DEF TaskIds
<1>2. CASE taskState'[id.slot] = taskState[id.slot]
  BY <1>2, FateFrame
<1>3. CASE taskState[id.slot] \in PendingStates /\ taskState'[id.slot] \in PendingStates
  <2>1. FateOfState(id.slot) = "pending"
    BY <1>1, <1>3, PendingFate
  <2>2. FateOfState(id.slot)' = "pending"
    BY <1>3 DEF FateOfState, PendingStates, Cancelling
  <2> QED
    BY <2>1, <2>2 DEF Fate
<1> QED
  BY <1>1, <1>2, <1>3

(* A spawn issues one identity.                                            *)
LEMMA LifecycleSpawn ==
    ASSUME SchedulerAssumption, SlotInv, NEW s \in TaskSlots, Spawn(s)
    PROVE  Lifecycle!Next
<1>0. PICK x \in TaskIds : x = Task(s)
  BY DEF Task, TaskIds, SlotInv, TypeOK
<1>1. x.slot = s /\ x.gen = taskGen[s] /\ taskGen[s] \in Int
  BY <1>0 DEF Task, SlotInv, TypeOK, Gens, SchedulerAssumption
<1>2. /\ taskState[s] = "vacant"
      /\ 0 .. taskLen' - 1 = 0 .. taskLen - 1 \cup {s}
      /\ freeTasks' = freeTasks \ {s}
  BY AllocatedVacant DEF Spawn, SlotInv
<1>3. /\ taskGen' = taskGen
      /\ \A t \in TaskSlots : taskState'[t] = IF t = s THEN "runnable" ELSE taskState[t]
  BY DEF Spawn, SlotInv, TypeOK
<1>4. s \in freeTasks \/ s = taskLen
  BY DEF Spawn, AllocateTask
<1>5. Fate(x) = "fresh"
  <2>1. ~(s < taskLen /\ s \notin freeTasks)
    BY <1>4 DEF SlotInv, TypeOK, SchedulerAssumption
  <2>2. FateOfState(s) = "fresh"
    BY <1>2, <2>1 DEF FateOfState, Cancelling
  <2> QED
    BY <1>1, <2>2 DEF Fate
<1>6. Fate(x)' = "pending"
  <2>1. FateOfState(s)' = "pending"
    BY <1>3 DEF FateOfState, Cancelling
  <2> QED
    BY <1>1, <1>3, <2>1 DEF Fate
<1>7. ASSUME NEW id \in TaskIds, id # x PROVE Fate(id)' = Fate(id)
  <2>1. id.slot \in TaskSlots /\ id.gen \in Int
    BY SchedulerAssumption DEF TaskIds, Gens, SchedulerAssumption
  <2>2. CASE id.slot = s
    <3>1. id.gen # taskGen[s]
      BY <1>1, <1>7, <2>2 DEF TaskIds
    <3> QED
      BY <1>1, <1>3, <2>1, <2>2, <3>1 DEF Fate
  <2>3. CASE id.slot # s
    <3>1. id.slot \in Int /\ 0 <= id.slot /\ taskLen \in Int /\ taskLen' \in Int
      BY <2>1 DEF TaskSlots, SlotInv, TypeOK, Spawn, AllocateTask, SchedulerAssumption
    <3>2. id.slot < taskLen' <=> id.slot < taskLen
      <4>1. \A n \in Int : \A m \in Int : m \in 0 .. n - 1 <=> 0 <= m /\ m < n
        OBVIOUS
      <4>2. id.slot \in 0 .. taskLen' - 1 <=> id.slot \in 0 .. taskLen - 1
        BY <1>2, <2>3
      <4> QED
        BY <3>1, <4>1, <4>2
    <3> QED
      BY <1>2, <1>3, <2>1, <2>3, <3>2, FateFrame
  <2> QED
    BY <2>2, <2>3
<1>8. Lifecycle!Move(x, "fresh", "pending")
  BY <1>1, <1>5, <1>6, <1>7, LifecycleMove
<1> QED
  BY <1>1, <1>8 DEF Lifecycle!Next, Lifecycle!Spawn

(* A completion changes one fate.                                          *)
LEMMA LifecycleComplete ==
    ASSUME SchedulerAssumption, SlotInv, NEW s \in TaskSlots, Complete(s)
    PROVE  Lifecycle!Next
<1>0. PICK x \in TaskIds : x = Task(s)
  BY DEF Task, TaskIds, SlotInv, TypeOK
<1>1. x.slot = s /\ x.gen = taskGen[s] /\ taskGen[s] \in Int
  BY <1>0 DEF Task, SlotInv, TypeOK, Gens, SchedulerAssumption
<1>2. /\ taskState[s] = "running" /\ UNCHANGED <<taskGen, taskLen, freeTasks>>
      /\ \A t \in TaskSlots : taskState'[t] = IF t = s THEN "completed" ELSE taskState[t]
  BY DEF Complete, SlotInv, TypeOK
<1>3. Fate(x) = "pending"
  BY <1>1, <1>2, PendingFate DEF Fate, PendingStates
<1>4. Fate(x)' = "completed"
  <2>1. FateOfState(s)' = "completed"
    BY <1>2 DEF FateOfState, Cancelling
  <2> QED
    BY <1>1, <1>2, <2>1 DEF Fate
<1>5. ASSUME NEW id \in TaskIds, id # x PROVE Fate(id)' = Fate(id)
  <2>1. id.slot \in TaskSlots /\ id.gen \in Int
    BY SchedulerAssumption DEF TaskIds, Gens, SchedulerAssumption
  <2>2. CASE id.slot = s
    <3>1. id.gen # taskGen[s]
      BY <1>1, <1>5, <2>2 DEF TaskIds
    <3> QED
      BY <1>1, <1>2, <2>1, <2>2, <3>1 DEF Fate
  <2>3. CASE id.slot # s
    BY <1>2, <2>1, <2>3, FateFrame
  <2> QED
    BY <2>2, <2>3
<1>6. Lifecycle!Move(x, "pending", "completed")
  BY <1>3, <1>4, <1>5, LifecycleMove
<1> QED
  BY <1>6 DEF Lifecycle!Next, Lifecycle!Complete

(* A cancellation of tasks, one or all, cancels their identities.          *)
LEMMA LifecycleCancel ==
    ASSUME SchedulerAssumption, SlotInv, NEW S \in SUBSET TaskSlots, CancelAll(S),
           \A s \in S : taskState[s] \in {"runnable", "waiting", "completed"}
    PROVE  Lifecycle!Next
<1>0. PICK X \in SUBSET TaskIds : X = {Task(s) : s \in S}
  <2>1. \A s \in S : Task(s) \in TaskIds
    BY DEF Task, TaskIds, SlotInv, TypeOK
  <2>2. {Task(s) : s \in S} \in SUBSET TaskIds
    BY <2>1
  <2> QED
    BY <2>2
<1>1. /\ UNCHANGED <<taskGen, taskLen, freeTasks>>
      /\ \A t \in TaskSlots : taskState'[t] =
           IF t \notin S THEN taskState[t]
           ELSE IF taskState[t] = "completed" THEN "completedOutput" ELSE "pendingFrame"
  BY DEF CancelAll
<1>2. ASSUME NEW x \in X PROVE Fate(x) \in {"pending", "completed"} /\ Fate(x)' = "cleaning"
  <2>1. PICK s \in S : x = Task(s)
    BY <1>0
  <2>2. x.slot = s /\ x.gen = taskGen[s] /\ taskGen[s] \in Int
    BY <2>1 DEF Task, SlotInv, TypeOK, Gens, SchedulerAssumption
  <2>3. FateOfState(s) \in {"pending", "completed"}
    <3>1. CASE taskState[s] = "completed"
      BY <3>1 DEF FateOfState, Cancelling
    <3>2. CASE taskState[s] \in PendingStates
      BY <3>2, PendingFate
    <3> QED
      BY <3>1, <3>2 DEF PendingStates
  <2>4. FateOfState(s)' = "cleaning"
    <3>1. taskState'[s] \in Cancelling
      BY <1>1 DEF Cancelling
    <3> QED
      BY <3>1 DEF FateOfState, Cancelling
  <2> QED
    BY <1>1, <2>2, <2>3, <2>4 DEF Fate
<1>3. ASSUME NEW id \in TaskIds, id \notin X PROVE Fate(id)' = Fate(id)
  <2>1. id.slot \in TaskSlots /\ id.gen \in Int /\ taskGen[id.slot] \in Int
    BY DEF TaskIds, Gens, SlotInv, TypeOK, SchedulerAssumption
  <2>2. CASE id.gen = taskGen[id.slot]
    <3>1. id = Task(id.slot)
      BY <2>2 DEF Task, TaskIds
    <3>2. id.slot \notin S
      BY <1>0, <1>3, <3>1
    <3> QED
      BY <1>1, <2>1, <3>2, FateFrame
  <2>3. CASE id.gen # taskGen[id.slot]
    BY <1>1, <2>1, <2>3 DEF Fate
  <2> QED
    BY <2>2, <2>3
<1>4. Lifecycle!Cancel(X)
  BY <1>2, <1>3 DEF Lifecycle!Cancel
<1> QED
  BY <1>4 DEF Lifecycle!Next

(* The release of a task slot retires its identity, and makes the next     *)
(* one fresh or none.                                                      *)
LEMMA LifecycleRelease ==
    ASSUME SchedulerAssumption, SlotInv, NEW s \in TaskSlots, ReleaseTask(s),
           taskState[s] \in Cancelling \cup {"completed"}
    PROVE  Lifecycle!Next
<1>0. PICK x \in TaskIds : x = Task(s)
  BY DEF Task, TaskIds, SlotInv, TypeOK
<1>1. x.slot = s /\ x.gen = taskGen[s] /\ taskGen[s] \in Int /\ taskGen[s] <= MaxGen /\ MaxGen \in Int
  BY <1>0 DEF Task, SlotInv, TypeOK, Gens, SchedulerAssumption
<1>2. /\ taskLen' = taskLen
      /\ \A t \in TaskSlots : taskState'[t] = IF t = s THEN "vacant" ELSE taskState[t]
      /\ \A t \in TaskSlots : t # s =>
           taskGen'[t] = taskGen[t] /\ (t \in freeTasks' <=> t \in freeTasks)
      /\ \/ taskGen'[s] = taskGen[s] + 1 /\ s \in freeTasks'
         \/ taskGen[s] = MaxGen /\ taskGen'[s] = taskGen[s] /\ freeTasks' = freeTasks
  <2>1. CASE taskGen[s] < MaxGen
    BY <2>1 DEF ReleaseTask, SlotInv, TypeOK
  <2>2. CASE ~(taskGen[s] < MaxGen)
    <3>1. taskGen[s] = MaxGen
      BY <1>1, <2>2
    <3> QED
      BY <2>2, <3>1 DEF ReleaseTask, SlotInv, TypeOK
  <2> QED
    BY <2>1, <2>2
<1>3. s < taskLen /\ s \notin freeTasks
  <2>1. s \in 0 .. taskLen - 1 /\ s \notin freeTasks
    BY DEF SlotInv, TaskSlotsConserved, Occupied, Cancelling
  <2> QED
    BY <2>1 DEF SlotInv, TypeOK, SchedulerAssumption
<1>4. Fate(x) \in {"completed", "cleaning"}
  <2>1. FateOfState(s) \in {"completed", "cleaning"}
    BY DEF FateOfState, Cancelling
  <2> QED
    BY <1>1, <2>1 DEF Fate
<1>5. Fate(x)' = "retired"
  <2>1. CASE taskGen'[s] = taskGen[s] + 1
    BY <1>1, <2>1 DEF Fate
  <2>2. CASE taskGen'[s] = taskGen[s] /\ freeTasks' = freeTasks
    <3>1. FateOfState(s)' = "retired"
      BY <1>2, <1>3, <2>2 DEF FateOfState, Cancelling
    <3> QED
      BY <1>1, <2>2, <3>1 DEF Fate
  <2> QED
    BY <1>2, <2>1, <2>2
<1>6. ASSUME NEW id \in TaskIds, id # x PROVE Fate(id)' = Fate(id)
  <2>1. id.slot \in TaskSlots /\ id.gen \in Int /\ id.gen <= MaxGen
    BY DEF TaskIds, Gens, SchedulerAssumption
  <2>2. CASE id.slot # s
    BY <1>2, <2>1, <2>2, FateFrame
  <2>3. CASE id.slot = s
    <3>1. id.gen # taskGen[s]
      BY <1>1, <1>6, <2>3 DEF TaskIds
    <3>2. CASE id.gen < taskGen[s]
      BY <1>1, <1>2, <2>1, <2>3, <3>2 DEF Fate
    <3>3. CASE id.gen > taskGen[s]
      <4>1. taskGen'[s] = taskGen[s] + 1 /\ s \in freeTasks'
        BY <1>1, <1>2, <2>1, <3>3
      <4>2. FateOfState(s)' = "fresh"
        BY <1>2, <4>1 DEF FateOfState, Cancelling
      <4> QED
        BY <1>1, <2>1, <2>3, <3>3, <4>1, <4>2 DEF Fate
    <3> QED
      BY <1>1, <2>1, <3>1, <3>2, <3>3
  <2> QED
    BY <2>2, <2>3
<1>7. Lifecycle!Move(x, "completed", "retired") \/ Lifecycle!Move(x, "cleaning", "retired")
  BY <1>4, <1>5, <1>6, LifecycleMove
<1> QED
  BY <1>7 DEF Lifecycle!Next, Lifecycle!Consume, Lifecycle!Clean

(* Every step moves the fates it changes as the lifecycle allows.          *)
LEMMA LifecycleStep == Inv /\ [Next]_schedVars => [Lifecycle!Next]_([id \in TaskIds |-> Fate(id)])
<1>1. ASSUME SlotInv, [Next]_schedVars PROVE Lifecycle!Next \/ FatesStay
  <2> USE <1>1, SchedulerAssumption
  <2>1. ASSUME UNCHANGED <<taskGen, taskLen, freeTasks>>, UNCHANGED taskState PROVE FatesStay
    BY <2>1, LifecycleStutter
  <2>2. ASSUME NEW i \in 1 .. Len(runnable), Resume(i) PROVE FatesStay
    <3>1. runnable[i].slot \in TaskSlots
      <4>1. runnable[i] \in TaskIds
        BY ElementOfSeq DEF SlotInv, TypeOK
      <4> QED
        BY <4>1 DEF TaskIds
    <3> QED
      BY <2>2, <3>1, LifecycleStutter DEF Resume, Live, IsTask, SlotInv, TypeOK, PendingStates
  <2>3. ASSUME NEW batch, NEW w, Wait(batch, w) PROVE FatesStay
    <3>1. /\ UNCHANGED <<taskGen, taskLen, freeTasks>>
          /\ \A s \in TaskSlots : \/ taskState'[s] = taskState[s]
                                  \/ taskState[s] \in PendingStates /\ taskState'[s] \in PendingStates
      BY <2>3 DEF Wait, Woken, PendingStates
    <3> QED
      BY <3>1, LifecycleStutter
  <2>4. ASSUME NEW s \in TaskSlots, YieldNow(s) \/ Suspends(s) PROVE FatesStay
    <3>1. /\ UNCHANGED <<taskGen, taskLen, freeTasks>>
          /\ \A t \in TaskSlots : \/ taskState'[t] = taskState[t]
                                  \/ taskState[t] \in PendingStates /\ taskState'[t] \in PendingStates
      BY <2>4 DEF YieldNow, Requeue, Suspends, Suspend, PendingStates, SlotInv, TypeOK
    <3> QED
      BY <3>1, LifecycleStutter
  <2>5. CASE NextProgress
    BY <2>1, <2>2, <2>3, <2>5 DEF NextProgress, WaitForEvents, Idle, taskVars
  <2>6. CASE BeginShutdown
    <3>1. Occupied \in SUBSET TaskSlots
      BY DEF Occupied
    <3>2. \A s \in Occupied : taskState[s] \in {"runnable", "waiting", "completed"}
      BY <2>6 DEF BeginShutdown, Occupied, SlotInv, TypeOK, TaskStates, Cancelling
    <3> QED
      BY <2>6, <3>1, <3>2, LifecycleCancel DEF BeginShutdown
  <2>7. ASSUME NEW s \in TaskSlots, Cancel(s) PROVE Lifecycle!Next
    <3>1. {s} \in SUBSET TaskSlots /\ \A t \in {s} : taskState[t] \in {"runnable", "waiting", "completed"}
      BY <2>7 DEF Cancel
    <3>2. CancelAll({s})
      BY <2>7 DEF Cancel
    <3> QED
      BY <3>1, <3>2, LifecycleCancel
  <2>8. ASSUME NEW s \in TaskSlots, FinishCancellation(s) \/ ConsumeCompleted(s) PROVE Lifecycle!Next
    BY <2>8, LifecycleRelease DEF FinishCancellation, ConsumeCompleted
  <2>9. ASSUME NEW s \in TaskSlots, FailsToSuspend(s) PROVE FatesStay
    BY <2>1, <2>9 DEF FailsToSuspend, SuspendFails, taskVars
  <2>10. CASE UNCHANGED schedVars
    BY <2>1, <2>10 DEF schedVars, taskVars
  <2> QED
    BY <2>4, <2>5, <2>6, <2>7, <2>8, <2>9, <2>10, LifecycleSpawn, LifecycleComplete DEF Next
<1>2. Inv => SlotInv
  BY DEF Inv
<1>3. FatesStay => UNCHANGED [id \in TaskIds |-> Fate(id)]
  BY DEF FatesStay
<1>4. Inv /\ [Next]_schedVars => [Lifecycle!Next]_([id \in TaskIds |-> Fate(id)])
  BY <1>1, <1>2, <1>3
<1> QED
  BY <1>4

(* The scheduler implements the abstract lifecycle: every identity is      *)
(* issued, completed or cancelled, and given up once.                      *)
THEOREM SchedulerImplementsLifecycle == Spec => LifecycleSpec
BY LifecycleStep, LifecycleInit, InvCorrect, PTL DEF Spec, LifecycleSpec, Lifecycle!Spec

-----------------------------------------------------------------------------
(* The executor drives the scheduler.                                      *)

(* A suspend that fails and the requeueing that follows it preserve the    *)
(* invariant together, advance the generations and change no fate.         *)
LEMMA RejectedStep ==
    ASSUME SchedulerAssumption, Inv, NEW s \in TaskSlots, NEW A \in SUBSET RegSlots,
           NEW hi \in regLen .. RegSlotCount, RollBack(A, hi), Requeue(s)
    PROVE  Inv' /\ Advances /\ FatesStay
<1> USE DEF Inv, SlotInv
<1>1. /\ UNCHANGED <<taskLen, taskGen, waitSet, freeTasks>>
      /\ taskState[s] = "running"
      /\ \A t \in TaskSlots : taskState'[t] = IF t = s THEN "runnable" ELSE taskState[t]
  BY DEF Requeue, TypeOK
<1>2. TypeOK'
  <2>1. runnable' \in Seq(TaskIds) /\ taskState' \in [TaskSlots -> TaskStates]
    BY DEF Requeue, Task, TaskIds, TaskStates, TypeOK
  <2>2. regGen' \in [RegSlots -> Gens]
    BY DEF RollBack, NextRegGen, TypeOK, Gens, SchedulerAssumption
  <2>3. regLen' \in 0 .. RegSlotCount
    BY DEF RollBack, TypeOK, SchedulerAssumption
  <2>4. freeRegs' \in SUBSET RegSlots
    BY DEF RollBack, Reusable, TypeOK
  <2> QED
    BY <1>1, <2>1, <2>2, <2>3, <2>4 DEF RollBack, TypeOK
<1>3. TaskSlotsConserved'
  <2>1. Occupied' = Occupied
    BY <1>1 DEF Occupied
  <2> QED
    BY <1>1, <2>1 DEF TaskSlotsConserved
<1>4. RegInv'
  BY <1>1, RegRollBack
<1>5. QueueInv'
  BY QueueRequeue
<1>6. Advances
  <2>1. \A a \in RegSlots : regGen[a] \in Int
    BY DEF TypeOK, Gens, SchedulerAssumption
  <2>2. \A t \in TaskSlots : taskGen[t] \in Int
    BY DEF TypeOK, Gens, SchedulerAssumption
  <2>3. /\ \A a \in RegSlots : regGen'[a] >= regGen[a]
        /\ \A a \in Reusable(A) : regGen'[a] > regGen[a]
    BY ReleasedAdvance DEF RollBack
  <2> QED
    BY <1>1, <2>2, <2>3 DEF Advances, RollBack
<1>7. FatesStay
  BY <1>1, LifecycleStutter DEF PendingStates
<1> QED
  BY <1>2, <1>3, <1>4, <1>5, <1>6, <1>7

(* A step of the executor is one of the scheduler, or a poll whose wait    *)
(* set is refused.                                                         *)
LEMMA ExecutorSteps ==
    [ExecNext]_execVars => [Next]_schedVars \/ \E s \in TaskSlots : PollRejected(s)
<1> SUFFICES ASSUME [ExecNext]_execVars
             PROVE  [Next]_schedVars \/ \E s \in TaskSlots : PollRejected(s)
  OBVIOUS
<1>1. CASE UNCHANGED execVars
  BY <1>1 DEF execVars
<1>2. CASE StepBegins \/ ExecShutdown
  BY <1>2 DEF StepBegins, ExecShutdown, Next
<1>3. ASSUME NEW s \in TaskSlots, ExecSpawn(s) \/ PollPending(s) \/ PollCompletes(s)
      PROVE  Next
  BY <1>3 DEF ExecSpawn, PollPending, PollCompletes, Next
<1>4. ASSUME NEW s \in TaskSlots, ExecCancel(s) \/ CleanUp(s) \/ ExecConsume(s)
      PROVE  Next
  BY <1>4 DEF ExecCancel, CleanUp, ExecConsume, Next
<1> QED
  BY <1>1, <1>2, <1>3, <1>4 DEF ExecNext

(* What every step of the executor does to the scheduler.                  *)
LEMMA ExecutorStep ==
    Inv /\ [ExecNext]_execVars =>
        /\ Inv'
        /\ [Advances]_schedVars
        /\ [Lifecycle!Next]_([id \in TaskIds |-> Fate(id)])
<1>1. ASSUME Inv, NEW s \in TaskSlots, PollRejected(s)
      PROVE  /\ Inv' /\ Advances
             /\ UNCHANGED [id \in TaskIds |-> Fate(id)]
  <2>1. Inv' /\ Advances /\ FatesStay
    BY <1>1, SchedulerAssumption, RejectedStep DEF PollRejected
  <2> QED
    BY <2>1 DEF FatesStay
<1>2. ASSUME Inv, [Next]_schedVars PROVE Inv' /\ [Advances]_schedVars
  <2>1. TypeOK
    BY <1>2 DEF Inv, SlotInv
  <2> QED
    BY <1>2, <2>1, InvStep, AdvancesStep
<1> QED
  BY <1>1, <1>2, ExecutorSteps, LifecycleStep

(* The invariant holds in every state of the executor.                     *)
LEMMA ExecutorInv == ExecSpec => []Inv
<1>1. ExecInit => Inv
  BY InvInit DEF ExecInit
<1> QED
  BY <1>1, ExecutorStep, PTL DEF ExecSpec

(* What is proved of the scheduler alone holds of the scheduler that an    *)
(* executor drives: types, wait sets, slots, queue and quiescence.         *)
THEOREM ExecutorSafe ==
    ExecSpec => [](TypeOK /\ NoLostWakeup /\ SlotsConserved /\ QueueConsistent /\ QuiescenceExact)
<1>1. Inv => TypeOK /\ NoLostWakeup /\ SlotsConserved
  BY DEF Inv, SlotInv, RegInv, NoLostWakeup, SlotsConserved
<1>2. Inv => QueueConsistent
  BY DEF Inv, QueueInv, QueueConsistent
<1> QED
  BY <1>1, <1>2, QuiescenceFollows, ExecutorInv, PTL

(* Under an executor too no identity is issued twice.                      *)
THEOREM ExecutorAdvances == ExecSpec => IdentitiesAdvance
BY ExecutorStep, ExecutorInv, PTL DEF ExecSpec, IdentitiesAdvance, Advances

(* The executor implements the lifecycle of identities.                    *)
THEOREM ExecutorImplementsLifecycle == ExecSpec => LifecycleSpec
<1>1. ExecInit => Lifecycle!Init
  BY LifecycleInit DEF ExecInit
<1> QED
  BY <1>1, ExecutorStep, ExecutorInv, PTL DEF ExecSpec, LifecycleSpec, Lifecycle!Spec

-----------------------------------------------------------------------------
(* Payloads.                                                               *)

(* Which tasks run or are cancelled, told by the executor's own variables. *)
LEMMA PayloadsTell ==
    ASSUME PayloadsExact
    PROVE  /\ polling = {} => \A t \in TaskSlots : taskState[t] # "running"
           /\ cleaning = {} => \A t \in TaskSlots : taskState[t] \notin Cancelling
           /\ \A t \in TaskSlots : Task(t) \in polling => taskState[t] = "running"
           /\ \A s, t \in TaskSlots : polling = {Task(s)} /\ taskState[t] = "running" => t = s
           /\ \A t \in TaskSlots : Task(t) \in cleaning <=> taskState[t] \in Cancelling
           /\ polling = {} \/ cleaning = {}
<1>1. \A s, t \in TaskSlots : Task(s) = Task(t) => s = t
  BY TaskSlot
<1> QED
  BY <1>1 DEF PayloadsExact

(* A step that keeps the occupied slots under their identities keeps the   *)
(* payloads.                                                               *)
LEMMA PayloadsStay ==
    ASSUME PayloadsExact, UNCHANGED <<payloads, taskGen>>, Occupied' = Occupied
    PROVE  payloads' = {Task(s)' : s \in Occupied'}
<1>1. \A t \in TaskSlots : Task(t)' = Task(t)
  BY DEF Task
<1> QED
  BY <1>1 DEF PayloadsExact, Occupied

(* A release ends one identity and its payload with it.                    *)
LEMMA PayloadsRelease ==
    ASSUME TypeOK, PayloadsExact, NEW s \in Occupied, ReleaseTask(s), payloads' = payloads \ {Task(s)}
    PROVE  /\ payloads' = {Task(t)' : t \in Occupied'}
           /\ \A t \in TaskSlots : t # s => taskState'[t] = taskState[t] /\ Task(t)' = Task(t)
           /\ taskState'[s] = "vacant"
<1>1. s \in TaskSlots
  BY DEF Occupied
<1>2. /\ \A t \in TaskSlots : t # s => taskState'[t] = taskState[t] /\ taskGen'[t] = taskGen[t]
      /\ taskState'[s] = "vacant"
  BY <1>1 DEF ReleaseTask, TypeOK
<1>3. \A t \in TaskSlots : t # s => Task(t)' = Task(t)
  BY <1>2 DEF Task
<1>4. Occupied' = Occupied \ {s}
  BY <1>1, <1>2 DEF Occupied
<1>5. payloads = {Task(t) : t \in Occupied} /\ Occupied \subseteq TaskSlots
  BY DEF PayloadsExact, Occupied
<1>6. \A t \in TaskSlots : Task(t) = Task(s) => t = s
  BY <1>1, TaskSlot
<1> QED
  BY <1>2, <1>3, <1>4, <1>5, <1>6

(* Every step keeps payloads and identities together.                      *)
LEMMA PayloadsStep == Inv /\ PayloadsExact /\ [ExecNext]_execVars => PayloadsExact'
<1> SUFFICES ASSUME Inv, PayloadsExact, [ExecNext]_execVars PROVE PayloadsExact'
  OBVIOUS
<1>1. TypeOK /\ TaskSlotsConserved
  BY DEF Inv, SlotInv
<1>2. CASE UNCHANGED execVars
  <2>1. \A t \in TaskSlots : Task(t)' = Task(t)
    BY <1>2 DEF execVars, schedVars, taskVars, Task
  <2>2. /\ UNCHANGED <<taskState, polling, cleaning>>
        /\ payloads' = {Task(s)' : s \in Occupied'}
    BY <1>2, PayloadsStay DEF execVars, schedVars, taskVars, Occupied
  <2> QED
    BY <2>1, <2>2 DEF PayloadsExact
<1>3. CASE StepBegins
  <2>1. /\ \A t \in TaskSlots : taskState[t] \notin {"running"} \cup Cancelling
        /\ cleaning' = {} /\ payloads' = payloads
        /\ polling' = {Task(s) : s \in {t \in TaskSlots : taskState'[t] = "running"}}
        /\ NextProgress
    BY <1>3, PayloadsTell DEF StepBegins, Between
  <2>2. /\ taskGen' = taskGen
        /\ \A t \in TaskSlots : \/ taskState'[t] = taskState[t]
                                \/ /\ taskState[t] # "vacant"
                                   /\ taskState'[t] \in {"running", "runnable"}
    <3>1. ASSUME NEW i \in 1 .. Len(runnable), Resume(i)
          PROVE  \A t \in TaskSlots : \/ taskState'[t] = taskState[t]
                                      \/ taskState[t] # "vacant" /\ taskState'[t] = "running"
      BY <1>1, <3>1 DEF Resume, Live, IsTask, TypeOK
    <3>2. ASSUME NEW batch, NEW w, Wait(batch, w)
          PROVE  \A t \in TaskSlots : \/ taskState'[t] = taskState[t]
                                      \/ /\ taskState[t] # "vacant"
                                         /\ taskState'[t] \in {"running", "runnable"}
      BY <3>2 DEF Wait, Woken
    <3>3. taskGen' = taskGen
      BY <2>1 DEF NextProgress, Resume, Idle, WaitForEvents, Wait, taskVars
    <3> QED
      BY <2>1, <3>1, <3>2, <3>3 DEF NextProgress, Idle, WaitForEvents, taskVars
  <2>3. Occupied' = Occupied /\ \A t \in TaskSlots : taskState'[t] \notin Cancelling
    BY <2>1, <2>2 DEF Occupied, Cancelling
  <2>4. \A t \in TaskSlots : Task(t)' = Task(t)
    BY <2>2 DEF Task
  <2>5. payloads' = {Task(s)' : s \in Occupied'}
    BY <2>1, <2>2, <2>3, PayloadsStay
  <2>6. polling' = {Task(s)' : s \in {t \in TaskSlots : taskState'[t] = "running"}}
    BY <2>1, <2>4
  <2> QED
    BY <2>1, <2>3, <2>5, <2>6 DEF PayloadsExact
<1>4. ASSUME NEW s \in TaskSlots, ExecSpawn(s) PROVE PayloadsExact'
  <2>1. /\ \A t \in TaskSlots : taskState[t] \notin {"running"} \cup Cancelling
        /\ polling' = {} /\ cleaning' = {} /\ payloads' = payloads \cup {Task(s)}
    BY <1>4, PayloadsTell DEF ExecSpawn, Between
  <2>2. taskState[s] = "vacant"
    BY <1>1, <1>4, SchedulerAssumption, AllocatedVacant DEF ExecSpawn, Spawn
  <2>3. /\ taskGen' = taskGen
        /\ \A t \in TaskSlots : taskState'[t] = IF t = s THEN "runnable" ELSE taskState[t]
    BY <1>1, <1>4 DEF ExecSpawn, Spawn, TypeOK
  <2>4. Occupied' = Occupied \cup {s}
    BY <2>3 DEF Occupied
  <2>5. \A t \in TaskSlots : Task(t)' = Task(t)
    BY <2>3 DEF Task
  <2>6. payloads = {Task(t) : t \in Occupied} /\ Occupied \subseteq TaskSlots
    BY DEF PayloadsExact, Occupied
  <2>7. payloads' = {Task(t)' : t \in Occupied'}
    BY <2>1, <2>4, <2>5, <2>6
  <2>8. \A t \in TaskSlots : taskState'[t] \notin {"running"} \cup Cancelling
    BY <2>1, <2>3 DEF Cancelling
  <2> QED
    BY <2>1, <2>7, <2>8 DEF PayloadsExact
<1>5. ASSUME NEW s \in TaskSlots, Polled(s), taskGen' = taskGen, taskState[s] = "running",
             taskState'[s] \in {"waiting", "completed", "runnable"},
             \A t \in TaskSlots : t # s => taskState'[t] = taskState[t]
      PROVE  PayloadsExact'
  <2>1. polling = {Task(s)} /\ polling' = {} /\ UNCHANGED <<payloads, cleaning>>
    BY <1>5 DEF Polled
  <2>2. /\ cleaning = {}
        /\ \A t \in TaskSlots : taskState[t] \notin Cancelling
        /\ \A t \in TaskSlots : taskState[t] = "running" => t = s
    BY <2>1, PayloadsTell
  <2>3. Occupied' = Occupied
    BY <1>5 DEF Occupied
  <2>4. \A t \in TaskSlots : taskState'[t] \notin {"running"} \cup Cancelling
    BY <1>5, <2>2 DEF Cancelling
  <2>5. payloads' = {Task(t)' : t \in Occupied'}
    BY <1>5, <2>1, <2>3, PayloadsStay
  <2> QED
    BY <2>1, <2>2, <2>4, <2>5 DEF PayloadsExact
<1>6. ASSUME NEW s \in TaskSlots, PollPending(s) \/ PollCompletes(s) \/ PollRejected(s)
      PROVE  PayloadsExact'
  <2>1. /\ Polled(s)
        /\ taskGen' = taskGen
        /\ taskState[s] = "running"
        /\ taskState'[s] \in {"waiting", "completed", "runnable"}
        /\ \A t \in TaskSlots : t # s => taskState'[t] = taskState[t]
    BY <1>1, <1>6 DEF PollPending, PollCompletes, PollRejected, Suspends, Suspend, Complete,
                      Requeue, TypeOK
  <2> QED
    BY <1>5, <2>1
<1>7. ASSUME NEW S \in SUBSET Occupied, CancelAll(S), Between, UNCHANGED <<payloads, polling>>,
             cleaning' = {Task(s) : s \in S}
      PROVE  PayloadsExact'
  <2>1. S \subseteq TaskSlots /\ polling = {}
    BY <1>7 DEF Occupied, Between
  <2>2. \A t \in TaskSlots : taskState[t] \notin {"running"} \cup Cancelling
    BY <1>7, PayloadsTell DEF Between
  <2>3. /\ taskGen' = taskGen
        /\ \A t \in TaskSlots : taskState'[t] =
             IF t \notin S THEN taskState[t]
             ELSE IF taskState[t] = "completed" THEN "completedOutput" ELSE "pendingFrame"
    BY <1>7 DEF CancelAll
  <2>4. \A t \in TaskSlots : /\ taskState'[t] # "running"
                             /\ taskState'[t] \in Cancelling <=> t \in S
    BY <2>2, <2>3 DEF Cancelling
  <2>5. Occupied' = Occupied
    BY <1>7, <2>3 DEF Occupied
  <2>6. \A t \in TaskSlots : Task(t)' = Task(t)
    BY <2>3 DEF Task
  <2>7. cleaning' = {Task(t)' : t \in {u \in TaskSlots : taskState'[u] \in Cancelling}}
    BY <1>7, <2>1, <2>4, <2>6
  <2>8. payloads' = {Task(t)' : t \in Occupied'}
    BY <1>7, <2>3, <2>5, PayloadsStay
  <2> QED
    BY <1>7, <2>1, <2>4, <2>7, <2>8 DEF PayloadsExact
<1>8. CASE ExecShutdown
  BY <1>7, <1>8 DEF ExecShutdown, BeginShutdown
<1>9. ASSUME NEW s \in TaskSlots, ExecCancel(s) PROVE PayloadsExact'
  <2>1. {s} \in SUBSET Occupied /\ CancelAll({s}) /\ cleaning' = {Task(t) : t \in {s}}
    BY <1>9 DEF ExecCancel, Cancel, Occupied
  <2> QED
    BY <1>7, <1>9, <2>1 DEF ExecCancel
<1>10. ASSUME NEW s \in TaskSlots, CleanUp(s) PROVE PayloadsExact'
  <2>1. /\ s \in Occupied /\ ReleaseTask(s) /\ payloads' = payloads \ {Task(s)}
        /\ cleaning' = cleaning \ {Task(s)} /\ polling' = polling
    BY <1>10 DEF CleanUp, FinishCancellation, Occupied, Cancelling
  <2>2. /\ payloads' = {Task(t)' : t \in Occupied'}
        /\ \A t \in TaskSlots : t # s => taskState'[t] = taskState[t] /\ Task(t)' = Task(t)
        /\ taskState'[s] = "vacant"
    BY <1>1, <2>1, PayloadsRelease
  <2>3. polling = {} /\ \A t \in TaskSlots : taskState'[t] # "running"
    BY <1>10, <2>2, PayloadsTell DEF CleanUp
  <2>4. cleaning' = {Task(t)' : t \in {u \in TaskSlots : taskState'[u] \in Cancelling}}
    <3>1. cleaning = {Task(t) : t \in {u \in TaskSlots : taskState[u] \in Cancelling}}
      BY DEF PayloadsExact
    <3>2. \A t \in TaskSlots : Task(t) = Task(s) => t = s
      BY TaskSlot
    <3>3. \A t \in TaskSlots : taskState'[t] \in Cancelling <=> taskState[t] \in Cancelling /\ t # s
      BY <2>2 DEF Cancelling
    <3> QED
      BY <2>1, <2>2, <3>1, <3>2, <3>3
  <2> QED
    BY <2>1, <2>2, <2>3, <2>4 DEF PayloadsExact
<1>11. ASSUME NEW s \in TaskSlots, ExecConsume(s) PROVE PayloadsExact'
  <2>1. /\ s \in Occupied /\ ReleaseTask(s) /\ payloads' = payloads \ {Task(s)}
        /\ UNCHANGED <<polling, cleaning>> /\ polling = {} /\ cleaning = {}
    BY <1>11 DEF ExecConsume, Between, ConsumeCompleted, Occupied
  <2>2. /\ payloads' = {Task(t)' : t \in Occupied'}
        /\ \A t \in TaskSlots : t # s => taskState'[t] = taskState[t] /\ Task(t)' = Task(t)
        /\ taskState'[s] = "vacant"
    BY <1>1, <2>1, PayloadsRelease
  <2>3. \A t \in TaskSlots : taskState'[t] \notin {"running"} \cup Cancelling
    BY <2>1, <2>2, PayloadsTell DEF Cancelling
  <2> QED
    BY <2>1, <2>2, <2>3 DEF PayloadsExact
<1> QED
  BY <1>2, <1>3, <1>4, <1>6, <1>8, <1>9, <1>10, <1>11 DEF ExecNext

(* In every state of the executor, between calls and inside them, each     *)
(* live identity has one payload and no payload outlives its identity.     *)
THEOREM PayloadsFollowTasks == ExecSpec => []PayloadsExact
<1>1. ExecInit => PayloadsExact
  BY DEF ExecInit, Init, PayloadsExact, Occupied, Cancelling
<1> QED
  BY <1>1, PayloadsStep, ExecutorInv, PTL DEF ExecSpec
=============================================================================
