--------------------------- MODULE SyncMutexProofs ---------------------------
(***************************************************************************)
(* Proofs about SyncMutex, for any number of tasks and any pipe: the guard *)
(* is exclusive, and a free mutex that somebody waits for has a hint left. *)
(* The conjunction of the invariants is inductive as it stands; what makes *)
(* it so is that a hint is only lost by a read that is followed by another *)
(* look at the mutex.                                                      *)
(***************************************************************************)
EXTENDS SyncMutex, TLAPS

IInv == TypeOK /\ MutualExclusion /\ NobodyStranded

(* A signalled pipe holds a hint, and as many as fit at most: the write of *)
(* signal_best_effort succeeds, or the pipe is full of other hints.        *)
LEMMA SignalledHolds ==
    ASSUME NEW b \in Hints
    PROVE  Signalled(b) \in Hints /\ Signalled(b) > 0
  BY NotificationAssumption DEF Hints, Signalled

(* A new mutex is free, and nobody waits.                                  *)
LEMMA InitHolds == Init => IInv
  BY NotificationAssumption
  DEF Init, IInv, TypeOK, MutualExclusion, NobodyStranded, Free, Hints

(* Every step of every task keeps the invariant.                           *)
LEMMA StepHolds == IInv /\ [Next]_vars => IInv'
<1> SUFFICES ASSUME IInv, [Next]_vars
             PROVE  IInv'
  OBVIOUS
<1> USE DEF IInv, TypeOK, MutualExclusion, NobodyStranded, Free
<1>h. 0 \in Hints
  BY NotificationAssumption DEF Hints
<1>1. ASSUME NEW t \in Tasks, Acquire(t)
      PROVE  IInv'
  BY <1>1 DEF Acquire
<1>2. ASSUME NEW t \in Tasks, Park(t)
      PROVE  IInv'
  BY <1>2, <1>h DEF Park, AllRead
<1>3. ASSUME NEW t \in Tasks, Resume(t)
      PROVE  IInv'
  <2>1. CASE Free
    <3>1. OneRead(bytes) \in Hints
      BY <1>3, NotificationAssumption DEF Resume, OneRead, Hints
    <3> QED
      BY <1>3, <2>1, <3>1 DEF Resume
  <2>2. CASE ~Free
    BY <1>3, <2>2, <1>h DEF Resume, AllRead
  <2> QED
    BY <2>1, <2>2
<1>4. ASSUME NEW t \in Tasks, Release(t)
      PROVE  IInv'
  <2>1. bytes' \in Hints /\ bytes' > 0
    BY <1>4, SignalledHolds DEF Release
  <2> QED
    BY <1>4, <2>1 DEF Release
<1>5. ASSUME NEW t \in Tasks, CancelWait(t)
      PROVE  IInv'
  BY <1>5 DEF CancelWait
<1>6. CASE UNCHANGED vars
  BY <1>6 DEF vars
<1> QED
  BY <1>1, <1>2, <1>3, <1>4, <1>5, <1>6 DEF Next

(* The invariant holds of every reachable state.                           *)
LEMMA InvariantHolds == Spec => []IInv
<1>1. Init => IInv
  BY InitHolds
<1>2. IInv /\ [Next]_vars => IInv'
  BY StepHolds
<1> QED
  BY <1>1, <1>2, PTL DEF Spec

(* Every variable of the mutex has its type, and the pipe never overflows. *)
THEOREM MutexTyped == Spec => []TypeOK
<1>1. IInv => TypeOK
  BY DEF IInv
<1> QED
  BY <1>1, InvariantHolds, PTL

(* Two tasks never own a MutexGuard at once, however many hints have piled *)
(* up and whichever tasks are cancelled while they wait or own it.         *)
THEOREM GuardExclusive == Spec => []MutualExclusion
<1>1. IInv => MutualExclusion
  BY DEF IInv
<1> QED
  BY <1>1, InvariantHolds, PTL

(* No wakeup of the mutex is lost: who waits for a free mutex finds a hint.*)
THEOREM NoWaiterStranded == Spec => []NobodyStranded
<1>1. IInv => NobodyStranded
  BY DEF IInv
<1> QED
  BY <1>1, InvariantHolds, PTL
=============================================================================
