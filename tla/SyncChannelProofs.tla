--------------------------- MODULE SyncChannelProofs ---------------------------
(***************************************************************************)
(* Proofs about SyncChannel, for any capacity, any endpoints and any       *)
(* number of values: the endpoint counters are exact, no hint for a waiter *)
(* is lost, and the ring implements the bounded queue.                     *)
(*                                                                         *)
(* NobodyStranded is not inductive: a receiver that takes a value reads a  *)
(* hint, which may have been the last.  What is inductive is that there    *)
(* are always as many hints as values, or else as waiting receivers        *)
(* (Hinted), and the same of senders and free slots.                       *)
(***************************************************************************)
EXTENDS SyncChannel, FiniteSetTheorems, SequenceTheorems, TLAPS

Alive(f)   == {e \in DOMAIN f : f[e] \in {"open", "parked"}}
Waiting(f) == {e \in DOMAIN f : f[e] = "parked"}

RingTyped ==
    /\ slots \in [0 .. N - 1 -> Nat]
    /\ head \in 0 .. N - 1 /\ len \in 0 .. N
    /\ sent \in Nat

Typed ==
    /\ RingTyped
    /\ senderCount \in Nat /\ receiverCount \in Nat
    /\ readable \in Hints /\ writable \in Hints
    /\ sender \in [Senders -> Places] /\ receiver \in [Receivers -> Places]

Counted ==
    /\ senderCount = Cardinality(Alive(sender))
    /\ receiverCount = Cardinality(Alive(receiver))

\* The hints cover the values, or everybody who waits for one; likewise the free slots.
Hinted ==
    /\ readable >= len \/ readable >= Cardinality(Waiting(receiver))
    /\ receiverCount > 0 => writable >= N - len \/ writable >= Cardinality(Waiting(sender))

\* The slots in use hold the last len values, in order.
Ordered ==
    /\ len <= sent
    /\ \A i \in 1 .. len : slots[(head + i - 1) % N] = sent - len + i

IInv == Typed /\ Counted /\ Hinted /\ Ordered

-----------------------------------------------------------------------------
(* Endpoints.                                                              *)

(* The sets of endpoints are finite, and those who wait are alive.         *)
LEMMA EndpointsFinite ==
    ASSUME NEW E, IsFiniteSet(E), NEW f \in [E -> Places]
    PROVE  /\ IsFiniteSet(Alive(f)) /\ Cardinality(Alive(f)) \in Nat
           /\ IsFiniteSet(Waiting(f)) /\ Cardinality(Waiting(f)) \in Nat
           /\ Cardinality(Waiting(f)) <= Cardinality(E)
<1>1. Alive(f) \in SUBSET E /\ Waiting(f) \in SUBSET E
  BY DEF Alive, Waiting
<1> QED
  BY <1>1, FS_Subset, FS_CardinalityType

(* How the number of live endpoints follows one of them.                   *)
LEMMA AliveChanges ==
    ASSUME NEW E, IsFiniteSet(E), NEW f \in [E -> Places], NEW g \in [E -> Places],
           NEW e \in E, NEW p \in Places, g[e] = p, \A x \in E : x # e => g[x] = f[x]
    PROVE  /\ e \notin Alive(f) /\ p \in {"open", "parked"} => Cardinality(Alive(g)) = Cardinality(Alive(f)) + 1
           /\ e \in Alive(f) /\ p \in {"open", "parked"} => Cardinality(Alive(g)) = Cardinality(Alive(f))
           /\ e \in Alive(f) /\ p \notin {"open", "parked"} => Cardinality(Alive(g)) = Cardinality(Alive(f)) - 1
<1>1. IsFiniteSet(Alive(f)) /\ Cardinality(Alive(f)) \in Nat
  BY EndpointsFinite
<1>2. p \in {"open", "parked"} => Alive(g) = Alive(f) \cup {e}
  BY DEF Alive
<1>3. p \notin {"open", "parked"} => Alive(g) = Alive(f) \ {e}
  BY DEF Alive
<1>4. Cardinality(Alive(f) \cup {e}) = IF e \in Alive(f) THEN Cardinality(Alive(f)) ELSE Cardinality(Alive(f)) + 1
  BY <1>1, FS_AddElement
<1>5. Cardinality(Alive(f) \ {e}) = IF e \in Alive(f) THEN Cardinality(Alive(f)) - 1 ELSE Cardinality(Alive(f))
  BY <1>1, FS_RemoveElement
<1> QED
  BY <1>2, <1>3, <1>4, <1>5

(* How the number of waiting endpoints follows one of them.                *)
LEMMA WaitingChanges ==
    ASSUME NEW E, IsFiniteSet(E), NEW f \in [E -> Places], NEW g \in [E -> Places],
           NEW e \in E, NEW p \in Places, g[e] = p, \A x \in E : x # e => g[x] = f[x]
    PROVE  /\ f[e] # "parked" /\ p # "parked" => Cardinality(Waiting(g)) = Cardinality(Waiting(f))
           /\ f[e] = "parked" /\ p # "parked" => Cardinality(Waiting(g)) = Cardinality(Waiting(f)) - 1
<1>1. IsFiniteSet(Waiting(f)) /\ Cardinality(Waiting(f)) \in Nat
  BY EndpointsFinite
<1>2. p # "parked" => Waiting(g) = Waiting(f) \ {e}
  BY DEF Waiting
<1>3. e \in Waiting(f) <=> f[e] = "parked"
  BY DEF Waiting
<1>4. Cardinality(Waiting(f) \ {e}) = IF e \in Waiting(f) THEN Cardinality(Waiting(f)) - 1 ELSE Cardinality(Waiting(f))
  BY <1>1, FS_RemoveElement
<1> QED
  BY <1>2, <1>3, <1>4

-----------------------------------------------------------------------------
(* The ring.                                                               *)

(* The remainder of an index that has wrapped around at most once.         *)
LEMMA WrapsOnce == \A a \in Nat : a < N + N => a % N = IF a < N THEN a ELSE a - N
<1> TAKE a \in Nat
<1> HAVE a < N + N
<1>1. N \in Nat \ {0}
  BY SyncChannelAssumption
<1>2. CASE a < N
  BY <1>1, <1>2
<1>3. CASE a >= N
  BY <1>1, <1>3
<1> QED
  BY <1>1, <1>2, <1>3

(* A value put keeps the ring in order.                                    *)
LEMMA EnqueueKeeps ==
    ASSUME RingTyped, Ordered, Enqueue
    PROVE  RingTyped' /\ Ordered'
<1>1. N \in Nat \ {0} /\ MaxValues \in Nat
  BY SyncChannelAssumption
<1>2. /\ len < N /\ len' = len + 1 /\ sent' = sent + 1 /\ head' = head
      /\ slots' = [slots EXCEPT ![(head + len) % N] = sent + 1]
  BY DEF Enqueue
<1>3. head \in 0 .. N - 1 /\ len \in 0 .. N /\ sent \in Nat /\ len <= sent /\ slots \in [0 .. N - 1 -> Nat]
  BY DEF RingTyped, Ordered
<1>0. N \in Nat \ {0} /\ head \in Nat /\ head < N /\ len \in Nat /\ len < N
  BY <1>1, <1>2, <1>3
<1>4. \A i \in 1 .. len + 1 : (head + i - 1) % N = IF head + i - 1 < N THEN head + i - 1 ELSE head + i - 1 - N
  <2> TAKE i \in 1 .. len + 1
  <2>1. head + i - 1 \in Nat /\ head + i - 1 < N + N
    BY <1>1, <1>2, <1>3
  <2> QED
    BY <1>0, <2>1, WrapsOnce
<1>5. (head + len) % N = IF head + len < N THEN head + len ELSE head + len - N
  <2>1. head + len \in Nat /\ head + len < N + N
    BY <1>1, <1>2, <1>3
  <2> QED
    BY <1>0, <2>1, WrapsOnce
<1>6. \A i \in 1 .. len : slots'[(head + i - 1) % N] = sent - len + i
  <2>1. \A i \in 1 .. len : (head + i - 1) % N # (head + len) % N /\ (head + i - 1) % N \in 0 .. N - 1
    BY <1>1, <1>2, <1>3, <1>4, <1>5
  <2> QED
    BY <1>2, <1>3, <2>1 DEF Ordered
<1>7. slots'[(head + len) % N] = sent + 1
  <2>1. (head + len) % N \in 0 .. N - 1
    BY <1>1, <1>2, <1>3, <1>5
  <2> QED
    BY <1>2, <1>3, <2>1
<1>8. \A i \in 1 .. len' : slots'[(head' + i - 1) % N] = sent' - len' + i
  <2> TAKE i \in 1 .. len'
  <2>1. CASE i \in 1 .. len
    BY <1>2, <1>3, <1>6, <2>1
  <2>2. CASE i = len + 1
    <3>1. head + i - 1 = head + len
      BY <1>3, <2>2
    <3> QED
      BY <1>2, <1>3, <1>7, <2>2, <3>1
  <2> QED
    BY <1>2, <1>3, <2>1, <2>2
<1> QED
  BY <1>1, <1>2, <1>3, <1>8 DEF RingTyped, Ordered

(* The oldest value leaves, and the others keep their order.               *)
LEMMA DequeueKeeps ==
    ASSUME RingTyped, Ordered, Dequeue
    PROVE  RingTyped' /\ Ordered'
<1>1. N \in Nat \ {0}
  BY SyncChannelAssumption
<1>2. /\ len > 0 /\ len' = len - 1 /\ sent' = sent /\ head' = (head + 1) % N
      /\ slots' = [slots EXCEPT ![head] = 0]
  BY DEF Dequeue
<1>3. head \in 0 .. N - 1 /\ len \in 0 .. N /\ sent \in Nat /\ len <= sent /\ slots \in [0 .. N - 1 -> Nat]
  BY DEF RingTyped, Ordered
<1>0. N \in Nat \ {0} /\ head \in Nat /\ head < N /\ len \in Nat /\ len <= N /\ len > 0
  BY <1>1, <1>2, <1>3
<1>4. head' = IF head + 1 < N THEN head + 1 ELSE head + 1 - N
  <2>1. head + 1 \in Nat /\ head + 1 < N + N
    BY <1>1, <1>3
  <2>2. head' = (head + 1) % N
    BY <1>2
  <2> QED
    BY <1>0, <2>1, <2>2, WrapsOnce
<1>5. PICK h \in Nat : h = head' /\ h = IF head + 1 < N THEN head + 1 ELSE head + 1 - N
  BY <1>0, <1>4
<1>9. \A i \in 1 .. len - 1 : (h + i - 1) % N = IF h + i - 1 < N THEN h + i - 1 ELSE h + i - 1 - N
  <2> TAKE i \in 1 .. len - 1
  <2>1. h + i - 1 \in Nat /\ h + i - 1 < N + N
    BY <1>0, <1>5
  <2> QED
    BY <1>0, <2>1, WrapsOnce
<1>6. \A i \in 1 .. len - 1 : (head + i) % N = IF head + i < N THEN head + i ELSE head + i - N
  <2> TAKE i \in 1 .. len - 1
  <2>1. head + i \in Nat /\ head + i < N + N
    BY <1>1, <1>3
  <2> QED
    BY <1>0, <2>1, WrapsOnce
<1>7. \A i \in 1 .. len' : slots'[(head' + i - 1) % N] = sent' - len' + i
  <2> TAKE i \in 1 .. len'
  <2>1. i \in 1 .. len - 1 /\ i + 1 \in 1 .. len /\ head + (i + 1) - 1 = head + i
    BY <1>2, <1>3
  <2>2. (head' + i - 1) % N = (head + i) % N /\ (head + i) % N # head /\ (head + i) % N \in 0 .. N - 1
    <3>1. (h + i - 1) % N = IF h + i - 1 < N THEN h + i - 1 ELSE h + i - 1 - N
      BY <1>9, <2>1
    <3>2. (head + i) % N = IF head + i < N THEN head + i ELSE head + i - N
      BY <1>6, <2>1
    <3>3. (h + i - 1) % N = (head + i) % N
      BY <1>0, <1>5, <2>1, <3>1, <3>2
    <3>4. (head + i) % N # head /\ (head + i) % N \in 0 .. N - 1
      BY <1>0, <2>1, <3>2
    <3> QED
      BY <1>5, <3>3, <3>4
  <2>3. slots[(head + i) % N] = sent - len + (i + 1)
    BY <2>1 DEF Ordered
  <2>4. slots'[(head + i) % N] = slots[(head + i) % N]
    BY <1>2, <1>3, <2>2
  <2> QED
    BY <1>2, <1>3, <2>1, <2>2, <2>3, <2>4
<1> QED
  BY <1>1, <1>2, <1>3, <1>4, <1>7 DEF RingTyped, Ordered

-----------------------------------------------------------------------------
(* The steps.                                                              *)

(* Hints stay within the pipe.                                             *)
LEMMA HintTypes ==
    ASSUME NEW h \in Hints
    PROVE  /\ Signalled(h) \in Hints /\ Signalled(h) > 0 /\ Signalled(h) >= h
           /\ Signalled(h) = h + 1 \/ Signalled(h) = PipeCapacity
           /\ AllRead(h) = 0 /\ 0 \in Hints
           /\ h > 0 => OneRead(h) = h - 1 /\ OneRead(h) \in Hints
<1> QED
  BY NotificationAssumption DEF Hints, Signalled, AllRead, OneRead

(* A channel begins with one endpoint on each side.                        *)
LEMMA InitHolds == Init => IInv
<1> SUFFICES ASSUME Init PROVE IInv
  OBVIOUS
<1>1. N \in Nat \ {0} /\ IsFiniteSet(Senders) /\ IsFiniteSet(Receivers) /\ PipeCapacity \in Nat
  BY SyncChannelAssumption, NotificationAssumption
<1>2. PICK s \in Senders, r \in Receivers :
        /\ sender = [x \in Senders |-> IF x = s THEN "open" ELSE "unborn"]
        /\ receiver = [x \in Receivers |-> IF x = r THEN "open" ELSE "unborn"]
  BY DEF Init
<1>3. Alive(sender) = {s} /\ Alive(receiver) = {r} /\ Waiting(sender) = {} /\ Waiting(receiver) = {}
  BY <1>2 DEF Alive, Waiting
<1>4. Cardinality({s}) = 1 /\ Cardinality({r}) = 1 /\ Cardinality({}) = 0
  BY FS_Singleton, FS_EmptySet
<1>5. Typed
  BY <1>1, <1>2 DEF Init, RingTyped, Typed, Places, Hints
<1>6. Counted
  BY <1>3, <1>4 DEF Init, Counted
<1>7. Hinted
  <2>1. readable = 0 /\ writable = 0 /\ len = 0
    BY DEF Init
  <2>2. Cardinality(Waiting(sender)) = 0 /\ Cardinality(Waiting(receiver)) = 0
    BY <1>3, <1>4
  <2> QED
    BY <2>1, <2>2 DEF Hinted
<1>8. Ordered
  BY DEF Init, Ordered
<1> QED
  BY <1>5, <1>6, <1>7, <1>8 DEF IInv

(* What every step may take from the state before it.                      *)
LEMMA Facts ==
    ASSUME IInv
    PROVE  /\ N \in Nat \ {0} /\ len \in 0 .. N
           /\ IsFiniteSet(Senders) /\ IsFiniteSet(Receivers)
           /\ sender \in [Senders -> Places] /\ receiver \in [Receivers -> Places]
           /\ senderCount \in Nat /\ receiverCount \in Nat
           /\ senderCount = Cardinality(Alive(sender)) /\ receiverCount = Cardinality(Alive(receiver))
           /\ readable \in Hints /\ writable \in Hints
           /\ Cardinality(Waiting(sender)) \in Nat /\ Cardinality(Waiting(receiver)) \in Nat
           /\ PipeCapacity \in Nat
           /\ PipeCapacity >= Cardinality(Waiting(sender)) /\ PipeCapacity >= Cardinality(Waiting(receiver))
<1>1. Typed /\ Counted
  BY DEF IInv
<1>2. IsFiniteSet(Senders) /\ IsFiniteSet(Receivers) /\ N \in Nat \ {0}
  BY SyncChannelAssumption
<1>3. sender \in [Senders -> Places] /\ receiver \in [Receivers -> Places]
  BY <1>1 DEF Typed
<1>4. /\ Cardinality(Waiting(sender)) \in Nat /\ Cardinality(Waiting(receiver)) \in Nat
      /\ Cardinality(Waiting(sender)) <= Cardinality(Senders)
      /\ Cardinality(Waiting(receiver)) <= Cardinality(Receivers)
  BY <1>2, <1>3, EndpointsFinite
<1>5. Cardinality(Senders) \in Nat /\ Cardinality(Receivers) \in Nat
  BY <1>2, FS_CardinalityType
<1>6. PipeCapacity \in Nat /\ PipeCapacity >= Cardinality(Senders) /\ PipeCapacity >= Cardinality(Receivers)
  BY PipeAssumption, NotificationAssumption
<1> QED
  BY <1>1, <1>2, <1>3, <1>4, <1>5, <1>6 DEF RingTyped, Typed, Counted

(* Nothing but the ring's length and one side's waiters matters to Hinted. *)
LEMMA SenderStep ==
    ASSUME IInv, NEW s \in Senders, NEW p \in Places, sender' = [sender EXCEPT ![s] = p]
    PROVE  /\ sender' \in [Senders -> Places]
           /\ s \notin Alive(sender) /\ p \in {"open", "parked"} =>
                Cardinality(Alive(sender')) = Cardinality(Alive(sender)) + 1
           /\ s \in Alive(sender) /\ p \in {"open", "parked"} =>
                Cardinality(Alive(sender')) = Cardinality(Alive(sender))
           /\ s \in Alive(sender) /\ p \notin {"open", "parked"} =>
                Cardinality(Alive(sender')) = Cardinality(Alive(sender)) - 1
           /\ sender[s] # "parked" /\ p # "parked" =>
                Cardinality(Waiting(sender')) = Cardinality(Waiting(sender))
           /\ sender[s] = "parked" /\ p # "parked" =>
                Cardinality(Waiting(sender')) = Cardinality(Waiting(sender)) - 1
           /\ Cardinality(Waiting(sender')) \in Nat
<1>1. PICK f \in [Senders -> Places], g \in [Senders -> Places] : f = sender /\ g = sender'
  BY Facts
<1>2. IsFiniteSet(Senders) /\ g[s] = p /\ \A x \in Senders : x # s => g[x] = f[x]
  BY <1>1, Facts
<1>3. Cardinality(Waiting(g)) \in Nat
  BY <1>2, EndpointsFinite
<1>4. /\ s \notin Alive(f) /\ p \in {"open", "parked"} => Cardinality(Alive(g)) = Cardinality(Alive(f)) + 1
      /\ s \in Alive(f) /\ p \in {"open", "parked"} => Cardinality(Alive(g)) = Cardinality(Alive(f))
      /\ s \in Alive(f) /\ p \notin {"open", "parked"} => Cardinality(Alive(g)) = Cardinality(Alive(f)) - 1
  BY <1>2, AliveChanges
<1>5. /\ f[s] # "parked" /\ p # "parked" => Cardinality(Waiting(g)) = Cardinality(Waiting(f))
      /\ f[s] = "parked" /\ p # "parked" => Cardinality(Waiting(g)) = Cardinality(Waiting(f)) - 1
  BY <1>2, WaitingChanges
<1> QED
  BY <1>1, <1>3, <1>4, <1>5

\* The same of a receiver.
LEMMA ReceiverStep ==
    ASSUME IInv, NEW r \in Receivers, NEW p \in Places, receiver' = [receiver EXCEPT ![r] = p]
    PROVE  /\ receiver' \in [Receivers -> Places]
           /\ r \notin Alive(receiver) /\ p \in {"open", "parked"} =>
                Cardinality(Alive(receiver')) = Cardinality(Alive(receiver)) + 1
           /\ r \in Alive(receiver) /\ p \in {"open", "parked"} =>
                Cardinality(Alive(receiver')) = Cardinality(Alive(receiver))
           /\ r \in Alive(receiver) /\ p \notin {"open", "parked"} =>
                Cardinality(Alive(receiver')) = Cardinality(Alive(receiver)) - 1
           /\ receiver[r] # "parked" /\ p # "parked" =>
                Cardinality(Waiting(receiver')) = Cardinality(Waiting(receiver))
           /\ receiver[r] = "parked" /\ p # "parked" =>
                Cardinality(Waiting(receiver')) = Cardinality(Waiting(receiver)) - 1
           /\ Cardinality(Waiting(receiver')) \in Nat
<1>1. PICK f \in [Receivers -> Places], g \in [Receivers -> Places] : f = receiver /\ g = receiver'
  BY Facts
<1>2. IsFiniteSet(Receivers) /\ g[r] = p /\ \A x \in Receivers : x # r => g[x] = f[x]
  BY <1>1, Facts
<1>3. Cardinality(Waiting(g)) \in Nat
  BY <1>2, EndpointsFinite
<1>4. /\ r \notin Alive(f) /\ p \in {"open", "parked"} => Cardinality(Alive(g)) = Cardinality(Alive(f)) + 1
      /\ r \in Alive(f) /\ p \in {"open", "parked"} => Cardinality(Alive(g)) = Cardinality(Alive(f))
      /\ r \in Alive(f) /\ p \notin {"open", "parked"} => Cardinality(Alive(g)) = Cardinality(Alive(f)) - 1
  BY <1>2, AliveChanges
<1>5. /\ f[r] # "parked" /\ p # "parked" => Cardinality(Waiting(g)) = Cardinality(Waiting(f))
      /\ f[r] = "parked" /\ p # "parked" => Cardinality(Waiting(g)) = Cardinality(Waiting(f)) - 1
  BY <1>2, WaitingChanges
<1> QED
  BY <1>1, <1>3, <1>4, <1>5

(* An endpoint that may act is one of those counted.                       *)
LEMMA AliveCounts ==
    ASSUME IInv
    PROVE  /\ \A s \in Senders : sender[s] \in {"open", "parked"} => s \in Alive(sender) /\ senderCount > 0
           /\ \A s \in Senders : sender[s] \notin {"open", "parked"} => s \notin Alive(sender)
           /\ \A r \in Receivers : receiver[r] \in {"open", "parked"} => r \in Alive(receiver) /\ receiverCount > 0
           /\ \A r \in Receivers : receiver[r] \notin {"open", "parked"} => r \notin Alive(receiver)
<1>1. \A s \in Senders : sender[s] \in {"open", "parked"} <=> s \in Alive(sender)
  BY Facts DEF Alive
<1>2. \A r \in Receivers : receiver[r] \in {"open", "parked"} <=> r \in Alive(receiver)
  BY Facts DEF Alive
<1>3. IsFiniteSet(Alive(sender)) /\ IsFiniteSet(Alive(receiver))
  BY Facts, EndpointsFinite
<1>4. (Alive(sender) # {} => senderCount # 0) /\ (Alive(receiver) # {} => receiverCount # 0)
  BY <1>3, Facts, FS_EmptySet
<1> QED
  BY <1>1, <1>2, <1>4, Facts

(* What is left alone keeps its part of the invariant.                     *)
LEMMA RingKept ==
    ASSUME IInv, UNCHANGED ring
    PROVE  RingTyped' /\ Ordered'
<1> QED
  BY DEF IInv, Typed, RingTyped, Ordered, ring

(* A new endpoint is counted.                                             *)
LEMMA ShareSenderHolds ==
    ASSUME IInv, NEW s \in Senders, ShareSender(s)
    PROVE  IInv'
<1>1. RingTyped' /\ Ordered' /\ len' = len
  BY RingKept DEF ShareSender, ring
<1>2. sender' = [sender EXCEPT ![s] = "open"] /\ sender[s] = "unborn" /\ senderCount > 0
  BY AliveCounts DEF ShareSender
<1>3. /\ sender' \in [Senders -> Places]
      /\ Cardinality(Alive(sender')) = Cardinality(Alive(sender)) + 1
      /\ Cardinality(Waiting(sender')) = Cardinality(Waiting(sender))
  BY <1>2, SenderStep, AliveCounts DEF Places
<1>4. Typed' /\ Counted'
  BY <1>1, <1>3, Facts DEF ShareSender, receiving, Typed, Counted
<1>5. Hinted'
  BY <1>1, <1>2, <1>3 DEF ShareSender, receiving, IInv, Hinted
<1> QED
  BY <1>1, <1>4, <1>5 DEF IInv

(* The same of a receiver.                                                *)
LEMMA ShareReceiverHolds ==
    ASSUME IInv, NEW r \in Receivers, ShareReceiver(r)
    PROVE  IInv'
<1>1. RingTyped' /\ Ordered' /\ len' = len
  BY RingKept DEF ShareReceiver, ring
<1>2. receiver' = [receiver EXCEPT ![r] = "open"] /\ receiver[r] = "unborn" /\ receiverCount > 0
  BY AliveCounts DEF ShareReceiver
<1>3. /\ receiver' \in [Receivers -> Places]
      /\ Cardinality(Alive(receiver')) = Cardinality(Alive(receiver)) + 1
      /\ Cardinality(Waiting(receiver')) = Cardinality(Waiting(receiver))
  BY <1>2, ReceiverStep, AliveCounts DEF Places
<1>4. Typed' /\ Counted'
  BY <1>1, <1>3, Facts DEF ShareReceiver, sending, Typed, Counted
<1>5. Hinted'
  BY <1>1, <1>2, <1>3 DEF ShareReceiver, sending, IInv, Hinted
<1> QED
  BY <1>1, <1>4, <1>5 DEF IInv

(* A value put leaves a hint for it.                                      *)
LEMMA TrySendHolds ==
    ASSUME IInv, NEW s \in Senders, TrySend(s)
    PROVE  IInv'
<1>1. RingTyped' /\ Ordered' /\ len' = len + 1
  BY EnqueueKeeps DEF TrySend, IInv, Typed, Enqueue
<1>2. readable' \in Hints /\ (readable' = readable + 1 \/ readable' = PipeCapacity)
  BY Facts, HintTypes DEF TrySend
<1>3. Typed' /\ Counted'
  BY <1>1, <1>2, Facts DEF TrySend, sending, receiving, Typed, Counted
<1>4. readable' >= len' \/ readable' >= Cardinality(Waiting(receiver))
  BY <1>1, <1>2, Facts, NotificationAssumption DEF IInv, Hinted, Hints
<1>5. receiverCount > 0 => writable >= N - len' \/ writable >= Cardinality(Waiting(sender))
  BY <1>1, Facts DEF IInv, Hinted, Hints
<1> QED
  BY <1>1, <1>3, <1>4, <1>5 DEF IInv, Hinted, TrySend, sending, receiving

(* A value taken leaves a hint for its slot.                              *)
LEMMA TryReceiveHolds ==
    ASSUME IInv, NEW r \in Receivers, TryReceive(r)
    PROVE  IInv'
<1>1. RingTyped' /\ Ordered' /\ len' = len - 1
  BY DequeueKeeps DEF TryReceive, IInv, Typed, Dequeue
<1>2. writable' \in Hints /\ (writable' = writable + 1 \/ writable' = PipeCapacity)
  BY Facts, HintTypes DEF TryReceive
<1>3. Typed' /\ Counted'
  BY <1>1, <1>2, Facts DEF TryReceive, sending, receiving, Typed, Counted
<1>4. readable >= len' \/ readable >= Cardinality(Waiting(receiver))
  BY <1>1, Facts DEF IInv, Hinted, Hints
<1>5. receiverCount > 0 => writable' >= N - len' \/ writable' >= Cardinality(Waiting(sender))
  BY <1>1, <1>2, Facts, NotificationAssumption DEF IInv, Hinted, Hints
<1> QED
  BY <1>1, <1>3, <1>4, <1>5 DEF IInv, Hinted, TryReceive, sending, receiving

(* A sender that parks leaves no room behind, and reads every hint.       *)
LEMMA SendParksHolds ==
    ASSUME IInv, NEW s \in Senders, SendParks(s)
    PROVE  IInv'
<1>1. RingTyped' /\ Ordered' /\ len' = len /\ len = N
  BY RingKept DEF SendParks, ring
<1>2. /\ sender' \in [Senders -> Places] /\ Cardinality(Alive(sender')) = Cardinality(Alive(sender))
      /\ Cardinality(Waiting(sender')) \in Nat
  BY SenderStep, AliveCounts DEF SendParks, Places
<1>3. writable' = 0 /\ writable' \in Hints
  BY Facts, HintTypes DEF SendParks
<1>4. Typed' /\ Counted'
  BY <1>1, <1>2, <1>3, Facts DEF SendParks, receiving, Typed, Counted
<1>5. Hinted'
  BY <1>1, <1>3, Facts DEF SendParks, receiving, IInv, Hinted
<1> QED
  BY <1>1, <1>4, <1>5 DEF IInv

(* A receiver that parks leaves no value behind, and reads every hint.    *)
LEMMA ReceiveParksHolds ==
    ASSUME IInv, NEW r \in Receivers, ReceiveParks(r)
    PROVE  IInv'
<1>1. RingTyped' /\ Ordered' /\ len' = len /\ len = 0
  BY RingKept DEF ReceiveParks, ring
<1>2. /\ receiver' \in [Receivers -> Places] /\ Cardinality(Alive(receiver')) = Cardinality(Alive(receiver))
      /\ Cardinality(Waiting(receiver')) \in Nat
  BY ReceiverStep, AliveCounts DEF ReceiveParks, Places
<1>3. readable' = 0 /\ readable' \in Hints
  BY Facts, HintTypes DEF ReceiveParks
<1>4. Typed' /\ Counted'
  BY <1>1, <1>2, <1>3, Facts DEF ReceiveParks, sending, Typed, Counted
<1>5. Hinted'
  BY <1>1, <1>3, Facts DEF ReceiveParks, sending, IInv, Hinted
<1> QED
  BY <1>1, <1>4, <1>5 DEF IInv

(* One waiter less needs no more hints.                                   *)
LEMMA CancelSendHolds ==
    ASSUME IInv, NEW s \in Senders, CancelSend(s)
    PROVE  IInv'
<1>1. RingTyped' /\ Ordered' /\ len' = len
  BY RingKept DEF CancelSend, ring
<1>2. /\ sender' \in [Senders -> Places] /\ Cardinality(Alive(sender')) = Cardinality(Alive(sender))
      /\ Cardinality(Waiting(sender')) = Cardinality(Waiting(sender)) - 1
  BY SenderStep, AliveCounts DEF CancelSend, Places
<1>3. Typed' /\ Counted'
  BY <1>1, <1>2, Facts DEF CancelSend, receiving, Typed, Counted
<1>4. Hinted'
  BY <1>1, <1>2, Facts DEF CancelSend, receiving, IInv, Hinted, Hints
<1> QED
  BY <1>1, <1>3, <1>4 DEF IInv

(* The same of a receiver.                                                *)
LEMMA CancelReceiveHolds ==
    ASSUME IInv, NEW r \in Receivers, CancelReceive(r)
    PROVE  IInv'
<1>1. RingTyped' /\ Ordered' /\ len' = len
  BY RingKept DEF CancelReceive, ring
<1>2. /\ receiver' \in [Receivers -> Places] /\ Cardinality(Alive(receiver')) = Cardinality(Alive(receiver))
      /\ Cardinality(Waiting(receiver')) = Cardinality(Waiting(receiver)) - 1
  BY ReceiverStep, AliveCounts DEF CancelReceive, Places
<1>3. Typed' /\ Counted'
  BY <1>1, <1>2, Facts DEF CancelReceive, sending, Typed, Counted
<1>4. Hinted'
  BY <1>1, <1>2, Facts DEF CancelReceive, sending, IInv, Hinted, Hints
<1> QED
  BY <1>1, <1>3, <1>4 DEF IInv

(* A counted sender leaves.                                               *)
LEMMA DropSenderHolds ==
    ASSUME IInv, NEW s \in Senders, DropSender(s)
    PROVE  IInv'
<1>1. RingTyped' /\ Ordered' /\ len' = len
  BY RingKept DEF DropSender, ring
<1>2. /\ sender' \in [Senders -> Places] /\ Cardinality(Alive(sender')) = Cardinality(Alive(sender)) - 1
      /\ Cardinality(Waiting(sender')) = Cardinality(Waiting(sender))
  BY SenderStep, AliveCounts DEF DropSender, Places
<1>3. senderCount' = senderCount - 1 /\ senderCount > 0 /\ senderCount' \in Nat
  BY Facts, AliveCounts DEF DropSender
<1>4. readable' \in Hints /\ readable' >= readable
  BY Facts, HintTypes DEF DropSender, Hints
<1>5. Typed' /\ Counted'
  BY <1>1, <1>2, <1>3, <1>4, Facts DEF DropSender, receiving, Typed, Counted
<1>6. Hinted'
  BY <1>1, <1>2, <1>3, <1>4, Facts DEF DropSender, receiving, IInv, Hinted, Hints
<1> QED
  BY <1>1, <1>5, <1>6 DEF IInv

(* A counted receiver leaves.                                             *)
LEMMA DropReceiverHolds ==
    ASSUME IInv, NEW r \in Receivers, DropReceiver(r)
    PROVE  IInv'
<1>1. RingTyped' /\ Ordered' /\ len' = len
  BY RingKept DEF DropReceiver, ring
<1>2. /\ receiver' \in [Receivers -> Places] /\ Cardinality(Alive(receiver')) = Cardinality(Alive(receiver)) - 1
      /\ Cardinality(Waiting(receiver')) = Cardinality(Waiting(receiver))
  BY ReceiverStep, AliveCounts DEF DropReceiver, Places
<1>3. receiverCount' = receiverCount - 1 /\ receiverCount > 0 /\ receiverCount' \in Nat
  BY Facts, AliveCounts DEF DropReceiver
<1>4. writable' \in Hints /\ writable' >= writable
  BY Facts, HintTypes DEF DropReceiver, Hints
<1>5. Typed' /\ Counted'
  BY <1>1, <1>2, <1>3, <1>4, Facts DEF DropReceiver, sending, Typed, Counted
<1>6. Hinted'
  BY <1>1, <1>2, <1>3, <1>4, Facts DEF DropReceiver, sending, IInv, Hinted, Hints
<1> QED
  BY <1>1, <1>5, <1>6 DEF IInv

(* A sender that resumes puts its value and reads one hint; or has its     *)
(* value back; or reads every hint, the ring being full.                   *)
LEMMA ResumeSendHolds ==
    ASSUME IInv, NEW s \in Senders, ResumeSend(s)
    PROVE  IInv'
<1>0. sender[s] = "parked" /\ writable > 0 /\ senderCount' = senderCount /\ receiver' = receiver /\ receiverCount' = receiverCount
  BY DEF ResumeSend, receiving
<1>1. CASE receiverCount > 0 /\ Enqueue /\ sender' = [sender EXCEPT ![s] = "open"]
            /\ readable' = Signalled(readable) /\ writable' = OneRead(writable)
  <2>1. RingTyped' /\ Ordered' /\ len' = len + 1
    BY <1>1, EnqueueKeeps DEF IInv, Typed, Enqueue
  <2>2. /\ sender' \in [Senders -> Places] /\ Cardinality(Alive(sender')) = Cardinality(Alive(sender))
        /\ Cardinality(Waiting(sender')) = Cardinality(Waiting(sender)) - 1
    BY <1>0, <1>1, SenderStep, AliveCounts DEF Places
  <2>3. readable' \in Hints /\ (readable' = readable + 1 \/ readable' = PipeCapacity)
    BY <1>1, Facts, HintTypes
  <2>4. writable' = writable - 1 /\ writable' \in Hints
    BY <1>0, <1>1, Facts, HintTypes
  <2>5. Typed' /\ Counted'
    BY <1>0, <2>1, <2>2, <2>3, <2>4, Facts DEF Typed, Counted
  <2>6. readable' >= len' \/ readable' >= Cardinality(Waiting(receiver))
    BY <2>1, <2>3, Facts, NotificationAssumption DEF IInv, Hinted, Hints
  <2>7. writable' >= N - len' \/ writable' >= Cardinality(Waiting(sender'))
    BY <1>1, <2>1, <2>2, <2>4, Facts DEF IInv, Hinted, Hints
  <2> QED
    BY <1>0, <2>1, <2>5, <2>6, <2>7 DEF IInv, Hinted
<1>2. CASE receiverCount = 0 /\ sender' = [sender EXCEPT ![s] = "open"] /\ writable' = OneRead(writable)
            /\ UNCHANGED <<ring, readable>>
  <2>1. RingTyped' /\ Ordered' /\ len' = len
    BY <1>2, RingKept DEF ring
  <2>2. sender' \in [Senders -> Places] /\ Cardinality(Alive(sender')) = Cardinality(Alive(sender))
    BY <1>0, <1>2, SenderStep, AliveCounts DEF Places
  <2>3. writable' \in Hints
    BY <1>0, <1>2, Facts, HintTypes
  <2>4. Typed' /\ Counted'
    BY <1>0, <1>2, <2>1, <2>2, <2>3, Facts DEF Typed, Counted
  <2>5. Hinted'
    BY <1>0, <1>2, <2>1 DEF IInv, Hinted
  <2> QED
    BY <2>1, <2>4, <2>5 DEF IInv
<1>3. CASE len = N /\ writable' = AllRead(writable) /\ UNCHANGED <<ring, readable, sender>>
  <2>1. RingTyped' /\ Ordered' /\ len' = len
    BY <1>3, RingKept DEF ring
  <2>2. writable' = 0 /\ writable' \in Hints
    BY <1>3, Facts, HintTypes
  <2>3. Typed' /\ Counted'
    BY <1>0, <1>3, <2>1, <2>2, Facts DEF Typed, Counted
  <2>4. Hinted'
    BY <1>0, <1>3, <2>1, <2>2, Facts DEF IInv, Hinted
  <2> QED
    BY <2>1, <2>3, <2>4 DEF IInv
<1> QED
  BY <1>1, <1>2, <1>3 DEF ResumeSend

(* A receiver that resumes takes a value and reads one hint; or sees the   *)
(* end; or reads every hint, the ring being empty.                         *)
LEMMA ResumeReceiveHolds ==
    ASSUME IInv, NEW r \in Receivers, ResumeReceive(r)
    PROVE  IInv'
<1>0. receiver[r] = "parked" /\ readable > 0 /\ receiverCount' = receiverCount /\ sender' = sender /\ senderCount' = senderCount
  BY DEF ResumeReceive, sending
<1>1. CASE Dequeue /\ receiver' = [receiver EXCEPT ![r] = "open"]
            /\ writable' = Signalled(writable) /\ readable' = OneRead(readable)
  <2>1. RingTyped' /\ Ordered' /\ len' = len - 1
    BY <1>1, DequeueKeeps DEF IInv, Typed, Dequeue
  <2>2. /\ receiver' \in [Receivers -> Places] /\ Cardinality(Alive(receiver')) = Cardinality(Alive(receiver))
        /\ Cardinality(Waiting(receiver')) = Cardinality(Waiting(receiver)) - 1
    BY <1>0, <1>1, ReceiverStep, AliveCounts DEF Places
  <2>3. writable' \in Hints /\ (writable' = writable + 1 \/ writable' = PipeCapacity)
    BY <1>1, Facts, HintTypes
  <2>4. readable' = readable - 1 /\ readable' \in Hints
    BY <1>0, <1>1, Facts, HintTypes
  <2>5. Typed' /\ Counted'
    BY <1>0, <2>1, <2>2, <2>3, <2>4, Facts DEF Typed, Counted
  <2>6. readable' >= len' \/ readable' >= Cardinality(Waiting(receiver'))
    BY <2>1, <2>2, <2>4, Facts DEF IInv, Hinted, Hints
  <2>7. receiverCount > 0 => writable' >= N - len' \/ writable' >= Cardinality(Waiting(sender))
    BY <1>1, <2>1, <2>3, Facts, NotificationAssumption DEF IInv, Hinted, Hints
  <2> QED
    BY <1>0, <2>1, <2>5, <2>6, <2>7 DEF IInv, Hinted
<1>2. CASE len = 0 /\ receiver' = [receiver EXCEPT ![r] = "open"] /\ readable' = OneRead(readable)
            /\ UNCHANGED <<ring, writable>>
  <2>1. RingTyped' /\ Ordered' /\ len' = len
    BY <1>2, RingKept DEF ring
  <2>2. /\ receiver' \in [Receivers -> Places] /\ Cardinality(Alive(receiver')) = Cardinality(Alive(receiver))
    BY <1>0, <1>2, ReceiverStep, AliveCounts DEF Places
  <2>3. readable' \in Hints
    BY <1>0, <1>2, Facts, HintTypes
  <2>4. Typed' /\ Counted'
    BY <1>0, <1>2, <2>1, <2>2, <2>3, Facts DEF Typed, Counted
  <2>5. Hinted'
    BY <1>0, <1>2, <2>1, <2>3 DEF IInv, Hinted, Hints
  <2> QED
    BY <2>1, <2>4, <2>5 DEF IInv
<1>3. CASE len = 0 /\ readable' = AllRead(readable) /\ UNCHANGED <<ring, writable, receiver>>
  <2>1. RingTyped' /\ Ordered' /\ len' = len
    BY <1>3, RingKept DEF ring
  <2>2. readable' = 0 /\ readable' \in Hints
    BY <1>3, Facts, HintTypes
  <2>3. Typed' /\ Counted'
    BY <1>0, <1>3, <2>1, <2>2, Facts DEF Typed, Counted
  <2>4. Hinted'
    BY <1>0, <1>3, <2>1, <2>2, Facts DEF IInv, Hinted
  <2> QED
    BY <2>1, <2>3, <2>4 DEF IInv
<1> QED
  BY <1>1, <1>2, <1>3 DEF ResumeReceive

(* Every step keeps the invariant.                                         *)
LEMMA StepHolds == IInv /\ [Next]_vars => IInv'
<1> SUFFICES ASSUME IInv, [Next]_vars PROVE IInv'
  OBVIOUS
<1>1. CASE UNCHANGED vars
  BY <1>1 DEF vars, ring, sending, receiving, IInv, RingTyped, Typed, Counted, Hinted, Ordered
<1>2. CASE Next
  BY <1>2, ShareSenderHolds, TrySendHolds, SendParksHolds, ResumeSendHolds, CancelSendHolds, DropSenderHolds,
     ShareReceiverHolds, TryReceiveHolds, ReceiveParksHolds, ResumeReceiveHolds, CancelReceiveHolds, DropReceiverHolds
  DEF Next
<1> QED
  BY <1>1, <1>2

-----------------------------------------------------------------------------
(* What follows.                                                           *)

\* The invariant of the channel holds throughout.
LEMMA InvariantHolds == Spec => []IInv
<1> QED
  BY InitHolds, StepHolds, PTL DEF Spec

(* The counters are those of the endpoints in use: neither side closes     *)
(* while somebody can use it, and drop never finds a count of zero.        *)
THEOREM EndpointsCounted == Spec => []CountsExact
<1>1. IInv => CountsExact
  <2> SUFFICES ASSUME IInv PROVE CountsExact
    OBVIOUS
  <2>1. /\ Alive(sender) = {s \in Senders : sender[s] \in {"open", "parked"}}
        /\ Alive(receiver) = {r \in Receivers : receiver[r] \in {"open", "parked"}}
    BY Facts DEF Alive
  <2> QED
    BY <2>1, Facts DEF CountsExact
<1> QED
  BY <1>1, InvariantHolds, PTL

(* No waiter is left without a hint while there is what it waits for, with *)
(* any number of endpoints that compete, leave, or need not wait.          *)
THEOREM NobodyIsStranded == Spec => []NobodyStranded
<1>1. IInv => NobodyStranded
  <2> SUFFICES ASSUME IInv PROVE NobodyStranded
    OBVIOUS
  <2>1. Waiting(sender) = ParkedSenders /\ Waiting(receiver) = ParkedReceivers
    BY Facts DEF Waiting, ParkedSenders, ParkedReceivers
  <2>2. IsFiniteSet(ParkedSenders) /\ IsFiniteSet(ParkedReceivers)
    BY <2>1, Facts, EndpointsFinite
  <2>3. /\ ParkedSenders # {} => Cardinality(ParkedSenders) # 0
        /\ ParkedReceivers # {} => Cardinality(ParkedReceivers) # 0
    BY <2>2, FS_EmptySet
  <2>4. ParkedReceivers # {} /\ len > 0 => readable > 0
    BY <2>1, <2>3, Facts DEF IInv, Hinted, Hints
  <2>5. ParkedSenders # {} /\ len < N /\ receiverCount > 0 => writable > 0
    BY <2>1, <2>3, Facts DEF IInv, Hinted, Hints
  <2> QED
    BY <2>4, <2>5 DEF NobodyStranded
<1> QED
  BY <1>1, InvariantHolds, PTL

\* The content of the abstract queue, and its form in an orderly ring.
Content == [i \in 1 .. len |-> slots[(head + i - 1) % N]]
Carried(m, k) == [i \in 1 .. m |-> k + i]

\* Each place of the ring carries the value the FIFO has in it.
LEMMA ContentCarried == RingTyped /\ Ordered => Content = Carried(len, sent - len)
<1> QED
  BY DEF RingTyped, Ordered, Content, Carried

\* The same after a step.
LEMMA ContentCarriedThen == RingTyped' /\ Ordered' => Content' = Carried(len', sent' - len')
<1> QED
  BY DEF RingTyped, Ordered, Content, Carried

(* Consecutive numbers, as a sequence.                                     *)
LEMMA CarriedSequence ==
    ASSUME NEW m \in Nat, NEW k \in Nat
    PROVE  /\ Carried(m, k) \in Seq(Nat) /\ Len(Carried(m, k)) = m
           /\ Append(Carried(m, k), k + m + 1) = Carried(m + 1, k)
           /\ m > 0 => /\ Carried(m, k) # <<>> /\ Head(Carried(m, k)) = k + 1
                       /\ Tail(Carried(m, k)) = Carried(m - 1, k + 1)
<1>1. Carried(m, k) \in Seq(Nat) /\ Len(Carried(m, k)) = m
  BY DEF Carried
<1>2. Append(Carried(m, k), k + m + 1) = Carried(m + 1, k)
  BY <1>1 DEF Carried
<1>3. ASSUME m > 0 PROVE Carried(m, k) # <<>> /\ Head(Carried(m, k)) = k + 1
  BY <1>1, <1>3, EmptySeq, HeadTailProperties DEF Carried
<1>4. ASSUME m > 0 PROVE Tail(Carried(m, k)) = Carried(m - 1, k + 1)
  <2> DEFINE t == Tail(Carried(m, k))
             c == Carried(m - 1, k + 1)
  <2>1. t \in Seq(Nat) /\ Len(t) = m - 1 /\ \A i \in 1 .. Len(t) : t[i] = Carried(m, k)[i + 1]
    BY <1>1, <1>3, <1>4, HeadTailProperties
  <2>2. c \in Seq(Nat) /\ Len(c) = m - 1 /\ \A i \in 1 .. m - 1 : c[i] = (k + 1) + i
    BY <1>4 DEF Carried
  <2>3. \A i \in 1 .. m - 1 : i + 1 \in 1 .. m /\ Carried(m, k)[i + 1] = k + (i + 1)
    BY <1>4 DEF Carried
  <2>4. \A i \in 1 .. Len(t) : t[i] = c[i]
    BY <2>1, <2>2, <2>3
  <2> HIDE DEF t, c
  <2>5. t = c
    BY <2>1, <2>2, <2>4, SeqEqual
  <2> QED
    BY <2>5 DEF t, c
<1> QED
  BY <1>1, <1>2, <1>3, <1>4

(* Each step is one of the abstract queue, or none.                        *)
LEMMA StepRefines == IInv /\ [Next]_vars => [Fifo!Next]_(Fifo!vars)
<1> SUFFICES ASSUME IInv, [Next]_vars PROVE [Fifo!Next]_(Fifo!vars)
  OBVIOUS
<1>1. RingTyped /\ Ordered /\ RingTyped' /\ Ordered' /\ len \in Nat /\ sent - len \in Nat /\ len <= N
  BY StepHolds DEF IInv, Typed, RingTyped, Ordered
<1>2. Content = Carried(len, sent - len) /\ Content' = Carried(len', sent' - len')
  BY <1>1, ContentCarried, ContentCarriedThen
<1>3. ASSUME Enqueue, receiverCount > 0, receiverCount' = receiverCount PROVE Fifo!Put
  <2>1. len < N /\ len' = len + 1 /\ sent' - len' = sent - len
    BY <1>1, <1>3 DEF Enqueue, RingTyped
  <2>2. Len(Content) = len /\ Content' = Append(Content, (sent - len) + Len(Content) + 1)
    BY <1>1, <1>2, <2>1, CarriedSequence
  <2>3. UNCHANGED <<sent - len, receiverCount > 0>>
    BY <1>3, <2>1
  <2> QED
    BY <1>3, <2>1, <2>2, <2>3 DEF Fifo!Put, Content
<1>4. ASSUME Dequeue, receiverCount > 0, receiverCount' = receiverCount PROVE Fifo!Take
  <2>1. len > 0 /\ len' = len - 1 /\ sent' - len' = (sent - len) + 1
    BY <1>1, <1>4 DEF Dequeue, RingTyped
  <2>2. Content # <<>> /\ Head(Content) = (sent - len) + 1 /\ Content' = Tail(Content)
    <3>1. /\ Carried(len, sent - len) # <<>>
          /\ Head(Carried(len, sent - len)) = (sent - len) + 1
          /\ Tail(Carried(len, sent - len)) = Carried(len - 1, (sent - len) + 1)
      BY <1>1, <2>1, CarriedSequence
    <3>2. Content' = Carried(len - 1, (sent - len) + 1)
      BY <1>2, <2>1
    <3> QED
      BY <1>2, <3>1, <3>2
  <2> QED
    BY <1>4, <2>1, <2>2 DEF Fifo!Take, Content
<1>5. ASSUME UNCHANGED ring, UNCHANGED (receiverCount > 0) PROVE UNCHANGED Fifo!vars
  BY <1>5 DEF ring, Fifo!vars
<1>7. ASSUME NEW s \in Senders, ShareSender(s) \/ SendParks(s) \/ CancelSend(s) \/ DropSender(s)
      PROVE  UNCHANGED Fifo!vars
  BY <1>5, <1>7 DEF ShareSender, SendParks, CancelSend, DropSender, receiving
<1>8. ASSUME NEW s \in Senders, TrySend(s) \/ ResumeSend(s)
      PROVE  Fifo!Put \/ UNCHANGED Fifo!vars
  BY <1>3, <1>5, <1>8 DEF TrySend, ResumeSend, receiving, ring
<1>9. ASSUME NEW r \in Receivers, ReceiveParks(r) \/ CancelReceive(r)
      PROVE  UNCHANGED Fifo!vars
  BY <1>5, <1>9 DEF ReceiveParks, CancelReceive
<1>10. ASSUME NEW r \in Receivers, TryReceive(r) \/ ResumeReceive(r)
      PROVE  Fifo!Take \/ UNCHANGED Fifo!vars
  <2>1. receiverCount > 0 /\ receiverCount' = receiverCount
    BY <1>10, AliveCounts DEF TryReceive, ResumeReceive, receiving
  <2>2. Dequeue \/ UNCHANGED ring
    BY <1>10 DEF TryReceive, ResumeReceive, ring
  <2> QED
    BY <1>4, <1>5, <2>1, <2>2
<1>11. ASSUME NEW r \in Receivers, ShareReceiver(r) PROVE UNCHANGED Fifo!vars
  <2>1. receiverCount > 0 /\ receiverCount' = receiverCount + 1 /\ UNCHANGED ring
    BY <1>11, AliveCounts DEF ShareReceiver
  <2>2. receiverCount' > 0
    BY <2>1, Facts
  <2> QED
    BY <1>5, <2>1, <2>2
<1>12. ASSUME NEW r \in Receivers, DropReceiver(r) PROVE Fifo!Close \/ UNCHANGED Fifo!vars
  <2>1. receiverCount > 0 /\ receiverCount' = receiverCount - 1 /\ UNCHANGED ring
    BY <1>12, AliveCounts DEF DropReceiver
  <2>2. CASE receiverCount' > 0
    BY <1>5, <2>1, <2>2
  <2>3. CASE ~(receiverCount' > 0)
    <3>1. (receiverCount > 0)' = FALSE /\ UNCHANGED <<len, sent, Content>>
      BY <2>1, <2>3 DEF ring, Content
    <3> QED
      BY <3>1 DEF Fifo!Close, Content
  <2> QED
    BY <2>2, <2>3
<1>13. CASE UNCHANGED vars
  BY <1>5, <1>13 DEF vars, receiving
<1> QED
  BY <1>7, <1>8, <1>9, <1>10, <1>11, <1>12, <1>13 DEF Next, Fifo!Next

(* The ring, its index arithmetic and its wrap-around carry values as the  *)
(* abstract bounded queue does: each once, in order, none after closure.   *)
THEOREM ChannelImplementsFifo == Spec => FifoSpec
<1>1. IInv /\ Init => Fifo!Init
  <2> SUFFICES ASSUME IInv, Init PROVE Fifo!Init
    OBVIOUS
  <2>1. len = 0 /\ sent = 0 /\ receiverCount = 1
    BY DEF Init
  <2>2. Content = <<>>
    BY <2>1, EmptySeq DEF Content
  <2> QED
    BY <2>1, <2>2 DEF Fifo!Init, Content
<1> QED
  BY <1>1, InitHolds, StepRefines, InvariantHolds, PTL DEF Spec, FifoSpec, Fifo!Spec
=============================================================================
