----------------------------- MODULE SyncChannel -----------------------------
(***************************************************************************)
(* std/sync Channel: a ring of N slots in one shared state, its sending    *)
(* and receiving endpoints, and two Notifications: one byte per value put  *)
(* for the receivers, one per value taken for the senders.                 *)
(*                                                                         *)
(* Each Sender or Receiver value is an endpoint with at most one send or   *)
(* receive in progress (it is borrowed for that long); the values sent are *)
(* numbered in the order in which they enter the ring, 0 is an empty slot. *)
(***************************************************************************)
EXTENDS Notification, Sequences, FiniteSets

CONSTANTS
    N,              \* the positive capacity in the channel's type
    Senders,        \* the endpoints that can be shared out
    Receivers,
    MaxValues       \* values a run may send (bounds the model only)

ASSUME SyncChannelAssumption ==
    /\ N \in Nat \ {0}
    /\ IsFiniteSet(Senders) /\ IsFiniteSet(Receivers)
    /\ Senders # {} /\ Receivers # {}
    /\ MaxValues \in Nat

\* A hint for every waiter fits in the pipe (it holds thousands).
ASSUME PipeAssumption ==
    PipeCapacity >= Cardinality(Senders) /\ PipeCapacity >= Cardinality(Receivers)

VARIABLES
    slots, head, len,               \* the ring
    senderCount, receiverCount,     \* the counters of ChannelState
    readable, writable,             \* hints in the two pipes
    sender, receiver,               \* where each endpoint is
    sent                            \* values that entered the ring

ring == <<slots, head, len, sent>>
sending == <<sender, senderCount>>
receiving == <<receiver, receiverCount>>
vars == <<ring, readable, writable, sending, receiving>>

Places == {"unborn", "open", "parked", "dropped"}

Init ==
    /\ slots = [i \in 0 .. N - 1 |-> 0]
    /\ head = 0 /\ len = 0 /\ sent = 0
    /\ senderCount = 1 /\ receiverCount = 1
    /\ readable = 0 /\ writable = 0
    /\ \E s \in Senders : sender = [x \in Senders |-> IF x = s THEN "open" ELSE "unborn"]
    /\ \E r \in Receivers : receiver = [x \in Receivers |-> IF x = r THEN "open" ELSE "unborn"]

\* Mutant: the value is stored past the length, head left out.
EnqueueAtLen ==
    /\ len < N /\ sent < MaxValues
    /\ slots' = [slots EXCEPT ![len] = sent + 1]
    /\ sent' = sent + 1
    /\ len' = len + 1
    /\ UNCHANGED head

Enqueue ==
    /\ len < N /\ sent < MaxValues
    /\ slots' = [slots EXCEPT ![(head + len) % N] = sent + 1]
    /\ sent' = sent + 1
    /\ len' = len + 1
    /\ UNCHANGED head

Dequeue ==
    /\ len > 0
    /\ slots' = [slots EXCEPT ![head] = 0]
    /\ head' = (head + 1) % N
    /\ len' = len - 1
    /\ UNCHANGED sent

-----------------------------------------------------------------------------
(* Senders.                                                                *)

ShareSender(s) ==
    /\ sender[s] = "unborn"
    /\ \E x \in Senders : sender[x] \in {"open", "parked"}
    /\ sender' = [sender EXCEPT ![s] = "open"]
    /\ senderCount' = senderCount + 1
    /\ UNCHANGED <<ring, readable, writable, receiving>>

\* try_send, or the first poll of send, with room; the other outcomes of try_send change nothing.
TrySend(s) ==
    /\ sender[s] = "open"
    /\ receiverCount > 0
    /\ Enqueue
    /\ readable' = Signalled(readable)
    /\ UNCHANGED <<writable, sending, receiving>>

\* The first poll of send, without room.
SendParks(s) ==
    /\ sender[s] = "open"
    /\ receiverCount > 0 /\ len = N
    /\ sender' = [sender EXCEPT ![s] = "parked"]
    /\ writable' = AllRead(writable)
    /\ UNCHANGED <<ring, readable, senderCount, receiving>>

\* A later poll of send: the value is sent, comes back, or waits on.
ResumeSend(s) ==
    /\ sender[s] = "parked"
    /\ writable > 0
    /\ \/ /\ receiverCount > 0 /\ Enqueue
          /\ sender' = [sender EXCEPT ![s] = "open"]
          /\ readable' = Signalled(readable)
          /\ writable' = OneRead(writable)
       \/ /\ receiverCount = 0
          /\ sender' = [sender EXCEPT ![s] = "open"]
          /\ writable' = OneRead(writable)
          /\ UNCHANGED <<ring, readable>>
       \/ /\ receiverCount > 0 /\ len = N
          /\ writable' = AllRead(writable)
          /\ UNCHANGED <<ring, readable, sender>>
    /\ UNCHANGED <<senderCount, receiving>>

CancelSend(s) ==
    /\ sender[s] = "parked"
    /\ sender' = [sender EXCEPT ![s] = "open"]
    /\ UNCHANGED <<ring, readable, writable, senderCount, receiving>>

DropSender(s) ==
    /\ sender[s] = "open"
    /\ sender' = [sender EXCEPT ![s] = "dropped"]
    /\ senderCount' = senderCount - 1
    /\ readable' = IF senderCount = 1 THEN Signalled(readable) ELSE readable
    /\ UNCHANGED <<ring, writable, receiving>>

-----------------------------------------------------------------------------
(* Receivers.                                                              *)

\* Mutant: the new endpoint is not counted.
ShareReceiverUncounted(r) ==
    /\ receiver[r] = "unborn"
    /\ \E x \in Receivers : receiver[x] \in {"open", "parked"}
    /\ receiver' = [receiver EXCEPT ![r] = "open"]
    /\ UNCHANGED <<ring, readable, writable, sending, receiverCount>>

ShareReceiver(r) ==
    /\ receiver[r] = "unborn"
    /\ \E x \in Receivers : receiver[x] \in {"open", "parked"}
    /\ receiver' = [receiver EXCEPT ![r] = "open"]
    /\ receiverCount' = receiverCount + 1
    /\ UNCHANGED <<ring, readable, writable, sending>>

\* try_receive, or the first poll of receive, with a value.
TryReceive(r) ==
    /\ receiver[r] = "open"
    /\ Dequeue
    /\ writable' = Signalled(writable)
    /\ UNCHANGED <<readable, sending, receiving>>

\* The first poll of receive, on an empty channel that is not closed.
ReceiveParks(r) ==
    /\ receiver[r] = "open"
    /\ len = 0 /\ senderCount > 0
    /\ receiver' = [receiver EXCEPT ![r] = "parked"]
    /\ readable' = AllRead(readable)
    /\ UNCHANGED <<ring, writable, sending, receiverCount>>

\* Mutant: one poll reads every hint there is, whatever comes of it.
ResumeReceiveGreedy(r) ==
    /\ receiver[r] = "parked"
    /\ readable > 0
    /\ readable' = AllRead(readable)
    /\ \/ /\ Dequeue
          /\ receiver' = [receiver EXCEPT ![r] = "open"]
          /\ writable' = Signalled(writable)
       \/ /\ len = 0 /\ senderCount = 0
          /\ receiver' = [receiver EXCEPT ![r] = "open"]
          /\ UNCHANGED <<ring, writable>>
       \/ /\ len = 0 /\ senderCount > 0
          /\ UNCHANGED <<ring, writable, receiver>>
    /\ UNCHANGED <<sending, receiverCount>>

\* A later poll of receive: a value, the final closure, or nothing yet.
ResumeReceive(r) ==
    /\ receiver[r] = "parked"
    /\ readable > 0
    /\ \/ /\ Dequeue
          /\ receiver' = [receiver EXCEPT ![r] = "open"]
          /\ writable' = Signalled(writable)
          /\ readable' = OneRead(readable)
       \/ /\ len = 0 /\ senderCount = 0
          /\ receiver' = [receiver EXCEPT ![r] = "open"]
          /\ readable' = OneRead(readable)
          /\ UNCHANGED <<ring, writable>>
       \/ /\ len = 0 /\ senderCount > 0
          /\ readable' = AllRead(readable)
          /\ UNCHANGED <<ring, writable, receiver>>
    /\ UNCHANGED <<sending, receiverCount>>

CancelReceive(r) ==
    /\ receiver[r] = "parked"
    /\ receiver' = [receiver EXCEPT ![r] = "open"]
    /\ UNCHANGED <<ring, readable, writable, sending, receiverCount>>

DropReceiver(r) ==
    /\ receiver[r] = "open"
    /\ receiver' = [receiver EXCEPT ![r] = "dropped"]
    /\ receiverCount' = receiverCount - 1
    /\ writable' = IF receiverCount = 1 THEN Signalled(writable) ELSE writable
    /\ UNCHANGED <<ring, readable, sending>>

-----------------------------------------------------------------------------

Next ==
    \/ \E s \in Senders :
         ShareSender(s) \/ TrySend(s) \/ SendParks(s) \/ ResumeSend(s) \/ CancelSend(s) \/ DropSender(s)
    \/ \E r \in Receivers :
         \/ ShareReceiver(r) \/ TryReceive(r) \/ ReceiveParks(r)
         \/ ResumeReceive(r) \/ CancelReceive(r) \/ DropReceiver(r)

\* The executor polls a task whose descriptor stays ready.
Spec ==
    /\ Init /\ [][Next]_vars
    /\ \A s \in Senders : WF_vars(ResumeSend(s))
    /\ \A r \in Receivers : WF_vars(ResumeReceive(r))

-----------------------------------------------------------------------------
(* Properties.                                                             *)

ParkedSenders   == {s \in Senders : sender[s] = "parked"}
ParkedReceivers == {r \in Receivers : receiver[r] = "parked"}

(* The counters count the endpoints there are, so neither side closes      *)
(* while somebody can still use it, and none underflows (invariant_abort). *)
CountsExact ==
    /\ senderCount = Cardinality({s \in Senders : sender[s] \in {"open", "parked"}})
    /\ receiverCount = Cardinality({r \in Receivers : receiver[r] \in {"open", "parked"}})

(* No lost wakeup: while somebody waits for a value and the ring holds one,*)
(* or waits for room and there is some, a hint is left, although endpoints *)
(* that need not wait take values and slots too, hints of theirs stay      *)
(* behind, and a waiter may leave.                                         *)
NobodyStranded ==
    /\ ParkedReceivers # {} /\ len > 0 => readable > 0
    /\ ParkedSenders # {} /\ len < N /\ receiverCount > 0 => writable > 0

(* The closure of the channel is reported: no receive waits for ever on a  *)
(* channel without senders, no send on one without receivers.              *)
ClosureReported ==
    /\ \A r \in Receivers : receiver[r] = "parked" /\ senderCount = 0 ~> receiver[r] # "parked"
    /\ \A s \in Senders : sender[s] = "parked" /\ receiverCount = 0 ~> sender[s] # "parked"

Fifo == INSTANCE BoundedFifo WITH
    Capacity <- N,
    content <- [i \in 1 .. len |-> slots[(head + i - 1) % N]],
    taken <- sent - len,
    receivable <- receiverCount > 0

(* The ring carries values as the abstract bounded queue does.             *)
FifoSpec == Fifo!Spec
=============================================================================
