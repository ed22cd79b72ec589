----------------------------- MODULE DurableStore -----------------------------
(***************************************************************************)
(* What a durable store promises: states are numbered from 1 in the order  *)
(* in which they are published, whoever opens the store sees the last one  *)
(* that is left, never an edit that was not published, and a commit        *)
(* returns the number of the state its owner shows.  A power loss takes    *)
(* back only what nobody has secured: a commit with changes, a compaction  *)
(* or a change of format that returns secures all that is published; a     *)
(* commit without changes answers and secures nothing.                     *)
(***************************************************************************)
EXTENDS Naturals, Sequences

CONSTANTS States, Blank, Closed

VARIABLES
    view,       \* the state the usable owner shows, or Closed
    log,        \* log[n]: the state published under sequence n
    told,       \* the last sequence a commit has returned
    safe,       \* the last sequence that is secured
    writing     \* the owner has published and its commit has not returned

vars == <<view, log, told, safe, writing>>

Latest == IF log = <<>> THEN Blank ELSE log[Len(log)]

Init ==
    /\ view = Closed
    /\ log \in Seq(States)
    /\ told = Len(log)
    /\ safe = Len(log)
    /\ writing = FALSE

\* A store in an old format is secured as it is opened.
Open ==
    /\ view = Closed
    /\ view' = Latest
    /\ safe' \in {safe, Len(log)}
    /\ UNCHANGED <<log, told, writing>>

Edit ==
    /\ view # Closed
    /\ ~writing
    /\ view' \in States
    /\ UNCHANGED <<log, told, safe, writing>>

\* An owner whose commit fails may have published, and then shows nothing any more.
Publish ==
    /\ view # Closed
    /\ ~writing
    /\ log' = Append(log, view)
    /\ \/ view' = view /\ writing' = TRUE
       \/ view' = Closed /\ writing' = FALSE
    /\ UNCHANGED <<told, safe>>

\* A commit of nothing.
Answer ==
    /\ view = Latest
    /\ ~writing
    /\ told' = Len(log)
    /\ UNCHANGED <<view, log, safe, writing>>

\* A commit with changes returns, or a compaction, which tells no sequence.
Secure ==
    /\ view = Latest
    /\ safe' = Len(log)
    /\ \/ writing /\ told' = Len(log)
       \/ ~writing /\ told' = told
    /\ writing' = FALSE
    /\ UNCHANGED <<view, log>>

Stop ==
    /\ view' = Closed
    /\ writing' = FALSE
    /\ UNCHANGED <<log, told, safe>>

Lose ==
    /\ view' = Closed
    /\ writing' = FALSE
    /\ \E n \in safe .. Len(log) : log' = SubSeq(log, 1, n)
    /\ UNCHANGED <<told, safe>>

Next == Open \/ Edit \/ Publish \/ Answer \/ Secure \/ Stop \/ Lose

Spec == Init /\ [][Next]_vars
=============================================================================
