---------------------------- MODULE InstallerProofs ----------------------------
(***************************************************************************)
(* For any releases: an installation that may fail or die anywhere, and    *)
(* the recovery of what was interrupted, replace the home in effect at one *)
(* moment, by the wanted release.                                          *)
(*                                                                         *)
(* The invariant says what each step can rely on.  A home that counts is   *)
(* never a broken one (Whole); what a removal may damage holds no home     *)
(* that counts (Disposable); and from the marker to the renames the        *)
(* transaction holds what the step is about to put in place (Prepared).    *)
(***************************************************************************)
EXTENDS Installer, TLAPS

Trees == Releases \cup {Nothing, Broken}
Directories == [marker : BOOLEAN, stage : Trees, previous : Trees]
Steps ==
    {"idle", "recover", "inspect", "stale", "restored", "create", "mark", "stage", "extract",
     "commit", "publish", "rollback", "finish", "drop"}

Typed ==
    /\ destination \in Releases \cup {Nothing}
    /\ transaction = {} \/ \E t \in Directories : transaction = {t}
    /\ pc \in Steps
    /\ wanted \in Releases
    /\ active \in BOOLEAN /\ existing \in BOOLEAN /\ cleanup \in BOOLEAN

Whole == destination = Nothing => \A t \in transaction : t.marker => t.previous # Broken

NothingAside == \A t \in transaction : t.previous = Nothing

\* What is about to be removed holds no home that counts.
Disposable ==
    /\ cleanup => NothingAside
    /\ pc = "stale" => destination # Nothing \/ NothingAside
    /\ pc \in {"restored", "finish"} => destination # Nothing

\* What the steps of one installation have prepared for the ones to come.
Prepared ==
    /\ pc \in {"create", "mark", "stage", "extract", "commit"} => (existing <=> destination # Nothing)
    /\ pc = "mark" => transaction = {Directory(FALSE, Nothing, Nothing)}
    /\ pc \in {"stage", "extract", "commit"} => NothingAside
    /\ pc \in {"stage", "extract", "commit", "publish", "rollback"} => \E t \in transaction : t.marker
    /\ pc \in {"commit", "publish"} => \A t \in transaction : t.stage = wanted
    /\ pc \in {"publish", "rollback"} =>
          destination = Nothing /\ \A t \in transaction : t.previous \in Releases

InstallerInv == Typed /\ Whole /\ Disposable /\ Prepared

-----------------------------------------------------------------------------

\* The home in effect, as a function of the two places it may be at.
Effective(d, T) ==
    IF d # Nothing THEN d
    ELSE IF \E t \in T : t.marker THEN (CHOOSE t \in T : TRUE).previous ELSE Nothing

\* With one transaction directory at most, its previous home is the one that counts.
LEMMA EffectiveIs ==
    ASSUME NEW d
    PROVE  /\ d # Nothing => \A T : Effective(d, T) = d
           /\ Effective(Nothing, {}) = Nothing
           /\ \A t : Effective(Nothing, {t}) = IF t.marker THEN t.previous ELSE Nothing
<1>1. \A t : (CHOOSE u \in {t} : TRUE) = t
  OBVIOUS
<1> QED
  BY <1>1 DEF Effective

\* What a removal leaves of a directory: at most its marker, and no home that was not there.
LEMMA RemainsTyped ==
    ASSUME Typed, NEW T \in Remains
    PROVE  \E t \in transaction, u \in Directories :
              /\ T = {u}
              /\ u.marker => t.marker
              /\ t.previous = Nothing => u.previous = Nothing
<1>1. PICK t \in transaction : T \in {{left} : left \in LeftOf(t)}
  BY DEF Remains
<1>2. PICK u \in LeftOf(t) : T = {u}
  BY <1>1
<1>3. t \in Directories
  BY DEF Typed
<1> QED
  BY <1>2, <1>3 DEF LeftOf, Directories, Leavings, Trees

-----------------------------------------------------------------------------
(* What a step means to the user.                                          *)

Atomically == [Atomic!Next]_(Atomic!vars)

\* Most steps change neither the home in effect nor how the last installation ended.
LEMMA Invisible ==
    ASSUME InEffect' = InEffect, wanted' = wanted, Phase' = Phase, last' = last
    PROVE  Atomically
<1> QED
  BY DEF Atomically, Atomic!vars

\* The end of an installation, reported or not.
LEMMA Ends ==
    ASSUME InEffect' = InEffect, wanted' = wanted, pc # "idle", pc' = "idle",
           \/ last' = "installed" /\ pc = "finish"
           \/ last' = "failed" /\ pc # "finish"
           \/ last' = "died"
    PROVE  Atomically
<1>1. Atomic!End({"asked", "done"}, "died") \/ last' # "died"
  BY DEF Atomic!End, Phase
<1>2. Atomic!End({"done"}, "installed") \/ last' # "installed"
  BY DEF Atomic!End, Phase
<1>3. Atomic!End({"asked"}, "failed") \/ last' # "failed"
  BY DEF Atomic!End, Phase
<1> QED
  BY <1>1, <1>2, <1>3 DEF Atomically, Atomic!Next
-----------------------------------------------------------------------------
(* The steps that move nothing.                                            *)

Unmoved == destination' = destination /\ transaction' = transaction

\* The home in effect is where it was.
LEMMA UnmovedEffect ==
    ASSUME Unmoved
    PROVE  InEffect' = InEffect
<1> QED
  BY DEF Unmoved, InEffect

\* Begin asks for a release.
LEMMA BeginStep ==
    ASSUME InstallerInv, NEW release \in Releases, NEW here \in BOOLEAN, Begin(release, here)
    PROVE  InstallerInv' /\ Atomically
<1>1. InstallerInv'
  BY DEF InstallerInv, Typed, Whole, NothingAside, Disposable, Prepared, Steps, Begin, At
<1>2. InEffect' = InEffect
  BY UnmovedEffect DEF Begin, Unmoved
<1>3. Atomic!Ask
  BY <1>2 DEF Begin, At, Atomic!Ask, Phase
<1> QED
  BY <1>1, <1>3 DEF Atomically, Atomic!Next

\* What is found decides where an installation goes on.
LEMMA LookingStep ==
    ASSUME InstallerInv,
           NothingToRecover \/ RecoveryRefuses \/ FindStale \/ Inspect \/ OperationFails
    PROVE  InstallerInv' /\ Atomically
<1>1. /\ Unmoved /\ wanted' = wanted /\ active' = active /\ cleanup' = cleanup /\ last' = last
      /\ existing' \in BOOLEAN
      /\ pc # "idle" /\ pc # "finish" /\ pc' \in Steps /\ pc' # "idle" /\ pc' # "finish"
  BY DEF NothingToRecover, RecoveryRefuses, FindStale, Inspect, OperationFails, At, Unmoved, request,
         InstallerInv, Typed, Steps
<1>2. Typed' /\ Whole' /\ (NothingAside' <=> NothingAside)
  BY <1>1 DEF InstallerInv, Typed, Whole, NothingAside, Unmoved
<1>3. Disposable'
  <2>1. ASSUME pc' = "stale" PROVE destination # Nothing \/ NothingAside
    <3>1. FindStale
      BY <2>1 DEF NothingToRecover, RecoveryRefuses, Inspect, OperationFails, At
    <3>2. PICK t \in transaction : destination \in Releases \/ t.previous = Nothing
      BY <3>1 DEF FindStale
    <3>3. transaction = {t}
      BY DEF InstallerInv, Typed
    <3> QED
      BY <3>2, <3>3, InstallerAssumption DEF NothingAside
  <2>2. pc' # "restored"
    BY DEF NothingToRecover, RecoveryRefuses, FindStale, Inspect, OperationFails, At
  <2> QED
    BY <1>1, <1>2, <2>1, <2>2 DEF Disposable, InstallerInv, Unmoved
<1>4. Prepared'
  <2>1. pc' \in {"create", "rollback", "drop", "inspect", "stale"}
    BY DEF NothingToRecover, RecoveryRefuses, FindStale, Inspect, OperationFails, At
  <2>2. pc' = "create" => (existing' <=> destination' # Nothing)
    BY DEF NothingToRecover, RecoveryRefuses, FindStale, Inspect, OperationFails, At
  <2>3. pc' = "rollback" => pc = "publish"
    BY DEF NothingToRecover, RecoveryRefuses, FindStale, Inspect, OperationFails, At
  <2> QED
    BY <1>1, <2>1, <2>2, <2>3 DEF Prepared, InstallerInv, Unmoved
<1>5. InEffect' = InEffect /\ Phase' = Phase
  BY <1>1, UnmovedEffect DEF Phase
<1> QED
  BY <1>1, <1>2, <1>3, <1>4, <1>5, Invisible DEF InstallerInv
-----------------------------------------------------------------------------
(* The steps that change the transaction directory.                        *)

\* The only directory, seen from a state of one installation.
LEMMA TheDirectory ==
    ASSUME InstallerInv, NEW t \in transaction
    PROVE  t \in Directories /\ transaction = {t}
<1> QED
  BY DEF InstallerInv, Typed

\* Restore moves the previous home from one place to the other.
LEMMA RestoreStep ==
    ASSUME InstallerInv, Restore
    PROVE  InstallerInv' /\ Atomically
<1>1. PICK t \in transaction :
          /\ t.marker
          /\ destination = Nothing /\ t.previous \in Releases
          /\ destination' = t.previous
          /\ transaction' = {[t EXCEPT !.previous = Nothing]}
  BY DEF Restore
<1>2. PICK u : u = [t EXCEPT !.previous = Nothing]
  OBVIOUS
<1>3. t \in Directories /\ transaction = {t} /\ u \in Directories /\ u.previous = Nothing
  BY <1>2, TheDirectory DEF Directories, Trees
<1>4. InstallerInv'
  BY <1>1, <1>2, <1>3, InstallerAssumption
  DEF Restore, At, request, InstallerInv, Typed, Steps, Whole, NothingAside, Disposable, Prepared
<1>5. InEffect' = InEffect
  BY <1>1, <1>3, EffectiveIs, InstallerAssumption DEF InEffect, Effective
<1> QED
  BY <1>4, <1>5, Invisible DEF Restore, At, request, Phase

\* A directory that holds no home that counts is removed.
LEMMA RemoveRecoveredStep ==
    ASSUME InstallerInv, RemoveRecovered
    PROVE  InstallerInv' /\ Atomically
<1>1. /\ transaction' = {} /\ destination' = destination
      /\ pc \in {"stale", "restored"} /\ pc' \in {"inspect", "drop"}
      /\ wanted' = wanted /\ active' = active /\ existing' = existing /\ cleanup' = cleanup
      /\ last' = last
  BY DEF RemoveRecovered, At, request
<1>2. destination # Nothing \/ NothingAside
  BY <1>1 DEF InstallerInv, Disposable
<1>3. InstallerInv'
  BY <1>1 DEF InstallerInv, Typed, Steps, Whole, NothingAside, Disposable, Prepared
<1>4. InEffect' = InEffect
  BY <1>1, <1>2, EffectiveIs DEF InstallerInv, Typed, NothingAside, InEffect, Effective
<1> QED
  BY <1>1, <1>3, <1>4, Invisible DEF Phase

\* The directory is made, and marked.
LEMMA CreateStep ==
    ASSUME InstallerInv, Create \/ Mark
    PROVE  InstallerInv' /\ Atomically
<1>1. CASE Create
  <2>1. PICK t : t = Directory(FALSE, Nothing, Nothing)
    OBVIOUS
  <2>2. t \in Directories /\ ~t.marker /\ t.previous = Nothing
    BY <2>1 DEF Directory, Directories, Trees
  <2>3. transaction' = transaction \/ (transaction = {} /\ transaction' = {t})
    BY <1>1, <2>1 DEF Create
  <2>4. pc' = "mark" => transaction' = {t}
    BY <1>1, <2>1 DEF Create, At
  <2>5. InstallerInv'
    BY <1>1, <2>1, <2>2, <2>3, <2>4
    DEF Create, At, request, InstallerInv, Typed, Steps, Whole, NothingAside, Disposable, Prepared
  <2>6. InEffect' = InEffect
    <3>1. destination' = destination
      BY <1>1 DEF Create
    <3>2. CASE transaction' = transaction
      BY <3>1, <3>2 DEF InEffect
    <3>3. CASE transaction = {} /\ transaction' = {t}
      BY <2>2, <3>1, <3>3, EffectiveIs DEF InEffect, Effective
    <3> QED
      BY <2>3, <3>2, <3>3
  <2> QED
    BY <1>1, <2>5, <2>6, Invisible DEF Create, At, request, Phase
<1>2. CASE Mark
  <2>1. PICK t : t = Directory(TRUE, Nothing, Nothing)
    OBVIOUS
  <2>2. PICK u : u = Directory(FALSE, Nothing, Nothing)
    OBVIOUS
  <2>3. t \in Directories /\ t.marker /\ t.previous = Nothing /\ ~u.marker
    BY <2>1, <2>2 DEF Directory, Directories, Trees
  <2>4. transaction = {u} /\ transaction' = {t}
    BY <1>2, <2>1, <2>2 DEF Mark, At, InstallerInv, Prepared
  <2>5. InstallerInv'
    BY <1>2, <2>3, <2>4, InstallerAssumption
    DEF Mark, At, request, InstallerInv, Typed, Steps, Whole, NothingAside, Disposable, Prepared
  <2>6. InEffect' = InEffect
    BY <1>2, <2>3, <2>4, EffectiveIs DEF Mark, InEffect, Effective
  <2> QED
    BY <1>2, <2>5, <2>6, Invisible DEF Mark, At, request, Phase
<1> QED
  BY <1>1, <1>2

\* Extraction changes the stage only.
LEMMA StageStep ==
    ASSUME InstallerInv,
           Stage("stage", "extract", Broken) \/ Stage("extract", "commit", wanted)
    PROVE  InstallerInv' /\ Atomically
<1>1. PICK content \in Trees :
          /\ transaction' = { [t EXCEPT !.stage = content] : t \in transaction }
          /\ pc' = "commit" => content = wanted
          /\ pc \in {"stage", "extract"} /\ pc' \in {"extract", "commit"}
          /\ UNCHANGED <<destination, request, existing, cleanup, last>>
  BY DEF Stage, At, InstallerInv, Typed, Trees
<1>2. PICK t \in transaction : t.marker
  BY <1>1 DEF InstallerInv, Prepared
<1>3. PICK u : u = [t EXCEPT !.stage = content]
  OBVIOUS
<1>4. t \in Directories /\ transaction = {t} /\ transaction' = {u}
  BY <1>1, <1>3, TheDirectory
<1>5. u \in Directories /\ u.marker /\ u.previous = t.previous /\ u.stage = content
  BY <1>1, <1>2, <1>3, <1>4 DEF Directories
<1>6. InstallerInv'
  <2>1. Typed' /\ Whole' /\ (NothingAside' <=> NothingAside)
    BY <1>1, <1>2, <1>4, <1>5 DEF request, InstallerInv, Typed, Steps, Whole, NothingAside
  <2>2. Disposable'
    BY <1>1, <2>1 DEF request, InstallerInv, Disposable
  <2>3. Prepared'
    BY <1>1, <1>4, <1>5, <2>1 DEF request, InstallerInv, Prepared
  <2> QED
    BY <2>1, <2>2, <2>3 DEF InstallerInv
<1>7. InEffect' = InEffect
  BY <1>1, <1>2, <1>4, <1>5, EffectiveIs DEF InEffect, Effective
<1> QED
  BY <1>1, <1>6, <1>7, Invisible DEF request, Phase
-----------------------------------------------------------------------------
(* The renames.                                                            *)

\* The old home goes aside, where it stays in effect.
LEMMA SetAsideStep ==
    ASSUME InstallerInv, SetAside
    PROVE  InstallerInv' /\ Atomically
<1>1. /\ pc = "commit" /\ pc' = "publish" /\ existing /\ ~cleanup' /\ cleanup' \in BOOLEAN
      /\ destination \in Releases /\ destination' = Nothing
      /\ UNCHANGED <<wanted, active, existing, last>>
  BY DEF SetAside, At, request, InstallerInv, Typed, Prepared
<1>2. PICK t \in transaction : t.marker
  BY <1>1 DEF InstallerInv, Prepared
<1>3. PICK u : u = [t EXCEPT !.previous = destination]
  OBVIOUS
<1>4. t \in Directories /\ transaction = {t} /\ transaction' = {u}
  BY <1>2, <1>3, TheDirectory DEF SetAside
<1>5. u \in Directories /\ u.marker /\ u.previous = destination /\ u.stage = t.stage
  BY <1>1, <1>2, <1>3, <1>4 DEF Directories, Trees
<1>6. InstallerInv'
  BY <1>1, <1>4, <1>5, InstallerAssumption
  DEF InstallerInv, Typed, Steps, Whole, NothingAside, Disposable, Prepared
<1>7. InEffect' = InEffect
  BY <1>1, <1>4, <1>5, EffectiveIs, InstallerAssumption DEF InEffect, Effective
<1> QED
  BY <1>1, <1>6, <1>7, Invisible DEF Phase

\* Publish is the moment at which the wanted release takes effect.
LEMMA PublishStep ==
    ASSUME InstallerInv, Publish
    PROVE  InstallerInv' /\ Atomically
<1>1. /\ pc \in {"commit", "publish"} /\ pc' = "finish" /\ ~cleanup' /\ cleanup' \in BOOLEAN
      /\ UNCHANGED <<wanted, active, existing, last>>
      /\ wanted \in Releases
  BY DEF Publish, At, request, InstallerInv, Typed
<1>2. PICK t \in transaction :
          /\ destination' = t.stage
          /\ transaction' = {[t EXCEPT !.stage = Nothing]}
  BY DEF Publish
<1>3. PICK u : u = [t EXCEPT !.stage = Nothing]
  OBVIOUS
<1>4. t \in Directories /\ transaction' = {u} /\ t.stage = wanted
  BY <1>1, <1>2, <1>3, TheDirectory DEF InstallerInv, Prepared
<1>5. u \in Directories
  BY <1>3, <1>4 DEF Directories, Trees
<1>6. destination' = wanted /\ wanted # Nothing
  BY <1>1, <1>2, <1>4, InstallerAssumption
<1>7. InstallerInv'
  BY <1>1, <1>4, <1>5, <1>6 DEF InstallerInv, Typed, Steps, Whole, Disposable, Prepared
<1>8. InEffect' = wanted
  BY <1>6, EffectiveIs DEF InEffect, Effective
<1>9. Atomic!Replace
  BY <1>1, <1>8 DEF Atomic!Replace, Phase
<1> QED
  BY <1>7, <1>9 DEF Atomically, Atomic!Next

\* The home that was set aside goes back to its place.
LEMMA RollBackStep ==
    ASSUME InstallerInv, RollBack
    PROVE  InstallerInv' /\ Atomically
<1>1. /\ pc = "rollback" /\ pc' = "drop" /\ cleanup' \in BOOLEAN
      /\ destination = Nothing
      /\ UNCHANGED <<wanted, active, existing, last>>
  BY DEF RollBack, At, request, InstallerInv, Prepared
<1>2. PICK t \in transaction :
          /\ destination' = t.previous
          /\ transaction' = {[t EXCEPT !.previous = Nothing]}
  BY DEF RollBack
<1>3. PICK u : u = [t EXCEPT !.previous = Nothing]
  OBVIOUS
<1>4. t \in Directories /\ transaction = {t} /\ transaction' = {u} /\ t.marker /\ t.previous \in Releases
  BY <1>1, <1>2, <1>3, TheDirectory DEF InstallerInv, Prepared
<1>5. u \in Directories /\ u.previous = Nothing
  BY <1>3, <1>4 DEF Directories, Trees
<1>6. InstallerInv'
  BY <1>1, <1>2, <1>4, <1>5, InstallerAssumption
  DEF InstallerInv, Typed, Steps, Whole, NothingAside, Disposable, Prepared
<1>7. InEffect' = InEffect
  BY <1>1, <1>2, <1>4, EffectiveIs, InstallerAssumption DEF InEffect, Effective
<1> QED
  BY <1>1, <1>6, <1>7, Invisible DEF Phase

-----------------------------------------------------------------------------
(* How an installation ends.                                               *)

\* A step that may damage or remove the directory leaves the home in effect where it is.
LEMMA RemovedEffect ==
    ASSUME InstallerInv, destination # Nothing \/ NothingAside,
           destination' = destination, transaction' \in Remains \cup {{}, transaction}
    PROVE  /\ InEffect' = InEffect
           /\ NothingAside => NothingAside'
           /\ transaction' = {} \/ \E t \in Directories : transaction' = {t}
           /\ Whole'
<1>1. CASE transaction' \in Remains
  <2>1. PICK T \in Remains : T = transaction'
    BY <1>1
  <2>2. PICK t \in transaction, u \in Directories :
            /\ T = {u}
            /\ u.marker => t.marker
            /\ t.previous = Nothing => u.previous = Nothing
    BY <2>1, RemainsTyped DEF InstallerInv
  <2>3. transaction = {t} /\ transaction' = {u}
    BY <2>1, <2>2, TheDirectory
  <2>4. CASE destination # Nothing
    BY <2>2, <2>3, <2>4, EffectiveIs DEF InEffect, Effective, NothingAside, Whole
  <2>5. CASE destination = Nothing
    <3>1. t.previous = Nothing /\ u.previous = Nothing
      BY <2>2, <2>5 DEF NothingAside
    <3> QED
      BY <2>2, <2>3, <2>5, <3>1, EffectiveIs, InstallerAssumption DEF InEffect, Effective, NothingAside, Whole
  <2> QED
    BY <2>4, <2>5
<1>2. CASE transaction' = {}
  <2>1. CASE transaction = {}
    BY <1>2, <2>1 DEF InEffect, NothingAside, Whole
  <2>2. CASE transaction # {}
    <3>1. PICK t \in transaction : transaction = {t}
      BY <2>2, TheDirectory
    <3> QED
      BY <1>2, <3>1, EffectiveIs DEF InEffect, Effective, NothingAside, Whole
  <2> QED
    BY <2>1, <2>2
<1>3. CASE transaction' = transaction
  BY <1>3 DEF InEffect, NothingAside, Whole, InstallerInv, Typed
<1> QED
  BY <1>1, <1>2, <1>3

\* An installation that ends takes away at most what holds no home that counts.
LEMMA EndStep ==
    ASSUME InstallerInv, pc # "idle", pc' = "idle",
           UNCHANGED <<destination, request, existing, cleanup>>,
           \/ Removing \/ pc = "mark"
           \/ transaction' = transaction,
           transaction' \in Remains \cup {{}, transaction},
           \/ last' = "installed" /\ pc = "finish"
           \/ last' = "failed" /\ pc # "finish"
           \/ last' = "died"
    PROVE  InstallerInv' /\ Atomically
<1>1. CASE transaction' = transaction
  <2>1. InstallerInv'
    BY <1>1 DEF InstallerInv, Typed, Steps, Whole, NothingAside, Disposable, Prepared, request
  <2>2. InEffect' = InEffect
    BY <1>1, UnmovedEffect DEF Unmoved
  <2> QED
    BY <2>1, <2>2, Ends DEF request
<1>2. CASE transaction' # transaction
  <2>1. destination # Nothing \/ NothingAside
    <3>1. CASE pc = "mark"
      <4>1. Directory(FALSE, Nothing, Nothing).previous = Nothing
        BY DEF Directory
      <4> QED
        BY <3>1, <4>1 DEF InstallerInv, Prepared, NothingAside
    <3>2. CASE Removing
      BY <3>2 DEF Removing, InstallerInv, Disposable
    <3> QED
      BY <1>2, <3>1, <3>2
  <2>2. /\ InEffect' = InEffect
        /\ NothingAside => NothingAside'
        /\ transaction' = {} \/ \E t \in Directories : transaction' = {t}
        /\ Whole'
    BY <2>1, RemovedEffect
  <2>3. InstallerInv'
    BY <2>2 DEF InstallerInv, Typed, Steps, Disposable, Prepared, request
  <2> QED
    BY <2>2, <2>3, Ends DEF request
<1> QED
  BY <1>1, <1>2
-----------------------------------------------------------------------------
(* The system.                                                             *)

\* Initially no home is aside.
LEMMA InitInstaller == Init => InstallerInv /\ Atomic!Init
<1> SUFFICES ASSUME Init PROVE InstallerInv /\ Atomic!Init
  OBVIOUS
<1>1. PICK t : t = Directory(FALSE, Nothing, Nothing)
  OBVIOUS
<1>2. t \in Directories /\ ~t.marker /\ t.previous = Nothing
  BY <1>1 DEF Directory, Directories, Trees
<1>3. transaction = {} \/ transaction = {t}
  BY <1>1 DEF Init
<1>4. InstallerInv
  BY <1>2, <1>3 DEF Init, InstallerInv, Typed, Steps, Whole, NothingAside, Disposable, Prepared
<1>5. InEffect = destination
  BY <1>2, <1>3, EffectiveIs DEF InEffect, Effective
<1> QED
  BY <1>4, <1>5 DEF Init, Atomic!Init, Phase

\* Every step of an installation, and every failure, keeps the invariant and is atomic.
LEMMA NextInstaller ==
    ASSUME InstallerInv, [Next]_vars
    PROVE  InstallerInv' /\ Atomically
<1>1. CASE Starts
  BY <1>1, BeginStep DEF Starts
<1>2. CASE NothingToRecover \/ RecoveryRefuses \/ FindStale \/ Inspect \/ OperationFails
  BY <1>2, LookingStep
<1>3. CASE Restore \/ RemoveRecovered
  BY <1>3, RestoreStep, RemoveRecoveredStep
<1>4. CASE Create \/ Mark
  BY <1>4, CreateStep
<1>5. CASE Stage("stage", "extract", Broken) \/ Stage("extract", "commit", wanted)
  BY <1>5, StageStep
<1>6. CASE SetAside \/ Publish \/ RollBack
  BY <1>6, SetAsideStep, PublishStep, RollBackStep
<1>7. CASE Finish
  <2>1. /\ pc = "finish" /\ pc' = "idle" /\ last' = "installed" /\ transaction' = {}
        /\ UNCHANGED <<destination, request, existing, cleanup>>
    BY <1>7 DEF Finish, Returns
  <2> QED
    BY <2>1, EndStep DEF Removing
<1>8. CASE Drop
  <2>1. /\ pc = "drop" /\ pc' = "idle" /\ last' = "failed"
        /\ transaction' \in {{}, transaction} /\ (cleanup \/ transaction' = transaction)
        /\ UNCHANGED <<destination, request, existing, cleanup>>
    BY <1>8 DEF Drop, Returns
  <2> QED
    BY <2>1, EndStep DEF Removing
<1>9. CASE RemovalFails
  <2>1. CASE At("stale", "drop") \/ At("restored", "drop")
    <3>1. /\ transaction' \in Remains
          /\ pc \in {"stale", "restored"} /\ pc' = "drop"
          /\ UNCHANGED <<destination, request, existing, cleanup, last>>
      BY <1>9, <2>1 DEF RemovalFails, At
    <3>2. destination # Nothing \/ NothingAside
      BY <3>1 DEF InstallerInv, Disposable
    <3>3. /\ InEffect' = InEffect
          /\ NothingAside => NothingAside'
          /\ transaction' = {} \/ \E t \in Directories : transaction' = {t}
          /\ Whole'
      BY <3>1, <3>2, RemovedEffect
    <3>4. InstallerInv'
      BY <3>1, <3>3 DEF InstallerInv, Typed, Steps, Disposable, Prepared, request
    <3> QED
      BY <3>1, <3>3, <3>4, Invisible DEF request, Phase
  <2>2. CASE ~(At("stale", "drop") \/ At("restored", "drop"))
    <3>1. /\ transaction' \in Remains /\ pc \in {"finish", "mark", "drop"} /\ (pc = "drop" => cleanup)
          /\ pc' = "idle" /\ last' = IF pc = "finish" THEN "installed" ELSE "failed"
          /\ UNCHANGED <<destination, request, existing, cleanup>>
      BY <1>9, <2>2 DEF RemovalFails, Returns
    <3> QED
      BY <3>1, EndStep DEF Removing
  <2> QED
    BY <2>1, <2>2
<1>10. CASE MarkFails
  <2>1. /\ pc = "mark" /\ pc' = "idle" /\ last' = "failed" /\ transaction' = {}
        /\ UNCHANGED <<destination, request, existing, cleanup>>
    BY <1>10 DEF MarkFails, Returns
  <2> QED
    BY <2>1, EndStep
<1>11. CASE Die
  <2>1. /\ pc # "idle" /\ pc' = "idle" /\ last' = "died"
        /\ transaction' \in Remains \cup {{}, transaction} /\ (Removing \/ transaction' = transaction)
        /\ UNCHANGED <<destination, request, existing, cleanup>>
    BY <1>11 DEF Die, Returns
  <2> QED
    BY <2>1, EndStep
<1>12. CASE UNCHANGED vars
  <2>1. InstallerInv'
    BY <1>12 DEF vars, request, InstallerInv, Typed, Whole, NothingAside, Disposable, Prepared
  <2>2. InEffect' = InEffect
    BY <1>12, UnmovedEffect DEF vars, Unmoved
  <2> QED
    BY <1>12, <2>1, <2>2, Invisible DEF vars, request, Phase
<1> QED
  BY <1>1, <1>2, <1>3, <1>4, <1>5, <1>6, <1>7, <1>8, <1>9, <1>10, <1>11, <1>12 DEF Next, Proceeds, Fault

\* What is about to be removed or damaged never holds a home that counts, and the home in
\* effect is never a broken one (installer.rs: recover, commit_replacement, roll back, Drop).
THEOREM NothingPreciousRemoved == Spec => []InstallerInv
<1>1. InstallerInv /\ [Next]_vars => InstallerInv'
  BY NextInstaller
<1> QED
  BY <1>1, InitInstaller, PTL DEF Spec

\* An installation replaces the home in effect at one moment, whatever fails and wherever the
\* process dies; success is reported after that moment only, an error before it only.
THEOREM InstallationAtomic == Spec => InstallationIsAtomic
<1>1. InstallerInv /\ [Next]_vars => [Atomic!Next]_(Atomic!vars)
  BY NextInstaller DEF Atomically
<1> QED
  BY <1>1, InitInstaller, NothingPreciousRemoved, PTL DEF Spec, InstallationIsAtomic, Atomic!Spec
=============================================================================
