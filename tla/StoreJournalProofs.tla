-------------------------- MODULE StoreJournalProofs --------------------------
(***************************************************************************)
(* The journal of a store, for every number of keys, records and           *)
(* mutations and every largest sequence: whatever is left of it after a    *)
(* failure or a power loss is well-formed, holds every commit that wrote   *)
(* and returned, and replays to a state that a commit has published; so    *)
(* the store, its journal and the disk implement DurableStore.             *)
(*                                                                         *)
(* JournalInv is about the shape of the files, ContentInv about what they  *)
(* say. The replay of a journal is a recursive function; that it does      *)
(* what its definition says, record by record, is proved first. The        *)
(* owner's state is then always the last published one with the staged     *)
(* changes applied, so that an appended record replays to what the owner   *)
(* shows.                                                                  *)
(***************************************************************************)
EXTENDS StoreJournal, SequenceTheorems, FiniteSetTheorems, WellFoundedInduction, TLAPS

\* The records carry states and batches, of which nothing is needed here.
IsSeq(s) == \E S : s \in Seq(S)

SeqAt(items, n) == IF n = 0 THEN 0 ELSE items[n].seq

\* A file of which every possible remainder reaches the sequence a.
GoodFile(f, a) ==
    /\ f = [items |-> f.items, torn |-> f.torn, synced |-> f.synced]
    /\ IsSeq(f.items)
    /\ f.synced \in 0 .. Len(f.items)
    /\ \A i \in 1 .. Len(f.items) : f.items[i].seq \in 1 .. MaxU64
    /\ WellFormed(f.items)
    /\ Based(f.items)
    /\ \A n \in f.synced .. Len(f.items) : SeqAt(f.items, n) >= a

GoodFiles == \A f \in {file} \cup shadow : GoodFile(f, secured)

Current(f) == ~f.torn /\ \A i \in 1 .. Len(f.items) : ~IsLegacy(f.items[i])

\* The journal is one checkpoint, which is synced.
Replaced == Current(file) /\ Len(file.items) = 1 /\ file.synced = 1 /\ LastSeq(file.items) = Target

\* What the owner knows of the journal at each step.
OwnerKnows ==
    /\ pc \in Operations \cup {"closed", "idle", "terminal"}
    /\ pc \in {"prepare", "recover"} => goal = "open"
    /\ pc \in {"write", "sync"} => goal = "commit"
    /\ pc \in {"recover", "idle", "write", "sync", "replace", "reopen"} => shadow = {}
    /\ pc \in {"idle", "write"} =>
          /\ Current(file)
          /\ count = Len(file.items)
          /\ seq = LastSeq(file.items)
    /\ (pc = "idle" /\ usable) \/ pc = "write" => next = LastSeq(file.items) + 1 /\ next \in 1 .. MaxU64
    /\ pc = "write" => count < MaxRecords
    /\ pc = "sync" => Current(file) /\ count + 1 = Len(file.items) /\ next = LastSeq(file.items)
    /\ pc = "replace" => Target \in 1 .. MaxU64 /\ Target >= LastSeq(file.items)
    /\ pc \in {"dirSync", "reopen"} => Replaced

JournalInv ==
    /\ secured \in 0 .. MaxU64
    /\ GoodFiles
    /\ OwnerKnows

-----------------------------------------------------------------------------

\* What appending does to a sequence, whatever its elements are.
LEMMA AppendSeq ==
    ASSUME NEW s, NEW e, IsSeq(s)
    PROVE  /\ IsSeq(Append(s, e))
           /\ Len(s) \in Nat
           /\ Len(Append(s, e)) = Len(s) + 1
           /\ \A i \in 1 .. Len(s) : Append(s, e)[i] = s[i]
           /\ Append(s, e)[Len(s) + 1] = e
<1>1. PICK S : s \in Seq(S)
  BY DEF IsSeq
<1>2. s \in Seq(S \cup {e})
  BY <1>1
<1>3. e \in S \cup {e}
  OBVIOUS
<1>4. Append(s, e) \in Seq(S \cup {e})
  BY <1>2, <1>3
<1> QED
  BY <1>2, <1>3, <1>4 DEF IsSeq

\* What is left of a sequence that is cut, whatever its elements are.
LEMMA PrefixSeq ==
    ASSUME NEW s, IsSeq(s), NEW n \in 0 .. Len(s)
    PROVE  /\ IsSeq(SubSeq(s, 1, n))
           /\ Len(SubSeq(s, 1, n)) = n
           /\ \A i \in 1 .. n : SubSeq(s, 1, n)[i] = s[i]
<1>1. PICK S : s \in Seq(S)
  BY DEF IsSeq
<1>2. SubSeq(s, 1, n) \in Seq(S) /\ Len(SubSeq(s, 1, n)) = n /\ \A i \in 1 .. n : SubSeq(s, 1, n)[i] = s[i]
  BY <1>1
<1> QED
  BY <1>2 DEF IsSeq

\* A sequence of one record.
LEMMA SingleSeq ==
    ASSUME NEW r
    PROVE  IsSeq(<<r>>) /\ Len(<<r>>) = 1 /\ <<r>>[1] = r
<1>1. <<r>> \in Seq({r})
  OBVIOUS
<1> QED
  BY <1>1 DEF IsSeq

\* The last sequence of a good file is that of its last record, and reaches a.
LEMMA LastOfGood ==
    ASSUME StoreAssumption, NEW f, NEW a, GoodFile(f, a)
    PROVE  /\ Len(f.items) \in Nat
           /\ LastSeq(f.items) = SeqAt(f.items, Len(f.items))
           /\ LastSeq(f.items) \in 0 .. MaxU64
           /\ LastSeq(f.items) >= a
           /\ f.items = <<>> <=> Len(f.items) = 0
<1>1. Len(f.items) \in Nat /\ (f.items = <<>> <=> Len(f.items) = 0)
  <2>1. PICK S : f.items \in Seq(S)
    BY DEF GoodFile, IsSeq
  <2> QED
    BY <2>1
<1>2. Len(f.items) \in f.synced .. Len(f.items)
  BY <1>1 DEF GoodFile
<1>3. LastSeq(f.items) = SeqAt(f.items, Len(f.items))
  BY <1>1 DEF LastSeq, SeqAt
<1> QED
  BY <1>1, <1>2, <1>3 DEF GoodFile, SeqAt, StoreAssumption

\* Files are records of three fields.
LEMMA FileFields ==
    ASSUME NEW f, f = [items |-> f.items, torn |-> f.torn, synced |-> f.synced], NEW x
    PROVE  /\ [f EXCEPT !.items = x] = [items |-> x, torn |-> f.torn, synced |-> f.synced]
           /\ [f EXCEPT !.torn = x] = [items |-> f.items, torn |-> x, synced |-> f.synced]
           /\ [f EXCEPT !.synced = x] = [items |-> f.items, torn |-> f.torn, synced |-> x]
<1>1. PICK i, t, n : f = [items |-> i, torn |-> t, synced |-> n]
  OBVIOUS
<1>2. f.items = i /\ f.torn = t /\ f.synced = n
  BY <1>1
<1>3. [f EXCEPT !.items = x] = [items |-> x, torn |-> t, synced |-> n]
  BY <1>1
<1>4. [f EXCEPT !.torn = x] = [items |-> i, torn |-> x, synced |-> n]
  BY <1>1
<1>5. [f EXCEPT !.synced = x] = [items |-> i, torn |-> t, synced |-> x]
  BY <1>1
<1> QED
  BY <1>2, <1>3, <1>4, <1>5

\* Commit appends a record of the next sequence.
LEMMA GoodAppend ==
    ASSUME StoreAssumption, NEW f, NEW a \in 0 .. MaxU64, GoodFile(f, a), Current(f),
           NEW r, r.kind = "mutations", r.seq = LastSeq(f.items) + 1, r.seq \in 1 .. MaxU64,
           Len(f.items) < MaxRecords
    PROVE  LET g == [f EXCEPT !.items = Append(@, r)]
           IN  /\ GoodFile(g, a) /\ Current(g)
               /\ Len(g.items) = Len(f.items) + 1
               /\ LastSeq(g.items) = r.seq
<1> DEFINE s == f.items
           t == Append(s, r)
           g == [f EXCEPT !.items = Append(@, r)]
<1>1. g.items = t /\ g.torn = f.torn /\ g.synced = f.synced
      /\ g = [items |-> t, torn |-> f.torn, synced |-> f.synced]
  <2>1. g = [items |-> t, torn |-> f.torn, synced |-> f.synced]
    BY FileFields DEF GoodFile
  <2> QED
    BY <2>1
<1>2. /\ IsSeq(t) /\ Len(s) \in Nat /\ Len(t) = Len(s) + 1
      /\ \A i \in 1 .. Len(s) : t[i] = s[i]
      /\ t[Len(s) + 1] = r
  BY AppendSeq DEF GoodFile
<1>3. /\ LastSeq(s) = SeqAt(s, Len(s)) /\ LastSeq(s) \in 0 .. MaxU64 /\ LastSeq(s) >= a
      /\ s = <<>> <=> Len(s) = 0
  BY LastOfGood
<1>4. /\ Len(s) < MaxRecords /\ MaxRecords \in Nat /\ MaxU64 \in Nat
      /\ f.synced \in 0 .. Len(s)
      /\ \A i \in 1 .. Len(s) : s[i].seq \in 1 .. MaxU64
      /\ \A i \in 1 .. Len(s) : ~IsLegacy(s[i])
      /\ ~IsLegacy(r)
      /\ \A i \in 1 .. Len(s) - 1 : s[i + 1].seq = s[i].seq + 1
      /\ \A n \in f.synced .. Len(s) : SeqAt(s, n) >= a
      /\ s # <<>> /\ s[1].kind = "mutations" => s[1].seq = 1
  BY DEF GoodFile, WellFormed, Based, StoreAssumption, Current, IsLegacy
<1>5. ASSUME NEW i \in 1 .. Len(t)
      PROVE  t[i].seq \in 1 .. MaxU64 /\ ~IsLegacy(t[i])
  <2>1. i \in 1 .. Len(s) \/ i = Len(s) + 1
    BY <1>2
  <2>2. CASE i \in 1 .. Len(s)
    <3>1. t[i] = s[i] /\ s[i].seq \in 1 .. MaxU64 /\ ~IsLegacy(s[i])
      BY <2>2, <1>2, <1>4
    <3> QED
      BY <3>1
  <2>3. CASE i = Len(s) + 1
    <3>1. t[i] = r /\ ~IsLegacy(r)
      BY <2>3, <1>2, <1>4
    <3> QED
      BY <3>1
  <2> QED
    BY <2>1, <2>2, <2>3
<1>6. ASSUME NEW i \in 1 .. Len(t) - 1
      PROVE  t[i + 1].seq = t[i].seq + 1
  <2>1. CASE i = Len(s)
    BY <2>1, <1>2, <1>3 DEF SeqAt
  <2>2. CASE i < Len(s)
    <3>1. i \in 1 .. Len(s) - 1 /\ i \in 1 .. Len(s) /\ i + 1 \in 1 .. Len(s)
      BY <2>2, <1>2
    <3> QED
      BY <3>1, <1>2, <1>4
  <2> QED
    BY <2>1, <2>2, <1>2
<1>7. WellFormed(t)
  <2>1. \A i \in 1 .. Len(t) : IsLegacy(t[i]) = IsLegacy(t[1])
    <3>1. 1 \in 1 .. Len(t)
      BY <1>2
    <3> QED
      BY <3>1, <1>5 DEF IsLegacy
  <2>2. Len(t) <= MaxRecords /\ \A i \in 1 .. Len(t) : t[i].seq # 0
    BY <1>2, <1>4, <1>5
  <2> QED
    BY <1>6, <2>1, <2>2 DEF WellFormed
<1>8. Based(t)
  <2>1. CASE Len(s) = 0
    BY <2>1, <1>2, <1>3 DEF Based, SeqAt
  <2>2. CASE Len(s) > 0
    BY <2>2, <1>2, <1>3, <1>4 DEF Based
  <2> QED
    BY <2>1, <2>2, <1>2
<1>9. \A n \in f.synced .. Len(t) : SeqAt(t, n) >= a
  <2> TAKE n \in f.synced .. Len(t)
  <2>1. CASE n = Len(s) + 1
    BY <2>1, <1>2, <1>3 DEF SeqAt
  <2>2. CASE n \in f.synced .. Len(s)
    BY <2>2, <1>2, <1>4 DEF SeqAt
  <2> QED
    BY <2>1, <2>2, <1>2, <1>4
<1>10. LastSeq(t) = r.seq
  <2>1. t # <<>>
    <3>1. PICK T : t \in Seq(T)
      BY <1>2 DEF IsSeq
    <3>2. Len(t) # 0
      BY <1>2
    <3> QED
      BY <3>1, <3>2, EmptySeq
  <2> QED
    BY <2>1, <1>2 DEF LastSeq
<1>11. f.synced \in 0 .. Len(t)
  BY <1>2, <1>4
<1>12. GoodFile(g, a)
  BY <1>1, <1>2, <1>5, <1>7, <1>8, <1>9, <1>11 DEF GoodFile
<1>13. Current(g)
  BY <1>1, <1>5 DEF Current
<1> QED
  BY <1>1, <1>2, <1>10, <1>12, <1>13

\* What a power loss leaves of a good file is good.
LEMMA GoodSurvivor ==
    ASSUME StoreAssumption, NEW f, NEW a \in 0 .. MaxU64, GoodFile(f, a), NEW g \in Survivors(f)
    PROVE  GoodFile(g, a)
<1>1. PICK n \in f.synced .. Len(f.items), t \in BOOLEAN :
         g = [items |-> SubSeq(f.items, 1, n), torn |-> t, synced |-> n]
  BY DEF Survivors
<1> DEFINE s == f.items
           u == SubSeq(s, 1, n)
<1>2. Len(s) \in Nat /\ n \in 0 .. Len(s) /\ n \in Nat
  BY LastOfGood DEF GoodFile
<1>3. IsSeq(u) /\ Len(u) = n /\ \A i \in 1 .. n : u[i] = s[i]
  BY <1>2, PrefixSeq DEF GoodFile
<1>4. WellFormed(u)
  <2>1. \A i \in 1 .. n - 1 : i \in 1 .. Len(s) - 1 /\ i \in 1 .. n /\ i + 1 \in 1 .. n
    BY <1>2
  <2>2. n <= MaxRecords
    BY <1>2 DEF GoodFile, WellFormed, StoreAssumption
  <2>3. \A i \in 1 .. n : u[i].seq # 0 /\ IsLegacy(u[i]) = IsLegacy(u[1])
    BY <1>2, <1>3 DEF GoodFile, WellFormed
  <2>4. \A i \in 1 .. n - 1 : u[i + 1].seq = u[i].seq + 1
    BY <1>3, <2>1 DEF GoodFile, WellFormed
  <2> QED
    BY <1>3, <2>2, <2>3, <2>4 DEF WellFormed
<1>5. Based(u)
  <2>1. CASE n = 0
    <3>1. PICK U : u \in Seq(U)
      BY <1>3 DEF IsSeq
    <3>2. u = <<>>
      BY <3>1, <2>1, <1>3
    <3> QED
      BY <3>2 DEF Based
  <2>2. CASE n > 0
    <3>1. s # <<>> /\ u[1] = s[1]
      BY <2>2, <1>2, <1>3
    <3> QED
      BY <3>1 DEF GoodFile, Based
  <2> QED
    BY <2>1, <2>2, <1>2
<1>6. \A i \in 1 .. n : u[i].seq \in 1 .. MaxU64
  BY <1>2, <1>3 DEF GoodFile
<1>7. SeqAt(u, n) >= a
  BY <1>2, <1>3 DEF GoodFile, SeqAt
<1>8. \A m \in n .. n : SeqAt(u, m) >= a
  BY <1>2, <1>7
<1>9. g.items = u /\ g.synced = n /\ g = [items |-> g.items, torn |-> g.torn, synced |-> g.synced]
  BY <1>1
<1> QED
  BY <1>2, <1>3, <1>4, <1>5, <1>6, <1>8, <1>9 DEF GoodFile

\* A file of one synced checkpoint.
LEMMA GoodCheckpoint ==
    ASSUME StoreAssumption, NEW a \in 0 .. MaxU64,
           NEW r, r.kind = "checkpoint", r.seq \in 1 .. MaxU64, r.seq >= a
    PROVE  LET g == [items |-> <<r>>, torn |-> FALSE, synced |-> 1]
           IN  GoodFile(g, a) /\ Current(g) /\ Len(g.items) = 1 /\ g.synced = 1 /\ LastSeq(g.items) = r.seq
<1> DEFINE g == [items |-> <<r>>, torn |-> FALSE, synced |-> 1]
<1>1. IsSeq(<<r>>) /\ Len(<<r>>) = 1 /\ <<r>>[1] = r /\ <<r>> # <<>>
  BY SingleSeq
<1>2. WellFormed(<<r>>) /\ Based(<<r>>)
  BY <1>1 DEF WellFormed, Based, StoreAssumption
<1>3. \A i \in 1 .. 1 : <<r>>[i].seq \in 1 .. MaxU64 /\ ~IsLegacy(<<r>>[i])
  BY <1>1 DEF IsLegacy
<1>4. \A n \in 1 .. 1 : SeqAt(<<r>>, n) >= a
  BY <1>1 DEF SeqAt
<1>5. LastSeq(<<r>>) = r.seq
  BY <1>1 DEF LastSeq
<1>6. g.items = <<r>> /\ g.torn = FALSE /\ g.synced = 1
      /\ g = [items |-> g.items, torn |-> g.torn, synced |-> g.synced]
  OBVIOUS
<1>7. GoodFile(g, a)
  BY <1>1, <1>2, <1>3, <1>4, <1>6 DEF GoodFile
<1>8. Current(g)
  BY <1>1, <1>3, <1>6 DEF Current
<1> QED
  BY <1>1, <1>5, <1>6, <1>7, <1>8

\* Changing the tail or the synced part of the journal.
LEMMA GoodTail ==
    ASSUME StoreAssumption, NEW f, NEW a \in 0 .. MaxU64, GoodFile(f, a), NEW t \in BOOLEAN
    PROVE  GoodFile([f EXCEPT !.torn = t], a)
<1> DEFINE g == [f EXCEPT !.torn = t]
<1>1. g = [items |-> f.items, torn |-> t, synced |-> f.synced]
  BY FileFields DEF GoodFile
<1>2. g.items = f.items /\ g.synced = f.synced /\ g = [items |-> g.items, torn |-> g.torn, synced |-> g.synced]
  BY <1>1
<1> QED
  BY <1>2 DEF GoodFile

\* A sync makes the whole journal durable.
LEMMA GoodSync ==
    ASSUME StoreAssumption, NEW f, NEW a \in 0 .. MaxU64, GoodFile(f, a)
    PROVE  LET g == [f EXCEPT !.synced = Len(f.items)]
           IN  GoodFile(g, LastSeq(f.items)) /\ GoodFile(g, a) /\ g.items = f.items /\ g.torn = f.torn
<1> DEFINE g == [f EXCEPT !.synced = Len(f.items)]
           n == Len(f.items)
<1>1. g = [items |-> f.items, torn |-> f.torn, synced |-> n]
  BY FileFields DEF GoodFile
<1>2. g.items = f.items /\ g.torn = f.torn /\ g.synced = n
      /\ g = [items |-> g.items, torn |-> g.torn, synced |-> g.synced]
  BY <1>1
<1>3. n \in Nat /\ LastSeq(f.items) = SeqAt(f.items, n) /\ LastSeq(f.items) >= a
      /\ LastSeq(f.items) \in 0 .. MaxU64 /\ MaxU64 \in Nat
  BY LastOfGood DEF StoreAssumption
<1>4. n \in 0 .. n /\ \A m \in n .. n : m = n
  BY <1>3
<1>5. /\ \A m \in n .. n : SeqAt(f.items, m) >= LastSeq(f.items)
      /\ \A m \in n .. n : SeqAt(f.items, m) >= a
  BY <1>3, <1>4
<1> QED
  BY <1>2, <1>4, <1>5 DEF GoodFile

-----------------------------------------------------------------------------
(* The storage operations keep every file good.                            *)

\* A step that changes nothing of the file but its torn tail keeps the files good.
LEMMA TailKept ==
    ASSUME StoreAssumption, JournalInv, secured' = secured,
           shadow' \in {shadow, {}},
           file' = file \/ \E t \in BOOLEAN : file' = [file EXCEPT !.torn = t]
    PROVE  GoodFiles'
<1>1. GoodFile(file, secured) /\ secured \in 0 .. MaxU64
  BY DEF JournalInv, GoodFiles
<1>2. GoodFile(file', secured)
  BY <1>1, GoodTail
<1>3. \A f \in shadow' : GoodFile(f, secured)
  BY DEF JournalInv, GoodFiles
<1>4. \A f \in {file'} \cup shadow' : GoodFile(f, secured')
  BY <1>2, <1>3
<1> QED
  BY <1>4 DEF GoodFiles

\* An append puts one good record after a current file.
LEMMA AppendKept ==
    ASSUME StoreAssumption, JournalInv, secured' = secured, pc = "write", Appends
    PROVE  GoodFiles' /\ Current(file') /\ Len(file'.items) = count + 1 /\ LastSeq(file'.items) = next
<1>1. GoodFile(file, secured) /\ secured \in 0 .. MaxU64 /\ Current(file) /\ ~file.torn
  BY DEF JournalInv, GoodFiles, OwnerKnows, Current
<1>2. count = Len(file.items) /\ count < MaxRecords /\ next = LastSeq(file.items) + 1 /\ next \in 1 .. MaxU64
      /\ shadow = {}
  BY DEF JournalInv, OwnerKnows
<1> DEFINE r == Record("mutations", next, staged.changes)
<1>3. r.kind = "mutations" /\ r.seq = next
  BY DEF Record
<1>4. file' = [file EXCEPT !.items = Append(@, r)] /\ shadow' = {}
  BY <1>1, <1>2 DEF Appends, NewRecord
<1> HIDE DEF r
<1>5. GoodFile(file', secured) /\ Current(file')
      /\ Len(file'.items) = Len(file.items) + 1 /\ LastSeq(file'.items) = r.seq
  BY <1>1, <1>2, <1>3, <1>4, GoodAppend
<1>6. GoodFiles'
  BY <1>4, <1>5 DEF GoodFiles
<1> QED
  BY <1>2, <1>3, <1>5, <1>6

\* A replacement makes the checkpoint the whole of a current file.
LEMMA ReplaceKept ==
    ASSUME StoreAssumption, JournalInv, secured' = secured, pc = "replace", Replaces
    PROVE  /\ GoodFiles'
           /\ Current(file') /\ Len(file'.items) = 1 /\ file'.synced = 1
           /\ LastSeq(file'.items) = Target
<1>1. GoodFile(file, secured) /\ secured \in 0 .. MaxU64 /\ shadow = {}
      /\ Target \in 1 .. MaxU64 /\ Target >= LastSeq(file.items)
  BY DEF JournalInv, GoodFiles, OwnerKnows
<1>2. LastSeq(file.items) >= secured /\ LastSeq(file.items) \in 0 .. MaxU64
  BY <1>1, LastOfGood
<1>3. Target >= secured
  BY <1>1, <1>2 DEF StoreAssumption
<1> DEFINE r == Record("checkpoint", Target, mem)
<1>4. r.kind = "checkpoint" /\ r.seq = Target
  BY DEF Record
<1>5. file' = [items |-> <<r>>, torn |-> FALSE, synced |-> 1] /\ shadow' = {file}
  BY <1>1 DEF Replaces, NewRecord
<1> HIDE DEF r
<1>6. GoodFile(file', secured) /\ Current(file') /\ Len(file'.items) = 1 /\ file'.synced = 1
      /\ LastSeq(file'.items) = r.seq
  BY <1>1, <1>3, <1>4, <1>5, GoodCheckpoint
<1>7. \A f \in {file'} \cup shadow' : GoodFile(f, secured')
  BY <1>1, <1>5, <1>6
<1>8. GoodFiles'
  BY <1>7 DEF GoodFiles
<1> QED
  BY <1>4, <1>6, <1>8

\* A sync and its commit, or a sync without its commit.
LEMMA SyncKept ==
    ASSUME StoreAssumption, JournalInv, pc = "sync", Flushes, secured' \in {secured, next}
    PROVE  /\ GoodFiles'
           /\ secured' \in 0 .. MaxU64
           /\ shadow' = {}
           /\ file'.items = file.items /\ Current(file')
<1>1. GoodFile(file, secured) /\ secured \in 0 .. MaxU64 /\ shadow = {} /\ shadow' = {}
      /\ Current(file) /\ next = LastSeq(file.items)
  BY DEF JournalInv, GoodFiles, OwnerKnows, Flushes
<1>2. next \in 0 .. MaxU64
  BY <1>1, LastOfGood
<1>3. file' = [file EXCEPT !.synced = Len(file.items)]
  BY DEF Flushes
<1>4. GoodFile(file', next) /\ GoodFile(file', secured) /\ file'.items = file.items /\ file'.torn = file.torn
  BY <1>1, <1>3, GoodSync
<1>5. Current(file')
  BY <1>1, <1>4 DEF Current
<1>6. GoodFiles'
  BY <1>1, <1>4 DEF GoodFiles
<1> QED
  BY <1>1, <1>2, <1>4, <1>5, <1>6

\* An owner that has stopped, or failed, knows nothing that must be right.
LEMMA NothingKnown ==
    ASSUME pc' \in {"closed", "terminal"}
    PROVE  OwnerKnows'
BY DEF OwnerKnows

-----------------------------------------------------------------------------

\* The journals a store may start from are good and settled.
LEMMA InitGood ==
    ASSUME StoreAssumption, Init
    PROVE  JournalInv
<1>1. PICK n \in 0 .. MaxRecords :
         /\ n <= MaxU64
         /\ file = [items |-> [i \in 1 .. n |-> Record("legacy", i, log[i])], torn |-> FALSE, synced |-> n]
         /\ secured = n
  BY DEF Init
<1> DEFINE s == [i \in 1 .. n |-> Record("legacy", i, log[i])]
<1>2. n \in Nat /\ n \in 0 .. MaxU64 /\ n <= MaxRecords
  BY <1>1 DEF StoreAssumption
<1>3. s \in Seq({Record("legacy", i, log[i]) : i \in 1 .. n})
  BY <1>2
<1>4. IsSeq(s)
  BY <1>3 DEF IsSeq
<1>5. Len(s) = n
  BY <1>2, <1>3
<1>6. \A i \in 1 .. n : s[i].seq = i /\ s[i].kind = "legacy"
  BY DEF Record
<1>7. file.items = s /\ file.synced = n
      /\ file = [items |-> file.items, torn |-> file.torn, synced |-> file.synced]
  BY <1>1
<1> HIDE DEF s
<1>8. WellFormed(s)
  <2>1. \A i \in 1 .. n - 1 : i \in 1 .. n /\ i + 1 \in 1 .. n
    BY <1>2
  <2> QED
    BY <1>2, <1>5, <1>6, <2>1 DEF WellFormed, IsLegacy
<1>9. Based(s)
  <2>1. CASE n = 0
    BY <2>1, <1>3, <1>5 DEF Based
  <2>2. CASE n > 0
    BY <2>2, <1>2, <1>6 DEF Based
  <2> QED
    BY <2>1, <2>2, <1>2
<1>10. \A m \in n .. n : SeqAt(s, m) >= n
  BY <1>2, <1>6 DEF SeqAt
<1>11. \A i \in 1 .. n : s[i].seq \in 1 .. MaxU64
  BY <1>2, <1>6 DEF StoreAssumption
<1>12. n \in 0 .. n
  BY <1>2
<1>13. GoodFile(file, n)
  BY <1>4, <1>5, <1>7, <1>8, <1>9, <1>10, <1>11, <1>12 DEF GoodFile
<1>14. GoodFiles
  BY <1>1, <1>13 DEF GoodFiles, Init
<1>15. OwnerKnows
  BY DEF OwnerKnows, Init
<1> QED
  BY <1>1, <1>2, <1>14, <1>15 DEF JournalInv

\* The operation under way returns: its journal is `records' long and ends in Target.
LEMMA Returns ==
    ASSUME StoreAssumption, NEW records, Completes(records), goal' = goal,
           Current(file'), records = Len(file'.items), LastSeq(file'.items) = Target,
           Target \in 0 .. MaxU64, shadow' = {}
    PROVE  OwnerKnows'
<1>1. pc' = "idle" /\ count' = records /\ seq' = Target
  BY DEF Completes
<1>2. usable' => next' = Target + 1 /\ next' \in 1 .. MaxU64
  BY DEF Completes, Advances, StoreAssumption
<1> QED
  BY <1>1, <1>2 DEF OwnerKnows

\* Recovery cuts the torn tail and starts from what the file holds.
LEMMA RecoverKeeps ==
    ASSUME StoreAssumption, JournalInv, Recover
    PROVE  JournalInv'
<1>1. GoodFile(file, secured) /\ secured \in 0 .. MaxU64 /\ secured' = secured /\ shadow = {} /\ shadow' = {}
      /\ goal = "open" /\ goal' = "open" /\ file' = [file EXCEPT !.torn = FALSE]
  BY DEF JournalInv, GoodFiles, OwnerKnows, Recover, Trims
<1>2. GoodFiles'
  BY <1>1, TailKept
<1>3. file'.items = file.items /\ file'.torn = FALSE
  <2>1. file' = [items |-> file.items, torn |-> FALSE, synced |-> file.synced]
    BY <1>1, FileFields DEF GoodFile
  <2> QED
    BY <2>1
<1>4. CASE Released
  BY <1>1, <1>2, <1>4, NothingKnown DEF Released, JournalInv
<1>5. CASE /\ seq' = LastSeq(file.items)
           /\ next' = LastSeq(file.items) + 1
           /\ count' = Len(file.items)
           /\ pc' = IF file.items # <<>> /\ IsLegacy(file.items[1]) THEN "replace" ELSE "idle"
  <2>1. /\ Len(file.items) \in Nat
        /\ LastSeq(file.items) = SeqAt(file.items, Len(file.items))
        /\ LastSeq(file.items) \in 0 .. MaxU64
        /\ file.items = <<>> <=> Len(file.items) = 0
    BY <1>1, LastOfGood
  <2>2. LastSeq(file.items) # MaxU64
    BY DEF Recover
  <2>3. next' \in 1 .. MaxU64
    BY <1>5, <2>1, <2>2 DEF StoreAssumption
  <2>4. CASE file.items # <<>> /\ IsLegacy(file.items[1])
    <3>1. LastSeq(file.items) \in 1 .. MaxU64
      BY <2>1, <2>4, <1>1 DEF SeqAt, GoodFile
    <3>2. Target' = LastSeq(file.items) /\ pc' = "replace"
      BY <1>1, <1>5, <2>4 DEF Target
    <3>3. LastSeq(file'.items) = LastSeq(file.items)
      BY <1>3
    <3>4. Target' \in 1 .. MaxU64 /\ Target' >= LastSeq(file'.items)
      BY <3>1, <3>2, <3>3
    <3>5. OwnerKnows'
      BY <1>1, <3>2, <3>4 DEF OwnerKnows, Operations
    <3> QED
      BY <1>1, <1>2, <3>5 DEF JournalInv
  <2>5. CASE ~(file.items # <<>> /\ IsLegacy(file.items[1]))
    <3>1. \A i \in 1 .. Len(file.items) : ~IsLegacy(file.items[i])
      <4>1. \A i \in 1 .. Len(file.items) : IsLegacy(file.items[i]) = IsLegacy(file.items[1])
        BY <1>1 DEF GoodFile, WellFormed
      <4> QED
        BY <4>1, <2>1, <2>5 DEF IsLegacy
    <3>2. Current(file')
      BY <1>3, <3>1 DEF Current
    <3>3. pc' = "idle"
      BY <1>5, <2>5
    <3>4. count' = Len(file'.items) /\ seq' = LastSeq(file'.items) /\ next' = LastSeq(file'.items) + 1
      BY <1>3, <1>5
    <3>5. OwnerKnows'
      BY <1>1, <2>3, <3>2, <3>3, <3>4 DEF OwnerKnows
    <3> QED
      BY <1>1, <1>2, <3>5 DEF JournalInv
  <2> QED
    BY <2>4, <2>5
<1> QED
  BY <1>4, <1>5 DEF Recover

\* An operation that does not return leaves good files, whatever part of it was done.
LEMMA InterruptedKeeps ==
    ASSUME StoreAssumption, JournalInv, Interrupted
    PROVE  JournalInv'
<1>1. secured' = secured /\ secured \in 0 .. MaxU64 /\ pc' \in {"closed", "terminal"}
  BY DEF Interrupted, Abandoned, Released, JournalInv
<1>2. OwnerKnows'
  BY <1>1, NothingKnown
<1>3. GoodFiles'
  <2>1. CASE UNCHANGED <<file, shadow, log>>
    BY <2>1, <1>1, TailKept
  <2>2. CASE Settles \/ Trims \/ Tears
    BY <2>2, <1>1, TailKept DEF Settles, Trims, Tears
  <2>3. CASE pc = "write" /\ Appends
    BY <2>3, <1>1, AppendKept
  <2>4. CASE pc = "sync" /\ Flushes
    BY <2>4, <1>1, SyncKept
  <2>5. CASE pc = "replace" /\ Replaces
    BY <2>5, <1>1, ReplaceKept
  <2> QED
    BY <2>1, <2>2, <2>3, <2>4, <2>5 DEF Interrupted
<1> QED
  BY <1>1, <1>2, <1>3 DEF JournalInv

\* Every step keeps the invariant.
LEMMA NextKeeps ==
    ASSUME StoreAssumption, JournalInv, [Next]_vars
    PROVE  JournalInv'
<1> USE DEF JournalInv
<1>1. ASSUME UNCHANGED <<file, shadow, secured>>
      PROVE  GoodFiles'
  BY <1>1 DEF GoodFiles
<1>2. CASE Open
  BY <1>1, <1>2 DEF Open, OwnerKnows, Operations
<1>3. CASE Prepare
  <2>1. GoodFiles'
    BY <1>3, TailKept DEF Prepare, Settles
  <2> QED
    BY <1>3, <2>1 DEF Prepare, Settles, OwnerKnows, Operations
<1>4. CASE Recover
  BY <1>4, RecoverKeeps
<1>5. CASE RecoverRefuses \/ Stop
  BY <1>1, <1>5, NothingKnown DEF RecoverRefuses, Stop, Released
<1>6. CASE \E k \in Keys : StageRemove(k) \/ \E v \in Vals : StageSet(k, v)
  <2>1. UNCHANGED <<file, shadow, secured, pc, goal, seq, next, count, usable>>
    BY <1>6 DEF StageRemove, StageSet
  <2>2. Current(file)' = Current(file) /\ Replaced' = Replaced /\ Target' = Target
    BY <2>1 DEF Current, Replaced, Target
  <2>3. OwnerKnows'
    BY <2>1, <2>2 DEF OwnerKnows
  <2> QED
    BY <1>1, <2>1, <2>3
<1>7. CASE BeginCommit \/ BeginCompact
  <2>1. UNCHANGED <<file, shadow, secured, seq, next, count>> /\ pc = "idle" /\ shadow = {}
        /\ Current(file) /\ count = Len(file.items) /\ seq = LastSeq(file.items)
        /\ (usable => next = LastSeq(file.items) + 1 /\ next \in 1 .. MaxU64)
    BY <1>7 DEF BeginCommit, BeginCompact, OwnerKnows
  <2>2. seq \in 0 .. MaxU64
    BY <2>1, LastOfGood DEF GoodFiles
  <2>3. CASE BeginCommit
    <3>1. goal' = "commit" /\ Target' = next
      BY <2>1, <2>3 DEF BeginCommit, Target
    <3>2. CASE pc' = "terminal"
      BY <1>1, <2>1, <3>2, NothingKnown
    <3>3. CASE usable /\ pc' = "write" /\ count < MaxRecords
      BY <1>1, <2>1, <3>1, <3>3 DEF OwnerKnows, Current, Operations
    <3>4. CASE usable /\ pc' = "replace"
      <4>1. Target' \in 1 .. MaxU64 /\ Target' >= LastSeq(file'.items)
        BY <2>1, <2>2, <3>1, <3>4
      <4> QED
        BY <1>1, <2>1, <3>1, <3>4, <4>1 DEF OwnerKnows, Operations
    <3> QED
      BY <2>3, <3>2, <3>3, <3>4 DEF BeginCommit
  <2>4. CASE BeginCompact
    <3>1. goal' = "compact" /\ Target' = seq /\ seq # 0
      BY <2>1, <2>4 DEF BeginCompact, Target
    <3>2. CASE pc' = "terminal"
      BY <1>1, <2>1, <3>2, NothingKnown
    <3>3. CASE pc' = "replace"
      <4>1. Target' \in 1 .. MaxU64 /\ Target' >= LastSeq(file'.items)
        BY <2>1, <2>2, <3>1 DEF StoreAssumption
      <4> QED
        BY <1>1, <2>1, <3>1, <3>3, <4>1 DEF OwnerKnows, Operations
    <3> QED
      BY <2>4, <3>2, <3>3 DEF BeginCompact
  <2> QED
    BY <1>7, <2>3, <2>4
<1>8. CASE Write
  <2>1. GoodFiles' /\ Current(file') /\ Len(file'.items) = count + 1 /\ LastSeq(file'.items) = next
    BY <1>8, AppendKept DEF Write
  <2>2. goal = "commit" /\ shadow = {} /\ shadow' = {}
    BY <1>8 DEF Write, OwnerKnows, Appends
  <2> QED
    BY <1>8, <2>1, <2>2 DEF Write, owner, OwnerKnows, Operations
<1>9. CASE Sync
  <2>1. goal = "commit" /\ Target = next /\ count + 1 = Len(file.items) /\ next = LastSeq(file.items)
    BY <1>9 DEF Sync, OwnerKnows, Target
  <2>2. secured' = next
    BY <1>9, <2>1 DEF Sync, Completes
  <2>3. GoodFiles' /\ secured' \in 0 .. MaxU64 /\ shadow' = {} /\ file'.items = file.items /\ Current(file')
    BY <1>9, <2>2, SyncKept DEF Sync
  <2>4. OwnerKnows'
    BY <1>9, <2>1, <2>2, <2>3, Returns DEF Sync
  <2> QED
    BY <2>3, <2>4
<1>10. CASE Replace
  <2>1. GoodFiles' /\ Current(file') /\ Len(file'.items) = 1 /\ file'.synced = 1 /\ LastSeq(file'.items) = Target
    BY <1>10, ReplaceKept DEF Replace
  <2>2. Replaced'
    BY <1>10, <2>1 DEF Replace, Replaced, Target, owner
  <2> QED
    BY <1>10, <2>1, <2>2 DEF Replace, OwnerKnows, Operations
<1>11. CASE DirSync
  <2>1. GoodFiles'
    BY <1>11, TailKept DEF DirSync, Settles
  <2>2. Replaced'
    BY <1>11 DEF DirSync, Settles, OwnerKnows, Replaced, Target, owner, Current
  <2> QED
    BY <1>11, <2>1, <2>2 DEF DirSync, Settles, OwnerKnows, Operations
<1>12. CASE Reopen
  <2>1. UNCHANGED <<file, shadow, goal>> /\ shadow = {} /\ Replaced /\ Completes(1)
    BY <1>12 DEF Reopen, OwnerKnows
  <2>2. GoodFile(file, secured) /\ secured \in 0 .. MaxU64
    BY DEF GoodFiles
  <2>3. Target = LastSeq(file.items) /\ Target \in 0 .. MaxU64 /\ Target >= secured
    BY <2>1, <2>2, LastOfGood DEF Replaced
  <2>4. secured' = Target
    BY <2>1 DEF Completes
  <2>5. GoodFile(file, Target)
    <3>1. Len(file.items) = 1 /\ file.synced = 1
      BY <2>1 DEF Replaced
    <3>2. SeqAt(file.items, 1) = Target
      BY <2>2, <2>3, <3>1, LastOfGood
    <3>3. \A n \in 1 .. 1 : SeqAt(file.items, n) >= Target
      BY <2>3, <3>2 DEF StoreAssumption
    <3> QED
      BY <2>2, <3>1, <3>3 DEF GoodFile
  <2>6. GoodFiles'
    BY <2>1, <2>4, <2>5 DEF GoodFiles
  <2>7. OwnerKnows'
    BY <2>1, <2>3, Returns DEF Replaced
  <2> QED
    BY <2>3, <2>4, <2>6, <2>7
<1>13. CASE Interrupted
  BY <1>13, InterruptedKeeps
<1>14. CASE PowerLoss
  <2>1. PICK f \in Remains : file' = f
    BY <1>14 DEF PowerLoss
  <2>2. PICK g \in {file} \cup shadow : f \in Survivors(g)
    BY <2>1 DEF Remains
  <2>3. GoodFile(file', secured)
    BY <2>1, <2>2, GoodSurvivor DEF GoodFiles
  <2>4. shadow' = {} /\ secured' = secured /\ pc' = "closed"
    BY <1>14 DEF PowerLoss, Released
  <2>5. GoodFiles'
    BY <2>3, <2>4 DEF GoodFiles
  <2> QED
    BY <2>4, <2>5, NothingKnown
<1>15. CASE CommitClean \/ UNCHANGED vars
  <2>1. UNCHANGED <<file, shadow, secured, pc, goal, seq, next, count, usable>>
    BY <1>15 DEF CommitClean, vars, owner
  <2>2. Current(file)' = Current(file) /\ Replaced' = Replaced /\ Target' = Target
    BY <2>1 DEF Current, Replaced, Target
  <2>3. OwnerKnows'
    BY <2>1, <2>2 DEF OwnerKnows
  <2> QED
    BY <1>1, <2>1, <2>3
<1> QED
  BY <1>2, <1>3, <1>4, <1>5, <1>6, <1>7, <1>8, <1>9, <1>10, <1>11, <1>12, <1>13, <1>14, <1>15
  DEF Next, OwnerStep

\* The invariant covers what a power loss leaves.
LEMMA InvCovers ==
    ASSUME StoreAssumption, JournalInv
    PROVE  SecuredSurvives
<1> SUFFICES ASSUME NEW f \in Remains
             PROVE  WellFormed(f.items) /\ Based(f.items) /\ LastSeq(f.items) >= secured
  BY DEF SecuredSurvives
<1>1. PICK g \in {file} \cup shadow : f \in Survivors(g)
  BY DEF Remains
<1>2. GoodFile(f, secured)
  BY <1>1, GoodSurvivor DEF JournalInv, GoodFiles
<1> QED
  BY <1>2, LastOfGood DEF GoodFile

-----------------------------------------------------------------------------

\* What a commit with changes, a compaction or a change of format has returned with is not
\* lost (commit, compact and open of store.nct over the durable files of durable.nct).
THEOREM SecuredStatesSurvive == Spec => []SecuredSurvives
<1>1. Init => JournalInv
  BY StoreAssumption, InitGood
<1>2. JournalInv /\ [Next]_vars => JournalInv'
  BY StoreAssumption, NextKeeps
<1>3. JournalInv => SecuredSurvives
  BY StoreAssumption, InvCovers
<1> QED
  BY <1>1, <1>2, <1>3, PTL DEF Spec

\* The record an idle owner would append is the one recovery expects (journal.nct,
\* commit_journal_mutations and replace_journal_record).
THEOREM OwnerStaysInStep == Spec => []OwnerInStep
<1>1. Init => JournalInv
  BY StoreAssumption, InitGood
<1>2. JournalInv /\ [Next]_vars => JournalInv'
  BY StoreAssumption, NextKeeps
<1>3. JournalInv => OwnerInStep
  BY DEF JournalInv, OwnerKnows, OwnerInStep, Current
<1> QED
  BY <1>1, <1>2, <1>3, PTL DEF Spec

-----------------------------------------------------------------------------
(* Induction on the naturals, for sets: the library's theorem takes an     *)
(* operator, which the provers cannot be given, and this does not.         *)

\* A set of naturals that is not empty has a least element: strict inclusion of the
\* intervals from 0 is well founded.
LEMMA LeastElement ==
    ASSUME NEW T, T \subseteq Nat, T # {}
    PROVE  \E m \in T : \A k \in T : m <= k
<1> PICK n \in T : TRUE
  OBVIOUS
<1> DEFINE S == 0 .. n
           U == {V \in SUBSET S : \E k \in T : k <= n /\ V = 0 .. k}
<1>1. IsWellFoundedOn(StrictSubsetOrdering(S), FiniteSubsetsOf(S))
  BY FS_StrictSubsetOrderingWellFounded
<1>2. U \subseteq FiniteSubsetsOf(S)
  <2>1. IsFiniteSet(S)
    BY FS_Interval
  <2> QED
    BY <2>1, FS_FiniteSubsetsOfFinite
<1>3. U # {}
  <2>1. S \in U
    OBVIOUS
  <2> QED
    BY <2>1
<1>4. PICK V \in U : \A W \in U : <<W, V>> \notin StrictSubsetOrdering(S)
  <2> HIDE DEF U, S
  <2> QED
    BY <1>1, <1>2, <1>3, WFMin
<1>5. PICK m \in T : m <= n /\ V = 0 .. m
  OBVIOUS
<1>6. ASSUME NEW k \in T, k < m PROVE FALSE
  <2>1. 0 .. k \in U
    BY <1>5, <1>6
  <2>2. <<0 .. k, V>> \in StrictSubsetOrdering(S)
    BY <1>5, <1>6, <2>1 DEF StrictSubsetOrdering
  <2> QED
    BY <1>4, <2>1, <2>2
<1> QED
  BY <1>5, <1>6

\* What holds of 0, and of n + 1 when it holds of n, holds of every natural.
LEMMA Induction ==
    ASSUME NEW G, 0 \in G, \A n \in Nat : n \in G => n + 1 \in G
    PROVE  \A n \in Nat : n \in G
<1> DEFINE T == Nat \ G
<1> SUFFICES ASSUME T # {} PROVE FALSE
  OBVIOUS
<1>1. PICK m \in T : \A k \in T : m <= k
  BY LeastElement
<1>2. m # 0 /\ m - 1 \in Nat /\ m - 1 \notin T
  BY <1>1
<1> QED
  BY <1>2

-----------------------------------------------------------------------------
(* What replay computes, record by record and change by change.            *)

\* The states a batch goes through, from `state'.
Applying(f, state, changes) ==
    f = [n \in 0 .. Len(changes) |-> IF n = 0 THEN state ELSE Applied(f[n - 1], changes[n])]

\* They are there.
LEMMA ApplyingExists ==
    ASSUME NEW state, NEW changes, Len(changes) \in Nat
    PROVE  \E f : Applying(f, state, changes) /\ AppliedAll(state, changes) = f[Len(changes)]
<1> DEFINE Built(f, n) == f = [k \in 0 .. n |-> IF k = 0 THEN state ELSE Applied(f[k - 1], changes[k])]
           G == {n \in Nat : \E f : Built(f, n)}
<1> HIDE DEF G
<1>1. 0 \in G
  <2>1. PICK f : f = [k \in 0 .. 0 |-> state]
    OBVIOUS
  <2>2. Built(f, 0)
    BY <2>1
  <2> QED
    BY <2>2 DEF G
<1>2. ASSUME NEW n \in Nat, n \in G PROVE n + 1 \in G
  <2>1. PICK f : Built(f, n)
    BY <1>2 DEF G
  <2>2. PICK g : g = [k \in 0 .. n + 1 |-> IF k = n + 1 THEN Applied(f[n], changes[n + 1]) ELSE f[k]]
    OBVIOUS
  <2>3. ASSUME NEW k \in 0 .. n + 1
        PROVE  g[k] = IF k = 0 THEN state ELSE Applied(g[k - 1], changes[k])
    <3>1. CASE k = n + 1
      BY <2>2, <3>1
    <3>2. CASE k # n + 1 /\ k # 0
      BY <2>1, <2>2, <3>2
    <3>3. CASE k = 0
      BY <2>1, <2>2, <3>3
    <3> QED
      BY <3>1, <3>2, <3>3
  <2>4. Built(g, n + 1)
    BY <2>2, <2>3
  <2> QED
    BY <2>4 DEF G
<1>3. Len(changes) \in G
  BY <1>1, <1>2, Induction
<1>4. PICK f : Built(f, Len(changes))
  BY <1>3 DEF G
<1>5. AppliedAll(state, changes) = (CHOOSE g : Applying(g, state, changes))[Len(changes)]
  BY DEF AppliedAll, Applying
<1>6. Applying(f, state, changes)
  BY <1>4 DEF Applying
<1> QED
  BY <1>5, <1>6

\* A batch is applied change by change.
LEMMA AppliedOneByOne ==
    ASSUME NEW state, NEW changes, IsSeq(changes), NEW change
    PROVE  AppliedAll(state, Append(changes, change)) = Applied(AppliedAll(state, changes), change)
<1>1. PICK longer : longer = Append(changes, change)
  OBVIOUS
<1>2. PICK l \in Nat : l = Len(changes)
  BY AppendSeq
<1>3. Len(longer) = l + 1 /\ (\A i \in 1 .. l : longer[i] = changes[i]) /\ longer[l + 1] = change
  BY <1>1, <1>2, AppendSeq
<1>4. PICK f : Applying(f, state, changes) /\ AppliedAll(state, changes) = f[l]
  BY <1>2, ApplyingExists
<1>5. PICK g : Applying(g, state, longer) /\ AppliedAll(state, longer) = g[l + 1]
  <2>1. Len(longer) \in Nat
    BY <1>3
  <2> QED
    BY <1>3, <2>1, ApplyingExists
<1>6. /\ \A n \in 0 .. l : f[n] = IF n = 0 THEN state ELSE Applied(f[n - 1], changes[n])
      /\ \A n \in 0 .. l + 1 : g[n] = IF n = 0 THEN state ELSE Applied(g[n - 1], longer[n])
  BY <1>2, <1>3, <1>4, <1>5 DEF Applying
<1> DEFINE G == {n \in Nat : n <= l => g[n] = f[n]}
<1>7. 0 \in G
  BY <1>6
<1>8. ASSUME NEW n \in Nat, n \in G PROVE n + 1 \in G
  <2> SUFFICES ASSUME n + 1 <= l PROVE g[n + 1] = f[n + 1]
    OBVIOUS
  <2>1. n + 1 \in 0 .. l /\ n + 1 \in 0 .. l + 1 /\ n + 1 \in 1 .. l /\ n + 1 # 0 /\ (n + 1) - 1 = n /\ n <= l
    OBVIOUS
  <2>2. g[n] = f[n] /\ longer[n + 1] = changes[n + 1]
    BY <1>3, <1>8, <2>1
  <2> QED
    BY <1>6, <2>1, <2>2
<1>9. \A n \in Nat : n \in G
  <2> HIDE DEF G
  <2> QED
    BY <1>7, <1>8, Induction
<1>10. g[l] = f[l]
  BY <1>9
<1>11. g[l + 1] = Applied(g[l], change)
  <2>1. l + 1 \in 0 .. l + 1 /\ l + 1 # 0 /\ (l + 1) - 1 = l
    OBVIOUS
  <2> QED
    BY <1>3, <1>6, <2>1
<1> QED
  BY <1>1, <1>4, <1>5, <1>10, <1>11

\* An empty batch changes nothing.
LEMMA NothingApplied == \A state : AppliedAll(state, <<>>) = state
<1> SUFFICES ASSUME NEW state PROVE AppliedAll(state, <<>>) = state
  OBVIOUS
<1>1. PICK none : none = <<>> /\ Len(none) = 0
  OBVIOUS
<1>2. PICK f : Applying(f, state, none) /\ AppliedAll(state, none) = f[0]
  BY <1>1, ApplyingExists
<1>3. f[0] = state
  BY <1>1, <1>2 DEF Applying
<1> QED
  BY <1>1, <1>2, <1>3

\* The states that replay goes through.
Replaying(f, items) ==
    f = [n \in 0 .. Len(items) |-> IF n = 0 THEN Blank ELSE Replayed(f[n - 1], items[n])]

\* They are there.
LEMMA ReplayingExists ==
    ASSUME NEW items, Len(items) \in Nat
    PROVE  \E f : Replaying(f, items) /\ StateOf(items) = f[Len(items)]
<1> DEFINE Built(f, n) == f = [k \in 0 .. n |-> IF k = 0 THEN Blank ELSE Replayed(f[k - 1], items[k])]
           G == {n \in Nat : \E f : Built(f, n)}
<1> HIDE DEF G
<1>1. 0 \in G
  <2>1. PICK f : f = [k \in 0 .. 0 |-> Blank]
    OBVIOUS
  <2>2. Built(f, 0)
    BY <2>1
  <2> QED
    BY <2>2 DEF G
<1>2. ASSUME NEW n \in Nat, n \in G PROVE n + 1 \in G
  <2>1. PICK f : Built(f, n)
    BY <1>2 DEF G
  <2>2. PICK g : g = [k \in 0 .. n + 1 |-> IF k = n + 1 THEN Replayed(f[n], items[n + 1]) ELSE f[k]]
    OBVIOUS
  <2>3. ASSUME NEW k \in 0 .. n + 1
        PROVE  g[k] = IF k = 0 THEN Blank ELSE Replayed(g[k - 1], items[k])
    <3>1. CASE k = n + 1
      BY <2>2, <3>1
    <3>2. CASE k # n + 1 /\ k # 0
      BY <2>1, <2>2, <3>2
    <3>3. CASE k = 0
      BY <2>1, <2>2, <3>3
    <3> QED
      BY <3>1, <3>2, <3>3
  <2>4. Built(g, n + 1)
    BY <2>2, <2>3
  <2> QED
    BY <2>4 DEF G
<1>3. Len(items) \in G
  BY <1>1, <1>2, Induction
<1>4. PICK f : Built(f, Len(items))
  BY <1>3 DEF G
<1>5. StateOf(items) = (CHOOSE g : Replaying(g, items))[Len(items)]
  BY DEF StateOf, Replaying
<1>6. Replaying(f, items)
  BY <1>4 DEF Replaying
<1> QED
  BY <1>5, <1>6

\* A journal is replayed record by record.
LEMMA ReplayedOneByOne ==
    ASSUME NEW items, IsSeq(items), NEW r
    PROVE  StateOf(Append(items, r)) = Replayed(StateOf(items), r)
<1>1. PICK longer : longer = Append(items, r)
  OBVIOUS
<1>2. PICK l \in Nat : l = Len(items)
  BY AppendSeq
<1>3. Len(longer) = l + 1 /\ (\A i \in 1 .. l : longer[i] = items[i]) /\ longer[l + 1] = r
  BY <1>1, <1>2, AppendSeq
<1>4. PICK f : Replaying(f, items) /\ StateOf(items) = f[l]
  BY <1>2, ReplayingExists
<1>5. PICK g : Replaying(g, longer) /\ StateOf(longer) = g[l + 1]
  <2>1. Len(longer) \in Nat
    BY <1>3
  <2> QED
    BY <1>3, <2>1, ReplayingExists
<1>6. /\ \A n \in 0 .. l : f[n] = IF n = 0 THEN Blank ELSE Replayed(f[n - 1], items[n])
      /\ \A n \in 0 .. l + 1 : g[n] = IF n = 0 THEN Blank ELSE Replayed(g[n - 1], longer[n])
  BY <1>2, <1>3, <1>4, <1>5 DEF Replaying
<1> DEFINE G == {n \in Nat : n <= l => g[n] = f[n]}
<1>7. 0 \in G
  BY <1>6
<1>8. ASSUME NEW n \in Nat, n \in G PROVE n + 1 \in G
  <2> SUFFICES ASSUME n + 1 <= l PROVE g[n + 1] = f[n + 1]
    OBVIOUS
  <2>1. n + 1 \in 0 .. l /\ n + 1 \in 0 .. l + 1 /\ n + 1 \in 1 .. l /\ n + 1 # 0 /\ (n + 1) - 1 = n /\ n <= l
    OBVIOUS
  <2>2. g[n] = f[n] /\ longer[n + 1] = items[n + 1]
    BY <1>3, <1>8, <2>1
  <2> QED
    BY <1>6, <2>1, <2>2
<1>9. \A n \in Nat : n \in G
  <2> HIDE DEF G
  <2> QED
    BY <1>7, <1>8, Induction
<1>10. g[l] = f[l]
  BY <1>9
<1>11. g[l + 1] = Replayed(g[l], r)
  <2>1. l + 1 \in 0 .. l + 1 /\ l + 1 # 0 /\ (l + 1) - 1 = l
    OBVIOUS
  <2> QED
    BY <1>3, <1>6, <2>1
<1> QED
  BY <1>1, <1>4, <1>5, <1>10, <1>11

\* An empty journal leaves the store empty.
LEMMA NothingReplayed == StateOf(<<>>) = Blank
<1>1. PICK none : none = <<>> /\ Len(none) = 0
  OBVIOUS
<1>2. PICK f : Replaying(f, none) /\ StateOf(none) = f[0]
  BY <1>1, ReplayingExists
<1>3. f[0] = Blank
  BY <1>1, <1>2 DEF Replaying
<1> QED
  BY <1>1, <1>2, <1>3

-----------------------------------------------------------------------------
(* What the files hold: the states that commits have published.            *)

StateAt(n) == IF n = 0 THEN Blank ELSE log[n]

\* Whatever is left of the file replays to the state published under its last sequence.
PublishedFile(f) ==
    \A n \in f.synced .. Len(f.items) :
        /\ SeqAt(f.items, n) <= Len(log)
        /\ StateOf(SubSeq(f.items, 1, n)) = StateAt(SeqAt(f.items, n))

FilesPublished ==
    /\ log \in Seq(States)
    /\ LastSeq(file.items) = Len(log)
    /\ \A f \in {file} \cup shadow : PublishedFile(f)

\* What the owner holds: the last published state and, while it is idle or about to append,
\* the changes since then, unless they have outgrown their record.
OwnerHolds ==
    /\ goal \in {"open", "commit", "compact"}
    /\ mem \in States
    /\ staged = [changes |-> staged.changes, checkpoint |-> staged.checkpoint]
    /\ IsSeq(staged.changes) /\ staged.checkpoint \in BOOLEAN
    /\ pc \in {"closed", "prepare", "recover"} \/ (pc \in Operations /\ goal # "commit") => staged = Clean
    /\ pc \in {"idle", "write"} /\ ~staged.checkpoint => mem = AppliedAll(StateAt(Len(log)), staged.changes)
    /\ pc = "write" => ~staged.checkpoint
    /\ pc = "replace" /\ goal = "commit" => next = Len(log) + 1
    /\ pc = "replace" /\ goal # "commit" => seq = Len(log) /\ mem = StateAt(Len(log))
    /\ pc \in {"sync", "dirSync", "reopen"} => mem = StateAt(Len(log)) /\ Len(log) # 0

ContentInv == FilesPublished /\ OwnerHolds

-----------------------------------------------------------------------------

\* A state is not None.
LEMMA StatesTyped ==
    ASSUME StoreAssumption
    PROVE  Blank \in States /\ None \notin States /\ \A s \in States : s # None
BY DEF StoreAssumption, States, Blank

\* Setting a key, or removing one that is there, is what replay makes of the change.
LEMMA ChangeApplied ==
    ASSUME StoreAssumption, NEW s \in States, NEW k \in Keys, NEW v \in Vals \cup {None},
           v = None => s[k] # None
    PROVE  /\ [s EXCEPT ![k] = v] \in States
           /\ Applied(s, [key |-> k, val |-> v]) = [s EXCEPT ![k] = v]
<1>1. [s EXCEPT ![k] = v] \in States
  BY DEF States
<1>2. s # None
  BY StatesTyped
<1> QED
  BY <1>1, <1>2 DEF Applied

\* The state under a sequence that is in use.
LEMMA StateAtTyped ==
    ASSUME StoreAssumption, log \in Seq(States), NEW n \in Nat, n <= Len(log)
    PROVE  StateAt(n) \in States /\ StateAt(n) # None
<1>1. StateAt(n) \in States
  <2>1. CASE n = 0
    BY <2>1, StatesTyped DEF StateAt
  <2>2. CASE n # 0
    <3>1. n \in 1 .. Len(log)
      BY <2>2
    <3> QED
      BY <2>2, <3>1, ElementOfSeq DEF StateAt
  <2> QED
    BY <2>1, <2>2
<1> QED
  BY <1>1, StatesTyped

\* The sequences of a good file.
LEMMA SeqAtGood ==
    ASSUME StoreAssumption, NEW f, NEW a, GoodFile(f, a), NEW n \in 0 .. Len(f.items)
    PROVE  SeqAt(f.items, n) \in Nat
<1>1. CASE n = 0
  BY <1>1 DEF SeqAt
<1>2. CASE n # 0
  <2>1. n \in 1 .. Len(f.items)
    <3>1. Len(f.items) \in Nat
      BY LastOfGood
    <3> QED
      BY <1>2, <3>1
  <2>2. f.items[n].seq \in 1 .. MaxU64
    BY <2>1 DEF GoodFile
  <2> QED
    BY <1>2, <2>2 DEF SeqAt
<1> QED
  BY <1>1, <1>2

\* All of a file is one of the things that may be left of it.
LEMMA WholeFile ==
    ASSUME StoreAssumption, NEW f, NEW a, GoodFile(f, a), PublishedFile(f)
    PROVE  StateOf(f.items) = StateAt(LastSeq(f.items)) /\ LastSeq(f.items) <= Len(log)
<1>1. PICK n \in Nat : n = Len(f.items) /\ LastSeq(f.items) = SeqAt(f.items, n)
  BY LastOfGood
<1>2. n \in f.synced .. Len(f.items)
  BY <1>1 DEF GoodFile
<1>3. SubSeq(f.items, 1, n) = f.items
  <2>1. PICK S : f.items \in Seq(S)
    BY DEF GoodFile, IsSeq
  <2> QED
    BY <1>1, <2>1
<1> QED
  BY <1>1, <1>2, <1>3 DEF PublishedFile

\* What is left of a file is published.
LEMMA SurvivorPublished ==
    ASSUME StoreAssumption, NEW f, NEW a, GoodFile(f, a), PublishedFile(f), NEW g \in Survivors(f)
    PROVE  StateOf(g.items) = StateAt(LastSeq(g.items)) /\ LastSeq(g.items) <= Len(log)
<1>1. PICK n \in f.synced .. Len(f.items), t \in BOOLEAN :
         g = [items |-> SubSeq(f.items, 1, n), torn |-> t, synced |-> n]
  BY DEF Survivors
<1>2. n \in 0 .. Len(f.items) /\ n \in Nat
  BY <1>1, LastOfGood DEF GoodFile
<1>3. PICK u : u = SubSeq(f.items, 1, n) /\ u = g.items
  BY <1>1
<1>4. IsSeq(u) /\ Len(u) = n /\ \A i \in 1 .. n : u[i] = f.items[i]
  BY <1>2, <1>3, PrefixSeq DEF GoodFile
<1>5. LastSeq(u) = SeqAt(f.items, n)
  <2>1. PICK S : u \in Seq(S)
    BY <1>4 DEF IsSeq
  <2>2. u = <<>> <=> n = 0
    BY <1>4, <2>1, EmptySeq
  <2>3. CASE n = 0
    BY <2>2, <2>3 DEF LastSeq, SeqAt
  <2>4. CASE n # 0
    <3>1. n \in 1 .. n
      BY <1>2, <2>4
    <3> QED
      BY <1>4, <2>2, <2>4, <3>1 DEF LastSeq, SeqAt
  <2> QED
    BY <2>3, <2>4
<1> QED
  BY <1>1, <1>3, <1>5 DEF PublishedFile

\* A prefix of what was there is a prefix of what is there after an append.
LEMMA PrefixOfAppend ==
    ASSUME NEW s, IsSeq(s), NEW e, NEW n \in 0 .. Len(s)
    PROVE  SubSeq(Append(s, e), 1, n) = SubSeq(s, 1, n)
<1>1. PICK T : s \in Seq(T)
  BY DEF IsSeq
<1>2. PICK U : U = T \cup {e}
  OBVIOUS
<1>3. s \in Seq(U) /\ e \in U
  BY <1>1, <1>2, SeqMonotonic
<1>4. PICK t : t = Append(s, e)
  OBVIOUS
<1>5. t \in Seq(U) /\ Len(t) = Len(s) + 1 /\ (\A i \in 1 .. Len(s) : t[i] = s[i]) /\ Len(s) \in Nat
  BY <1>3, <1>4, AppendProperties, LenProperties
<1>6. n \in Nat /\ n \in 0 .. Len(t) /\ \A i \in 1 .. n : i \in 1 .. Len(s)
  BY <1>5
<1>7. IsSeq(t)
  BY <1>5 DEF IsSeq
<1>8. /\ Len(SubSeq(s, 1, n)) = n /\ \A i \in 1 .. n : SubSeq(s, 1, n)[i] = s[i]
      /\ Len(SubSeq(t, 1, n)) = n /\ \A i \in 1 .. n : SubSeq(t, 1, n)[i] = t[i]
  BY <1>6, <1>7, PrefixSeq
<1>9. SubSeq(s, 1, n) \in Seq(U) /\ SubSeq(t, 1, n) \in Seq(U)
  <2>1. \A i \in 1 .. n : s[i] \in U /\ t[i] \in U
    <3>1. \A i \in 1 .. n : s[i] \in U
      BY <1>3, <1>6, ElementOfSeq
    <3> QED
      BY <1>5, <1>6, <3>1
  <2> QED
    BY <1>6, <2>1, SubSeqProperties
<1>10. \A i \in 1 .. n : SubSeq(t, 1, n)[i] = SubSeq(s, 1, n)[i]
  BY <1>5, <1>6, <1>8
<1>11. SubSeq(t, 1, n) = SubSeq(s, 1, n)
  BY <1>8, <1>9, <1>10, SeqEqual
<1> QED
  BY <1>4, <1>11

\* One record is an empty sequence with a record appended.
LEMMA SingleAppend ==
    ASSUME NEW r
    PROVE  <<r>> = Append(<<>>, r) /\ SubSeq(<<r>>, 1, 1) = <<r>>
<1>1. <<>> \in Seq({r}) /\ Len(<<>>) = 0
  BY EmptySeq
<1>2. PICK none : none = <<>>
  OBVIOUS
<1>3. Append(none, r) \in Seq({r}) /\ Len(Append(none, r)) = 1 /\ Append(none, r)[1] = r
  <2>1. none \in Seq({r}) /\ Len(none) = 0 /\ r \in {r}
    BY <1>1, <1>2
  <2>2. /\ Append(none, r) \in Seq({r}) /\ Len(Append(none, r)) = Len(none) + 1
        /\ Append(none, r)[Len(none) + 1] = r
    BY <2>1, AppendProperties
  <2> QED
    BY <2>1, <2>2
<1>4. <<r>> \in Seq({r}) /\ Len(<<r>>) = 1 /\ <<r>>[1] = r
  OBVIOUS
<1>5. <<r>> = Append(none, r)
  <2>1. PICK s, t : s = <<r>> /\ t = Append(none, r)
    OBVIOUS
  <2>2. /\ s \in Seq({r}) /\ t \in Seq({r}) /\ Len(s) = 1 /\ Len(t) = 1
        /\ \A i \in 1 .. 1 : s[i] = t[i]
    BY <1>3, <1>4, <2>1
  <2>3. s = t
    BY <2>2, SeqEqual
  <2> QED
    BY <2>1, <2>3
<1>6. SubSeq(<<r>>, 1, 1) = <<r>>
  <2>1. PICK s : s = <<r>>
    OBVIOUS
  <2>2. SubSeq(s, 1, Len(s)) = s
    BY <1>4, <2>1, SubSeqFull
  <2> QED
    BY <1>4, <2>1, <2>2
<1> QED
  BY <1>2, <1>5, <1>6

\* After a power loss what is left is published, and nothing else is.
LEMMA LossPublished ==
    ASSUME StoreAssumption, log \in Seq(States), NEW f, NEW a, GoodFile(f, a), PublishedFile(f),
           NEW g \in Survivors(f), log' = SubSeq(log, 1, LastSeq(g.items))
    PROVE  log' \in Seq(States) /\ LastSeq(g.items) = Len(log') /\ PublishedFile(g)'
<1>1. PICK n \in f.synced .. Len(f.items), t \in BOOLEAN :
         g = [items |-> SubSeq(f.items, 1, n), torn |-> t, synced |-> n]
  BY DEF Survivors
<1>2. n \in 0 .. Len(f.items) /\ n \in Nat
  BY <1>1, LastOfGood DEF GoodFile
<1>3. PICK u : u = SubSeq(f.items, 1, n) /\ u = g.items /\ g.synced = n
  BY <1>1
<1>4. IsSeq(u) /\ Len(u) = n
  BY <1>2, <1>3, PrefixSeq DEF GoodFile
<1>5. PICK S : u \in Seq(S)
  BY <1>4 DEF IsSeq
<1>6. PICK m \in Nat : m = LastSeq(u) /\ m <= Len(log) /\ StateOf(u) = StateAt(m) /\ SeqAt(u, n) = m
  <2>1. LastSeq(u) = SeqAt(u, n)
    <3>1. u = <<>> <=> n = 0
      BY <1>4, <1>5, EmptySeq
    <3> QED
      BY <1>4, <3>1 DEF LastSeq, SeqAt
  <2>2. SeqAt(u, n) = SeqAt(f.items, n)
    <3>1. n # 0 => u[n] = f.items[n]
      BY <1>2, <1>3, PrefixSeq DEF GoodFile
    <3> QED
      BY <3>1 DEF SeqAt
  <2>3. SeqAt(f.items, n) \in Nat
    BY <1>2, SeqAtGood
  <2>4. StateOf(u) = StateAt(LastSeq(u)) /\ LastSeq(u) <= Len(log)
    BY <1>3, SurvivorPublished
  <2> QED
    BY <2>1, <2>2, <2>3, <2>4
<1>7. log' = SubSeq(log, 1, m)
  BY <1>3, <1>6
<1>8. log' \in Seq(States) /\ Len(log') = m /\ \A i \in 1 .. m : log'[i] = log[i]
  <2>1. PICK old : old = log
    OBVIOUS
  <2>2. old \in Seq(States) /\ m \in 0 .. Len(old)
    BY <1>6, <2>1
  <2>3. /\ Len(SubSeq(old, 1, m)) = m
        /\ \A i \in 1 .. m : SubSeq(old, 1, m)[i] = old[i]
    <3>1. IsSeq(old)
      BY <2>2 DEF IsSeq
    <3> QED
      BY <2>2, <3>1, PrefixSeq
  <2>4. SubSeq(old, 1, m) \in Seq(States)
    <3>1. \A i \in 1 .. m : old[i] \in States
      BY <1>6, <2>1, <2>2, ElementOfSeq
    <3> QED
      BY <1>6, <3>1, SubSeqProperties
  <2> QED
    BY <1>7, <2>1, <2>3, <2>4
<1>9. StateAt(m)' = StateAt(m)
  BY <1>6, <1>8 DEF StateAt
<1>10. SubSeq(u, 1, n) = u
  BY <1>4, <1>5
<1>11. \A k \in n .. n : k = n
  BY <1>2
<1>12. PublishedFile(g)'
  <2>1. SeqAt(u, n) <= Len(log') /\ StateOf(SubSeq(u, 1, n)) = StateAt(SeqAt(u, n))'
    <3>1. SeqAt(u, n) <= Len(log')
      BY <1>6, <1>8
    <3>2. StateOf(SubSeq(u, 1, n)) = StateAt(m)'
      BY <1>6, <1>9, <1>10
    <3>3. StateAt(SeqAt(u, n))' = StateAt(m)'
      BY <1>6 DEF SeqAt, StateAt
    <3> QED
      BY <3>1, <3>2, <3>3
  <2> QED
    BY <1>3, <1>4, <1>11, <2>1 DEF PublishedFile
<1> QED
  BY <1>3, <1>6, <1>8, <1>12

\* Publishing a state takes nothing from what is published.
LEMMA LogGrows ==
    ASSUME StoreAssumption, log \in Seq(States), NEW f, NEW a, GoodFile(f, a), PublishedFile(f),
           mem \in States, log' = Append(log, mem)
    PROVE  PublishedFile(f)'
<1>1. PICK l \in Nat : l = Len(log) /\ Len(log') = l + 1 /\ \A i \in 1 .. l : log'[i] = log[i]
  <2>1. Len(log) \in Nat
    OBVIOUS
  <2>2. Len(log') = Len(log) + 1 /\ \A i \in 1 .. Len(log) : log'[i] = log[i]
    BY AppendProperties
  <2> QED
    BY <2>1, <2>2
<1>2. ASSUME NEW n \in f.synced .. Len(f.items)
      PROVE  SeqAt(f.items, n) <= Len(log') /\ StateOf(SubSeq(f.items, 1, n)) = StateAt(SeqAt(f.items, n))'
  <2>1. n \in 0 .. Len(f.items)
    BY LastOfGood DEF GoodFile
  <2>2. PICK m \in Nat : m = SeqAt(f.items, n) /\ m <= l /\ StateOf(SubSeq(f.items, 1, n)) = StateAt(m)
    BY <1>1, <2>1, SeqAtGood DEF PublishedFile
  <2>3. StateAt(m)' = StateAt(m)
    BY <1>1, <2>2 DEF StateAt
  <2> QED
    BY <1>1, <2>2, <2>3
<1> QED
  BY <1>2 DEF PublishedFile

\* A file with a sequence more holds the state that is published under it.
LEMMA AppendPublished ==
    ASSUME StoreAssumption, log \in Seq(States), NEW f, NEW a, GoodFile(f, a), PublishedFile(f),
           LastSeq(f.items) = Len(log), mem \in States, log' = Append(log, mem),
           NEW r, r.seq = Len(log) + 1, Replayed(StateOf(f.items), r) = mem
    PROVE  PublishedFile([f EXCEPT !.items = Append(@, r)])'
<1>1. PICK s : s = f.items
  OBVIOUS
<1>2. PICK t : t = Append(s, r)
  OBVIOUS
<1>3. PICK g : g = [f EXCEPT !.items = Append(@, r)]
  OBVIOUS
<1>4. g.items = t /\ g.synced = f.synced
  <2>1. g = [items |-> t, torn |-> f.torn, synced |-> f.synced]
    BY <1>1, <1>2, <1>3, FileFields DEF GoodFile
  <2> QED
    BY <2>1
<1>5. PICK l \in Nat : l = Len(s) /\ f.synced \in 0 .. l
  BY <1>1, LastOfGood DEF GoodFile
<1>6. /\ IsSeq(s) /\ IsSeq(t) /\ Len(t) = l + 1
      /\ \A i \in 1 .. l : t[i] = s[i]
      /\ t[l + 1] = r
  BY <1>1, <1>2, <1>5, AppendSeq DEF GoodFile
<1>7. PICK c \in Nat : c = Len(log) /\ Len(log') = c + 1 /\ log'[c + 1] = mem
  <2>1. Len(log) \in Nat /\ Len(log') = Len(log) + 1 /\ log'[Len(log) + 1] = mem
    BY AppendProperties
  <2> QED
    BY <2>1
<1>8. PublishedFile(f)'
  BY LogGrows
<1>9. ASSUME NEW n \in f.synced .. l + 1
      PROVE  SeqAt(t, n) <= c + 1 /\ StateOf(SubSeq(t, 1, n)) = StateAt(SeqAt(t, n))'
  <2>1. CASE n = l + 1
    <3>1. SubSeq(t, 1, n) = t
      <4>1. PICK T : t \in Seq(T)
        BY <1>6 DEF IsSeq
      <4> QED
        BY <1>6, <2>1, <4>1
    <3>2. StateOf(t) = mem
      BY <1>1, <1>2, <1>6, ReplayedOneByOne
    <3>3. SeqAt(t, n) = c + 1 /\ c + 1 # 0
      BY <1>5, <1>6, <1>7, <2>1 DEF SeqAt
    <3>4. StateAt(SeqAt(t, n))' = mem
      BY <1>7, <3>3 DEF StateAt, SeqAt
    <3>5. SeqAt(t, n) <= c + 1
      BY <3>3
    <3>6. StateOf(SubSeq(t, 1, n)) = mem
      BY <3>1, <3>2
    <3> QED
      BY <3>4, <3>5, <3>6
  <2>2. CASE n # l + 1
    <3>1. n \in f.synced .. l /\ n \in 0 .. l /\ n \in Nat
      BY <1>5, <2>2
    <3>2. SubSeq(t, 1, n) = SubSeq(s, 1, n)
      BY <1>2, <1>5, <1>6, <3>1, PrefixOfAppend
    <3>3. SeqAt(t, n) = SeqAt(s, n)
      BY <1>6, <3>1 DEF SeqAt
    <3>4. n \in f.synced .. Len(f.items)
      BY <1>1, <1>5, <3>1
    <3>5. SeqAt(s, n) <= Len(log') /\ StateOf(SubSeq(s, 1, n)) = StateAt(SeqAt(s, n))'
      BY <1>1, <1>8, <3>4 DEF PublishedFile
    <3> QED
      BY <1>7, <3>2, <3>3, <3>5
  <2> QED
    BY <2>1, <2>2
<1>10. PublishedFile(g)'
  BY <1>4, <1>6, <1>7, <1>9 DEF PublishedFile
<1> QED
  BY <1>3, <1>10

\* A checkpoint of the last published state.
LEMMA CheckpointPublished ==
    ASSUME StoreAssumption, NEW c \in Nat \ {0}, c = Len(log'), StateAt(c)' = mem,
           NEW r, r.kind = "checkpoint", r.seq = c, r.body = mem
    PROVE  PublishedFile([items |-> <<r>>, torn |-> FALSE, synced |-> 1])'
<1>1. PICK t : t = <<r>> /\ t = Append(<<>>, r)
  BY SingleAppend
<1>2. Len(t) = 1 /\ t[1] = r /\ SubSeq(t, 1, 1) = t
  BY <1>1, SingleSeq, SingleAppend
<1>3. StateOf(t) = mem
  <2>1. PICK none : none = <<>> /\ IsSeq(none)
    <3>1. <<>> \in Seq({r})
      OBVIOUS
    <3> QED
      BY <3>1 DEF IsSeq
  <2>2. StateOf(Append(none, r)) = Replayed(StateOf(none), r)
    BY <2>1, ReplayedOneByOne
  <2>3. StateOf(none) = Blank /\ Blank # None
    BY <2>1, NothingReplayed, StatesTyped
  <2> QED
    BY <1>1, <2>1, <2>2, <2>3 DEF Replayed
<1>4. PICK g : g = [items |-> t, torn |-> FALSE, synced |-> 1]
  OBVIOUS
<1>5. SeqAt(t, 1) = c
  BY <1>2 DEF SeqAt
<1>6. PublishedFile(g)'
  <2>1. g.items = t /\ g.synced = 1
    BY <1>4
  <2>2. SeqAt(t, 1) <= Len(log') /\ StateOf(SubSeq(t, 1, 1)) = StateAt(SeqAt(t, 1))'
    <3>1. SeqAt(t, 1) <= Len(log')
      BY <1>5
    <3>2. StateOf(SubSeq(t, 1, 1)) = StateAt(c)'
      BY <1>2, <1>3
    <3>3. StateAt(SeqAt(t, 1))' = StateAt(c)'
      BY <1>5 DEF SeqAt, StateAt
    <3> QED
      BY <3>1, <3>2, <3>3
  <2>3. \A n \in 1 .. 1 : n = 1
    OBVIOUS
  <2> QED
    BY <1>2, <2>1, <2>2, <2>3 DEF PublishedFile
<1> QED
  BY <1>1, <1>4, <1>6

-----------------------------------------------------------------------------
(* The storage operations keep what the files hold published.              *)

\* The files of the journals a store may start from hold one state for each sequence.
LEMMA InitContent ==
    ASSUME StoreAssumption, Init
    PROVE  ContentInv
<1>1. PICK n \in 0 .. MaxRecords :
         /\ log \in [1 .. n -> States]
         /\ file = [items |-> [i \in 1 .. n |-> Record("legacy", i, log[i])], torn |-> FALSE, synced |-> n]
  BY DEF Init
<1>2. PICK s : s = [i \in 1 .. n |-> Record("legacy", i, log[i])]
  OBVIOUS
<1>3. /\ n \in Nat
      /\ file.items = s /\ file.synced = n
      /\ \A i \in 1 .. n : s[i].seq = i /\ s[i].kind = "legacy" /\ s[i].body = log[i]
  BY <1>1, <1>2 DEF StoreAssumption, Record
<1>4. IsSeq(s) /\ Len(s) = n
  <2>1. s \in Seq({Record("legacy", i, log[i]) : i \in 1 .. n})
    BY <1>2, <1>3
  <2> QED
    BY <1>2, <1>3, <2>1 DEF IsSeq
<1>5. log \in Seq(States) /\ Len(log) = n
  BY <1>1, <1>3
<1>6. LastSeq(s) = n /\ SeqAt(s, n) = n
  <2>1. PICK S : s \in Seq(S)
    BY <1>4 DEF IsSeq
  <2>2. s = <<>> <=> n = 0
    BY <1>4, <2>1, EmptySeq
  <2>3. n # 0 => s[n].seq = n
    BY <1>3
  <2> QED
    BY <1>4, <2>2, <2>3 DEF LastSeq, SeqAt
<1>7. StateOf(s) = StateAt(n)
  <2>1. PICK f : Replaying(f, s) /\ StateOf(s) = f[n]
    BY <1>3, <1>4, ReplayingExists
  <2>2. \A k \in 0 .. n : f[k] = IF k = 0 THEN Blank ELSE Replayed(f[k - 1], s[k])
    BY <1>4, <2>1 DEF Replaying
  <2> DEFINE G == {k \in Nat : k <= n => f[k] = StateAt(k)}
  <2>3. 0 \in G
    BY <1>3, <2>2 DEF StateAt
  <2>4. ASSUME NEW k \in Nat, k \in G PROVE k + 1 \in G
    <3> SUFFICES ASSUME k + 1 <= n PROVE f[k + 1] = StateAt(k + 1)
      OBVIOUS
    <3>1. k + 1 \in 0 .. n /\ k + 1 \in 1 .. n /\ k + 1 # 0 /\ (k + 1) - 1 = k /\ k <= n
      BY <1>3
    <3>2. f[k] = StateAt(k) /\ StateAt(k) # None
      BY <1>5, <2>4, <3>1, StateAtTyped
    <3>3. f[k + 1] = Replayed(f[k], s[k + 1])
      BY <2>2, <3>1
    <3>4. s[k + 1].kind = "legacy" /\ s[k + 1].body = log[k + 1]
      BY <1>3, <3>1
    <3> QED
      BY <3>1, <3>2, <3>3, <3>4 DEF Replayed, StateAt
  <2>5. \A k \in Nat : k \in G
    <3> HIDE DEF G
    <3> QED
      BY <2>3, <2>4, Induction
  <2>6. f[n] = StateAt(n)
    BY <1>3, <2>5
  <2> QED
    BY <2>1, <2>6
<1>8. SubSeq(s, 1, n) = s
  <2>1. PICK S : s \in Seq(S)
    BY <1>4 DEF IsSeq
  <2> QED
    BY <1>4, <2>1, SubSeqFull
<1>9. PublishedFile(file)
  <2>1. SeqAt(s, n) <= Len(log)
    BY <1>3, <1>5, <1>6
  <2>2. StateOf(SubSeq(s, 1, n)) = StateAt(SeqAt(s, n))
    BY <1>6, <1>7, <1>8
  <2>3. \A k \in n .. n : k = n
    BY <1>3
  <2> QED
    BY <1>3, <1>4, <2>1, <2>2, <2>3 DEF PublishedFile
<1>10. FilesPublished
  BY <1>3, <1>5, <1>6, <1>9 DEF FilesPublished, Init
<1>11. OwnerHolds
  <2>1. IsSeq(<<>>)
    <3>1. <<>> \in Seq({})
      BY EmptySeq
    <3> QED
      BY <3>1 DEF IsSeq
  <2> QED
    BY <2>1, StatesTyped DEF OwnerHolds, Init, Clean, Operations
<1> QED
  BY <1>10, <1>11 DEF ContentInv

\* A step that publishes nothing.
LEMMA LogKept ==
    ASSUME log' = log, NEW f, PublishedFile(f)
    PROVE  PublishedFile(f)'
<1>1. \A n : StateAt(n)' = StateAt(n)
  BY DEF StateAt
<1>2. ASSUME NEW n \in f.synced .. Len(f.items)
      PROVE  SeqAt(f.items, n) <= Len(log') /\ StateOf(SubSeq(f.items, 1, n)) = StateAt(SeqAt(f.items, n))'
  <2>1. PICK m : m = SeqAt(f.items, n)
    OBVIOUS
  <2>2. m <= Len(log) /\ StateOf(SubSeq(f.items, 1, n)) = StateAt(m)
    BY <2>1 DEF PublishedFile
  <2> QED
    BY <1>1, <2>1, <2>2
<1> QED
  BY <1>2 DEF PublishedFile

\* A step that changes nothing of the file but its torn tail and what is synced.
LEMMA TailPublished ==
    ASSUME StoreAssumption, GoodFiles, FilesPublished, log' = log, shadow' \in {shadow, {}},
           file'.items = file.items, file'.synced \in file.synced .. Len(file.items)
    PROVE  FilesPublished'
<1>1. Len(file.items) \in Nat /\ file.synced \in Nat
  BY LastOfGood DEF GoodFiles, GoodFile
<1>2. PICK g : g = file'
  OBVIOUS
<1>3. PublishedFile(g)
  <2>1. \A n \in g.synced .. Len(g.items) : n \in file.synced .. Len(file.items)
    BY <1>1, <1>2
  <2> QED
    BY <1>2, <2>1 DEF PublishedFile, FilesPublished
<1>4. PublishedFile(g)' /\ \A f \in shadow' : PublishedFile(f)'
  <2>1. \A f \in shadow' : PublishedFile(f)
    BY DEF FilesPublished
  <2> QED
    BY <1>3, <2>1, LogKept
<1>5. \A f \in {file'} \cup shadow' : PublishedFile(f)'
  BY <1>2, <1>4
<1> QED
  BY <1>5 DEF FilesPublished

\* An append publishes the batch: replay of the record gives the state of the owner.
LEMMA AppendHolds ==
    ASSUME StoreAssumption, JournalInv, ContentInv, secured' = secured, pc = "write", Appends
    PROVE  FilesPublished' /\ Len(log') # 0 /\ mem = StateAt(Len(log))'
<1>1. /\ GoodFile(file, secured) /\ ~file.torn /\ shadow = {}
      /\ next = LastSeq(file.items) + 1
  BY DEF JournalInv, GoodFiles, OwnerKnows, Current
<1>2. /\ log \in Seq(States) /\ LastSeq(file.items) = Len(log) /\ PublishedFile(file) /\ mem \in States
      /\ mem = AppliedAll(StateAt(Len(log)), staged.changes)
  BY DEF ContentInv, FilesPublished, OwnerHolds
<1>3. PICK r : r = Record("mutations", next, staged.changes)
  OBVIOUS
<1>4. r.kind = "mutations" /\ r.seq = next /\ r.body = staged.changes
  BY <1>3 DEF Record
<1>5. file' = [file EXCEPT !.items = Append(@, r)] /\ shadow' = {} /\ log' = Append(log, mem)
  BY <1>1, <1>3 DEF Appends, NewRecord
<1>6. PICK c \in Nat : c = Len(log) /\ Len(log') = c + 1 /\ log'[c + 1] = mem /\ log' \in Seq(States)
  <2>1. Len(log) \in Nat
    BY <1>2
  <2> QED
    BY <1>2, <1>5, <2>1, AppendProperties
<1>7. Replayed(StateOf(file.items), r) = mem
  <2>1. StateOf(file.items) = StateAt(c)
    BY <1>1, <1>2, <1>6, WholeFile
  <2>2. StateAt(c) # None
    BY <1>2, <1>6, StateAtTyped
  <2> QED
    BY <1>2, <1>4, <1>6, <2>1, <2>2 DEF Replayed
<1>8. PICK g : g = file'
  OBVIOUS
<1>9. PublishedFile(g)'
  <2>1. PICK f : f = file
    OBVIOUS
  <2>2. /\ GoodFile(f, secured) /\ PublishedFile(f) /\ LastSeq(f.items) = Len(log)
        /\ Replayed(StateOf(f.items), r) = mem
    BY <1>1, <1>2, <1>7, <2>1
  <2>3. r.seq = Len(log) + 1
    BY <1>1, <1>2, <1>4
  <2>4. PublishedFile([f EXCEPT !.items = Append(@, r)])'
    BY <1>2, <1>5, <2>2, <2>3, AppendPublished
  <2>5. g = [f EXCEPT !.items = Append(@, r)]
    BY <1>5, <1>8, <2>1
  <2> QED
    BY <2>4, <2>5
<1>10. LastSeq(file'.items) = next
  BY AppendKept
<1>11. FilesPublished'
  <2>1. LastSeq(file'.items) = Len(log')
    BY <1>1, <1>2, <1>6, <1>10
  <2>2. \A f \in {file'} \cup shadow' : f = g
    BY <1>5, <1>8
  <2> QED
    BY <1>6, <1>9, <2>1, <2>2 DEF FilesPublished
<1>12. mem = StateAt(Len(log))'
  BY <1>6 DEF StateAt
<1> QED
  BY <1>6, <1>11, <1>12

\* A replacement publishes what the owner holds, or writes down what is published.
LEMMA ReplaceHolds ==
    ASSUME StoreAssumption, JournalInv, ContentInv, secured' = secured, pc = "replace", Replaces
    PROVE  FilesPublished' /\ Len(log') # 0 /\ mem = StateAt(Len(log))'
<1>1. GoodFile(file, secured) /\ shadow = {} /\ Target \in 1 .. MaxU64
  BY DEF JournalInv, GoodFiles, OwnerKnows
<1>2. /\ log \in Seq(States) /\ PublishedFile(file) /\ mem \in States
      /\ goal = "commit" => next = Len(log) + 1
      /\ goal # "commit" => seq = Len(log) /\ mem = StateAt(Len(log))
  BY DEF ContentInv, FilesPublished, OwnerHolds
<1>3. PICK r : r = Record("checkpoint", Target, mem)
  OBVIOUS
<1>4. r.kind = "checkpoint" /\ r.seq = Target /\ r.body = mem
  BY <1>3 DEF Record
<1>5. /\ file' = [items |-> <<r>>, torn |-> FALSE, synced |-> 1] /\ shadow' = {file}
      /\ log' = IF goal = "commit" THEN Append(log, mem) ELSE log
  BY <1>1, <1>3 DEF Replaces, NewRecord
<1>6. PICK c \in Nat \ {0} : /\ c = Len(log') /\ c = Target /\ StateAt(c)' = mem /\ log' \in Seq(States)
  <2>1. CASE goal = "commit"
    <3>1. PICK b \in Nat : b = Len(log)
      BY <1>2
    <3>2. Len(log') = b + 1 /\ log'[b + 1] = mem /\ log' \in Seq(States)
      BY <1>2, <1>5, <2>1, <3>1, AppendProperties
    <3>3. Target = b + 1
      BY <1>2, <2>1, <3>1 DEF Target
    <3>4. StateAt(b + 1)' = mem
      BY <3>1, <3>2 DEF StateAt
    <3>5. b + 1 \in Nat \ {0}
      OBVIOUS
    <3> QED
      BY <3>2, <3>3, <3>4, <3>5
  <2>2. CASE goal # "commit"
    <3>1. PICK b \in Nat : b = Len(log)
      BY <1>2
    <3>2. log' = log /\ b = Target /\ b # 0
      BY <1>1, <1>2, <1>5, <2>2, <3>1 DEF Target
    <3>3. StateAt(b)' = StateAt(b) /\ mem = StateAt(b)
      BY <1>2, <2>2, <3>1, <3>2 DEF StateAt
    <3> QED
      BY <1>2, <3>1, <3>2, <3>3
  <2> QED
    BY <2>1, <2>2
<1>7. PICK f, g : f = file /\ g = file'
  OBVIOUS
<1>8. PublishedFile(g)'
  <2>1. PublishedFile([items |-> <<r>>, torn |-> FALSE, synced |-> 1])'
    BY <1>4, <1>6, CheckpointPublished
  <2> QED
    BY <1>5, <1>7, <2>1
<1>9. PublishedFile(f)'
  <2>1. CASE goal = "commit"
    BY <1>1, <1>2, <1>5, <1>7, <2>1, LogGrows
  <2>2. CASE goal # "commit"
    <3>1. log' = log
      BY <1>5, <2>2
    <3> QED
      BY <1>2, <1>7, <3>1, LogKept
  <2> QED
    BY <2>1, <2>2
<1>10. LastSeq(file'.items) = Target
  BY ReplaceKept
<1>11. FilesPublished'
  <2>1. LastSeq(file'.items) = Len(log')
    BY <1>6, <1>10
  <2>2. \A x \in {file'} \cup shadow' : x = f \/ x = g
    BY <1>5, <1>7
  <2> QED
    BY <1>6, <1>8, <1>9, <2>1, <2>2 DEF FilesPublished
<1>12. mem = StateAt(Len(log))'
  BY <1>6 DEF StateAt
<1> QED
  BY <1>6, <1>11, <1>12

\* A step that changes nothing of the file but its torn tail.
LEMMA TornPublished ==
    ASSUME StoreAssumption, JournalInv, ContentInv, log' = log, shadow' \in {shadow, {}},
           file' = file \/ \E t \in BOOLEAN : file' = [file EXCEPT !.torn = t]
    PROVE  FilesPublished'
<1>1. GoodFile(file, secured) /\ GoodFiles /\ FilesPublished
  BY DEF JournalInv, GoodFiles, ContentInv
<1>2. file'.items = file.items /\ file'.synced = file.synced
  <2>1. CASE file' = file
    BY <2>1
  <2>2. CASE \E t \in BOOLEAN : file' = [file EXCEPT !.torn = t]
    <3>1. PICK t \in BOOLEAN : file' = [file EXCEPT !.torn = t]
      BY <2>2
    <3>2. file' = [items |-> file.items, torn |-> t, synced |-> file.synced]
      BY <1>1, <3>1, FileFields DEF GoodFile
    <3> QED
      BY <3>2
  <2> QED
    BY <2>1, <2>2
<1>3. file.synced \in file.synced .. Len(file.items)
  <2>1. Len(file.items) \in Nat
    BY <1>1, LastOfGood
  <2> QED
    BY <1>1, <2>1 DEF GoodFile
<1> QED
  BY <1>1, <1>2, <1>3, TailPublished

\* A sync, with its commit or without.
LEMMA SyncPublished ==
    ASSUME StoreAssumption, JournalInv, ContentInv, Flushes
    PROVE  FilesPublished'
<1>1. GoodFile(file, secured) /\ GoodFiles /\ FilesPublished
  BY DEF JournalInv, GoodFiles, ContentInv
<1>2. file' = [items |-> file.items, torn |-> file.torn, synced |-> Len(file.items)]
  BY <1>1, FileFields DEF Flushes, GoodFile
<1>3. Len(file.items) \in file.synced .. Len(file.items)
  <2>1. Len(file.items) \in Nat
    BY <1>1, LastOfGood
  <2> QED
    BY <1>1, <2>1 DEF GoodFile
<1> QED
  BY <1>1, <1>2, <1>3, TailPublished DEF Flushes

\* What a power loss leaves is published, and what it took is no longer.
LEMMA LossKeeps ==
    ASSUME StoreAssumption, JournalInv, ContentInv, PowerLoss
    PROVE  FilesPublished'
<1>1. PICK g \in Remains :
          /\ file' = g
          /\ log' = SubSeq(log, 1, Min({Len(log), LastSeq(g.items)}))
  BY DEF PowerLoss
<1>2. PICK f \in {file} \cup shadow : g \in Survivors(f)
  BY <1>1 DEF Remains
<1>3. GoodFile(f, secured) /\ PublishedFile(f) /\ log \in Seq(States) /\ secured \in 0 .. MaxU64
  BY <1>2 DEF JournalInv, GoodFiles, ContentInv, FilesPublished
<1>4. Min({Len(log), LastSeq(g.items)}) = LastSeq(g.items)
  <2>1. GoodFile(g, secured)
    BY <1>2, <1>3, GoodSurvivor
  <2>2. PICK l, m \in Nat : l = Len(log) /\ m = LastSeq(g.items) /\ m <= l
    <3>1. LastSeq(g.items) \in 0 .. MaxU64 /\ Len(log) \in Nat
      BY <1>3, <2>1, LastOfGood
    <3>2. LastSeq(g.items) <= Len(log)
      BY <1>2, <1>3, SurvivorPublished
    <3> QED
      BY <3>1, <3>2
  <2>3. Min({l, m}) = m
    BY <2>2 DEF Min
  <2> QED
    BY <2>2, <2>3
<1>5. log' \in Seq(States) /\ LastSeq(g.items) = Len(log') /\ PublishedFile(g)'
  BY <1>1, <1>2, <1>3, <1>4, LossPublished
<1>6. \A x \in {file'} \cup shadow' : x = g
  BY <1>1 DEF PowerLoss
<1> QED
  BY <1>1, <1>5, <1>6 DEF FilesPublished

-----------------------------------------------------------------------------
(* What the owner holds.                                                   *)

\* An empty batch.
LEMMA CleanBatch ==
    /\ Clean = [changes |-> Clean.changes, checkpoint |-> Clean.checkpoint]
    /\ IsSeq(Clean.changes) /\ Clean.changes = <<>> /\ Clean.checkpoint = FALSE
<1>1. <<>> \in Seq({})
  BY EmptySeq
<1> QED
  BY <1>1 DEF Clean, IsSeq

\* An owner that is gone or has failed.
LEMMA OwnerGone ==
    ASSUME StoreAssumption, ContentInv, goal' = goal,
           \/ Released
           \/ pc' = "terminal" /\ UNCHANGED <<mem, staged>>
    PROVE  OwnerHolds'
<1>1. /\ goal \in {"open", "commit", "compact"} /\ mem \in States
      /\ staged = [changes |-> staged.changes, checkpoint |-> staged.checkpoint]
      /\ IsSeq(staged.changes) /\ staged.checkpoint \in BOOLEAN
  BY DEF ContentInv, OwnerHolds
<1>2. CASE Released
  BY <1>1, <1>2, CleanBatch, StatesTyped DEF Released, OwnerHolds, Operations
<1>3. CASE pc' = "terminal" /\ UNCHANGED <<mem, staged>>
  BY <1>1, <1>3 DEF OwnerHolds, Operations
<1> QED
  BY <1>2, <1>3

\* Set and remove: the state changes as replay of the change would change it.
LEMMA StageHolds ==
    ASSUME StoreAssumption, JournalInv, ContentInv, NEW k \in Keys,
           StageRemove(k) \/ \E v \in Vals : StageSet(k, v)
    PROVE  FilesPublished' /\ OwnerHolds'
<1>1. PICK v \in Vals \cup {None} :
          /\ v = None => mem[k] # None
          /\ mem' = [mem EXCEPT ![k] = v]
          /\ staged' = Recorded([key |-> k, val |-> v])
  <2>1. CASE StageRemove(k)
    BY <2>1 DEF StageRemove
  <2>2. CASE \E v \in Vals : StageSet(k, v)
    BY <2>2 DEF StageSet, StoreAssumption
  <2> QED
    BY <2>1, <2>2
<1>2. pc = "idle" /\ UNCHANGED <<file, shadow, pc, goal, seq, next, count, usable, log, secured>>
  BY DEF StageSet, StageRemove
<1>3. /\ goal \in {"open", "commit", "compact"} /\ mem \in States
      /\ staged = [changes |-> staged.changes, checkpoint |-> staged.checkpoint]
      /\ IsSeq(staged.changes) /\ staged.checkpoint \in BOOLEAN
      /\ ~staged.checkpoint => mem = AppliedAll(StateAt(Len(log)), staged.changes)
  BY <1>2 DEF ContentInv, OwnerHolds
<1>4. FilesPublished'
  BY <1>2, TornPublished
<1>5. PICK change : change = [key |-> k, val |-> v]
  OBVIOUS
<1>6. mem' \in States /\ Applied(mem, change) = mem'
  BY <1>1, <1>3, <1>5, ChangeApplied
<1>7. PICK batch, base : batch = staged.changes /\ base = StateAt(Len(log))
  OBVIOUS
<1>8. CASE staged.checkpoint \/ Len(staged.changes) >= MaxBatch
  <2>1. staged' = [changes |-> <<>>, checkpoint |-> TRUE]
    BY <1>1, <1>8 DEF Recorded
  <2>2. IsSeq(<<>>)
    BY CleanBatch
  <2> QED
    BY <1>2, <1>3, <1>4, <1>6, <2>1, <2>2 DEF OwnerHolds, Operations
<1>9. CASE ~(staged.checkpoint \/ Len(staged.changes) >= MaxBatch)
  <2>1. staged' = [changes |-> Append(batch, change), checkpoint |-> FALSE]
    <3>1. PICK s, c, longer : s = staged /\ c = staged.checkpoint /\ longer = Append(batch, change)
      OBVIOUS
    <3>2. s = [changes |-> batch, checkpoint |-> c]
      BY <1>3, <1>7, <3>1
    <3>3. [s EXCEPT !.changes = longer] = [changes |-> longer, checkpoint |-> c]
      BY <3>2
    <3>4. c = FALSE
      BY <1>3, <1>9, <3>1
    <3> QED
      BY <1>1, <1>5, <1>7, <1>9, <3>1, <3>3, <3>4 DEF Recorded
  <2>2. IsSeq(Append(batch, change))
    BY <1>3, <1>7, AppendSeq
  <2>3. mem' = AppliedAll(base, Append(batch, change))
    <3>1. AppliedAll(base, Append(batch, change)) = Applied(AppliedAll(base, batch), change)
      BY <1>3, <1>7, AppliedOneByOne
    <3>2. AppliedAll(base, batch) = mem
      BY <1>3, <1>7, <1>9
    <3> QED
      BY <1>6, <3>1, <3>2
  <2>4. StateAt(Len(log))' = base
    BY <1>2, <1>7 DEF StateAt
  <2>5. PICK longer : longer = Append(batch, change)
    OBVIOUS
  <2>6. staged'.changes = longer /\ staged'.checkpoint = FALSE /\ staged' = [changes |-> longer, checkpoint |-> FALSE]
    BY <2>1, <2>5
  <2>7. AppliedAll(StateAt(Len(log)), staged.changes)' = mem'
    BY <2>3, <2>4, <2>5, <2>6 DEF AppliedAll, Applied
  <2> QED
    BY <1>2, <1>3, <1>4, <1>6, <2>2, <2>5, <2>6, <2>7 DEF OwnerHolds, Operations
<1> QED
  BY <1>8, <1>9

\* Recovery starts from the last published state.
LEMMA RecoverHolds ==
    ASSUME StoreAssumption, JournalInv, ContentInv, Recover
    PROVE  FilesPublished' /\ OwnerHolds'
<1>1. goal = "open" /\ goal' = "open" /\ log' = log /\ staged = Clean
  BY DEF Recover, Trims, JournalInv, OwnerKnows, ContentInv, OwnerHolds
<1>2. FilesPublished'
  BY TornPublished DEF Recover, Trims
<1>3. CASE Released
  BY <1>1, <1>2, <1>3, OwnerGone
<1>4. CASE ~Released
  <2>1. /\ mem' = StateOf(file.items) /\ seq' = LastSeq(file.items) /\ staged' = Clean
        /\ pc' \in {"replace", "idle"}
    BY <1>1, <1>4 DEF Recover
  <2>2. PICK base : base = StateAt(Len(log)) /\ base \in States /\ mem' = base
    <3>1. GoodFile(file, secured) /\ PublishedFile(file) /\ LastSeq(file.items) = Len(log) /\ log \in Seq(States)
      BY DEF JournalInv, GoodFiles, ContentInv, FilesPublished
    <3>2. Len(log) \in Nat /\ Len(log) <= Len(log)
      BY <3>1
    <3> QED
      BY <2>1, <3>1, <3>2, WholeFile, StateAtTyped
  <2>3. StateAt(Len(log))' = base
    BY <1>1, <2>2 DEF StateAt
  <2>4. AppliedAll(StateAt(Len(log)), staged.changes)' = AppliedAll(base, <<>>)
    BY <2>1, <2>3, CleanBatch DEF AppliedAll, Applied
  <2>5. AppliedAll(base, <<>>) = base
    BY NothingApplied
  <2>6. seq' = Len(log')
    BY <1>1, <2>1 DEF ContentInv, FilesPublished
  <2>7. OwnerHolds'
    BY <1>1, <2>1, <2>2, <2>3, <2>4, <2>5, <2>6, CleanBatch DEF OwnerHolds, Operations
  <2> QED
    BY <1>2, <2>7
<1> QED
  BY <1>3, <1>4

\* A commit or a compaction that has returned.
LEMMA CompletesHolds ==
    ASSUME StoreAssumption, ContentInv, pc \in {"sync", "reopen"}, NEW records, Completes(records),
           goal' = goal, mem' = mem, log' = log
    PROVE  OwnerHolds'
<1>1. mem = StateAt(Len(log)) /\ mem \in States /\ goal \in {"open", "commit", "compact"}
  BY DEF ContentInv, OwnerHolds
<1>2. pc' = "idle" /\ staged' = Clean
  BY DEF Completes
<1>3. PICK base : base = StateAt(Len(log))
  OBVIOUS
<1>4. StateAt(Len(log))' = base
  BY <1>3 DEF StateAt
<1>5. AppliedAll(StateAt(Len(log)), staged.changes)' = AppliedAll(base, <<>>)
  BY <1>2, <1>4, CleanBatch DEF AppliedAll, Applied
<1>6. AppliedAll(base, <<>>) = base
  BY NothingApplied
<1> QED
  BY <1>1, <1>2, <1>3, <1>4, <1>5, <1>6, CleanBatch DEF OwnerHolds, Operations

\* A commit begins with what it will publish, a compaction with what is published.
LEMMA BeginHolds ==
    ASSUME StoreAssumption, JournalInv, ContentInv, BeginCommit \/ BeginCompact
    PROVE  FilesPublished' /\ OwnerHolds'
<1>1. UNCHANGED <<file, shadow, mem, staged, seq, next, log>> /\ pc = "idle"
  BY DEF BeginCommit, BeginCompact
<1>2. FilesPublished'
  BY <1>1, TornPublished
<1>3. /\ seq = Len(log)
      /\ usable => next = Len(log) + 1
      /\ mem \in States
      /\ staged = [changes |-> staged.changes, checkpoint |-> staged.checkpoint]
      /\ IsSeq(staged.changes) /\ staged.checkpoint \in BOOLEAN
      /\ ~staged.checkpoint => mem = AppliedAll(StateAt(Len(log)), staged.changes)
  BY <1>1 DEF JournalInv, OwnerKnows, ContentInv, FilesPublished, OwnerHolds
<1>4. StateAt(Len(log))' = StateAt(Len(log))
  BY <1>1 DEF StateAt
<1>5. AppliedAll(StateAt(Len(log)), staged.changes)' = AppliedAll(StateAt(Len(log)), staged.changes)
  BY <1>1, <1>4 DEF AppliedAll, Applied
<1>6. CASE BeginCommit
  <2>1. /\ goal' = "commit"
        /\ \/ pc' = "terminal"
           \/ usable /\ ~staged.checkpoint /\ pc' = "write"
           \/ usable /\ pc' = "replace"
    BY <1>6 DEF BeginCommit
  <2>2. OwnerHolds'
    BY <1>1, <1>3, <1>4, <1>5, <2>1 DEF OwnerHolds, Operations
  <2> QED
    BY <1>2, <2>2
<1>7. CASE BeginCompact
  <2>1. goal' = "compact" /\ pc' \in {"terminal", "replace"} /\ staged = Clean
    BY <1>7 DEF BeginCompact
  <2>2. mem = StateAt(Len(log))
    <3>1. staged.changes = <<>> /\ ~staged.checkpoint
      BY <2>1, CleanBatch
    <3>2. mem = AppliedAll(StateAt(Len(log)), <<>>)
      BY <1>3, <3>1
    <3> QED
      BY <3>2, NothingApplied
  <2>3. OwnerHolds'
    BY <1>1, <1>3, <1>4, <2>1, <2>2 DEF OwnerHolds, Operations
  <2> QED
    BY <1>2, <2>3
<1> QED
  BY <1>6, <1>7

\* An operation that does not return has published nothing, or what it was to publish.
LEMMA InterruptedHolds ==
    ASSUME StoreAssumption, JournalInv, ContentInv, Interrupted
    PROVE  FilesPublished' /\ OwnerHolds'
<1>1. secured' = secured /\ goal' = goal
  BY DEF Interrupted
<1>2. OwnerHolds'
  <2>1. Released \/ (pc' = "terminal" /\ UNCHANGED <<mem, staged>>)
    BY DEF Interrupted, Abandoned, owner
  <2> QED
    BY <1>1, <2>1, OwnerGone
<1>3. FilesPublished'
  <2>1. CASE UNCHANGED <<file, shadow, log>>
    BY <2>1, TornPublished
  <2>2. CASE Settles \/ Trims \/ Tears
    BY <2>2, TornPublished DEF Settles, Trims, Tears
  <2>3. CASE pc = "write" /\ Appends
    BY <2>3, <1>1, AppendHolds
  <2>4. CASE pc = "sync" /\ Flushes
    BY <2>4, SyncPublished
  <2>5. CASE pc = "replace" /\ Replaces
    BY <2>5, <1>1, ReplaceHolds
  <2> QED
    BY <2>1, <2>2, <2>3, <2>4, <2>5 DEF Interrupted
<1> QED
  BY <1>2, <1>3

\* Every step keeps what the files and the owner hold.
LEMMA NextContent ==
    ASSUME StoreAssumption, JournalInv, ContentInv, [Next]_vars
    PROVE  ContentInv'
<1>1. CASE Open \/ Prepare
  <2>1. /\ pc' \in {"prepare", "recover"} /\ goal' \in {"open", goal} /\ staged = Clean
        /\ UNCHANGED <<file, mem, staged, log>> /\ shadow' \in {shadow, {}}
    BY <1>1 DEF Open, Prepare, Settles, owner, ContentInv, OwnerHolds
  <2>2. FilesPublished'
    BY <2>1, TornPublished
  <2>3. goal' = "open"
    BY <1>1 DEF Open, Prepare, JournalInv, OwnerKnows
  <2>4. OwnerHolds'
    BY <2>1, <2>3 DEF ContentInv, OwnerHolds, Operations
  <2> QED
    BY <2>2, <2>4 DEF ContentInv
<1>2. CASE Recover
  BY <1>2, RecoverHolds DEF ContentInv
<1>3. CASE RecoverRefuses \/ Stop
  <2>1. UNCHANGED <<file, shadow, log, goal>> /\ Released
    BY <1>3 DEF RecoverRefuses, Stop
  <2>2. FilesPublished'
    BY <2>1, TornPublished
  <2> QED
    BY <2>1, <2>2, OwnerGone DEF ContentInv
<1>4. CASE \E k \in Keys : StageRemove(k) \/ \E v \in Vals : StageSet(k, v)
  BY <1>4, StageHolds DEF ContentInv
<1>5. CASE BeginCommit \/ BeginCompact
  BY <1>5, BeginHolds DEF ContentInv
<1>6. CASE Write
  <2>1. pc' = "sync" /\ UNCHANGED <<goal, mem, staged>> /\ goal = "commit"
    BY <1>6 DEF Write, owner, JournalInv, OwnerKnows
  <2>2. FilesPublished' /\ Len(log') # 0 /\ mem = StateAt(Len(log))'
    BY <1>6, AppendHolds DEF Write
  <2>3. OwnerHolds'
    BY <2>1, <2>2 DEF ContentInv, OwnerHolds
  <2> QED
    BY <2>2, <2>3 DEF ContentInv
<1>7. CASE Sync
  <2>1. FilesPublished'
    BY <1>7, SyncPublished DEF Sync
  <2>2. OwnerHolds'
    BY <1>7, CompletesHolds DEF Sync, Flushes
  <2> QED
    BY <2>1, <2>2 DEF ContentInv
<1>8. CASE Replace
  <2>1. pc' = "dirSync" /\ UNCHANGED <<goal, mem, staged>>
    BY <1>8 DEF Replace, owner
  <2>2. FilesPublished' /\ Len(log') # 0 /\ mem = StateAt(Len(log))'
    BY <1>8, ReplaceHolds DEF Replace
  <2>3. OwnerHolds'
    BY <1>8, <2>1, <2>2 DEF ContentInv, OwnerHolds, Replace, Operations
  <2> QED
    BY <2>2, <2>3 DEF ContentInv
<1>9. CASE DirSync
  <2>1. pc' = "reopen" /\ UNCHANGED <<file, goal, mem, staged, log>> /\ shadow' = {}
    BY <1>9 DEF DirSync, owner, Settles
  <2>2. FilesPublished'
    BY <2>1, TornPublished
  <2>3. StateAt(Len(log))' = StateAt(Len(log))
    BY <2>1 DEF StateAt
  <2>4. OwnerHolds'
    BY <1>9, <2>1, <2>3 DEF ContentInv, OwnerHolds, DirSync, Operations
  <2> QED
    BY <2>2, <2>4 DEF ContentInv
<1>10. CASE Reopen
  <2>1. UNCHANGED <<file, shadow, goal, mem, log>> /\ pc = "reopen" /\ Completes(1)
    BY <1>10 DEF Reopen
  <2>2. FilesPublished'
    BY <2>1, TornPublished
  <2>3. OwnerHolds'
    BY <2>1, CompletesHolds
  <2> QED
    BY <2>2, <2>3 DEF ContentInv
<1>11. CASE Interrupted
  BY <1>11, InterruptedHolds DEF ContentInv
<1>12. CASE PowerLoss
  <2>1. FilesPublished'
    BY <1>12, LossKeeps
  <2>2. OwnerHolds'
    BY <1>12, OwnerGone DEF PowerLoss
  <2> QED
    BY <2>1, <2>2 DEF ContentInv
<1>13. CASE CommitClean \/ UNCHANGED vars
  <2>1. UNCHANGED <<file, shadow, pc, goal, mem, staged, seq, next, log>>
    BY <1>13 DEF CommitClean, vars, owner
  <2>2. FilesPublished'
    BY <2>1, TornPublished
  <2>3. StateAt(Len(log))' = StateAt(Len(log))
    BY <2>1 DEF StateAt
  <2>4. AppliedAll(StateAt(Len(log)), staged.changes)' = AppliedAll(StateAt(Len(log)), staged.changes)
    BY <2>1, <2>3 DEF AppliedAll, Applied
  <2>5. OwnerHolds'
    BY <2>1, <2>3, <2>4 DEF ContentInv, OwnerHolds
  <2> QED
    BY <2>2, <2>5 DEF ContentInv
<1> QED
  BY <1>1, <1>2, <1>3, <1>4, <1>5, <1>6, <1>7, <1>8, <1>9, <1>10, <1>11, <1>12, <1>13
  DEF Next, OwnerStep

\* The invariant covers what a power loss leaves.
LEMMA ContentCovers ==
    ASSUME StoreAssumption, JournalInv, ContentInv
    PROVE  SurvivorsArePublished
<1> SUFFICES ASSUME NEW f \in Remains
             PROVE  /\ LastSeq(f.items) <= Len(log)
                    /\ StateOf(f.items) = IF LastSeq(f.items) = 0 THEN Blank ELSE log[LastSeq(f.items)]
  BY DEF SurvivorsArePublished
<1>1. PICK g \in {file} \cup shadow : f \in Survivors(g)
  BY DEF Remains
<1>2. GoodFile(g, secured) /\ PublishedFile(g)
  BY <1>1 DEF JournalInv, GoodFiles, ContentInv, FilesPublished
<1> QED
  BY <1>1, <1>2, SurvivorPublished DEF StateAt

\* Reopening finds a state that a commit has published under that sequence, whatever failed
\* on the way (recover_store_state of store.nct over the records of journal.nct).
THEOREM PublishedStatesSurvive == Spec => []SurvivorsArePublished
<1>1. Init => JournalInv /\ ContentInv
  BY StoreAssumption, InitGood, InitContent
<1>2. JournalInv /\ ContentInv /\ [Next]_vars => JournalInv' /\ ContentInv'
  BY StoreAssumption, NextKeeps, NextContent
<1>3. JournalInv /\ ContentInv => SurvivorsArePublished
  BY StoreAssumption, ContentCovers
<1> QED
  BY <1>1, <1>2, <1>3, PTL DEF Spec

-----------------------------------------------------------------------------
(* The store implements DurableStore.                                      *)

Hidden == pc \in {"closed", "prepare", "recover", "terminal"} \/ (goal = "open" /\ pc # "idle")

View == IF Hidden THEN None ELSE mem

Writing == goal = "commit" /\ pc \in {"sync", "dirSync", "reopen"}

\* The history that only a return changes.
Untold == acked' = acked /\ secured' = secured

Latest == IF log = <<>> THEN Blank ELSE log[Len(log)]

\* What the steps of the store show, as steps of the abstract one.
LEMMA Shows ==
    /\ View' = View /\ log' = log /\ Untold /\ Writing' = Writing => UNCHANGED Durable!vars
    /\ View' = None /\ log' = log /\ Untold /\ ~Writing' => Durable!Stop
    /\ View # None /\ View' \in States /\ log' = log /\ Untold /\ ~Writing /\ ~Writing' => Durable!Edit
    /\ View = Latest /\ View' = View /\ log' = log /\ secured' = secured /\ acked' = Len(log)
         /\ ~Writing /\ ~Writing' => Durable!Answer
    /\ View = Latest /\ View' = View /\ log' = log /\ secured' = Len(log) /\ ~Writing'
         /\ acked' = (IF Writing THEN Len(log) ELSE acked) => Durable!Secure
    /\ View # None /\ ~Writing /\ log' = Append(log, View) /\ Untold
         /\ ((View' = View /\ Writing') \/ (View' = None /\ ~Writing')) => Durable!Publish
    /\ View = None /\ View' = Latest /\ log' = log /\ acked' = acked /\ secured' \in {secured, Len(log)}
         /\ ~Writing /\ ~Writing' => Durable!Open
    /\ View' = None /\ Untold /\ ~Writing' /\ (\E n \in secured .. Len(log) : log' = SubSeq(log, 1, n))
         => Durable!Lose
<1>1. Writing \in BOOLEAN /\ Writing' \in BOOLEAN
  BY DEF Writing
<1> QED
  BY <1>1
  DEF View, Hidden, Writing, Untold, Latest, Durable!Latest, Durable!vars, Durable!Stop, Durable!Edit,
      Durable!Answer, Durable!Secure, Durable!Publish, Durable!Open, Durable!Lose

\* The last published state, as the abstract store says it.
LEMMA LastState ==
    ASSUME log \in Seq(States)
    PROVE  StateAt(Len(log)) = Latest
<1>1. log = <<>> <=> Len(log) = 0
  BY EmptySeq
<1> QED
  BY <1>1 DEF StateAt, Latest

\* Recovery opens the store, or it finds a journal that it must replace first.
LEMMA RecoverOpens ==
    ASSUME StoreAssumption, JournalInv, ContentInv, Recover
    PROVE  Durable!Open \/ UNCHANGED Durable!vars
<1>1. goal = "open" /\ goal' = "open" /\ log' = log /\ Untold /\ pc = "recover"
      /\ ~Writing /\ ~Writing' /\ Writing' = Writing
  BY DEF Recover, Trims, JournalInv, OwnerKnows, Writing, Untold
<1>2. View = None
  BY <1>1 DEF View, Hidden
<1>3. CASE pc' # "idle"
  <2>1. View' = None
    BY <1>1, <1>3 DEF View, Hidden
  <2> QED
    BY <1>1, <1>2, <2>1, Shows
<1>4. CASE pc' = "idle"
  <2>1. mem' = StateOf(file.items)
    BY <1>4 DEF Recover, Released
  <2>2. GoodFile(file, secured) /\ PublishedFile(file) /\ LastSeq(file.items) = Len(log) /\ log \in Seq(States)
    BY DEF JournalInv, GoodFiles, ContentInv, FilesPublished
  <2>3. mem' = StateAt(Len(log))
    BY <2>1, <2>2, WholeFile
  <2>4. View' = mem'
    BY <1>4 DEF View, Hidden
  <2> QED
    BY <1>1, <1>2, <2>2, <2>3, <2>4, LastState, Shows DEF Untold
<1> QED
  BY <1>3, <1>4

\* An operation that does not return may have published what the owner showed.
LEMMA InterruptedShows ==
    ASSUME StoreAssumption, JournalInv, ContentInv, Interrupted
    PROVE  Durable!Stop \/ Durable!Publish
<1>1. Untold /\ goal' = goal /\ pc' \in {"closed", "terminal"}
  BY DEF Interrupted, Abandoned, Released, Untold
<1>2. View' = None /\ ~Writing'
  BY <1>1 DEF View, Hidden, Writing
<1>3. CASE log' = log
  BY <1>1, <1>2, <1>3, Shows
<1>4. CASE log' # log
  <2>1. pc \in {"write", "replace"} /\ goal = "commit" /\ log' = Append(log, mem)
    BY <1>4 DEF Interrupted, Settles, Trims, Appends, Tears, Flushes, Replaces, JournalInv, OwnerKnows
  <2>2. View = mem /\ mem # None /\ ~Writing
    BY <2>1, StatesTyped DEF View, Hidden, Writing, ContentInv, OwnerHolds
  <2> QED
    BY <1>1, <1>2, <2>1, <2>2, Shows
<1> QED
  BY <1>3, <1>4

\* A power loss takes the end of what is published and nothing that was secured.
LEMMA LossLoses ==
    ASSUME StoreAssumption, JournalInv, ContentInv, PowerLoss
    PROVE  Durable!Lose
<1>1. PICK g \in Remains :
          /\ file' = g
          /\ log' = SubSeq(log, 1, Min({Len(log), LastSeq(g.items)}))
  BY DEF PowerLoss
<1>2. PICK f \in {file} \cup shadow : g \in Survivors(f)
  BY <1>1 DEF Remains
<1>3. GoodFile(f, secured) /\ PublishedFile(f) /\ log \in Seq(States) /\ secured \in 0 .. MaxU64
  BY <1>2 DEF JournalInv, GoodFiles, ContentInv, FilesPublished
<1>4. PICK l, m \in Nat : l = Len(log) /\ m = LastSeq(g.items) /\ m <= l /\ m >= secured
  <2>1. GoodFile(g, secured)
    BY <1>2, <1>3, GoodSurvivor
  <2>2. LastSeq(g.items) \in 0 .. MaxU64 /\ Len(log) \in Nat
    BY <1>3, <2>1, LastOfGood
  <2>3. LastSeq(g.items) <= Len(log)
    BY <1>2, <1>3, SurvivorPublished
  <2>4. LastSeq(g.items) >= secured
    BY <1>1, InvCovers DEF SecuredSurvives
  <2> QED
    BY <2>2, <2>3, <2>4
<1>5. Min({l, m}) = m
  BY <1>4 DEF Min
<1>6. log' = SubSeq(log, 1, m)
  BY <1>1, <1>4, <1>5
<1>7. m \in secured .. Len(log)
  BY <1>3, <1>4
<1>8. View' = None /\ Untold /\ ~Writing'
  BY DEF PowerLoss, Released, View, Hidden, Writing, Untold
<1> QED
  BY <1>6, <1>7, <1>8, Shows

\* An operation that returns secures the last published state; if it was a commit, it tells its
\* sequence; if it brought the journal to the current format, it opens the store.
LEMMA ReturnShows ==
    ASSUME StoreAssumption, JournalInv, ContentInv, Sync \/ Reopen
    PROVE  Durable!Secure \/ Durable!Open
<1>1. /\ pc \in {"sync", "reopen"} /\ pc' = "idle" /\ goal' = goal /\ mem' = mem /\ log' = log
      /\ acked' = IF goal = "commit" THEN Target ELSE acked
      /\ secured' = Target
  BY DEF Sync, Reopen, Flushes, Completes
<1>2. mem = StateAt(Len(log)) /\ log \in Seq(States) /\ LastSeq(file.items) = Len(log)
  BY <1>1 DEF ContentInv, FilesPublished, OwnerHolds
<1>3. mem = Latest
  BY <1>2, LastState
<1>4. View' = mem /\ ~Writing' /\ (Writing <=> goal = "commit")
  BY <1>1 DEF View, Hidden, Writing
<1>5. Target = Len(log)
  BY <1>1, <1>2 DEF JournalInv, OwnerKnows, Replaced, Target
<1>6. CASE goal = "open"
  <2>1. View = None
    BY <1>1, <1>6 DEF View, Hidden
  <2> QED
    BY <1>1, <1>3, <1>4, <1>5, <1>6, <2>1, Shows
<1>7. CASE goal # "open"
  <2>1. View = mem
    BY <1>1, <1>7 DEF View, Hidden
  <2> QED
    BY <1>1, <1>3, <1>4, <1>5, <1>7, <2>1, Shows
<1> QED
  BY <1>6, <1>7

\* A commit of nothing returns the sequence of the state that the owner shows.
LEMMA CleanShows ==
    ASSUME StoreAssumption, JournalInv, ContentInv, CommitClean
    PROVE  Durable!Answer
<1>1. /\ pc = "idle" /\ pc' = pc /\ goal' = goal /\ mem' = mem /\ log' = log /\ secured' = secured
      /\ acked' = seq /\ staged = Clean
  BY DEF CommitClean, owner
<1>2. log \in Seq(States) /\ seq = Len(log)
  BY <1>1 DEF JournalInv, OwnerKnows, ContentInv, FilesPublished
<1>3. staged.changes = <<>> /\ staged.checkpoint = FALSE
  BY <1>1, CleanBatch
<1>4. mem = StateAt(Len(log))
  BY <1>1, <1>3, NothingApplied DEF ContentInv, OwnerHolds
<1>5. View = Latest /\ View' = View /\ ~Writing /\ ~Writing'
  BY <1>1, <1>2, <1>4, LastState DEF View, Hidden, Writing
<1> QED
  BY <1>1, <1>2, <1>5, Shows

\* Each step of the store is one of the abstract store, or none.
LEMMA StepRefines ==
    ASSUME StoreAssumption, JournalInv, ContentInv, [Next]_vars
    PROVE  [Durable!Next]_(Durable!vars)
<1>1. ContentInv'
  BY NextContent
<1>2. mem \in States /\ mem # None /\ mem' \in States
  BY <1>1, StatesTyped DEF ContentInv, OwnerHolds
<1>3. ASSUME View' = View, log' = log, Untold, Writing' = Writing
      PROVE  UNCHANGED Durable!vars
  BY <1>3, Shows
<1>4. CASE Open \/ Prepare \/ RecoverRefuses
  <2>1. pc \in {"closed", "prepare", "recover"} /\ pc' \in {"prepare", "recover", "closed"}
        /\ log' = log /\ Untold
    BY <1>4 DEF Open, Prepare, Settles, RecoverRefuses, Released, Untold
  <2>2. View' = None /\ View = None /\ Writing' = Writing
    BY <2>1 DEF View, Hidden, Writing
  <2> QED
    BY <1>3, <2>1, <2>2
<1>5. CASE Recover
  BY <1>5, RecoverOpens DEF Durable!Next
<1>6. CASE \E k \in Keys : StageRemove(k) \/ \E v \in Vals : StageSet(k, v)
  <2>1. pc = "idle" /\ pc' = "idle" /\ log' = log /\ Untold
    BY <1>6 DEF StageRemove, StageSet, Untold
  <2>2. View = mem /\ View' = mem' /\ ~Writing /\ ~Writing'
    BY <2>1 DEF View, Hidden, Writing
  <2> QED
    BY <1>2, <2>1, <2>2, Shows DEF Durable!Next
<1>7. CASE BeginCommit \/ BeginCompact
  <2>1. pc = "idle" /\ pc' \in {"terminal", "write", "replace"} /\ goal' # "open"
        /\ mem' = mem /\ log' = log /\ Untold
    BY <1>7 DEF BeginCommit, BeginCompact, Untold
  <2>2. View' \in {View, None} /\ ~Writing /\ ~Writing' /\ Writing' = Writing
    BY <2>1 DEF View, Hidden, Writing
  <2> QED
    BY <1>3, <2>1, <2>2, Shows DEF Durable!Next
<1>8. CASE Write
  <2>1. pc = "write" /\ pc' = "sync" /\ goal = "commit" /\ goal' = goal /\ mem' = mem
        /\ log' = Append(log, mem) /\ Untold
    BY <1>8 DEF Write, Appends, owner, JournalInv, OwnerKnows, Untold
  <2>2. View = mem /\ View' = mem /\ ~Writing /\ Writing'
    BY <2>1 DEF View, Hidden, Writing
  <2> QED
    BY <1>2, <2>1, <2>2, Shows DEF Durable!Next
<1>9. CASE Sync \/ Reopen
  BY <1>9, ReturnShows DEF Durable!Next
<1>10. CASE Replace
  <2>1. pc = "replace" /\ pc' = "dirSync" /\ goal' = goal /\ mem' = mem /\ Untold
        /\ log' = IF goal = "commit" THEN Append(log, mem) ELSE log
    BY <1>10 DEF Replace, Replaces, owner, Untold
  <2>2. View' = View /\ ~Writing /\ (goal = "commit" => View = mem /\ Writing')
        /\ (goal # "commit" => Writing' = Writing)
    BY <2>1 DEF View, Hidden, Writing
  <2> QED
    BY <1>2, <1>3, <2>1, <2>2, Shows DEF Durable!Next
<1>11. CASE DirSync
  <2>1. pc = "dirSync" /\ pc' = "reopen" /\ goal' = goal /\ mem' = mem /\ Untold /\ log' = log
    BY <1>11 DEF DirSync, Settles, owner, Untold
  <2>2. View' = View /\ Writing' = Writing
    BY <2>1 DEF View, Hidden, Writing
  <2> QED
    BY <1>3, <2>1, <2>2
<1>12. CASE Interrupted
  BY <1>12, InterruptedShows DEF Durable!Next
<1>13. CASE Stop
  <2>1. View' = None /\ log' = log /\ Untold /\ ~Writing'
    BY <1>13 DEF Stop, Released, View, Hidden, Writing, Untold
  <2> QED
    BY <2>1, Shows DEF Durable!Next
<1>14. CASE PowerLoss
  BY <1>14, LossLoses DEF Durable!Next
<1>15. CASE CommitClean
  BY <1>15, CleanShows DEF Durable!Next
<1>16. CASE UNCHANGED vars
  <2>1. View' = View /\ log' = log /\ Untold /\ Writing' = Writing
    BY <1>16 DEF vars, owner, View, Hidden, Writing, Untold
  <2> QED
    BY <1>3, <2>1
<1> QED
  BY <1>4, <1>5, <1>6, <1>7, <1>8, <1>9, <1>10, <1>11, <1>12, <1>13, <1>14, <1>15, <1>16
  DEF Next, OwnerStep

\* The owner, the journal and the disk together are a durable store, across failures, power
\* losses and reopenings: what a store promises of the states its commits have written, and of
\* the sequence that a commit without changes returns, but not that this one is kept.
THEOREM StoreIsDurable == Spec => DurableSpec
<1>1. Init => JournalInv /\ ContentInv
  BY StoreAssumption, InitGood, InitContent
<1>2. JournalInv /\ ContentInv /\ [Next]_vars => JournalInv' /\ ContentInv'
  BY StoreAssumption, NextKeeps, NextContent
<1>3. Init => Durable!Init
  <2> SUFFICES ASSUME Init PROVE Durable!Init
    OBVIOUS
  <2>1. PICK n \in 0 .. MaxRecords : log \in [1 .. n -> States] /\ acked = n /\ secured = n
    BY DEF Init
  <2>2. n \in Nat
    BY <2>1, StoreAssumption DEF StoreAssumption
  <2>3. log \in Seq(States) /\ Len(log) = n
    BY <2>1, <2>2
  <2> QED
    BY <2>1, <2>3 DEF Init, Durable!Init
<1>4. JournalInv /\ ContentInv /\ [Next]_vars => [Durable!Next]_(Durable!vars)
  BY StoreAssumption, StepRefines
<1> QED
  BY <1>1, <1>2, <1>3, <1>4, PTL DEF Spec, DurableSpec, Durable!Spec

\* A secured state is final: its sequence is never given to another state, and what is secured
\* only grows, whatever fails and however often the store is opened again.
SecuredKept == secured <= secured' /\ \A n \in 1 .. secured : log'[n] = log[n]

\* A client may rely on this knowing the abstract store only.
LEMMA DurableKeeps ==
    ASSUME log \in Seq(States), secured \in 0 .. Len(log), [Durable!Next]_(Durable!vars)
    PROVE  SecuredKept
<1>1. PICK l \in Nat : l = Len(log) /\ secured \in 0 .. l
  OBVIOUS
<1>2. CASE log' = log /\ secured' \in {secured, Len(log)}
  BY <1>1, <1>2 DEF SecuredKept
<1>3. CASE Durable!Publish
  <2>1. PICK e : log' = Append(log, e) /\ secured' = secured
    BY <1>3 DEF Durable!Publish
  <2>2. \A n \in 1 .. l : log'[n] = log[n]
    BY <1>1, <2>1
  <2> QED
    BY <1>1, <2>1, <2>2 DEF SecuredKept
<1>4. CASE Durable!Lose
  <2>1. PICK m \in secured .. l : log' = SubSeq(log, 1, m) /\ secured' = secured
    BY <1>1, <1>4 DEF Durable!Lose
  <2>2. m \in 0 .. Len(log) /\ IsSeq(log)
    BY <1>1, <2>1 DEF IsSeq
  <2>3. \A n \in 1 .. m : log'[n] = log[n]
    BY <2>1, <2>2, PrefixSeq
  <2> QED
    BY <1>1, <2>1, <2>3 DEF SecuredKept
<1>5. CASE Durable!Open \/ Durable!Edit \/ Durable!Answer \/ Durable!Secure \/ Durable!Stop
           \/ UNCHANGED Durable!vars
  BY <1>2, <1>5
  DEF Durable!Open, Durable!Edit, Durable!Answer, Durable!Secure, Durable!Stop, Durable!vars
<1> QED
  BY <1>3, <1>4, <1>5 DEF Durable!Next

\* A state that a commit has written and returned, or that a compaction has, stays under its
\* sequence for ever (commit and compact of store.nct).
THEOREM SecuredStays == Spec => [][SecuredKept]_vars
<1>1. Init => JournalInv /\ ContentInv
  BY StoreAssumption, InitGood, InitContent
<1>2. JournalInv /\ ContentInv /\ [Next]_vars => JournalInv' /\ ContentInv'
  BY StoreAssumption, NextKeeps, NextContent
<1>3. JournalInv /\ ContentInv => log \in Seq(States) /\ secured \in 0 .. Len(log)
  <2> SUFFICES ASSUME JournalInv, ContentInv PROVE log \in Seq(States) /\ secured \in 0 .. Len(log)
    OBVIOUS
  <2>1. GoodFile(file, secured) /\ secured \in 0 .. MaxU64
    BY DEF JournalInv, GoodFiles
  <2>2. log \in Seq(States) /\ LastSeq(file.items) = Len(log)
    BY DEF ContentInv, FilesPublished
  <2>3. LastSeq(file.items) >= secured
    BY <2>1, StoreAssumption, LastOfGood
  <2> QED
    BY <2>1, <2>2, <2>3
<1>4. JournalInv /\ ContentInv /\ [Next]_vars => SecuredKept
  BY <1>3, StoreAssumption, StepRefines, DurableKeeps
<1> QED
  BY <1>1, <1>2, <1>4, PTL DEF Spec
=============================================================================
