-------------------------- MODULE SessionStoreProofs --------------------------
(***************************************************************************)
(* Proofs about SessionStore. TypeOK, LogIsSound and ValidRecordsKept hold   *)
(* whatever a failing write leaves behind; LogKeepsItsWord and the           *)
(* refinement of DurableLog need ~ShortWrites.                               *)
(***************************************************************************)
EXTENDS SessionStore, TLAPS, WellFoundedInduction

-----------------------------------------------------------------------------
(* Data *)

\* A nonempty set of positions of a sequence has a greatest one.
LEMMA GreatestIndex ==
  ASSUME NEW n \in Nat, NEW T, T \subseteq 1..n, T # {}
  PROVE  \E i \in T : \A j \in T : j <= i
<1> DEFINE D == {n - i : i \in T}
<1>1. D \subseteq Nat /\ D # {}
  <2>1. \A i \in T : n - i \in Nat
    OBVIOUS
  <2>2. D # {}
    OBVIOUS
  <2> QED
    BY <2>1, <2>2
<1>2. PICK d \in D : \A e \in D : ~ (<<e, d>> \in OpToRel(<, Nat))
  BY <1>1, NatLessThanWellFounded, WFMin
<1>3. PICK i \in T : d = n - i
  OBVIOUS
<1>4. ASSUME NEW j \in T PROVE j <= i
  <2>1. n - j \in D /\ n - j \in Nat /\ d \in Nat
    BY <1>1
  <2>2. ~ (n - j < d)
    BY <1>2, <2>1 DEF OpToRel
  <2> QED
    BY <2>1, <2>2, <1>3
<1> QED
  BY <1>4

\* What appending one sequence to another does to its elements.
LEMMA Concatenation ==
  ASSUME NEW S, NEW s \in Seq(S), NEW t \in Seq(S)
  PROVE /\ s \o t \in Seq(S)
        /\ Len(s \o t) = Len(s) + Len(t)
        /\ \A i \in 1..Len(s) : (s \o t)[i] = s[i]
        /\ \A i \in 1..Len(t) : (s \o t)[Len(s) + i] = t[i]
  OBVIOUS

\* What the first k elements of a sequence are.
LEMMA Prefix ==
  ASSUME NEW S, NEW t \in Seq(S), NEW k \in 0..Len(t)
  PROVE /\ SubSeq(t, 1, k) \in Seq(S)
        /\ Len(SubSeq(t, 1, k)) = k
        /\ \A i \in 1..k : SubSeq(t, 1, k)[i] = t[i]
  OBVIOUS

\* Append numbers the new events of a batch consecutively.
LEMMA StampDef ==
  ASSUME NEW n \in Nat, NEW new \in [1..n -> Event], NEW first \in Nat
  PROVE /\ Stamp(new, first) \in Seq(Record)
        /\ Len(Stamp(new, first)) = n
        /\ \A i \in 1..n : /\ Stamp(new, first)[i].id = new[i].id
                           /\ Stamp(new, first)[i].content = new[i].content
                           /\ Stamp(new, first)[i].seq = first + i
<1>1. DOMAIN new = 1..n
  OBVIOUS
<1>2. \A i \in 1..n : /\ new[i].id \in EventID /\ new[i].content \in Content
                      /\ first + i \in Nat
  BY DEF EventID, Content
<1>3. Stamp(new, first) \in [1..n -> Record]
  BY <1>1, <1>2 DEF Stamp, Record
<1>4. Stamp(new, first) \in Seq(Record) /\ Len(Stamp(new, first)) = n
  BY <1>3
<1> QED
  BY <1>1, <1>4 DEF Stamp

\* The last record carrying an event ID exists when any does.
LEMMA LastRecord ==
  ASSUME valid \in Seq(Record), NEW id \in {valid[i].id : i \in DOMAIN valid}
  PROVE  LastAt(id) \in DOMAIN valid /\ valid[LastAt(id)].id = id
<1> DEFINE T == {i \in DOMAIN valid : valid[i].id = id}
<1>1. T \subseteq 1..Len(valid) /\ T # {} /\ Len(valid) \in Nat
  OBVIOUS
<1>2. \E i \in T : \A j \in T : j <= i
  BY <1>1, GreatestIndex
<1>3. \E i \in DOMAIN valid : /\ valid[i].id = id
                              /\ \A j \in DOMAIN valid : valid[j].id = id => j <= i
  BY <1>2
<1> QED
  BY <1>3 DEF LastAt

\* What Append works with before it writes: a position and an index of the log.
LEMMA CurrentType ==
  ASSUME TypeOK
  PROVE /\ LastSeq \in Nat /\ CurrentTail \in Nat
        /\ DOMAIN CurrentIndex \subseteq EventID
        /\ \A id \in DOMAIN CurrentIndex : CurrentIndex[id].seq \in Nat
<1>1. valid \in Seq(Record)
  BY DEF TypeOK
<1>2. \A i \in DOMAIN valid : valid[i].seq \in Nat /\ valid[i].id \in EventID
  <2>1. \A i \in DOMAIN valid : valid[i] \in Record
    BY <1>1
  <2>2. \A r \in Record : r.seq \in Nat /\ r.id \in EventID
    BY DEF Record
  <2> QED
    BY <2>1, <2>2
<1>3. LastSeq \in Nat
  <2>1. valid # <<>> => Len(valid) \in DOMAIN valid
    BY <1>1
  <2> QED
    BY <2>1, <1>2 DEF LastSeq
<1>4. CurrentTail \in Nat
  BY <1>3 DEF CurrentTail, TypeOK
<1>5. DOMAIN ReadIndex \subseteq EventID
  BY <1>2 DEF ReadIndex
<1>6. \A id \in DOMAIN ReadIndex : ReadIndex[id].seq \in Nat
  BY <1>1, <1>2, LastRecord DEF ReadIndex
<1> QED
  BY <1>3, <1>4, <1>5, <1>6 DEF CurrentIndex, TypeOK
-----------------------------------------------------------------------------
(* What one write does to the readable records *)

\* The first k lines of a batch are now behind the records there were.
Wrote(new, k) ==
  /\ valid' \in Seq(Record)
  /\ Len(valid') = Len(valid) + k
  /\ \A i \in 1..Len(valid) : valid'[i] = valid[i]
  /\ \A i \in 1..k : /\ valid'[Len(valid) + i].id = new[i].id
                     /\ valid'[Len(valid) + i].content = new[i].content
                     /\ valid'[Len(valid) + i].seq = CurrentTail + i

\* A cut-off write adds some first lines of the batch, and none behind garbage.
LEMMA WritePartEffect ==
  ASSUME TypeOK, NEW n \in Nat, NEW new \in [1..n -> Event], NEW k \in 0..n, NEW half,
         WritePart(Stamp(new, CurrentTail), k, half)
  PROVE  /\ tail = "clean" => Wrote(new, k)
         /\ tail # "clean" => valid' = valid /\ tail' \in {tail, "damaged"}
<1> DEFINE lines == Stamp(new, CurrentTail)
           part  == SubSeq(lines, 1, k)
<1>1. /\ lines \in Seq(Record) /\ Len(lines) = n
      /\ \A i \in 1..n : /\ lines[i].id = new[i].id /\ lines[i].content = new[i].content
                         /\ lines[i].seq = CurrentTail + i
  BY CurrentType, StampDef
<1>2. part \in Seq(Record) /\ Len(part) = k /\ \A i \in 1..k : part[i] = lines[i]
  BY <1>1, Prefix
<1>3. valid \in Seq(Record)
  BY DEF TypeOK
<1> HIDE DEF lines, part
<1>4. /\ valid \o part \in Seq(Record)
      /\ Len(valid \o part) = Len(valid) + k
      /\ \A i \in 1..Len(valid) : (valid \o part)[i] = valid[i]
      /\ \A i \in 1..k : (valid \o part)[Len(valid) + i] = lines[i]
  <2>1. /\ valid \o part \in Seq(Record)
        /\ Len(valid \o part) = Len(valid) + Len(part)
        /\ \A i \in 1..Len(valid) : (valid \o part)[i] = valid[i]
        /\ \A i \in 1..Len(part) : (valid \o part)[Len(valid) + i] = part[i]
    <3>1. part \in Seq(Record)
      BY <1>2
    <3> QED
      BY ONLY <1>3, <3>1, Concatenation
  <2> QED
    BY <1>2, <2>1
<1>5. CASE tail = "clean"
  <2>1. valid' = valid \o part
    BY <1>5 DEF WritePart, lines, part
  <2> QED
    BY <1>1, <1>4, <1>5, <2>1 DEF Wrote
<1>6. CASE tail # "clean"
  BY <1>6 DEF WritePart
<1> QED
  BY <1>5, <1>6

\* A write that succeeds adds the whole batch, unless garbage hides it.
LEMMA WriteLinesEffect ==
  ASSUME TypeOK, NEW n \in Nat, NEW new \in [1..n -> Event],
         WriteLines(Stamp(new, CurrentTail))
  PROVE  /\ tail = "clean" => Wrote(new, n) /\ tail' = "clean"
         /\ tail # "clean" => valid' = valid /\ tail' \in {tail, "damaged"}
<1> DEFINE lines == Stamp(new, CurrentTail)
<1>1. /\ lines \in Seq(Record) /\ Len(lines) = n
      /\ \A i \in 1..n : /\ lines[i].id = new[i].id /\ lines[i].content = new[i].content
                         /\ lines[i].seq = CurrentTail + i
  BY CurrentType, StampDef
<1>3. valid \in Seq(Record)
  BY DEF TypeOK
<1> HIDE DEF lines
<1>4. /\ valid \o lines \in Seq(Record)
      /\ Len(valid \o lines) = Len(valid) + n
      /\ \A i \in 1..Len(valid) : (valid \o lines)[i] = valid[i]
      /\ \A i \in 1..n : (valid \o lines)[Len(valid) + i] = lines[i]
  BY <1>1, <1>3, Concatenation
<1>5. CASE tail = "clean"
  <2>1. valid' = valid \o lines /\ tail' = "clean"
    BY <1>5 DEF WriteLines, lines
  <2> QED
    BY <1>1, <1>4, <1>5, <2>1 DEF Wrote
<1>6. CASE tail # "clean"
  BY <1>6 DEF WriteLines
<1> QED
  BY <1>5, <1>6
-----------------------------------------------------------------------------
(* Type correctness *)

LEMMA TypeInit == Init => TypeOK
<1> SUFFICES ASSUME Init PROVE TypeOK
  OBVIOUS
<1>1. PICK log \in LegacyLogs :
        /\ valid = [i \in DOMAIN log |-> [id |-> log[i].id, content |-> log[i].content, seq |-> i]]
        /\ legacy = Len(log)
  BY DEF Init
<1>2. log \in Seq(Event)
  BY StoreAssumption DEF StoreAssumption
<1>3. \A i \in DOMAIN log : /\ log[i].id \in EventID /\ log[i].content \in Content /\ i \in Nat
  BY <1>2 DEF EventID, Content
<1>4. \A i \in DOMAIN log : [id |-> log[i].id, content |-> log[i].content, seq |-> i] \in Record
  BY <1>3 DEF Record
<1>5. valid \in Seq(Record) /\ legacy \in Nat
  <2>1. DOMAIN log = 1..Len(log) /\ Len(log) \in Nat
    BY <1>2
  <2>2. valid \in [1..Len(log) -> Record]
    BY <1>1, <1>4, <2>1
  <2> QED
    BY <1>1, <2>1, <2>2
<1> QED
  BY <1>5 DEF Init, TypeOK, NoTail, NoIndex, Tails

\* What a load rebuilds from the files has the right type.
LEMMA LoadedType ==
  ASSUME TypeOK
  PROVE  LoadedIDs \subseteq EventID /\ LoadedSeq \in Nat /\ LoadedTail \in Nat
<1>1. \A i \in DOMAIN valid : valid[i].id \in EventID
  <2>1. \A i \in DOMAIN valid : valid[i] \in Record
    BY DEF TypeOK
  <2> QED
    BY <2>1 DEF Record
<1>2. snap.applied \subseteq EventID /\ snap.seq \in Nat
  BY DEF TypeOK
<1>3. LoadedIDs \subseteq EventID
  BY <1>1, <1>2 DEF LoadedIDs, Applied
<1> QED
  BY <1>2, <1>3, CurrentType DEF LoadedSeq, LoadedTail

LEMMA AppendAcceptedType ==
  ASSUME TypeOK, NEW dups \in SUBSET Event, NEW n \in Nat, NEW new \in NewEvents(n),
         AppendAccepted(dups, new)
  PROVE  TypeOK'
<1>1. new \in [1..n -> Event] /\ DOMAIN new = 1..n /\ Len(new) = n
  BY DEF NewEvents
<1>2. \A e \in Event : e.id \in EventID
  BY DEF EventID
<1>3. valid' \in Seq(Record) /\ tail' \in Tails
  BY <1>1, WriteLinesEffect DEF AppendAccepted, Wrote, TypeOK, Tails
<1>4. seqs' \in Nat
  BY <1>1, CurrentType DEF AppendAccepted
<1>5. DOMAIN index' \subseteq EventID
  BY <1>1, <1>2, CurrentType DEF AppendAccepted, Merged
<1>6. \A id \in DOMAIN index' : index'[id].seq \in Nat
  <2> SUFFICES ASSUME NEW id \in DOMAIN index' PROVE index'[id].seq \in Nat
    OBVIOUS
  <2>1. index' = Merged(new, CurrentTail)
    BY DEF AppendAccepted
  <2>2. CASE id \in DOMAIN CurrentIndex
    BY <2>1, <2>2, CurrentType DEF Merged
  <2>3. CASE id \notin DOMAIN CurrentIndex
    <3>1. \E i \in DOMAIN new : new[i].id = id
      BY <2>1, <2>3 DEF Merged
    <3> DEFINE i == CHOOSE i \in DOMAIN new : new[i].id = id
    <3>2. i \in 1..n
      BY <1>1, <3>1
    <3>3. index'[id].seq = CurrentTail + i
      BY <2>1, <2>3 DEF Merged
    <3> QED
      BY <3>2, <3>3, CurrentType
  <2> QED
    BY <2>2, <2>3
<1>7. acked' \subseteq Event /\ mem' \subseteq EventID
  BY <1>1, <1>2 DEF AppendAccepted, TypeOK
<1>8. late' \subseteq EventID
  BY <1>2 DEF AppendAccepted, TypeOK
<1>9. wm' \in Nat
  <2>1. \A e \in dups : CurrentIndex[e.id].seq \in Nat
    BY CurrentType DEF AppendAccepted, IsRetry
  <2>2. \A i \in DOMAIN new : Stamp(new, CurrentTail)[i].seq \in Nat
    <3>1. CurrentTail \in Nat
      BY CurrentType
    <3>2. \A i \in 1..n : Stamp(new, CurrentTail)[i].seq = CurrentTail + i
      BY <1>1, <3>1, StampDef
    <3> QED
      BY <1>1, <3>1, <3>2
  <2> QED
    BY <2>1, <2>2 DEF AppendAccepted, TypeOK
<1> QED
  BY <1>3, <1>4, <1>5, <1>6, <1>7, <1>8, <1>9 DEF AppendAccepted, TypeOK

LEMMA TypeStep == TypeOK /\ [Next]_vars => TypeOK'
<1> SUFFICES ASSUME TypeOK, [Next]_vars PROVE TypeOK'
  OBVIOUS
<1>1. ASSUME NEW dups \in SUBSET Event, NEW n \in 0..MaxBatch, NEW new \in NewEvents(n),
             AppendAccepted(dups, new)
      PROVE  TypeOK'
  BY <1>1, AppendAcceptedType, StoreAssumption DEF StoreAssumption
<1>2. ASSUME NEW n \in 1..MaxBatch, NEW new \in NewEvents(n), NEW k \in 0..n,
             NEW half \in BOOLEAN, WritePart(Stamp(new, CurrentTail), k, half)
      PROVE  valid' \in Seq(Record) /\ tail' \in Tails
  <2>1. new \in [1..n -> Event] /\ n \in Nat
    BY DEF NewEvents
  <2>2. tail' \in Tails
    BY <1>2 DEF WritePart, TypeOK, Tails
  <2> QED
    BY <1>2, <2>1, <2>2, WritePartEffect DEF Wrote, TypeOK
<1>3. ASSUME NEW n \in 1..MaxBatch, NEW new \in NewEvents(n), NEW k \in 0..n,
             NEW half \in BOOLEAN, AppendFailed(new, k, half)
      PROVE  TypeOK'
  BY <1>2, <1>3 DEF AppendFailed, ForgetSession, TypeOK, NoIndex, NoTail
<1>4. ASSUME NEW n \in 1..MaxBatch, NEW new \in NewEvents(n), NEW k \in 0..n,
             NEW half \in BOOLEAN, KilledInAppend(new, k, half)
      PROVE  TypeOK'
  BY <1>2, <1>4 DEF KilledInAppend, TypeOK
<1>5. ASSUME NEW e \in Event, AppendRefused(e) PROVE TypeOK'
  BY <1>5, CurrentType DEF AppendRefused, TypeOK
<1>6. CASE Save
  BY <1>6 DEF Save, TypeOK
<1>7. ASSUME NEW repair \in BOOLEAN, Open(repair) PROVE TypeOK'
  BY <1>7, LoadedType DEF Open, RepairTail, TypeOK, NoIndex, Tails
<1>8. CASE ListSelf
  BY <1>8, LoadedType DEF ListSelf, RepairTail, TypeOK, Tails
<1>9. CASE Crash
  BY <1>9 DEF Crash, TypeOK
<1>10. CASE UNCHANGED vars
  BY <1>10 DEF vars, TypeOK
<1> QED
  BY <1>1, <1>3, <1>4, <1>5, <1>6, <1>7, <1>8, <1>9, <1>10 DEF Next, Append_

\* Every variable keeps its type, in particular the numbers an append assigns.
THEOREM TypeCorrect == Spec => []TypeOK
  BY TypeInit, TypeStep, PTL DEF Spec
-----------------------------------------------------------------------------
(* The numbering of the log and the uniqueness of its event IDs *)

\* A live process knows the end of a clean log, and a session that has no
\* readable record has never had one: its first append has not succeeded yet.
Numbering ==
  /\ Contiguous
  /\ up /\ seqs # NoTail /\ tail = "clean" => seqs = Len(valid)
  /\ valid = <<>> => /\ snap.seq = 0
                     /\ up => tail = "clean" /\ wm = 0 /\ (indexed => DOMAIN index = {})

\* The event index, once built, misses no record of the log.
IndexComplete == up /\ indexed => \A i \in DOMAIN valid : valid[i].id \in DOMAIN index

Inv == TypeOK /\ Numbering /\ IndexComplete /\ NewRecordsUnique

\* A live process continues the sequence where the clean log ends.
LEMMA TailIsEnd ==
  ASSUME TypeOK, Numbering, up, tail = "clean"
  PROVE  CurrentTail = Len(valid)
<1>1. valid \in Seq(Record)
  BY DEF TypeOK
<1>2. LastSeq = Len(valid)
  <2>1. CASE valid = <<>>
    BY <2>1 DEF LastSeq
  <2>2. CASE valid # <<>>
    <3>1. Len(valid) \in DOMAIN valid
      BY <1>1, <2>2
    <3> QED
      BY <2>2, <3>1 DEF LastSeq, Numbering, Contiguous
  <2> QED
    BY <2>1, <2>2
<1> QED
  BY <1>2 DEF CurrentTail, Numbering

\* Whatever index Append consults, it knows every record of the log.
LEMMA IndexKnowsLog ==
  ASSUME IndexComplete, up
  PROVE  \A i \in DOMAIN valid : valid[i].id \in DOMAIN CurrentIndex
BY DEF IndexComplete, CurrentIndex, ReadIndex

\* The records a write adds continue the numbering and repeat no ID.
LEMMA WroteKeeps ==
  ASSUME Inv, up, tail = "clean", NEW n \in Nat, NEW new \in NewEvents(n), NEW k \in 0..n,
         Wrote(new, k), legacy' = legacy
  PROVE  /\ Contiguous' /\ NewRecordsUnique'
         /\ \A i \in DOMAIN valid' : \/ i \in DOMAIN valid /\ valid'[i].id = valid[i].id
                                     \/ \E j \in 1..k : valid'[i].id = new[j].id
<1>1. valid \in Seq(Record) /\ valid' \in Seq(Record) /\ Len(valid') = Len(valid) + k
  BY DEF Inv, TypeOK, Wrote
<1>2. Len(valid) \in Nat /\ DOMAIN valid = 1..Len(valid) /\ DOMAIN valid' = 1..(Len(valid) + k)
  BY <1>1
<1>3. \A i \in 1..Len(valid) : valid'[i] = valid[i]
  BY DEF Wrote
<1>4. \A i \in 1..k : valid'[Len(valid) + i].id = new[i].id
  BY DEF Wrote
<1>5. \A i \in 1..k : valid'[Len(valid) + i].seq = Len(valid) + i
  BY TailIsEnd DEF Wrote, Inv
<1>6. \A i \in DOMAIN valid' : i \in DOMAIN valid \/ \E j \in 1..k : i = Len(valid) + j
  <2> SUFFICES ASSUME NEW i \in DOMAIN valid', i \notin DOMAIN valid
               PROVE  \E j \in 1..k : i = Len(valid) + j
    OBVIOUS
  <2>1. i - Len(valid) \in 1..k /\ i = Len(valid) + (i - Len(valid))
    BY <1>2
  <2> QED
    BY <2>1
<1>7. Contiguous'
  <2> SUFFICES ASSUME NEW i \in DOMAIN valid' PROVE valid'[i].seq = i
    BY DEF Contiguous
  <2>1. CASE i \in DOMAIN valid
    BY <1>2, <1>3, <2>1 DEF Inv, Numbering, Contiguous
  <2>2. CASE \E j \in 1..k : i = Len(valid) + j
    BY <1>5, <2>2
  <2> QED
    BY <1>6, <2>1, <2>2
<1>8. NewRecordsUnique'
  <2> SUFFICES ASSUME NEW i \in DOMAIN valid', i > legacy,
                      NEW j \in DOMAIN valid', j < i, valid'[j].id = valid'[i].id
               PROVE  FALSE
    BY DEF NewRecordsUnique, Repeats
  <2>1. CASE i \in DOMAIN valid
    <3>1. j \in DOMAIN valid
      BY <1>2, <2>1
    <3> QED
      BY <1>2, <1>3, <2>1, <3>1 DEF Inv, NewRecordsUnique, Repeats
  <2>2. ASSUME NEW a \in 1..k, i = Len(valid) + a PROVE FALSE
    <3>0. a \in 1..n
      OBVIOUS
    <3>1. IsNew(new[a])
      BY <3>0 DEF NewEvents
    <3>2. CASE j \in DOMAIN valid
      BY <1>2, <1>3, <1>4, <2>2, <3>1, <3>2, IndexKnowsLog DEF Inv, IsNew
    <3>3. ASSUME NEW b \in 1..k, j = Len(valid) + b PROVE FALSE
      <4>1. new[b].id = new[a].id /\ b \in 1..n
        BY <1>4, <2>2, <3>3
      <4>2. a = b
        BY <3>0, <4>1 DEF NewEvents
      <4> QED
        BY <2>2, <3>3, <4>2
    <3> QED
      BY <1>6, <3>2, <3>3
  <2> QED
    BY <1>6, <2>1, <2>2
<1> QED
  BY <1>2, <1>3, <1>4, <1>6, <1>7, <1>8

\* An accepted batch: everything it writes is new, everything it indexes is there.
LEMMA AppendAcceptedInv ==
  ASSUME Inv, NEW dups \in SUBSET Event, NEW n \in Nat, NEW new \in NewEvents(n),
         AppendAccepted(dups, new), TypeOK'
  PROVE  Inv'
<1>1. new \in [1..n -> Event] /\ DOMAIN new = 1..n /\ Len(new) = n
  BY DEF NewEvents
<1>2. TypeOK /\ up /\ up' /\ legacy' = legacy /\ snap' = snap /\ indexed'
  BY DEF AppendAccepted, Inv
<1>3. /\ tail = "clean" => Wrote(new, n) /\ tail' = "clean"
      /\ tail # "clean" => valid' = valid /\ tail' # "clean"
  BY <1>1, <1>2, WriteLinesEffect DEF AppendAccepted
<1>4. DOMAIN index' = DOMAIN CurrentIndex \cup {new[i].id : i \in 1..n}
  BY <1>1 DEF AppendAccepted, Merged
<1>5. CASE tail = "clean"
  <2>1. Wrote(new, n) /\ tail' = "clean" /\ n \in 0..n
    BY <1>3, <1>5
  <2>2. /\ Contiguous' /\ NewRecordsUnique'
        /\ \A i \in DOMAIN valid' : \/ i \in DOMAIN valid /\ valid'[i].id = valid[i].id
                                    \/ \E j \in 1..n : valid'[i].id = new[j].id
    BY <1>2, <1>5, <2>1, WroteKeeps
  <2>3. IndexComplete'
    BY <1>2, <1>4, <2>2, IndexKnowsLog DEF IndexComplete, Inv
  <2>4. seqs' = Len(valid')
    BY <1>1, <1>2, <1>5, <2>1, TailIsEnd DEF AppendAccepted, Wrote, Inv
  <2>5. valid' # <<>>
    <3>1. SUFFICES ASSUME valid' = <<>> PROVE FALSE
      OBVIOUS
    <3>2. valid = <<>> /\ n = 0
      BY <2>1, <3>1 DEF Wrote, TypeOK, Inv
    <3>3. DOMAIN CurrentIndex = {}
      BY <1>2, <3>2 DEF Inv, Numbering, CurrentIndex, ReadIndex
    <3>4. dups = {}
      BY <3>3 DEF AppendAccepted, IsRetry
    <3> QED
      BY <1>1, <3>2, <3>4 DEF AppendAccepted
  <2> QED
    BY <2>2, <2>3, <2>4, <2>5 DEF Inv, Numbering
<1>6. CASE tail # "clean"
  <2>1. valid' = valid /\ tail' # "clean"
    BY <1>3, <1>6
  <2>2. valid # <<>>
    BY <1>2, <1>6 DEF Inv, Numbering
  <2>3. Contiguous' /\ NewRecordsUnique'
    BY <1>2, <2>1 DEF Inv, Numbering, Contiguous, NewRecordsUnique, Repeats
  <2>4. IndexComplete'
    BY <1>2, <1>4, <2>1, IndexKnowsLog DEF IndexComplete, Inv
  <2> QED
    BY <2>1, <2>2, <2>3, <2>4 DEF Inv, Numbering
<1> QED
  BY <1>5, <1>6

\* A write that is cut off leaves the readable records numbered and unrepeated.
LEMMA CutOffKeeps ==
  ASSUME Inv, up, NEW n \in Nat, NEW new \in NewEvents(n), NEW k \in 0..n, NEW half,
         WritePart(Stamp(new, CurrentTail), k, half), legacy' = legacy
  PROVE  /\ Contiguous' /\ NewRecordsUnique'
         /\ valid' = <<>> => valid = <<>>
<1>1. new \in [1..n -> Event] /\ TypeOK
  BY DEF NewEvents, Inv
<1>2. /\ tail = "clean" => Wrote(new, k)
      /\ tail # "clean" => valid' = valid
  BY <1>1, WritePartEffect
<1>3. CASE tail = "clean"
  <2>1. Contiguous' /\ NewRecordsUnique'
    BY <1>2, <1>3, WroteKeeps
  <2>2. Len(valid') = Len(valid) + k /\ valid \in Seq(Record)
    BY <1>1, <1>2, <1>3 DEF Wrote, TypeOK
  <2> QED
    BY <2>1, <2>2
<1>4. CASE tail # "clean"
  BY <1>2, <1>4 DEF Inv, Numbering, Contiguous, NewRecordsUnique, Repeats
<1> QED
  BY <1>3, <1>4

LEMMA InvInit == Init => Inv
<1> SUFFICES ASSUME Init PROVE Inv
  OBVIOUS
<1>1. PICK log \in LegacyLogs :
        /\ valid = [i \in DOMAIN log |-> [id |-> log[i].id, content |-> log[i].content, seq |-> i]]
        /\ legacy = Len(log)
  BY DEF Init
<1>2. DOMAIN log = 1..Len(log) /\ Len(log) \in Nat
  BY StoreAssumption DEF StoreAssumption
<1>3. Contiguous
  BY <1>1 DEF Contiguous
<1>4. NewRecordsUnique
  BY <1>1, <1>2 DEF NewRecordsUnique
<1> QED
  BY <1>3, <1>4, TypeInit DEF Init, Inv, Numbering, IndexComplete

LEMMA InvStep == Inv /\ [Next]_vars => Inv'
<1> SUFFICES ASSUME Inv, [Next]_vars PROVE Inv'
  OBVIOUS
<1>0. TypeOK /\ TypeOK'
  BY TypeStep DEF Inv
<1>1. ASSUME NEW dups \in SUBSET Event, NEW n \in 0..MaxBatch, NEW new \in NewEvents(n),
             AppendAccepted(dups, new)
      PROVE  Inv'
  BY <1>0, <1>1, AppendAcceptedInv, StoreAssumption DEF StoreAssumption
<1>3. ASSUME NEW n \in 1..MaxBatch, NEW new \in NewEvents(n), NEW k \in 0..n,
             NEW half \in BOOLEAN, AppendFailed(new, k, half)
      PROVE  Inv'
  <2>1. Contiguous' /\ NewRecordsUnique' /\ (valid' = <<>> => valid = <<>>)
    BY <1>3, CutOffKeeps DEF AppendFailed
  <2>2. seqs' = NoTail /\ ~indexed' /\ snap' = snap /\ (valid = <<>> => ~up')
    BY <1>3 DEF AppendFailed, ForgetSession
  <2> QED
    BY <1>0, <2>1, <2>2 DEF Inv, Numbering, IndexComplete
<1>4. ASSUME NEW n \in 1..MaxBatch, NEW new \in NewEvents(n), NEW k \in 0..n,
             NEW half \in BOOLEAN, KilledInAppend(new, k, half)
      PROVE  Inv'
  <2>1. Contiguous' /\ NewRecordsUnique' /\ (valid' = <<>> => valid = <<>>)
    BY <1>4, CutOffKeeps DEF KilledInAppend
  <2>2. ~up' /\ snap' = snap
    BY <1>4 DEF KilledInAppend
  <2> QED
    BY <1>0, <2>1, <2>2 DEF Inv, Numbering, IndexComplete
<1>5. ASSUME NEW e \in Event, AppendRefused(e) PROVE Inv'
  <2>1. UNCHANGED <<valid, tail, snap, up, seqs, wm, legacy>> /\ up /\ index' = CurrentIndex
    BY <1>5 DEF AppendRefused
  <2>2. IndexComplete'
    BY <2>1, IndexKnowsLog DEF Inv, IndexComplete
  <2>3. valid = <<>> => DOMAIN CurrentIndex = {}
    BY <2>1 DEF Inv, Numbering, CurrentIndex, ReadIndex
  <2> QED
    BY <1>0, <2>1, <2>2, <2>3 DEF Inv, Numbering, Contiguous, NewRecordsUnique, Repeats
<1>6. CASE Save
  BY <1>0, <1>6 DEF Save, Inv, Numbering, Contiguous, IndexComplete, NewRecordsUnique, Repeats
<1>7. \A i \in Nat : LoadedTail = i /\ Contiguous /\ valid # <<>> => i = Len(valid)
  <2>1. valid # <<>> => Len(valid) \in DOMAIN valid
    BY <1>0 DEF TypeOK
  <2> QED
    BY <2>1 DEF LoadedTail, LastSeq, Contiguous
<1>8. LoadedTail = Len(valid)
  BY <1>0, <1>7, LoadedType DEF LoadedTail, Inv, Numbering
<1>9. ASSUME NEW repair \in BOOLEAN, Open(repair) PROVE Inv'
  <2>1. /\ valid' = valid /\ tail' = "clean" /\ seqs' = Len(valid) /\ ~indexed'
        /\ snap' = snap /\ legacy' = legacy /\ wm' = LoadedSeq
    BY <1>8, <1>9 DEF Open, RepairTail
  <2>2. valid = <<>> => LoadedSeq = 0
    BY DEF LoadedSeq, LastSeq, Inv, Numbering
  <2> QED
    BY <1>0, <2>1, <2>2 DEF Inv, Numbering, Contiguous, IndexComplete, NewRecordsUnique, Repeats
<1>10. CASE ListSelf
  BY <1>0, <1>8, <1>10
  DEF ListSelf, RepairTail, Inv, Numbering, Contiguous, IndexComplete, NewRecordsUnique, Repeats
<1>11. CASE Crash
  BY <1>0, <1>11 DEF Crash, Inv, Numbering, Contiguous, IndexComplete, NewRecordsUnique, Repeats
<1>12. CASE UNCHANGED vars
  BY <1>0, <1>12 DEF vars, Inv, Numbering, Contiguous, IndexComplete, NewRecordsUnique, Repeats
<1> QED
  BY <1>1, <1>3, <1>4, <1>5, <1>6, <1>9, <1>10, <1>11, <1>12 DEF Next, Append_

\* No sequence of appends, failed writes, kills, repairs and restarts leaves a
\* log whose numbering makes a later load return an error.
THEOREM LogStaysReadable == Spec => []LogReadable
<1>1. Inv => LogReadable
  BY DEF Inv, Numbering, LogReadable
<1> QED
  BY <1>1, InvInit, InvStep, PTL DEF Spec

\* However often an uncertain append is retried, its event is written once.
THEOREM RetryWritesOnce == Spec => []NewRecordsUnique
<1>1. Inv => NewRecordsUnique
  BY DEF Inv
<1> QED
  BY <1>1, InvInit, InvStep, PTL DEF Spec

\* Faults and retries, in any order, leave a log that can be read and holds no event of
\* this build twice, torn lines included.
THEOREM LogStaysSound == Spec => []LogIsSound
<1>1. LogReadable /\ NewRecordsUnique => LogIsSound
  BY DEF LogIsSound
<1> QED
  BY <1>1, LogStaysReadable, RetryWritesOnce, PTL
-----------------------------------------------------------------------------
(* Every step keeps the records there are *)

\* A step only ever adds records behind the ones it finds.
LEMMA StepKeepsRecords ==
  ASSUME Inv, [Next]_vars
  PROVE  /\ Len(valid') >= Len(valid)
         /\ \A i \in DOMAIN valid : i \in DOMAIN valid' /\ valid'[i] = valid[i]
<1>0. TypeOK /\ valid \in Seq(Record) /\ Len(valid) \in Nat
  BY DEF Inv, TypeOK
<1>1. ASSUME NEW new, NEW k \in Nat, Wrote(new, k)
      PROVE  /\ Len(valid') >= Len(valid)
             /\ \A i \in DOMAIN valid : i \in DOMAIN valid' /\ valid'[i] = valid[i]
  BY <1>0, <1>1 DEF Wrote
<1>2. ASSUME valid' = valid
      PROVE  /\ Len(valid') >= Len(valid)
             /\ \A i \in DOMAIN valid : i \in DOMAIN valid' /\ valid'[i] = valid[i]
  BY <1>0, <1>2
<1>3. ASSUME NEW dups \in SUBSET Event, NEW n \in 0..MaxBatch, NEW new \in NewEvents(n),
             AppendAccepted(dups, new)
      PROVE  valid' = valid \/ Wrote(new, n)
  BY <1>0, <1>3, WriteLinesEffect, StoreAssumption DEF AppendAccepted, NewEvents, StoreAssumption
<1>4. ASSUME NEW n \in 1..MaxBatch, NEW new \in NewEvents(n), NEW k \in 0..n, NEW half \in BOOLEAN,
             AppendFailed(new, k, half) \/ KilledInAppend(new, k, half)
      PROVE  valid' = valid \/ Wrote(new, k)
  BY <1>0, <1>4, WritePartEffect DEF AppendFailed, KilledInAppend, NewEvents
<1>5. ASSUME (\E e \in Event : AppendRefused(e)) \/ Save
             \/ (\E repair \in BOOLEAN : Open(repair)) \/ ListSelf \/ Crash \/ UNCHANGED vars
      PROVE  valid' = valid
  BY <1>5 DEF AppendRefused, Save, Open, ListSelf, RepairTail, Crash, vars
<1>6. CASE \E dups \in SUBSET Event, n \in 0..MaxBatch : \E new \in NewEvents(n) :
              AppendAccepted(dups, new)
  <2>1. PICK dups \in SUBSET Event, n \in 0..MaxBatch :
               \E new \in NewEvents(n) : AppendAccepted(dups, new)
    BY <1>6
  <2>2. PICK new \in NewEvents(n) : AppendAccepted(dups, new)
    BY <2>1
  <2>3. n \in Nat
    BY StoreAssumption DEF StoreAssumption
  <2>4. valid' = valid \/ Wrote(new, n)
    BY <1>3, <2>2
  <2> QED
    BY <1>1, <1>2, <2>3, <2>4
<1>7. CASE \E n \in 1..MaxBatch : \E new \in NewEvents(n), k \in 0..n, half \in BOOLEAN :
              AppendFailed(new, k, half) \/ KilledInAppend(new, k, half)
  <2>1. PICK n \in 1..MaxBatch :
               \E new \in NewEvents(n), k \in 0..n, half \in BOOLEAN :
                 AppendFailed(new, k, half) \/ KilledInAppend(new, k, half)
    BY <1>7
  <2>2. PICK new \in NewEvents(n), k \in 0..n, half \in BOOLEAN :
               AppendFailed(new, k, half) \/ KilledInAppend(new, k, half)
    BY <2>1
  <2>3. k \in Nat
    BY StoreAssumption DEF StoreAssumption
  <2>4. valid' = valid \/ Wrote(new, k)
    BY <1>4, <2>2
  <2> QED
    BY <1>1, <1>2, <2>3, <2>4
<1> QED
  BY <1>2, <1>5, <1>6, <1>7 DEF Next, Append_

\* The log is evidence: nothing the store does, the repair included, removes or
\* rewrites a record that was readable.
THEOREM RecordsAreKept == Spec => ValidRecordsKept
<1>1. Inv /\ [Next]_vars => [ /\ Len(valid') >= Len(valid)
                              /\ \A i \in DOMAIN valid : valid'[i] = valid[i] ]_vars
  BY StepKeepsRecords
<1> QED
  BY <1>1, InvInit, InvStep, PTL DEF Spec, ValidRecordsKept
-----------------------------------------------------------------------------
(* Without torn lines in a live process: what is acknowledged stays *)

\* An entry of the index stands for a record of the log with the same content.
IndexFaithful == up /\ indexed => \A id \in DOMAIN index :
  \E i \in DOMAIN valid : valid[i].id = id /\ valid[i].content = index[id].digest[1]

CleanWhileUp == up => tail = "clean"

DurableInv == Inv /\ CleanWhileUp /\ IndexFaithful /\ AckedReadable

\* Whatever index Append consults, its entries are records of the log.
LEMMA CurrentFaithful ==
  ASSUME TypeOK, IndexFaithful, up, NEW id \in DOMAIN CurrentIndex
  PROVE  \E i \in DOMAIN valid : valid[i].id = id /\ valid[i].content = CurrentIndex[id].digest[1]
<1>1. CASE indexed
  BY <1>1 DEF IndexFaithful, CurrentIndex
<1>2. CASE ~indexed
  <2>1. id \in {valid[i].id : i \in DOMAIN valid} /\ CurrentIndex = ReadIndex
    BY <1>2 DEF CurrentIndex, ReadIndex
  <2>2. LastAt(id) \in DOMAIN valid /\ valid[LastAt(id)].id = id
    BY <2>1, LastRecord DEF TypeOK
  <2>3. CurrentIndex[id].digest = ReadDigest(valid[LastAt(id)])
    BY <2>1 DEF ReadIndex
  <2> QED
    BY <2>2, <2>3 DEF ReadDigest
<1> QED
  BY <1>1, <1>2

\* An accepted batch is indexed and acknowledged only with what the log holds.
LEMMA AppendAcceptedDurable ==
  ASSUME DurableInv, NEW dups \in SUBSET Event, NEW n \in Nat, NEW new \in NewEvents(n),
         AppendAccepted(dups, new)
  PROVE  CleanWhileUp' /\ IndexFaithful' /\ AckedReadable'
<1>1. new \in [1..n -> Event] /\ DOMAIN new = 1..n /\ TypeOK /\ up /\ tail = "clean"
  BY DEF NewEvents, AppendAccepted, DurableInv, Inv, CleanWhileUp
<1>2. Wrote(new, n) /\ tail' = "clean"
  BY <1>1, WriteLinesEffect DEF AppendAccepted
<1>3. valid \in Seq(Record) /\ valid' \in Seq(Record) /\ Len(valid') = Len(valid) + n
  BY <1>1, <1>2 DEF Wrote, TypeOK
<1>4. \A i \in DOMAIN valid : i \in DOMAIN valid' /\ valid'[i] = valid[i]
  BY <1>2, <1>3 DEF Wrote
<1>5. \A i \in 1..n : \E j \in DOMAIN valid' :
         valid'[j].id = new[i].id /\ valid'[j].content = new[i].content
  <2> SUFFICES ASSUME NEW i \in 1..n
               PROVE  \E j \in DOMAIN valid' :
                         valid'[j].id = new[i].id /\ valid'[j].content = new[i].content
    OBVIOUS
  <2>1. Len(valid) + i \in DOMAIN valid'
    BY <1>3
  <2> QED
    BY <1>2, <2>1 DEF Wrote
<1>6. IndexFaithful'
  <2> SUFFICES ASSUME NEW id \in DOMAIN index'
               PROVE  \E i \in DOMAIN valid' :
                        valid'[i].id = id /\ valid'[i].content = index'[id].digest[1]
    BY DEF IndexFaithful
  <2>1. index' = Merged(new, CurrentTail)
    BY DEF AppendAccepted
  <2>2. CASE id \in DOMAIN CurrentIndex
    <3>1. index'[id] = CurrentIndex[id]
      BY <2>1, <2>2 DEF Merged
    <3> QED
      BY <1>1, <1>4, <2>2, <3>1, CurrentFaithful DEF DurableInv
  <2>3. CASE id \notin DOMAIN CurrentIndex
    <3>1. \E i \in DOMAIN new : new[i].id = id
      BY <2>1, <2>3 DEF Merged
    <3> DEFINE i == CHOOSE i \in DOMAIN new : new[i].id = id
    <3>2. i \in 1..n /\ new[i].id = id
      BY <1>1, <3>1
    <3>3. index'[id].digest = FreshDigest(new[i])
      BY <2>1, <2>3 DEF Merged
    <3> HIDE DEF i
    <3> QED
      BY <1>5, <3>2, <3>3 DEF FreshDigest
  <2> QED
    BY <2>2, <2>3
<1>7. AckedReadable'
  <2> SUFFICES ASSUME NEW e \in acked'
               PROVE  \E i \in DOMAIN valid' : valid'[i].id = e.id /\ valid'[i].content = e.content
    BY DEF AckedReadable
  <2>1. e \in acked \/ e \in dups \/ \E i \in 1..n : e = new[i]
    BY <1>1 DEF AppendAccepted
  <2>2. CASE e \in acked
    BY <1>4, <2>2 DEF DurableInv, AckedReadable
  <2>3. CASE e \in dups
    <3>1. e.id \in DOMAIN CurrentIndex /\ CurrentIndex[e.id].digest = FreshDigest(e)
      BY <2>3 DEF AppendAccepted, IsRetry
    <3>2. CurrentIndex[e.id].digest[1] = e.content
      BY <3>1 DEF FreshDigest
    <3> QED
      BY <1>1, <1>4, <3>1, <3>2, CurrentFaithful DEF DurableInv
  <2>4. CASE \E i \in 1..n : e = new[i]
    BY <1>5, <2>4
  <2> QED
    BY <2>1, <2>2, <2>3, <2>4
<1> QED
  BY <1>2, <1>6, <1>7 DEF CleanWhileUp

LEMMA DurableInit == Init => DurableInv
  BY InvInit DEF Init, DurableInv, CleanWhileUp, IndexFaithful, AckedReadable

LEMMA DurableStep ==
  ASSUME ~ShortWrites, DurableInv, [Next]_vars
  PROVE  DurableInv'
<1>0. Inv /\ Inv' /\ TypeOK
  BY InvStep DEF DurableInv, Inv
<1>1. \A i \in DOMAIN valid : i \in DOMAIN valid' /\ valid'[i] = valid[i]
  BY <1>0, StepKeepsRecords
<1>2. ASSUME acked' = acked PROVE AckedReadable'
  BY <1>1, <1>2 DEF DurableInv, AckedReadable
<1>3. ASSUME NEW dups \in SUBSET Event, NEW n \in 0..MaxBatch, NEW new \in NewEvents(n),
             AppendAccepted(dups, new)
      PROVE  DurableInv'
  <2>1. n \in Nat
    BY StoreAssumption DEF StoreAssumption
  <2> QED
    BY <1>0, <1>3, <2>1, AppendAcceptedDurable DEF DurableInv
<1>4. ASSUME NEW n \in 1..MaxBatch, NEW new \in NewEvents(n), NEW k \in 0..n,
             NEW half \in BOOLEAN, AppendFailed(new, k, half)
      PROVE  DurableInv'
  <2>1. ~half /\ up /\ tail = "clean" /\ ~indexed' /\ acked' = acked
    BY <1>4 DEF AppendFailed, ForgetSession, DurableInv, CleanWhileUp
  <2>2. tail' = "clean"
    BY <1>4, <2>1 DEF AppendFailed, WritePart
  <2> QED
    BY <1>0, <1>2, <2>1, <2>2 DEF DurableInv, CleanWhileUp, IndexFaithful
<1>5. ASSUME NEW n \in 1..MaxBatch, NEW new \in NewEvents(n), NEW k \in 0..n,
             NEW half \in BOOLEAN, KilledInAppend(new, k, half)
      PROVE  DurableInv'
  <2>1. ~up' /\ acked' = acked
    BY <1>5 DEF KilledInAppend
  <2> QED
    BY <1>0, <1>2, <2>1 DEF DurableInv, CleanWhileUp, IndexFaithful
<1>6. ASSUME NEW e \in Event, AppendRefused(e) PROVE DurableInv'
  <2>1. /\ valid' = valid /\ tail' = tail /\ up' = up /\ acked' = acked /\ up
        /\ index' = CurrentIndex
    BY <1>6 DEF AppendRefused
  <2>2. IndexFaithful'
    BY <1>0, <2>1, CurrentFaithful DEF DurableInv, IndexFaithful
  <2> QED
    BY <1>0, <1>2, <2>1, <2>2 DEF DurableInv, CleanWhileUp
<1>7. CASE Save
  BY <1>0, <1>2, <1>7 DEF Save, DurableInv, CleanWhileUp, IndexFaithful
<1>8. ASSUME NEW repair \in BOOLEAN, Open(repair) PROVE DurableInv'
  BY <1>0, <1>2, <1>8 DEF Open, RepairTail, DurableInv, CleanWhileUp, IndexFaithful
<1>9. CASE ListSelf
  BY <1>0, <1>2, <1>9 DEF ListSelf, RepairTail, DurableInv, CleanWhileUp, IndexFaithful
<1>10. CASE Crash
  BY <1>0, <1>2, <1>10 DEF Crash, DurableInv, CleanWhileUp, IndexFaithful
<1>11. CASE UNCHANGED vars
  BY <1>0, <1>2, <1>11 DEF vars, DurableInv, CleanWhileUp, IndexFaithful
<1> QED
  BY <1>3, <1>4, <1>5, <1>6, <1>7, <1>8, <1>9, <1>10, <1>11 DEF Next, Append_

\* Unless a failing write leaves a torn line, an event Append reported as
\* accepted, first write or retry, stays a readable record.
THEOREM AcknowledgedStays == ASSUME ~ShortWrites PROVE Spec => []AckedReadable
<1>1. DurableInv => AckedReadable
  BY DEF DurableInv
<1>2. DurableInv /\ [Next]_vars => DurableInv'
  BY DurableStep
<1> QED
  BY <1>1, <1>2, DurableInit, PTL DEF Spec

\* Under the same condition the position an append continues from is the end of
\* the log, after every failed write, repair and restart.
THEOREM SequenceStaysWithLog == ASSUME ~ShortWrites PROVE Spec => []SequenceFollowsLog
<1>1. DurableInv => SequenceFollowsLog
  <2> SUFFICES ASSUME DurableInv, up, seqs # NoTail PROVE seqs = LastSeq
    BY DEF SequenceFollowsLog
  <2>1. seqs = Len(valid) /\ Contiguous /\ valid \in Seq(Record)
    BY DEF DurableInv, CleanWhileUp, Inv, Numbering, TypeOK
  <2>2. CASE valid = <<>>
    BY <2>1, <2>2 DEF LastSeq
  <2>3. CASE valid # <<>>
    <3>1. Len(valid) \in DOMAIN valid
      BY <2>1, <2>3
    <3> QED
      BY <2>1, <2>3, <3>1 DEF LastSeq, Contiguous
  <2> QED
    BY <2>2, <2>3
<1>2. DurableInv /\ [Next]_vars => DurableInv'
  BY DurableStep
<1> QED
  BY <1>1, <1>2, DurableInit, PTL DEF Spec
-----------------------------------------------------------------------------
(* What is acknowledged is loaded again, once, and no retry of it is refused *)

\* An entry of the index names the record it stands for, and its digest is that of
\* the record, as it was written or as it is read back.
IndexExact == up /\ indexed => \A id \in DOMAIN index :
  /\ index[id].seq \in DOMAIN valid
  /\ valid[index[id].seq].id = id
  /\ index[id].digest \in {ReadDigest(valid[index[id].seq]), FreshDigest(valid[index[id].seq])}

\* What a snapshot, or the process, reflects lies at or below its watermark.
Watermarks ==
  /\ snap.seq <= Len(valid)
  /\ \A id \in snap.applied : \E j \in 1..snap.seq : valid[j].id = id
  /\ up => wm <= Len(valid) /\ \A id \in mem : \E j \in 1..wm : valid[j].id = id

\* The records of an older build, the only ones that may repeat an ID, are never lost
\* behind a watermark.
LegacyKept ==
  /\ legacy <= Len(valid)
  /\ \A i \in 1..legacy : valid[i].id \in LoadedIDs /\ (up => valid[i].id \in mem)

AckedKept == \A e \in acked : e.id \in LoadedIDs \cup late /\ (up => e.id \in mem \cup late)

KeptInv == DurableInv /\ IndexExact /\ Watermarks /\ LegacyKept /\ AckedKept

\* The log as it was is a prefix of what it becomes.
Grows == /\ valid' \in Seq(Record) /\ Len(valid') >= Len(valid)
         /\ \A i \in DOMAIN valid : i \in DOMAIN valid' /\ valid'[i] = valid[i]

\* Every record lies in the file at its number.
LEMMA LogShape ==
  ASSUME DurableInv
  PROVE  /\ valid \in Seq(Record) /\ Len(valid) \in Nat /\ DOMAIN valid = 1..Len(valid)
         /\ \A i \in DOMAIN valid : valid[i].seq = i
         /\ LastSeq = Len(valid)
         /\ snap.seq \in Nat /\ wm \in Nat /\ legacy \in Nat
<1>1. /\ valid \in Seq(Record) /\ Len(valid) \in Nat /\ DOMAIN valid = 1..Len(valid)
      /\ \A i \in DOMAIN valid : valid[i].seq = i
      /\ snap.seq \in Nat /\ wm \in Nat /\ legacy \in Nat
  BY DEF DurableInv, Inv, TypeOK, Numbering, Contiguous
<1>2. CASE valid = <<>>
  BY <1>1, <1>2 DEF LastSeq
<1>3. CASE valid # <<>>
  <2>1. Len(valid) \in DOMAIN valid
    BY <1>1, <1>3
  <2> QED
    BY <1>1, <1>3, <2>1 DEF LastSeq
<1> QED
  BY <1>1, <1>2, <1>3

\* Whatever index Append consults, its entries name records of the log.
LEMMA CurrentExact ==
  ASSUME DurableInv, IndexExact, up, NEW id \in DOMAIN CurrentIndex
  PROVE  LET p == CurrentIndex[id].seq
         IN /\ p \in DOMAIN valid /\ valid[p].id = id
            /\ CurrentIndex[id].digest \in {ReadDigest(valid[p]), FreshDigest(valid[p])}
<1>1. CASE indexed
  BY <1>1 DEF IndexExact, CurrentIndex
<1>2. CASE ~indexed
  <2>1. id \in {valid[i].id : i \in DOMAIN valid} /\ CurrentIndex = ReadIndex
    BY <1>2 DEF CurrentIndex, ReadIndex
  <2>2. LastAt(id) \in DOMAIN valid /\ valid[LastAt(id)].id = id
    BY <2>1, LastRecord, LogShape
  <2>3. CurrentIndex[id] = [digest |-> ReadDigest(valid[LastAt(id)]), seq |-> valid[LastAt(id)].seq]
    BY <2>1 DEF ReadIndex
  <2>4. CurrentIndex[id].seq = LastAt(id)
    BY <2>2, <2>3, LogShape
  <2> QED
    BY <2>2, <2>3, <2>4
<1> QED
  BY <1>1, <1>2

\* A load that found an event finds it again in a longer log.
LEMMA LoadedGrows ==
  ASSUME DurableInv, Grows, snap' = snap
  PROVE  LoadedIDs \subseteq LoadedIDs'
<1>1. ASSUME NEW i \in Applied PROVE i \in Applied' /\ valid'[i].id = valid[i].id
  <2>1. i \in DOMAIN valid /\ valid[i].seq > snap.seq /\ ~Repeats(i)
    BY DEF Applied
  <2>2. i \in DOMAIN valid' /\ valid'[i] = valid[i]
    BY <2>1 DEF Grows
  <2>3. ASSUME NEW j \in DOMAIN valid', j < i PROVE j \in DOMAIN valid /\ valid'[j] = valid[j]
    <3>1. j \in Nat /\ j >= 1 /\ j < Len(valid) + 1 /\ i \in 1..Len(valid)
      BY <2>1, <2>3, LogShape DEF Grows
    <3>2. j \in DOMAIN valid
      BY <2>3, <3>1, LogShape
    <3> QED
      BY <3>2 DEF Grows
  <2>4. ~Repeats(i)'
    BY <2>1, <2>2, <2>3 DEF Repeats
  <2> QED
    BY <2>1, <2>2, <2>4 DEF Applied
<1> QED
  BY <1>1 DEF LoadedIDs

\* A first record behind the snapshot's watermark is applied by a load.
LEMMA FirstIsLoaded ==
  ASSUME DurableInv, NEW p \in DOMAIN valid, p > snap.seq, ~Repeats(p)
  PROVE  valid[p].id \in LoadedIDs
BY LogShape DEF LoadedIDs, Applied

\* A step that only lengthens the log keeps what the snapshot and the process know.
LEMMA QuietStep ==
  ASSUME KeptInv, DurableInv', Grows, UNCHANGED <<snap, mem, wm, acked, late, legacy>>, up' => up
  PROVE  Watermarks' /\ LegacyKept' /\ AckedKept'
<1>0. /\ valid \in Seq(Record) /\ Len(valid) \in Nat /\ DOMAIN valid = 1..Len(valid)
      /\ snap.seq \in Nat /\ wm \in Nat /\ legacy \in Nat /\ Len(valid') \in Nat
      /\ Len(valid) <= Len(valid') /\ DurableInv
  BY LogShape DEF KeptInv, Grows
<1>1. LoadedIDs \subseteq LoadedIDs'
  BY <1>0, LoadedGrows
<1>2. \A j \in 1..Len(valid) : valid'[j] = valid[j]
  BY <1>0 DEF Grows
<1>3. Watermarks'
  <2>1. snap.seq <= Len(valid)
    BY DEF KeptInv, Watermarks
  <2>2. snap'.seq <= Len(valid')
    BY <1>0, <2>1
  <2>3. \A id \in snap'.applied : \E j \in 1..snap'.seq : valid'[j].id = id
    BY <1>0, <1>2, <2>1 DEF KeptInv, Watermarks
  <2>4. up' => wm' <= Len(valid') /\ \A id \in mem' : \E j \in 1..wm' : valid'[j].id = id
    BY <1>0, <1>2 DEF KeptInv, Watermarks
  <2> QED
    BY <2>2, <2>3, <2>4 DEF Watermarks
<1>4. LegacyKept'
  BY <1>0, <1>1, <1>2 DEF KeptInv, LegacyKept
<1>5. AckedKept'
  BY <1>1 DEF KeptInv, AckedKept
<1> QED
  BY <1>3, <1>4, <1>5

\* An accepted batch: its records are at their places, all of it is known to the
\* process, and a retry that the snapshot had passed by is late.
LEMMA AppendAcceptedKept ==
  ASSUME KeptInv, DurableInv', Grows,
         NEW dups \in SUBSET Event, NEW n \in Nat, NEW new \in NewEvents(n),
         AppendAccepted(dups, new)
  PROVE  IndexExact' /\ Watermarks' /\ LegacyKept' /\ AckedKept'
<1>1. /\ new \in [1..n -> Event] /\ DOMAIN new = 1..n /\ TypeOK /\ up /\ tail = "clean"
      /\ DurableInv /\ snap' = snap /\ legacy' = legacy /\ acked \subseteq Event
  BY DEF NewEvents, AppendAccepted, KeptInv, DurableInv, Inv, CleanWhileUp, TypeOK
<1>2. /\ valid \in Seq(Record) /\ Len(valid) \in Nat /\ DOMAIN valid = 1..Len(valid)
      /\ \A i \in DOMAIN valid : valid[i].seq = i
      /\ snap.seq \in Nat /\ wm \in Nat /\ legacy \in Nat
  BY <1>1, LogShape
<1>3. CurrentTail = Len(valid)
  BY <1>1, TailIsEnd DEF DurableInv, Inv
<1>4. Wrote(new, n)
  BY <1>1, WriteLinesEffect DEF AppendAccepted
<1>5. Len(valid') = Len(valid) + n /\ DOMAIN valid' = 1..(Len(valid) + n)
  BY <1>2, <1>4 DEF Wrote
<1>6. \A i \in 1..n : /\ Len(valid) + i \in DOMAIN valid'
                      /\ valid'[Len(valid) + i].id = new[i].id
                      /\ valid'[Len(valid) + i].content = new[i].content
                      /\ Stamp(new, CurrentTail)[i].seq = Len(valid) + i
  <2>1. \A i \in 1..n : Stamp(new, CurrentTail)[i].seq = CurrentTail + i
    BY <1>1, CurrentType, StampDef
  <2>2. \A i \in 1..n : Len(valid) + i \in DOMAIN valid'
    BY <1>2, <1>5
  <2> QED
    BY <1>3, <1>4, <2>1, <2>2 DEF Wrote
<1>7. \A i \in 1..Len(valid) : valid'[i] = valid[i]
  BY <1>4 DEF Wrote
<1>8. \A e \in dups : /\ e.id \in DOMAIN CurrentIndex /\ CurrentIndex[e.id].seq \in 1..Len(valid)
                      /\ valid[CurrentIndex[e.id].seq].id = e.id
  BY <1>1, <1>2, CurrentExact DEF AppendAccepted, IsRetry, KeptInv
<1>9. IndexExact'
  <2> SUFFICES ASSUME NEW id \in DOMAIN index'
               PROVE  /\ index'[id].seq \in DOMAIN valid'
                      /\ valid'[index'[id].seq].id = id
                      /\ index'[id].digest \in {ReadDigest(valid'[index'[id].seq]),
                                                FreshDigest(valid'[index'[id].seq])}
    BY DEF IndexExact
  <2>1. index' = Merged(new, CurrentTail)
    BY DEF AppendAccepted
  <2>2. CASE id \in DOMAIN CurrentIndex
    <3>1. index'[id] = CurrentIndex[id]
      BY <2>1, <2>2 DEF Merged
    <3> DEFINE p == CurrentIndex[id].seq
    <3>2. /\ p \in DOMAIN valid /\ valid[p].id = id
          /\ CurrentIndex[id].digest \in {ReadDigest(valid[p]), FreshDigest(valid[p])}
      BY <1>1, <2>2, CurrentExact DEF KeptInv
    <3>3. p \in DOMAIN valid' /\ valid'[p] = valid[p]
      BY <3>2 DEF Grows
    <3> QED
      BY <3>1, <3>2, <3>3
  <2>3. CASE id \notin DOMAIN CurrentIndex
    <3>1. \E i \in DOMAIN new : new[i].id = id
      BY <2>1, <2>3 DEF Merged
    <3> DEFINE i == CHOOSE i \in DOMAIN new : new[i].id = id
    <3>2. i \in 1..n /\ new[i].id = id
      BY <1>1, <3>1
    <3>3. index'[id] = [digest |-> FreshDigest(new[i]), seq |-> CurrentTail + i]
      BY <2>1, <2>3 DEF Merged
    <3> HIDE DEF i
    <3>4. index'[id].seq = Len(valid) + i /\ index'[id].digest = FreshDigest(new[i])
      BY <1>3, <3>3
    <3> QED
      BY <1>6, <3>2, <3>4 DEF FreshDigest
  <2> QED
    BY <2>2, <2>3
<1>10. /\ wm' \in Nat /\ wm <= wm' /\ wm' <= Len(valid')
       /\ \A e \in dups : CurrentIndex[e.id].seq <= wm'
       /\ \A i \in 1..n : Len(valid) + i <= wm'
  <2> DEFINE accepted == {CurrentIndex[e.id].seq : e \in dups}
                           \cup {Stamp(new, CurrentTail)[i].seq : i \in DOMAIN new}
  <2>1. wm' \in accepted \cup {wm} /\ \A s \in accepted \cup {wm} : s <= wm'
    BY DEF AppendAccepted
  <2>2. wm <= Len(valid)
    BY <1>1 DEF KeptInv, Watermarks
  <2>3. \A s \in accepted \cup {wm} : s \in Nat /\ s <= Len(valid) + n
    <3>1. \A e \in dups : CurrentIndex[e.id].seq \in Nat /\ CurrentIndex[e.id].seq <= Len(valid) + n
      BY <1>2, <1>8
    <3>2. \A i \in 1..n : /\ Stamp(new, CurrentTail)[i].seq \in Nat
                          /\ Stamp(new, CurrentTail)[i].seq <= Len(valid) + n
      BY <1>2, <1>6
    <3> QED
      BY <1>1, <1>2, <2>2, <3>1, <3>2
  <2>4. wm' \in Nat /\ wm' <= Len(valid) + n
    BY <2>1, <2>3
  <2>5. \A e \in dups : CurrentIndex[e.id].seq <= wm'
    BY <2>1
  <2>6. \A i \in 1..n : Len(valid) + i <= wm'
    <3> SUFFICES ASSUME NEW i \in 1..n PROVE Len(valid) + i <= wm'
      OBVIOUS
    <3>1. Stamp(new, CurrentTail)[i].seq \in accepted
      BY <1>1
    <3> HIDE DEF accepted
    <3> QED
      BY <1>6, <2>1, <3>1
  <2> QED
    BY <1>5, <2>1, <2>4, <2>5, <2>6
<1>11. mem' = mem \cup {e.id : e \in dups} \cup {new[i].id : i \in 1..n}
  BY <1>1 DEF AppendAccepted
<1>12. Watermarks'
  <2>1. snap'.seq <= Len(valid') /\ \A id \in snap'.applied : \E j \in 1..snap'.seq : valid'[j].id = id
    BY SMTT(30), <1>1, <1>2, <1>5, <1>7 DEF KeptInv, Watermarks
  <2>2. ASSUME NEW id \in mem' PROVE \E j \in 1..wm' : valid'[j].id = id
    <3>1. CASE id \in mem
      BY <1>1, <1>2, <1>7, <1>10, <3>1 DEF KeptInv, Watermarks
    <3>2. ASSUME NEW e \in dups, id = e.id PROVE \E j \in 1..wm' : valid'[j].id = id
      <4>1. CurrentIndex[e.id].seq \in 1..wm'
        BY <1>2, <1>8, <1>10
      <4> QED
        BY <1>7, <1>8, <3>2, <4>1
    <3>3. ASSUME NEW i \in 1..n, id = new[i].id PROVE \E j \in 1..wm' : valid'[j].id = id
      <4>1. Len(valid) + i \in 1..wm'
        BY <1>2, <1>10
      <4> QED
        BY <1>6, <3>3, <4>1
    <3> QED
      BY <1>11, <2>2, <3>1, <3>2, <3>3
  <2> QED
    BY <1>10, <2>1, <2>2 DEF Watermarks
<1>13. LoadedIDs \subseteq LoadedIDs'
  BY <1>1, LoadedGrows
<1>14. LegacyKept'
  BY <1>1, <1>2, <1>5, <1>7, <1>11, <1>13 DEF KeptInv, LegacyKept
<1>15. AckedKept'
  <2> SUFFICES ASSUME NEW e \in acked'
               PROVE  e.id \in LoadedIDs' \cup late' /\ (up' => e.id \in mem' \cup late')
    BY DEF AckedKept
  <2>1. late \subseteq late' /\ mem \subseteq mem'
    BY DEF AppendAccepted
  <2>2. CASE e \in acked
    BY <1>1, <1>13, <2>1, <2>2 DEF KeptInv, AckedKept
  <2>3. CASE e \in dups \ acked
    <3> DEFINE p == CurrentIndex[e.id].seq
    <3>1. p \in DOMAIN valid /\ valid[p].id = e.id /\ p \in Nat
      BY <1>2, <1>8, <2>3
    <3>2. CASE p <= snap.seq
      <4>1. e.id \in snap.applied \/ e.id \in late'
        BY <2>3, <3>2 DEF AppendAccepted
      <4> QED
        BY <1>1, <1>11, <2>3, <4>1 DEF LoadedIDs
    <3>3. CASE p > snap.seq /\ ~Repeats(p)
      <4>1. e.id \in LoadedIDs
        BY <1>1, <3>1, <3>3, FirstIsLoaded
      <4> QED
        BY <1>11, <1>13, <2>3, <4>1
    <3>4. CASE Repeats(p)
      <4>1. p <= legacy
        BY <1>1, <1>2, <3>1, <3>4 DEF DurableInv, Inv, NewRecordsUnique
      <4>2. e.id \in LoadedIDs
        BY <1>2, <3>1, <4>1 DEF KeptInv, LegacyKept
      <4> QED
        BY <1>11, <1>13, <2>3, <4>2
    <3> HIDE DEF p
    <3> QED
      BY <1>2, <3>1, <3>2, <3>3, <3>4
  <2>4. ASSUME NEW i \in 1..n, e = new[i]
        PROVE  e.id \in LoadedIDs' /\ e.id \in mem'
    <3>0. PICK p \in DOMAIN valid' : p = Len(valid) + i
      BY <1>6
    <3>1. valid'[p].id = e.id /\ valid'[p].seq = p
      BY <1>6, <2>4, <3>0 DEF DurableInv, Inv, Numbering, Contiguous
    <3>2. p > snap'.seq
      BY <1>1, <1>2, <2>4, <3>0 DEF KeptInv, Watermarks
    <3>3. ~Repeats(p)'
      <4>1. p > legacy'
        BY <1>1, <1>2, <2>4, <3>0 DEF KeptInv, LegacyKept
      <4> QED
        BY <3>0, <4>1 DEF DurableInv, Inv, NewRecordsUnique
    <3>4. p \in Applied'
      BY <3>0, <3>1, <3>2, <3>3 DEF Applied
    <3> QED
      BY <1>11, <2>4, <3>1, <3>4 DEF LoadedIDs
  <2> QED
    BY <1>1, <2>2, <2>3, <2>4 DEF AppendAccepted
<1> QED
  BY <1>9, <1>12, <1>14, <1>15

\* Among the records carrying an ID there is a first one.
LEMMA FirstRecord ==
  ASSUME valid \in Seq(Record), NEW i \in DOMAIN valid
  PROVE  \E j \in DOMAIN valid : valid[j].id = valid[i].id /\ ~Repeats(j)
<1> DEFINE T == {j \in DOMAIN valid : valid[j].id = valid[i].id}
<1>1. T \subseteq Nat /\ T # {}
  OBVIOUS
<1>2. PICK j \in T : \A k \in T : ~ (<<k, j>> \in OpToRel(<, Nat))
  BY <1>1, NatLessThanWellFounded, WFMin
<1>3. \A k \in T : ~ (k < j)
  BY <1>1, <1>2 DEF OpToRel
<1> QED
  BY <1>3 DEF Repeats

LEMMA KeptInit == Init => KeptInv
<1> SUFFICES ASSUME Init PROVE KeptInv
  OBVIOUS
<1>1. DurableInv /\ TypeOK
  BY DurableInit DEF DurableInv, Inv
<1>2. PICK log \in LegacyLogs :
        /\ valid = [i \in DOMAIN log |-> [id |-> log[i].id, content |-> log[i].content, seq |-> i]]
        /\ legacy = Len(log)
  BY DEF Init
<1>3. log \in Seq(Event)
  BY StoreAssumption DEF StoreAssumption
<1>4. Len(valid) = legacy /\ Len(valid) \in Nat /\ DOMAIN valid = 1..Len(valid)
  BY <1>2, <1>3
<1>5. snap.seq = 0 /\ snap.applied = {} /\ ~up /\ acked = {} /\ ~indexed
  BY DEF Init
<1>6. \A i \in DOMAIN valid : valid[i].id \in LoadedIDs
  <2> SUFFICES ASSUME NEW i \in DOMAIN valid PROVE valid[i].id \in LoadedIDs
    OBVIOUS
  <2>1. PICK j \in DOMAIN valid : valid[j].id = valid[i].id /\ ~Repeats(j)
    BY <1>1, FirstRecord DEF TypeOK
  <2>2. j > snap.seq
    BY <1>4, <1>5
  <2> QED
    BY <1>1, <2>1, <2>2, FirstIsLoaded
<1> QED
  BY <1>1, <1>4, <1>5, <1>6 DEF KeptInv, IndexExact, Watermarks, LegacyKept, AckedKept

\* A snapshot keeps what the process reflects; a load finds what the files hold.
LEMMA SaveKept ==
  ASSUME KeptInv, DurableInv', Save
  PROVE  IndexExact' /\ Watermarks' /\ LegacyKept' /\ AckedKept'
<1>1. /\ snap' = [seq |-> wm, applied |-> mem] /\ up /\ up'
      /\ UNCHANGED <<valid, indexed, index, mem, wm, acked, late, legacy>>
  BY DEF Save
<1>2. mem \subseteq LoadedIDs'
  BY <1>1 DEF LoadedIDs
<1>3. IndexExact'
  BY <1>1 DEF KeptInv, IndexExact
<1>4. Watermarks'
  BY <1>1 DEF KeptInv, Watermarks
<1>5. LegacyKept'
  BY <1>1, <1>2 DEF KeptInv, LegacyKept
<1>6. AckedKept'
  BY <1>1, <1>2 DEF KeptInv, AckedKept
<1> QED
  BY <1>3, <1>4, <1>5, <1>6

LEMMA OpenKept ==
  ASSUME KeptInv, DurableInv', NEW repair \in BOOLEAN, Open(repair)
  PROVE  IndexExact' /\ Watermarks' /\ LegacyKept' /\ AckedKept'
<1>1. /\ mem' = LoadedIDs /\ wm' = LoadedSeq /\ ~indexed'
      /\ UNCHANGED <<valid, snap, acked, late, legacy>>
  BY DEF Open, RepairTail
<1>2. /\ Len(valid) \in Nat /\ DOMAIN valid = 1..Len(valid) /\ LastSeq = Len(valid)
      /\ snap.seq \in Nat /\ DurableInv
  BY LogShape DEF KeptInv
<1>3. snap.seq <= Len(valid)
  BY DEF KeptInv, Watermarks
<1>4. LoadedSeq = Len(valid)
  BY <1>2, <1>3 DEF LoadedSeq
<1>5. LoadedIDs' = LoadedIDs
  BY <1>1 DEF LoadedIDs, Applied, Repeats
<1>6. IndexExact'
  BY <1>1 DEF IndexExact
<1>7. \A id \in LoadedIDs : \E j \in 1..Len(valid) : valid[j].id = id
  <2>1. \A i \in Applied : i \in 1..Len(valid)
    BY <1>2 DEF Applied
  <2>2. \A id \in snap.applied : \E j \in 1..Len(valid) : valid[j].id = id
    BY <1>2, <1>3 DEF KeptInv, Watermarks
  <2> QED
    BY <2>1, <2>2 DEF LoadedIDs
<1>8. Watermarks'
  BY <1>1, <1>2, <1>4, <1>7 DEF KeptInv, Watermarks
<1>9. LegacyKept'
  BY <1>1, <1>5 DEF KeptInv, LegacyKept
<1>10. AckedKept'
  BY <1>1, <1>5 DEF KeptInv, AckedKept
<1> QED
  BY <1>6, <1>8, <1>9, <1>10

LEMMA KeptStep ==
  ASSUME ~ShortWrites, KeptInv, [Next]_vars
  PROVE  KeptInv'
<1>0. DurableInv /\ DurableInv' /\ TypeOK /\ TypeOK' /\ Inv
  BY DurableStep DEF KeptInv, DurableInv, Inv
<1>1. Grows
  BY <1>0, StepKeepsRecords, LogShape DEF Grows, TypeOK
<1> SUFFICES IndexExact' /\ Watermarks' /\ LegacyKept' /\ AckedKept'
  BY <1>0 DEF KeptInv
<1>2. ASSUME up' => up, UNCHANGED <<snap, mem, wm, acked, late, legacy>>,
             up' => ~indexed' \/ index' = CurrentIndex
      PROVE  IndexExact' /\ Watermarks' /\ LegacyKept' /\ AckedKept'
  <2>1. IndexExact'
    <3> SUFFICES ASSUME up', indexed', NEW id \in DOMAIN index'
                 PROVE  /\ index'[id].seq \in DOMAIN valid'
                        /\ valid'[index'[id].seq].id = id
                        /\ index'[id].digest \in {ReadDigest(valid'[index'[id].seq]),
                                                  FreshDigest(valid'[index'[id].seq])}
      BY DEF IndexExact
    <3>1. up /\ index' = CurrentIndex
      BY <1>2
    <3> DEFINE p == CurrentIndex[id].seq
    <3>2. /\ p \in DOMAIN valid /\ valid[p].id = id
          /\ CurrentIndex[id].digest \in {ReadDigest(valid[p]), FreshDigest(valid[p])}
      BY <1>0, <3>1, CurrentExact DEF KeptInv
    <3>3. p \in DOMAIN valid' /\ valid'[p] = valid[p]
      BY <1>1, <3>2 DEF Grows
    <3> QED
      BY <3>1, <3>2, <3>3
  <2> QED
    BY <1>0, <1>1, <1>2, <2>1, QuietStep
<1>3. ASSUME NEW dups \in SUBSET Event, NEW n \in 0..MaxBatch, NEW new \in NewEvents(n),
             AppendAccepted(dups, new)
      PROVE  IndexExact' /\ Watermarks' /\ LegacyKept' /\ AckedKept'
  <2>1. n \in Nat
    BY StoreAssumption DEF StoreAssumption
  <2> QED
    BY <1>0, <1>1, <1>3, <2>1, AppendAcceptedKept
<1>4. ASSUME NEW n \in 1..MaxBatch, NEW new \in NewEvents(n), NEW k \in 0..n,
             NEW half \in BOOLEAN, AppendFailed(new, k, half) \/ KilledInAppend(new, k, half)
      PROVE  IndexExact' /\ Watermarks' /\ LegacyKept' /\ AckedKept'
  BY <1>2, <1>4 DEF AppendFailed, KilledInAppend, ForgetSession
<1>5. ASSUME NEW e \in Event, AppendRefused(e)
      PROVE  IndexExact' /\ Watermarks' /\ LegacyKept' /\ AckedKept'
  BY <1>2, <1>5 DEF AppendRefused
<1>6. CASE Save
  BY <1>0, <1>6, SaveKept
<1>7. ASSUME NEW repair \in BOOLEAN, Open(repair)
      PROVE  IndexExact' /\ Watermarks' /\ LegacyKept' /\ AckedKept'
  BY <1>0, <1>7, OpenKept
<1>8. CASE ListSelf
  BY <1>2, <1>8 DEF ListSelf, CurrentIndex
<1>9. CASE Crash
  BY <1>2, <1>9 DEF Crash
<1>10. CASE UNCHANGED vars
  BY <1>2, <1>10 DEF vars, CurrentIndex
<1> QED
  BY <1>3, <1>4, <1>5, <1>6, <1>7, <1>8, <1>9, <1>10 DEF Next, Append_

LEMMA KeptMeans == KeptInv => AppliedOnce /\ AckedRecovered /\ ConflictIsReal
<1> SUFFICES ASSUME KeptInv PROVE AppliedOnce /\ AckedRecovered /\ ConflictIsReal
  OBVIOUS
<1>1. /\ Len(valid) \in Nat /\ DOMAIN valid = 1..Len(valid)
      /\ \A i \in DOMAIN valid : valid[i].seq = i
      /\ snap.seq \in Nat /\ DurableInv
  BY LogShape DEF KeptInv
<1>2. ASSUME NEW i \in Applied PROVE valid[i].id \notin snap.applied
  <2>1. i \in DOMAIN valid /\ i > snap.seq /\ ~Repeats(i)
    BY <1>1 DEF Applied
  <2> SUFFICES ASSUME NEW j \in 1..snap.seq, valid[j].id = valid[i].id PROVE FALSE
    BY DEF KeptInv, Watermarks
  <2> QED
    BY <1>1, <2>1 DEF Repeats
<1>3. ASSUME NEW i \in Applied, NEW j \in Applied, valid[i].id = valid[j].id PROVE i = j
  <2>1. i \in 1..Len(valid) /\ j \in 1..Len(valid) /\ ~Repeats(i) /\ ~Repeats(j)
    BY <1>1 DEF Applied
  <2>2. ~ (i < j) /\ ~ (j < i)
    BY <1>1, <1>3, <2>1 DEF Repeats
  <2> QED
    BY <2>1, <2>2
<1>4. AckedRecovered
  BY DEF KeptInv, AckedKept, AckedRecovered
<1>5. ConflictIsReal
  <2> SUFFICES ASSUME NEW e \in Event, up, e.id \in DOMAIN CurrentIndex,
                      CurrentIndex[e.id].digest # FreshDigest(e), e.content \notin Structured
               PROVE  \E i \in DOMAIN valid : valid[i].id = e.id /\ valid[i].content # e.content
    BY DEF ConflictIsReal, IsConflict
  <2> DEFINE p == CurrentIndex[e.id].seq
  <2>1. /\ p \in DOMAIN valid /\ valid[p].id = e.id
        /\ CurrentIndex[e.id].digest \in {ReadDigest(valid[p]), FreshDigest(valid[p])}
    BY <1>1, CurrentExact DEF KeptInv
  <2>2. valid[p].content # e.content
    BY <2>1 DEF ReadDigest, FreshDigest
  <2> QED
    BY <2>1, <2>2
<1> QED
  BY <1>2, <1>3, <1>4, <1>5 DEF AppliedOnce

\* Unless a failing write leaves a torn line in a process that lives on, whatever Append
\* acknowledged stays readable behind the position the next append continues from, is
\* loaded again and applied once, and no retry of it is refused as another's event.
THEOREM WordIsKept == ASSUME ~ShortWrites PROVE Spec => []LogKeepsItsWord
<1>1. KeptInv => LogKeepsItsWord
  <2> SUFFICES ASSUME KeptInv PROVE LogKeepsItsWord
    OBVIOUS
  <2>1. DurableInv /\ AckedReadable
    BY DEF KeptInv, DurableInv
  <2>2. SequenceFollowsLog
    BY <2>1, LogShape DEF SequenceFollowsLog, DurableInv, CleanWhileUp, Inv, Numbering
  <2> QED
    BY <2>1, <2>2, KeptMeans DEF LogKeepsItsWord
<1>2. KeptInv /\ [Next]_vars => KeptInv'
  BY KeptStep
<1> QED
  BY <1>1, <1>2, KeptInit, PTL DEF Spec
-----------------------------------------------------------------------------
(* The store implements DurableLog *)

\* The first k events of a batch, numbered from the end of the log, are the
\* first k lines of that batch.
LEMMA NumberedPrefix ==
  ASSUME NEW n \in Nat, NEW new \in [1..n -> Event], NEW k \in 0..n, NEW last \in Nat
  PROVE  /\ [i \in 1..k |-> new[i]] \in [1..k -> Event]
         /\ Promised!Numbered([i \in 1..k |-> new[i]], last) = SubSeq(Stamp(new, last), 1, k)
<1>1. Stamp(new, last) \in Seq(Record) /\ Len(Stamp(new, last)) = n
  BY StampDef
<1>2. SubSeq(Stamp(new, last), 1, k) = [i \in 1..k |-> Stamp(new, last)[i]]
  BY <1>1
<1>3. \A i \in 1..k : Stamp(new, last)[i] =
                        [id |-> new[i].id, content |-> new[i].content, seq |-> last + i]
  BY DEF Stamp
<1> QED
  BY <1>2, <1>3 DEF Promised!Numbered

\* Writing the first k lines of a batch extends the promised log.
LEMMA WriteExtends ==
  ASSUME ~ShortWrites, DurableInv, up, NEW n \in 0..MaxBatch, NEW new \in NewEvents(n),
         NEW k \in 0..n,
         valid' = valid \o SubSeq(Stamp(new, CurrentTail), 1, k),
         acked \subseteq acked', acked' \subseteq Event, AckedReadable'
  PROVE  Promised!Next
<1> DEFINE events == [i \in 1..k |-> new[i]]
<1>1. new \in [1..n -> Event] /\ n \in Nat /\ k \in 0..MaxBatch
  BY StoreAssumption DEF NewEvents, StoreAssumption
<1>2. CurrentTail = Len(valid) /\ Len(valid) \in Nat
  BY TailIsEnd DEF DurableInv, Inv, CleanWhileUp, TypeOK
<1>3. events \in [1..k -> Event] /\ valid' = valid \o Promised!Numbered(events, Len(valid))
  BY <1>1, <1>2, NumberedPrefix
<1>4. Promised!NewTo(valid, events)
  <2>1. \A i \in 1..k : new[i].id \notin DOMAIN CurrentIndex
    BY DEF NewEvents, IsNew
  <2>2. \A j \in DOMAIN valid : valid[j].id \in DOMAIN CurrentIndex
    BY IndexKnowsLog DEF DurableInv, Inv
  <2>3. \A i, j \in 1..k : new[i].id = new[j].id => i = j
    BY DEF NewEvents
  <2> QED
    BY <2>1, <2>2, <2>3 DEF Promised!NewTo
<1>5. acked' \subseteq acked \cup Promised!Held(valid')
  BY DEF AckedReadable, Promised!Held
<1>6. Promised!Extend(events)
  BY <1>3, <1>4, <1>5 DEF Promised!Extend
<1> QED
  BY <1>1, <1>3, <1>6 DEF Promised!Next

LEMMA PromisedStep ==
  ASSUME ~ShortWrites, DurableInv, DurableInv', [Next]_vars
  PROVE  [Promised!Next]_<<valid, acked>>
<1>0. AckedReadable' /\ acked' \subseteq Event
  BY DEF DurableInv, Inv, TypeOK
<1>1. ASSUME NEW dups \in SUBSET Event, NEW n \in 0..MaxBatch, NEW new \in NewEvents(n),
             AppendAccepted(dups, new)
      PROVE  Promised!Next
  <2>1. up /\ tail = "clean" /\ n \in Nat /\ n \in 0..n
    BY <1>1, StoreAssumption DEF AppendAccepted, DurableInv, CleanWhileUp, StoreAssumption
  <2>2. Stamp(new, CurrentTail) \in Seq(Record) /\ Len(Stamp(new, CurrentTail)) = n
    BY <2>1, CurrentType, StampDef DEF NewEvents, DurableInv, Inv
  <2>3. SubSeq(Stamp(new, CurrentTail), 1, n) = Stamp(new, CurrentTail)
    BY <2>1, <2>2
  <2>4. valid' = valid \o SubSeq(Stamp(new, CurrentTail), 1, n) /\ acked \subseteq acked'
    BY <1>1, <2>1, <2>3 DEF AppendAccepted, WriteLines
  <2> QED
    BY <1>0, <2>1, <2>4, WriteExtends
<1>2. ASSUME NEW n \in 1..MaxBatch, NEW new \in NewEvents(n), NEW k \in 0..n, NEW half \in BOOLEAN,
             AppendFailed(new, k, half) \/ KilledInAppend(new, k, half)
      PROVE  Promised!Next
  <2>1. up /\ acked' = acked /\ WritePart(Stamp(new, CurrentTail), k, half) /\ tail = "clean"
    BY <1>2 DEF AppendFailed, KilledInAppend, DurableInv, CleanWhileUp
  <2>2. valid' = valid \o SubSeq(Stamp(new, CurrentTail), 1, k) /\ n \in 0..MaxBatch
    BY <2>1, StoreAssumption DEF WritePart, StoreAssumption
  <2> QED
    BY <1>0, <2>1, <2>2, WriteExtends
<1>3. ASSUME (\E e \in Event : AppendRefused(e)) \/ Save
             \/ (\E repair \in BOOLEAN : Open(repair)) \/ ListSelf \/ Crash \/ UNCHANGED vars
      PROVE  UNCHANGED <<valid, acked>>
  BY <1>3 DEF AppendRefused, Save, Open, ListSelf, RepairTail, Crash, vars
<1> QED
  BY <1>1, <1>2, <1>3 DEF Next, Append_

\* Failed writes, retries, kills, repairs, snapshots and both caches together
\* amount to a log that only grows by new events and acknowledges what it holds.
THEOREM StoreImplementsLog == ASSUME ~ShortWrites PROVE Spec => ImplementsDurableLog
<1>1. Init => Promised!Init
  <2> SUFFICES ASSUME Init PROVE Promised!Init
    OBVIOUS
  <2>1. PICK log \in LegacyLogs :
          valid = [i \in DOMAIN log |-> [id |-> log[i].id, content |-> log[i].content, seq |-> i]]
    BY DEF Init
  <2>2. DOMAIN log = 1..Len(log) /\ Len(log) \in Nat
    BY StoreAssumption DEF StoreAssumption
  <2>3. \A i \in DOMAIN log : 0 + i = i
    BY <2>2
  <2>4. valid = Promised!Numbered(log, 0)
    BY <2>1, <2>3 DEF Promised!Numbered
  <2> QED
    BY <2>4 DEF Promised!Init, Init
<1>2. DurableInv /\ [Next]_vars => DurableInv'
  BY DurableStep
<1>3. DurableInv /\ DurableInv' /\ [Next]_vars => [Promised!Next]_<<valid, acked>>
  BY PromisedStep
<1> QED
  BY <1>1, <1>2, <1>3, DurableInit, PTL DEF Spec, ImplementsDurableLog, Promised!Spec
=============================================================================
