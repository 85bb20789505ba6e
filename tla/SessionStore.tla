----------------------------- MODULE SessionStore -----------------------------
(***************************************************************************)
(* The event log and the snapshot of ONE session, as internal/session keeps *)
(* them: events.jsonl (one JSON record per line, appended and fsynced),     *)
(* snapshot.json (replaced atomically) and the two caches a Store holds in  *)
(* memory (the tail sequence and the index of event IDs).                   *)
(*                                                                         *)
(* The file is represented as  valid \o garbage : the records the reader    *)
(* accepts, then bytes it stops at. Only the kind of garbage matters:       *)
(*   "clean"    nothing follows the last valid record                       *)
(*   "torn"     an unterminated line follows                                *)
(*   "damaged"  a complete line the reader cannot decode follows; whatever  *)
(*              is behind it is never read                                  *)
(*                                                                         *)
(* One process at a time uses the session and calls the store one operation *)
(* at a time (sessionRuntime.mu); it may be killed at any instant.          *)
(***************************************************************************)
EXTENDS Integers, Sequences, FiniteSets

CONSTANTS
  Event,        \* what callers submit: records [id |-> ..., content |-> ...]
  Structured,   \* contents whose digest changes once the record is re-read
  LegacyLogs,   \* logs an older build may have left behind (Seq of Event)
  ShortWrites,  \* may a failing write leave half a line in a live process?
  MaxBatch,     \* bound: events per Append
  MaxLog        \* bound: sequence numbers assigned

ASSUME StoreAssumption ==
  /\ Event # {}
  /\ \A e \in Event : DOMAIN e = {"id", "content"}
  /\ Structured \subseteq {e.content : e \in Event}
  /\ LegacyLogs # {}
  /\ LegacyLogs \subseteq Seq(Event)
  /\ ShortWrites \in BOOLEAN
  /\ MaxBatch \in Nat
  /\ MaxLog \in Nat

VARIABLES
  valid,    \* the readable records, [id, content, seq]
  tail,     \* what follows them in the file
  snap,     \* snapshot.json: watermark and the event IDs its content reflects
  up,       \* a process has the session open
  seqs,     \* Store.sequences[id], NoTail when absent
  indexed,  \* Store.eventIDs holds an entry for the session
  index,    \* that entry: event ID -> [digest, seq]
  mem,      \* event IDs reflected in the process's in-memory session state
  wm,       \* sessionRuntime.log.sequence: greatest sequence acknowledged
  acked,    \* history: events some Append reported as accepted
  late,     \* history: IDs first accepted as a retry the snapshot had passed
  legacy    \* history: number of records the older build left

vars == <<valid, tail, snap, up, seqs, indexed, index, mem, wm, acked, late, legacy>>

EventID == {e.id : e \in Event}
Content == {e.content : e \in Event}
Record  == [id : EventID, content : Content, seq : Nat]
Tails   == {"clean", "torn", "damaged"}
NoTail  == 0 - 1
NoIndex == [x \in {} |-> x]

-----------------------------------------------------------------------------
(* Reading the log *)

\* eventContentFingerprint of an event in the form Append is about to write,
\* and of the same event after a round trip through the file: a struct inside
\* the metadata comes back as a map and is encoded with its keys sorted.
FreshDigest(e) == <<e.content, IF e.content \in Structured THEN "as_written" ELSE "canonical">>
ReadDigest(e) == <<e.content, "canonical">>

\* eventIndexLocked: the last record wins where an ID occurs twice.
LastAt(id) == CHOOSE i \in DOMAIN valid :
                /\ valid[i].id = id
                /\ \A j \in DOMAIN valid : valid[j].id = id => j <= i
ReadIndex == [id \in {valid[i].id : i \in DOMAIN valid} |->
                [digest |-> ReadDigest(valid[LastAt(id)]), seq |-> valid[LastAt(id)].seq]]

CurrentIndex == IF indexed THEN index ELSE ReadIndex
LastSeq      == IF valid = <<>> THEN 0 ELSE valid[Len(valid)].seq
CurrentTail  == IF seqs # NoTail THEN seqs ELSE LastSeq

\* readEventsDetailed refuses, with an error and not a diagnostic, a log whose
\* records are not numbered 1, 2, 3, ...
Contiguous == \A i \in DOMAIN valid : valid[i].seq = i

\* load: a record repeating an earlier event ID is consumed, not applied.
Repeats(i) == \E j \in DOMAIN valid : j < i /\ valid[j].id = valid[i].id

\* Mutant: replay starts one record late.
AppliedOneLate == {i \in DOMAIN valid : valid[i].seq > snap.seq + 1 /\ ~Repeats(i)}

Applied == {i \in DOMAIN valid : valid[i].seq > snap.seq /\ ~Repeats(i)}
LoadedIDs == snap.applied \cup {valid[i].id : i \in Applied}

LoadedSeq  == IF LastSeq > snap.seq THEN LastSeq ELSE snap.seq
LoadedTail == IF valid = <<>> THEN snap.seq ELSE LastSeq

\* What makes a resume refuse the session: a tail that was ignored, or a
\* repeated ID whose content differs from the first copy.
ConflictingRepeat == \E i, j \in DOMAIN valid :
                        valid[i].id = valid[j].id /\ valid[i].content # valid[j].content
Diagnosed == tail # "clean" \/ ConflictingRepeat
-----------------------------------------------------------------------------
(* Store.Append *)

\* How the index answers for one event of the batch.
IsRetry(e)    == e.id \in DOMAIN CurrentIndex /\ CurrentIndex[e.id].digest = FreshDigest(e)
IsConflict(e) == e.id \in DOMAIN CurrentIndex /\ CurrentIndex[e.id].digest # FreshDigest(e)
IsNew(e)      == e.id \notin DOMAIN CurrentIndex

\* The part of a batch that is not a retry: n events with distinct new IDs.
NewEvents(n) == {new \in [1..n -> Event] :
                   /\ \A i \in 1..n : IsNew(new[i])
                   /\ \A i, j \in 1..n : new[i].id = new[j].id => i = j
                   /\ CurrentTail + n <= MaxLog}
Stamp(new, first) == [i \in DOMAIN new |->
                        [id |-> new[i].id, content |-> new[i].content, seq |-> first + i]]

\* The index is only filled once the whole write succeeded.
Merged(new, first) == [id \in DOMAIN CurrentIndex \cup {new[i].id : i \in DOMAIN new} |->
    IF id \in DOMAIN CurrentIndex THEN CurrentIndex[id]
    ELSE LET i == CHOOSE i \in DOMAIN new : new[i].id = id
         IN [digest |-> FreshDigest(new[i]), seq |-> first + i]]

\* O_APPEND puts complete lines behind whatever the file ends with: behind
\* garbage they only make more of it.
WriteLines(lines) ==
  IF tail = "clean"
  THEN valid' = valid \o lines /\ tail' = "clean"
  ELSE valid' = valid /\ tail' = IF lines = <<>> THEN tail ELSE "damaged"

\* The same write, cut off after k complete lines, with or without half a line.
WritePart(lines, k, half) ==
  IF tail = "clean"
  THEN valid' = valid \o SubSeq(lines, 1, k) /\ tail' = IF half THEN "torn" ELSE "clean"
  ELSE valid' = valid /\ tail' = IF k = 0 /\ ~half THEN tail ELSE "damaged"

\* Mutant: a failed write leaves the event index in place.
ForgetTailOnly == seqs' = NoTail /\ UNCHANGED <<indexed, index>>

ForgetSession == seqs' = NoTail /\ indexed' = FALSE /\ index' = NoIndex

\* An operation that has to read the log fails on one it cannot accept.
CanRead == (indexed /\ seqs # NoTail) \/ Contiguous

\* Every event is either a retry or new, and the write (if any) succeeds.
AppendAccepted(dups, new) ==
  LET first    == CurrentTail
      appended == Stamp(new, first)
      batch    == dups \cup {new[i] : i \in DOMAIN new}
      accepted == {CurrentIndex[e.id].seq : e \in dups} \cup {appended[i].seq : i \in DOMAIN new}
  IN /\ up /\ CanRead /\ batch # {}
     /\ \A e \in dups : IsRetry(e)
     /\ WriteLines(appended)
     /\ seqs' = first + Len(new)
     /\ indexed' = TRUE
     /\ index' = Merged(new, first)
     /\ acked' = acked \cup batch
     /\ late' = late \cup {e.id : e \in {d \in dups \ acked : CurrentIndex[d.id].seq <= snap.seq
                                                      /\ d.id \notin snap.applied}}
     /\ mem' = mem \cup {e.id : e \in batch}
     /\ wm' \in accepted \cup {wm}
     /\ \A s \in accepted \cup {wm} : s <= wm'
     /\ UNCHANGED <<snap, up, legacy>>

\* Write, Sync or Close reports an error: nothing is acknowledged, although any
\* prefix of the lines may be in the file. A session whose very first append
\* fails is never handed to a caller (Create, openConversation).
AppendFailed(new, k, half) ==
  /\ up /\ CanRead /\ new # <<>> /\ k \in 0..Len(new)
  /\ half => ShortWrites /\ k < Len(new)
  /\ WritePart(Stamp(new, CurrentTail), k, half)
  /\ ForgetSession
  /\ up' = (valid # <<>>)
  /\ UNCHANGED <<snap, mem, wm, acked, late, legacy>>

\* One event carries an ID the log holds with another digest: the whole batch is
\* refused before anything is written.
AppendRefused(e) ==
  /\ up /\ CanRead /\ IsConflict(e)
  /\ indexed' = TRUE
  /\ index' = CurrentIndex
  /\ UNCHANGED <<valid, tail, snap, up, seqs, mem, wm, acked, late, legacy>>

\* The process is killed inside Append: a prefix of the lines, and perhaps half
\* of the next one, survives it.
KilledInAppend(new, k, half) ==
  /\ up /\ CanRead /\ new # <<>> /\ k \in 0..Len(new)
  /\ half => k < Len(new)
  /\ WritePart(Stamp(new, CurrentTail), k, half)
  /\ up' = FALSE
  /\ UNCHANGED <<snap, seqs, indexed, index, mem, wm, acked, late, legacy>>
-----------------------------------------------------------------------------
(* The other operations *)

\* Save replaces the snapshot with the caller's view and leaves the cached tail
\* alone. A save that fails leaves the old file: writeAtomic renames at the end.
Save ==
  /\ up
  /\ snap' = [seq |-> wm, applied |-> mem]
  /\ UNCHANGED <<valid, tail, up, seqs, indexed, index, mem, wm, acked, late, legacy>>

\* Mutant: the truncation takes the last readable record with the garbage.
RepairTakesRecord ==
  /\ valid' = IF tail = "clean" THEN valid ELSE SubSeq(valid, 1, Len(valid) - 1)
  /\ tail' = "clean"

\* truncateEventTail: everything behind the last valid record goes.
RepairTail == valid' = valid /\ tail' = "clean"

\* A new process opens the session: by name (LoadRecovering, which repairs) or
\* as a resume (Load, which refuses what it would have to repair).
Open(repair) ==
  /\ ~up /\ Contiguous
  /\ repair \/ ~Diagnosed
  /\ RepairTail
  /\ up' = TRUE
  /\ seqs' = LoadedTail
  /\ indexed' = FALSE
  /\ index' = NoIndex
  /\ mem' = LoadedIDs
  /\ wm' = LoadedSeq
  /\ UNCHANGED <<snap, acked, late, legacy>>

\* Cleanup lists every session after a sync, and List loads each of them with
\* LoadRecovering: the live session's own log is repaired and its cached tail
\* re-read, while its event index is left as it was.
ListSelf ==
  /\ up /\ Contiguous
  /\ RepairTail
  /\ seqs' = LoadedTail
  /\ UNCHANGED <<snap, up, indexed, index, mem, wm, acked, late, legacy>>

Crash ==
  /\ up
  /\ up' = FALSE
  /\ UNCHANGED <<valid, tail, snap, seqs, indexed, index, mem, wm, acked, late, legacy>>

Init ==
  /\ \E log \in LegacyLogs :
       /\ valid = [i \in DOMAIN log |-> [id |-> log[i].id, content |-> log[i].content, seq |-> i]]
       /\ legacy = Len(log)
  /\ tail = "clean"
  /\ snap = [seq |-> 0, applied |-> {}]
  /\ up = FALSE
  /\ seqs = NoTail /\ indexed = FALSE /\ index = NoIndex
  /\ mem = {} /\ wm = 0 /\ acked = {} /\ late = {}

Append_ ==
  \/ \E dups \in SUBSET Event, n \in 0..MaxBatch : \E new \in NewEvents(n) :
        AppendAccepted(dups, new)
  \/ \E n \in 1..MaxBatch : \E new \in NewEvents(n), k \in 0..n, half \in BOOLEAN :
        AppendFailed(new, k, half) \/ KilledInAppend(new, k, half)
  \/ \E e \in Event : AppendRefused(e)

Next == Append_ \/ Save \/ (\E repair \in BOOLEAN : Open(repair)) \/ ListSelf \/ Crash

Spec == Init /\ [][Next]_vars
-----------------------------------------------------------------------------
(* Properties *)

TypeOK ==
  /\ valid \in Seq(Record)
  /\ tail \in Tails
  /\ snap \in [seq : Nat, applied : SUBSET EventID]
  /\ up \in BOOLEAN
  /\ seqs \in Nat \cup {NoTail}
  /\ indexed \in BOOLEAN
  /\ DOMAIN index \subseteq EventID
  /\ \A id \in DOMAIN index : index[id].seq \in Nat
  /\ mem \subseteq EventID
  /\ wm \in Nat
  /\ acked \subseteq Event
  /\ late \subseteq EventID
  /\ legacy \in Nat

\* The records of the file are numbered 1, 2, 3, ... whatever failed, was
\* retried or was repaired: a number repeated or skipped would make every later
\* load of the session return an error.
LogReadable == Contiguous

\* A retry of an append whose outcome was uncertain never writes its event a
\* second time: no record appended by this build repeats an earlier event ID.
NewRecordsUnique == \A i \in DOMAIN valid : i > legacy => ~Repeats(i)

\* What faults and retries may not do to the log: make it unreadable, or give it an
\* event twice (Append, RecoverTail and the retry of an uncertain append).
LogIsSound == LogReadable /\ NewRecordsUnique

\* The position an append continues from is the last readable record of the
\* log. README.md:544 states it: a failed write drops the cached tail, and the
\* next append re-reads the log, so that the sequence in memory and the log do
\* not diverge.
SequenceFollowsLog == up /\ seqs # NoTail => seqs = LastSeq

\* Loading applies an event at most once, whether the snapshot already reflects
\* it, an older build logged it twice, or it was retried.
AppliedOnce == /\ \A i \in Applied : valid[i].id \notin snap.applied
               /\ \A i, j \in Applied : valid[i].id = valid[j].id => i = j

\* An acknowledged event stays a readable record of the log.
AckedReadable == \A e \in acked :
  \E i \in DOMAIN valid : valid[i].id = e.id /\ valid[i].content = e.content

\* Whatever Append acknowledged is part of what the next load rebuilds. The one
\* exception is an event whose first append was uncertain and whose retry came
\* after a snapshot had passed it by: its record lies below the watermark.
AckedRecovered == \A e \in acked : e.id \in LoadedIDs \cup late

\* The log is evidence: no operation, truncation included, removes or rewrites
\* a record that could be read before.
ValidRecordsKept == [][ /\ Len(valid') >= Len(valid)
                        /\ \A i \in DOMAIN valid : valid'[i] = valid[i] ]_vars

\* Append refuses an event as conflicting only when the log holds its ID with
\* other content, leaving aside contents whose digest does not survive a re-read.
ConflictIsReal == \A e \in Event : up /\ Contiguous /\ IsConflict(e) /\ e.content \notin Structured =>
  \E i \in DOMAIN valid : valid[i].id = e.id /\ valid[i].content # e.content

\* What Append acknowledged is kept: it stays in the log, behind which the next append
\* goes on; it is loaded, and applied once; and no retry of it is refused as another's.
LogKeepsItsWord ==
  SequenceFollowsLog /\ AppliedOnce /\ AckedReadable /\ AckedRecovered /\ ConflictIsReal

-----------------------------------------------------------------------------
\* The store implements the log it promises, provided no failing write leaves
\* half a line behind in a process that lives on.
Promised == INSTANCE DurableLog WITH log <- valid
ImplementsDurableLog == Promised!Spec
=============================================================================
