------------------------------ MODULE DurableLog ------------------------------
(***************************************************************************)
(* What internal/session promises its callers about the event log of one    *)
(* session, with the file, the caches, failed writes, retries, crashes and  *)
(* repairs left out: records are only ever added at the end, numbered       *)
(* consecutively, never with an event ID the log already holds, and an       *)
(* event is acknowledged only when it is one of them.                        *)
(***************************************************************************)
EXTENDS Integers, Sequences

CONSTANTS Event, LegacyLogs, MaxBatch

VARIABLES log, acked

\* The events of a batch as the log stores them behind its first `last` records.
Numbered(events, last) ==
  [i \in DOMAIN events |-> [id |-> events[i].id, content |-> events[i].content, seq |-> last + i]]

\* The events whose ID and content the log holds.
Held(l) == {e \in Event : \E i \in DOMAIN l : l[i].id = e.id /\ l[i].content = e.content}

NewTo(l, events) ==
  /\ \A i \in DOMAIN events, j \in DOMAIN l : events[i].id # l[j].id
  /\ \A i, j \in DOMAIN events : events[i].id = events[j].id => i = j

Init == /\ log \in {Numbered(legacy, 0) : legacy \in LegacyLogs}
        /\ acked = {}

\* A batch, possibly empty, reaches the log; some held events are acknowledged.
Extend(events) ==
  /\ NewTo(log, events)
  /\ log' = log \o Numbered(events, Len(log))
  /\ acked \subseteq acked'
  /\ acked' \subseteq acked \cup Held(log')

Next == \E n \in 0..MaxBatch : \E events \in [1..n -> Event] : Extend(events)

Spec == Init /\ [][Next]_<<log, acked>>
=============================================================================
