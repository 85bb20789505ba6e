------------------------------ MODULE AgentView ------------------------------
(***************************************************************************)
(* The full-screen conversation of a background agent: openAgent,          *)
(* handleAgentEvent, agentSnapshotMsg and replayBufferedAgentEvents of     *)
(* internal/ui/model.go, over the events of internal/tool/agent_task.go    *)
(* and the subscription of internal/app/tui_backend.go.                    *)
(*                                                                         *)
(* The conversation of an agent is its sequence of entries, numbered by    *)
(* the revision each one made.  An event, of an entry or of a change of    *)
(* the task's status, holds the task as it was under the lock (its         *)
(* revision, and whether it was over); it is broadcast after the lock is   *)
(* released and dropped by a full subscription.  A snapshot is read by a   *)
(* command and answers later.  The timeline is the sequence of entries it  *)
(* shows, their text left out.                                             *)
(***************************************************************************)
EXTENDS Integers, Sequences, FiniteSets, Functions

CONSTANTS
    Agents,       \* the background agents of the session
    MaxEntries,   \* entries the agents record
    MaxChanges,   \* changes of a status
    MaxOpens      \* how often the user opens a conversation

VARIABLES
    recorded,   \* recorded[a]: ConversationRevision of the task
    ended,      \* the tasks in a terminal state
    changes,    \* changes of a status so far
    unsent,     \* events not broadcast yet
    sub,        \* the subscription's channel, in order
    chosen,     \* the agent the user opened last, or NoAgent on the main screen
    active,     \* m.activeAgent: [id, revision], id = NoAgent for nil
    loading,    \* m.agentSnapshotLoading
    buffered,   \* m.agentBufferedEvents
    timeline,   \* m.agentTimeline: the revisions it shows
    loads,      \* snapshot commands in flight
    opens,      \* conversations opened so far
    setBack     \* ghost: an event older than the view has replaced m.activeAgent.Agent

taskOf == <<recorded, ended, changes, unsent>>
panel == <<chosen, active, loading, buffered, timeline, loads, opens, setBack>>
viewVars == <<taskOf, sub, panel>>

NoAgent == "none"
Nobody == [id |-> NoAgent, revision |-> 0]

-----------------------------------------------------------------------------
(***************************************************************************)
(* The task manager.                                                       *)
(***************************************************************************)
Event(a, kind, revision, over) == [agent |-> a, kind |-> kind, revision |-> revision, over |-> over]
Room == FoldFunction(+, 0, recorded) < MaxEntries

\* EmitModelEvent, EmitAuditEvent: the entry is recorded under the lock, of a stopped
\* task too ...
Record(a) ==
    /\ Room
    /\ recorded' = [recorded EXCEPT ![a] = @ + 1]
    /\ unsent' = unsent \cup {Event(a, "entry", recorded[a] + 1, a \in ended)}
    /\ UNCHANGED <<ended, changes, sub, panel>>

\* ... and broadcast outside it; a full subscription loses it, and a change of status
\* that neither ends the task nor asks for an approval.
Broadcast(e) ==
    /\ e \in unsent
    /\ unsent' = unsent \ {e}
    /\ \/ sub' = Append(sub, e)
       \/ ~(e.kind = "status" /\ e.over) /\ UNCHANGED sub
    /\ UNCHANGED <<recorded, ended, changes, panel>>

Change(a, revision, over) ==
    /\ changes < MaxChanges /\ changes' = changes + 1
    /\ unsent' = unsent \cup {Event(a, "status", revision, over)}

\* run takes a prompt, which is an entry, and announces that the task is running.
BeginTurn(a) ==
    /\ a \notin ended /\ Room
    /\ recorded' = [recorded EXCEPT ![a] = @ + 1]
    /\ Change(a, recorded[a] + 1, FALSE)
    /\ UNCHANGED <<ended, sub, panel>>

\* MarkWaitingApproval, and finishTurn with prompts left; Continue also of a task that
\* is over.
Announce(a) ==
    /\ Change(a, recorded[a], FALSE)
    /\ ended' = ended \ {a}
    /\ UNCHANGED <<recorded, sub, panel>>

\* finishTurn, and Stop.
End(a) ==
    /\ a \notin ended
    /\ ended' = ended \cup {a}
    /\ Change(a, recorded[a], TRUE)
    /\ UNCHANGED <<recorded, sub, panel>>

-----------------------------------------------------------------------------
(***************************************************************************)
(* The panel.                                                              *)
(***************************************************************************)
Load(a) == [agent |-> a, at |-> "sent", revision |-> 0]

\* openAgent, from the main screen.
Open(a) ==
    /\ chosen = NoAgent /\ opens < MaxOpens
    /\ opens' = opens + 1
    /\ chosen' = a
    /\ active' = [id |-> a, revision |-> 0]
    /\ timeline' = <<>> /\ buffered' = <<>>
    /\ loading' = TRUE
    /\ loads' = loads \cup {Load(a)}
    /\ setBack' = FALSE
    /\ UNCHANGED <<taskOf, sub>>

\* esc: back to the main conversation.
Leave ==
    /\ chosen # NoAgent
    /\ chosen' = NoAgent
    /\ active' = Nobody
    /\ timeline' = <<>> /\ setBack' = FALSE
    /\ UNCHANGED <<taskOf, sub, loading, buffered, loads, opens>>

ReadSnapshot(l) ==
    /\ l \in loads /\ l.at = "sent"
    /\ loads' = (loads \ {l}) \cup {[l EXCEPT !.at = "read", !.revision = recorded[l.agent]]}
    /\ UNCHANGED <<taskOf, sub, chosen, active, loading, buffered, timeline, opens, setBack>>

\* An event is applied when it is newer than what the view holds.
IsNew(e, revision) == e.revision > revision
\* Mutant: an event that the snapshot already contains is applied again.
IsNewOrEqual(e, revision) == e.revision >= revision
Applies(e, revision) == IsNew(e, revision)

\* replayBufferedAgentEvents: the events of this agent newer than the snapshot.
Replayed(view, events) ==
    LET Step[i \in 0..Len(events)] ==
          IF i = 0 THEN view
          ELSE LET before == Step[i - 1]
                   e == events[i]
               IN  IF e.agent = before.id /\ Applies(e, before.revision)
                   THEN [id |-> before.id, revision |-> e.revision,
                         shown |-> Append(before.shown, e.revision)]
                   ELSE before
    IN  Step[Len(events)]

\* agentSnapshotMsg: the snapshot replaces the view, whichever agent it is of.
SnapshotAnswers(l) ==
    /\ l \in loads /\ l.at = "read"
    /\ loads' = loads \ {l}
    /\ loading' = FALSE /\ buffered' = <<>> /\ setBack' = FALSE
    /\ LET view == Replayed([id |-> l.agent, revision |-> l.revision,
                             shown |-> [r \in 1..l.revision |-> r]], buffered)
       IN  /\ active' = [id |-> view.id, revision |-> view.revision]
           /\ timeline' = view.shown
    /\ UNCHANGED <<taskOf, sub, chosen, opens>>

\* handleAgentEvent.  An event of another agent changes nothing here; an entry waits
\* for a snapshot that is loading, and an old one is left out.
Waits(e) == e.kind = "entry" /\ loading
IsOld(e) == e.kind = "entry" /\ ~loading /\ ~Applies(e, active.revision)

\* Every other event replaces m.activeAgent.Agent, whatever its revision, and a task that
\* is over is read again.
Shows(e) ==
    /\ active' = [active EXCEPT !.revision = e.revision]
    /\ timeline' = IF e.kind = "entry" THEN Append(timeline, e.revision) ELSE timeline
    /\ setBack' = (setBack \/ e.revision < active.revision)
    /\ loading' = (loading \/ e.over)
    /\ loads' = IF e.over THEN loads \cup {Load(e.agent)} ELSE loads

TakeEvent ==
    /\ sub # <<>> /\ sub' = Tail(sub)
    /\ LET e == Head(sub)
       IN  CASE e.agent # active.id \/ IsOld(e) ->
                  UNCHANGED <<active, loading, buffered, timeline, loads, setBack>>
             [] e.agent = active.id /\ Waits(e) ->
                  /\ buffered' = Append(buffered, e)
                  /\ UNCHANGED <<active, loading, timeline, loads, setBack>>
             [] OTHER -> Shows(e) /\ UNCHANGED buffered
    /\ UNCHANGED <<taskOf, chosen, opens>>

ViewInit ==
    /\ recorded = [a \in Agents |-> 0] /\ ended = {} /\ changes = 0 /\ unsent = {} /\ sub = <<>>
    /\ chosen = NoAgent /\ active = Nobody /\ loading = FALSE
    /\ buffered = <<>> /\ timeline = <<>> /\ loads = {} /\ opens = 0 /\ setBack = FALSE

ViewNext ==
    \/ \E a \in Agents : Record(a) \/ BeginTurn(a) \/ Announce(a) \/ End(a) \/ Open(a)
    \/ \E e \in unsent : Broadcast(e)
    \/ \E l \in loads : ReadSnapshot(l) \/ SnapshotAnswers(l)
    \/ Leave \/ TakeEvent

ViewSpec == ViewInit /\ [][ViewNext]_viewVars

-----------------------------------------------------------------------------
(***************************************************************************)
(* Properties                                                              *)
(***************************************************************************)
\* The timeline shows entries of one agent in the order they were recorded, none
\* twice and none that was not, whatever snapshots, buffered events and late
\* broadcasts are merged: as long as no event of a status, which is applied without a
\* look at its revision, has set the view back since it was last replaced.
TimelineAscends ==
    /\ ~setBack => \A i, j \in DOMAIN timeline : i < j => timeline[i] < timeline[j]
    /\ timeline # <<>> => timeline[Len(timeline)] <= recorded[active.id]
=============================================================================
