---------------------------- MODULE SessionRuntime ----------------------------
(***************************************************************************)
(* internal/app/session_runtime.go: what one process writes of its session,   *)
(* and what the next process reads back. During a request the runtime appends *)
(* turns, intents and completions to the event log; at its end Sync appends   *)
(* the rest of the conversation, retries the completions it still owes and    *)
(* replaces the snapshot. The process may be killed between any two lines of  *)
(* the log; the next one loads the snapshot and replays the log behind it.    *)
(*                                                                         *)
(* The file itself is SessionStore: here a line whose event ID the log holds  *)
(* is not written again, an append that fails, or in which the process is     *)
(* killed, has written any number of its lines whole, and a save that fails   *)
(* has replaced the snapshot or not. sessionRuntime.mu makes an append one    *)
(* step. A turn is a number, given at random in the program; a call is named  *)
(* by the turn that asked for it, and the calls above LastTurn are those of   *)
(* background agents, which share the runtime. Of the state events only the   *)
(* driver state and the context are kept: the others are compared and written *)
(* the same way.                                                            *)
(***************************************************************************)
EXTENDS Integers, SequencesExt

CONSTANTS
  LastTurn,    \* bound: turns of the session
  Background,  \* how many calls background agents make
  Between,     \* bound: the phases of a request in which they write
  MaxTrouble   \* bound: appends and saves that fail, and kills, together

ASSUME RuntimeAssumption ==
  LastTurn \in Nat /\ Background \in Nat /\ MaxTrouble \in Nat

VARIABLES
  log, snapshot,                        \* events.jsonl and snapshot.json
  conv, role, driver,               \* the conversation: its turns, what each of them is,
                                    \* the turn whose remote state it holds (0: none)
  phase,                            \* what the request, the sync or the process is at
  call,                             \* what the process knows of each call
  logTurns, sequence,               \* appendProgress: turns, sequence,
  logDriver, logContext,            \*   driverState, the fingerprint of the context,
  unconfirmed,                      \*   pending: state events not confirmed yet
  pending, owed,                    \* snapshot.PendingIntents in memory, compensations
  nextTurn, trouble,                \* counters behind the bounds
  acknowledged, settled, synced, ran       \* history: turns and completions an append confirmed, the
                                    \* transcript of the last Sync that succeeded, effects

talk     == <<conv, role, driver, nextTurn>>
progress == <<logTurns, sequence, logDriver, logContext, unconfirmed>>
records  == <<pending, owed>>
calls    == <<call, ran, settled>>
runtimeVars == <<log, snapshot, talk, phase, calls, progress, records, trouble, acknowledged, synced>>

Turn  == 1..LastTurn
Call  == 1..(LastTurn + Background)
Role  == {"", "user", "answer", "asking", "results"}   \* asking: a model turn with a call
Stage == {"none", "refused", "intended", "ran", "recorded", "owed", "gone"}

\* An event and its ID in one: equal events have equal IDs. key tells apart the
\* events whose identity is not their subject.
LogEvent == [kind : {"turn", "intent", "completion", "driver", "context", "note"},
          n : Nat, d : Nat, key : Nat]
Named(kind, n)     == [kind |-> kind, n |-> n, d |-> 0, key |-> 0]
TurnEvent(t)       == Named("turn", t)
IntentEvent(c)     == Named("intent", c)
CompletionEvent(c) == Named("completion", c)

\* nextEventID behind the prefix of the process. An older event that was written
\* got its key when the log was shorter.
NewKey  == Len(log) + 1
NewNote == [kind |-> "note", n |-> 0, d |-> 0, key |-> NewKey]

-----------------------------------------------------------------------------
(* Appending: every entry point of the runtime but Sync is one append with two *)
(* continuations.                                                            *)

\* Store.Append: the lines of a batch, without those the log has.
NewLines(batch) == LET old == ToSet(log) IN SelectSeq(batch, LAMBDA e : e \notin old)

\* Mutant: a line that was not written again reports no sequence.
SequenceOfNew(e) == IF e \in ToSet(log) THEN 0 ELSE CHOOSE i \in DOMAIN log' : log'[i] = e

\* The sequence reported for a line: of the copy in the log or of the new one.
SequenceOf(e) == CHOOSE i \in DOMAIN log' : log'[i] = e

Latest(kind, batch, old) ==
  LET at == {i \in DOMAIN batch : batch[i].kind = kind} IN
    IF at = {} THEN old ELSE <<batch[Max(at)].n, batch[Max(at)].d>>

TurnsOf(batch) == SelectSeq(batch, LAMBDA e : e.kind = "turn")

\* acceptAppended
AcceptAppended(batch) ==
  /\ logTurns' = logTurns + Len(TurnsOf(batch))
  /\ sequence' = Max({sequence} \cup {SequenceOf(e) : e \in ToSet(batch)})
  /\ logDriver' = Latest("driver", batch, logDriver)
  /\ logContext' = Latest("context", batch, logContext)
  /\ unconfirmed' = unconfirmed \ ToSet(batch)
  /\ acknowledged' = acknowledged \cup {e.n : e \in ToSet(TurnsOf(batch))}

\* Nothing but the files is left of the process.
Die ==
  /\ trouble < MaxTrouble /\ trouble' = trouble + 1 /\ phase' = "down"
  /\ conv' = <<>> /\ driver' = 0 /\ pending' = {} /\ owed' = <<>>
  /\ call' = [c \in Call |-> IF call[c] = "none" THEN "none" ELSE "gone"]
  /\ logTurns' = 0 /\ sequence' = 0 /\ logDriver' = <<0, 0>> /\ logContext' = <<>>
  /\ unconfirmed' = {}
  /\ UNCHANGED <<snapshot, role, nextTurn, ran, settled, acknowledged, synced>>

PartsOf(batch) == {log \o SubSeq(NewLines(batch), 1, k) : k \in 0..Len(NewLines(batch))}

Confirmed(batch) == log' = log \o NewLines(batch) /\ AcceptAppended(batch) /\ UNCHANGED trouble
Failed(batch) ==
  /\ trouble < MaxTrouble /\ trouble' = trouble + 1
  /\ log' \in PartsOf(batch) /\ UNCHANGED <<logTurns, sequence, logDriver, logContext, acknowledged>>
Killed(batch) == Die /\ log' \in PartsOf(batch) \ {log}

-----------------------------------------------------------------------------
(* A request *)

\* Turns are committed in order; the ones the bound has no number for are not made.
Commit(roles) ==
  /\ nextTurn + Len(roles) - 1 <= LastTurn
  /\ conv' = conv \o [i \in 1..Len(roles) |-> nextTurn + i - 1]
  /\ role' = [t \in Turn |-> IF t \in nextTurn..(nextTurn + Len(roles) - 1)
                             THEN roles[t - nextTurn + 1] ELSE role[t]]
  /\ nextTurn' = nextTurn + Len(roles)

\* prepare records the start (RecordRequestStarted), then Run commits the prompt,
\* which no hook of the command line records. A request that could not begin is
\* settled by the terminal interface; the line interface returns to its prompt.
StartRequest ==
  /\ phase = "idle" /\ nextTurn <= LastTurn
  /\ \/ Confirmed(<<NewNote>>) /\ Commit(<<"user">>) /\ phase' = "round"
     \/ Failed(<<NewNote>>) /\ phase' \in {"idle", "sync"} /\ UNCHANGED <<talk, unconfirmed>>
  /\ UNCHANGED <<snapshot, driver, calls, records, synced>>

\* BeforeModel: what background agents report, as a user turn nobody records.
FollowUp ==
  /\ phase = "round" /\ Commit(<<"user">>)
  /\ UNCHANGED <<log, snapshot, driver, phase, calls, progress, records, trouble, acknowledged, synced>>

Recorded == <<TurnEvent(nextTurn)>>    \* RecordTurn

\* commitResponse and the hook behind it, for a response without and with a call.
\* When the turn cannot be recorded the request ends, its call closed.
ModelTurn(what) ==
  /\ phase = "round"
  /\ what = "asking" => nextTurn < LastTurn    \* bound: its results have room
  /\ \/ /\ Confirmed(Recorded) /\ Commit(<<what>>) /\ driver' = nextTurn
        /\ phase' = IF what = "asking" THEN "batch" ELSE "ending"
     \/ /\ Failed(Recorded) /\ phase' = "ending" /\ UNCHANGED unconfirmed
        /\ IF what = "asking" THEN Commit(<<"asking", "results">>) /\ driver' = 0
           ELSE Commit(<<"answer">>) /\ driver' = nextTurn
  /\ UNCHANGED <<snapshot, calls, records, synced>>

\* The model fails, the request is cancelled or is out of budget or rounds. A response
\* that is not valid is not committed and takes the remote state with it.
EndOfRounds ==
  /\ phase = "round" /\ phase' = "ending" /\ driver' \in {driver, 0}
  /\ UNCHANGED <<log, snapshot, conv, role, nextTurn, calls, progress, records, trouble, acknowledged, synced>>

Asking == Last(conv)

\* ExecuteBatchOutcome returns and its tool turn is committed. The request goes on
\* when the call needed no intent or its outcome is recorded; ToolBatch has the rest.
BatchReturns ==
  /\ phase = "batch" /\ call[Asking] # "ran" /\ Commit(<<"results">>)
  /\ LET on == call[Asking] \in {"none", "recorded"} IN
       /\ driver' = IF on THEN driver ELSE 0
       /\ \/ Confirmed(Recorded) /\ phase' = IF on THEN "round" ELSE "ending"
          \/ Failed(Recorded) /\ phase' = "ending" /\ UNCHANGED unconfirmed
  /\ UNCHANGED <<snapshot, calls, records, synced>>

\* The response is over the budget, stopped short, or the tools cannot be refreshed:
\* its calls are closed without being run, by a turn no hook records.
CloseCalls ==
  /\ phase = "batch" /\ call[Asking] = "none"
  /\ Commit(<<"results">>) /\ driver' = 0 /\ phase' = "ending"
  /\ UNCHANGED <<log, snapshot, calls, progress, records, trouble, acknowledged, synced>>

\* settle: RecordRunReport, whose failure does not keep Sync from running.
Report ==
  /\ phase = "ending" /\ phase' = "sync"
  /\ \/ Confirmed(<<NewNote>>)
     \/ Failed(<<NewNote>>) /\ UNCHANGED unconfirmed
  /\ UNCHANGED <<snapshot, talk, calls, records, synced>>

-----------------------------------------------------------------------------
(* The calls: tool.CheckpointSink *)

\* The batch of the request, or a background agent while Sync does not hold mu.
Working(c) == IF c \in Turn THEN phase = "batch" /\ c = Asking
              ELSE phase \in Between \ {"flush", "save", "down", "refused"}
Know(c, stage) == call' = [call EXCEPT ![c] = stage]

\* Mutant: the call goes ahead without its intent.
RecordIntentOpen(c) ==
  /\ Working(c) /\ call[c] = "none"
  /\ \/ /\ Confirmed(<<IntentEvent(c)>>)
        /\ Know(c, "intended") /\ pending' = pending \cup {c}
     \/ /\ Failed(<<IntentEvent(c)>>)
        /\ Know(c, "intended") /\ UNCHANGED <<pending, unconfirmed>>
  /\ UNCHANGED <<snapshot, talk, phase, owed, ran, settled, synced>>

\* RecordIntents and RecordIntent: without the record the call does not run.
RecordIntent(c) ==
  /\ Working(c) /\ call[c] = "none"
  /\ \/ /\ Confirmed(<<IntentEvent(c)>>)
        /\ Know(c, "intended") /\ pending' = pending \cup {c}
     \/ /\ Failed(<<IntentEvent(c)>>)
        /\ Know(c, "refused") /\ UNCHANGED <<pending, unconfirmed>>
  /\ UNCHANGED <<snapshot, talk, phase, owed, ran, settled, synced>>

\* The tool has its effect; it needs no lock.
Effect(c) ==
  /\ call[c] = "intended" /\ Know(c, "ran") /\ ran' = ran \cup {c}
  /\ c \in Turn => phase = "batch" /\ c = Asking
  /\ UNCHANGED <<log, snapshot, talk, phase, settled, records, progress, trouble, acknowledged, synced>>

\* RecordCompletion keeps a completion that could not be written.
RecordCompletion(c) ==
  /\ Working(c) /\ call[c] = "ran"
  /\ \/ /\ Confirmed(<<CompletionEvent(c)>>)
        /\ Know(c, "recorded") /\ pending' = pending \ {c} /\ settled' = settled \cup {c}
        /\ UNCHANGED owed
     \/ /\ Failed(<<CompletionEvent(c)>>)
        /\ Know(c, "owed") /\ owed' = Append(owed, c)
        /\ UNCHANGED <<pending, settled, unconfirmed>>
  /\ UNCHANGED <<snapshot, talk, phase, ran, synced>>

-----------------------------------------------------------------------------
(* Sync *)

\* eventIDFor: an event whose append was never confirmed keeps its ID.
StateEvent(kind, n, d) ==
  LET same == {e \in unconfirmed : e.kind = kind /\ e.n = n /\ e.d = d} IN
    IF same = {} THEN [kind |-> kind, n |-> n, d |-> d, key |-> NewKey]
    ELSE CHOOSE e \in same : TRUE

\* stateChanged; of a new process only the driver state is known to be in the log.
StateEvents ==
  (IF logDriver = <<driver, 0>> THEN <<>> ELSE <<StateEvent("driver", driver, 0)>>)
  \o (IF logContext = <<Len(conv), driver>> THEN <<>>
      ELSE <<StateEvent("context", Len(conv), driver)>>)

\* The turns behind the ones the progress counts.
NewTurns == [i \in 1..(Len(conv) - logTurns) |-> TurnEvent(conv[logTurns + i])]

\* After a request, and between requests for a command that changed the state.
Sync ==
  /\ phase \in {"idle", "sync"}
  /\ Len(conv) >= logTurns    \* "session transcript shrank": see SyncNeverRefused
  /\ \/ /\ Confirmed(NewTurns \o StateEvents)
        /\ phase' = IF owed = <<>> THEN "save" ELSE "flush"
     \/ /\ Failed(NewTurns \o StateEvents) /\ phase' = "idle"
        /\ unconfirmed' = unconfirmed \cup ToSet(StateEvents)
  /\ UNCHANGED <<snapshot, talk, calls, records, synced>>

Completions == [i \in DOMAIN owed |-> CompletionEvent(owed[i])]

\* flushCompensations, under the lock of Sync.
Flush ==
  /\ phase = "flush"
  /\ \/ /\ Confirmed(Completions) /\ phase' = "save"
        /\ pending' = pending \ ToSet(owed) /\ owed' = <<>>
        /\ settled' = settled \cup ToSet(owed)
     \/ /\ Failed(Completions) /\ phase' = "idle"
        /\ UNCHANGED <<records, settled, unconfirmed>>
  /\ UNCHANGED <<snapshot, talk, call, ran, synced>>

\* Mutant: the snapshot is rebuilt from what the log has.
CheckpointFromLog ==
  [turns |-> [i \in DOMAIN TurnsOf(log) |-> TurnsOf(log)[i].n],
   pending |-> pending, driver |-> driver, seq |-> sequence]

\* snapshotFromAgentState
Checkpoint == [turns |-> conv, pending |-> pending, driver |-> driver, seq |-> sequence]

SaveSnapshot ==
  /\ phase = "save" /\ phase' = "idle"
  /\ \/ snapshot' = Checkpoint /\ synced' = conv /\ UNCHANGED trouble
     \/ /\ trouble < MaxTrouble /\ trouble' = trouble + 1
        /\ snapshot' \in {snapshot, Checkpoint} /\ UNCHANGED synced
  /\ UNCHANGED <<log, talk, calls, progress, records, acknowledged>>

\* /compact, between requests; Sync follows.
Compact ==
  /\ phase = "idle" /\ driver # 0 /\ driver' = 0 /\ phase' = "sync"
  /\ UNCHANGED <<log, snapshot, conv, role, nextTurn, calls, progress, records, trouble, acknowledged, synced>>

-----------------------------------------------------------------------------
(* The next process *)

\* The process is killed between two appends or between two lines of one. With a
\* single line that is a kill before or behind the append.
KillProcess ==
  /\ phase # "down"
  /\ \/ Die /\ UNCHANGED log
     \/ phase \in {"idle", "sync"} /\ Killed(NewTurns \o StateEvents)
     \/ phase = "flush" /\ Killed(Completions)

\* applyEvent
ApplyEvent(s, e) ==
  [turns   |-> IF e.kind = "turn" THEN Append(s.turns, e.n) ELSE s.turns,
   driver  |-> IF e.kind = "driver" THEN e.n ELSE s.driver,
   pending |-> CASE e.kind = "intent" -> s.pending \cup {e.n}
                 [] e.kind = "completion" -> s.pending \ {e.n}
                 [] OTHER -> s.pending,
   seq     |-> s.seq + 1]

\* Store.load: the snapshot and the events behind its watermark.
Loaded == FoldLeft(ApplyEvent, snapshot, SubSeq(log, snapshot.seq + 1, Len(log)))

\* validateTurns refuses a transcript that has a turn twice. Store.load merges
\* copies only inside the log, which has none: a turn has one event ID.
Twice(turns) == ~ IsInjective(turns)

\* openConversation: load, RestoreConversation and newSessionRuntime.
OpenSession ==
  /\ phase = "down"
  /\ LET s == Loaded IN
       /\ phase' = IF Twice(s.turns) THEN "refused" ELSE "idle"
       /\ conv' = s.turns /\ driver' = s.driver /\ pending' = s.pending
       /\ sequence' = s.seq /\ logTurns' = Len(s.turns) /\ logDriver' = <<s.driver, 0>>
  /\ logContext' = <<>> /\ unconfirmed' = {}
  /\ UNCHANGED <<log, snapshot, role, nextTurn, calls, owed, trouble, acknowledged, synced>>

-----------------------------------------------------------------------------
\* Store.Create wrote the first event and the first snapshot.
RuntimeInit ==
  /\ log = <<[kind |-> "note", n |-> 0, d |-> 0, key |-> 1]>>
  /\ snapshot = [turns |-> <<>>, pending |-> {}, driver |-> 0, seq |-> 1]
  /\ conv = <<>> /\ role = [t \in Turn |-> ""] /\ driver = 0 /\ nextTurn = 1
  /\ phase = "idle" /\ call = [c \in Call |-> "none"] /\ pending = {} /\ owed = <<>>
  /\ logTurns = 0 /\ sequence = 1 /\ logDriver = <<0, 0>> /\ logContext = <<>>
  /\ unconfirmed = {} /\ trouble = 0
  /\ acknowledged = {} /\ settled = {} /\ synced = <<>> /\ ran = {}

Request == \/ StartRequest \/ FollowUp \/ EndOfRounds \/ BatchReturns \/ CloseCalls \/ Report
           \/ \E what \in {"answer", "asking"} : ModelTurn(what)
Checkpoints == \E c \in Call : RecordIntent(c) \/ Effect(c) \/ RecordCompletion(c)
Persist == Sync \/ Flush \/ SaveSnapshot \/ Compact

RuntimeNext == Request \/ Checkpoints \/ Persist \/ KillProcess \/ OpenSession
RuntimeSpec == RuntimeInit /\ [][RuntimeNext]_runtimeVars

-----------------------------------------------------------------------------
(* Properties *)

\* Every variable has its type; neither the progress nor the watermark of the
\* snapshot points behind the end of the log, whatever failed.
RuntimeTypeOK ==
  /\ log # <<>> /\ ToSet(log) \subseteq LogEvent
  /\ ToSet(snapshot.turns) \subseteq Turn /\ snapshot.pending \subseteq Call
  /\ snapshot.driver \in 0..LastTurn /\ snapshot.seq \in 0..Len(log)
  /\ ToSet(conv) \subseteq Turn /\ role \in [Turn -> Role] /\ driver \in 0..LastTurn
  /\ phase \in {"idle", "round", "batch", "ending", "sync", "flush", "save", "down", "refused"}
  /\ call \in [Call -> Stage] /\ pending \subseteq Call /\ ToSet(owed) \subseteq Call
  /\ logTurns \in Nat /\ sequence \in 0..Len(log) /\ unconfirmed \subseteq LogEvent
  /\ nextTurn \in 1..(LastTurn + 1) /\ trouble \in 0..MaxTrouble
  /\ acknowledged \subseteq Turn /\ ran \subseteq Call /\ settled \subseteq Call

Running == phase \notin {"down", "refused"}

\* What one process wrote the next one can open: no turn is replayed behind a
\* snapshot that already has it (validateTurns refuses a repeated turn).
SessionOpens == phase # "refused"

\* The transcript of the last Sync that succeeded is the beginning of the
\* conversation, in its order, after every kill and load too.
NothingSettledIsLost == Running => IsPrefix(synced, conv)

\* A turn that RecordTurn or Sync reported as written is in every later conversation.
RecordedTurnsSurvive == Running => acknowledged \subseteq ToSet(conv)

\* A side effect leaves evidence in every later process: its intent is open or its
\* completion is in the log, and the conversation has the turn that asked for it.
EffectsLeaveEvidence ==
  Running => \A c \in ran : /\ c \in pending \/ CompletionEvent(c) \in ToSet(log)
                            /\ c \in Turn => c \in ToSet(conv)

\* A call whose completion the log confirmed, at once or with a later Sync, is not
\* among the ones of unknown outcome, in this process or in any later one.
KnownOutcomesStayKnown == Running => settled \cap pending = {}

\* The progress never counts more turns than the conversation has, so Sync never
\* refuses the transcript as one that shrank.
SyncNeverRefused == Running => logTurns <= Len(conv)

\* A process finds what an earlier one recorded: the settled transcript and the turns
\* that were reported as written.
RecordSurvives == NothingSettledIsLost /\ RecordedTurnsSurvive

\* A process knows of every side effect of an earlier one, and of no more open calls
\* than the log leaves open.
EvidenceSurvives == EffectsLeaveEvidence /\ KnownOutcomesStayKnown

\* Whatever one process leaves behind, the next one opens the session and can write
\* it again.
SessionGoesOn == SessionOpens /\ SyncNeverRefused
=============================================================================
