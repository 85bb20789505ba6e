----------------------------- MODULE TerminalUI -----------------------------
(***************************************************************************)
(* The terminal front end: internal/ui/model.go and the commands of        *)
(* internal/app/tui_backend.go it runs.                                    *)
(*                                                                         *)
(* Update handles one message at a time; everything else runs in           *)
(* goroutines that talk to it through messages: the worker of an operation *)
(* (Submit or Compact) writes events to a bounded channel, one waitEvent   *)
(* command at a time reads the next event of it, and mode changes, model   *)
(* lookups, follow-up checks, snapshots and a 150 ms timer answer whenever *)
(* they are done.  The messages of background agents arrive through a      *)
(* channel of their own.                                                   *)
(*                                                                         *)
(* Abstractions.  The busy states that the handlers treat alike            *)
(* (connecting, compacting, waiting for a token, streaming, preparing or   *)
(* executing a tool, backing off, fetching models) are "working"; the two  *)
(* that wait for the user are "asking".  A dialog is the asker it belongs  *)
(* to: its cursor, its text and the pages of its questions are left out,   *)
(* and so are the timeline, the panels' cursors and completion.  The       *)
(* permission modes are a set; quitting ends the behaviour.                *)
(***************************************************************************)
EXTENDS Integers, Sequences, FiniteSets

CONSTANTS
    Operations,   \* the operations a behaviour may start, 1 .. n
    Modes,        \* the permission modes, "plan" among them
    Capacity,     \* the capacity of an operation's event channel
    Budgets       \* the scenarios: how often each party may act

ASSUME TerminalAssumption ==
    /\ Operations \in SUBSET (Nat \ {0})
    /\ "plan" \in Modes
    /\ Capacity \in Nat \ {0}

VARIABLES
    state,      \* m.state
    op,         \* m.operationID, 0 before the first operation
    held,       \* m.cancel and m.eventChannel are those of op
    cancelReq,  \* m.cancelRequested
    worker,     \* worker[o]: the goroutine, channel and readers of operation o
    approval,   \* m.approval: 0, the operation asking, or Agent
    agentReturn,\* m.agentApprovalReturnState
    ask,        \* m.ask: 0 or the operation asking
    gate,       \* m.planGate: is the plan gate open?
    restoreGate,\* m.restorePlanGateOnModeError
    pendingImpl,\* m.pendingImplementationMode
    mode,       \* m.snapshot.Mode
    queued,     \* m.queuedMode
    opMode,     \* m.operationMode
    followUp,   \* m.agentFollowUpPending and the check in flight
    timer,      \* has a 150 ms transition of op not fired yet?
    lookups,    \* model lookups in flight
    calls,      \* SetMode calls in flight
    backend,    \* tuiBackend: its mode and whether notifications are pending
    agents,     \* the background agents and their event channel
    misled,     \* has a lookup's answer overwritten the state of a running operation?
    left        \* what is left of the scenario's budget

vars == <<state, op, held, cancelReq, worker, approval, agentReturn, ask, gate,
          restoreGate, pendingImpl, mode, queued, opMode, followUp, timer,
          lookups, calls, backend, agents, misled, left>>

Agent == -1     \* the asker of a background agent's approval

dialogVars == <<approval, agentReturn, ask>>
modeVars == <<gate, restoreGate, pendingImpl, mode, queued, calls>>
opVars == <<op, held, cancelReq, opMode>>

-----------------------------------------------------------------------------
(***************************************************************************)
(* The operation's worker: runBackendCmd, operationEventEmitter.           *)
(***************************************************************************)
NoWorker == [phase |-> "none", kind |-> "none", cancelled |-> FALSE,
             answered |-> FALSE, queue |-> <<>>, readers |-> 0]

Spend(what) == /\ left[what] > 0
               /\ left' = [left EXCEPT ![what] = @ - 1]

\* enqueue: a full channel blocks the worker until its context is cancelled, and
\* a cancelled worker drops the event that does not fit.
Enqueues(w, event) == Len(w.queue) < Capacity \/ w.cancelled
\* Mutant: the emitter does not watch its context.
EnqueuesWaiting(w, event) == Len(w.queue) < Capacity
MayEnqueue(w, event) == Enqueues(w, event)

Enqueue(w, event) ==
    IF Len(w.queue) < Capacity THEN [w EXCEPT !.queue = Append(@, event)] ELSE w

WorkerOnly == UNCHANGED <<state, opVars, dialogVars, modeVars, followUp, timer,
                          lookups, agents, misled>>

\* Submit emits an event that is not a question.
Emit(o, event) ==
    /\ worker[o].phase = "running"
    /\ Spend("emits")
    /\ MayEnqueue(worker[o], event)
    /\ worker' = [worker EXCEPT ![o] = Enqueue(@, event)]
    /\ WorkerOnly /\ UNCHANGED backend

\* confirmTools and askUser emit the question and wait for its answer.
Question(o, event) ==
    /\ worker[o].phase = "running"
    /\ Spend("questions")
    /\ MayEnqueue(worker[o], event)
    /\ worker' = [worker EXCEPT ![o] =
                    [Enqueue(@, event) EXCEPT !.phase = "asking", !.answered = FALSE]]
    /\ WorkerOnly /\ UNCHANGED backend

Resume(o) ==
    /\ worker[o].phase = "asking"
    /\ worker[o].answered \/ worker[o].cancelled
    /\ worker' = [worker EXCEPT ![o].phase = "running", ![o].answered = FALSE]
    /\ WorkerOnly /\ UNCHANGED <<backend, left>>

\* BeforeModel delivers the notifications of finished agents to the request.
TakeNotices(o) ==
    /\ worker[o].phase = "running" /\ worker[o].kind # "compact"
    /\ backend.notices
    /\ backend' = [backend EXCEPT !.notices = FALSE]
    /\ WorkerOnly /\ UNCHANGED <<worker, left>>

\* A refusal without a reason interrupts the request.
Outcomes(w) == {"completed", "failed", IF w.cancelled THEN "cancelled" ELSE "interrupted"}

\* Submit returned; the final state is the last event of the channel.
Finish(o) ==
    /\ worker[o].phase = "running"
    /\ \E outcome \in Outcomes(worker[o]) :
         /\ MayEnqueue(worker[o], outcome)
         /\ worker' = [worker EXCEPT ![o] = [Enqueue(@, outcome) EXCEPT !.phase = "closed"]]
    /\ WorkerOnly /\ UNCHANGED <<backend, left>>

-----------------------------------------------------------------------------
(***************************************************************************)
(* Starting an operation, and what follows from not being busy.            *)
(***************************************************************************)
Busy(s) == s \in {"working", "asking", "cancelling"}

\* No dialog takes the keys: handleKey reaches the chat, or a panel.
Free == ask = 0 /\ approval = 0 /\ ~gate

CanStart == ~Busy(state) /\ op + 1 \in Operations

\* startRequest and startCompact, once they are not refused.
Start(kind, shown) ==
    /\ op' = op + 1
    /\ opMode' = shown
    /\ held' = TRUE
    /\ cancelReq' = FALSE
    /\ state' = "working"
    /\ timer' = FALSE
    /\ worker' = [worker EXCEPT ![op + 1] = [NoWorker EXCEPT !.phase = "running",
                                                 !.kind = kind, !.readers = 1]]

\* maybeCheckAgentFollowUp, asked in state s.
MaybeCheck(f, s) ==
    IF f.pending /\ f.check = "none" /\ ~Busy(s)
    THEN [f EXCEPT !.check = "asked", !.stale = FALSE] ELSE f

\* The user sends a prompt, or /compact.
Prompt(kind) ==
    /\ Free /\ CanStart
    /\ Spend(kind)
    /\ Start(kind, mode)
    /\ UNCHANGED <<dialogVars, modeVars, followUp, lookups, backend, agents, misled>>

\* setModeCmd: the shown mode changes at once, the backend's when the call runs.
SetModeCmd(next) ==
    /\ mode' = next
    /\ calls' = calls \cup {[from |-> mode, to |-> next, at |-> "sent"]}

\* requestMode: a busy model queues the change.
RequestMode(next) ==
    IF Busy(state) THEN queued' = next /\ UNCHANGED <<mode, calls>>
                   ELSE SetModeCmd(next) /\ UNCHANGED queued

CycleMode(next) ==
    /\ Free /\ Spend("modes")
    /\ next # (IF queued = "none" THEN mode ELSE queued)
    /\ RequestMode(next)
    /\ UNCHANGED <<state, opVars, dialogVars, worker, gate, restoreGate, pendingImpl,
                   followUp, timer, lookups, backend, agents, misled>>

\* tuiBackend.SetMode; a session that cannot be saved takes the change back.
ApplyMode(c) ==
    /\ c \in calls /\ c.at = "sent"
    /\ \E ok \in {"ok"} \cup (IF left.saveErrors > 0 THEN {"error"} ELSE {}) :
         /\ left' = [left EXCEPT !.saveErrors = IF ok = "error" THEN @ - 1 ELSE @]
         /\ calls' = (calls \ {c}) \cup {[c EXCEPT !.at = ok]}
         /\ backend' = IF ok = "ok" THEN [backend EXCEPT !.mode = c.to] ELSE backend
    /\ UNCHANGED <<state, opVars, dialogVars, worker, gate, restoreGate, pendingImpl,
                   mode, queued, followUp, timer, lookups, agents, misled>>

\* modeResultMsg.
ModeFailed(c) ==
    /\ c \in calls /\ c.at = "error"
    /\ calls' = calls \ {c}
    /\ mode' = c.from
    /\ pendingImpl' = "none"
    /\ gate' = (gate \/ restoreGate)
    /\ restoreGate' = FALSE
    /\ followUp' = MaybeCheck(followUp, state)
    /\ UNCHANGED <<state, opVars, dialogVars, worker, queued, timer, lookups,
                   backend, agents, misled, left>>

\* The implementation of an approved plan starts with the mode that was chosen
\* for it; a model that is busy by then refuses it.
ModeSet(c) ==
    /\ c \in calls /\ c.at = "ok"
    /\ calls' = calls \ {c}
    /\ mode' = c.to
    /\ restoreGate' = FALSE
    /\ IF pendingImpl = c.to
       THEN /\ pendingImpl' = "none"
            /\ UNCHANGED followUp
            /\ IF Busy(state) THEN UNCHANGED <<state, opVars, worker, timer>>
                              ELSE op + 1 \in Operations /\ Start("request", c.to)
       ELSE /\ followUp' = MaybeCheck(followUp, state)
            /\ UNCHANGED <<pendingImpl, state, opVars, worker, timer>>
    /\ UNCHANGED <<dialogVars, gate, queued, lookups, backend, agents, misled, left>>

-----------------------------------------------------------------------------
(***************************************************************************)
(* The events of an operation: handleBackendEvent, backendEventClosedMsg.  *)
(***************************************************************************)
Final == {"completed", "failed", "cancelled", "interrupted"}

\* handleBackendEvent waits for the next event unless the event asks the user.
Rearms(event) == held /\ event \notin {"approval", "ask"}
\* Mutant: a question is followed by another wait, as every other event is.
RearmsAlways(event) == held
WaitsAgain(event) == Rearms(event)

Receive(o) ==
    /\ worker[o].readers > 0
    /\ worker[o].queue # <<>>
    /\ LET event == Head(worker[o].queue)
           again == o = op /\ WaitsAgain(event)
       IN  /\ worker' = [worker EXCEPT ![o].queue = Tail(@),
                                       ![o].readers = IF again THEN @ ELSE @ - 1]
           /\ IF o # op
              THEN UNCHANGED <<state, timer, dialogVars>>
              ELSE /\ state' = CASE event \in Final -> event
                                 [] event \in {"approval", "ask"} -> "asking"
                                 [] OTHER -> "working"
                   /\ timer' = (timer \/ event = "result")
                   /\ approval' = IF event = "approval" THEN o ELSE approval
                   /\ ask' = IF event = "ask" THEN o ELSE ask
                   /\ UNCHANGED agentReturn
    /\ UNCHANGED <<opVars, modeVars, followUp, lookups, backend, agents, misled, left>>

\* transitionMsg, 150 ms after a tool's result; that of an earlier operation does
\* nothing.
TimerFires ==
    /\ timer
    /\ timer' = FALSE
    /\ state' = IF state \notin {"failed", "cancelling"} THEN "working" ELSE state
    /\ UNCHANGED <<opVars, dialogVars, modeVars, worker, followUp, lookups, backend, agents, misled, left>>

\* The message that closes an operation speaks for that operation only.
ClosesCurrent(o) == o = op
SpeaksForCurrent(o) == ClosesCurrent(o)

Closed(o) ==
    /\ worker[o].readers > 0
    /\ worker[o].queue = <<>> /\ worker[o].phase = "closed"
    /\ worker' = [worker EXCEPT ![o].readers = @ - 1]
    /\ LET current == SpeaksForCurrent(o)
           ended == IF ~current \/ state \in {"failed", "cancelled", "interrupted"} THEN state
                    ELSE IF state = "cancelling" THEN "cancelled" ELSE "completed"
           planned == current /\ ended = "completed" /\ opMode = "plan"
           next == IF planned THEN "none" ELSE queued
           opened == gate \/ planned
           changes == next # "none" /\ ~opened
       IN  /\ state' = ended
           /\ held' = (held /\ ~current)
           /\ cancelReq' = (cancelReq /\ ~current)
           /\ ask' = IF current THEN 0 ELSE ask
           /\ gate' = opened
           /\ queued' = IF changes THEN "none" ELSE next
           /\ IF changes THEN SetModeCmd(next) ELSE UNCHANGED <<mode, calls>>
           /\ followUp' = IF queued # "none" /\ ~gate THEN followUp
                          ELSE MaybeCheck(followUp, ended)
    /\ UNCHANGED <<op, opMode, approval, agentReturn, restoreGate, pendingImpl,
                   timer, lookups, backend, agents, misled, left>>

-----------------------------------------------------------------------------
(***************************************************************************)
(* The user's answers.  handleKey gives the keys to the question first,    *)
(* then to the approval, then to the plan gate.                            *)
(***************************************************************************)
\* The reader that a question suspended reads on.
ReadsOn(w) == IF held THEN [w EXCEPT ![op].readers = @ + 1] ELSE w

\* handleAskKey .. sendAskDecision.
AnswerAsk ==
    /\ ask # 0
    /\ worker' = ReadsOn([worker EXCEPT ![ask].answered = TRUE])
    /\ ask' = 0
    /\ state' = "working"
    /\ UNCHANGED <<opVars, approval, agentReturn, modeVars, followUp, timer, lookups, backend,
                   agents, misled, left>>

\* handleApprovalKey, submitApproval.
AnswerApproval ==
    /\ ask = 0 /\ approval \notin {0, Agent}
    /\ worker' = ReadsOn([worker EXCEPT ![approval].answered = TRUE])
    /\ approval' = 0
    /\ state' = "working"
    /\ UNCHANGED <<opVars, ask, agentReturn, modeVars, followUp, timer, lookups, backend,
                   agents, misled, left>>

\* The approval of an agent returns to the state it interrupted.
AnswerAgent ==
    /\ ask = 0 /\ approval = Agent
    /\ agents' = [agents EXCEPT !.asking = IF @ = "shown" THEN "none" ELSE @]
    /\ approval' = 0
    /\ state' = agentReturn
    /\ agentReturn' = "idle"
    /\ UNCHANGED <<opVars, ask, worker, modeVars, followUp, timer, lookups, backend, misled, left>>

\* handlePlanGateKey: execute the plan under a mode, reject it, or revise it.
ExecutePlan(next) ==
    /\ ask = 0 /\ approval = 0 /\ gate
    /\ gate' = FALSE /\ restoreGate' = TRUE
    /\ \E implement \in {next, "none"} \ {"plan"} : pendingImpl' = implement
    /\ RequestMode(next)
    /\ UNCHANGED <<state, opVars, dialogVars, worker, followUp, timer, lookups, backend,
                   agents, misled, left>>

RevisePlan ==
    /\ ask = 0 /\ approval = 0 /\ gate
    /\ gate' = FALSE
    /\ CanStart /\ Start("request", mode)
    /\ UNCHANGED <<dialogVars, restoreGate, pendingImpl, mode, queued, calls, followUp,
                   lookups, backend, agents, misled, left>>

\* handleInterrupt: the first ctrl+c cancels, the second quits.
Interrupt ==
    /\ Busy(state) /\ ~cancelReq
    /\ Spend("interrupts")
    /\ cancelReq' = TRUE
    /\ state' = "cancelling"
    /\ ask' = 0
    /\ worker' =
         LET answered == IF ask = 0 THEN worker
                         ELSE ReadsOn([worker EXCEPT ![ask].answered = TRUE])
         IN  IF held THEN [answered EXCEPT ![op].cancelled = TRUE] ELSE answered
    /\ UNCHANGED <<op, held, opMode, approval, agentReturn, modeVars, followUp, timer, lookups,
                   backend, agents, misled>>

\* The model and provider panels, open while an operation runs as well.
Lookup ==
    /\ Free /\ Spend("lookups")
    /\ state' = "working"
    /\ lookups' = lookups + 1
    /\ UNCHANGED <<opVars, dialogVars, modeVars, worker, followUp, timer, backend, agents, misled>>

\* modelSelectionMsg and modelsResultMsg set the state whatever runs.
LookupAnswers ==
    /\ lookups > 0
    /\ lookups' = lookups - 1
    /\ state' \in {"idle", "failed"}
    /\ misled' = (misled \/ held)
    /\ UNCHANGED <<opVars, dialogVars, modeVars, worker, followUp, timer, backend, agents, left>>

-----------------------------------------------------------------------------
(***************************************************************************)
(* Background agents: approvals one at a time, and terminal states.        *)
(***************************************************************************)
AgentsOnly == UNCHANGED <<state, opVars, dialogVars, modeVars, worker, followUp, timer, lookups, misled>>

AgentAsks ==
    /\ agents.asking = "none" /\ Spend("agentAsks")
    /\ agents' = [asking |-> "shown", events |-> Append(agents.events, "approval")]
    /\ AgentsOnly /\ UNCHANGED backend

\* A stopped agent no longer waits for the answer.
AgentStopped ==
    /\ agents.asking = "shown" /\ Spend("stops")
    /\ agents' = [agents EXCEPT !.asking = "none"]
    /\ AgentsOnly /\ UNCHANGED backend

AgentEnds ==
    /\ Spend("ends")
    /\ backend' = [backend EXCEPT !.notices = TRUE]
    /\ agents' = [agents EXCEPT !.events = Append(@, "ended")]
    /\ AgentsOnly

\* handleAgentEvent.
AgentEvent ==
    /\ agents.events # <<>>
    /\ agents' = [agents EXCEPT !.events = Tail(@)]
    /\ IF Head(agents.events) = "approval"
       THEN /\ approval' = Agent /\ agentReturn' = state /\ state' = "asking"
            /\ UNCHANGED followUp
       ELSE /\ followUp' = MaybeCheck([followUp EXCEPT !.pending = TRUE, !.stale = TRUE], state)
            /\ UNCHANGED <<state, approval, agentReturn>>
    /\ UNCHANGED <<opVars, ask, modeVars, worker, timer, lookups, backend, misled, left>>

\* HasPendingAgentNotifications is read, and fails on an agent store it cannot read.
CheckReads ==
    /\ followUp.check = "asked"
    /\ \E answer \in {IF backend.notices THEN "pending" ELSE "nothing"}
                     \cup (IF left.checkErrors > 0 THEN {"error"} ELSE {}) :
         /\ followUp' = [followUp EXCEPT !.check = answer]
         /\ left' = [left EXCEPT !.checkErrors = IF answer = "error" THEN @ - 1 ELSE @]
    /\ UNCHANGED <<state, opVars, dialogVars, modeVars, worker, timer, lookups, backend, agents, misled>>

\* agentFollowUpCheckMsg.
CheckAnswers ==
    /\ followUp.check \in {"pending", "nothing", "error"}
    /\ LET done == [followUp EXCEPT !.check = "none", !.stale = FALSE]
           starts == ~followUp.stale /\ followUp.check = "pending" /\ ~Busy(state)
       IN  /\ followUp' = CASE followUp.stale -> MaybeCheck(done, state)
                            [] ~followUp.stale /\ followUp.check = "error" -> done
                            [] starts \/ (~followUp.stale /\ followUp.check = "nothing") ->
                                 [done EXCEPT !.pending = FALSE]
                            [] OTHER -> [done EXCEPT !.pending = TRUE]
           /\ IF starts THEN op + 1 \in Operations /\ Start("follow-up", mode)
                        ELSE UNCHANGED <<state, opVars, worker, timer>>
    /\ UNCHANGED <<dialogVars, modeVars, lookups, backend, agents, misled, left>>

-----------------------------------------------------------------------------
Init ==
    /\ state = "idle" /\ op = 0 /\ held = FALSE /\ cancelReq = FALSE
    /\ worker = [o \in Operations |-> NoWorker]
    /\ approval = 0 /\ agentReturn = "idle" /\ ask = 0
    /\ gate = FALSE /\ restoreGate = FALSE /\ pendingImpl = "none"
    /\ left \in Budgets
    /\ mode = left.mode /\ queued = "none" /\ opMode = "none"
    /\ followUp = [pending |-> FALSE, check |-> "none", stale |-> FALSE]
    /\ timer = FALSE /\ lookups = 0 /\ calls = {}
    /\ backend = [mode |-> mode, notices |-> FALSE]
    /\ agents = [asking |-> "none", events |-> <<>>]
    /\ misled = FALSE

WorkerReturns(o) == Resume(o) \/ Finish(o)

WorkerSteps(o) ==
    \/ \E event \in {"work", "result"} : Emit(o, event)
    \/ \E event \in {"approval", "ask"} : Question(o, event)
    \/ TakeNotices(o)
    \/ WorkerReturns(o)

Next ==
    \/ \E o \in Operations : WorkerSteps(o) \/ Receive(o) \/ Closed(o)
    \/ \E kind \in {"request", "compact"} : Prompt(kind)
    \/ \E next \in Modes : CycleMode(next) \/ ExecutePlan(next)
    \/ \E c \in calls : ApplyMode(c) \/ ModeFailed(c) \/ ModeSet(c)
    \/ AnswerAsk \/ AnswerApproval \/ AnswerAgent \/ RevisePlan
    \/ TimerFires \/ Interrupt \/ Lookup \/ LookupAnswers
    \/ AgentAsks \/ AgentStopped \/ AgentEnds \/ AgentEvent
    \/ CheckReads \/ CheckAnswers

Spec == Init /\ [][Next]_vars

\* A goroutine whose context is cancelled runs to its end.
FairSpec == Spec /\ \A o \in Operations : WF_vars(WorkerReturns(o))

-----------------------------------------------------------------------------
(***************************************************************************)
(* Properties                                                              *)
(***************************************************************************)
\* At most one command reads the channel of an operation, and none while the
\* operation waits for an answer it asked for: the events of an operation reach
\* the timeline in the order they were emitted (handleBackendEvent,
\* submitApproval, sendAskDecision, handleInterrupt).
OneReader ==
    misled \/ \A o \in Operations :
        /\ worker[o].readers <= 1
        /\ o \in {approval, ask} => worker[o].readers = 0

\* The operation that runs can be cancelled: neither the end of an earlier
\* operation nor a dialog takes away its cancel function or its channel.
RunningCanBeCancelled ==
    op # 0 /\ worker[op].phase \in {"running", "asking"} => held

\* The terminal keeps the operation that runs in hand: one reader of its events, and
\* a way to cancel it.
OperationIsHeld == OneReader /\ RunningCanBeCancelled

\* A cancelled operation returns, even when nobody reads its channel any more.
CancelledReturns ==
    \A o \in Operations : worker[o].cancelled ~> worker[o].phase = "closed"
=============================================================================
