------------------------------ MODULE ToolBatch ------------------------------
(***************************************************************************)
(* internal/tool/executor.go: executeBatch, the run of the tool calls of one *)
(* model response. The loop prepares every call (policy and approval), writes *)
(* the intents of those that may have an effect, then starts goroutines and   *)
(* collects what they send. Steps end where another goroutine can act: at the *)
(* host's callbacks, at the session log, at the coordinator, in a tool. What  *)
(* the coordinator does is in ResourceCoordinator; here AcquireClaim only     *)
(* takes time, as when another executor of the session holds the resource.    *)
(* Every executor here has a checkpoint; audit records are left out.          *)
(* A call is its position in the batch, and a path stands for the claim, the  *)
(* target of the intent and the file the tool works on.                       *)
(***************************************************************************)
EXTENDS Integers, Sequences, FiniteSets

CONSTANTS
  BatchSize, \* how many calls the response makes
  Batches,  \* the batches a run may start with: what each call asks for
  Path,     \* the files tools name
  NoPath,   \* of a call that names none
  Limit,    \* how many calls may run at a time
  Together  \* the session log takes the intents of a batch in one write

Call == 1..BatchSize

\* Exclusive, else claimed if there is a path, else shared; has it an effect (its
\* risk is neither read nor session); can its result interrupt the request.
Profile == [exclusive : BOOLEAN, path : Path \cup {NoPath}, effect : BOOLEAN, reports : BOOLEAN]

\* The tools that report a control, ask and the host's, are exclusive.
ASSUME BatchAssumption ==
  /\ BatchSize \in Nat \ {0} /\ Limit \in Nat \ {0} /\ Together \in BOOLEAN /\ NoPath \notin Path
  /\ Batches \subseteq [Call -> Profile]
  /\ \A b \in Batches : \A i \in Call : b[i].reports => b[i].exclusive

VARIABLES
  calls,                            \* the batch
  cancelled, cut,                   \* the request's context, batchCtx's own cancellation
  batchErr, interrupted, hooks,     \* what batchErr joins; are BatchHooks still called
  phase, next, watching, control,   \* where the loop is, at which call; contextDone # nil;
                                    \* BatchOutcome.Control once the batch has returned
  item, state,                      \* preparedCall: nil, terminal, ..., done; its state
  notified, heard,                  \* startNotified; history: what the host was told
  recorded, log,                    \* intentRecorded; what the session log says of a call
  work, flags, sent,                \* the goroutines, control and checkpointErr of their
                                    \* calls, the completion channel
  began                             \* history: calls whose tool has been entered

signal == <<cancelled, cut, batchErr, interrupted, hooks>>
loop   == <<phase, next, watching, control>>
book   == <<item, state>>
host   == <<notified, heard>>
disk   == <<recorded, log>>
task   == <<work, flags, sent, began>>
batchVars == <<calls, signal, loop, book, host, disk, task>>

State == {"", "succeeded", "failed", "rejected", "cancelled", "not_executed", "outcome_unknown"}
Item  == {"nil", "terminal", "accepted", "running", "done"}
WorkStage == {"none", "entered", "waiting", "granted", "cleared", "ready", "executing", "ended",
              "over", "sent"}

Those(stage) == {i \in Call : item[i] = stage}
GoOn(where)    == phase' = where
Move(i, stage) == work' = [work EXCEPT ![i] = stage]
Mark(i, s)     == state' = [state EXCEPT ![i] = s]

-----------------------------------------------------------------------------
(* Stopping *)

BatchDone == cancelled \/ cut     \* batchCtx.Err() # nil

\* batchStopped
Stopped == interrupted \/ batchErr # {} \/ BatchDone

ResolveControl ==
  IF batchErr # {} THEN "abort_request"
  ELSE IF cancelled THEN "cancel_request"
  ELSE IF interrupted THEN "interrupt_request" ELSE "continue"

\* A failure of the host or of the log: the batch cancels itself, the hooks are gone.
Fail(cause) == batchErr' = batchErr \cup {cause} /\ cut' = TRUE /\ hooks' = FALSE
               /\ UNCHANGED <<cancelled, interrupted>>

\* The user, or whoever runs the request, cancels it.
Cancel ==
  /\ ~cancelled /\ control = "none" /\ cancelled' = TRUE
  /\ UNCHANGED <<cut, batchErr, interrupted, hooks, loop, book, host, disk, task>>

-----------------------------------------------------------------------------
(* Preparation *)

\* The loop looks at the request before it prepares a call; a stop it knows of
\* closes the call instead.
Observe ==
  /\ phase = "prepare" /\ next \in Call
  /\ batchErr' = IF cancelled THEN batchErr \cup {"cancel"} ELSE batchErr
  /\ IF interrupted \/ batchErr' # {}
     THEN /\ item' = [item EXCEPT ![next] = "terminal"] /\ Mark(next, "not_executed")
          /\ next' = next + 1 /\ UNCHANGED phase
     ELSE GoOn("preparing") /\ UNCHANGED <<book, next>>
  /\ UNCHANGED <<cancelled, cut, interrupted, hooks, watching, control, host, disk, task>>

Refuse(s) == item' = [item EXCEPT ![next] = "terminal"] /\ Mark(next, s)

\* prepareCall, with the policy and the user's answer.
PrepareCall ==
  /\ phase = "preparing" /\ GoOn("prepare") /\ next' = next + 1
  /\ \/ BatchDone /\ Refuse("not_executed") /\ UNCHANGED <<batchErr, interrupted>>
     \/ \E s \in {"failed", "rejected", ""} : Refuse(s) /\ UNCHANGED <<batchErr, interrupted>>
     \/ Refuse("failed") /\ batchErr' = batchErr \cup {"approval"} /\ UNCHANGED interrupted
     \/ Refuse("rejected") /\ interrupted' = TRUE /\ UNCHANGED batchErr
     \/ item' = [item EXCEPT ![next] = "accepted"] /\ UNCHANGED <<state, batchErr, interrupted>>
  /\ UNCHANGED <<cancelled, cut, hooks, watching, control, host, disk, task>>

\* A preflight that was stopped closes the calls it had accepted.
ClosePreflight ==
  /\ phase = "prepare" /\ next \notin Call /\ GoOn("deliver")
  /\ IF interrupted \/ batchErr # {}
     THEN /\ item' = [i \in Call |-> "terminal"]
          /\ state' = [i \in Call |-> IF item[i] = "accepted" THEN "not_executed" ELSE state[i]]
     ELSE UNCHANGED book
  /\ UNCHANGED <<signal, next, watching, control, host, disk, task>>

\* deliverTerminal; a callback that fails is the last one.
Deliver(i, s, failure) ==
  /\ item' = [item EXCEPT ![i] = "done"] /\ Mark(i, s)
  /\ \/ ~hooks /\ UNCHANGED <<host, signal>>
     \/ /\ hooks /\ notified' = notified \cup {i}
        /\ heard' = [heard EXCEPT ![i] =
             @ \o (IF i \in notified THEN <<>> ELSE <<"start">>) \o <<"result">>]
        /\ UNCHANGED signal \/ failure
     \/ /\ hooks /\ i \notin notified /\ failure
        /\ heard' = [heard EXCEPT ![i] = Append(@, "start")] /\ UNCHANGED notified

\* finishPrepared: a preparation that panicked left no state.
Known(s) == IF s = "" THEN "failed" ELSE s

DeliverTerminal ==
  /\ phase = "deliver"
  /\ \E i \in Those("terminal") :
       (\A j \in Those("terminal") : i <= j) /\ Deliver(i, Known(state[i]), Fail("hook"))
  /\ UNCHANGED <<loop, disk, task>>

-----------------------------------------------------------------------------
(* The intents of the batch *)

\* The context is read again for every call, so a cancellation that arrives in the
\* middle leaves the first k calls; two that name one target keep theirs for later.
Candidates(k) == {i \in Those("accepted") : calls[i].effect /\ i <= k}
Alone(S)      == {i \in S : \A j \in S \ {i} : calls[i].path = NoPath \/ calls[i].path # calls[j].path}

RecordTogether(S) ==
  \/ /\ recorded' = recorded \cup S /\ UNCHANGED <<book, signal>>
     /\ log' = [i \in Call |-> IF i \in S THEN "intent" ELSE log[i]]
  \/ /\ S # {} /\ Fail("checkpoint") /\ UNCHANGED disk
     /\ item' = [i \in Call |-> IF i \in S THEN "terminal" ELSE item[i]]
     /\ state' = [i \in Call |-> IF i \in S THEN "not_executed" ELSE state[i]]

CollectIntents ==
  /\ phase = "deliver" /\ Those("terminal") = {} /\ GoOn("intents")
  /\ next' = IF BatchDone THEN 0 ELSE BatchSize
  /\ UNCHANGED <<signal, watching, control, book, host, disk, task>>

RecordBatchIntents ==
  /\ phase = "intents" /\ GoOn(IF Those("done") = Call THEN "finalize" ELSE "fill")
  /\ IF Together
     THEN \E k \in IF BatchDone THEN 0..next ELSE {next} : RecordTogether(Alone(Candidates(k)))
     ELSE UNCHANGED <<disk, book, signal>>
  /\ UNCHANGED <<next, watching, control, host, task>>

-----------------------------------------------------------------------------
(* The scheduler *)

Conflict(i, j) ==
  \/ calls[i].exclusive \/ calls[j].exclusive
  \/ calls[i].path # NoPath /\ calls[i].path = calls[j].path /\ (calls[i].effect \/ calls[j].effect)

\* Mutant: only the calls that run are looked at.
CanStartBesideRunning(i) == \A j \in Those("running") : ~Conflict(i, j)

CanStartCall(i) ==
  /\ calls[i].exclusive => Those("running") = {} /\ \A j \in 1..i - 1 : item[j] = "done"
  /\ \A j \in 1..i - 1 : item[j] # "done" => ~Conflict(i, j)
  /\ \A j \in Those("running") : ~Conflict(i, j)

Runnable(i)     == item[i] = "accepted" /\ CanStartCall(i)
NextRunnable(i) == Runnable(i) /\ \A j \in 1..i - 1 : ~Runnable(j)
Room            == Cardinality(Those("running")) < Limit

\* OnStart of the next call that may start.
Announce ==
  /\ phase = "fill" /\ ~Stopped /\ Room
  /\ \E i \in Call :
       /\ NextRunnable(i) /\ next' = i
       /\ \/ ~hooks /\ GoOn("launch") /\ UNCHANGED <<host, signal>>
          \/ /\ hooks /\ heard' = [heard EXCEPT ![i] = Append(@, "start")]
             /\ \/ GoOn("launch") /\ notified' = notified \cup {i} /\ UNCHANGED signal
                \/ GoOn("check") /\ Fail("hook") /\ UNCHANGED notified
  /\ UNCHANGED <<watching, control, book, disk, task>>

\* The callback may have seen, or caused, a stop.
Launch ==
  /\ phase = "launch"
  /\ IF Stopped
     THEN GoOn("check") /\ UNCHANGED <<item, work>>
     ELSE /\ item' = [item EXCEPT ![next] = "running"] /\ Move(next, "entered")
          /\ GoOn(IF calls[next].exclusive THEN "check" ELSE "fill")
  /\ UNCHANGED <<signal, next, watching, control, state, host, disk, flags, sent, began>>

FillEnds ==
  /\ phase = "fill" /\ GoOn("check")
  /\ Stopped \/ ~Room \/ \A i \in Call : ~Runnable(i)
  /\ UNCHANGED <<signal, next, watching, control, book, host, disk, task>>

\* A stop drains the batch; a batch in which nothing runs is stuck.
Check ==
  /\ phase = "check"
  /\ IF Stopped THEN GoOn("drain") /\ UNCHANGED signal
     ELSE IF Those("running") # {} THEN GoOn("select") /\ UNCHANGED signal
     ELSE GoOn("fill") /\ batchErr' = {"scheduler"} /\ cut' = TRUE
          /\ UNCHANGED <<cancelled, interrupted, hooks>>
  /\ UNCHANGED <<next, watching, control, book, host, disk, task>>

NeverStarted == Those("terminal") \cup Those("accepted")

\* A callback that fails here does not cancel the calls that run.
HookGone == batchErr' = batchErr \cup {"hook"} /\ hooks' = FALSE
            /\ UNCHANGED <<cancelled, cut, interrupted>>

\* The calls that were never started get their result one by one.
Drain ==
  /\ phase = "drain"
  /\ \E i \in NeverStarted : (\A j \in NeverStarted : i <= j) /\ Deliver(i, "not_executed", HookGone)
  /\ UNCHANGED <<loop, disk, task>>

\* Mutant: after the drain the loop starts over without waiting for a call.
DrainEndsInALoop ==
  /\ phase = "drain" /\ NeverStarted = {} /\ watching' = FALSE
  /\ GoOn(IF Those("done") = Call THEN "finalize" ELSE "fill")
  /\ UNCHANGED <<signal, next, control, book, host, disk, task>>

DrainEnds ==
  /\ phase = "drain" /\ NeverStarted = {} /\ watching' = FALSE
  /\ GoOn(IF Those("done") = Call THEN "finalize" ELSE "select")
  /\ UNCHANGED <<signal, next, control, book, host, disk, task>>

\* What a goroutine sent: its control first, then its record, then the callback.
Receive ==
  /\ phase = "select" /\ sent # <<>> /\ sent' = Tail(sent)
  /\ LET i == Head(sent)
     IN /\ item' = [item EXCEPT ![i] = "done"]
        /\ interrupted' = (interrupted \/ "asks" \in flags[i])
        /\ \/ /\ batchErr' = batchErr \cup (IF "faulty" \in flags[i] THEN {"checkpoint"} ELSE {})
              /\ cut' = (cut \/ "faulty" \in flags[i]) /\ hooks' = (hooks /\ "faulty" \notin flags[i])
              /\ heard' = IF hooks' THEN [heard EXCEPT ![i] = Append(@, "result")] ELSE heard
           \/ /\ hooks /\ "faulty" \notin flags[i] /\ hooks' = FALSE
              /\ batchErr' = batchErr \cup {"hook"} /\ cut' = TRUE
              /\ heard' = [heard EXCEPT ![i] = Append(@, "result")]
  /\ GoOn(IF Those("done")' = Call THEN "finalize" ELSE "fill")
  /\ UNCHANGED <<cancelled, next, watching, control, state, notified, disk, work, flags, began>>

WakeUp ==
  /\ phase = "select" /\ watching /\ BatchDone /\ watching' = FALSE /\ GoOn("fill")
  /\ UNCHANGED <<signal, next, control, book, host, disk, task>>

Finalize ==
  /\ phase = "finalize" /\ control = "none" /\ control' = ResolveControl
  /\ UNCHANGED <<signal, phase, next, watching, book, host, disk, task>>

-----------------------------------------------------------------------------
(* The goroutine of a call: executePrepared *)

Quiet == <<signal, loop, item, host>>

\* It looks at the context when it begins, when it waits and when it has the claim.
StartWork(i) ==
  /\ work[i] = "entered"
  /\ IF BatchDone THEN Move(i, "over") /\ Mark(i, "not_executed")
     ELSE Move(i, "waiting") /\ UNCHANGED state
  /\ UNCHANGED <<Quiet, disk, flags, sent, began>>

AcquireClaim(i) ==
  /\ work[i] = "waiting"
  /\ \/ Move(i, "granted") /\ UNCHANGED state
     \/ BatchDone /\ Move(i, "over") /\ Mark(i, "not_executed")
  /\ UNCHANGED <<Quiet, disk, flags, sent, began>>

Recheck(i) ==
  /\ work[i] = "granted"
  /\ IF BatchDone THEN Move(i, "over") /\ Mark(i, "not_executed")
     ELSE /\ Move(i, IF calls[i].effect /\ i \notin recorded THEN "cleared" ELSE "ready")
          /\ UNCHANGED state
  /\ UNCHANGED <<Quiet, disk, flags, sent, began>>

RecordIntent(i) ==
  /\ work[i] = "cleared"
  /\ \/ Move(i, "ready") /\ log' = [log EXCEPT ![i] = "intent"] /\ UNCHANGED <<state, flags>>
     \/ /\ Move(i, "over") /\ Mark(i, "not_executed") /\ UNCHANGED log
        /\ flags' = [flags EXCEPT ![i] = @ \cup {"faulty"}]
  /\ UNCHANGED <<Quiet, recorded, sent, began>>

EnterTool(i) ==
  /\ work[i] = "ready" /\ Move(i, "executing") /\ began' = began \cup {i}
  /\ UNCHANGED <<Quiet, state, disk, flags, sent>>

Recording(i) == IF calls[i].effect THEN "ended" ELSE "over"

\* Mutant: an error under a cancelled context counts as a call that never ran.
ToolReturnsUnrun(i) ==
  /\ work[i] = "executing" /\ Move(i, Recording(i))
  /\ \E s \in {"succeeded", IF BatchDone THEN "not_executed" ELSE "failed"} : Mark(i, s)
  /\ UNCHANGED <<Quiet, disk, flags, sent, began>>

\* It succeeds, fails (or its own time is over), is cancelled, panics, or says itself
\* what became of the call; a panic skips the record of the completion.
ToolReturns(i) ==
  /\ work[i] = "executing"
  /\ \/ /\ Move(i, Recording(i)) /\ UNCHANGED flags
        /\ \E s \in {"succeeded", "failed"} \cup (IF BatchDone THEN {"cancelled"} ELSE {})
                      \cup (IF calls[i].reports THEN {"rejected", "cancelled"} ELSE {}) : Mark(i, s)
     \/ Move(i, "over") /\ Mark(i, "failed") /\ UNCHANGED flags
     \/ /\ calls[i].reports /\ Move(i, Recording(i))
        /\ \E s \in {"rejected", "outcome_unknown"} : Mark(i, s)
        /\ flags' = [flags EXCEPT ![i] = @ \cup {"asks"}]
  /\ UNCHANGED <<Quiet, disk, sent, began>>

\* Mutant: a completion that could not be written goes unnoticed.
RecordCompletionUnchecked(i) ==
  /\ work[i] = "ended" /\ Move(i, "over")
  /\ log' \in {log, [log EXCEPT ![i] = "complete"]}
  /\ UNCHANGED <<Quiet, state, recorded, flags, sent, began>>

RecordCompletion(i) ==
  /\ work[i] = "ended" /\ Move(i, "over")
  /\ \/ log' = [log EXCEPT ![i] = "complete"] /\ UNCHANGED flags
     \/ flags' = [flags EXCEPT ![i] = @ \cup {"faulty"}] /\ UNCHANGED log
  /\ UNCHANGED <<Quiet, state, recorded, sent, began>>

Send(i) ==
  /\ work[i] = "over" /\ Move(i, "sent") /\ sent' = Append(sent, i)
  /\ UNCHANGED <<Quiet, state, disk, flags, began>>

-----------------------------------------------------------------------------
BatchInit ==
  /\ calls \in Batches
  /\ cancelled = FALSE /\ cut = FALSE /\ batchErr = {} /\ interrupted = FALSE /\ hooks = TRUE
  /\ phase = "prepare" /\ next = 1 /\ watching = TRUE /\ control = "none"
  /\ item = [i \in Call |-> "nil"] /\ state = [i \in Call |-> ""]
  /\ notified = {} /\ heard = [i \in Call |-> <<>>]
  /\ recorded = {} /\ log = [i \in Call |-> "none"]
  /\ work = [i \in Call |-> "none"] /\ flags = [i \in Call |-> {}] /\ sent = <<>> /\ began = {}

Preflight == Observe \/ PrepareCall \/ ClosePreflight \/ DeliverTerminal \/ CollectIntents
             \/ RecordBatchIntents
Schedule  == Announce \/ Launch \/ FillEnds \/ Check \/ Drain \/ DrainEnds \/ Receive \/ WakeUp \/ Finalize
Execute(i) ==
  \/ StartWork(i) \/ AcquireClaim(i) \/ Recheck(i) \/ RecordIntent(i) \/ EnterTool(i) \/ ToolReturns(i)
  \/ RecordCompletion(i) \/ Send(i)
Returned == control # "none" /\ UNCHANGED batchVars

BatchNext ==
  \/ /\ UNCHANGED calls
     /\ Preflight \/ Schedule \/ Cancel \/ \E i \in Call : Execute(i)
  \/ Returned

BatchSpec == BatchInit /\ [][BatchNext]_batchVars

\* The loop and its goroutines are scheduled, the host's callbacks and the tools
\* return (a timeout is cooperative), and the coordinator grants every wait, which
\* is what ResourceCoordinator shows. Nobody has to cancel.
BatchFairSpec ==
  /\ BatchSpec
  /\ WF_batchVars(UNCHANGED calls /\ (Preflight \/ Schedule))
  /\ \A i \in Call : WF_batchVars(UNCHANGED calls /\ Execute(i))

-----------------------------------------------------------------------------
(* Properties *)

Cause == {"cancel", "approval", "hook", "checkpoint", "scheduler"}
Phase == {"prepare", "preparing", "deliver", "intents", "fill", "launch", "check", "drain",
          "select", "finalize"}

SignalType == /\ cancelled \in BOOLEAN /\ cut \in BOOLEAN /\ batchErr \subseteq Cause
              /\ interrupted \in BOOLEAN /\ hooks \in BOOLEAN
LoopType   == /\ phase \in Phase /\ next \in 0..BatchSize + 1 /\ watching \in BOOLEAN
              /\ control \in {"none", "continue", "interrupt_request", "cancel_request", "abort_request"}
BookType   == item \in [Call -> Item] /\ state \in [Call -> State]
HostType   == notified \subseteq Call /\ heard \in [Call -> Seq({"start", "result"})]
DiskType   == recorded \subseteq Call /\ log \in [Call -> {"none", "intent", "complete"}]
TaskType   == /\ work \in [Call -> WorkStage] /\ flags \in [Call -> SUBSET {"asks", "faulty"}]
              /\ sent \in Seq(Call) /\ began \subseteq Call

BatchTypeOK == calls \in Batches /\ SignalType /\ LoopType /\ BookType /\ HostType /\ DiskType /\ TaskType

\* No tool with an effect is entered before the log holds its intent, whichever way
\* the intent was written and whatever failed (CheckpointSink: the intent of a
\* side-effecting call is persisted before the call starts).
IntentBeforeEffect == \A i \in began : calls[i].effect => log[i] # "none"

\* Two calls that conflict run in the order of the response: the later one is only
\* entered when the earlier one has been closed or has come back (canStartCall).
ConflictsRunInOrder ==
  \A i, j \in Call : i < j /\ Conflict(i, j) /\ j \in began => item[i] = "done"

\* What executeBatch promises before a tool is entered: its intent is in the log, and
\* the earlier calls it conflicts with are closed.
EffectsAreOrdered == IntentBeforeEffect /\ ConflictsRunInOrder

\* What a call that is over is reported as agrees with what happened: it is
\* reported as not executed only if its tool was never entered, and a tool that
\* ran is never reported as not executed.
ReportIsTrue ==
  \A i \in Those("done") :
    /\ state[i] = "not_executed" => i \notin began
    /\ state[i] \in {"succeeded", "cancelled", "outcome_unknown"} => i \in began

\* Documentation (README_EN.md:427, every call produces at most one start event and one
\* terminal event): the host hears of a call at most one start and one result, in that
\* order, and of every call that is over both, until a callback fails or the log does.
HostHearsOnce ==
  \A i \in Call :
    /\ heard[i] \in {<<>>, <<"start">>, <<"start", "result">>}
    /\ hooks /\ item[i] = "done" => heard[i] = <<"start", "result">>

\* A batch that lets the model continue left nothing open: every call was run or
\* refused, none is unknown, and what had an effect and came back is in the log.
ContinueLeavesNothingOpen ==
  control = "continue" => \A i \in Call :
    /\ state[i] \notin {"", "not_executed", "outcome_unknown"}
    /\ calls[i].effect /\ state[i] \notin {"failed", "rejected"} => log[i] = "complete"

\* The loop always finds a call to start while nothing runs (the "tool scheduler
\* could not make progress" of executeBatch is never reported).
SchedulerProgresses == "scheduler" \notin batchErr

\* However a batch ends, it is closed in order: the host hears of each call once, a
\* batch the model goes on from left nothing open, and the scheduler never gave up.
BatchIsClosed == HostHearsOnce /\ ContinueLeavesNothingOpen /\ SchedulerProgresses

\* After an interruption is accepted no tool of the batch is entered: the calls that
\* report one run alone, and what was approved before a refusal is closed.
InterruptionIsFinal == [][interrupted => began' = began]_batchVars

\* A batch whose tools return is over at some time, with a result for every call.
BatchReturns == <>(control # "none" /\ Those("done") = Call)

=============================================================================
