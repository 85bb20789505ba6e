----------------------------- MODULE AgentTasks -----------------------------
(* Background subagents: AgentTaskManager of internal/tool/agent_task.go and   *)
(* the runtime around it in internal/app/search_tasks.go. A task is a queue of *)
(* prompts and a status. Every launch, and every follow-up to a task that had  *)
(* ended, starts a worker goroutine for the task; workers share Slots, stop at *)
(* a cancelled context, and send their approvals to one goroutine that answers *)
(* them in turn. The parent conversation takes the outcomes it has not heard   *)
(* of before each of its model calls, and Sync writes both to the session.     *)
EXTENDS Integers, Sequences, FiniteSets, SequencesExt, Functions

CONSTANTS
  MaxTask,    \* bound: tasks launched, numbered in the order of their launches
  Slots,      \* max_parallel_agents
  TaskBudgets \* bounds: how often a behaviour may use each operation, one record a scenario

\* The operations a behaviour may use only so often.
Uses == {"tasks", "prompts", "stop", "watch", "close", "fail", "timeout", "ask", "notice", "sync", "crash"}

ASSUME TasksAssumption ==
  MaxTask \in Nat /\ Slots \in Nat \ {0} /\ TaskBudgets \subseteq [Uses -> Nat]

VARIABLES
  task,      \* AgentTaskManager.tasks: status, epoch, queue, revisions, ReadOnly
  workers,    \* the goroutines in run: <<task, epoch they were started for>> -> where they are
  dead,      \* the contexts that are cancelled, <<task, epoch>>
  free,      \* the room left in limit
  line,      \* workers blocked sending to approvals
  resolving, \* the worker whose approval resolveApproval is on, or NoTask
  watched,   \* a subscriber of the session is there
  service,   \* "open", "closing" (Close waits), "closed"
  turns,     \* the notifications in the parent's conversation
  carry,     \* what PendingNotifications handed out and appendUser has not appended
  syncing,   \* the conversation a Sync exported and has not written, or NoTask
  durable,   \* the session's snapshot: its turns, its agent tasks
  given,     \* history: prompts accepted since the task's last outcome of another kind than completed
  taken,     \* history: prompts handed to a runner
  rest       \* what remains of the scenario's budget

manager == <<task, workers, dead, free, line, resolving, watched, service>>
parent  == <<turns, carry, syncing, durable>>
taskVars    == <<manager, parent, given, taken, rest>>

Tasks  == 1..MaxTask
NoTask == <<>>
Active   == {"queued", "running", "waiting_approval"}
Terminal == {"completed", "failed", "cancelled"}

Absent == [st |-> "none", epoch |-> 0, queue |-> <<>>, rev |-> 0, told |-> 0, readOnly |-> FALSE]

Has(what)   == rest[what] > 0
SpendTask(what) == rest' = [rest EXCEPT ![what] = @ - 1]

Cancelled(ctx) == ctx \in dead \/ service # "open"
NewWorker(w) == [pc |-> "top", ctx |-> w, prompt |-> 0, res |-> "none"]
StartTask(w) == [x \in DOMAIN workers \union {w} |-> IF x = w THEN NewWorker(w) ELSE workers[x]]
At(w, pc) == w \in DOMAIN workers /\ workers[w].pc = pc
Exit(w) == workers' = Restrict(workers, DOMAIN workers \ {w})
Goto(w, pc) == workers' = [workers EXCEPT ![w].pc = pc]

-----------------------------------------------------------------------------
(* The operations of the tools and of the terminal interface.               *)

Launch(t) ==
  /\ Has("prompts") /\ Has("tasks") /\ rest' = [rest EXCEPT !.prompts = @ - 1, !.tasks = @ - 1]
  /\ task[t].st = "none" /\ \A s \in 1..(t - 1) : task[s].st # "none"
  /\ service = "open"
  /\ LET p == rest.prompts IN
       /\ task' = [task EXCEPT ![t].st = "queued", ![t].epoch = 1, ![t].queue = <<p>>]
       /\ workers' = StartTask(<<t, 1>>)
       /\ given' = [given EXCEPT ![t] = {p}]
  /\ UNCHANGED <<dead, free, line, resolving, watched, service, parent, taken>>

\* A follow-up to a task that has ended starts a worker of its own, under a new
\* context. No condition asks whether the last worker has returned, nor at closed.
Continue(t) ==
  /\ Has("prompts") /\ SpendTask("prompts")
  /\ task[t].st \in Active \union Terminal /\ ~ task[t].readOnly
  /\ LET p == rest.prompts
         e == task[t].epoch + 1 IN
       IF task[t].st \in Terminal
       THEN /\ task' = [task EXCEPT ![t].st = "queued", ![t].epoch = e, ![t].queue = Append(@, p)]
            /\ workers' = StartTask(<<t, e>>)
            /\ given' = [given EXCEPT ![t] = {p}]
       ELSE /\ task' = [task EXCEPT ![t].queue = Append(@, p)]
            /\ given' = [given EXCEPT ![t] = @ \union {p}]
            /\ UNCHANGED workers
  /\ UNCHANGED <<dead, free, line, resolving, watched, service, parent, taken>>

Ended(k, st) == [k EXCEPT !.st = st, !.queue = <<>>, !.rev = @ + 1]

Stop(t) ==
  /\ Has("stop") /\ SpendTask("stop")
  /\ task[t].st \in Active
  /\ task' = [task EXCEPT ![t] = Ended(@, "cancelled")]
  /\ dead' = dead \union {<<t, task[t].epoch>>}
  /\ UNCHANGED <<workers, free, line, resolving, watched, service, parent, given, taken>>

Watch ==      \* Subscribe, and the end of the subscriber's context
  /\ Has("watch") /\ SpendTask("watch")
  /\ watched' = ~ watched
  /\ UNCHANGED <<task, workers, dead, free, line, resolving, service, parent, given, taken>>

Close ==
  /\ Has("close") /\ SpendTask("close")
  /\ service = "open"
  /\ service' = "closing"
  /\ task' = [t \in Tasks |-> IF task[t].st \in Active THEN Ended(task[t], "cancelled") ELSE task[t]]
  /\ UNCHANGED <<workers, dead, free, line, resolving, watched, parent, given, taken>>

\* wg.Wait and approvalWG.Wait.
CloseReturns ==
  /\ service = "closing" /\ DOMAIN workers = {} /\ resolving = NoTask
  /\ service' = "closed"
  /\ UNCHANGED <<task, workers, dead, free, line, resolving, watched, parent, given, taken, rest>>

-----------------------------------------------------------------------------
(* A worker.                                                                *)

\* Mutant: finishTurn ends the task although prompts are waiting.
FinishTurnDropsQueue(t, res) ==
  IF task[t].st \notin Active THEN task[t] ELSE Ended(task[t], res)

FinishTurn(t, res) ==
  IF task[t].st \notin Active THEN task[t]
  ELSE IF res = "completed" /\ task[t].queue # <<>> THEN [task[t] EXCEPT !.st = "queued"]
  ELSE Ended(task[t], res)

NothingToDo(t) == task[t].st \notin Active \/ task[t].queue = <<>>

\* The head of the loop reads the task's context, which may be a later one than
\* the worker was started with.
Top(w) ==
  /\ At(w, "top")
  /\ IF NothingToDo(w[1]) THEN Exit(w)
     ELSE workers' = [workers EXCEPT ![w].pc = "acquire", ![w].ctx = <<w[1], task[w[1]].epoch>>]
  /\ UNCHANGED <<task, dead, free, line, resolving, watched, service, parent, given, taken, rest>>

Acquire(w) ==
  /\ At(w, "acquire") /\ free > 0
  /\ free' = free - 1 /\ Goto(w, "take")
  /\ UNCHANGED <<task, dead, line, resolving, watched, service, parent, given, taken, rest>>

AcquireCancelled(w) ==
  /\ At(w, "acquire") /\ Cancelled(workers[w].ctx)
  /\ task' = [task EXCEPT ![w[1]] = FinishTurn(w[1], "cancelled")]
  /\ Exit(w)
  /\ UNCHANGED <<dead, free, line, resolving, watched, service, parent, given, taken, rest>>

\* Mutant: the worker that finds nothing to do keeps its slot.
TakeKeepsSlot(w) ==
  /\ At(w, "take")
  /\ LET t == w[1] IN
     IF NothingToDo(t) THEN Exit(w) /\ UNCHANGED <<task, taken, free>>
     ELSE /\ task' = [task EXCEPT ![t].st = "running", ![t].queue = Tail(@)]
          /\ workers' = [workers EXCEPT ![w].pc = "turn", ![w].prompt = Head(task[t].queue)]
          /\ taken' = taken \union {Head(task[t].queue)} /\ UNCHANGED free
  /\ UNCHANGED <<dead, line, resolving, watched, service, parent, given, rest>>

Take(w) ==
  /\ At(w, "take")
  /\ LET t == w[1] IN
     IF NothingToDo(t) THEN Exit(w) /\ free' = free + 1 /\ UNCHANGED <<task, taken>>
     ELSE /\ task' = [task EXCEPT ![t].st = "running", ![t].queue = Tail(@)]
          /\ workers' = [workers EXCEPT ![w].pc = "turn", ![w].prompt = Head(task[t].queue)]
          /\ taken' = taken \union {Head(task[t].queue)} /\ UNCHANGED free
  /\ UNCHANGED <<dead, line, resolving, watched, service, parent, given, rest>>

\* searchAgentRunner.run and generalAgentRunner.run. A turn may complete although
\* its context is already cancelled; it fails when the model does, or when
\* parseSearchReport refuses the answer; it ends cancelled at its own timeout.
TurnEnds(w) ==
  /\ At(w, "turn")
  /\ \E res \in {"completed", "failed", "cancelled"} :
       /\ IF res = "failed" THEN Has("fail") /\ SpendTask("fail")
          ELSE IF res = "cancelled" /\ ~ Cancelled(workers[w].ctx) THEN Has("timeout") /\ SpendTask("timeout")
          ELSE UNCHANGED rest
       /\ workers' = [workers EXCEPT ![w].pc = "finish", ![w].res = res]
  /\ free' = free + 1
  /\ UNCHANGED <<task, dead, line, resolving, watched, service, parent, given, taken>>

FinishTask(w) ==
  /\ At(w, "finish")
  /\ LET t == w[1] IN
       /\ task' = [task EXCEPT ![t] = FinishTurn(t, workers[w].res)]
       /\ IF task'[t].st \in Active THEN Goto(w, "top") ELSE Exit(w)
  /\ UNCHANGED <<dead, free, line, resolving, watched, service, parent, given, taken, rest>>

-----------------------------------------------------------------------------
(* Approvals: Confirm, runApprovals, resolveApproval.                        *)

\* A tool of the turn needs the user. The send waits for the one resolver.
Ask(w) ==
  /\ At(w, "turn") /\ Has("ask") /\ SpendTask("ask")
  /\ line' = Append(line, w) /\ Goto(w, "asking")
  /\ UNCHANGED <<task, dead, free, resolving, watched, service, parent, given, taken>>

Mark(t, st) == IF task[t].st \in Active THEN [task EXCEPT ![t].st = st] ELSE task

ReceiveEvent ==
  /\ resolving = NoTask /\ line # <<>> /\ service = "open"
  /\ resolving' = Head(line) /\ line' = Tail(line)
  /\ Goto(Head(line), "asked")
  /\ task' = Mark(Head(line)[1], "waiting_approval")
  /\ UNCHANGED <<dead, free, watched, service, parent, given, taken, rest>>

\* The answer comes from the subscriber, or from the parent's own Confirm when no
\* subscriber was there; or the context of the asking turn ends, or the manager's.
\* A turn that gave up waiting left the approval behind.
Resolved ==
  /\ resolving # NoTask
  /\ LET w == resolving IN
       /\ At(w, "asked") /\ ~ Cancelled(workers[w].ctx) => watched
       /\ task' = Mark(w[1], "running")
       /\ IF At(w, "asked") THEN Goto(w, "turn") ELSE UNCHANGED workers
  /\ resolving' = NoTask
  /\ UNCHANGED <<dead, free, line, watched, service, parent, given, taken, rest>>

\* The turn's context ends while it waits: cancelled, or at its own timeout, which
\* is what ends a wait nobody will answer. The tool is refused and the turn with it.
GiveUp(w) ==
  /\ At(w, "asking") \/ At(w, "asked")
  /\ workers' = [workers EXCEPT ![w].pc = "finish", ![w].res = "cancelled"]
  /\ \/ w \notin ToSet(line) /\ UNCHANGED line
     \/ \E i \in DOMAIN line : line[i] = w /\ line' = RemoveAt(line, i)
  /\ free' = free + 1
  /\ UNCHANGED <<task, dead, resolving, watched, service, parent, given, taken, rest>>

-----------------------------------------------------------------------------
(* The parent conversation, and the session it is written to.               *)

Pending == {t \in Tasks : task[t].st \in Terminal /\ task[t].told < task[t].rev}
Notice(t) == <<t, task[t].rev>>

\* completedAgentNotifications, called by BeforeModel.
PendingNotifications ==
  /\ Has("notice") /\ SpendTask("notice")
  /\ carry = {} /\ Pending # {}
  /\ carry' = {Notice(t) : t \in Pending}
  /\ task' = [t \in Tasks |-> IF t \in Pending THEN [task[t] EXCEPT !.told = task[t].rev] ELSE task[t]]
  /\ UNCHANGED <<workers, dead, free, line, resolving, watched, service, turns, syncing, durable,
                 given, taken>>

AppendUser ==
  /\ carry # {}
  /\ turns' = turns \o SetToSeq(carry) /\ carry' = {}
  /\ UNCHANGED <<manager, syncing, durable, given, taken, rest>>

Settled == {t \in Tasks : task[t].st \in Terminal}
Saved == [t \in Settled |-> [st |-> task[t].st, rev |-> task[t].rev, told |-> task[t].told]]

\* Sync, at the end of a request or by SetMode while one is running, exports the
\* conversation first and asks the manager for its ended tasks after.
Export ==
  /\ Has("sync") /\ SpendTask("sync") /\ syncing = NoTask
  /\ syncing' = <<turns>>
  /\ UNCHANGED <<manager, turns, carry, durable, given, taken>>

Write ==
  /\ syncing # NoTask
  /\ durable' = [turns |-> syncing[1], tasks |-> Saved]
  /\ syncing' = NoTask
  /\ UNCHANGED <<manager, turns, carry, given, taken, rest>>

Restore(k) == [Absent EXCEPT !.st = k.st, !.rev = k.rev, !.told = k.told, !.readOnly = TRUE]

\* The process ends; the next one restores the ended tasks the session holds, and
\* they are read-only. The others are gone, and so are their IDs.
Crash ==
  /\ Has("crash") /\ SpendTask("crash")
  /\ task' = [t \in Tasks |-> IF t \in DOMAIN durable.tasks
                              THEN Restore(durable.tasks[t])
                              ELSE IF task[t].st = "none" THEN Absent
                              ELSE [Absent EXCEPT !.st = "gone", !.readOnly = TRUE]]
  /\ workers' = <<>> /\ dead' = {} /\ free' = Slots
  /\ line' = <<>> /\ resolving' = NoTask /\ watched' = FALSE /\ service' = "open"
  /\ turns' = durable.turns /\ carry' = {} /\ syncing' = NoTask
  /\ given' = [t \in Tasks |-> {}]
  /\ UNCHANGED <<durable, taken>>

-----------------------------------------------------------------------------
TasksInit ==
  /\ task = [t \in Tasks |-> Absent] /\ workers = <<>> /\ dead = {} /\ free = Slots
  /\ line = <<>> /\ resolving = NoTask /\ watched = TRUE /\ service = "open"
  /\ turns = <<>> /\ carry = {} /\ syncing = NoTask
  /\ durable = [turns |-> <<>>, tasks |-> <<>>]
  /\ given = [t \in Tasks |-> {}] /\ taken = {}
  /\ rest \in TaskBudgets

Work(w) == Top(w) \/ Acquire(w) \/ AcquireCancelled(w) \/ Take(w) \/ TurnEnds(w) \/ FinishTask(w)

TasksNext ==
  \/ \E t \in Tasks : Launch(t) \/ Continue(t) \/ Stop(t)
  \/ Watch \/ Close \/ CloseReturns
  \/ \E w \in DOMAIN workers : Work(w) \/ Ask(w) \/ GiveUp(w)
  \/ ReceiveEvent \/ Resolved
  \/ PendingNotifications \/ AppendUser \/ Export \/ Write \/ Crash

TasksSpec == TasksInit /\ [][TasksNext]_taskVars

\* The goroutines are scheduled, a turn returns (both runners put a timeout on its
\* context), and a turn that waits for an approval nobody gives ends with it.
TasksFairSpec ==
  /\ TasksSpec
  /\ \A w \in Tasks \X (1..3) : /\ WF_taskVars(w \in DOMAIN workers /\ Work(w))
                                /\ WF_taskVars(w \in DOMAIN workers /\ GiveUp(w))
  /\ WF_taskVars(ReceiveEvent) /\ WF_taskVars(Resolved) /\ WF_taskVars(CloseReturns)

-----------------------------------------------------------------------------
\* A task that is shown as active is in the hands of a worker that will end it, and
\* one that is shown as waiting for an approval has the resolver on it.
ActiveIsServed ==
  \A t \in Tasks :
    /\ task[t].st \in Active => \E w \in DOMAIN workers : w[1] = t
    /\ task[t].st = "waiting_approval" => resolving # NoTask /\ resolving[1] = t

\* A task ends as completed only when a runner was given every prompt that was
\* accepted for it since it was started or continued.
CompletedTookAll ==
  \A t \in Tasks : task[t].st = "completed" /\ ~ task[t].readOnly => given[t] \subseteq taken

\* No outcome of a task is put into the parent's conversation twice, in any process
\* of the session.
NoticeOnce == IsInjective(turns)

\* What the parent is told of its tasks: one that looks active is being served, one
\* that completed took every prompt, and no outcome is told twice.
TasksAreHonest == ActiveIsServed /\ CompletedTookAll /\ NoticeOnce

\* Every task that was accepted reaches an outcome, unless the process ends, and
\* Close returns.
TasksEnd ==
  /\ \A t \in Tasks : task[t].st \in Active ~> task[t].st \notin Active
  /\ service = "closing" ~> service # "closing"
=============================================================================
