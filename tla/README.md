# A TLA+ model of Eylu's core

Eylu is a coding agent for the terminal, written in Go. A user's prompt becomes a
request; a request is a loop of model calls and tool batches over one conversation;
whatever the request commits is written to a session log from which a later process
resumes. These modules model the parts of the program whose correctness depends on the
order in which things happen: the path of a request from the terminal or a host to the
model and the tools and back to the disk, and what runs beside it (background agents,
servers of tools, several processes on one set of files).

All paths below are relative to `src/internal/` (`store.go` is `session/store.go`) unless
they name a README.

## Inventory

| Component | State | Operations | Hard because | Correct when |
|---|---|---|---|---|
| Session store (`session`) | `events.jsonl`, `snapshot.json`, cached tail and event index | Append, Save, Load, LoadRecovering, List, Cleanup, Delete, Migrate | failed and torn writes, kills, retries, caches that must agree with a file | the log stays readable, acknowledged events are recovered exactly once |
| Session runtime (`app/session_runtime.go`), conversation restore | append progress, compensations, last snapshot | Sync, RecordTurn, RecordIntents, RecordCompletion, Close | a failure between any two of its writes | what was committed reaches the log once, an intent precedes its effect |
| Conversation (`agent`) | turns, driver state, provider, pending calls, run gate | Run, NewSession, Compact, RequestStop, ApplyProviderSnapshot, ApplyMCPRuntime, Fork, Adopt | called from several goroutines, the state lock is released around every model call, tool batch and callback | one writer, calls always answered, no stale remote state, a stop says why |
| Context management, token budget (`agent/context_management.go`, `budget.go`, `context`) | omitted turns, summary, window, what was spent, slices of a prompt | compaction, admission, retry after an overflow, deduplication | a summary computed outside the lock, windows learned later, compactions that fail after they were paid | pairs of call and result stay together, calls are admitted, a reference has a body |
| Tool executor (`tool/executor.go`) | prepared calls of one batch | prepare, approve, intent, schedule, execute, complete | stop, cancel, hook and checkpoint failures at any point of a concurrent batch | nothing starts after a stop, every call has one terminal result |
| Resource coordinator (`tool/coordinator.go`) | granted claims, queue | Acquire, release | goroutines of several executors, cancellation while queued | no conflicting calls together, first come first served, no lost wakeup |
| Subagent tasks (`tool/agent_task.go`, `app/search_tasks.go`) | task table, workers, slots, approvals, notifications | launch, continue, stop, approve, notify, close | goroutines that outlive the request and the turn they were started for | every accepted task ends, no prompt is dropped, no outcome told twice |
| Host event queue and model drivers (`agent/event_queue.go`, `driver`) | pending text, slow flag, stream accumulators, remote state | push, stop; Generate, readStream | a slow host, streams that break anywhere, providers that refuse parts of a request | the host hears the answer once and whole, the provider reads the conversation |
| Stdio host (`host`) | conversation objects, pending calls, acknowledged commits | create, start, interrupt, restore, commit, callback | two processes, lost and repeated messages, kills | host and engine agree on what is committed, the ledger tells what may have run |
| MCP manager (`mcpclient`, `app/mcp.go`) | one runtime per server, catalogue, stream position, credential file | connect, refresh, failure, close; resume; login, refresh, logout | reconnect racing close and failure, several processes on one credential | sessions are owned, the catalogue follows them, no message skipped, no token used twice |
| Provider manager (`provider`) | snapshot, limits cache | Use, Upsert, Delete; Resolve, LearnOverflow | a discovery shared by requests | a window is current, a refusal is remembered |
| Configuration store (`config`) | layers of files | UpdateProvider, DeleteProvider, SetActive, MCP toggles | several stores on the same files, validation across layers | the files load again with what was acknowledged |
| Tools and their code context (`tool/read_file.go` ... `code_context.go`) | workspace, listing, text cache, postings | read, search, write, edit, bash | caches shared by calls that run together or are cancelled | an answer is not older than its call, no edit over an unread change |
| Terminal UI (`ui/model.go`, `app/tui_backend.go`) | state machine, one operation and its channel, dialogs, modes, panels | every message of Update | workers, timers, agents and lookups answer in any order | one reader per channel, what runs can be cancelled, a panel in order |
| Web tools (`webtool`, `agent/web_*.go`) | plan, budget of uses, executions | plan, expand, execute, collapse | parallel queries of one call, a catalogue that changes between rounds | one use and one honest result per call |
| Skills (`skilldist`, `app/skills_distribution.go`) | directories, backups, lock file | install, update, roll back | kills and failures between renames, two installers | whole trees, none lost |
| Command line (`app`) | - | prepare and settle a request | - | modelled as part of `SessionRuntime` |
| Routing, policy, metrics, logging and environment | - | pure decisions, observation | - | not modelled |

How they interact: an entry point (CLI, terminal UI, stdio host) builds a *runtime* (a
provider snapshot, a driver, tools) and calls `Conversation.Run`. `Run` fits the transcript
into the window, calls the driver, commits the response under the state lock, hands the turn
to the host (`OnTurnCommitted` -> `RecordTurn` -> `Store.Append`), runs the calls through the
executor (which asks the coordinator for claims and the session runtime to record intents
and completions) and commits their results. At the end `Sync` appends what is left and
saves a snapshot. Meanwhile other goroutines may rotate the session, narrow a safety
setting, change the provider, refresh the MCP catalogue, or finish a background task whose
outcome the conversation takes before its next model call.

## Modules

| Module | Models | Run | Proved in |
|---|---|---|---|
| `DurableLog` | what the store promises: an append-only, numbered log without repeated event IDs | `persistence` (refinement) | `SessionStoreProofs` |
| `SessionStore` | one session of `session/store.go` | `session`, `persistence`, `store_torn` | `SessionStoreProofs` |
| `SessionRuntime` | `app/session_runtime.go` over the log and the snapshot, with the requests that drive it and the next process | `session` | - |
| `ResourceCoordinator` | `tool/coordinator.go` and the claim functions of `tool/executor.go` | `tools` | `SharedStateProofs` |
| `ToolBatch` | `executeBatch` of `tool/executor.go`, the loop and the goroutines of its calls | `tools` | `ToolBatchProofs` |
| `Conversation` | gate, loop, finalizer, provider changes, rotation, compaction, fork | `conversation` | `ConversationProofs` |
| `HostLink` | `host` and the reference host of `hostmock` | `host_link` | `HostLinkProofs` |
| `McpManager` | `mcpclient/manager.go`, `tools.go`, `app/mcp.go` | `mcp` | `McpProofs` |
| `ResumableStream` | the SSE connection of `mcpclient/transport.go` | `mcp` | `McpProofs` |
| `OAuthCredentials` | `mcpclient/credentials.go`, `oauth*.go` | `persistence` | `PersistenceProofs` |
| `ConfigStore` | `config/store.go`, `provider/manager.go` and the commands above them | `persistence` | `PersistenceProofs` |
| `SkillInstall` | `skilldist/install.go` and its commands | `persistence` | `PersistenceProofs` |
| `CodeFiles` | the file tools and `tool/code_context.go` | `persistence` | `PersistenceProofs` |
| `AgentTasks` | `tool/agent_task.go`, `app/search_tasks.go` | `agents` | `AgentsProofs` |
| `TerminalUI` | `ui/model.go`, `app/tui_backend.go` | `agents` | `AgentsProofs` |
| `AgentView` | the panel of an agent in `ui/model.go` | `agents` | - |
| `ContextBudget` | `agent/context_management.go`, `agent/budget.go`, `generate` | `model`, `context_torn` | - |
| `SliceDedup` | `context/prompt_builder.go`, trimming of results | `model`, `slice_tail` | - |
| `LimitResolver` | `provider/metadata.go` | `model` | `SharedStateProofs` |
| `ResponsesDriver` | `driver/openai_responses`, `agent/event_queue.go` | `model` | - |
| `WebTools` | `webtool`, `agent/web_*.go`, `agent/execution.go` | `model`, `web_prepared` | `SharedStateProofs` |

`MCSessionStore`, `MCSession`, `MCPersistence`, `MCTools`, `MCConversation`, `MCHostLink`,
`MCMcp`, `MCAgents` and `MCModel` give the constants their values; `ContextTorn.cfg` and
`SliceTail.cfg` give them to a component's own module. `MCSession`, `MCPersistence`, `MCTools`,
`MCMcp`, `MCAgents` and `MCModel` hold several components that share no variable: their
variable `part` says which one moves in a behaviour, and the others stay in one initial
state. Nothing is composed by that but the run; where components do interact, one of them
models the other's promise (`SessionRuntime` an append of the store, `ToolBatch` the
coordinator as a wait that ends, `Conversation` a batch as an answer).

### SessionStore

The file is `valid` (the records the reader accepts) followed by garbage, of which only
the kind matters (`tail`): nothing, an unterminated line, or a complete line that cannot be
decoded. `seqs` and `index` are the two caches of a `Store`; `snap` is the snapshot file,
reduced to its watermark and the set of event IDs its content reflects; `mem` and `wm` are
the view of the process using the store.

`Append` is four actions, one for each of its ways out: `AppendAccepted` (each event a
retry or new, the write succeeds), `AppendFailed` (the write reports an error after any
prefix of the lines, the caches are dropped), `AppendRefused` (an ID with another digest)
and `KilledInAppend`. `Save`, `Open` (Load or LoadRecovering, with the truncation the
latter makes), `ListSelf` (the live session's own log loaded by `Cleanup`) and `Crash`
complete it. The digest of a content in `Structured` changes when the record is re-read:
`eventContentFingerprint` encodes a Go struct in declaration order and the map it comes
back as with sorted keys.

### SessionRuntime

What `SessionStore` promises is taken for granted here: an append writes lines, a line whose
event ID the log holds is not written again and reports the sequence of its copy, an append
that fails or is killed has written any number of its lines whole, and a save that fails has
replaced the snapshot or not. `sessionRuntime.mu` is held around each append, so an entry
point is one step with two outcomes (`Confirmed`, `Failed`); a tool needs no lock and has
its effect between two of them.

`log` and `snapshot` are the files. `conv`, `role` and `driver` are the conversation: turns are
numbers, and `driver` names the model turn whose remote state the conversation holds.
`logTurns`, `sequence`, `logDriver`, `logContext` and `unconfirmed` are `appendProgress`;
`pending` and `owed` are the pending intents and the compensations in memory. `phase` is
where the request (`round`, `batch`, `ending`), its settlement (`sync`, `flush`, `save`) or
the process (`idle`, `down`, `refused`) stands.

| Action | Code |
|---|---|
| `StartRequest` | `toolRun.prepare` with `RecordRequestStarted`, the commit of the prompt |
| `FollowUp` | the user turn of `BeforeModel`, as `app.go` wires it to background agents |
| `ModelTurn`, `CloseCalls`, `BatchReturns` | a committed response, its calls closed or run, and `RecordTurn` behind those commits that have a hook |
| `RecordIntent`, `Effect`, `RecordCompletion` | one call of the batch, or of a background agent that shares the runtime |
| `Report`, `Sync`, `Flush`, `SaveSnapshot` | `toolRun.settle`: `RecordRunReport`, then `Sync` in the three parts that can fail |
| `Compact` | `/compact`, which drops the remote state and syncs |
| `KillProcess`, `OpenSession` | a kill, in the middle of an append of several lines too; `Store.load`, `RestoreConversation`, `newSessionRuntime` |

Two turns are committed without being recorded: the user's (the lifecycle of the command
line sets `TurnCommitted` only) and the one that closes calls. `Sync` takes the turns behind
`log.turns`, so which turns it appends depends on how many were recorded. Of the state
events the driver state and the context stand for all. Left out: `RecordToolPrepared` (an
append that changes nothing else), `Close` and reopening (one more append and save),
prompts and skills (appended and compared like turns and state), and rotation. An ID of a
state event is a key no older line has.

### ResourceCoordinator

A caller is a goroutine that executes one call after another. Everything between `Lock`
and `Unlock` of `coordinator.go` is one step, so `Acquire` is `Arrive`, then `LookAgain`
(the channel was closed) or `GiveUp` (the context ended). `woken` is the set of callers
whose channel has been closed: `signalLocked` closes it, it does not send, so every caller
that read it runs again. Claims are file or tree paths as sequences of names, and
`Overlap` and `Conflicts` are those of `executor.go`. `ahead` is a history variable.

### Conversation

Each actor is one call made by the host, made at most once: a request is a call of `Run`,
a rotator of `NewSessionWithEnvironment`, and so on. `pc[a]` is where the call stands;
everything the code does under one hold of `c.mu` is one step, and a model call, a tool
batch or a host callback lies between two steps. `active`, `epoch` and `attached` are the
gate: `epoch` is the identity of its `done` channel, `attached` the request whose cancel
function it holds.

| Action | Code |
|---|---|
| `Begin`, `Attach`, `Prepare`, `Enter` | `Run` up to its loop; the early returns go to `"leaving"` without `finish` |
| `StartRound`, `Refresh`, `Answer` | the head of a round, the refresh, the model call and the commit of its response |
| `Settle`, `RefreshForBatch`, `Batch` | every exit between commit and batch, the batch and its control |
| `Finish`, `Release` | `runFinalizer.finish`, the deferred `gate.release` |
| `StopLook`, `StopTell`, `StopCancel` | `RequestStop`: gate, reason, cancel |
| `SnapshotLook`, `SnapshotApply`, `CatalogChanged` | `ApplyProviderSnapshot`, `ApplyMCPRuntime` |
| `TryAcquire`, `GraceEnds`, `Rotate` | `gate.acquire` and `NewSessionWithEnvironment` |
| `CompactBegin`, `CompactPlan`, `CompactCommit` | `Compact` |
| `Fork`, `Adopt` | the isolated profile of `app.go` |

Abstracted: a turn is its author and its kind; a provider snapshot is the actor that
brought it (`Nobody` is the one the program starts with), and snapshots differ in more
than their reasoning effort; a remote driver state is the provider that returned it and
the turn it answers. Left out: `Send`, the extra user turn `BeforeModel` may add (it is one
more turn like the prompt), the runtime branch for host profiles, and the text of a
summary. The grace timer never ends between `begin` and `attach`, which follow each other
at once while `ownershipGrace` is five seconds. A context that `Run` has left can no longer
be cancelled.

### ToolBatch

One run of `executeBatch` over the calls of a response; a call is its position. `phase` is
where the loop stands, `work[i]` where the goroutine of call `i` stands in
`executePrepared`, and `item`/`state` are the record (`preparedCall`) the two share. A step
ends where somebody else can act: at a callback of the host, at the session log, at the
coordinator, in a tool. `cancelled` is the request's context and `cut` the batch's own
`cancel()`; `batchErr` is the set of causes `joinBatchError` has joined, and `hooks` falls
when the code replaces `BatchHooks` by the empty one. `log` is what the session log says of
a call (nothing, an intent, an intent and a completion). `heard` and `began` are history.

| Action | Code |
|---|---|
| `Observe`, `PrepareCall`, `ClosePreflight` | the preparation, with every decision of the policy, every answer of the user and a panic |
| `DeliverTerminal` | calls that are over before anything runs |
| `CollectIntents`, `RecordBatchIntents` | the intents of the batch in one write; the context is read again for each call |
| `Announce`, `Launch`, `FillEnds` | `OnStart`, the second look at a stop, the `go` statement |
| `Check`, `Drain`, `DrainEnds` | a stop closes what never started |
| `Receive`, `WakeUp`, `Finalize` | the `select` and the control of the batch |
| `StartWork` ... `Send` | `executePrepared`: the three looks at the context, the claim, the intent, the tool, the completion |

The claims a call asks for, the target of its intent and the file its tool touches are one
`path`; `Together` says whether the log implements `BatchCheckpointSink`. The policy is any
of its decisions and the tool any of its results. The coordinator is a wait that ends
(`EveryWaitEnds` of `ResourceCoordinator`). Every executor has a checkpoint. Left out: the
audit, truncation of output, `ExecutionFinalizer`, and the text that says why a call was
not started.

`ResolveControl` shows one more thing than its comment (executor.go:421) says: the loop
joins the context's error into `batchErr` before each preparation (executor.go:511), so a
request cancelled between two preparations ends as `abort_request` and one cancelled a
moment later as `cancel_request`. The cause holds the cancellation in both cases.

### HostLink

Two processes. The engine's side is a set of conversation objects (`create` makes one, every
`restore` another) with a run goroutine, a table that names one of them, and the handlers
that have looked it up; the host's side is the ledger, the applied checkpoint IDs and what it
knows of each request. A pipe loses nothing while both ends live, but every request is
handled on its own goroutine, so messages are sets; a kill of the engine empties the pipe.

| Action | Code |
|---|---|
| `Create`, `StartArrives`, `Start`, `Interrupt`, `Restore`, `Shutdown` | the handlers of `server.go` and `conversation.go`; a start arrives and is admitted in two steps |
| `CommitInput`, `Think`, `ModelSettles`, `Batch`, `Launch`, `ToolSettles`, `Finish` | the run goroutine and its ports, between two commits |
| `CommitTimesOut`, `CommitAnswered`, `CallTimesOut`, `CallAnswered`, `GraceEnds` | a commit is sent again once, a callback waits for its answer or its grace period |
| `HostCommits`, `HostReceives`, `HostSettles` | `hostmock`: compare-and-swap on the revision, idempotent by checkpoint ID |
| `Crash` | a kill at any point; `Restore` reconciles what was pending |

A checkpoint's revision stands for both counters of its compare-and-swap. Left out: deltas
and progress, compaction under a host, digests, limits of bytes, the pool of 64 workers.
`RestoreOverStart` is FALSE in the run: a host that restores a conversation while its own
`run.start` is unanswered gets two objects that commit to one ledger (server.go:118).

### McpManager

Each server has a runtime: switch, status, at most one session, a generation, and what the
session listed. Callers run `Reconnect`, `Enable`, `Disable`, `Logout`; an operation is cut
where the code releases `mu`: severing the old session, dialling, installing, announcing.
Goroutines of the manager watch a session's end, load the optional part of a catalogue,
refresh it after `list_changed`, and serve tool calls. `catalog` is what `rebuildCatalog`
published, and a watcher copies it to the conversations. `open` is the set of live
connections and `cut` those whose calls were cancelled; both say what may leak.

Left out: the stdio transport, sampling and elicitation, dropped events of a subscription.
Known and not stated as a property: a `list_changed` between the listing of a connect and
its installation is dropped; after a failed `Enable` of a connected server, and after two
senders that read and store in different orders (mcp.go:76), the application's copy stays
behind until the next event.

### ResumableStream

The read loop, the position the server continues from, the bounded channel and `Read`. The
server may end or lose the stream anywhere, also inside an event, refuse a reconnection or
bring nothing. The decoder takes a truncated event for a whole one (transport.go:446): the
message it held is then lost. `truncated` records that it has happened, and the order is
promised only while it has not.

### OAuthCredentials

The credential file with its lock, the calls for a token, the logins of the command and of
the SDK, logouts, and one shared refresh per process. A refresh holds the lock of the file
while the authorization server answers and runs under the context of the call that started
it, so that a token endpoint that hangs keeps every other use of the file waiting. The
server is external: it remembers what it issued, may rotate the refresh token, may fail.
`lost` marks tokens the server ended for a call that then failed or was killed before it
wrote: those cannot be kept by any client. One server, one key of the file.

### ConfigStore

The layers of configuration files, the stores that have read them (the terminal keeps one,
every command opens its own), and the changes that were acknowledged. `Update` validates and
replaces one file by a rename, so that a failure or a kill leaves the old one; a rename of a
provider and a choice of a model are two calls of the manager with a step between them. A provider's settings are four
fields. `overwritten` records that a store has replaced a file another one changed after it
was read (store.go:454): the other's change is then gone, and only then.

### SkillInstall

An installer stages a verified tree, reads the lock file, moves the old tree to a backup,
moves the new one in, writes the lock file, and removes the backup. Each of these may fail,
and so may what undoes them: when the new tree cannot be moved in, `replaceDirectory` renames
the backup back and ignores the error of that rename (install.go:449); when the lock file
cannot be written, `Rollback` removes the new tree and renames the backup back, and returns at
the first of the two that fails (install.go:464). A removal has a beginning, where no file is
gone, and a middle. An installer may be killed at each step as well.

| Action | Code |
|---|---|
| `BeginInstall`, `Stage`, `GivesUp` | the choice of a version, the staging directory, a failure before anything is moved |
| `ReadLock`, `MoveAway`, `MoveIn`, `WriteLock`, `Commit` | `prepareTeamLock`, the two renames of `replaceDirectory`, `writeAtomic`, the removal of the backup |
| `MoveInFails`, `WriteLockFails` | the two failures that are undone |
| `RemoveBegins`, `RemoveEnds`, `MoveBack` | `Rollback`, and the rename back of `replaceDirectory` |
| `RemoveFails`, `MoveBackFails` | the same when they fail: what is in place stays, and the backup where it is |
| `KillInstaller` | a kill anywhere |

After an undoing that failed the skill's directory can hold a part of a tree or nothing, and
the lock file can list another version than the directory has; `stuck` says for which skill
and at which step, and is dropped by the next installation of the skill that succeeds. What
is promised all the same is that no installed tree is lost: it is whole in its directory or
in the backup. What two installers at work on the *same* skill can do to
each other is outside the promise (`contended`): a tree can be lost. Two of them on
*different* skills at one time can lose a line of the lock file (`overlapped`). A kill
between the two renames leaves the tree only in the backup, which nothing moves back.

### CodeFiles

Three calls of read, search, write, edit and bash over two files, with the shared listing
and its generation, the cache of texts with the loads in flight, and the postings. The
coordinator's claims are the guard `Claimed`. A text is the set of writers it holds, and has
the searched word when there is one; a file may stand there without it from the start. A
search answers for every file with the word that did not change since the listing it works
on, and for those the listing had to have when it is whole. Escapes
the model has and the properties name: the load of a cancelled read outlives its claim
(`overtaken`), a change that keeps size and time is invisible, a listing cut short by its
cancelled caller is stored. The count of cached bytes is kept as the code keeps it
(code_context.go:369).

### AgentTasks

A task is a queue of prompts, a status and the epoch of its context. A worker takes a slot,
takes one prompt, runs a turn, and ends the task or goes round; approvals go through one
goroutine; the parent conversation takes notifications before its model calls and `Sync`
writes both to the session, from which the next process continues. Two observations without
a property: a follow-up to a stopped task starts a new worker while the old one may still be in its
turn, so that two turns of one task run at the same time (agent_task.go:243); and `Sync`
reads the task table after it has exported the conversation (session_runtime.go:400), so
that a notice appended in between is written as told without its turn, and a kill loses it.

### TerminalUI and AgentView

`Update` handles one message; everything else (the worker of an operation, its one
`waitEvent`, mode changes, lookups, follow-up checks, a timer, agents) answers in any order.
`worker[o]` is the goroutine of an operation with its bounded channel and the number of
readers. `misled` records that the answer of a model lookup has replaced the state of a
running operation (model.go:736); a parent that is idle then also stops following up on its
agents. `AgentView` is the panel. Entries are recorded, of a stopped task too, and statuses
change (`BeginTurn` records the prompt as well, `Announce` stands for `Continue`,
`MarkWaitingApproval` and the end of a turn with prompts left, `End` for the end of a task);
each makes an event that is broadcast after the lock is released and, unless it is a status
that ends the task, possibly dropped. (The program does not drop the announcement of an
approval either; the model does, which only adds behaviours.) A snapshot is read and answers
later, buffered events are replayed behind it. `TakeEvent` is `handleAgentEvent`: an entry
waits for a snapshot (`Waits`), is left out when it is old (`IsOld`), or is shown (`Shows`);
the event of a status is always taken, and replaces the agent's revision even by an older
one. `setBack` records that it did: until the view is replaced its entries may then repeat,
and `TimelineAscends` promises only that what is shown last was recorded.
ui/model_test.go:455 asks for entries "WithoutDuplicates", in a case without such an event. A
snapshot replaces the view whichever agent it is of (model.go:702), so one that answers late
can show an agent the user has left; what it shows is in order all the same.

### ContextBudget and SliceDedup

Turns keep their role, whether they hold calls, and a size in estimated tokens. A request is
planned, compacted in rounds (the summary is itself a paid call), admitted, sent, and tried
again after an overflow with a smaller window; manual compactions happen between requests.
The turns of a call and of its results are committed apart (`CallsTools`, `CommitsResults`),
and a detached run is adopted between any two steps: `Adopt` takes `c.mu` and nothing else
(conversation.go:337). The terminal gets there when an isolated run is interrupted in the
moment it has finished: its worker goes on to `Adopt` (app.go:604) beside the request the
user starts next. A run adopted while tools execute stands between a call and its results,
which are then in different rounds, and the compaction of the older round hides the call
alone; `context_torn` shows it, and `PairsStayWhole` is about the pairs that are not parted so.
`SliceDedup` is the replacement of a code slice by a reference, over one
file and the slices of one prompt, line by line. The range of a trimmed slice's tail counts
the empty line behind the body's last newline (context_management.go:950), so that the slice
backs a reference to the line behind its end, which it does not hold (`slice_tail`);
`ReferencesAreBacked` sets that one line aside and no other. Observed: a request
that fits its window is refused when its compaction does not make it smaller
(context_management.go:498); and budget.go:48-50 still says that the drivers
get no bound for their output, which the calls of a budgeted request now carry, and only
summaries do not.

### LimitResolver

One resolver shared by all requests: cache and file, the discovery that one request makes
while the others wait, the catalogue, and `LearnOverflow`. Time is a counter of ticks, and
every term of the code is a number of them. A discovery under way when another request
learns a smaller limit puts the larger one back (metadata.go:174); `learned` is dropped in
exactly that case, and when the cache is full or the file was not saved. `ResolveMany` is
left out.

### ResponsesDriver

The request with its fallbacks (parallel calls, remote state, summaries), the stream event
by event with the accumulators of `readStream`, the synthesized answer when the final event
is missing, and the event queue to a slow host. A response is a sequence of items of two
pieces each; one of them is a text and a call, which a synthesized response reduces to the
text (stream.go:344 counts the calls, stream.go:152 keeps them by output index), although
stream_fallback_test.go:88 expects the call. Observed and modelled: a stream cut inside an
event is a protocol error; a completed response is lost when the read behind it fails (stream.go:322).

### WebTools

A round resolves how searches and fetches are served (left out, hosted, a tool of an MCP
server, another provider), expands each call into one execution per query, runs them under
the executor's limit against the budget of uses, and collapses them into one result. Left
out: the delegated provider's own call and the rules for addresses.

## Runs

| Run | Instance | Question | Properties |
|---|---|---|---|
| `session` | the store: 4 events, 2 per append, 3 records, half lines in a live process; the runtime: 3 turns, 1 background call, 2 failures or kills | does the log survive failures, torn lines, kills and repairs; can every session be opened again, with what was recorded and settled, no effect without a trace and no known outcome unknown? | `LogIsSound`, `ValidRecordsKept`, `RecordSurvives`, `EvidenceSurvives`, `SessionGoesOn` |
| `persistence` | the store with 4 records and whole lines; 2 stores and 2 changes over 4 starts; 2 installers, 2 skills, 3 installations, 3 failures or kills; 3 callers in 2 processes, 2 tokens, 2 clients, a fault; 3 calls of file tools in 4 plans | is what is kept on a disk what was acknowledged, and what is read from it true? | `LogKeepsItsWord`, `ImplementsDurableLog`, `SettingsHold`, `InstallationsHold`, `CredentialsHold`, `FileToolsAreTrue` |
| `tools` | a batch of 3 calls, 2 at a time, four batches, intents written together; 3 callers of the coordinator, 5 specs over 4 paths | does an effect follow its intent and a conflict the order of the calls, are the results true and told once, does the batch return; are claims race free, granted in order and at some time? | `EffectsAreOrdered`, `ReportIsTrue`, `BatchIsClosed`, `BatchesReturn`, `NoRace`, `NoOvertaking`, `EveryWaitEnds` |
| `conversation` | four casts of the calls a host makes, requests of 2 rounds | one writer; every request leaves calls, remote state, session and stop in order; does a rotation get its turn? | `OneWriter`, `RequestsEndInOrder`, `RotationEnds` |
| `host_link` | 1 run, 2 model calls, 1 tool call, 2 conversation objects, 1 kill | do host and engine agree, and can every checkpoint be restored? | `CheckpointRestores`, `LedgerIsTrue`, `NoDispatchAfterInterrupt`, `StoppedRunEnds` |
| `mcp` | 1 server, 2 operations, 1 retry, four scenarios; a stream of 4 messages, 5 tries, a buffer of 2 | is every session owned, does the catalogue follow, does the stream resume? | `SessionsAreOwned`, `CatalogFollows`, `OperationsReturn`, `StreamResumes` |
| `agents` | 2 tasks on 1 slot in eight scenarios; 2 operations, a channel of 1, six scenarios; a panel over 2 agents, 2 entries, 1 change of a status, 2 openings | is a task served to its end, is the operation in hand, is the panel in order? | `TasksAreHonest`, `TasksEnd`, `OperationIsHeld`, `CancelledReturns`, `TimelineAscends` |
| `model` | windows 20 and 14, no budget or 40, 4 model turns; 3 slices of a file of 3 lines; 2 requests and 2 models; 3 requests of the Responses driver; 5 setups of the web tools, 2 rounds | is what is sent to a model, learned about it and heard from it right? | `ContextHolds`, `ReferencesAreBacked`, `LimitsHold`, `HostHearsRight`, `ProviderReadsTheConversation`, `WebToolsHold` |
| `store_torn` (violation) | as the store in `session` | does the cached tail agree with the log after a short write? | `SequenceFollowsLog` |
| `web_prepared` (violation) | as `model` | is a call marked prepared before its query reaches a backend? | `PreparedIsTold` |
| `context_torn` (violation) | as `model` | is every result sent with its call, though a run is adopted between the two? | `PairsAreAtomic` |
| `slice_tail` (violation) | as `model` | does a reference stand for lines that are there? | `ReferencesAreComplete` |

A property that is the conjunction of several named parts is stated once per component
(`CredentialsHold == TokensMatchClient /\ LoggedOutStaysOut /\ RefreshIsHonoured`); the
parts carry their own comments.

Why the bounds are enough. Store: `MCEvent` has two events in conflict on one ID, one whose
digest does not survive a re-read and a plain one, and a log an older build wrote the same
event into twice; a batch of two is needed to fail between its records, three or four
records to append, fail, retry and append again. Session runtime: three turns are a prompt,
a model turn with a call and its results, or two requests; with two failures or kills a
process can fail and be killed, or a second one be killed while it repeats what the first had
left. The background call writes between requests, beside a batch and before Sync has the
lock, which are the places that differ. Coordinator: three callers are a holder, a waiter
and an overtaker; the specs cover write against read, tree against file, nested trees, the
exclusive fallback and no claim at all. Tool batch: with three calls and two places one call
runs, one waits for it and one is free to overtake; the four batches are two writes of one
file around another write (whose intents are written apart), a question between a write and
a search, a shell command behind a read and before a write, and a host tool before two
independent calls. Conversation: all calls together are out of reach, so each cast lets those
meet that touch the same thing: two requests with a rotation and a compaction, two requests
with a safety stop (the second inherits what the first left), a stop beside a rotation, and
what changes transcript and provider from outside. Host link: one kill separates two engine
processes, two objects are a create and a restore, two model calls bring a round with a tool
and its answer. MCP: two operations are enough to lose a race for a session, and a scenario
spends what it needs of them, of notifications, session ends and a close; five tries is the
program's own limit. OAuth: two callers share a process and its refresh, the third only the
file. Skills: a second installer on another skill and on the same one; three failures are a
lock file that is not written, an undoing that fails too, and a kill or another failure of the
installation that would repair it. Panel: two openings let the snapshot of one agent answer
in the view of the other; one change of a status is enough to arrive behind a newer snapshot,
or to end a task and load it again. Agents: one slot makes tasks queue; a channel of one is
full after one event. Model: the sizes make a compaction necessary at the second round, and
enough once and not enough once; two requests share one discovery. The proofs remove the bounds for the components that have one.

Some properties step aside for what the program is known to do, by a history variable that is
set in exactly that step: `truncated`, `lost`, `overwritten`, `contended`, `overlapped`,
`overtaken`, `misled`, `stuck`, `setBack`, and the resets of `learned`. The sections above
name the line of each. These steps are hazards of the program all the same, and in them the
properties do not cover all of it: an update another store undoes (`overwritten`), a load
that outlives its call's claim (`overtaken`), a cut-off event that counts as received
(`truncated`), a view that an old status has set back (`setBack`), a larger limit a discovery puts back, or that replaces a learned one with a
later refusal (`learned`); nor do they forbid the intents of calls that never ran. The
`hazards` of `PROJECT.json` say so at each.

The violation runs state what the repository says and show the code doing otherwise; the
`findings` of `PROJECT.json` quote both sides. Two of them show the step a property of a
passing run sets aside: a run adopted while tools execute, and the tail of a trimmed slice.
A short write needs a full disk or a signal.
A web call stays `prepared=false` because its execution is announced under an identity of
the host's; and as those identities start again in every round, the terminal can attribute an
execution to a call of an earlier round (ui/model.go:1210), while calls of a mixed batch that
never ran are projected as errors (agent/tool_events.go:27).

Other disagreements were met and have no run: a late status sets a panel back and a call behind
a text is lost (above), a stop reason can be read by the request after the one it was meant
for (agent/conversation.go:820), and a provider change queued during a request takes effect with the next request instead of the next round (agent/loop.go:294). The
prompt of a request is in the snapshot only, so that the log alone does not rebuild a session
(app/session_runtime.go:386); a session killed between a recorded turn and the next Sync
continues, with a driver that keeps remote state, from a response that does not know that turn
(agent/state.go:95). A batch that stops after its intents were written leaves intents of calls
that never started, although session/model.go:204 calls them "executions that started". A
retry of a turn with an attachment, after a failed append or a restart, is refused as a
conflict, because `eventContentFingerprint` digests the attachment as a struct before and as
a map after a re-read; `ConflictIsReal` leaves such contents (`Structured`) aside.

`CHECK_DEADLOCK FALSE` is set where a bound stops the system (the store's sequence numbers,
the budgets of the scenarios, the last request). In `session`,
`tools` and `conversation` it is not: no state of theirs is without a step, and the state where
every call has returned, or the store's bounds are used up, is an explicit one.

## Fairness

Safety runs use a specification without fairness. The liveness properties assume:

* coordinator (`EveryWaitEnds`): weak fairness of `LookAgain`, `GiveUp` and `ReleaseClaim`. A
  goroutine whose channel is closed is runnable, and a tool call ends (every tool has a
  timeout or the deadline of its request). Nothing makes callers arrive or contexts end.
* tool batch (`BatchReturns`, which `BatchesReturn` asks of the run's batches): weak fairness
  of the loop and of each goroutine. The runtime schedules them, a callback returns, a tool returns (its timeout is cooperative, as
  README_EN.md says) and the coordinator grants every wait. Nobody has to cancel.
* conversation (`RotationEnds`): weak fairness of the steps between calls of the code, of a
  summary call and of the grace timer. The model and tool steps of a request in `Unresponsive`
  are fair only once its context is cancelled: the rotation therefore rests on the cancel that
  follows the grace period, as `lock.go` argues. Nobody has to start a call. There are finitely
  many calls, so a rotation cannot be starved by an endless stream of requests; the code itself
  gives no such guarantee.
* host link (`StoppedRunEnds`): weak fairness of the engine's own steps, its timers among
  them. The host owes no answer.
* MCP (`OperationsReturn`): weak fairness of each step of an operation and of the manager's
  goroutines together: a dial, a fetch and a call end by their timeouts. Callers, servers,
  tool calls and requests may stop at any time.
* agents (`TasksEnd`, `CancelledReturns`): weak fairness of each worker, of the approval
  goroutine and of `Close`; a turn ends because both runners put a timeout on its context. In
  the terminal only the goroutine of a cancelled operation has to run to its end: nobody has
  to read its channel.

## Proofs

The theorems hold for every value of the constants: any number of events, callers, calls,
requests, installers or messages. The modules contain the proofs, which cite the assumptions
`StoreAssumption`, `CoordinatorAssumption`, `BatchAssumption`, `ConversationAssumption`,
`StreamAssumption`, `McpAssumption`, `LimitsAssumption`, `WebAssumption`, `ConfigAssumption`,
`StartsAssumption`, `CodeFilesAssumption`, `InstallAssumption`, `OAuthAssumption`, `NamesAssumption`,
`TasksAssumption`, `TerminalAssumption` and `HostAssumption` of the modules they are about.
These say of what kind a constant is, and that different things have different names
(`ConversationAssumption`: an actor is one call of one kind). Every inductive invariant
was checked by TLC on a run of its component before it was proved.

| Module | Theorem | Run property |
|---|---|---|
| `SessionStoreProofs` | `TypeCorrect`, `LogStaysReadable`, `RetryWritesOnce` | - |
| | `RecordsAreKept` | `ValidRecordsKept` |
| | `LogStaysSound` | `LogIsSound` |
| | `AcknowledgedStays`, `SequenceStaysWithLog` | - |
| | `WordIsKept` | `LogKeepsItsWord` |
| | `StoreImplementsLog` | `ImplementsDurableLog` |
| `SharedStateProofs` | `NoRaceHolds` | `NoRace` |
| | `ExclusiveHolds`, `QueueHolds`, `WakeupHolds` | - |
| | `PriorityHolds` | `NoOvertaking` |
| | `LimitsAlwaysHold` | `LimitsHold` |
| | `WebToolsAlwaysHold` | `WebToolsHold` |
| `ToolBatchProofs` | `BatchTyped`, `IntentComesFirst`, `OrderKept`, `InterruptionStops` | - |
| | `EffectsOrdered` | `EffectsAreOrdered` |
| | `ReportsAreTrue` | `ReportIsTrue` |
| | `BatchCloses` | `BatchIsClosed` |
| `ConversationProofs` | `OneWriterHolds` | `OneWriter` |
| | `ConversationTyped`, `RemoteStateStaysCurrent`, `StopsAreExplained`, `CallsGetClosed`, `RequestsKeepTheirSession` | - |
| | `EveryRequestEndsInOrder` | `RequestsEndInOrder` |
| `McpProofs` | `StreamGoesOn` | `StreamResumes` |
| | `ConnectionsNeverLeak` | `SessionsAreOwned` |
| | `CatalogNeverLies` | `CatalogFollows` |
| `HostLinkProofs` | `InterruptFreezesDispatch` | `NoDispatchAfterInterrupt` |
| | `OneConversationWorks` | - |
| | `LedgerStaysTrue` | `LedgerIsTrue` |
| | `EveryCheckpointRestores` | `CheckpointRestores` |
| `PersistenceProofs` | `SettingsAlwaysHold` | `SettingsHold` |
| | `InstallationsAlwaysHold` | `InstallationsHold` |
| | `CredentialsAlwaysHold` | `CredentialsHold` |
| | `FileToolsAlwaysHold` | `FileToolsAreTrue` |
| `AgentsProofs` | `TasksStayHonest` | `TasksAreHonest` |
| | `OperationStaysHeld` | `OperationIsHeld` |

* `SessionStoreProofs`. `Inv` is the type invariant, `Numbering` (the records of the file
  are numbered by position, and the cached tail, while a process is up and the file is
  clean, agrees), `IndexComplete` (an index in memory knows every readable record's ID)
  and `NewRecordsUnique`. Numbering alone is not inductive: an append numbers from the
  cache, so the cache has to be part of the invariant; uniqueness needs the index to be
  complete. From `Inv` follow `TypeCorrect`, `LogStaysReadable`, `RetryWritesOnce`,
  `LogStaysSound` and the action property `RecordsAreKept`, for every kind of failure.
  `DurableInv` adds, under `~ShortWrites`, that the file is clean while a process is up, that
  the index is faithful and that acknowledged events are readable; it gives
  `AcknowledgedStays`, `SequenceStaysWithLog` and the refinement (each action is a step of
  `DurableLog!Extend` or a stutter). `WordIsKept` follows each acknowledged event through the
  snapshot, the log behind its watermark, and the process's own view, in every history of
  crashes and retries. `~ShortWrites` is not a convenience: with a short write in a process
  that lives on these properties are false, which is what `store_torn` shows.
* `SharedStateProofs`, on the coordinator. The invariant is the type invariant, `QueueIsWaiting`,
  exclusion between holders, `AheadIsBefore` (who waited before me is before me in the
  queue), `NoOvertaking` and `NoLostWakeup`. The lemmas on `Overlap` and `Conflicts` are
  stated once; a wakeup can only be lost by a step that frees a claim or a place without
  signalling, and every such step signals.
* `SharedStateProofs`, on the limits of models. `LimitsInv` says of every entry, in memory and
  in the file, that it is good for no longer than the term of its source (`EntriesOK`); of every
  request where it stands: the place of discovery it takes or waits for, and that what it has
  found was found now, which holds because an answer is recorded before time goes on
  (`RequestsFit`); that a place which is taken is taken by a request that works on it
  (`PlacesAreTaken`); and that while what was learned is good nobody discovers that model and the
  entry a request would find is the learned one (`LearnedIsKnown`). The last part is what makes
  `LearnedLasts` inductive: a discovery begins only when the known entry has expired, and the
  learned one expires at the same time, so that no recording can replace it; across a restart the
  entry is the one of the file.
* `SharedStateProofs`, on the web tools. `WebInv` has a part for each promise. `BudgetOK`: the
  batches that were paid for are those that were let through, and a call that was refused found
  the uses of its kind at their maximum, where they stay; so that none of its queries is let
  through later. `CallsOK` and `ExpansionOK`: the calls of a response have different names, and
  the executions are those of the plan; that their names are apart then rests on `AllocateIsFree`
  (the n-th free name exists, by the least number with n free names up to it) and `RanksAscend`.
  `CollapseOK`: the result of a call is made of its executions' last states, none of which
  changes any more.
* `ToolBatchProofs`. For batches of any length and any limit. The properties speak of calls
  whose tool was entered, which says nothing of what the goroutines are about to do. The
  invariant therefore follows each call through the flags of the loop and the place of its
  goroutine: `Loop` (no goroutine before the intents are written; what is about to be launched
  can still start), `Track` (a call that was never launched has no goroutine, and one whose
  tool has not returned has no state), `Intents` (a recorded intent is in the log) and `Order`
  (a goroutine exists only when every earlier conflicting call is over). For the end of a batch
  `ClosedInv` adds what stops it, what the host has heard of each call, and where the blame of
  a failure waits until the loop receives it. That the scheduler never gives up rests on a
  lemma: among the calls that are not over there is a first one, and it can always start.
* `ConversationProofs`. For any number of calls of each kind. `Inv` says that every call in a
  claiming stage makes `active`, and that `attached` belongs to it. `StopInv` follows a stop
  from `RequestStop`'s look at the gate to its cancel: it aims at a request whose
  cancel function is registered (`Aimed`), as long as that request has not finished its reason
  is there before the cancel is and stays (`Told`), and nothing is reported before a round
  (`Fresh`). `TextInv` says where calls can be open:
  only at the end of the transcript, only of the request that is running, in the stages
  between its answer and its batch (`OpenCalls`, `ClosedAnswered`); that a request which is
  `Gone` has finished; that who wrote has begun and, while it runs, nobody but isolated runs has written
  behind it (`Begun`, `Alone`);
  and that the turns of a request are not divided by a rotation (`KeptInClosed`,
  `KeptAcross`, `KeptInTurns`). Most actions leave the transcript alone: one lemma for the
  quiet steps and one for each that writes.
* `McpProofs`, on the stream. `Continuity` relates the position of the server, the last event id
  and the channel; `Counting` the tries since the last new id to `failedResumes`.
* `McpProofs`, on the manager. For any finite set of servers and any number of operations, calls
  and changes. `OwnersInv` is the type invariant and the owner of each connection: the runtime,
  or an operation that has opened it and has neither installed nor closed it, or one that has
  still to close it (`Owned`). A session that has ended never comes back, and whatever takes a
  session from its runtime has cancelled its calls first (`CallsCut`); a closed manager has a
  closer for every runtime that keeps one (`ClosersRun`).
* `McpProofs`, on the catalogue. That it is right when all is quiet says nothing of what is
  on its way, so `CatalogInv` says of every moment who still owes something. The catalogue
  is stale only while somebody goes on to rebuild it (`CatalogAt`): who cut or installed a
  session, a goroutine that changed a runtime, or an attempt whose generation is still the
  runtime's and which therefore ends in a session or in a failure that counts. For this the
  generation a session had when the lock was taken must still be its own (`FreshAt`), which
  only one connect per server makes true (`LockedAt`). A server that is switched off has a
  disconnect coming, or is down and an operation that came in between looks at the switch
  again before it dials (`SwitchAt`).
* `HostLinkProofs`. For any number of runs, calls, restores and kills. An interrupt is
  acknowledged by one conversation object and the run it is about may go on in another, so the
  invariant has to say first that there is only one at work: the one the table names, every
  other is at rest and no start is on its way to it (`OnlyCurrentWorks`). Then that a run
  whose interrupt was acknowledged, if it is the live one, is frozen (cancelled, stopping or
  failed), and that it is among the runs its conversation has admitted, so that nothing can
  admit it again (`StopsAreFrozen`). A failed commit puts the last saved state back, and a
  restore the ledger's, so `KnowsItsRun` says of these states too that their run is an admitted one.
  The hypothesis `~ RestoreOverStart` says that the host does not restore a conversation
  while a `run.start` of its own is unanswered; with it two objects could work, since the
  start keeps the object it has looked up (server.go:118) and `restore` replaces it.
* `HostLinkProofs`, on the ledger. Engine and host compare revisions, and nothing in one of them
  says what the other has seen, so `LedgerInv` has to say which commit a message in a pipe
  belongs to: a commit is the one its object waits for or comes from an object that failed
  (`CommitsInWire`), an answer is to the commit waited for and that commit has left the pipe
  (`AnswersKnown`), and a checkpoint the host has applied is in the engine's revision or is the one
  under way (`AppliedKnown`). Two commits may follow one revision, one of them left behind by an
  object a restore has replaced: once the host has applied a checkpoint of the object the table
  names, it refuses the other (`Overtaken`), and from then on engine and host are in step
  (`InStep`); a goroutine past its first commit works with such an object (`WorkerIsEstablished`).
  `Course` says what a run has pending at each place of its goroutine, where a run nobody stopped
  leaves only the call it is at; and `Accounted` that of the calls that left the engine all are
  answered in the state the goroutine works with, but the one it waits for. So a result that says
  a call never ran is only written for one that never left (`TrueOf`), through every
  timeout, retransmission, restore and kill.
* `HostLinkProofs`, on restoring. `RestoreInv` says of every state on its way to the ledger (the
  live one of a conversation that has not failed, the one it sends, a commit in the pipe, the
  ledger) that its runs and calls fit together, and of all others that they are typed. A
  checkpoint that restores now is not enough: a restore replaces a tool's result by what
  the host settled, and would leave two results of a call that had been told never to
  have run. That there is no such call is what `LedgerInv` knows, and that these are the
  only results which are not a tool's own is part of `ResultsFit`.
* `PersistenceProofs`, on the configuration. Stores are old by the time they write, so
  `SettingsInv` says what a store has in common with the files however old it is (`StoresFit`):
  the layers there are and the one that is written, the entries of the layer below, which
  nobody changes, and in which layer the server is. What was promised about providers is then
  kept by the written file alone, and about the server by the layer that has it
  (`PromisesKept`). That the files load is inductive because what makes them valid is the
  entries, and no update joins entries that were not checked together. The files a behaviour
  starts with load (`ConfigInit`): with others no store opens.
* `PersistenceProofs`, on skills. For each step of an installer that works on a skill alone the
  invariant says where the skill's tree is: in its directory (`Placed`), in a backup that is
  whole (`BackupIsWhole`, `AsideIsKept`), in the hands of that installer (`Carrying`); and what
  the lock file lists meanwhile (`LockFollows`, `LockInHand`). A failure of an undoing leaves
  the backup where it is before the installer ends, so that the tree it holds does not depend
  on the step that failed.
* `PersistenceProofs`, on credentials. A refresh works with the credential it has read under the lock
  (`HolderIsCurrent`), and whoever works under the lock holds it (`LockIsHeld`); a login under
  way carries a grant of its own (`LoginIsItsOwn`); the token in the file was issued for its
  client and grant (`Minted`) and is honoured unless it is in `lost` or the holder of the lock
  has just spent it (`FileIsHonoured`).
* `PersistenceProofs`, on the file tools. For any files, any calls beside each other, any
  changes by other programs and any cancellations. The tools go by stamps, so `FilesInv` says
  for what a stamp stands: the cached text with the file's stamp, and the text of a load in
  flight, are the file's (`TextsOK`), unless the load was overtaken or a new text is in place
  that the context was not told of (`BeingReplaced`), and the claims keep every reader and
  searcher away from such a file (`ReadersAreApart`). A listing's stamps stand for the
  files' versions while its generation lasts (`TrueStamps`): for the context's own listing that
  holds only while some search has the generation (`Held`), as it goes stale after every
  write. Under the generation they were built for, the postings name the place of each file
  that has the word and stands as listed (`PostsAre`); a listing of the same manifest may
  take their listing's place, because two listings of one manifest agree about places and
  about what stands (`SamePlaces`, `SameStanding`). Of a search the invariant says that what it
  must still find is found or still to be looked at (`FoundOK`). One lemma, `Bystander`, carries
  a call through any step of another.
* `AgentsProofs`, on the tasks. For any number of tasks and slots and any budget of each
  operation. A task may have several workers, and any of them may empty its queue, so that an
  active task is not simply one that has a worker: `HonestInv` says that one of its workers has
  prompts left to take or is in a place from which it still ends the turn it is on
  (`TasksAreServed`), and that a prompt no runner was given is in the queue
  (`PromptsAreKept`). For the notices it says that every outcome on its way, in the
  conversation, handed out, exported or written, is one its task has marked as told, and is in
  one of these places only (`NoticesAreKnown`). In the session the turns are those that were
  exported before the tasks were read, so that the tasks there know every notice there
  (`SavedNotices`); in the other order a restart would tell an outcome twice.
* `AgentsProofs`, on the terminal. For any number of operations, any capacity of their channels
  and any scenario. `HeldInv` says that whoever asks is the current operation, which is then
  shown as busy, is held and has no reader, and that only one of the two dialogs is its own
  (`AskerIsCurrent`); and that a reader of the current operation is there only while it is held
  (`ReadersAreCounted`). That the state is a busy one is what refuses a second operation while
  the first asks. A lookup that answers into a running operation breaks this; after it
  (`misled`) the theorem still says that the operation can be cancelled.

Checked by TLC only:

* the liveness properties, which with `ENABLED` are outside the prover's reach;
* `RecordSurvives`, `EvidenceSurvives` and `SessionGoesOn`: opening a session folds over the
  log and an append filters its lines, so that their proofs are inductions over a sequence,
  for which the provers cannot instantiate the library's theorems. The same holds for the
  replay in `TimelineAscends` and for the folds of `ReferencesAreBacked` and `ContextHolds`;
* `HostHearsRight` and `ProviderReadsTheConversation`, over filtered and flattened sequences.

## Not modelled

Of the session store the 8 MiB line limit, attachments as files, `Delete`, `Migrate` and a
second process on one session (store.go:334, a hazard no property covers); the drivers of the
Chat Completions and hosted-web protocols; discovery and URLs of OAuth; discovery, signatures
and digests of skills; rendering, the input line and the panels of the terminal; routing,
policy, metrics and logging. `PROJECT.json` says for every component what is left out.

## Plan

1. Non-recursive forms of the replay in `AgentView` and of the load in `SessionRuntime`, so
   that their properties can be proved too.
2. Models: a second process on a session, `Close` and reopening of the session runtime, the
   Chat Completions driver, `ResolveMany`.
