---------------------------- MODULE Conversation ----------------------------
(***************************************************************************)
(* internal/agent: one Conversation and the operations the host calls on it *)
(* from different goroutines: Run, NewSessionWithEnvironment, Compact,       *)
(* RequestStop, ApplyProviderSnapshot, ApplyMCPRuntime, and the Fork/Adopt   *)
(* pair of an isolated profile. runGate gives the conversation one writer,   *)
(* c.mu only guards memory: everything between two Lock calls is one step,   *)
(* and a model call, a tool batch or a host callback lies between two steps. *)
(* Every actor is one call, made once. A turn keeps its author and its kind, *)
(* a provider snapshot its identity, a remote driver state the provider that *)
(* returned it and the turn it answers. Snapshots differ in more than their  *)
(* reasoning effort, so that applyRuntime tells them apart by c.provider*.   *)
(***************************************************************************)
EXTENDS Integers, Sequences, SequencesExt

CONSTANTS
  Request, Rotator, Compactor,  \* calls of Run, NewSessionWithEnvironment, Compact
  Stopper, Applier, Catalog,    \* of RequestStop, ApplyProviderSnapshot, ApplyMCPRuntime
  Isolated,                     \* runs of an isolated profile: Fork, then Adopt
  Unresponsive,                 \* requests whose model or tool ends only when cancelled
  MaxRounds,                    \* LoopOptions.MaxTurns
  Nobody,                       \* no actor; as a snapshot, the one the program starts with
  User                          \* whoever cancels the context Run was given

Actor == Request \cup Rotator \cup Compactor \cup Stopper \cup Applier \cup Catalog \cup Isolated

ASSUME ConversationAssumption ==
  /\ MaxRounds \in Nat \ {0}
  /\ Unresponsive \subseteq Request
  /\ Nobody \notin Actor /\ User \notin Actor
  /\ Request \cap (Rotator \cup Compactor) = {} /\ Rotator \cap Compactor = {}
  /\ (Stopper \cup Applier \cup Catalog \cup Isolated) \cap (Request \cup Rotator \cup Compactor) = {}
  /\ Stopper \cap (Applier \cup Catalog \cup Isolated) = {}
  /\ Applier \cap (Catalog \cup Isolated) = {} /\ Catalog \cap Isolated = {}

VARIABLES
  active, epoch, attached,   \* runGate: active, the identity of done, owner of cancel
  pc,                        \* where each call stands
  turns, closed,             \* c.turns and, oldest first, the transcripts of c.closed
  driverState,               \* c.driverState
  provider, lastRuntime,     \* c.provider*; c.lastRuntime: its Provider, has it a Driver
  pendingSnapshot,           \* c.pendingSnapshot
  stopReason,                \* c.stopReason: the RequestStop call whose reason it is
  pendingCalls,              \* c.pendingCalls: "empty", "open" or all "closed"
  configured,                \* the snapshot the provider manager publishes
  runtime,                   \* runtime[a]: Runtime.Provider of the call a
  target,                    \* what a stopper, a rotator or an applier read from the gate
  round, report,             \* of a running request: iteration, why it ends
  cancelledBy,               \* of a running request: who cancelled its context
  taken                      \* history of a running request: the snapshot queued for it

gate  == <<active, epoch, attached>>
text  == <<turns, closed, pendingCalls>>
model == <<driverState, provider, lastRuntime>>
ask   == <<pendingSnapshot, stopReason, configured, target>>
run   == <<runtime, round, report, cancelledBy, taken>>
vars  == <<gate, pc, text, model, ask, run>>

Running  == {"claimed", "attached", "prepared", "round", "refresh", "calling",
             "tool_use", "ended", "batch", "finish", "leaving"}
Claiming == {"rotating", "planning", "summary", "release"}
Stage    == Running \cup Claiming \cup {"idle", "done", "waiting", "overrun", "look", "tell", "cancel"}
Snapshot == Applier \cup {Nobody}
Outcome  == {"none", "other", "cancelled", "aborted", "policy"}
Kind     == {"user", "answer", "calls", "results", "partial", "unrun"}
Turn     == [by : Request \cup Isolated, kind : Kind]
NoState  == [by |-> Nobody, at |-> 0]   \* at = 0: there is no remote state

Go(a, stage) == pc' = [pc EXCEPT ![a] = stage]
At(a, stage) == pc[a] = stage

Forget(local, a, nothing) == IF a \in DOMAIN local THEN [local EXCEPT ![a] = nothing] ELSE local

-----------------------------------------------------------------------------
(* runGate *)

Claim == ~active /\ active' = TRUE /\ epoch' = epoch + 1 /\ attached' = Nobody

FreeGate == active' = FALSE /\ attached' = Nobody /\ UNCHANGED epoch

\* The done channel of a claim is closed when that claim has been released.
DoneClosed(e) == ~(active /\ epoch = e)

\* The deferred release; the locals of the call are gone.
Release(a) ==
  /\ pc[a] \in {"leaving", "release"} /\ Go(a, "done")
  /\ FreeGate
  /\ runtime' = Forget(runtime, a, Nobody) /\ round' = Forget(round, a, 0)
  /\ report' = Forget(report, a, "none") /\ cancelledBy' = Forget(cancelledBy, a, {})
  /\ taken' = Forget(taken, a, Nobody)
  /\ UNCHANGED <<text, model, ask>>

-----------------------------------------------------------------------------
(* Helpers that run under c.mu *)

\* applyRuntime: another provider than the recorded one drops the remote state.
ApplyRuntime(snapshot) ==
  /\ provider' = snapshot
  /\ driverState' = IF provider = snapshot THEN driverState ELSE NoState

\* applyProviderSnapshotLocked changes one field of c.lastRuntime; a call that uses
\* the model replaces it.
ApplySnapshot(snapshot) ==
  ApplyRuntime(snapshot) /\ lastRuntime' = [lastRuntime EXCEPT !.provider = snapshot]
Used(snapshot) == [provider |-> snapshot, driver |-> TRUE]

Write(a, kinds) == turns' = turns \o [i \in 1..Len(kinds) |-> [by |-> a, kind |-> kinds[i]]]

\* Mutant: the exit path forgets to close the calls.
CloseNothing(r) == UNCHANGED <<turns, pendingCalls, driverState>>

CloseToolCalls(r) ==
  IF pendingCalls = "open"
  THEN /\ Write(r, <<"unrun">>) /\ pendingCalls' = "closed" /\ driverState' = NoState
  ELSE UNCHANGED <<turns, pendingCalls, driverState>>

-----------------------------------------------------------------------------
(* Run *)

Cancelled(r) == cancelledBy[r] # {}

Begin(r) ==
  /\ At(r, "idle") /\ UNCHANGED <<text, model, ask, round, report, cancelledBy, taken>>
  /\ \/ active /\ Go(r, "done") /\ UNCHANGED <<gate, runtime>>       \* ErrConversationBusy
     \/ Claim /\ Go(r, "claimed") /\ runtime' = [runtime EXCEPT ![r] = configured]

Attach(r) ==
  /\ At(r, "claimed") /\ Go(r, "attached")
  /\ attached' = r /\ UNCHANGED <<active, epoch, text, model, ask, run>>

\* prepareRuntime and appendUser; a request that cannot be prepared just returns.
Prepare(r) ==
  /\ At(r, "attached") /\ UNCHANGED <<gate, closed, pendingCalls, lastRuntime, ask, run>>
  /\ \/ Go(r, "leaving") /\ UNCHANGED <<turns, driverState, provider>>
     \/ Go(r, "prepared") /\ ApplyRuntime(runtime[r]) /\ Write(r, <<"user">>)

\* OnUserCommitted, refreshMCPRuntime, resolveWebRuntime, authorizeHostedWeb: a
\* failure here returns before there is a finalizer.
Enter(r) ==
  /\ At(r, "prepared") /\ UNCHANGED <<gate, text, lastRuntime, ask, run>>
  /\ \/ Go(r, "leaving") /\ UNCHANGED <<driverState, provider>>
     \/ Go(r, "round") /\ ApplyRuntime(runtime[r])

\* The request ends with this reason; finish reports it.
Stop(r, outcome) == Go(r, "finish") /\ report' = [report EXCEPT ![r] = outcome]

MoreRounds(r) == round[r] < MaxRounds

\* The head of an iteration: the limit, ctx.Err, takePendingSnapshot.
StartRound(r) ==
  /\ At(r, "round")
  /\ UNCHANGED <<gate, text, stopReason, configured, target, runtime, cancelledBy>>
  /\ \/ /\ ~MoreRounds(r) /\ Stop(r, "other")
        /\ UNCHANGED <<model, pendingSnapshot, round, taken>>
     \/ /\ MoreRounds(r) /\ Cancelled(r) /\ Stop(r, "cancelled")
        /\ round' = [round EXCEPT ![r] = @ + 1] /\ UNCHANGED <<model, pendingSnapshot, taken>>
     \/ /\ MoreRounds(r) /\ ~Cancelled(r) /\ Go(r, "refresh")
        /\ round' = [round EXCEPT ![r] = @ + 1]
        /\ taken' = [taken EXCEPT ![r] = pendingSnapshot] /\ pendingSnapshot' = Nobody
        /\ IF pendingSnapshot = Nobody THEN UNCHANGED model ELSE ApplySnapshot(pendingSnapshot)
        /\ UNCHANGED report

\* refreshMCPRuntime, resolveWebRuntime, authorizeHostedWeb. (The user turn a
\* BeforeModel hook may add is left out: it is one more turn like the prompt.)
Refresh(r) ==
  /\ At(r, "refresh")
  /\ UNCHANGED <<gate, text, lastRuntime, ask, runtime, round, cancelledBy, taken>>
  /\ \/ Stop(r, "aborted") /\ UNCHANGED <<driverState, provider>>
     \/ Go(r, "calling") /\ ApplyRuntime(runtime[r]) /\ UNCHANGED report

\* generate, normalizeModelResponse, commitResponse, trackCommittedCalls.
Answer(r) ==
  /\ At(r, "calling")
  /\ UNCHANGED <<gate, closed, provider, ask, runtime, round, cancelledBy, taken>>
  /\ \/ /\ \E outcome \in {"aborted", "other"} : Stop(r, outcome)      \* "other": the budget
        /\ lastRuntime' \in {lastRuntime, Used(runtime[r])}
        /\ driverState' \in {driverState, NoState}                     \* a malformed response
        /\ UNCHANGED <<turns, pendingCalls>>
     \/ \E kind \in {"answer", "calls"}, stage \in {"tool_use", "ended"} :
        /\ stage = "tool_use" => kind = "calls"                         \* normalizeModelResponse
        /\ Write(r, <<kind>>)
        /\ driverState' \in {NoState, [by |-> runtime[r], at |-> Len(turns) + 1]}
        /\ lastRuntime' = Used(runtime[r])
        /\ pendingCalls' = IF kind = "calls" THEN "open" ELSE pendingCalls
        /\ Go(r, stage) /\ UNCHANGED report

\* Everything after the commit that ends the request without running the calls:
\* OnTurnCommitted, hosted web, the budget, the stop kind, a failing refresh.
\* Without calls there is no closePending to make.
Settle(r) ==
  /\ pc[r] \in {"tool_use", "ended"}
  /\ UNCHANGED <<gate, closed, provider, lastRuntime, ask, runtime, round, cancelledBy, taken>>
  /\ \E outcome \in {"other", "aborted"} : Stop(r, outcome)
  /\ CloseToolCalls(r)

\* The refresh before the batch.
RefreshForBatch(r) ==
  /\ At(r, "tool_use") /\ Go(r, "batch")
  /\ ApplyRuntime(runtime[r]) /\ UNCHANGED <<gate, text, lastRuntime, ask, run>>

\* ExecuteBatchOutcome, the commit of the tool turn, OnTurnCommitted and the
\* control the executor reports. A request cancelled before the batch ends runs
\* its calls no further.
Batch(r) ==
  /\ At(r, "batch")
  /\ UNCHANGED <<gate, closed, provider, lastRuntime, ask, runtime, round, cancelledBy, taken>>
  /\ pendingCalls' = "closed"
  /\ \/ /\ ~Cancelled(r)
        /\ Write(r, <<"results">>) /\ UNCHANGED driverState
        /\ \/ Go(r, "round") /\ UNCHANGED report
           \/ Stop(r, "other")                                         \* OnTurnCommitted fails
     \/ /\ Write(r, <<"partial">>) /\ driverState' = NoState
        /\ \E outcome \in IF Cancelled(r) THEN {"cancelled", "aborted", "other"}
                          ELSE {"aborted", "other"} :
             Stop(r, outcome)

PolicyEnds == {"cancelled", "aborted"}

\* runFinalizer.finish: takePolicyStop, publish, forgetPendingCalls.
Finish(r) ==
  /\ At(r, "finish") /\ Go(r, "leaving")
  /\ report' = [report EXCEPT ![r] =
                 IF stopReason # Nobody /\ @ \in PolicyEnds THEN "policy" ELSE @]
  /\ stopReason' = Nobody /\ pendingCalls' = "empty"
  /\ UNCHANGED <<gate, turns, closed, model, pendingSnapshot, configured, target,
                 runtime, round, cancelledBy, taken>>

-----------------------------------------------------------------------------
(* Cancelling and stopping *)

\* A context that has been left behind cannot be cancelled any more.
CancelContext(r, who) ==
  cancelledBy' = IF r \in Request /\ pc[r] \in Running \ {"leaving"}
                 THEN [cancelledBy EXCEPT ![r] = @ \cup {who}] ELSE cancelledBy

\* The caller's own context: Esc, a signal, a deadline; also CancelRun.
UserCancels(r) ==
  /\ pc[r] \in Running \ {"leaving"} /\ User \notin cancelledBy[r]
  /\ CancelContext(r, User)
  /\ UNCHANGED <<gate, pc, text, model, ask, runtime, round, report, taken>>

\* RequestStop reads the gate, records its reason under c.mu, then cancels.
StopLook(s) ==
  /\ At(s, "idle")
  /\ target' = [target EXCEPT ![s] = attached]
  /\ Go(s, IF active /\ attached # Nobody THEN "tell" ELSE "done")
  /\ UNCHANGED <<gate, text, model, pendingSnapshot, stopReason, configured, run>>

StopTell(s) ==
  /\ At(s, "tell") /\ Go(s, "cancel") /\ stopReason' = s
  /\ UNCHANGED <<gate, text, model, pendingSnapshot, configured, target, run>>

StopCancel(s) ==
  /\ At(s, "cancel") /\ Go(s, "done") /\ CancelContext(target[s], s)
  /\ UNCHANGED <<gate, text, model, ask, runtime, round, report, taken>>

-----------------------------------------------------------------------------
(* Provider changes: the manager publishes the snapshot, then the conversation *)
(* learns of it. ApplyProviderSnapshot asks the gate first and locks c.mu next. *)

SnapshotLook(p) ==
  /\ At(p, "idle") /\ Go(p, "look")
  /\ configured' = p
  /\ target' = [target EXCEPT ![p] = IF active THEN p ELSE Nobody]
  /\ UNCHANGED <<gate, text, model, pendingSnapshot, stopReason, run>>

SnapshotApply(p) ==
  /\ At(p, "look") /\ Go(p, "done")
  /\ IF target[p] = p THEN pendingSnapshot' = p /\ UNCHANGED model
                      ELSE ApplySnapshot(p) /\ UNCHANGED pendingSnapshot
  /\ target' = [target EXCEPT ![p] = Nobody]
  /\ UNCHANGED <<gate, text, stopReason, configured, run>>

\* ApplyMCPRuntime re-applies the last runtime under c.mu; one without a driver is
\* refused by applyRuntime.
CatalogChanged(m) ==
  /\ At(m, "idle") /\ Go(m, "done")
  /\ IF lastRuntime.driver THEN ApplyRuntime(lastRuntime.provider)
                            ELSE UNCHANGED <<driverState, provider>>
  /\ UNCHANGED <<gate, text, lastRuntime, ask, run>>

-----------------------------------------------------------------------------
(* NewSessionWithEnvironment *)

\* Mutant: rotation waits for the request to end and then just goes on.
AcquireUnclaimed(n) ==
  \/ ~active /\ Go(n, "rotating") /\ UNCHANGED <<gate, target>>
  \/ active /\ Go(n, "waiting") /\ target' = [target EXCEPT ![n] = epoch] /\ UNCHANGED gate

Acquire(n) ==
  \/ Claim /\ Go(n, "rotating") /\ target' = [target EXCEPT ![n] = Nobody]
  \/ active /\ Go(n, "waiting") /\ target' = [target EXCEPT ![n] = epoch] /\ UNCHANGED gate

TryAcquire(n) ==
  /\ \/ At(n, "idle")
     \/ pc[n] \in {"waiting", "overrun"} /\ DoneClosed(target[n])
  /\ Acquire(n)
  /\ UNCHANGED <<text, model, pendingSnapshot, stopReason, configured, run>>

\* Mutant: the grace period ends and nobody is cancelled.
OverrunIgnored(n) == UNCHANGED cancelledBy

Overrun(n) == CancelContext(attached, n)

\* The select takes the timer although done may be closed as well: cancel is read
\* from the gate again. A claim that is still between begin and attach has not
\* lasted ownershipGrace.
GraceEnds(n) ==
  /\ At(n, "waiting") /\ Go(n, "overrun")
  /\ ~\E r \in Request : At(r, "claimed") /\ epoch = target[n]
  /\ Overrun(n)
  /\ UNCHANGED <<gate, text, model, ask, runtime, round, report, taken>>

Rotate(n) ==
  /\ At(n, "rotating") /\ Go(n, "release")
  /\ closed' = Append(closed, turns) /\ turns' = <<>>
  /\ driverState' = NoState /\ provider' = Nobody
  /\ UNCHANGED <<gate, pendingCalls, lastRuntime, ask, run>>

-----------------------------------------------------------------------------
(* Compact, and the runs of an isolated profile *)

CompactBegin(c) ==
  /\ At(c, "idle") /\ UNCHANGED <<text, model, ask, round, report, cancelledBy, taken>>
  /\ \/ active /\ Go(c, "done") /\ UNCHANGED <<gate, runtime>>
     \/ Claim /\ Go(c, "planning") /\ runtime' = [runtime EXCEPT ![c] = configured]

\* applyRuntime and the plan; there may be nothing to compact, or no runtime.
CompactPlan(c) ==
  /\ At(c, "planning")
  /\ \/ Go(c, "release") /\ UNCHANGED model
     \/ \E next \in {"summary", "release"} : Go(c, next) /\ ApplyRuntime(runtime[c])
                                           /\ lastRuntime' = Used(runtime[c])
  /\ UNCHANGED <<gate, text, ask, run>>

\* The summary call, then commitCompactionLocked: what it was computed from may be
\* superseded, or it does not shrink the prompt, and nothing is committed.
CompactCommit(c) ==
  /\ At(c, "summary") /\ Go(c, "release")
  /\ \/ driverState' \in {driverState, NoState} /\ lastRuntime' = Used(runtime[c])
     \/ UNCHANGED <<driverState, lastRuntime>>
  /\ UNCHANGED <<gate, text, provider, ask, run>>

\* Fork copies the state; the fork is another Conversation and runs on its own.
Fork(i) ==
  /\ At(i, "idle") /\ Go(i, "look") /\ runtime' = [runtime EXCEPT ![i] = configured]
  /\ UNCHANGED <<gate, text, model, ask, round, report, cancelledBy, taken>>

\* Adopt writes under c.mu, without the gate; the fork may also have failed.
Adopt(i) ==
  /\ At(i, "look") /\ Go(i, "done")
  /\ UNCHANGED <<gate, closed, pendingCalls, ask, run>>
  /\ \/ UNCHANGED <<turns, model>>
     \/ /\ \E kinds \in {<<"user", "answer">>, <<"user", "calls", "unrun">>} : Write(i, kinds)
        /\ provider' = runtime[i] /\ lastRuntime' = Used(runtime[i]) /\ driverState' = NoState

-----------------------------------------------------------------------------
Init ==
  /\ active = FALSE /\ epoch = 0 /\ attached = Nobody
  /\ pc = [a \in Actor |-> "idle"]
  /\ turns = <<>> /\ closed = <<>> /\ pendingCalls = "empty"
  /\ driverState = NoState /\ provider = Nobody
  /\ lastRuntime = [provider |-> Nobody, driver |-> FALSE]
  /\ pendingSnapshot = Nobody /\ stopReason = Nobody /\ configured = Nobody
  /\ target = [a \in Stopper \cup Rotator \cup Applier |-> Nobody]
  /\ runtime = [a \in Request \cup Compactor \cup Isolated |-> Nobody]
  /\ round = [r \in Request |-> 0]
  /\ report = [r \in Request |-> "none"]
  /\ cancelledBy = [r \in Request |-> {}] /\ taken = [r \in Request |-> Nobody]

RunStep(r) ==
  \/ Begin(r) \/ Attach(r) \/ Prepare(r) \/ Enter(r) \/ StartRound(r) \/ Refresh(r)
  \/ Answer(r) \/ Settle(r) \/ RefreshForBatch(r) \/ Batch(r) \/ Finish(r)
RotateStep(n)  == TryAcquire(n) \/ GraceEnds(n) \/ Rotate(n)
CompactStep(c) == CompactBegin(c) \/ CompactPlan(c) \/ CompactCommit(c)

Finished == (\A a \in Actor : pc[a] = "done") /\ UNCHANGED vars

Next ==
  \/ \E r \in Request : RunStep(r) \/ UserCancels(r)
  \/ \E n \in Rotator : RotateStep(n)
  \/ \E c \in Compactor : CompactStep(c)
  \/ \E a \in Request \cup Rotator \cup Compactor : Release(a)
  \/ \E s \in Stopper : StopLook(s) \/ StopTell(s) \/ StopCancel(s)
  \/ \E p \in Applier : SnapshotLook(p) \/ SnapshotApply(p)
  \/ \E m \in Catalog : CatalogChanged(m)
  \/ \E i \in Isolated : Fork(i) \/ Adopt(i)
  \/ Finished

Spec == Init /\ [][Next]_vars

\* A claimed conversation moves on: the driver and the tools of a request outside
\* Unresponsive answer, those of any request do once its context is cancelled, and
\* so do a summary call and the timer. Nobody has to call the conversation.
FairSpec ==
  /\ Spec
  /\ \A r \in Request :
       /\ WF_vars(Attach(r)) /\ WF_vars(Prepare(r)) /\ WF_vars(Enter(r))
       /\ WF_vars(StartRound(r)) /\ WF_vars(Refresh(r)) /\ WF_vars(Settle(r) \/ RefreshForBatch(r))
       /\ WF_vars(Finish(r)) /\ WF_vars(Release(r))
       /\ WF_vars((Answer(r) \/ Batch(r)) /\ (Cancelled(r) \/ r \notin Unresponsive))
  /\ \A n \in Rotator : WF_vars(At(n, "waiting") /\ GraceEnds(n)) /\ WF_vars(Rotate(n)) /\ WF_vars(Release(n))
                        /\ WF_vars(~At(n, "idle") /\ TryAcquire(n))
  /\ \A c \in Compactor : WF_vars(CompactPlan(c)) /\ WF_vars(CompactCommit(c)) /\ WF_vars(Release(c))

-----------------------------------------------------------------------------
(* Properties *)

TypeOK ==
  /\ active \in BOOLEAN /\ epoch \in Nat /\ attached \in Request \cup {Nobody}
  /\ pc \in [Actor -> Stage]
  /\ turns \in Seq(Turn) /\ closed \in Seq(Seq(Turn))
  /\ pendingCalls \in {"empty", "open", "closed"}
  /\ driverState \in [by : Snapshot, at : Nat]
  /\ {provider, pendingSnapshot, configured} \subseteq Snapshot
  /\ lastRuntime \in [provider : Snapshot, driver : BOOLEAN]
  /\ stopReason \in Stopper \cup {Nobody}
  /\ target \in [Stopper \cup Rotator \cup Applier -> Request \cup Applier \cup {Nobody} \cup Nat]
  /\ runtime \in [Request \cup Compactor \cup Isolated -> Snapshot]
  /\ round \in [Request -> 0..MaxRounds]
  /\ report \in [Request -> Outcome]
  /\ cancelledBy \in [Request -> SUBSET (Stopper \cup Rotator \cup {User})]
  /\ taken \in [Request -> Snapshot]

\* Whoever is between begin or acquire and release.
Writers == {a \in Request \cup Rotator \cup Compactor : pc[a] \in Running \cup Claiming}

\* A conversation has one writer (lock.go, "A conversation has exactly one
\* writer"): a request, a rotation or a compaction, and the gate says so; a
\* registered cancel function belongs to that request.
OneWriter ==
  /\ \A a, b \in Writers : a = b
  /\ active = (Writers # {})
  /\ attached # Nobody => attached \in Writers

Transcripts == Append(closed, turns)

\* The turns of one request are never split over two sessions, and no other
\* request writes between them (NewSessionWithEnvironment: a new request must not
\* append its prompt to the session that is about to be replaced).
RequestKeepsItsSession ==
  \A s, t \in DOMAIN Transcripts : \A i \in DOMAIN Transcripts[s], j \in DOMAIN Transcripts[t] :
    Transcripts[s][i].by = Transcripts[t][j].by /\ Transcripts[s][i].by \in Request =>
      /\ s = t
      /\ \A k \in i..j : Transcripts[s][k].by \in {Transcripts[s][i].by} \cup Isolated

\* In every transcript the calls of a response are answered before their author
\* writes anything else, on every exit path of Run (runFinalizer: no committed call
\* can be left dangling); only the running request may have calls not yet answered,
\* and those are the open calls of the pending set.
CallsAreClosed ==
  LET Later(T, i) == {j \in i + 1..Len(T) : T[j].by = T[i].by}
      Answered(T, i) == \E j \in Later(T, i) :
        /\ T[j].kind \in {"results", "partial", "unrun"}
        /\ \A k \in Later(T, i) : j <= k
  IN \A s \in DOMAIN Transcripts : \A i \in DOMAIN Transcripts[s] :
       Transcripts[s][i].kind = "calls" /\ ~Answered(Transcripts[s], i) =>
         /\ s = Len(Transcripts) /\ Later(turns, i) = {}
         /\ pc[turns[i].by] \in {"tool_use", "ended", "batch"} /\ pendingCalls = "open"

\* A remote driver state answers a turn of the current transcript, and every call
\* made since has run to its end: a state whose calls did not all complete, or that
\* does not know an adopted turn, is never sent again.
RemoteStateIsCurrent ==
  driverState # NoState =>
    /\ driverState.at \in DOMAIN turns
    /\ turns[driverState.at].kind \in {"answer", "calls"}
    /\ \A i \in driverState.at + 1..Len(turns) :
         turns[i].kind \in {"user", "results"} /\ turns[i].by \in Request

\* A request that RequestStop cancelled before it finished never ends as a bare
\* cancellation or failure: it says that a safety setting was narrowed.
StopIsExplained ==
  \A r \in Request : At(r, "leaving") /\ report[r] \in {"cancelled", "aborted"} =>
    cancelledBy[r] \cap Stopper = {}

\* However a request ends, it leaves the conversation in order: its calls closed, the
\* remote state usable or gone, its turns together, and a stop explained.
RequestsEndInOrder ==
  CallsAreClosed /\ RemoteStateIsCurrent /\ RequestKeepsItsSession /\ StopIsExplained

\* A rotation that waits gets the conversation, although the request it waits for
\* may never end by itself (lock.go: a whole-conversation operation can never wait
\* forever on a model or a tool that will not return).
RotationEnds == \A n \in Rotator : At(n, "waiting") ~> At(n, "done")
=============================================================================
