------------------------------- MODULE HostLink -------------------------------
(***************************************************************************)
(* The stdio host of internal/host: an engine process runs one conversation *)
(* for a host, which owns the model, the tools and the ledger the engine's  *)
(* checkpoints are committed to.  The host is the reference host of         *)
(* internal/hostmock, with its executors and its model doing anything.      *)
(*                                                                         *)
(* A conversation object is made by create and by every restore; the table  *)
(* of the server names one of them.  A pipe loses nothing while both ends   *)
(* live, but each request is handled on a goroutine of its own, so messages *)
(* are sets.  A commit is retransmitted once after a timeout.  A kill of    *)
(* the engine drops everything that was in a pipe.                          *)
(*                                                                         *)
(* Left out: deltas and progress, compaction, event numbers (a checkpoint's *)
(* revision stands for both counters of its compare-and-swap), the digests  *)
(* that tell two requests of one identity apart, and limits of bytes.       *)
(***************************************************************************)
EXTENDS Integers, FiniteSets, FiniteSetsExt

CONSTANTS
  LastRun,       \* run.start requests the host makes
  LastCall,      \* tool calls its model asks for
  MaxModelCalls, \* the limit of each run
  LastObject,    \* conversation objects: one create and the restores
  MaxCrash,      \* kills of the engine
  ModelResult,   \* how its model calls may end
  ToolResult,    \* and its tool calls
  RestoreOverStart \* the host restores while a run.start of its own is unanswered

ASSUME HostAssumption ==
  /\ {LastRun, LastCall, MaxModelCalls, LastObject, MaxCrash} \subseteq Nat
  /\ ModelResult \subseteq {"tools", "text", "length", "unpriced", "invalid"}
  /\ ToolResult \subseteq {"applied", "none", "unknown", "invalid"}
  /\ RestoreOverStart \in BOOLEAN

VARIABLES
  ledger,    \* the host's last committed checkpoint
  applied,   \* the checkpoint IDs it has applied
  ops,       \* its call ledger: what it knows of each request it received
  wire,      \* engine requests the host has not handled
  answers,   \* host replies the engine has not read
  conv,      \* the conversation objects of the engine process
  current,   \* the object the server's table names, 0 for none
  arrived,   \* run.start handlers that have looked their conversation up
  closing,   \* shutdown was requested
  counter,   \* [object, model, call, crash]: identities handed out so far
  stopped    \* history: recorded runs whose interrupt the engine acknowledged

vars == <<ledger, applied, ops, wire, answers, conv, current, arrived, closing, counter, stopped>>

Run == 1..LastRun
Call == 1..LastCall
Object == 1..LastObject
Tool(c) == [kind |-> "tool", n |-> c]
Model(n) == [kind |-> "model", n |-> n]

\* What a checkpoint holds: of Run its status, reason and outcome, of the
\* messages the calls and who answered them, of PendingCalls what is recorded.
NoState == [rev |-> 0, active |-> 0, status |-> "running", why |-> "", runs |-> {}, last |-> 0,
            outcome |-> "none", asked |-> 0, calls |-> {}, results |-> {}, pending |-> {}]

Answered(s) == {r.call : r \in s.results}
Prepared(s) == {p.id.n : p \in {q \in s.pending : q.id.kind = "tool"}}
OpenCalls(s) == s.calls \ Answered(s)

\* The calls of a model's answer, which may be cut inside one: then none is kept.
UsableCalls(a) == IF a.as = "length" THEN {} ELSE a.calls

\* The calls that provably never reached the host get a result that says so.
CloseCalls(s, calls, msg) == [s EXCEPT !.results = @ \cup {[call |-> c, as |-> "closed", msg |-> msg] : c \in calls}]

Unsettled(s, id, got) == [s EXCEPT !.pending = {IF p.id = id THEN [p EXCEPT !.got = got] ELSE p : p \in @}]
AddPending(s, id) == [s EXCEPT !.pending = @ \cup {[id |-> id, run |-> s.active, got |-> "nothing"]}]
RemovePending(s, id) == [s EXCEPT !.pending = {p \in @ : p.id # id}]
-----------------------------------------------------------------------------
(* The conversation object. *)

NewConversation(s) ==
  [live |-> s, saved |-> s, rev |-> s.rev, dirty |-> FALSE, touched |-> FALSE, failed |-> FALSE,
   pc |-> "idle", then |-> "idle", sent |-> NoState, attempt |-> 0, wait |-> Tool(0), cancelled |-> FALSE]

Changed(c, s) == [c EXCEPT !.live = s, !.dirty = TRUE, !.touched = TRUE]

\* failRun keeps a reason that is already there; stop overwrites the reason of a
\* run that is not stopping yet, and cancels its context.
FailRun(c) == IF c.live.active # 0 /\ c.live.why = "" THEN Changed(c, [c.live EXCEPT !.why = "failed"]) ELSE c
StopRun(c) ==
  IF c.live.active = 0 THEN c
  ELSE [IF c.live.status = "stopping" THEN c
        ELSE Changed(c, [c.live EXCEPT !.status = "stopping", !.why = "stopped"])
        EXCEPT !.cancelled = TRUE]

Goto(c, pc) == [c EXCEPT !.pc = pc]

\* commit up to its first call: a failed conversation refuses, and whatever the
\* caller was doing then ends.
BeginCommit(o, c, then) ==
  LET s == [c.live EXCEPT !.rev = c.rev + 1]
  IN IF c.failed
     THEN /\ conv' = [conv EXCEPT ![o] = Goto(c, "idle")]
          /\ wire' = wire
     ELSE /\ conv' = [conv EXCEPT ![o] = [c EXCEPT !.pc = "committing", !.then = then, !.sent = s,
                                                   !.attempt = 1, !.touched = FALSE]]
          /\ wire' = wire \cup {[type |-> "commit", obj |-> o, state |-> s]}

\* The timeout of the first attempt retransmits the same checkpoint, that of the
\* second one fails the conversation like a refusal does.
CommitFailed(c) ==
  LET revived == IF c.live.active = 0 /\ c.saved.active # 0
                 THEN [c.live EXCEPT !.active = c.saved.active, !.last = c.saved.last,
                                     !.outcome = c.saved.outcome, !.why = c.saved.why]
                 ELSE c.live
      stopping == IF revived.active = 0 THEN revived ELSE [revived EXCEPT !.status = "stopping"]
  IN [c EXCEPT !.failed = TRUE, !.dirty = TRUE, !.live = stopping, !.cancelled = TRUE, !.pc = "idle",
              !.sent = NoState, !.attempt = 0]

\* Mutant of CommitSucceeded: a change made meanwhile is forgotten.
CommitSucceededClean(c) ==
  [c EXCEPT !.rev = c.sent.rev, !.live.rev = c.sent.rev, !.saved = c.sent, !.dirty = FALSE, !.pc = c.then,
            !.sent = NoState, !.attempt = 0]

CommitSucceeded(c) ==
  [c EXCEPT !.rev = c.sent.rev, !.live.rev = c.sent.rev, !.saved = c.sent, !.dirty = c.touched, !.pc = c.then,
            !.sent = NoState, !.attempt = 0]

\* Mutant: a commit is sent again however often it was lost.
MayRetransmitAlways(c) == TRUE
MayRetransmit(c) == c.attempt = 1

CommitTimesOut(o) ==
  LET c == conv[o] IN
  /\ c.pc = "committing"
  /\ IF MayRetransmit(c)
     THEN /\ conv' = [conv EXCEPT ![o].attempt = 2]
          /\ wire' = wire \cup {[type |-> "commit", obj |-> o, state |-> c.sent]}
     ELSE conv' = [conv EXCEPT ![o] = CommitFailed(c)] /\ wire' = wire
  /\ answers' = {a \in answers : ~(a.type = "commit" /\ a.obj = o)}
  /\ UNCHANGED <<ledger, applied, ops, current, arrived, closing, counter, stopped>>

CommitAnswered(o) ==
  LET c == conv[o] IN
  /\ c.pc = "committing"
  /\ \E a \in answers :
       /\ a.type = "commit" /\ a.obj = o
       /\ conv' = [conv EXCEPT ![o] = IF a.ok THEN CommitSucceeded(c) ELSE CommitFailed(c)]
       /\ answers' = answers \ {a}
  /\ UNCHANGED <<ledger, applied, ops, wire, current, arrived, closing, counter, stopped>>
-----------------------------------------------------------------------------
(* Requests of the host. *)

\* conversation.create.  The ID of one that failed stays taken until a restore.
Create ==
  /\ current = 0 /\ ledger.rev = 0 /\ ~closing /\ counter.object < LastObject
  /\ LET o == counter.object + 1 IN
       /\ BeginCommit(o, NewConversation(NoState), "idle")
       /\ current' = o
       /\ counter' = [counter EXCEPT !.object = o]
  /\ UNCHANGED <<ledger, applied, ops, answers, arrived, closing, stopped>>

\* run.start up to the lookup of its conversation, and from there on under the
\* locks of the server and of that conversation.
StartArrives(r) ==
  /\ current # 0 /\ ledger.active = 0
  /\ \A a \in arrived : a.run # r
  /\ r = 1 \/ r - 1 \in ledger.runs
  /\ arrived' = arrived \cup {[run |-> r, obj |-> current, rev |-> ledger.rev]}
  /\ UNCHANGED <<ledger, applied, ops, wire, answers, conv, current, closing, counter, stopped>>

Admits(c, a) ==
  /\ ~closing
  /\ a.run \notin c.live.runs
  /\ ~c.failed
  /\ a.rev = c.rev
  /\ c.live.active = 0 /\ c.live.pending = {}
  /\ c.pc = "idle"

Accept(c, r) ==
  Changed([c EXCEPT !.pc = "input", !.cancelled = FALSE],
          [c.live EXCEPT !.active = r, !.status = "running", !.why = "", !.asked = 0, !.runs = @ \cup {r}])

Start(a) ==
  /\ a \in arrived
  /\ arrived' = arrived \ {a}
  /\ conv' = IF Admits(conv[a.obj], a) THEN [conv EXCEPT ![a.obj] = Accept(@, a.run)] ELSE conv
  /\ UNCHANGED <<ledger, applied, ops, wire, answers, current, closing, counter, stopped>>

\* run.interrupt: an acknowledgement freezes dispatch.
Interrupt(r) ==
  /\ current # 0 /\ conv[current].live.active = r /\ r \notin stopped
  /\ conv' = [conv EXCEPT ![current] = StopRun(@)]
  /\ stopped' = stopped \cup {r}
  /\ UNCHANGED <<ledger, applied, ops, wire, answers, current, arrived, closing, counter>>

\* What the host can say of a pending call when it restores: a request it never
\* received and that is in no pipe was not dispatched.
Evidence(p) ==
  IF p.id \in DOMAIN ops
  THEN IF ops[p.id].stage = "settled" THEN "settled" ELSE "unknown"
  ELSE IF \E m \in wire : m.type = "call" /\ m.id = p.id THEN "unknown" ELSE "not_dispatched"

\* A recorded result contradicts the claim that the call was never dispatched.
Refused(s) == \E p \in s.pending : Evidence(p) = "not_dispatched" /\ p.got # "nothing"

\* Mutant: a second result of a call is kept beside the first.
PutAppends(results, new) == results \cup new
Put(results, new) == {r \in results : \A n \in new : ~(r.call = n.call /\ r.msg = n.msg)} \cup new

\* What is still open of a pending call: an outcome nobody knows, or a model call
\* whose tokens nobody counted.
Remains(p) ==
  LET e == Evidence(p)
  IN CASE e = "unknown" -> {p}
       [] e = "not_dispatched" -> {}
       [] e = "settled" -> CASE p.id.kind = "tool" /\ ops[p.id].as = "unknown" -> {[p EXCEPT !.got = "unknown"]}
                             [] p.id.kind = "model" /\ ops[p.id].as = "unpriced" -> {[p EXCEPT !.got = "cost"]}
                             [] OTHER -> {}

\* The pending calls and the evidence.  The result of a tool replaces the message
\* it may have; an answer of the model brings calls that were never dispatched.
Reconcile(s) ==
  LET settled(kind) == {p \in s.pending : p.id.kind = kind /\ Evidence(p) = "settled"}
  IN [s EXCEPT !.results = Put(@, {[call |-> p.id.n, as |-> ops[p.id].as, msg |-> "tool"] : p \in settled("tool")}),
               !.calls = @ \cup UNION {UsableCalls(ops[p.id]) : p \in settled("model")},
               !.pending = UNION {Remains(p) : p \in @}]

\* validateState: a pending call belongs to the run the state is about, a prepared
\* tool was asked for, no call is answered twice.
Restorable(s) ==
  LET owner == IF s.active # 0 THEN s.active ELSE s.last IN
  /\ {s.active, s.last} \subseteq s.runs \cup {0}
  /\ \A p \in s.pending : p.run = owner /\ (p.id.kind = "tool" => p.id.n \in s.calls)
  /\ Answered(s) \subseteq s.calls
  /\ \A r, t \in s.results : r.call = t.call => r = t

\* The run that has to be reconciled: an active one, or the last one when it left
\* calls behind.
Reopened(s) ==
  LET owner == IF s.active = 0 /\ s.pending # {}
               THEN [s EXCEPT !.active = s.last, !.last = 0] ELSE s
  IN IF owner.active = 0 THEN owner ELSE [owner EXCEPT !.status = "stopping", !.why = "stopped"]

StillUnknown(s) == s.pending # {}

Restored(s) ==
  LET known == Reconcile(Reopened(s))
  IN IF StillUnknown(known) THEN known
     ELSE [CloseCalls(known, OpenCalls(known), "closed")
           EXCEPT !.active = 0, !.status = "running", !.last = known.active, !.outcome = "interrupted"]

\* conversation.restore from the host's last checkpoint: after a restart, or over
\* a conversation of this process that is at rest.
Restore ==
  /\ ~closing /\ ledger.rev > 0 /\ counter.object < LastObject
  /\ RestoreOverStart \/ arrived = {}
  /\ current # 0 => LET old == conv[current] IN
       /\ old.pc = "idle"
       /\ ledger.rev > old.rev \/ (ledger.rev = old.rev /\ ledger = old.saved)
       /\ old.rev = 0 => old.failed
  /\ Restorable(ledger) /\ ~Refused(ledger)
  /\ LET o == counter.object + 1
         c == NewConversation(ledger)
     IN /\ IF Reopened(ledger).active = 0
           THEN conv' = [conv EXCEPT ![o] = c] /\ wire' = wire
           ELSE BeginCommit(o, Changed(c, Restored(ledger)), "idle")
        /\ current' = o
        /\ counter' = [counter EXCEPT !.object = o]
        /\ stopped' = stopped \cap ledger.runs
  /\ UNCHANGED <<ledger, applied, ops, answers, arrived, closing>>

\* shutdown: nothing starts any more and the run of the table's conversation is
\* stopped; the process leaves when it has ended or the wait is over.
Shutdown ==
  /\ current # 0 /\ ~closing
  /\ closing' = TRUE
  /\ conv' = [conv EXCEPT ![current] = StopRun(@)]
  /\ UNCHANGED <<ledger, applied, ops, wire, answers, current, arrived, counter, stopped>>
-----------------------------------------------------------------------------
(* The run goroutine. *)

Running(c) == c.live.status = "running" /\ ~c.failed

\* UserCommitted: the prompt and run.started.
CommitInput(o) ==
  /\ conv[o].pc = "input"
  /\ BeginCommit(o, Changed(conv[o], conv[o].live), "think")
  /\ UNCHANGED <<ledger, applied, ops, answers, current, arrived, closing, counter, stopped>>

\* Mutant of Frozen: only a failure stops the run, an interrupt does not.
FrozenOnFailure(c) == c.failed

HasBudget(c) == c.live.asked < MaxModelCalls
Frozen(c) == c.cancelled \/ ~Running(c)

\* Generate up to its first commit: the call is prepared before it is dispatched.
Think(o) ==
  LET c == conv[o]
      id == Model(counter.model + 1)
  IN
  /\ c.pc = "think"
  /\ \/ /\ c.cancelled \/ ~Running(c)
        /\ conv' = [conv EXCEPT ![o] = Goto(c, "ending")]
        /\ UNCHANGED <<wire, counter>>
     \/ /\ ~c.cancelled /\ Running(c) /\ ~HasBudget(c)
        /\ conv' = [conv EXCEPT ![o] = Goto(FailRun(c), "ending")]
        /\ UNCHANGED <<wire, counter>>
     \/ /\ ~c.cancelled /\ Running(c) /\ ~HasBudget(c)
        /\ conv' = [conv EXCEPT ![o] = Goto(c, "limit")]
        /\ UNCHANGED <<wire, counter>>
     \/ /\ ~c.cancelled /\ Running(c) /\ HasBudget(c)
        /\ counter' = [counter EXCEPT !.model = @ + 1]
        /\ BeginCommit(o, Changed([c EXCEPT !.wait = id],
             AddPending([c.live EXCEPT !.asked = @ + 1], id)), "calling")
  /\ UNCHANGED <<ledger, applied, ops, answers, current, arrived, closing, stopped>>

\* The next call of the response, or the end of the batch: the turn that reports
\* it answers what was not executed.
Batch(o) ==
  LET c == conv[o]
      next == Min(OpenCalls(c.live))
      id == Tool(next)
  IN
  /\ c.pc = "batch"
  /\ \/ /\ OpenCalls(c.live) = {}
        /\ conv' = [conv EXCEPT ![o] = Goto(c, IF c.cancelled THEN "ending" ELSE "think")]
        /\ wire' = wire
     \/ /\ OpenCalls(c.live) # {} /\ (c.cancelled \/ ~Running(c))
        /\ BeginCommit(o, Changed(c, CloseCalls(c.live, OpenCalls(c.live), "turn")), "ending")
     \/ /\ OpenCalls(c.live) # {} /\ ~c.cancelled /\ Running(c)
        /\ BeginCommit(o, Changed([c EXCEPT !.wait = id], AddPending(c.live, id)), "launch")
  /\ UNCHANGED <<ledger, applied, ops, answers, current, arrived, closing, counter, stopped>>

\* A tool's result, whether the host sent it or nobody knows it.
ToolSettles(o, c, as) ==
  LET told == [c.live EXCEPT !.results = @ \cup {[call |-> c.wait.n, as |-> as, msg |-> "tool"]}]
      s == IF as = "unknown" THEN Unsettled(told, c.wait, "unknown") ELSE RemovePending(told, c.wait)
  IN BeginCommit(o, Changed(c, s), IF as = "unknown" THEN "unresolved" ELSE "batch")

\* The executor's last look at the context, then the schema of the arguments; a
\* call cancelled here stays prepared and is answered by the turn.
Launch(o) ==
  LET c == conv[o] IN
  /\ c.pc = "launch"
  /\ \/ c.cancelled /\ conv' = [conv EXCEPT ![o] = Goto(c, "batch")] /\ wire' = wire
     \/ ~c.cancelled /\ conv' = [conv EXCEPT ![o] = Goto(c, "calling")] /\ wire' = wire
     \/ ~c.cancelled /\ ToolSettles(o, c, "none")
  /\ UNCHANGED <<ledger, applied, ops, answers, current, arrived, closing, counter, stopped>>

\* An unknown outcome stops the run.
Unresolved(o) ==
  /\ conv[o].pc = "unresolved"
  /\ conv' = [conv EXCEPT ![o] = Goto(StopRun(conv[o]), "batch")]
  /\ UNCHANGED <<ledger, applied, ops, wire, answers, current, arrived, closing, counter, stopped>>

\* A model call without a usable answer stays pending, and the run fails.
ModelLost(o, c) ==
  /\ conv' = [conv EXCEPT ![o] = Goto(FailRun(Changed(c, c.live)), "ending")]
  /\ wire' = wire

ModelSettles(o, c, a) ==
  LET told == [c.live EXCEPT !.calls = @ \cup UsableCalls(a)]
  IN IF a.as = "unpriced"
     THEN BeginCommit(o, Changed(c, Unsettled(told, c.wait, "cost")), "fail")
     ELSE BeginCommit(o, Changed(c, RemovePending(told, c.wait)),
                      CASE a.as = "tools" -> "batch" [] a.as = "text" -> "ending" [] a.as = "length" -> "fail")

Fail(o) ==
  /\ conv[o].pc = "fail"
  /\ conv' = [conv EXCEPT ![o] = Goto(FailRun(@), "ending")]
  /\ UNCHANGED <<ledger, applied, ops, wire, answers, current, arrived, closing, counter, stopped>>

NoAnswer(o, c) == IF c.wait.kind = "model" THEN ModelLost(o, c) ELSE ToolSettles(o, c, "unknown")

\* callback up to the request in the pipe, under the lock interrupt takes.
Dispatch(o) ==
  LET c == conv[o] IN
  /\ c.pc = "calling"
  /\ IF Frozen(c)
     THEN NoAnswer(o, c)
     ELSE /\ conv' = [conv EXCEPT ![o] = Goto(c, "waiting")]
          /\ wire' = wire \cup {[type |-> "call", obj |-> o, id |-> c.wait, run |-> c.live.active]}
  /\ UNCHANGED <<ledger, applied, ops, answers, current, arrived, closing, counter, stopped>>

\* The timeout of the callback stops the run.  After that, or a cancellation, the
\* original request stays alive for the grace period.
CallTimesOut(o) ==
  /\ conv[o].pc = "waiting" /\ ~conv[o].cancelled
  /\ conv' = [conv EXCEPT ![o] = StopRun(@)]
  /\ UNCHANGED <<ledger, applied, ops, wire, answers, current, arrived, closing, counter, stopped>>

GraceEnds(o) ==
  /\ conv[o].pc = "waiting" /\ conv[o].cancelled
  /\ NoAnswer(o, conv[o])
  /\ answers' = {a \in answers : ~(a.type = "call" /\ a.obj = o)}
  /\ UNCHANGED <<ledger, applied, ops, current, arrived, closing, counter, stopped>>

CallAnswered(o) ==
  LET c == conv[o] IN
  /\ c.pc = "waiting"
  /\ \E a \in answers :
       /\ a.type = "call" /\ a.obj = o /\ a.id = c.wait
       /\ \/ a.as = "invalid" /\ NoAnswer(o, c)
          \/ a.as # "invalid" /\ c.wait.kind = "model" /\ ModelSettles(o, c, a)
          \/ a.as # "invalid" /\ c.wait.kind = "tool" /\ ToolSettles(o, c, a.as)
       /\ answers' = answers \ {a}
  /\ UNCHANGED <<ledger, applied, ops, current, arrived, closing, counter, stopped>>

Outcome(c) ==
  CASE c.live.why = "" -> IF c.cancelled \/ c.pc = "limit" THEN "interrupted" ELSE "completed"
    [] c.live.why # "" /\ c.live.status = "stopping" -> "interrupted"
    [] c.live.why # "" /\ c.live.status = "running" -> "failed"

\* finished, and the end of the goroutine.  A failed conversation keeps its run.
Finish(o) ==
  LET c == conv[o] IN
  /\ c.pc \in {"ending", "limit"}
  /\ IF c.failed \/ c.live.active = 0
     THEN conv' = [conv EXCEPT ![o] = Goto(c, "idle")] /\ wire' = wire
     ELSE BeginCommit(o, Changed(c,
            [CloseCalls(c.live, OpenCalls(c.live) \ Prepared(c.live), "closed")
             EXCEPT !.active = 0, !.status = "running", !.last = c.live.active, !.outcome = Outcome(c)]), "idle")
  /\ UNCHANGED <<ledger, applied, ops, answers, current, arrived, closing, counter, stopped>>

\* The deadline of the run, or a cancellation seen by its watcher.
Watch(o) ==
  LET c == conv[o] IN
  /\ c.pc \notin {"none", "idle"} /\ c.live.active # 0 /\ c.live.status = "running"
  /\ conv' = [conv EXCEPT ![o] =
       [Changed(c, [c.live EXCEPT !.status = "stopping", !.why = IF @ = "" THEN "stopped" ELSE @])
        EXCEPT !.cancelled = TRUE]]
  /\ UNCHANGED <<ledger, applied, ops, wire, answers, current, arrived, closing, counter, stopped>>
-----------------------------------------------------------------------------
(* The reference host. *)

Awaits(m) ==
  LET c == conv[m.obj] IN
  IF m.type = "commit" THEN c.pc = "committing" /\ c.sent = m.state ELSE c.pc = "waiting" /\ c.wait = m.id

Reply(m, a) == answers' = IF Awaits(m) THEN answers \cup {a} ELSE answers

\* One transaction: the same checkpoint again gets its first answer, a new one
\* has to follow the last revision.
HostCommits(m) ==
  /\ m \in wire /\ m.type = "commit"
  /\ wire' = wire \ {m}
  /\ LET id == [obj |-> m.obj, rev |-> m.state.rev]
         ok == id \in applied \/ ledger.rev + 1 = m.state.rev
     IN /\ ledger' = IF ok /\ id \notin applied THEN m.state ELSE ledger
        /\ applied' = IF ok THEN applied \cup {id} ELSE applied
        /\ Reply(m, [type |-> "commit", obj |-> m.obj, ok |-> ok])
  /\ UNCHANGED <<ops, conv, current, arrived, closing, counter, stopped>>

NoResult == [stage |-> "received", as |-> "", calls |-> {}]

HostReceives(m) ==
  /\ m \in wire /\ m.type = "call" /\ m.id \notin DOMAIN ops
  /\ wire' = wire \ {m}
  /\ ops' = [id \in DOMAIN ops \cup {m.id} |-> IF id = m.id THEN NoResult ELSE ops[id]]
  /\ UNCHANGED <<ledger, applied, answers, conv, current, arrived, closing, counter, stopped>>

\* The host knows the outcome of a call, in time for the engine or not.
HostSettles(id) ==
  /\ id \in DOMAIN ops /\ ops[id].stage = "received"
  /\ \E as \in IF id.kind = "model" THEN ModelResult ELSE ToolResult,
        n \in IF id.kind = "model" THEN 0..(LastCall - counter.call) ELSE {0} :
       LET calls == (counter.call + 1)..(counter.call + n) IN
       /\ n > 0 => as \in {"tools", "unpriced", "length"}
       /\ as = "tools" => n > 0
       /\ ops' = [ops EXCEPT ![id] = IF as = "invalid" THEN @
                                     ELSE [stage |-> "settled", as |-> as, calls |-> calls]]
       /\ counter' = [counter EXCEPT !.call = @ + n]
       /\ answers' = answers \cup {[type |-> "call", obj |-> o, id |-> id, as |-> as, calls |-> calls] :
                                  o \in {x \in Object : conv[x].pc = "waiting" /\ conv[x].wait = id}}
  /\ UNCHANGED <<ledger, applied, wire, conv, current, arrived, closing, stopped>>

\* The engine is killed, or leaves, or a pipe breaks; the host starts another.
Crash ==
  /\ counter.crash < MaxCrash
  /\ counter' = [counter EXCEPT !.crash = @ + 1]
  /\ conv' = [o \in Object |-> [NewConversation(NoState) EXCEPT !.pc = "none"]]
  /\ current' = 0 /\ arrived' = {} /\ wire' = {} /\ answers' = {} /\ closing' = FALSE
  /\ stopped' = stopped \cap ledger.runs
  /\ UNCHANGED <<ledger, applied, ops>>
-----------------------------------------------------------------------------
Init ==
  /\ ledger = NoState /\ applied = {} /\ ops = <<>>
  /\ wire = {} /\ answers = {}
  /\ conv = [o \in Object |-> [NewConversation(NoState) EXCEPT !.pc = "none"]]
  /\ current = 0 /\ arrived = {} /\ closing = FALSE
  /\ counter = [object |-> 0, model |-> 0, call |-> 0, crash |-> 0]
  /\ stopped = {}

Host ==
  \/ Create \/ Restore \/ Shutdown \/ Crash
  \/ \E r \in Run : StartArrives(r) \/ Interrupt(r)
  \/ \E a \in arrived : Start(a)
  \/ \E m \in wire : HostCommits(m) \/ HostReceives(m)
  \/ \E id \in DOMAIN ops : HostSettles(id)

\* The steps the engine's scheduler and timers take by themselves.
Engine(o) ==
  \/ CommitAnswered(o) \/ CommitTimesOut(o)
  \/ CommitInput(o) \/ Think(o) \/ Batch(o) \/ Launch(o) \/ Unresolved(o) \/ Fail(o)
  \/ Dispatch(o) \/ CallAnswered(o) \/ CallTimesOut(o) \/ GraceEnds(o) \/ Finish(o)

Next == Host \/ \E o \in Object : Engine(o) \/ Watch(o)

Spec == Init /\ [][Next]_vars
FairSpec == Spec /\ \A o \in Object : WF_vars(Engine(o))
-----------------------------------------------------------------------------
RequestID == [kind : {"tool", "model"}, n : Nat]
CheckpointState ==
  [rev : Nat, active : 0..LastRun, status : {"running", "stopping"},
   why : {"", "stopped", "failed"}, runs : SUBSET Run, last : 0..LastRun,
   outcome : {"none", "completed", "interrupted", "failed"}, asked : 0..MaxModelCalls,
   calls : SUBSET Call,
   results : SUBSET [call : Call, as : {"applied", "none", "unknown", "closed"}, msg : {"tool", "turn", "closed"}],
   pending : SUBSET [id : RequestID, run : Run, got : {"nothing", "unknown", "cost"}]]

\* The types of the ledger and of what the engine keeps of a conversation.
TypeOK ==
  /\ ledger \in CheckpointState
  /\ \A o \in Object : /\ conv[o].live \in CheckpointState /\ conv[o].saved \in CheckpointState
                      /\ {conv[o].dirty, conv[o].touched, conv[o].failed, conv[o].cancelled} \subseteq BOOLEAN
  /\ current \in 0..LastObject /\ closing \in BOOLEAN /\ stopped \subseteq Run

\* Every checkpoint the engine gets committed is one its own restore accepts, at
\* whatever point of a run it was taken (restore.go, validateState).
CheckpointRestores == TypeOK /\ Restorable(ledger)

\* Engine and host agree: what the engine holds as saved is the host's state
\* whenever their revisions are equal, and it is never ahead, whichever commit or
\* answer was lost (conversation.go, commit).
SavedIsLedger ==
  \A o \in Object : conv[o].pc # "none" =>
    /\ conv[o].rev <= ledger.rev
    /\ conv[o].rev = ledger.rev => conv[o].saved = ledger

\* A call the transcript reports as never dispatched has not reached the host and
\* will not (closeUnsentLocked, turnCommitted, restore).
ClosedNeverRan ==
  \A r \in ledger.results : r.as = "closed" =>
    /\ Tool(r.call) \notin DOMAIN ops
    /\ \A m \in wire : m.type = "call" => m.id # Tool(r.call)

\* Every request the host may act on is a call its own ledger has as pending or
\* as answered, so that a kill at any point leaves it something to reconcile.
DispatchedIsRecorded ==
  \A id \in DOMAIN ops \cup {m.id : m \in {x \in wire : x.type = "call"}} :
    id.kind = "tool" => id \in {p.id : p \in ledger.pending} \/ id.n \in Answered(ledger)

\* A run the host holds as completed left nothing open behind it: no call without
\* an answer, none with an unknown one, none to reconcile (finished).
CompletedIsClosed ==
  ledger.active = 0 /\ ledger.outcome = "completed" =>
    /\ ledger.pending = {} /\ OpenCalls(ledger) = {}

\* conversation.get that reports no uncommitted progress shows what the host has
\* (view, dirty).
CleanViewIsCommitted ==
  \A o \in Object : conv[o].pc # "none" /\ ~conv[o].dirty => conv[o].live = conv[o].saved

\* What the engine shows of a conversation and what the host keeps of it agree
\* whenever the engine says so (commit, view).
EngineFollowsLedger == SavedIsLedger /\ CleanViewIsCommitted

\* What the ledger tells of a call is what happened to it, at every point where
\* the engine may die (toolPrepared, closeUnsentLocked, restore).
LedgerTellsTruth == ClosedNeverRan /\ DispatchedIsRecorded /\ CompletedIsClosed

\* The ledger is the engine's memory and the truth: what a restore reads is what the
\* engine held, and what the engine held is what happened.
LedgerIsTrue == EngineFollowsLedger /\ LedgerTellsTruth

\* Once an interrupt is acknowledged no request of that run enters the pipe
\* (ports.go:215, callback).
NoDispatchAfterInterrupt ==
  [][\A m \in wire' \ wire : m.type = "call" => m.run \notin stopped]_vars

\* A run that is being stopped comes to its end, whatever the host leaves
\* unanswered (callback, commit).
StoppedRunEnds ==
  \A o \in Object :
    (conv[o].live.active # 0 /\ conv[o].live.status = "stopping") ~> (conv[o].pc \in {"idle", "none"})
=============================================================================
