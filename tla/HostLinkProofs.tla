---------------------------- MODULE HostLinkProofs ---------------------------
(***************************************************************************)
(* The stdio host, for any number of runs, calls, restores and kills: once *)
(* the engine has acknowledged the interrupt of a run, no request of it    *)
(* enters the pipe.  Only the conversation the table names works; a stop   *)
(* freezes it, and nothing thaws it but another run.  And the ledger is    *)
(* true: engine and host agree, and no call is told to be what it was not. *)
(* And whatever is committed, the engine's own restore accepts.            *)
(***************************************************************************)
EXTENDS HostLink, TLAPS, WellFoundedInduction

\* The shapes of a checkpoint's state and of a conversation object; of their values
\* only those the interrupt is about matter here.
StateFields ==
  {"rev", "active", "status", "why", "runs", "last", "outcome", "asked", "calls", "results", "pending"}
ConversationFields ==
  {"live", "saved", "rev", "dirty", "touched", "failed", "pc", "then", "sent", "attempt", "wait", "cancelled"}
IsState(s) == s = [f \in StateFields |-> s[f]]
IsConversation(c) == c = [f \in ConversationFields |-> c[f]]

\* The run that is active, was when the last checkpoint was taken, or will be if the
\* one under way fails, is a run the conversation has admitted.
KnowsItsRun(c) == {c.live.active, c.saved.active, c.sent.active} \subseteq c.live.runs \cup {0}
Sound(c) == IsConversation(c) /\ IsState(c.live) /\ IsState(c.saved) /\ IsState(c.sent) /\ KnowsItsRun(c)

LinkTyped ==
  /\ IsState(ledger) /\ ledger.rev \in Nat /\ (ledger.rev = 0 => ledger.runs = {})
  /\ \A m \in wire : m.type = "commit" => IsState(m.state)
  /\ current \in Object \cup {0} /\ (current = 0 => wire = {})
  /\ counter \in [object : Nat, model : Nat, call : Nat, crash : Nat]
  /\ conv = [o \in Object |-> conv[o]] /\ \A o \in Object : Sound(conv[o])

\* A conversation the table no longer names is at rest, and no start is on its way
\* to it.
AtRest(c) == c.pc \in {"idle", "none"}
OnlyCurrentWorks ==
  /\ \A o \in Object : o # current => AtRest(conv[o])
  /\ \A a \in arrived : a.obj = current /\ current # 0

\* A run whose interrupt was acknowledged is frozen, and none is admitted again.
Stays(c) == c.live.active \in stopped => Frozen(c)
StopsAreFrozen ==
  /\ stopped \subseteq Run
  /\ current = 0 => stopped \subseteq ledger.runs
  /\ current # 0 => stopped \subseteq conv[current].live.runs /\ Stays(conv[current])

HostInv == LinkTyped /\ OnlyCurrentWorks /\ StopsAreFrozen

-----------------------------------------------------------------------------
(* What becomes of a conversation in a step of its own.                     *)

\* The run of state t is that of s, and as stopped, or there is none.
Continues(s, t) ==
  /\ IsState(t) /\ t.runs = s.runs
  /\ t.active = 0 \/ (t.active = s.active /\ (t.status = "running" => s.status = "running"))

\* d goes on with the run of c, if with any, and is not thawed.
Carries(c, d) ==
  /\ Sound(d) /\ d.live.runs = c.live.runs
  /\ d.live.active = 0 \/ Frozen(d) \/ (d.live.active = c.live.active /\ ~ Frozen(c))

\* c and d differ in the course of their goroutine only.
Similar(c, d) ==
  /\ IsConversation(d)
  /\ d.live = c.live /\ d.saved = c.saved /\ d.sent = c.sent /\ d.failed = c.failed /\ d.cancelled = c.cancelled

LEMMA SimilarCarries ==
  ASSUME NEW c, NEW d, Sound(c), Similar(c, d)
  PROVE  Carries(c, d)
  BY DEF Sound, Similar, Carries, Frozen, Running, KnowsItsRun

LEMMA CarriesOn ==
  ASSUME NEW c, NEW d, NEW e, Carries(c, d), Carries(d, e)
  PROVE  Carries(c, e)
  BY DEF Carries

LEMMA ChangedCarries ==
  ASSUME NEW c, NEW s, Sound(c), Continues(c.live, s)
  PROVE  Carries(c, Changed(c, s))
<1> DEFINE d == Changed(c, s)
<1>1. /\ IsConversation(d) /\ d.live = s /\ d.saved = c.saved /\ d.sent = c.sent
      /\ d.failed = c.failed /\ d.cancelled = c.cancelled
  BY DEF Changed, Sound, IsConversation, ConversationFields
<1> HIDE DEF d
<1>2. Sound(d)
  BY <1>1 DEF Sound, Continues, KnowsItsRun
<1>3. d.live.runs = c.live.runs
  BY <1>1 DEF Continues
<1>4. d.live.active = 0 \/ Frozen(d) \/ (d.live.active = c.live.active /\ ~ Frozen(c))
  BY <1>1 DEF Continues, Frozen, Running
<1> QED
  BY <1>2, <1>3, <1>4 DEF Carries, d

LEMMA GotoCarries ==
  ASSUME NEW c, NEW pc, Sound(c)
  PROVE  Carries(c, Goto(c, pc))
<1>1. Similar(c, Goto(c, pc))
  BY DEF Goto, Similar, Sound, IsConversation, ConversationFields
<1> QED
  BY <1>1, SimilarCarries

LEMMA WaitCarries ==
  ASSUME NEW c, NEW id, Sound(c)
  PROVE  Carries(c, [c EXCEPT !.wait = id])
<1>1. Similar(c, [c EXCEPT !.wait = id])
  BY DEF Similar, Sound, IsConversation, ConversationFields
<1> QED
  BY <1>1, SimilarCarries

LEMMA FailRunCarries ==
  ASSUME NEW c, Sound(c)
  PROVE  Carries(c, FailRun(c))
<1>1. Continues(c.live, [c.live EXCEPT !.why = "failed"])
  BY DEF Continues, Sound, IsState, StateFields
<1>2. Carries(c, c)
  BY DEF Carries
<1> QED
  BY <1>1, <1>2, ChangedCarries DEF FailRun

\* A context that is cancelled freezes whatever runs.
LEMMA CancelCarries ==
  ASSUME NEW c, Sound(c)
  PROVE  Carries(c, [c EXCEPT !.cancelled = TRUE]) /\ Frozen([c EXCEPT !.cancelled = TRUE])
<1> DEFINE d == [c EXCEPT !.cancelled = TRUE]
<1>1. /\ IsConversation(d) /\ d.live = c.live /\ d.saved = c.saved /\ d.sent = c.sent
      /\ d.cancelled = TRUE
  BY DEF Sound, IsConversation, ConversationFields
<1> HIDE DEF d
<1>2. Carries(c, d) /\ Frozen(d)
  BY <1>1 DEF Carries, Sound, KnowsItsRun, Frozen
<1> QED
  BY <1>2 DEF d

LEMMA StopRunCarries ==
  ASSUME NEW c, Sound(c)
  PROVE  Carries(c, StopRun(c)) /\ (c.live.active # 0 => Frozen(StopRun(c)))
<1> DEFINE s == [c.live EXCEPT !.status = "stopping", !.why = "stopped"]
           d == IF c.live.status = "stopping" THEN c ELSE Changed(c, s)
<1>1. CASE c.live.active = 0
  BY <1>1 DEF StopRun, Carries
<1>2. CASE c.live.active # 0
  <2>1. Continues(c.live, s)
    BY DEF Continues, Sound, IsState, StateFields
  <2>2. Carries(c, d) /\ Sound(d)
    BY <2>1, ChangedCarries DEF Carries
  <2>3. StopRun(c) = [d EXCEPT !.cancelled = TRUE]
    BY <1>2 DEF StopRun
  <2> HIDE DEF d
  <2> QED
    BY <2>2, <2>3, CancelCarries, CarriesOn
<1> QED
  BY <1>1, <1>2

LEMMA CommitSucceededCarries ==
  ASSUME NEW c, Sound(c)
  PROVE  Carries(c, CommitSucceeded(c))
<1> DEFINE d == CommitSucceeded(c)
<1>1. /\ IsConversation(d) /\ d.live = [c.live EXCEPT !.rev = c.sent.rev] /\ d.saved = c.sent /\ d.sent = NoState
      /\ d.failed = c.failed /\ d.cancelled = c.cancelled
  BY DEF CommitSucceeded, Sound, IsConversation, ConversationFields
<1> HIDE DEF d
<1>2. /\ IsState(d.live) /\ d.live.active = c.live.active /\ d.live.status = c.live.status
      /\ d.live.runs = c.live.runs
  BY <1>1 DEF Sound, IsState, StateFields
<1>3. IsState(NoState) /\ NoState.active = 0
  BY DEF IsState, StateFields, NoState
<1> QED
  BY <1>1, <1>2, <1>3 DEF Carries, Sound, KnowsItsRun, Frozen, Running, d

LEMMA CommitFailedCarries ==
  ASSUME NEW c, Sound(c)
  PROVE  Carries(c, CommitFailed(c))
<1> DEFINE revived == IF c.live.active = 0 /\ c.saved.active # 0
                      THEN [c.live EXCEPT !.active = c.saved.active, !.last = c.saved.last,
                                          !.outcome = c.saved.outcome, !.why = c.saved.why]
                      ELSE c.live
           halted == IF revived.active = 0 THEN revived ELSE [revived EXCEPT !.status = "stopping"]
           d == CommitFailed(c)
<1>1. IsState(revived) /\ revived.runs = c.live.runs /\ revived.active \in c.live.runs \cup {0}
  BY DEF Sound, IsState, StateFields, KnowsItsRun
<1> HIDE DEF revived
<1>2. IsState(halted) /\ halted.runs = c.live.runs /\ halted.active \in c.live.runs \cup {0}
  BY <1>1 DEF IsState, StateFields
<1>3. d = [c EXCEPT !.failed = TRUE, !.dirty = TRUE, !.live = halted, !.cancelled = TRUE, !.pc = "idle",
                    !.sent = NoState, !.attempt = 0]
  BY DEF CommitFailed, halted, revived
<1> HIDE DEF halted, d
<1>4. IsConversation(d) /\ d.live = halted /\ d.saved = c.saved /\ d.sent = NoState /\ d.failed = TRUE
  BY <1>3 DEF Sound, IsConversation, ConversationFields
<1>5. IsState(NoState) /\ NoState.active = 0
  BY DEF IsState, StateFields, NoState
<1> QED
  BY <1>2, <1>4, <1>5 DEF Carries, Sound, KnowsItsRun, Frozen, Running, d

\* What a step writes into the state leaves its run alone.
LEMMA RunIsLeftAlone ==
  ASSUME NEW s, IsState(s)
  PROVE  /\ Continues(s, s)
         /\ \A calls, msg : Continues(s, CloseCalls(s, calls, msg))
         /\ \A id : Continues(s, RemovePending(s, id)) /\ Continues(s, AddPending(s, id))
         /\ \A id, got : Continues(s, Unsettled(s, id, got))
         /\ \A x : /\ Continues(s, [s EXCEPT !.results = x]) /\ Continues(s, [s EXCEPT !.calls = x])
                   /\ Continues(s, [s EXCEPT !.asked = x])
                   /\ Continues(s, [s EXCEPT !.rev = x])
         /\ Continues(s, [s EXCEPT !.status = "stopping"])
         /\ \A why : Continues(s, [s EXCEPT !.status = "stopping", !.why = why])
         /\ \A last, outcome : Continues(s, [s EXCEPT !.active = 0, !.status = "running", !.last = last, !.outcome = outcome])
<1>1. Continues(s, s)
  BY DEF Continues
<1>2. \A calls, msg : Continues(s, CloseCalls(s, calls, msg))
  BY DEF Continues, CloseCalls, IsState, StateFields
<1>3. \A id : Continues(s, RemovePending(s, id)) /\ Continues(s, AddPending(s, id))
  BY DEF Continues, RemovePending, AddPending, IsState, StateFields
<1>4. \A id, got : Continues(s, Unsettled(s, id, got))
  BY DEF Continues, Unsettled, IsState, StateFields
<1>5. \A x : /\ Continues(s, [s EXCEPT !.results = x]) /\ Continues(s, [s EXCEPT !.calls = x])
             /\ Continues(s, [s EXCEPT !.asked = x])
             /\ Continues(s, [s EXCEPT !.rev = x])
  BY DEF Continues, IsState, StateFields
<1>6. Continues(s, [s EXCEPT !.status = "stopping"])
  BY DEF Continues, IsState, StateFields
<1>7. \A why : Continues(s, [s EXCEPT !.status = "stopping", !.why = why])
  BY DEF Continues, IsState, StateFields
<1>8. ASSUME NEW last, NEW outcome
      PROVE  Continues(s, [s EXCEPT !.active = 0, !.status = "running", !.last = last, !.outcome = outcome])
  <2> DEFINE t == [s EXCEPT !.active = 0, !.status = "running", !.last = last, !.outcome = outcome]
  <2>1. IsState(t) /\ t.runs = s.runs /\ t.active = 0
    BY DEF IsState, StateFields
  <2> HIDE DEF t
  <2>2. Continues(s, t)
    BY <2>1 DEF Continues
  <2> QED
    BY <2>2 DEF t
<1> QED
  BY <1>1, <1>2, <1>3, <1>4, <1>5, <1>6, <1>7, <1>8, Zenon

LEMMA ContinuesOn ==
  ASSUME NEW s, NEW t, NEW u, Continues(s, t), Continues(t, u)
  PROVE  Continues(s, u)
  BY DEF Continues

LEMMA CommitBegins ==
  ASSUME NEW o, NEW c, Sound(c), NEW then, BeginCommit(o, c, then)
  PROVE  \E d : /\ Carries(c, d) /\ conv' = [conv EXCEPT ![o] = d]
                /\ \A m \in wire' : m \in wire \/ m.type = "commit"
                /\ \A m \in wire' : m \in wire \/ IsState(m.state)
<1> DEFINE s == [c.live EXCEPT !.rev = c.rev + 1]
           d == [c EXCEPT !.pc = "committing", !.then = then, !.sent = s, !.attempt = 1, !.touched = FALSE]
<1>1. CASE c.failed
  <2>1. conv' = [conv EXCEPT ![o] = Goto(c, "idle")] /\ wire' = wire
    BY <1>1 DEF BeginCommit
  <2> QED
    BY <2>1, GotoCarries
<1>2. CASE ~ c.failed
  <2>1. /\ conv' = [conv EXCEPT ![o] = d]
        /\ wire' = wire \cup {[type |-> "commit", obj |-> o, state |-> s]}
    BY <1>2 DEF BeginCommit
  <2>2. Continues(c.live, s) /\ s.active = c.live.active
    BY RunIsLeftAlone DEF Sound, IsState, StateFields
  <2> HIDE DEF s
  <2>3. /\ IsConversation(d) /\ d.live = c.live /\ d.saved = c.saved /\ d.sent = s
        /\ d.failed = c.failed /\ d.cancelled = c.cancelled
    BY DEF Sound, IsConversation, ConversationFields
  <2> HIDE DEF d
  <2>4. Carries(c, d)
    BY <2>2, <2>3 DEF Carries, Sound, KnowsItsRun, Continues, Frozen, Running
  <2>5. /\ \A m \in wire' : m \in wire \/ m.type = "commit"
        /\ \A m \in wire' : m \in wire \/ IsState(m.state)
    BY <2>1, <2>2 DEF Continues
  <2> QED
    BY <2>1, <2>4, <2>5
<1> QED
  BY <1>1, <1>2

-----------------------------------------------------------------------------
(* The steps of the conversation that works.                                *)

LEMMA LinkBegins ==
  ASSUME Init
  PROVE  HostInv
<1> DEFINE n == [NewConversation(NoState) EXCEPT !.pc = "none"]
<1>1. IsState(NoState) /\ NoState.active = 0 /\ NoState.rev = 0 /\ NoState.runs = {}
  BY DEF NoState, IsState, StateFields
<1>2. /\ IsConversation(n) /\ n.live = NoState /\ n.saved = NoState /\ n.sent = NoState
      /\ n.pc = "none"
  BY DEF NewConversation, IsConversation, ConversationFields
<1> HIDE DEF n
<1>3. Sound(n) /\ AtRest(n)
  BY <1>1, <1>2 DEF Sound, KnowsItsRun, AtRest
<1>4. /\ ledger = NoState /\ wire = {} /\ current = 0 /\ arrived = {} /\ stopped = {}
      /\ counter = [object |-> 0, model |-> 0, call |-> 0, crash |-> 0]
      /\ conv = [o \in Object |-> n]
  BY DEF Init, n
<1>5. LinkTyped
  BY <1>1, <1>3, <1>4 DEF LinkTyped
<1>6. OnlyCurrentWorks
  BY <1>3, <1>4 DEF OnlyCurrentWorks
<1>7. StopsAreFrozen
  BY <1>4 DEF StopsAreFrozen
<1> QED
  BY <1>5, <1>6, <1>7 DEF HostInv

\* One conversation goes on with its run.
LEMMA OneGoesOn ==
  ASSUME HostInv, NEW o \in Object, o = current \/ ~ AtRest(conv[o]), NEW d, Carries(conv[o], d),
         conv' = [conv EXCEPT ![o] = d],
         \A m \in wire' : m.type = "commit" => m \in wire \/ IsState(m.state),
         counter' \in [object : Nat, model : Nat, call : Nat, crash : Nat],
         UNCHANGED <<ledger, current, arrived, stopped>>
  PROVE  HostInv'
<1>1. LinkTyped /\ OnlyCurrentWorks /\ StopsAreFrozen
  BY DEF HostInv
<1>2. o = current /\ current # 0
  BY <1>1 DEF OnlyCurrentWorks, Object
<1>3. /\ \A x \in Object : conv'[x] = IF x = o THEN d ELSE conv[x]
      /\ conv' = [x \in Object |-> conv'[x]]
  BY <1>1 DEF LinkTyped
<1>4. LinkTyped'
  BY <1>1, <1>2, <1>3 DEF LinkTyped, Carries
<1>5. OnlyCurrentWorks'
  BY <1>1, <1>2, <1>3 DEF OnlyCurrentWorks
<1>6. d.live.active = 0 \/ Frozen(d) \/ (d.live.active = conv[o].live.active /\ ~ Frozen(conv[o]))
  BY DEF Carries
<1>7. Stays(d)'
  <2>1. stopped' = stopped /\ stopped \subseteq Run /\ Stays(conv[o])
    BY <1>1, <1>2 DEF StopsAreFrozen
  <2>2. d.live.active \in stopped => Frozen(d)
    BY <1>6, <2>1 DEF Stays, Run
  <2> QED
    BY <2>1, <2>2 DEF Stays
<1>8. conv'[current'] = d /\ d.live.runs = conv[current].live.runs
  BY <1>2, <1>3 DEF Carries
<1>9. StopsAreFrozen'
  BY <1>1, <1>2, <1>7, <1>8 DEF StopsAreFrozen, Stays
<1> QED
  BY <1>4, <1>5, <1>9 DEF HostInv

LEMMA OneCommits ==
  ASSUME HostInv, NEW o \in Object, ~ AtRest(conv[o]), NEW c, Carries(conv[o], c), NEW then,
         BeginCommit(o, c, then),
         counter' \in [object : Nat, model : Nat, call : Nat, crash : Nat],
         UNCHANGED <<ledger, current, arrived, stopped>>
  PROVE  HostInv'
<1>1. PICK d : /\ Carries(c, d) /\ conv' = [conv EXCEPT ![o] = d]
               /\ \A m \in wire' : m \in wire \/ IsState(m.state)
  BY CommitBegins DEF Carries
<1>2. Carries(conv[o], d)
  BY <1>1, CarriesOn
<1> QED
  BY <1>1, <1>2, OneGoesOn

\* The changed state is committed, whatever the goroutine is to wait for.
LEMMA ChangeCommits ==
  ASSUME HostInv, NEW o \in Object, ~ AtRest(conv[o]), NEW s, Continues(conv[o].live, s), NEW then,
         \/ BeginCommit(o, Changed(conv[o], s), then)
         \/ \E id : BeginCommit(o, Changed([conv[o] EXCEPT !.wait = id], s), then),
         counter' \in [object : Nat, model : Nat, call : Nat, crash : Nat],
         UNCHANGED <<ledger, current, arrived, stopped>>
  PROVE  HostInv'
<1> DEFINE c == conv[o]
<1>1. Sound(c)
  BY DEF HostInv, LinkTyped
<1>2. Carries(c, Changed(c, s))
  BY <1>1, ChangedCarries
<1>3. ASSUME NEW id, BeginCommit(o, Changed([c EXCEPT !.wait = id], s), then) PROVE HostInv'
  <2> DEFINE w == [c EXCEPT !.wait = id]
  <2>1. Carries(c, w) /\ w.live = c.live
    BY <1>1, WaitCarries DEF Sound, IsConversation, ConversationFields
  <2>2. BeginCommit(o, Changed(w, s), then)
    BY <1>3
  <2> HIDE DEF w
  <2>3. Carries(w, Changed(w, s))
    BY <2>1, ChangedCarries DEF Carries
  <2>4. Carries(c, Changed(w, s))
    BY <2>1, <2>3, CarriesOn
  <2> QED
    BY <2>2, <2>4, OneCommits
<1> QED
  BY <1>2, <1>3, OneCommits

\* The goroutine moves, after d has become of its conversation.
LEMMA MoveGoesOn ==
  ASSUME HostInv, NEW o \in Object, ~ AtRest(conv[o]), NEW d, Carries(conv[o], d), NEW pc,
         conv' = [conv EXCEPT ![o] = Goto(d, pc)],
         \A m \in wire' : m.type = "commit" => m \in wire,
         UNCHANGED <<ledger, current, arrived, counter, stopped>>
  PROVE  HostInv'
<1>1. Carries(d, Goto(d, pc))
  BY GotoCarries DEF Carries
<1>2. Carries(conv[o], Goto(d, pc))
  BY <1>1, CarriesOn
<1>3. counter' \in [object : Nat, model : Nat, call : Nat, crash : Nat]
  BY DEF HostInv, LinkTyped
<1> QED
  BY <1>2, <1>3, OneGoesOn

LEMMA ToolSettlesGoesOn ==
  ASSUME HostInv, NEW o \in Object, ~ AtRest(conv[o]), NEW as, ToolSettles(o, conv[o], as),
         UNCHANGED <<ledger, current, arrived, counter, stopped>>
  PROVE  HostInv'
<1> DEFINE c == conv[o]
           told == [c.live EXCEPT !.results = @ \cup {[call |-> c.wait.n, as |-> as, msg |-> "tool"]}]
           s == IF as = "unknown" THEN Unsettled(told, c.wait, "unknown") ELSE RemovePending(told, c.wait)
           then == IF as = "unknown" THEN "unresolved" ELSE "batch"
<1>1. Sound(c) /\ counter \in [object : Nat, model : Nat, call : Nat, crash : Nat]
  BY DEF HostInv, LinkTyped
<1>2. Continues(c.live, told)
  BY <1>1, RunIsLeftAlone DEF Sound
<1>3. BeginCommit(o, Changed(c, s), then)
  BY DEF ToolSettles
<1> HIDE DEF told, then, c
<1>4. IsState(told)
  BY <1>2 DEF Continues
<1>5. Continues(told, s)
  BY <1>4, RunIsLeftAlone
<1>6. Continues(c.live, s)
  BY <1>2, <1>5, ContinuesOn
<1> HIDE DEF s
<1> QED
  BY <1>1, <1>3, <1>6, ChangeCommits DEF c

LEMMA ModelSettlesGoesOn ==
  ASSUME HostInv, NEW o \in Object, ~ AtRest(conv[o]), NEW a, ModelSettles(o, conv[o], a),
         UNCHANGED <<ledger, current, arrived, counter, stopped>>
  PROVE  HostInv'
<1> DEFINE c == conv[o]
           told == [c.live EXCEPT !.calls = @ \cup UsableCalls(a)]
           s == IF a.as = "unpriced" THEN Unsettled(told, c.wait, "cost") ELSE RemovePending(told, c.wait)
<1>1. Sound(c) /\ counter \in [object : Nat, model : Nat, call : Nat, crash : Nat]
  BY DEF HostInv, LinkTyped
<1>2. Continues(c.live, told)
  BY <1>1, RunIsLeftAlone DEF Sound
<1>3. \E then : BeginCommit(o, Changed(c, s), then)
  <2>1. CASE a.as = "unpriced"
    <3>1. BeginCommit(o, Changed(c, Unsettled(told, c.wait, "cost")), "fail")
      BY <2>1, Zenon DEF ModelSettles
    <3> QED
      BY <2>1, <3>1
  <2>2. CASE a.as # "unpriced"
    <3>1. \E then : BeginCommit(o, Changed(c, RemovePending(told, c.wait)), then)
      BY <2>2, Zenon DEF ModelSettles
    <3> QED
      BY <2>2, <3>1
  <2> QED
    BY <2>1, <2>2
<1> HIDE DEF told, c
<1>4. IsState(told)
  BY <1>2 DEF Continues
<1>5. Continues(told, s)
  BY <1>4, RunIsLeftAlone
<1>6. Continues(c.live, s)
  BY <1>2, <1>5, ContinuesOn
<1> HIDE DEF s
<1> QED
  BY <1>1, <1>3, <1>6, ChangeCommits DEF c

LEMMA NoAnswerGoesOn ==
  ASSUME HostInv, NEW o \in Object, ~ AtRest(conv[o]), NoAnswer(o, conv[o]),
         UNCHANGED <<ledger, current, arrived, counter, stopped>>
  PROVE  HostInv'
<1> DEFINE c == conv[o]
           d == Changed(c, c.live)
<1>1. Sound(c)
  BY DEF HostInv, LinkTyped
<1>2. CASE c.wait.kind # "model"
  BY <1>2, ToolSettlesGoesOn DEF NoAnswer
<1>3. CASE c.wait.kind = "model"
  <2>1. conv' = [conv EXCEPT ![o] = Goto(FailRun(d), "ending")] /\ wire' = wire
    BY <1>3 DEF NoAnswer, ModelLost
  <2> HIDE DEF c
  <2>2. Carries(c, d)
    BY <1>1, RunIsLeftAlone, ChangedCarries DEF Sound
  <2> HIDE DEF d
  <2>3. Carries(d, FailRun(d))
    BY <2>2, FailRunCarries DEF Carries
  <2>4. Carries(c, FailRun(d))
    BY <2>2, <2>3, CarriesOn
  <2> QED
    BY <2>1, <2>4, MoveGoesOn DEF c
<1> QED
  BY <1>2, <1>3

\* The steps of the run goroutine between two of its calls.
LEMMA TurnGoesOn ==
  ASSUME HostInv, NEW o \in Object,
         CommitInput(o) \/ Think(o) \/ Batch(o) \/ Launch(o) \/ Unresolved(o) \/ Fail(o) \/ Finish(o)
  PROVE  HostInv'
<1> DEFINE c == conv[o]
<1>1. Sound(c) /\ counter \in [object : Nat, model : Nat, call : Nat, crash : Nat]
  BY DEF HostInv, LinkTyped
<1>2. IsState(c.live) /\ Carries(c, c)
  BY <1>1 DEF Sound, Carries
<1>3. ~ AtRest(c) /\ UNCHANGED <<ledger, current, arrived, stopped>>
  BY DEF AtRest, CommitInput, Think, Batch, Launch, Unresolved, Fail, Finish
<1>4. ASSUME CommitInput(o) PROVE HostInv'
  <2>1. BeginCommit(o, Changed(c, c.live), "think") /\ counter' = counter
    BY <1>4 DEF CommitInput
  <2>2. Continues(c.live, c.live)
    BY <1>2, RunIsLeftAlone
  <2> QED
    BY <1>1, <1>3, <2>1, <2>2, ChangeCommits
<1>5. ASSUME Think(o) PROVE HostInv'
  <2> DEFINE id == Model(counter.model + 1)
             asked == [c.live EXCEPT !.asked = @ + 1]
             s == AddPending(asked, id)
  <2>1. \/ \E pc : conv' = [conv EXCEPT ![o] = Goto(c, pc)] /\ wire' = wire /\ counter' = counter
        \/ \E pc : conv' = [conv EXCEPT ![o] = Goto(FailRun(c), pc)] /\ wire' = wire /\ counter' = counter
        \/ /\ counter' = [counter EXCEPT !.model = @ + 1]
           /\ BeginCommit(o, Changed([c EXCEPT !.wait = id], s), "calling")
    BY <1>5, Zenon DEF Think
  <2> HIDE DEF c, id
  <2>2. CASE \E pc : conv' = [conv EXCEPT ![o] = Goto(c, pc)] /\ wire' = wire /\ counter' = counter
    BY <1>2, <1>3, <2>2, MoveGoesOn DEF c
  <2>3. CASE \E pc : conv' = [conv EXCEPT ![o] = Goto(FailRun(c), pc)] /\ wire' = wire /\ counter' = counter
    <3>1. Carries(c, FailRun(c))
      BY <1>1, FailRunCarries
    <3> QED
      BY <1>3, <2>3, <3>1, MoveGoesOn DEF c
  <2>4. CASE /\ counter' = [counter EXCEPT !.model = @ + 1]
             /\ BeginCommit(o, Changed([c EXCEPT !.wait = id], s), "calling")
    <3>1. Continues(c.live, asked)
      BY <1>2, RunIsLeftAlone
    <3> HIDE DEF asked
    <3>2. Continues(asked, s)
      <4>1. IsState(asked)
        BY <3>1 DEF Continues
      <4> QED
        BY <4>1, RunIsLeftAlone
    <3>3. Continues(c.live, s)
      BY <3>1, <3>2, ContinuesOn
    <3>4. counter' \in [object : Nat, model : Nat, call : Nat, crash : Nat]
      BY <1>1, <2>4
    <3> HIDE DEF s
    <3> QED
      BY <1>3, <2>4, <3>3, <3>4, ChangeCommits DEF c
  <2> QED
    BY <2>1, <2>2, <2>3, <2>4
<1>6. ASSUME Batch(o) PROVE HostInv'
  <2>1. /\ counter' = counter
        /\ \/ \E pc : conv' = [conv EXCEPT ![o] = Goto(c, pc)] /\ wire' = wire
           \/ BeginCommit(o, Changed(c, CloseCalls(c.live, OpenCalls(c.live), "turn")), "ending")
           \/ \E id : BeginCommit(o, Changed([c EXCEPT !.wait = id], AddPending(c.live, id)), "launch")
    BY <1>6, Zenon DEF Batch
  <2> HIDE DEF c
  <2>2. CASE \E pc : conv' = [conv EXCEPT ![o] = Goto(c, pc)] /\ wire' = wire
    BY <1>2, <1>3, <2>1, <2>2, MoveGoesOn DEF c
  <2>3. CASE BeginCommit(o, Changed(c, CloseCalls(c.live, OpenCalls(c.live), "turn")), "ending")
    <3>1. Continues(c.live, CloseCalls(c.live, OpenCalls(c.live), "turn"))
      BY <1>2, RunIsLeftAlone
    <3> QED
      BY <1>1, <1>3, <2>1, <2>3, <3>1, ChangeCommits DEF c
  <2>4. CASE \E id : BeginCommit(o, Changed([c EXCEPT !.wait = id], AddPending(c.live, id)), "launch")
    <3>1. PICK id : BeginCommit(o, Changed([c EXCEPT !.wait = id], AddPending(c.live, id)), "launch")
      BY <2>4
    <3>2. Continues(c.live, AddPending(c.live, id))
      BY <1>2, RunIsLeftAlone
    <3> QED
      BY <1>1, <1>3, <2>1, <3>1, <3>2, ChangeCommits DEF c
  <2> QED
    BY <2>1, <2>2, <2>3, <2>4
<1>7. ASSUME Launch(o) PROVE HostInv'
  <2>1. /\ counter' = counter
        /\ \/ \E pc : conv' = [conv EXCEPT ![o] = Goto(c, pc)] /\ wire' = wire
           \/ ToolSettles(o, c, "none")
    BY <1>7, Zenon DEF Launch
  <2>2. CASE \E pc : conv' = [conv EXCEPT ![o] = Goto(c, pc)] /\ wire' = wire
    BY <1>2, <1>3, <2>1, <2>2, MoveGoesOn
  <2> QED
    BY <1>3, <2>1, <2>2, ToolSettlesGoesOn
<1>8. ASSUME Unresolved(o) PROVE HostInv'
  <2>1. conv' = [conv EXCEPT ![o] = Goto(StopRun(c), "batch")] /\ wire' = wire /\ counter' = counter
    BY <1>8 DEF Unresolved
  <2>2. Carries(c, StopRun(c))
    BY <1>1, StopRunCarries
  <2> QED
    BY <1>3, <2>1, <2>2, MoveGoesOn
<1>9. ASSUME Fail(o) PROVE HostInv'
  <2>1. conv' = [conv EXCEPT ![o] = Goto(FailRun(c), "ending")] /\ wire' = wire /\ counter' = counter
    BY <1>9 DEF Fail
  <2>2. Carries(c, FailRun(c))
    BY <1>1, FailRunCarries
  <2> QED
    BY <1>3, <2>1, <2>2, MoveGoesOn
<1>10. ASSUME Finish(o) PROVE HostInv'
  <2> DEFINE closed == CloseCalls(c.live, OpenCalls(c.live) \ Prepared(c.live), "closed")
             s == [closed EXCEPT !.active = 0, !.status = "running", !.last = c.live.active, !.outcome = Outcome(c)]
  <2>1. /\ counter' = counter
        /\ \/ conv' = [conv EXCEPT ![o] = Goto(c, "idle")] /\ wire' = wire
           \/ BeginCommit(o, Changed(c, s), "idle")
    BY <1>10 DEF Finish
  <2>2. CASE conv' = [conv EXCEPT ![o] = Goto(c, "idle")] /\ wire' = wire
    BY <1>2, <1>3, <2>1, <2>2, MoveGoesOn
  <2>3. CASE BeginCommit(o, Changed(c, s), "idle")
    <3> HIDE DEF c
    <3>1. Continues(c.live, closed)
      BY <1>2, RunIsLeftAlone
    <3>2. IsState(closed)
      BY <3>1 DEF Continues
    <3> HIDE DEF closed
    <3>3. Continues(closed, s)
      BY <3>2, RunIsLeftAlone
    <3>4. Continues(c.live, s)
      BY <3>1, <3>3, ContinuesOn
    <3> HIDE DEF s
    <3> QED
      BY <1>1, <1>3, <2>1, <2>3, <3>4, ChangeCommits DEF c
  <2> QED
    BY <2>1, <2>2, <2>3
<1> QED
  BY <1>4, <1>5, <1>6, <1>7, <1>8, <1>9, <1>10

\* The commits and the callbacks of the conversation that works.
LEMMA CallGoesOn ==
  ASSUME HostInv, NEW o \in Object,
         \/ CommitAnswered(o) \/ CommitTimesOut(o)
         \/ Dispatch(o) \/ CallAnswered(o) \/ CallTimesOut(o) \/ GraceEnds(o) \/ Watch(o)
  PROVE  HostInv'
<1> DEFINE c == conv[o]
<1>1. Sound(c) /\ counter \in [object : Nat, model : Nat, call : Nat, crash : Nat]
  BY DEF HostInv, LinkTyped
<1>2. IsState(c.live) /\ Carries(c, c)
  BY <1>1 DEF Sound, Carries
<1>3. ~ AtRest(c) /\ UNCHANGED <<ledger, current, arrived, counter, stopped>>
  BY DEF AtRest, CommitAnswered, CommitTimesOut, Dispatch, CallAnswered, CallTimesOut, GraceEnds, Watch
<1>4. ASSUME CommitAnswered(o) PROVE HostInv'
  <2>1. /\ \/ conv' = [conv EXCEPT ![o] = CommitSucceeded(c)]
           \/ conv' = [conv EXCEPT ![o] = CommitFailed(c)]
        /\ wire' = wire
    BY <1>4 DEF CommitAnswered
  <2>2. Carries(c, CommitSucceeded(c)) /\ Carries(c, CommitFailed(c))
    BY <1>1, CommitSucceededCarries, CommitFailedCarries
  <2> QED
    BY <1>1, <1>3, <2>1, <2>2, OneGoesOn
<1>5. ASSUME CommitTimesOut(o) PROVE HostInv'
  <2> DEFINE d == [c EXCEPT !.attempt = 2]
             m == [type |-> "commit", obj |-> o, state |-> c.sent]
  <2>1. \/ conv' = [conv EXCEPT ![o] = d] /\ wire' = wire \cup {m}
        \/ conv' = [conv EXCEPT ![o] = CommitFailed(c)] /\ wire' = wire
    BY <1>5 DEF CommitTimesOut
  <2>2. CASE conv' = [conv EXCEPT ![o] = CommitFailed(c)] /\ wire' = wire
    <3>1. Carries(c, CommitFailed(c))
      BY <1>1, CommitFailedCarries
    <3> QED
      BY <1>1, <1>3, <2>2, <3>1, OneGoesOn
  <2>3. CASE conv' = [conv EXCEPT ![o] = d] /\ wire' = wire \cup {m}
    <3>1. Similar(c, d)
      BY <1>1 DEF Similar, Sound, IsConversation, ConversationFields
    <3>2. Carries(c, d)
      BY <1>1, <3>1, SimilarCarries
    <3>3. \A x \in wire' : x.type = "commit" => x \in wire \/ IsState(x.state)
      BY <1>1, <2>3 DEF Sound
    <3> HIDE DEF d
    <3> QED
      BY <1>1, <1>3, <2>3, <3>2, <3>3, OneGoesOn
  <2> QED
    BY <2>1, <2>2, <2>3
<1>6. ASSUME Dispatch(o) PROVE HostInv'
  <2>1. \/ NoAnswer(o, c)
        \/ /\ conv' = [conv EXCEPT ![o] = Goto(c, "waiting")]
           /\ wire' = wire \cup {[type |-> "call", obj |-> o, id |-> c.wait, run |-> c.live.active]}
    BY <1>6 DEF Dispatch
  <2>2. CASE /\ conv' = [conv EXCEPT ![o] = Goto(c, "waiting")]
             /\ wire' = wire \cup {[type |-> "call", obj |-> o, id |-> c.wait, run |-> c.live.active]}
    <3>1. \A m \in wire' : m.type = "commit" => m \in wire
      BY <2>2
    <3> QED
      BY <1>2, <1>3, <2>2, <3>1, MoveGoesOn
  <2> QED
    BY <1>3, <2>1, <2>2, NoAnswerGoesOn
<1>7. ASSUME CallAnswered(o) PROVE HostInv'
  <2>1. PICK a \in answers : \/ NoAnswer(o, c)
                             \/ ModelSettles(o, c, a)
                             \/ ToolSettles(o, c, a.as)
    BY <1>7, Zenon DEF CallAnswered
  <2> QED
    BY <1>3, <2>1, NoAnswerGoesOn, ModelSettlesGoesOn, ToolSettlesGoesOn
<1>8. ASSUME CallTimesOut(o) PROVE HostInv'
  <2>1. conv' = [conv EXCEPT ![o] = StopRun(c)] /\ wire' = wire
    BY <1>8 DEF CallTimesOut
  <2>2. Carries(c, StopRun(c))
    BY <1>1, StopRunCarries
  <2> QED
    BY <1>1, <1>3, <2>1, <2>2, OneGoesOn
<1>9. ASSUME GraceEnds(o) PROVE HostInv'
  <2>1. NoAnswer(o, c)
    BY <1>9 DEF GraceEnds
  <2> QED
    BY <1>3, <2>1, NoAnswerGoesOn
<1>10. ASSUME Watch(o) PROVE HostInv'
  <2> DEFINE why == IF c.live.why = "" THEN "stopped" ELSE c.live.why
             s == [c.live EXCEPT !.status = "stopping", !.why = why]
             d == Changed(c, s)
  <2>1. conv' = [conv EXCEPT ![o] = [d EXCEPT !.cancelled = TRUE]] /\ wire' = wire
    BY <1>10 DEF Watch
  <2> HIDE DEF why, c
  <2>2. Continues(c.live, s)
    BY <1>2, RunIsLeftAlone
  <2> HIDE DEF s
  <2>3. Carries(c, d)
    BY <1>1, <2>2, ChangedCarries
  <2> HIDE DEF d
  <2>4. Carries(d, [d EXCEPT !.cancelled = TRUE])
    BY <2>3, CancelCarries DEF Carries
  <2>5. Carries(c, [d EXCEPT !.cancelled = TRUE])
    BY <2>3, <2>4, CarriesOn
  <2> QED
    BY <1>1, <1>3, <2>1, <2>5, OneGoesOn DEF c
<1> QED
  BY <1>4, <1>5, <1>6, <1>7, <1>8, <1>9, <1>10

-----------------------------------------------------------------------------
(* The requests of the host, and its own steps.                             *)

\* Nothing of a conversation changes, and no commit enters the pipe.
LEMMA HostAlone ==
  ASSUME HostInv, UNCHANGED <<conv, current, stopped>>, wire' \subseteq wire,
         IsState(ledger'), ledger'.rev \in Nat, ledger'.rev = 0 => ledger'.runs = {},
         current = 0 => ledger' = ledger,
         \A a \in arrived' : a \in arrived \/ (a.obj = current /\ current # 0),
         counter' \in [object : Nat, model : Nat, call : Nat, crash : Nat]
  PROVE  HostInv'
<1>1. LinkTyped'
  BY DEF HostInv, LinkTyped
<1>2. OnlyCurrentWorks'
  BY DEF HostInv, OnlyCurrentWorks
<1>3. StopsAreFrozen'
  BY DEF HostInv, StopsAreFrozen, Stays, Frozen, Running
<1> QED
  BY <1>1, <1>2, <1>3 DEF HostInv

LEMMA HostStepGoesOn ==
  ASSUME HostInv,
         \/ \E r \in Run : StartArrives(r)
         \/ \E m \in wire : HostCommits(m) \/ HostReceives(m)
         \/ \E id \in DOMAIN ops : HostSettles(id)
         \/ UNCHANGED vars
  PROVE  HostInv'
<1>1. LinkTyped
  BY DEF HostInv
<1>2. ASSUME NEW r \in Run, StartArrives(r) PROVE HostInv'
  BY <1>1, <1>2, HostAlone DEF StartArrives, LinkTyped
<1>3. ASSUME NEW m \in wire, HostCommits(m) PROVE HostInv'
  <2>1. /\ m.type = "commit" /\ wire' = wire \ {m}
        /\ ledger' = ledger \/ (ledger' = m.state /\ m.state.rev = ledger.rev + 1)
        /\ UNCHANGED <<conv, current, stopped, arrived, counter>>
    BY <1>3 DEF HostCommits
  <2>2. IsState(m.state) /\ current # 0
    BY <1>1, <2>1 DEF LinkTyped
  <2>3. IsState(ledger') /\ ledger'.rev \in Nat /\ (ledger'.rev = 0 => ledger'.runs = {})
    BY <1>1, <2>1, <2>2 DEF LinkTyped
  <2> QED
    BY <1>1, <2>1, <2>2, <2>3, HostAlone DEF LinkTyped
<1>4. ASSUME NEW m \in wire, HostReceives(m) PROVE HostInv'
  BY <1>1, <1>4, HostAlone DEF HostReceives, LinkTyped
<1>5. ASSUME NEW id \in DOMAIN ops, HostSettles(id) PROVE HostInv'
  <2>1. counter' \in [object : Nat, model : Nat, call : Nat, crash : Nat]
    <3>1. PICK n \in (0..(LastCall - counter.call)) \cup {0} : counter' = [counter EXCEPT !.call = @ + n]
      BY <1>5 DEF HostSettles
    <3>2. n \in Nat
      BY <1>1, HostAssumption DEF LinkTyped
    <3> QED
      BY <1>1, <3>1, <3>2 DEF LinkTyped
  <2>2. UNCHANGED <<conv, current, stopped, arrived, ledger, wire>>
    BY <1>5 DEF HostSettles
  <2> QED
    BY <1>1, <2>1, <2>2, HostAlone DEF LinkTyped
<1>6. ASSUME UNCHANGED vars PROVE HostInv'
  BY <1>1, <1>6, HostAlone DEF vars, LinkTyped
<1> QED
  BY <1>2, <1>3, <1>4, <1>5, <1>6

\* run.interrupt and shutdown stop the run of the conversation the table names.
LEMMA StopGoesOn ==
  ASSUME HostInv, Shutdown \/ \E r \in Run : Interrupt(r)
  PROVE  HostInv'
<1> DEFINE c == conv[current]
           d == StopRun(c)
<1>1. LinkTyped /\ OnlyCurrentWorks /\ StopsAreFrozen
  BY DEF HostInv
<1>2. /\ current # 0 /\ conv' = [conv EXCEPT ![current] = d]
      /\ UNCHANGED <<ledger, wire, current, arrived, counter>>
      /\ stopped' = stopped \/ (c.live.active \in Run /\ stopped' = stopped \cup {c.live.active})
  BY DEF Shutdown, Interrupt
<1>3. current \in Object /\ Sound(c)
  BY <1>1, <1>2 DEF LinkTyped
<1>4. Carries(c, d) /\ (c.live.active # 0 => Frozen(d))
  BY <1>3, StopRunCarries
<1> HIDE DEF d
<1>5. CASE stopped' = stopped
  BY <1>1, <1>2, <1>3, <1>4, <1>5, OneGoesOn DEF LinkTyped
<1>6. CASE c.live.active \in Run /\ stopped' = stopped \cup {c.live.active}
  <2>1. /\ conv'[current] = d
        /\ \A x \in Object : x # current => conv'[x] = conv[x]
        /\ conv' = [x \in Object |-> conv'[x]]
    BY <1>1, <1>2, <1>3 DEF LinkTyped
  <2>2. LinkTyped'
    BY <1>1, <1>2, <1>4, <2>1 DEF LinkTyped, Carries
  <2>3. OnlyCurrentWorks'
    BY <1>1, <1>2, <2>1 DEF OnlyCurrentWorks
  <2>4. c.live.active \in c.live.runs /\ c.live.active # 0
    BY <1>3, <1>6 DEF Sound, KnowsItsRun, Run
  <2>5. d.live.runs = c.live.runs /\ Frozen(d)
    BY <1>4, <2>4 DEF Carries
  <2>6. stopped' \subseteq Run /\ stopped' \subseteq d.live.runs
    BY <1>1, <1>2, <1>6, <2>4, <2>5 DEF StopsAreFrozen
  <2>7. StopsAreFrozen'
    BY <1>2, <2>1, <2>5, <2>6 DEF StopsAreFrozen, Stays, Frozen, Running
  <2> QED
    BY <2>2, <2>3, <2>7 DEF HostInv
<1> QED
  BY <1>2, <1>5, <1>6

\* A run is admitted once, so that it is none of those that were stopped.
LEMMA StartGoesOn ==
  ASSUME HostInv, NEW a \in arrived, Start(a)
  PROVE  HostInv'
<1> DEFINE c == conv[current]
           s == [c.live EXCEPT !.active = a.run, !.status = "running", !.why = "", !.asked = 0, !.runs = @ \cup {a.run}]
           i == [c EXCEPT !.pc = "input", !.cancelled = FALSE]
           d == Changed(i, s)
<1>1. LinkTyped /\ OnlyCurrentWorks /\ StopsAreFrozen
  BY DEF HostInv
<1>2. a.obj = current /\ current # 0 /\ current \in Object /\ Sound(c)
  BY <1>1 DEF OnlyCurrentWorks, LinkTyped
<1>3. /\ arrived' \subseteq arrived
      /\ UNCHANGED <<ledger, wire, current, counter, stopped>>
  BY DEF Start
<1>4. CASE ~ Admits(c, a)
  <2>1. conv' = conv
    BY <1>2, <1>4 DEF Start
  <2> QED
    BY <1>1, <1>3, <2>1, HostAlone DEF LinkTyped
<1>5. CASE Admits(c, a)
  <2>1. conv' = [conv EXCEPT ![current] = Accept(conv[current], a.run)]
    BY <1>2, <1>5 DEF Start
  <2>2. Accept(c, a.run) = d
    <3>1. i.live = c.live
      BY <1>2 DEF Sound, IsConversation, ConversationFields
    <3> QED
      BY <3>1 DEF Accept
  <2>3. IsState(s) /\ s.active = a.run /\ s.runs = c.live.runs \cup {a.run}
    BY <1>2 DEF Sound, IsState, StateFields
  <2> HIDE DEF s
  <2>4. IsConversation(d) /\ d.live = s /\ d.saved = c.saved /\ d.sent = c.sent
    BY <1>2 DEF Changed, Sound, IsConversation, ConversationFields
  <2> HIDE DEF d
  <2>5. Sound(d)
    BY <1>2, <2>3, <2>4 DEF Sound, KnowsItsRun
  <2>6. conv' = [conv EXCEPT ![current] = d]
    BY <2>1, <2>2
  <2>7. /\ conv'[current] = d
        /\ \A x \in Object : x # current => conv'[x] = conv[x]
        /\ conv' = [x \in Object |-> conv'[x]]
    BY <1>1, <1>2, <2>6 DEF LinkTyped
  <2>8. LinkTyped'
    BY <1>1, <1>3, <2>5, <2>7 DEF LinkTyped
  <2>9. OnlyCurrentWorks'
    BY <1>1, <1>3, <2>7 DEF OnlyCurrentWorks
  <2>10. a.run \notin stopped
    BY <1>1, <1>2, <1>5 DEF Admits, StopsAreFrozen
  <2>11. StopsAreFrozen'
    BY <1>1, <1>2, <1>3, <2>3, <2>4, <2>7, <2>10 DEF StopsAreFrozen, Stays
  <2> QED
    BY <2>8, <2>9, <2>11 DEF HostInv
<1> QED
  BY <1>4, <1>5

\* The table names a new conversation, which knows every run that was stopped.
LEMMA NewIsNamed ==
  ASSUME HostInv, NEW o \in Object, NEW d, current' = o, conv' = [conv EXCEPT ![o] = d],
         Sound(d), d.live.active \in stopped' => Frozen(d),
         stopped' \subseteq stopped \cap d.live.runs,
         current # 0 => AtRest(conv[current]), arrived' = {}, ledger' = ledger,
         \A m \in wire' : m.type = "commit" => m \in wire \/ IsState(m.state),
         counter' = [counter EXCEPT !.object = o]
  PROVE  HostInv'
<1>1. LinkTyped /\ OnlyCurrentWorks /\ StopsAreFrozen
  BY DEF HostInv
<1>2. /\ \A x \in Object : x # o => conv'[x] = conv[x]
      /\ conv' = [x \in Object |-> conv'[x]] /\ conv'[o] = d
  BY <1>1 DEF LinkTyped
<1>3. o # 0 /\ o \in Nat
  BY HostAssumption DEF Object
<1>4. LinkTyped'
  BY <1>1, <1>2, <1>3 DEF LinkTyped
<1>5. \A x \in Object : x # o => AtRest(conv[x])
  BY <1>1, HostAssumption DEF OnlyCurrentWorks, Object
<1>6. OnlyCurrentWorks'
  BY <1>2, <1>5 DEF OnlyCurrentWorks
<1>7. StopsAreFrozen'
  BY <1>1, <1>2, <1>3 DEF StopsAreFrozen, Stays, Frozen, Running
<1> QED
  BY <1>4, <1>6, <1>7 DEF HostInv

LEMMA NewIsSound ==
  ASSUME NEW s, IsState(s), s.active \in s.runs \cup {0}
  PROVE  LET n == NewConversation(s) IN Sound(n) /\ n.live = s /\ ~ n.failed
<1>1. IsState(NoState) /\ NoState.active = 0
  BY DEF NoState, IsState, StateFields
<1> QED
  BY <1>1 DEF NewConversation, Sound, KnowsItsRun, IsConversation, ConversationFields

LEMMA CreateGoesOn ==
  ASSUME HostInv, Create
  PROVE  HostInv'
<1> DEFINE o == counter.object + 1
           n == NewConversation(NoState)
<1>1. LinkTyped /\ OnlyCurrentWorks /\ StopsAreFrozen
  BY DEF HostInv
<1>2. o \in Object
  BY <1>1, HostAssumption DEF LinkTyped, Create, Object
<1>3. IsState(NoState) /\ NoState.active = 0
  BY DEF NoState, IsState, StateFields
<1>4. Sound(n) /\ n.live = NoState
  BY <1>3, NewIsSound
<1>5. /\ BeginCommit(o, n, "idle")
      /\ current = 0 /\ ledger.rev = 0 /\ current' = o
      /\ counter' = [counter EXCEPT !.object = o]
      /\ UNCHANGED <<ledger, arrived, stopped>>
  BY DEF Create
<1> HIDE DEF o, n
<1>6. PICK d : /\ Carries(n, d) /\ conv' = [conv EXCEPT ![o] = d]
               /\ \A m \in wire' : m \in wire \/ IsState(m.state)
  BY <1>4, <1>5, CommitBegins
<1>7. stopped = {} /\ arrived = {}
  BY <1>1, <1>5 DEF LinkTyped, OnlyCurrentWorks, StopsAreFrozen
<1>8. Sound(d) /\ stopped' = {} /\ arrived' = {}
  BY <1>5, <1>6, <1>7 DEF Carries
<1> QED
  BY <1>2, <1>5, <1>6, <1>8, NewIsNamed

\* What a restore makes of a checkpoint: its runs are those of the checkpoint, and
\* a run that is still to be reconciled is stopping.
LEMMA RestoredStops ==
  ASSUME NEW s, IsState(s), {s.active, s.last} \subseteq s.runs \cup {0}
  PROVE  /\ IsState(Restored(s)) /\ Restored(s).runs = s.runs
         /\ Restored(s).active \in s.runs \cup {0}
         /\ Restored(s).active # 0 => Restored(s).status = "stopping"
         /\ Reopened(s).active = 0 => s.active = 0
<1> DEFINE owner == IF s.active = 0 /\ s.pending # {} THEN [s EXCEPT !.active = s.last, !.last = 0] ELSE s
           open == Reopened(s)
           known == Reconcile(open)
           closed == CloseCalls(known, OpenCalls(known), "closed")
<1>1. IsState(owner) /\ owner.runs = s.runs /\ owner.active \in s.runs \cup {0}
      /\ (s.active # 0 => owner.active # 0)
  BY DEF IsState, StateFields
<1>2. open = IF owner.active = 0 THEN owner ELSE [owner EXCEPT !.status = "stopping", !.why = "stopped"]
  BY DEF Reopened
<1> HIDE DEF owner
<1>3. /\ IsState(open) /\ open.runs = s.runs /\ open.active = owner.active
      /\ open.active # 0 => open.status = "stopping"
  BY <1>1, <1>2 DEF IsState, StateFields
<1> HIDE DEF open
<1>4. /\ IsState(known) /\ known.runs = open.runs /\ known.active = open.active /\ known.status = open.status
  BY <1>3 DEF Reconcile, IsState, StateFields
<1>5. Restored(s) = IF StillUnknown(known) THEN known
                    ELSE [closed EXCEPT !.active = 0, !.status = "running", !.last = known.active,
                                        !.outcome = "interrupted"]
  BY DEF Restored, open
<1> HIDE DEF known
<1>6. IsState(closed) /\ closed.runs = known.runs
  <2>1. Continues(known, closed)
    BY <1>4, RunIsLeftAlone
  <2> QED
    BY <2>1 DEF Continues
<1> HIDE DEF closed
<1>7. CASE StillUnknown(known)
  BY <1>1, <1>3, <1>4, <1>5, <1>7 DEF open
<1>8. CASE ~ StillUnknown(known)
  <2>1. IsState(Restored(s)) /\ Restored(s).runs = closed.runs /\ Restored(s).active = 0
    BY <1>5, <1>6, <1>8 DEF IsState, StateFields
  <2> QED
    BY <1>1, <1>3, <1>4, <1>6, <2>1 DEF open
<1> QED
  BY <1>7, <1>8

LEMMA RestoreGoesOn ==
  ASSUME HostInv, ~ RestoreOverStart, Restore
  PROVE  HostInv'
<1> DEFINE o == counter.object + 1
           n == NewConversation(ledger)
           s == Restored(ledger)
<1>1. LinkTyped /\ OnlyCurrentWorks /\ StopsAreFrozen
  BY DEF HostInv
<1>2. o \in Object
  BY <1>1, HostAssumption DEF LinkTyped, Restore, Object
<1>3. IsState(ledger) /\ {ledger.active, ledger.last} \subseteq ledger.runs \cup {0}
  BY <1>1 DEF LinkTyped, Restore, Restorable
<1>4. Sound(n) /\ n.live = ledger
  BY <1>3, NewIsSound
<1>5. /\ current' = o /\ counter' = [counter EXCEPT !.object = o]
      /\ arrived = {} /\ stopped' = stopped \cap ledger.runs
      /\ current # 0 => AtRest(conv[current])
      /\ UNCHANGED <<ledger, arrived>>
  BY DEF Restore, AtRest
<1>6. /\ IsState(s) /\ s.runs = ledger.runs /\ s.active \in ledger.runs \cup {0}
      /\ s.active # 0 => s.status = "stopping"
      /\ Reopened(ledger).active = 0 => ledger.active = 0
  BY <1>3, RestoredStops
<1>7. \/ Reopened(ledger).active = 0 /\ conv' = [conv EXCEPT ![o] = n] /\ wire' = wire
      \/ BeginCommit(o, Changed(n, s), "idle")
  BY DEF Restore
<1>8. 0 \notin stopped'
  BY <1>1, <1>5 DEF StopsAreFrozen, Run
<1> HIDE DEF o, n, s
<1>9. CASE Reopened(ledger).active = 0 /\ conv' = [conv EXCEPT ![o] = n] /\ wire' = wire
  <2>1. n.live.active = 0 /\ n.live.runs = ledger.runs
    BY <1>4, <1>6, <1>9
  <2> QED
    BY <1>2, <1>4, <1>5, <1>8, <1>9, <2>1, NewIsNamed
<1>10. CASE BeginCommit(o, Changed(n, s), "idle")
  <2> DEFINE c == Changed(n, s)
  <2>1. IsConversation(c) /\ c.live = s /\ c.saved = ledger /\ c.sent = NoState
    BY <1>4 DEF n, NewConversation, Changed, IsConversation, ConversationFields
  <2>2. IsState(NoState) /\ NoState.active = 0
    BY DEF NoState, IsState, StateFields
  <2>3. BeginCommit(o, c, "idle")
    BY <1>10
  <2> HIDE DEF c
  <2>4. Sound(c)
    BY <1>3, <1>6, <2>1, <2>2 DEF Sound, KnowsItsRun
  <2>5. PICK d : /\ Carries(c, d) /\ conv' = [conv EXCEPT ![o] = d]
                 /\ \A m \in wire' : m \in wire \/ IsState(m.state)
    BY <2>3, <2>4, CommitBegins
  <2>6. Sound(d) /\ d.live.runs = ledger.runs
    BY <1>6, <2>1, <2>5 DEF Carries
  <2>7. c.live.active # 0 => Frozen(c)
    BY <1>6, <2>1 DEF Frozen, Running
  <2>8. d.live.active # 0 => Frozen(d)
    BY <2>5, <2>7 DEF Carries
  <2> QED
    BY <1>2, <1>5, <1>8, <2>5, <2>6, <2>8, NewIsNamed
<1> QED
  BY <1>7, <1>9, <1>10

LEMMA CrashGoesOn ==
  ASSUME HostInv, Crash
  PROVE  HostInv'
<1> DEFINE n == [NewConversation(NoState) EXCEPT !.pc = "none"]
<1>1. LinkTyped /\ OnlyCurrentWorks /\ StopsAreFrozen
  BY DEF HostInv
<1>2. IsState(NoState) /\ NoState.active = 0
  BY DEF NoState, IsState, StateFields
<1>3. /\ IsConversation(n) /\ n.live = NoState /\ n.saved = NoState /\ n.sent = NoState
      /\ n.pc = "none"
  BY DEF NewConversation, IsConversation, ConversationFields
<1>4. /\ conv' = [o \in Object |-> n] /\ wire' = {} /\ current' = 0 /\ arrived' = {}
      /\ stopped' = stopped \cap ledger.runs /\ ledger' = ledger
      /\ counter' = [counter EXCEPT !.crash = @ + 1]
  BY DEF Crash
<1> HIDE DEF n
<1>5. Sound(n) /\ AtRest(n)
  BY <1>2, <1>3 DEF Sound, KnowsItsRun, AtRest
<1>6. LinkTyped'
  BY <1>1, <1>4, <1>5 DEF LinkTyped
<1>7. OnlyCurrentWorks'
  BY <1>4, <1>5 DEF OnlyCurrentWorks
<1>8. StopsAreFrozen'
  BY <1>1, <1>4 DEF StopsAreFrozen
<1> QED
  BY <1>6, <1>7, <1>8 DEF HostInv

LEMMA LinkGoesOn ==
  ASSUME HostInv, ~ RestoreOverStart, [Next]_vars
  PROVE  HostInv'
<1>1. ASSUME NEW o \in Object, Engine(o) \/ Watch(o) PROVE HostInv'
  BY <1>1, TurnGoesOn, CallGoesOn DEF Engine
<1>2. ASSUME Host PROVE HostInv'
  BY <1>2, CreateGoesOn, RestoreGoesOn, StopGoesOn, CrashGoesOn, StartGoesOn, HostStepGoesOn DEF Host
<1> QED
  BY <1>1, <1>2, HostStepGoesOn DEF Next

\* Commits enter the pipe at many places, a call at one.
LEMMA CommitIsNoCall ==
  ASSUME NEW o, NEW c, NEW then, BeginCommit(o, c, then)
  PROVE  \A m \in wire' : m \in wire \/ m.type = "commit"
  BY DEF BeginCommit

LEMMA OnlyDispatchCalls ==
  ASSUME [Next]_vars, \A o \in Object : Dispatch(o) => Frozen(conv[o])
  PROVE  \A m \in wire' : m \in wire \/ m.type = "commit"
<1>1. ASSUME NEW o \in Object, Engine(o) \/ Watch(o)
      PROVE  \/ wire' = wire
             \/ \E m : m.type = "commit" /\ wire' = wire \cup {m}
             \/ \E c, then : BeginCommit(o, c, then)
  <2>1. ASSUME NEW c, NEW as, ToolSettles(o, c, as) PROVE \E d, then : BeginCommit(o, d, then)
    BY <2>1, Zenon DEF ToolSettles
  <2>2. ASSUME NEW c, NEW a, ModelSettles(o, c, a) PROVE \E d, then : BeginCommit(o, d, then)
    BY <2>2, Zenon DEF ModelSettles
  <2>3. ASSUME NEW c, NoAnswer(o, c) PROVE wire' = wire \/ \E d, then : BeginCommit(o, d, then)
    BY <2>1, <2>3, Zenon DEF NoAnswer, ModelLost
  <2>4. ASSUME CommitAnswered(o) \/ Unresolved(o) \/ Fail(o) \/ CallTimesOut(o) \/ Watch(o) PROVE wire' = wire
    BY <2>4, Zenon DEF CommitAnswered, Unresolved, Fail, CallTimesOut, Watch
  <2>5. ASSUME CommitTimesOut(o) PROVE wire' = wire \/ \E m : m.type = "commit" /\ wire' = wire \cup {m}
    BY <2>5 DEF CommitTimesOut
  <2>6. ASSUME CommitInput(o) \/ Think(o) PROVE wire' = wire \/ \E d, then : BeginCommit(o, d, then)
    BY <2>6, Zenon DEF CommitInput, Think
  <2>7. ASSUME Batch(o) PROVE wire' = wire \/ \E d, then : BeginCommit(o, d, then)
    BY <2>7, Zenon DEF Batch
  <2>8. ASSUME Launch(o) PROVE wire' = wire \/ \E d, then : BeginCommit(o, d, then)
    BY <2>1, <2>8, Zenon DEF Launch
  <2>9. ASSUME Finish(o) PROVE wire' = wire \/ \E d, then : BeginCommit(o, d, then)
    BY <2>9, Zenon DEF Finish
  <2>10. ASSUME Dispatch(o) PROVE wire' = wire \/ \E d, then : BeginCommit(o, d, then)
    <3>1. NoAnswer(o, conv[o])
      BY <2>10 DEF Dispatch
    <3> QED
      BY <2>3, <3>1
  <2>11. ASSUME GraceEnds(o) PROVE wire' = wire \/ \E d, then : BeginCommit(o, d, then)
    BY <2>3, <2>11, Zenon DEF GraceEnds
  <2>12. ASSUME CallAnswered(o) PROVE wire' = wire \/ \E d, then : BeginCommit(o, d, then)
    BY <2>1, <2>2, <2>3, <2>12, Zenon DEF CallAnswered
  <2> QED
    BY <1>1, <2>4, <2>5, <2>6, <2>7, <2>8, <2>9, <2>10, <2>11, <2>12, Zenon DEF Engine
<1>2. ASSUME Host \/ UNCHANGED vars
      PROVE  wire' \subseteq wire \/ \E o, c, then : BeginCommit(o, c, then)
  <2>1. ASSUME Create \/ Restore PROVE wire' = wire \/ \E o, c, then : BeginCommit(o, c, then)
    BY <2>1, Zenon DEF Create, Restore
  <2>2. ASSUME \/ Shutdown \/ Crash
               \/ \E r \in Run : StartArrives(r) \/ Interrupt(r)
               \/ \E a \in arrived : Start(a)
               \/ \E m \in wire : HostCommits(m) \/ HostReceives(m)
               \/ \E id \in DOMAIN ops : HostSettles(id)
               \/ UNCHANGED vars
        PROVE  wire' \subseteq wire
    BY <2>2 DEF Shutdown, Crash, StartArrives, Interrupt, Start, HostCommits, HostReceives, HostSettles, vars
  <2> QED
    BY <1>2, <2>1, <2>2 DEF Host
<1> QED
  BY <1>1, <1>2, CommitIsNoCall DEF Next

\* What is dispatched is of the run that is live, and a stopped one is frozen.
LEMMA NothingOfAStoppedRun ==
  ASSUME HostInv, [Next]_vars, NEW m \in wire' \ wire, m.type = "call"
  PROVE  m.run \notin stopped
<1>1. PICK o \in Object : Dispatch(o) /\ ~ Frozen(conv[o])
  BY OnlyDispatchCalls
<1>2. m.run = conv[o].live.active
  BY <1>1 DEF Dispatch
<1>3. o = current /\ current # 0
  BY <1>1, HostAssumption DEF HostInv, OnlyCurrentWorks, Dispatch, AtRest, Object
<1> QED
  BY <1>1, <1>2, <1>3 DEF HostInv, StopsAreFrozen, Stays

\* However interrupts, answers, timeouts, restores and kills fall together, no request
\* of a run enters the pipe once its interrupt is acknowledged, when the host does not
\* restore a conversation over a run.start of its own (conversation.interrupt, and
\* callback of internal/host/ports.go).
THEOREM InterruptFreezesDispatch == ~ RestoreOverStart => (Spec => NoDispatchAfterInterrupt)
<1> SUFFICES ASSUME ~ RestoreOverStart PROVE Spec => NoDispatchAfterInterrupt
  OBVIOUS
<1>1. Init => HostInv
  BY LinkBegins
<1>2. HostInv /\ [Next]_vars => HostInv'
  BY LinkGoesOn
<1>3. HostInv /\ [Next]_vars => [\A m \in wire' \ wire : m.type = "call" => m.run \notin stopped]_vars
  BY NothingOfAStoppedRun
<1> QED
  BY <1>1, <1>2, <1>3, PTL DEF Spec, NoDispatchAfterInterrupt

\* One conversation object works at most, the one the table names: those a restore has
\* replaced are idle, and no start is on its way to them (Server.restore).
THEOREM OneConversationWorks == ~ RestoreOverStart => (Spec => []OnlyCurrentWorks)
<1> SUFFICES ASSUME ~ RestoreOverStart PROVE Spec => []OnlyCurrentWorks
  OBVIOUS
<1>1. HostInv => OnlyCurrentWorks
  BY DEF HostInv
<1> QED
  BY <1>1, LinkBegins, LinkGoesOn, PTL DEF Spec

-----------------------------------------------------------------------------
(* The ledger.  Which commit a message in a pipe belongs to, what a conversation  *)
(* holds at each place of its goroutine, and what became of every call that left. *)

There(c) == c.pc # "none"
Committing(c) == c.pc = "committing"

\* Where the goroutine is, or is going when its commit is through.
Place(c) == IF Committing(c) THEN c.then ELSE c.pc
Places == {"none", "idle", "input", "think", "limit", "batch", "launch", "calling", "waiting",
           "unresolved", "fail", "ending"}
Goals == Places \ {"none", "input", "limit", "waiting"}
Works(p) == p \notin {"none", "idle"}

PendingIds(s) == {p.id : p \in s.pending}
SameContent(s, t) == s.calls = t.calls /\ s.results = t.results /\ s.pending = t.pending

\* The state a conversation has committed or is about to is the live one, but for
\* how its run is doing.
Revised(c) ==
  /\ c.rev \in Nat
  /\ Works(c.pc) => ~ c.failed
  /\ Committing(c) => c.sent.rev = c.rev + 1
  /\ There(c) /\ ~ c.dirty => c.live = c.saved
  /\ Committing(c) /\ ~ c.touched => [c.live EXCEPT !.rev = c.sent.rev] = c.sent
  /\ There(c) /\ ~ c.failed => SameContent(c.live, IF Committing(c) THEN c.sent ELSE c.saved)

\* What the run of state s has pending at place p.  A run nobody stopped leaves only
\* the call it is at.
RequestIds == [kind : {"tool", "model"}, n : Nat]
Unhurt(s, cancelled) == ~ cancelled /\ s.why = ""
Reasoned(s) == s.status = "running" \/ (s.status = "stopping" /\ s.why # "")
CourseAt(p, w, s, cancelled) ==
  /\ s.calls \subseteq Nat
  /\ Works(p) => s.active # 0 /\ Reasoned(s)
  /\ p \in {"launch", "calling", "waiting"} =>
       /\ w \in RequestIds /\ w \in PendingIds(s)
       /\ w.kind = "tool" => w.n \notin Answered(s)
       /\ Unhurt(s, cancelled) => PendingIds(s) \subseteq {w}
       /\ p = "launch" => w.kind = "tool"
  /\ p \in {"input", "think", "limit", "batch", "ending"} /\ Unhurt(s, cancelled) => s.pending = {}
Course(c) ==
  /\ c.then \in Goals /\ Place(c) \in Places
  /\ CourseAt(Place(c), c.wait, c.live, c.cancelled)

Conversations == \A o \in Object : Revised(conv[o]) /\ Course(conv[o])

\* Identities of objects and of checkpoints.
Identity(o, rev) == [obj |-> o, rev |-> rev]
Counted ==
  /\ \A o \in Object : There(conv[o]) => o <= counter.object
  /\ current # 0 => There(conv[current])
  /\ \A id \in applied : id.obj \in 1 .. counter.object /\ id.rev \in 1 .. ledger.rev
  /\ ledger.rev = 0 => ledger = NoState

\* A commit in the pipe is the one its object waits for, or of an object that failed.
CommitsInWire ==
  \A m \in wire : m.type = "commit" =>
    /\ m = [type |-> "commit", obj |-> m.obj, state |-> m.state]
    /\ m.obj \in Object /\ There(conv[m.obj])
    /\ m.state.rev = conv[m.obj].rev + 1
    /\ IF Committing(conv[m.obj]) THEN m.state = conv[m.obj].sent ELSE conv[m.obj].failed

\* An answer is to the commit its object waits for, and that commit left the pipe.
AnswersKnown ==
  \A a \in answers : a.type = "commit" =>
    /\ a.obj \in Object /\ Committing(conv[a.obj])
    /\ a.ok => Identity(a.obj, conv[a.obj].sent.rev) \in applied
    /\ \A m \in wire : m.type = "commit" => m.obj # a.obj
    /\ \A b \in answers : b.type = "commit" /\ b.obj = a.obj => b = a

\* A checkpoint the host has applied is in the engine's revision, or is the one it
\* waits for.
AppliedKnown ==
  \A o \in Object, rev \in Nat : There(conv[o]) /\ Identity(o, rev) \in applied =>
    \/ rev <= conv[o].rev \/ conv[o].failed
    \/ /\ Committing(conv[o]) /\ rev = conv[o].sent.rev
       /\ ledger.rev = rev => ledger = conv[o].sent

\* Once the host has applied a checkpoint of the conversation the table names, it
\* refuses those of the others, and engine and host go in step.
Established(o) == \E rev \in Nat : Identity(o, rev) \in applied
Overtaken ==
  \A o \in Object : o = current /\ Established(o) =>
    \A m \in wire : m.type = "commit" /\ m.obj # o => m.state.rev <= ledger.rev
InStep ==
  \A o \in Object : o = current /\ Established(o) /\ ~ conv[o].failed =>
    IF Committing(conv[o]) /\ Identity(o, conv[o].sent.rev) \in applied
    THEN ledger = conv[o].sent
    ELSE ledger.rev = conv[o].rev
WorkerIsEstablished ==
  \A o \in Object : o = current /\ conv[o].pc \notin {"none", "idle", "input", "committing"} => Established(o)

Protocol ==
  /\ Counted /\ CommitsInWire /\ AnswersKnown /\ AppliedKnown
  /\ Overtaken /\ InStep /\ WorkerIsEstablished /\ SavedIsLedger

\* The requests that left the engine, and what a state tells of them.
Out == DOMAIN ops \cup {m.id : m \in {x \in wire : x.type = "call"}}
AllAnswered(s, out) == \A id \in out : id.kind = "tool" => id.n \in Answered(s)
TrueOf(s, out) ==
  /\ s.calls \subseteq Nat
  /\ \A r \in s.results : r.as = "closed" => Tool(r.call) \notin out
  /\ \A id \in out : id.kind = "tool" => id \in PendingIds(s) \/ id.n \in Answered(s)
  /\ s.active = 0 /\ s.outcome = "completed" => s.pending = {} /\ OpenCalls(s) = {}

\* Of the conversation that works everything that left is answered, but the call it
\* waits for.
Owed(c) == IF c.pc = "waiting" THEN {c.wait} ELSE {}
UpToDate(o) ==
  \/ ledger.rev = conv[o].rev
  \/ Committing(conv[o]) /\ Identity(o, conv[o].sent.rev) \in applied
Accounted ==
  \A o \in Object : o = current /\ Works(Place(conv[o])) /\ UpToDate(o) =>
    AllAnswered(conv[o].live, Out \ Owed(conv[o]))

Says(kind, as) ==
  as # "closed" /\ (kind = "model" => as \in {"tools", "text", "length", "unpriced", "invalid"})
CallsTyped ==
  /\ Out \subseteq RequestIds
  /\ \A id \in DOMAIN ops : /\ ops[id].calls \subseteq Nat
                            /\ ops[id].stage = "settled" => Says(id.kind, ops[id].as)
  /\ \A a \in answers : a.type \in {"commit", "call"} /\
       (a.type = "call" => a.calls \subseteq Nat /\ Says(a.id.kind, a.as))

Truth ==
  /\ TrueOf(ledger, Out)
  /\ \A m \in wire : m.type = "commit" /\ m.state.rev = ledger.rev + 1 => TrueOf(m.state, Out)
  /\ \A o \in Object : Committing(conv[o]) /\ conv[o].sent.rev = ledger.rev + 1 => TrueOf(conv[o].sent, Out)
  /\ Accounted /\ CallsTyped

\* A start on its way is one of a run.
StartsKnown == \A a \in arrived : a.run # 0

LedgerInv == HostInv /\ Conversations /\ Protocol /\ Truth /\ StartsKnown

-----------------------------------------------------------------------------
(* What becomes of the object in a step that leaves the calls alone.        *)

\* d has the content of c; if its live state is another, the conversation says so.
Alters(c, d) ==
  /\ IsConversation(d) /\ IsState(d.live)
  /\ d.rev = c.rev /\ d.saved = c.saved /\ d.sent = c.sent /\ d.failed = c.failed
  /\ d.then = c.then /\ d.wait = c.wait
  /\ SameContent(d.live, c.live)
  /\ \/ d.live = c.live /\ d.dirty = c.dirty /\ d.touched = c.touched
     \/ d.dirty = TRUE /\ d.touched = TRUE

\* Its run is as badly hurt as that of c, or worse.
Suffers(c, d) ==
  /\ d.live.active = c.live.active
  /\ Reasoned(c.live) => Reasoned(d.live)
  /\ c.live.why # "" => d.live.why # ""
  /\ c.cancelled => d.cancelled
Lives(c, d) == Alters(c, d) /\ Suffers(c, d)

LEMMA LivesOn ==
  ASSUME NEW c, NEW d, NEW e, Lives(c, d), Lives(d, e)
  PROVE  Lives(c, e)
<1>1. Alters(c, e)
  BY DEF Lives, Alters, SameContent
<1>2. Suffers(c, e)
  BY DEF Lives, Suffers
<1> QED
  BY <1>1, <1>2 DEF Lives

LEMMA SameLives ==
  ASSUME NEW c, Sound(c)
  PROVE  Lives(c, c)
  BY DEF Sound, Lives, Alters, Suffers, SameContent

LEMMA GotoLives ==
  ASSUME NEW c, NEW pc, Sound(c)
  PROVE  Lives(c, Goto(c, pc)) /\ Goto(c, pc).pc = pc /\ Goto(c, pc).cancelled = c.cancelled
                               /\ Goto(c, pc).live = c.live
<1> DEFINE d == Goto(c, pc)
<1>1. /\ IsConversation(d) /\ d.live = c.live /\ d.saved = c.saved /\ d.rev = c.rev /\ d.sent = c.sent
      /\ d.failed = c.failed /\ d.cancelled = c.cancelled /\ d.then = c.then /\ d.wait = c.wait
      /\ d.dirty = c.dirty /\ d.touched = c.touched /\ d.pc = pc
  BY DEF Goto, Sound, IsConversation, ConversationFields
<1> HIDE DEF d
<1>2. Alters(c, d)
  BY <1>1 DEF Alters, SameContent, Sound
<1>3. Suffers(c, d)
  BY <1>1 DEF Suffers
<1> QED
  BY <1>1, <1>2, <1>3 DEF Lives, d

\* A change of the run's status and reason.
LEMMA ChangedLives ==
  ASSUME NEW c, NEW s, Sound(c), IsState(s), SameContent(s, c.live), s.active = c.live.active,
         (s.status = "stopping" /\ s.why # "") \/ s.status = c.live.status,
         c.live.why # "" => s.why # ""
  PROVE  LET d == Changed(c, s) IN
         Lives(c, d) /\ d.pc = c.pc /\ d.live = s /\ d.cancelled = c.cancelled /\ IsConversation(d)
<1> DEFINE d == Changed(c, s)
<1>1. /\ IsConversation(d) /\ d.live = s /\ d.saved = c.saved /\ d.rev = c.rev /\ d.sent = c.sent
      /\ d.failed = c.failed /\ d.cancelled = c.cancelled /\ d.then = c.then /\ d.wait = c.wait
      /\ d.dirty = TRUE /\ d.touched = TRUE /\ d.pc = c.pc
  BY DEF Changed, Sound, IsConversation, ConversationFields
<1> HIDE DEF d
<1>2. Alters(c, d)
  BY <1>1 DEF Alters
<1>3. Suffers(c, d)
  BY <1>1 DEF Suffers, Reasoned
<1> QED
  BY <1>1, <1>2, <1>3 DEF Lives, d

LEMMA CancelLives ==
  ASSUME NEW c, IsConversation(c), IsState(c.live)
  PROVE  LET d == [c EXCEPT !.cancelled = TRUE] IN
         Lives(c, d) /\ d.pc = c.pc /\ d.live = c.live /\ d.cancelled = TRUE
<1> DEFINE d == [c EXCEPT !.cancelled = TRUE]
<1>1. /\ IsConversation(d) /\ d.live = c.live /\ d.saved = c.saved /\ d.rev = c.rev /\ d.sent = c.sent
      /\ d.failed = c.failed /\ d.cancelled = TRUE /\ d.then = c.then /\ d.wait = c.wait
      /\ d.dirty = c.dirty /\ d.touched = c.touched /\ d.pc = c.pc
  BY DEF IsConversation, ConversationFields
<1> HIDE DEF d
<1>2. Alters(c, d)
  BY <1>1 DEF Alters, SameContent
<1>3. Suffers(c, d)
  BY <1>1 DEF Suffers
<1> QED
  BY <1>1, <1>2, <1>3 DEF Lives, d

LEMMA StopRunLives ==
  ASSUME NEW c, Sound(c)
  PROVE  Lives(c, StopRun(c)) /\ StopRun(c).pc = c.pc /\ (c.live.active # 0 => StopRun(c).cancelled = TRUE)
<1> DEFINE s == [c.live EXCEPT !.status = "stopping", !.why = "stopped"]
           e == IF c.live.status = "stopping" THEN c ELSE Changed(c, s)
<1>1. CASE c.live.active = 0
  BY <1>1, SameLives DEF StopRun
<1>2. CASE c.live.active # 0
  <2>1. /\ IsState(s) /\ SameContent(s, c.live) /\ s.active = c.live.active
          /\ s.why = "stopped" /\ s.status = "stopping"
    BY DEF Sound, IsState, StateFields, SameContent
  <2> HIDE DEF s
  <2>2. Lives(c, Changed(c, s)) /\ Changed(c, s).pc = c.pc
    BY <2>1, ChangedLives
  <2>3. Lives(c, e) /\ e.pc = c.pc
    BY <2>2, SameLives
  <2>4. StopRun(c) = [e EXCEPT !.cancelled = TRUE]
    BY <1>2 DEF StopRun, s
  <2> HIDE DEF e
  <2>5. IsConversation(e) /\ IsState(e.live)
    BY <2>3 DEF Lives, Alters
  <2> QED
    BY <2>3, <2>4, <2>5, CancelLives, LivesOn
<1> QED
  BY <1>1, <1>2

LEMMA FailRunLives ==
  ASSUME NEW c, Sound(c)
  PROVE  Lives(c, FailRun(c)) /\ FailRun(c).pc = c.pc /\ (c.live.active # 0 => FailRun(c).live.why # "")
<1> DEFINE s == [c.live EXCEPT !.why = "failed"]
<1>1. /\ IsState(s) /\ SameContent(s, c.live) /\ s.active = c.live.active
      /\ s.why = "failed" /\ s.status = c.live.status
  BY DEF Sound, IsState, StateFields, SameContent
<1> HIDE DEF s
<1>2. Lives(c, Changed(c, s)) /\ Changed(c, s).pc = c.pc /\ Changed(c, s).live = s
  BY <1>1, ChangedLives
<1> QED
  BY <1>1, <1>2, SameLives DEF FailRun, s

LEMMA LivesRevised ==
  ASSUME NEW c, NEW d, Revised(c), Lives(c, d), There(c), Committing(d) <=> Committing(c), Works(d.pc) => Works(c.pc)
  PROVE  Revised(d)
<1>1. d.rev \in Nat /\ (Works(d.pc) => ~ d.failed) /\ (Committing(d) => d.sent.rev = d.rev + 1)
  BY DEF Revised, Lives, Alters
<1>2. There(d) /\ ~ d.dirty => d.live = d.saved
  BY DEF Revised, Lives, Alters
<1>3. Committing(d) /\ ~ d.touched => [d.live EXCEPT !.rev = d.sent.rev] = d.sent
  BY DEF Revised, Lives, Alters
<1>4. There(d) /\ ~ d.failed => SameContent(d.live, IF Committing(d) THEN d.sent ELSE d.saved)
  BY DEF Revised, Lives, Alters, SameContent
<1> QED
  BY <1>1, <1>2, <1>3, <1>4 DEF Revised

\* At the same place a run may be worse off, and no more than that.
LEMMA LivesCourse ==
  ASSUME NEW c, NEW d, NEW p, NEW w, Lives(c, d), CourseAt(p, w, c.live, c.cancelled)
  PROVE  CourseAt(p, w, d.live, d.cancelled)
<1>1. /\ d.live.calls = c.live.calls /\ d.live.results = c.live.results /\ d.live.pending = c.live.pending
      /\ d.live.active = c.live.active
      /\ Unhurt(d.live, d.cancelled) => Unhurt(c.live, c.cancelled)
      /\ Reasoned(c.live) => Reasoned(d.live)
  BY DEF Lives, Alters, Suffers, SameContent, Unhurt
<1>2. PendingIds(d.live) = PendingIds(c.live) /\ Answered(d.live) = Answered(c.live)
  BY <1>1 DEF PendingIds, Answered
<1> QED
  BY <1>1, <1>2 DEF CourseAt

\* A commit begins: the object and the message in the pipe.
Begun(c, d, then) ==
  /\ IsConversation(d)
  /\ d.live = c.live /\ d.saved = c.saved /\ d.rev = c.rev /\ d.failed = c.failed
  /\ d.cancelled = c.cancelled /\ d.wait = c.wait /\ d.dirty = c.dirty
  /\ d.pc = "committing" /\ d.then = then /\ d.touched = FALSE
  /\ d.sent = [c.live EXCEPT !.rev = c.rev + 1]

LEMMA Begins ==
  ASSUME NEW o, NEW c, NEW then, IsConversation(c), ~ c.failed, BeginCommit(o, c, then)
  PROVE  \E d : /\ Begun(c, d, then)
                /\ conv' = [conv EXCEPT ![o] = d]
                /\ wire' = wire \cup {[type |-> "commit", obj |-> o, state |-> d.sent]}
<1> DEFINE s == [c.live EXCEPT !.rev = c.rev + 1]
           d == [c EXCEPT !.pc = "committing", !.then = then, !.sent = s, !.attempt = 1, !.touched = FALSE]
<1>1. /\ conv' = [conv EXCEPT ![o] = d]
      /\ wire' = wire \cup {[type |-> "commit", obj |-> o, state |-> s]}
  BY DEF BeginCommit
<1> HIDE DEF s
<1>2. /\ IsConversation(d)
      /\ d.live = c.live /\ d.saved = c.saved /\ d.rev = c.rev /\ d.failed = c.failed
      /\ d.cancelled = c.cancelled /\ d.wait = c.wait /\ d.dirty = c.dirty
      /\ d.pc = "committing" /\ d.then = then /\ d.touched = FALSE
      /\ d.sent = s
  BY DEF IsConversation, ConversationFields
<1> HIDE DEF d
<1> QED
  BY <1>1, <1>2 DEF Begun, s

LEMMA BegunRevised ==
  ASSUME NEW c, NEW d, NEW then, Begun(c, d, then), IsState(c.live), c.rev \in Nat, ~ c.failed,
         c.dirty = TRUE \/ c.live = c.saved
  PROVE  /\ Revised(d) /\ SameContent(d.sent, d.live)
         /\ d.sent.rev = c.rev + 1 /\ d.sent.active = d.live.active /\ d.sent.outcome = d.live.outcome
<1>1. /\ d.sent.rev = c.rev + 1 /\ d.sent.active = d.live.active /\ d.sent.outcome = d.live.outcome
      /\ SameContent(d.sent, d.live)
  BY DEF Begun, IsState, StateFields, SameContent
<1>2. There(d) /\ Committing(d) /\ ~ d.failed /\ d.rev \in Nat /\ d.sent.rev = d.rev + 1
  BY <1>1 DEF Begun, There, Committing
<1>3. ~ d.dirty => d.live = d.saved
  BY DEF Begun
<1>4. [d.live EXCEPT !.rev = d.sent.rev] = d.sent
  BY <1>1 DEF Begun
<1>5. SameContent(d.live, d.sent)
  BY <1>1 DEF SameContent
<1> QED
  BY <1>1, <1>2, <1>3, <1>4, <1>5 DEF Revised

-----------------------------------------------------------------------------
(* The objects and the pipe, in a step of the conversation that works.      *)

LEMMA OneConversation ==
  ASSUME LinkTyped, Conversations, NEW o \in Object, NEW d, conv' = [conv EXCEPT ![o] = d], Revised(d), Course(d)
  PROVE  Conversations' /\ conv'[o] = d /\ \A x \in Object : x # o => conv'[x] = conv[x]
<1>1. \A x \in Object : conv'[x] = IF x = o THEN d ELSE conv[x]
  BY DEF LinkTyped
<1> QED
  BY <1>1 DEF Conversations

\* The commits and their answers stay where they are.
SameCommits ==
  /\ \A m : m.type = "commit" => (m \in wire' <=> m \in wire)
  /\ \A a : a.type = "commit" => (a \in answers' <=> a \in answers)

LEMMA ProtocolMoves ==
  ASSUME LinkTyped, Protocol, NEW o \in Object, o = current, NEW d, conv' = [conv EXCEPT ![o] = d],
         There(d), d.rev = conv[o].rev, d.saved = conv[o].saved, d.sent = conv[o].sent, d.failed = conv[o].failed,
         Committing(d) <=> Committing(conv[o]),
         d.pc \in {"idle", "input"} \/ conv[o].pc \notin {"none", "idle", "input", "committing"} \/ Committing(d),
         SameCommits, UNCHANGED <<ledger, applied, current>>, counter'.object = counter.object
  PROVE  Protocol'
<1> DEFINE c == conv[o]
<1>1. /\ \A x \in Object : x # o => conv'[x] = conv[x]
      /\ conv'[o] = d
  BY DEF LinkTyped
<1>2. o # 0
  BY DEF Object
<1>3. \A x \in Object : /\ There(conv'[x]) <=> There(conv[x])
                        /\ conv'[x].rev = conv[x].rev /\ conv'[x].saved = conv[x].saved
                        /\ conv'[x].sent = conv[x].sent /\ conv'[x].failed = conv[x].failed
                        /\ Committing(conv'[x]) <=> Committing(conv[x])
  BY <1>1, <1>2 DEF Protocol, Counted
<1> HIDE DEF c
<1>4. Counted'
  <2>1. current # 0 /\ current' = o /\ There(conv'[o])
    BY <1>1, <1>2
  <2> QED
    BY <1>3, <2>1 DEF Protocol, Counted
<1>5. CommitsInWire'
  BY <1>3 DEF Protocol, CommitsInWire, SameCommits
<1>6. AnswersKnown'
  BY <1>3 DEF Protocol, AnswersKnown, SameCommits
<1>7. AppliedKnown'
  BY <1>3 DEF Protocol, AppliedKnown
<1>8. Overtaken'
  BY <1>3 DEF Protocol, Overtaken, Established, SameCommits
<1>9. InStep'
  BY <1>3 DEF Protocol, InStep, Established
<1>10. WorkerIsEstablished'
  BY <1>1 DEF Protocol, WorkerIsEstablished, Established, Committing
<1>11. SavedIsLedger'
  BY <1>3 DEF Protocol, SavedIsLedger, There
<1> QED
  BY <1>4, <1>5, <1>6, <1>7, <1>8, <1>9, <1>10, <1>11 DEF Protocol

LEMMA ProtocolBegins ==
  ASSUME LinkTyped, Protocol, NEW o \in Object, o = current, NEW d, conv' = [conv EXCEPT ![o] = d],
         There(conv[o]), ~ Committing(conv[o]), ~ conv[o].failed, conv[o].rev \in Nat,
         Committing(d), ~ d.failed, d.rev = conv[o].rev, d.saved = conv[o].saved, d.sent.rev = d.rev + 1,
         wire' = wire \cup {[type |-> "commit", obj |-> o, state |-> d.sent]},
         \A a : a.type = "commit" => (a \in answers' <=> a \in answers),
         UNCHANGED <<ledger, applied, current>>, counter'.object = counter.object
  PROVE  Protocol'
<1> DEFINE c == conv[o]
           msg == [type |-> "commit", obj |-> o, state |-> d.sent]
<1>1. /\ \A x \in Object : x # o => conv'[x] = conv[x]
      /\ conv'[o] = d /\ There(d)
  BY DEF LinkTyped, Committing, There
<1>2. \A m \in wire : m.type = "commit" => m.obj # o
  BY DEF Protocol, CommitsInWire
<1>3. \A rev \in Nat : Identity(o, rev) \in applied => rev <= c.rev
  BY DEF Protocol, AppliedKnown
<1>4. Identity(o, d.sent.rev) \notin applied
  BY <1>3
<1>5. Counted'
  BY <1>1 DEF Protocol, Counted
<1>6. CommitsInWire'
  <2>1. ASSUME NEW m \in wire', m.type = "commit"
        PROVE  /\ m = [type |-> "commit", obj |-> m.obj, state |-> m.state]
               /\ m.obj \in Object /\ There(conv'[m.obj])
               /\ m.state.rev = conv'[m.obj].rev + 1
               /\ IF Committing(conv'[m.obj]) THEN m.state = conv'[m.obj].sent ELSE conv'[m.obj].failed
    <3>1. CASE m = msg
      BY <1>1, <3>1
    <3>2. CASE m \in wire
      BY <1>1, <1>2, <2>1, <3>2 DEF Protocol, CommitsInWire
    <3> QED
      BY <3>1, <3>2
  <2> QED
    BY <2>1 DEF CommitsInWire
<1>7. AnswersKnown'
  <2>1. \A a \in answers : a.type = "commit" => a.obj # o
    BY DEF Protocol, AnswersKnown
  <2>2. \A a \in answers' : a.type = "commit" => a \in answers
    OBVIOUS
  <2>3. \A m \in wire' : m.type = "commit" => m.obj = o \/ m \in wire
    OBVIOUS
  <2> QED
    BY <1>1, <2>1, <2>2, <2>3 DEF Protocol, AnswersKnown
<1>8. AppliedKnown'
  BY <1>1, <1>3 DEF Protocol, AppliedKnown
<1>9. Overtaken'
  <2>1. \A m \in wire' : m.type = "commit" /\ m.obj # o => m \in wire
    OBVIOUS
  <2> QED
    BY <2>1 DEF Protocol, Overtaken, Established
<1>10. InStep'
  BY <1>1, <1>4 DEF Protocol, InStep, Established
<1>11. WorkerIsEstablished'
  BY <1>1 DEF WorkerIsEstablished, Committing
<1>12. SavedIsLedger'
  BY <1>1 DEF Protocol, SavedIsLedger, There
<1> QED
  BY <1>5, <1>6, <1>7, <1>8, <1>9, <1>10, <1>11, <1>12 DEF Protocol

\* A new object enters the table with what the ledger holds.
LEMMA ProtocolRenews ==
  ASSUME LinkTyped, Protocol, NEW o \in Object, o = counter.object + 1, NEW d, conv' = [conv EXCEPT ![o] = d],
         There(d), d.rev = ledger.rev, d.saved = ledger, d.rev \in Nat,
         \/ d.pc = "idle" /\ wire' = wire
         \/ /\ Committing(d) /\ d.sent.rev = d.rev + 1
            /\ wire' = wire \cup {[type |-> "commit", obj |-> o, state |-> d.sent]},
         current' = o, counter'.object = o, UNCHANGED <<ledger, applied, answers>>
  PROVE  Protocol'
<1> DEFINE msg == [type |-> "commit", obj |-> o, state |-> d.sent]
<1>1. /\ \A x \in Object : x # o => conv'[x] = conv[x]
      /\ conv'[o] = d
  BY DEF LinkTyped
<1>2. counter.object \in Nat /\ o \in Nat
  BY DEF LinkTyped
<1>3. ~ There(conv[o]) /\ \A rev \in Nat : Identity(o, rev) \notin applied
  BY <1>2 DEF Protocol, Counted, Identity
<1>4. Counted'
  <2>1. \A x \in Object : There(conv'[x]) => x <= o
    BY <1>1, <1>2, HostAssumption DEF Protocol, Counted, Object
  <2> QED
    BY <1>1, <1>2, <2>1 DEF Protocol, Counted
<1>5. CommitsInWire'
  <2>1. ASSUME NEW m \in wire', m.type = "commit"
        PROVE  /\ m = [type |-> "commit", obj |-> m.obj, state |-> m.state]
               /\ m.obj \in Object /\ There(conv'[m.obj])
               /\ m.state.rev = conv'[m.obj].rev + 1
               /\ IF Committing(conv'[m.obj]) THEN m.state = conv'[m.obj].sent ELSE conv'[m.obj].failed
    <3>1. CASE m = msg /\ Committing(d) /\ d.sent.rev = d.rev + 1
      BY <1>1, <3>1
    <3>2. CASE m \in wire
      BY <1>1, <1>3, <2>1, <3>2 DEF Protocol, CommitsInWire
    <3> QED
      BY <3>1, <3>2
  <2> QED
    BY <2>1 DEF CommitsInWire
<1>6. AnswersKnown'
  <2>1. \A a \in answers : a.type = "commit" => a.obj # o
    BY <1>3 DEF Protocol, AnswersKnown, Committing, There
  <2>2. \A m \in wire' : m.type = "commit" => m.obj = o \/ m \in wire
    OBVIOUS
  <2> QED
    BY <1>1, <2>1, <2>2 DEF Protocol, AnswersKnown
<1>7. AppliedKnown'
  BY <1>1, <1>3 DEF Protocol, AppliedKnown
<1>8. ~ Established(o)'
  BY <1>3 DEF Established
<1>9. Overtaken' /\ InStep'
  BY <1>8 DEF Overtaken, InStep, Established
<1>10. WorkerIsEstablished'
  BY <1>1 DEF WorkerIsEstablished, Committing
<1>11. SavedIsLedger'
  BY <1>1, <1>2 DEF Protocol, SavedIsLedger, There, LinkTyped
<1> QED
  BY <1>4, <1>5, <1>6, <1>7, <1>9, <1>10, <1>11 DEF Protocol

LEMMA SucceededRevised ==
  ASSUME NEW c, Sound(c), Revised(c), Course(c), Committing(c)
  PROVE  LET d == CommitSucceeded(c) IN
         /\ Revised(d) /\ Course(d) /\ IsConversation(d)
         /\ d.rev = c.sent.rev /\ d.saved = c.sent /\ d.failed = c.failed /\ d.pc = c.then /\ d.wait = c.wait
         /\ SameContent(d.live, c.live)
<1> DEFINE d == CommitSucceeded(c)
<1>1. /\ IsConversation(d) /\ d.rev = c.sent.rev /\ d.live = [c.live EXCEPT !.rev = c.sent.rev]
      /\ d.saved = c.sent /\ d.dirty = c.touched /\ d.pc = c.then /\ d.failed = c.failed
      /\ d.then = c.then /\ d.wait = c.wait /\ d.cancelled = c.cancelled
  BY DEF CommitSucceeded, Sound, IsConversation, ConversationFields
<1>2. /\ SameContent(d.live, c.live) /\ d.live.active = c.live.active /\ d.live.status = c.live.status
      /\ d.live.why = c.live.why
  BY <1>1 DEF Sound, IsState, StateFields, SameContent
<1> HIDE DEF d
<1>3. d.pc \in Goals /\ ~ Committing(d) /\ Place(d) = c.then /\ There(d) /\ Place(c) = c.then
  BY <1>1 DEF Course, Goals, Places, Committing, Place, There
<1>4. Revised(d)
  <2>1. d.rev \in Nat /\ ~ d.failed
    BY <1>1 DEF Revised, Works, Committing
  <2>2. ~ d.dirty => d.live = d.saved
    BY <1>1 DEF Revised
  <2>3. SameContent(d.live, d.saved)
    BY <1>1, <1>2, <2>1 DEF Revised, SameContent, There, Committing
  <2> QED
    BY <1>3, <2>1, <2>2, <2>3 DEF Revised
<1>5. CourseAt(c.then, d.wait, d.live, d.cancelled)
  <2>1. PendingIds(d.live) = PendingIds(c.live) /\ Answered(d.live) = Answered(c.live)
    BY <1>2 DEF PendingIds, Answered, SameContent
  <2>2. CourseAt(c.then, c.wait, c.live, c.cancelled)
    BY <1>3 DEF Course
  <2> QED
    BY <1>1, <1>2, <2>1, <2>2 DEF CourseAt, Unhurt, Reasoned, SameContent
<1>6. Course(d)
  BY <1>1, <1>3, <1>5 DEF Course, Goals
<1> QED
  BY <1>1, <1>2, <1>4, <1>6 DEF d

LEMMA FailedRevised ==
  ASSUME NEW c, Sound(c), Revised(c), Course(c)
  PROVE  LET d == CommitFailed(c) IN
         /\ Revised(d) /\ Course(d) /\ d.rev = c.rev /\ d.saved = c.saved /\ d.failed = TRUE /\ d.pc = "idle"
<1> DEFINE revived == IF c.live.active = 0 /\ c.saved.active # 0
                      THEN [c.live EXCEPT !.active = c.saved.active, !.last = c.saved.last,
                                          !.outcome = c.saved.outcome, !.why = c.saved.why]
                      ELSE c.live
           halted == IF revived.active = 0 THEN revived ELSE [revived EXCEPT !.status = "stopping"]
           d == CommitFailed(c)
<1>1. IsState(revived) /\ revived.calls = c.live.calls
  BY DEF Sound, IsState, StateFields
<1> HIDE DEF revived
<1>2. IsState(halted) /\ halted.calls = c.live.calls
  BY <1>1 DEF IsState, StateFields
<1>3. d = [c EXCEPT !.failed = TRUE, !.dirty = TRUE, !.live = halted, !.cancelled = TRUE, !.pc = "idle",
                    !.sent = NoState, !.attempt = 0]
  BY DEF CommitFailed, halted, revived
<1> HIDE DEF halted, d
<1>4. /\ d.live = halted /\ d.saved = c.saved /\ d.rev = c.rev /\ d.failed = TRUE /\ d.dirty = TRUE
      /\ d.pc = "idle" /\ d.then = c.then
  BY <1>3 DEF Sound, IsConversation, ConversationFields
<1>5. ~ Committing(d) /\ Place(d) = "idle" /\ There(d)
  BY <1>4 DEF Committing, Place, There
<1>6. Revised(d)
  BY <1>4, <1>5 DEF Revised, Works
<1>7. Course(d)
  BY <1>2, <1>4, <1>5 DEF Course, CourseAt, Places, Works
<1> QED
  BY <1>4, <1>6, <1>7 DEF d

LEMMA ProtocolSucceeds ==
  ASSUME LinkTyped, Protocol, NEW o \in Object, o = current, NEW d, conv' = [conv EXCEPT ![o] = d],
         Revised(conv[o]), Committing(conv[o]),
         There(d), ~ Committing(d), d.rev = conv[o].sent.rev, d.saved = conv[o].sent, ~ d.failed,
         NEW a \in answers, a.type = "commit", a.obj = o, a.ok, answers' = answers \ {a}, wire' = wire,
         UNCHANGED <<ledger, applied, current, counter>>
  PROVE  Protocol'
<1> DEFINE c == conv[o]
<1>1. /\ \A x \in Object : x # o => conv'[x] = conv[x]
      /\ conv'[o] = d
  BY DEF LinkTyped
<1>2. c.rev \in Nat /\ ~ c.failed /\ c.sent.rev = c.rev + 1
  BY DEF Revised, Works, Committing
<1>3. /\ Identity(o, c.sent.rev) \in applied
      /\ \A m \in wire : m.type = "commit" => m.obj # o
      /\ \A b \in answers : b.type = "commit" /\ b.obj = o => b = a
  BY DEF Protocol, AnswersKnown
<1>4. Established(o) /\ Established(o)'
  BY <1>2, <1>3 DEF Established
<1>5. ledger = c.sent
  BY <1>2, <1>3, <1>4 DEF Protocol, InStep
<1>6. Counted'
  <2>1. \A x \in Object : There(conv'[x]) => There(conv[x])
    BY <1>1 DEF There, Committing
  <2>2. There(conv'[current'])
    BY <1>1
  <2> QED
    BY <2>1, <2>2 DEF Protocol, Counted
<1>7. CommitsInWire'
  BY <1>1, <1>3 DEF Protocol, CommitsInWire
<1>8. AnswersKnown'
  <2>1. \A b \in answers' : b.type = "commit" => b \in answers /\ b.obj # o
    BY <1>3
  <2> QED
    BY <1>1, <2>1 DEF Protocol, AnswersKnown
<1>9. AppliedKnown'
  <2>1. \A rev \in Nat : Identity(o, rev) \in applied => rev <= d.rev
    BY <1>2 DEF Protocol, AppliedKnown, There, Committing
  <2> QED
    BY <1>1, <2>1 DEF Protocol, AppliedKnown
<1>10. Overtaken'
  BY <1>4 DEF Protocol, Overtaken
<1>11. InStep'
  BY <1>1, <1>5 DEF InStep
<1>12. WorkerIsEstablished'
  BY <1>4 DEF WorkerIsEstablished
<1>13. SavedIsLedger'
  BY <1>1, <1>2, <1>5 DEF Protocol, SavedIsLedger
<1> QED
  BY <1>6, <1>7, <1>8, <1>9, <1>10, <1>11, <1>12, <1>13 DEF Protocol

LEMMA ProtocolFails ==
  ASSUME LinkTyped, Protocol, NEW o \in Object, o = current, NEW d, conv' = [conv EXCEPT ![o] = d],
         There(conv[o]), d.failed = TRUE, d.pc = "idle", d.rev = conv[o].rev, d.saved = conv[o].saved,
         \A a \in answers' : a.type = "commit" => a \in answers /\ a.obj # o, wire' = wire,
         UNCHANGED <<ledger, applied, current, counter>>
  PROVE  Protocol'
<1>1. /\ \A x \in Object : x # o => conv'[x] = conv[x]
      /\ conv'[o] = d /\ There(d) /\ ~ Committing(d)
  BY DEF LinkTyped, There, Committing
<1>2. Counted'
  <2>1. \A x \in Object : There(conv'[x]) => There(conv[x])
    BY <1>1 DEF There, Committing
  <2>2. There(conv'[current'])
    BY <1>1
  <2> QED
    BY <2>1, <2>2 DEF Protocol, Counted
<1>3. CommitsInWire'
  BY <1>1 DEF Protocol, CommitsInWire
<1>4. AnswersKnown'
  BY <1>1 DEF Protocol, AnswersKnown
<1>5. AppliedKnown'
  BY <1>1 DEF Protocol, AppliedKnown
<1>6. Overtaken'
  BY DEF Protocol, Overtaken, Established
<1>7. InStep'
  BY <1>1 DEF InStep
<1>8. WorkerIsEstablished'
  BY <1>1 DEF WorkerIsEstablished
<1>9. SavedIsLedger'
  BY <1>1 DEF Protocol, SavedIsLedger, There
<1> QED
  BY <1>2, <1>3, <1>4, <1>5, <1>6, <1>7, <1>8, <1>9 DEF Protocol

LEMMA ProtocolRetransmits ==
  ASSUME LinkTyped, Protocol, NEW o \in Object, o = current, NEW d, conv' = [conv EXCEPT ![o] = d],
         Revised(conv[o]), Committing(conv[o]), Committing(d),
         d.rev = conv[o].rev, d.saved = conv[o].saved, d.sent = conv[o].sent, d.failed = conv[o].failed,
         wire' = wire \cup {[type |-> "commit", obj |-> o, state |-> conv[o].sent]},
         \A a \in answers' : a.type = "commit" => a \in answers /\ a.obj # o,
         UNCHANGED <<ledger, applied, current, counter>>
  PROVE  Protocol'
<1> DEFINE msg == [type |-> "commit", obj |-> o, state |-> conv[o].sent]
<1>1. /\ \A x \in Object : x # o => conv'[x] = conv[x]
      /\ conv'[o] = d /\ There(d)
  BY DEF LinkTyped, There, Committing
<1>2. Counted'
  <2>1. \A x \in Object : There(conv'[x]) => There(conv[x])
    BY <1>1 DEF There, Committing
  <2>2. There(conv'[current'])
    BY <1>1
  <2> QED
    BY <2>1, <2>2 DEF Protocol, Counted
<1>3. CommitsInWire'
  <2>1. ASSUME NEW m \in wire', m.type = "commit"
        PROVE  /\ m = [type |-> "commit", obj |-> m.obj, state |-> m.state]
               /\ m.obj \in Object /\ There(conv'[m.obj])
               /\ m.state.rev = conv'[m.obj].rev + 1
               /\ IF Committing(conv'[m.obj]) THEN m.state = conv'[m.obj].sent ELSE conv'[m.obj].failed
    <3>1. CASE m = msg
      <4>1. /\ m.obj = o /\ m.state = conv[o].sent
            /\ conv[o].sent.rev = conv[o].rev + 1
        BY <3>1 DEF Revised
      <4> QED
        BY <1>1, <3>1, <4>1
    <3>2. CASE m \in wire
      BY <1>1, <2>1, <3>2 DEF Protocol, CommitsInWire
    <3> QED
      BY <3>1, <3>2
  <2> QED
    BY <2>1 DEF CommitsInWire
<1>4. AnswersKnown'
  <2>1. \A m \in wire' : m.type = "commit" => m.obj = o \/ m \in wire
    OBVIOUS
  <2> QED
    BY <1>1, <2>1 DEF Protocol, AnswersKnown
<1>5. AppliedKnown'
  <2>1. \A x \in Object : /\ There(conv'[x]) <=> There(conv[x])
                          /\ conv'[x].rev = conv[x].rev /\ conv'[x].sent = conv[x].sent
                          /\ conv'[x].failed = conv[x].failed
                          /\ Committing(conv'[x]) <=> Committing(conv[x])
    BY <1>1 DEF There, Committing
  <2> QED
    BY <2>1 DEF Protocol, AppliedKnown
<1>6. Overtaken'
  <2>1. \A m \in wire' : m.type = "commit" /\ m.obj # o => m \in wire
    OBVIOUS
  <2> QED
    BY <2>1 DEF Protocol, Overtaken, Established
<1>7. InStep'
  BY <1>1 DEF Protocol, InStep, Established
<1>8. WorkerIsEstablished'
  BY <1>1 DEF WorkerIsEstablished, Committing
<1>9. SavedIsLedger'
  BY <1>1 DEF Protocol, SavedIsLedger, There, Committing
<1> QED
  BY <1>2, <1>3, <1>4, <1>5, <1>6, <1>7, <1>8, <1>9 DEF Protocol

-----------------------------------------------------------------------------
(* What the states tell of the calls.                                       *)

LEMMA TrueOfSame ==
  ASSUME NEW s, NEW t, NEW out, SameContent(s, t), s.active = t.active, s.outcome = t.outcome, TrueOf(t, out)
  PROVE  TrueOf(s, out)
<1>1. Answered(s) = Answered(t) /\ PendingIds(s) = PendingIds(t) /\ OpenCalls(s) = OpenCalls(t)
  BY DEF SameContent, Answered, PendingIds, OpenCalls
<1> QED
  BY <1>1 DEF TrueOf, SameContent

LEMMA TrueOfFewer ==
  ASSUME NEW s, NEW out, NEW fewer, fewer \subseteq out, TrueOf(s, out)
  PROVE  TrueOf(s, fewer)
  BY DEF TrueOf

\* Of the conversation that works, when nothing of it leaves or settles.
LEMMA OneMoves ==
  ASSUME LedgerInv, NEW o \in Object, o = current, NEW d, Lives(conv[o], d), There(conv[o]),
         Committing(d) <=> Committing(conv[o]), Works(d.pc) => Works(conv[o].pc),
         d.pc \in {"idle", "input"} \/ conv[o].pc \notin {"none", "idle", "input", "committing"} \/ Committing(d),
         Place(d) \in Places, CourseAt(Place(d), d.wait, d.live, d.cancelled), There(d),
         conv[o].pc = "waiting" => d.pc = "waiting" \/ conv[o].wait.kind = "model",
         conv' = [conv EXCEPT ![o] = d], SameCommits, Out' = Out, answers' \subseteq answers,
         UNCHANGED <<ledger, applied, current, ops>>, counter'.object = counter.object
  PROVE  Conversations' /\ Protocol' /\ Truth'
<1> DEFINE c == conv[o]
<1>1. LinkTyped /\ Conversations /\ Protocol /\ Truth
  BY DEF LedgerInv, HostInv
<1>2. Revised(c) /\ Course(c)
  BY <1>1 DEF Conversations
<1>3. Revised(d)
  BY <1>2, LivesRevised
<1>4. /\ d.rev = c.rev /\ d.saved = c.saved /\ d.sent = c.sent /\ d.failed = c.failed /\ d.then = c.then
      /\ d.wait = c.wait /\ SameContent(d.live, c.live)
  BY DEF Lives, Alters
<1>5. Course(d)
  BY <1>2, <1>4 DEF Course
<1>6. Conversations' /\ conv'[o] = d
  BY <1>1, <1>3, <1>5, OneConversation
<1>7. Protocol'
  BY <1>1, <1>4, ProtocolMoves
<1>8. Accounted'
  <2>1. SUFFICES ASSUME Works(Place(d)), UpToDate(o)' PROVE AllAnswered(d.live, Out \ Owed(d))
    BY <1>6 DEF Accounted
  <2>2. UpToDate(o)
    BY <1>4, <1>6, <2>1 DEF UpToDate
  <2>3. Works(Place(c))
    BY <1>4, <2>1 DEF Place, Works, Committing
  <2>4. AllAnswered(c.live, Out \ Owed(c))
    BY <1>1, <2>2, <2>3 DEF Truth, Accounted
  <2>5. Answered(d.live) = Answered(c.live)
    BY <1>4 DEF SameContent, Answered
  <2> QED
    BY <1>4, <2>4, <2>5 DEF AllAnswered, Owed
<1>9. CallsTyped'
  BY <1>1 DEF Truth, CallsTyped
<1>10. ASSUME NEW x \in Object, Committing(conv'[x]), conv'[x].sent.rev = ledger.rev + 1
       PROVE  TrueOf(conv'[x].sent, Out)
  <2>1. Committing(conv[x]) /\ conv'[x].sent = conv[x].sent
    BY <1>1, <1>4, <1>10 DEF LinkTyped
  <2> QED
    BY <1>1, <1>10, <2>1 DEF Truth
<1>11. Truth'
  BY <1>1, <1>8, <1>9, <1>10 DEF Truth, SameCommits
<1> QED
  BY <1>6, <1>7, <1>11

LEMMA OneBegins ==
  ASSUME LedgerInv, NEW o \in Object, o = current, ~ AtRest(conv[o]), ~ Committing(conv[o]),
         NEW e, IsConversation(e), IsState(e.live), e.rev = conv[o].rev, e.saved = conv[o].saved,
         e.failed = conv[o].failed, e.dirty = TRUE,
         NEW then \in Goals, BeginCommit(o, e, then), CourseAt(then, e.wait, e.live, e.cancelled),
         ledger.rev = conv[o].rev => TrueOf(e.live, Out) /\ (Works(then) => AllAnswered(e.live, Out)),
         \A a : a.type = "commit" => (a \in answers' <=> a \in answers), answers' \subseteq answers,
         UNCHANGED <<ledger, applied, current, ops>>, counter'.object = counter.object
  PROVE  Conversations' /\ Protocol' /\ Truth'
<1> DEFINE c == conv[o]
<1>1. LinkTyped /\ Conversations /\ Protocol /\ Truth
  BY DEF LedgerInv, HostInv
<1>2. Revised(c) /\ Course(c)
  BY <1>1 DEF Conversations
<1>3. ~ c.failed /\ c.rev \in Nat /\ There(c)
  BY <1>2 DEF Revised, Works, AtRest, There
<1>4. PICK d : /\ Begun(e, d, then)
               /\ conv' = [conv EXCEPT ![o] = d]
               /\ wire' = wire \cup {[type |-> "commit", obj |-> o, state |-> d.sent]}
  BY <1>3, Begins
<1>5. /\ Revised(d) /\ SameContent(d.sent, d.live)
      /\ d.sent.rev = c.rev + 1 /\ d.sent.active = d.live.active /\ d.sent.outcome = d.live.outcome
  <2>1. ~ e.failed /\ e.rev \in Nat
    BY <1>3
  <2>2. /\ Revised(d) /\ SameContent(d.sent, d.live)
        /\ d.sent.rev = e.rev + 1 /\ d.sent.active = d.live.active /\ d.sent.outcome = d.live.outcome
    BY <1>4, <2>1, BegunRevised
  <2> QED
    BY <2>2
<1>6. /\ Committing(d) /\ Place(d) = then /\ d.then = then /\ d.wait = e.wait /\ d.live = e.live
      /\ d.cancelled = e.cancelled /\ d.rev = c.rev /\ d.saved = c.saved /\ d.failed = c.failed
      /\ Owed(d) = {}
  BY <1>4 DEF Begun, Committing, Place, Owed
<1>7. Course(d)
  BY <1>6 DEF Course, Goals
<1>8. Conversations' /\ conv'[o] = d
  BY <1>1, <1>4, <1>5, <1>7, OneConversation
<1>9. Protocol'
  BY <1>1, <1>3, <1>4, <1>5, <1>6, ProtocolBegins
<1>10. Out' = Out
  BY <1>4 DEF Out
<1>11. ASSUME d.sent.rev = ledger.rev + 1 PROVE TrueOf(d.sent, Out)
  <2>1. ledger.rev = c.rev
    BY <1>1, <1>3, <1>5, <1>11 DEF LinkTyped
  <2>2. TrueOf(d.live, Out)
    BY <1>6, <2>1
  <2> QED
    BY <1>5, <2>2, TrueOfSame
<1>12. ASSUME NEW m \in wire', m.type = "commit", m.state.rev = ledger.rev + 1 PROVE TrueOf(m.state, Out)
  <2>1. CASE m \in wire
    BY <1>1, <1>12, <2>1 DEF Truth
  <2>2. CASE m = [type |-> "commit", obj |-> o, state |-> d.sent]
    BY <1>11, <1>12, <2>2
  <2> QED
    BY <1>4, <2>1, <2>2
<1>13. ASSUME NEW x \in Object, Committing(conv'[x]), conv'[x].sent.rev = ledger.rev + 1
       PROVE  TrueOf(conv'[x].sent, Out)
  <2>1. CASE x = o
    BY <1>8, <1>11, <1>13, <2>1
  <2>2. CASE x # o
    <3>1. conv'[x] = conv[x]
      BY <1>1, <1>4, <2>2 DEF LinkTyped
    <3> QED
      BY <1>1, <1>13, <3>1 DEF Truth
  <2> QED
    BY <2>1, <2>2
<1>14. Accounted'
  <2>1. SUFFICES ASSUME Works(then), UpToDate(o)' PROVE AllAnswered(d.live, Out)
    BY <1>6, <1>8, <1>10 DEF Accounted
  <2>2. Identity(o, d.sent.rev) \notin applied
    BY <1>1, <1>3, <1>5 DEF Protocol, AppliedKnown
  <2>3. ledger.rev = c.rev
    BY <1>6, <1>8, <2>1, <2>2 DEF UpToDate
  <2> QED
    BY <1>6, <2>1, <2>3
<1>15. CallsTyped'
  BY <1>1, <1>10 DEF Truth, CallsTyped
<1>16. Truth'
  BY <1>1, <1>10, <1>12, <1>13, <1>14, <1>15 DEF Truth
<1> QED
  BY <1>8, <1>9, <1>16

\* The object stays where it is, or moves to another place.
LEMMA OneStays ==
  ASSUME LedgerInv, NEW o \in Object, o = current, NEW d, Lives(conv[o], d), d.pc = conv[o].pc, There(conv[o]),
         conv' = [conv EXCEPT ![o] = d],
         UNCHANGED <<ledger, applied, current, ops, wire, answers>>, counter'.object = counter.object
  PROVE  Conversations' /\ Protocol' /\ Truth'
<1> DEFINE c == conv[o]
<1>1. Course(c)
  BY DEF LedgerInv, Conversations
<1>2. /\ Committing(d) <=> Committing(c)
      /\ Place(d) = Place(c) /\ d.wait = c.wait /\ There(d)
  BY DEF Lives, Alters, Committing, Place, There
<1>3. Place(c) \in Places /\ CourseAt(Place(d), d.wait, d.live, d.cancelled)
  BY <1>1, <1>2, LivesCourse DEF Course
<1>4. Out' = Out /\ SameCommits
  BY DEF Out, SameCommits
<1>5. d.pc \in {"idle", "input"} \/ c.pc \notin {"none", "idle", "input", "committing"} \/ Committing(d)
  BY DEF There, Committing
<1> QED
  BY <1>2, <1>3, <1>4, <1>5, OneMoves

LEMMA OneGoes ==
  ASSUME LedgerInv, NEW o \in Object, o = current, NEW e, Lives(conv[o], e), NEW pc \in Places,
         conv[o].pc \notin {"none", "idle", "input", "committing"}, Works(pc),
         conv[o].pc = "waiting" => pc = "waiting" \/ conv[o].wait.kind = "model",
         CourseAt(pc, conv[o].wait, e.live, e.cancelled),
         conv' = [conv EXCEPT ![o] = Goto(e, pc)],
         SameCommits, Out' = Out, answers' \subseteq answers,
         UNCHANGED <<ledger, applied, current, ops>>, counter'.object = counter.object
  PROVE  Conversations' /\ Protocol' /\ Truth'
<1> DEFINE c == conv[o]
           d == Goto(e, pc)
<1>1. Sound(c)
  BY DEF LedgerInv, HostInv, LinkTyped
<1>2. /\ IsConversation(d) /\ d.live = e.live /\ d.saved = e.saved /\ d.rev = e.rev /\ d.sent = e.sent
      /\ d.failed = e.failed /\ d.cancelled = e.cancelled /\ d.then = e.then /\ d.wait = e.wait
      /\ d.dirty = e.dirty /\ d.touched = e.touched /\ d.pc = pc
  BY DEF Goto, Lives, Alters, IsConversation, ConversationFields
<1> HIDE DEF d
<1>3. Lives(e, d)
  <2>1. IsState(d.live)
    BY <1>2 DEF Lives, Alters
  <2> QED
    BY <1>2, <2>1 DEF Lives, Alters, Suffers, SameContent
<1>4. Lives(c, d)
  BY <1>3, LivesOn
<1>5. /\ ~ Committing(d) /\ ~ Committing(c) /\ There(c) /\ There(d) /\ Place(d) = pc
      /\ Works(d.pc) /\ Works(c.pc)
  BY <1>2 DEF Committing, There, Place, Places, Works
<1>6. CourseAt(Place(d), d.wait, d.live, d.cancelled)
  <2>1. d.wait = c.wait
    BY <1>4 DEF Lives, Alters
  <2> QED
    BY <1>2, <1>5, <2>1
<1>7. conv' = [conv EXCEPT ![o] = d]
  BY DEF d
<1> QED
  BY <1>2, <1>4, <1>5, <1>6, <1>7, OneMoves

\* What the next state of the conversation that works tells is true, if the results
\* it adds say so of calls that never left.
LEMMA NextTells ==
  ASSUME LedgerInv, NEW o \in Object, o = current, ~ AtRest(conv[o]), ~ Committing(conv[o]),
         ledger.rev = conv[o].rev, NEW s, s.calls \subseteq Nat, Answered(conv[o].live) \subseteq Answered(s),
         conv[o].pc = "waiting" /\ conv[o].wait.kind = "tool" => conv[o].wait.n \in Answered(s),
         \A r \in s.results : r.as = "closed" =>
           r \in conv[o].live.results \/ (conv[o].pc # "waiting" /\ r.call \notin Answered(conv[o].live)),
         s.active = 0 /\ s.outcome = "completed" => s.pending = {} /\ OpenCalls(s) = {}
  PROVE  TrueOf(s, Out) /\ AllAnswered(s, Out)
<1> DEFINE c == conv[o]
<1>1. There(c) /\ Works(Place(c)) /\ UpToDate(o) /\ ~ c.failed
  BY DEF AtRest, There, Works, Place, Committing, UpToDate, LedgerInv, Conversations, Revised
<1>2. ledger = c.saved /\ SameContent(c.live, c.saved)
  BY <1>1 DEF LedgerInv, Protocol, SavedIsLedger, There, Conversations, Revised
<1>3. \A r \in c.live.results : r.as = "closed" => Tool(r.call) \notin Out
  BY <1>2 DEF LedgerInv, Truth, TrueOf, SameContent
<1>4. AllAnswered(c.live, Out \ Owed(c))
  BY <1>1 DEF LedgerInv, Truth, Accounted
<1>5. AllAnswered(s, Out)
  BY <1>4 DEF AllAnswered, Owed
<1>6. \A r \in s.results : r.as = "closed" => Tool(r.call) \notin Out
  <2>1. SUFFICES ASSUME NEW r \in s.results, c.pc # "waiting", r.call \notin Answered(c.live)
                 PROVE  Tool(r.call) \notin Out
    BY <1>3
  <2>2. Owed(c) = {} /\ Tool(r.call).kind = "tool" /\ Tool(r.call).n = r.call
    BY <2>1 DEF Owed, Tool
  <2> QED
    BY <1>4, <2>1, <2>2 DEF AllAnswered
<1> QED
  BY <1>5, <1>6 DEF TrueOf, AllAnswered

-----------------------------------------------------------------------------
(* The steps of the run goroutine.                                          *)

\* The conversation that works, as LedgerInv has it.
LEMMA WorkerIsKnown ==
  ASSUME LedgerInv, NEW o \in Object, ~ AtRest(conv[o])
  PROVE  LET c == conv[o] IN
         /\ o = current /\ Sound(c) /\ IsConversation(c) /\ IsState(c.live) /\ Revised(c) /\ Course(c)
         /\ ~ c.failed /\ There(c) /\ c.rev \in Nat /\ Works(c.pc)
         /\ c.pc # "committing" => /\ Place(c) = c.pc /\ ~ Committing(c)
                                   /\ CourseAt(c.pc, c.wait, c.live, c.cancelled)
<1>1. o = current
  BY DEF LedgerInv, HostInv, OnlyCurrentWorks
<1>2. Sound(conv[o]) /\ IsConversation(conv[o]) /\ IsState(conv[o].live)
  BY DEF LedgerInv, HostInv, LinkTyped, Sound
<1>3. Revised(conv[o]) /\ Course(conv[o])
  BY DEF LedgerInv, Conversations
<1> QED
  BY <1>1, <1>2, <1>3 DEF AtRest, There, Works, Revised, Course, Place, Committing

\* A changed state is committed.
LEMMA NextBegins ==
  ASSUME LedgerInv, NEW o \in Object, ~ AtRest(conv[o]), conv[o].pc # "committing",
         NEW w, NEW s, IsState(s), NEW then \in Goals,
         \/ BeginCommit(o, Changed(conv[o], s), then) /\ w = conv[o].wait
         \/ BeginCommit(o, Changed([conv[o] EXCEPT !.wait = w], s), then),
         CourseAt(then, w, s, conv[o].cancelled),
         Answered(conv[o].live) \subseteq Answered(s),
         conv[o].pc = "waiting" /\ conv[o].wait.kind = "tool" => conv[o].wait.n \in Answered(s),
         \A r \in s.results : r.as = "closed" =>
           r \in conv[o].live.results \/ (conv[o].pc # "waiting" /\ r.call \notin Answered(conv[o].live)),
         s.active = 0 /\ s.outcome = "completed" => s.pending = {} /\ OpenCalls(s) = {},
         \A a : a.type = "commit" => (a \in answers' <=> a \in answers), answers' \subseteq answers,
         UNCHANGED <<ledger, applied, current, ops>>, counter'.object = counter.object
  PROVE  Conversations' /\ Protocol' /\ Truth'
<1> DEFINE c == conv[o]
<1>1. /\ o = current /\ Sound(c) /\ ~ Committing(c)
  BY WorkerIsKnown
<1>2. PICK e : /\ BeginCommit(o, e, then)
               /\ IsConversation(e) /\ e.live = s /\ e.rev = c.rev /\ e.saved = c.saved
               /\ e.failed = c.failed /\ e.dirty = TRUE /\ e.wait = w /\ e.cancelled = c.cancelled
  <2>1. LET e == Changed(c, s) IN
        /\ IsConversation(e) /\ e.live = s /\ e.rev = c.rev /\ e.saved = c.saved
        /\ e.failed = c.failed /\ e.dirty = TRUE /\ e.wait = c.wait /\ e.cancelled = c.cancelled
    BY <1>1 DEF Changed, Sound, IsConversation, ConversationFields
  <2>2. LET e == Changed([c EXCEPT !.wait = w], s) IN
        /\ IsConversation(e) /\ e.live = s /\ e.rev = c.rev /\ e.saved = c.saved
        /\ e.failed = c.failed /\ e.dirty = TRUE /\ e.wait = w /\ e.cancelled = c.cancelled
    BY <1>1 DEF Changed, Sound, IsConversation, ConversationFields
  <2>3. CASE BeginCommit(o, Changed(c, s), then) /\ w = c.wait
    BY <2>1, <2>3
  <2>4. CASE BeginCommit(o, Changed([c EXCEPT !.wait = w], s), then)
    BY <2>2, <2>4
  <2> QED
    BY <2>3, <2>4
<1>3. ledger.rev = c.rev => TrueOf(s, Out) /\ AllAnswered(s, Out)
  BY <1>1, NextTells DEF CourseAt
<1> QED
  BY <1>1, <1>2, <1>3, OneBegins

\* What the operations on a state do to its calls.
LEMMA ClosedContent ==
  ASSUME NEW s, IsState(s), NEW calls, NEW msg
  PROVE  LET t == CloseCalls(s, calls, msg) IN
         /\ IsState(t) /\ t.calls = s.calls /\ t.pending = s.pending
         /\ t.results = s.results \cup {[call |-> c, as |-> "closed", msg |-> msg] : c \in calls}
         /\ t.active = s.active /\ t.status = s.status /\ t.why = s.why /\ t.outcome = s.outcome
  BY DEF CloseCalls, IsState, StateFields

LEMMA RemovedContent ==
  ASSUME NEW s, IsState(s), NEW id
  PROVE  LET t == RemovePending(s, id) IN
         /\ IsState(t) /\ t.calls = s.calls /\ t.results = s.results
         /\ \A p \in t.pending : p \in s.pending /\ p.id # id
         /\ t.active = s.active /\ t.status = s.status /\ t.why = s.why
  BY DEF RemovePending, IsState, StateFields

LEMMA UnsettledContent ==
  ASSUME NEW s, IsState(s), NEW id, NEW got
  PROVE  LET t == Unsettled(s, id, got) IN
         /\ IsState(t) /\ t.calls = s.calls /\ t.results = s.results
         /\ t.active = s.active /\ t.status = s.status /\ t.why = s.why
  BY DEF Unsettled, IsState, StateFields

LEMMA AddedContent ==
  ASSUME NEW s, IsState(s), NEW id
  PROVE  LET t == AddPending(s, id) IN
         /\ IsState(t) /\ t.calls = s.calls /\ t.results = s.results
         /\ PendingIds(t) = PendingIds(s) \cup {id}
         /\ t.active = s.active /\ t.status = s.status /\ t.why = s.why
<1> DEFINE t == AddPending(s, id)
           new == [id |-> id, run |-> s.active, got |-> "nothing"]
<1>1. /\ IsState(t) /\ t.calls = s.calls /\ t.results = s.results /\ t.pending = s.pending \cup {new}
      /\ t.active = s.active /\ t.status = s.status /\ t.why = s.why
  BY DEF AddPending, IsState, StateFields
<1>2. new.id = id
  OBVIOUS
<1> HIDE DEF t, new
<1>3. PendingIds(t) = PendingIds(s) \cup {id}
  BY <1>1, <1>2 DEF PendingIds
<1> QED
  BY <1>1, <1>3 DEF t

\* A tool's result: the call is answered, and pending only if nobody knows its outcome.
LEMMA ToolSettlesTells ==
  ASSUME LedgerInv, NEW o \in Object, conv[o].pc \in {"launch", "calling", "waiting"},
         conv[o].wait.kind = "tool", NEW as, as # "closed", ToolSettles(o, conv[o], as),
         \A a : a.type = "commit" => (a \in answers' <=> a \in answers), answers' \subseteq answers,
         UNCHANGED <<ledger, applied, current, ops>>, counter'.object = counter.object
  PROVE  Conversations' /\ Protocol' /\ Truth'
<1> DEFINE c == conv[o]
           r == [call |-> c.wait.n, as |-> as, msg |-> "tool"]
           told == [c.live EXCEPT !.results = @ \cup {r}]
           s == IF as = "unknown" THEN Unsettled(told, c.wait, "unknown") ELSE RemovePending(told, c.wait)
           then == IF as = "unknown" THEN "unresolved" ELSE "batch"
<1>1. /\ ~ AtRest(c) /\ c.pc # "committing"
      /\ IsState(c.live) /\ CourseAt(c.pc, c.wait, c.live, c.cancelled)
  BY WorkerIsKnown DEF AtRest
<1>2. BeginCommit(o, Changed(c, s), then)
  BY DEF ToolSettles
<1>3. /\ IsState(told) /\ told.calls = c.live.calls /\ told.pending = c.live.pending
      /\ told.results = c.live.results \cup {r}
      /\ told.active = c.live.active /\ told.status = c.live.status /\ told.why = c.live.why
  BY <1>1 DEF IsState, StateFields
<1> HIDE DEF told, r
<1>4. /\ IsState(s) /\ s.calls = c.live.calls /\ s.results = c.live.results \cup {r}
      /\ s.active = c.live.active /\ s.status = c.live.status /\ s.why = c.live.why
      /\ as # "unknown" => \A p \in s.pending : p \in c.live.pending /\ p.id # c.wait
  <2>1. CASE as = "unknown"
    BY <1>3, <2>1, UnsettledContent
  <2>2. CASE as # "unknown"
    BY <1>3, <2>2, RemovedContent
  <2> QED
    BY <2>1, <2>2
<1> HIDE DEF s
<1>5. then \in Goals
  BY DEF Goals, Places
<1>6. CourseAt(then, c.wait, s, c.cancelled)
  <2>1. s.calls \subseteq Nat /\ s.active # 0 /\ Reasoned(s)
    BY <1>1, <1>4 DEF CourseAt, Works, Reasoned
  <2>2. as # "unknown" /\ Unhurt(s, c.cancelled) => s.pending = {}
    BY <1>1, <1>4 DEF CourseAt, Unhurt, PendingIds
  <2> QED
    BY <2>1, <2>2 DEF CourseAt
<1>7. /\ r.call = c.wait.n /\ r.as = as
      /\ Answered(s) = Answered(c.live) \cup {c.wait.n}
  <2>1. r.call = c.wait.n /\ r.as = as
    BY DEF r
  <2> QED
    BY <1>4, <2>1 DEF Answered
<1>8. \A x \in s.results : x.as = "closed" => x \in c.live.results
  BY <1>4, <1>7
<1>9. s.active # 0
  BY <1>1, <1>4 DEF CourseAt, Works
<1> HIDE DEF then
<1> QED
  BY <1>1, <1>2, <1>4, <1>5, <1>6, <1>7, <1>8, <1>9, NextBegins

\* An answer of the model: no call of it has left before.
LEMMA ModelSettlesTells ==
  ASSUME LedgerInv, NEW o \in Object, conv[o].pc = "waiting", conv[o].wait.kind = "model",
         NEW a, a.as \in {"tools", "text", "length", "unpriced"}, a.calls \subseteq Nat, ModelSettles(o, conv[o], a),
         \A x : x.type = "commit" => (x \in answers' <=> x \in answers), answers' \subseteq answers,
         UNCHANGED <<ledger, applied, current, ops>>, counter'.object = counter.object
  PROVE  Conversations' /\ Protocol' /\ Truth'
<1> DEFINE c == conv[o]
           told == [c.live EXCEPT !.calls = @ \cup UsableCalls(a)]
           s == IF a.as = "unpriced" THEN Unsettled(told, c.wait, "cost") ELSE RemovePending(told, c.wait)
<1>1. /\ ~ AtRest(c) /\ c.pc # "committing"
      /\ IsState(c.live) /\ CourseAt("waiting", c.wait, c.live, c.cancelled)
  BY WorkerIsKnown DEF AtRest
<1>2. PICK then : /\ BeginCommit(o, Changed(c, s), then) /\ then \in {"batch", "ending", "fail"}
                  /\ a.as = "unpriced" => then = "fail"
  <2>1. CASE a.as = "unpriced"
    BY <2>1 DEF ModelSettles
  <2>2. CASE a.as = "tools"
    <3>1. BeginCommit(o, Changed(c, s), "batch")
      BY <2>2 DEF ModelSettles
    <3> QED
      BY <2>2, <3>1
  <2>3. CASE a.as = "text"
    <3>1. BeginCommit(o, Changed(c, s), "ending")
      BY <2>3 DEF ModelSettles
    <3> QED
      BY <2>3, <3>1
  <2>4. CASE a.as = "length"
    <3>1. BeginCommit(o, Changed(c, s), "fail")
      BY <2>4 DEF ModelSettles
    <3> QED
      BY <2>4, <3>1
  <2> QED
    BY <2>1, <2>2, <2>3, <2>4
<1>3. /\ IsState(told) /\ told.calls = c.live.calls \cup UsableCalls(a) /\ told.pending = c.live.pending
      /\ told.results = c.live.results
      /\ told.active = c.live.active /\ told.status = c.live.status /\ told.why = c.live.why
  BY <1>1 DEF IsState, StateFields
<1> HIDE DEF told
<1>4. /\ IsState(s) /\ s.calls = c.live.calls \cup UsableCalls(a) /\ s.results = c.live.results
      /\ s.active = c.live.active /\ s.status = c.live.status /\ s.why = c.live.why
      /\ a.as # "unpriced" => \A p \in s.pending : p \in c.live.pending /\ p.id # c.wait
  <2>1. CASE a.as = "unpriced"
    BY <1>3, <2>1, UnsettledContent
  <2>2. CASE a.as # "unpriced"
    BY <1>3, <2>2, RemovedContent
  <2> QED
    BY <2>1, <2>2
<1> HIDE DEF s
<1>5. then \in Goals
  BY <1>2 DEF Goals, Places
<1>6. CourseAt(then, c.wait, s, c.cancelled)
  <2>1. s.calls \subseteq Nat /\ s.active # 0 /\ Reasoned(s)
    BY <1>1, <1>4 DEF CourseAt, Works, Reasoned, UsableCalls
  <2>2. a.as # "unpriced" /\ Unhurt(s, c.cancelled) => s.pending = {}
    BY <1>1, <1>4 DEF CourseAt, Unhurt, PendingIds
  <2> QED
    BY <1>2, <2>1, <2>2 DEF CourseAt
<1>7. Answered(s) = Answered(c.live)
  BY <1>4 DEF Answered
<1>8. s.active # 0
  BY <1>1, <1>4 DEF CourseAt, Works
<1> QED
  BY <1>1, <1>2, <1>4, <1>5, <1>6, <1>7, <1>8, NextBegins

LEMMA NoAnswerTells ==
  ASSUME LedgerInv, NEW o \in Object, conv[o].pc \in {"calling", "waiting"}, NoAnswer(o, conv[o]),
         \A x : x.type = "commit" => (x \in answers' <=> x \in answers), answers' \subseteq answers,
         UNCHANGED <<ledger, applied, current, ops, counter>>
  PROVE  Conversations' /\ Protocol' /\ Truth'
<1> DEFINE c == conv[o]
           e == Changed(c, c.live)
<1>1. /\ ~ AtRest(c) /\ o = current /\ Sound(c)
      /\ CourseAt(c.pc, c.wait, c.live, c.cancelled) /\ c.wait \in RequestIds
  BY WorkerIsKnown DEF AtRest, CourseAt
<1>2. CASE c.wait.kind # "model"
  <2>1. c.wait.kind = "tool" /\ ToolSettles(o, c, "unknown")
    BY <1>1, <1>2 DEF NoAnswer, RequestIds
  <2> QED
    BY <2>1, ToolSettlesTells
<1>3. CASE c.wait.kind = "model"
  <2>1. conv' = [conv EXCEPT ![o] = Goto(FailRun(e), "ending")] /\ wire' = wire
    BY <1>3 DEF NoAnswer, ModelLost
  <2>2. Lives(c, e)
    <3>1. IsState(c.live) /\ SameContent(c.live, c.live)
      BY <1>1 DEF Sound, SameContent
    <3> QED
      BY <1>1, <3>1, ChangedLives
  <2>3. Sound(e) /\ e.live = c.live /\ e.cancelled = c.cancelled
    BY <1>1 DEF Changed, Sound, KnowsItsRun, IsConversation, ConversationFields
  <2> HIDE DEF e
  <2>4. Lives(e, FailRun(e)) /\ FailRun(e).live.why # ""
    BY <1>1, <2>3, FailRunLives DEF CourseAt, Works
  <2>5. Lives(c, FailRun(e))
    BY <2>2, <2>4, LivesOn
  <2>6. CourseAt(c.pc, c.wait, FailRun(e).live, FailRun(e).cancelled)
    BY <1>1, <2>5, LivesCourse
  <2>7. CourseAt("ending", c.wait, FailRun(e).live, FailRun(e).cancelled)
    BY <2>4, <2>6 DEF CourseAt, Unhurt, Works
  <2>8. SameCommits /\ Out' = Out
    BY <2>1 DEF SameCommits, Out
  <2>9. "ending" \in Places /\ Works("ending")
    BY DEF Places, Works
  <2> QED
    BY <1>1, <1>3, <2>1, <2>5, <2>7, <2>8, <2>9, OneGoes
<1> QED
  BY <1>2, <1>3


LEMMA InputTells ==
  ASSUME LedgerInv, NEW o \in Object, CommitInput(o)
  PROVE  Conversations' /\ Protocol' /\ Truth'
<1> DEFINE c == conv[o]
<1>1. /\ ~ AtRest(c) /\ c.pc # "committing" /\ c.pc = "input"
      /\ BeginCommit(o, Changed(c, c.live), "think")
      /\ UNCHANGED <<ledger, applied, ops, answers, current, counter>>
  BY DEF CommitInput, AtRest
<1>2. IsState(c.live) /\ CourseAt("input", c.wait, c.live, c.cancelled)
  BY <1>1, WorkerIsKnown
<1>3. CourseAt("think", c.wait, c.live, c.cancelled) /\ c.live.active # 0
  BY <1>2 DEF CourseAt, Works
<1>4. "think" \in Goals
  BY DEF Goals, Places
<1> QED
  BY <1>1, <1>2, <1>3, <1>4, NextBegins

\* The goroutine goes to its end, or to its limit.
LEMMA WorkerGoes ==
  ASSUME LedgerInv, NEW o \in Object, conv[o].pc \notin {"none", "idle", "input", "committing", "waiting"},
         NEW e, Lives(conv[o], e), NEW pc \in Places, Works(pc),
         CourseAt(pc, conv[o].wait, e.live, e.cancelled),
         conv' = [conv EXCEPT ![o] = Goto(e, pc)],
         UNCHANGED <<ledger, applied, current, ops, wire, answers, counter>>
  PROVE  Conversations' /\ Protocol' /\ Truth'
<1>1. o = current
  BY WorkerIsKnown DEF AtRest
<1>2. SameCommits /\ Out' = Out
  BY DEF SameCommits, Out
<1> QED
  BY <1>1, <1>2, OneGoes

LEMMA ThinkTells ==
  ASSUME LedgerInv, NEW o \in Object, Think(o)
  PROVE  Conversations' /\ Protocol' /\ Truth'
<1> DEFINE c == conv[o]
           id == Model(counter.model + 1)
           asked == [c.live EXCEPT !.asked = @ + 1]
<1>1. /\ c.pc = "think" /\ UNCHANGED <<ledger, applied, ops, answers, current>>
  BY DEF Think
<1>2. /\ ~ AtRest(c) /\ c.pc # "committing" /\ Sound(c) /\ IsState(c.live)
      /\ CourseAt("think", c.wait, c.live, c.cancelled) /\ c.live.active # 0
  BY <1>1, WorkerIsKnown DEF AtRest, CourseAt, Works
<1>3. Lives(c, c) /\ Lives(c, FailRun(c)) /\ FailRun(c).live.why # ""
  BY <1>2, SameLives, FailRunLives
<1>4. {"ending", "limit"} \subseteq Places /\ Works("ending") /\ Works("limit") /\ "calling" \in Goals
  BY DEF Places, Works, Goals
<1>5. CourseAt("think", c.wait, FailRun(c).live, FailRun(c).cancelled)
  BY <1>2, <1>3, LivesCourse
<1>6. /\ CourseAt("ending", c.wait, c.live, c.cancelled)
      /\ CourseAt("limit", c.wait, c.live, c.cancelled)
      /\ CourseAt("ending", c.wait, FailRun(c).live, FailRun(c).cancelled)
  BY <1>2, <1>5 DEF CourseAt, Works
<1>7. CASE conv' = [conv EXCEPT ![o] = Goto(c, "ending")] /\ UNCHANGED <<wire, counter>>
  BY <1>1, <1>3, <1>4, <1>6, <1>7, WorkerGoes
<1>8. CASE conv' = [conv EXCEPT ![o] = Goto(FailRun(c), "ending")] /\ UNCHANGED <<wire, counter>>
  BY <1>1, <1>3, <1>4, <1>6, <1>8, WorkerGoes
<1>9. CASE conv' = [conv EXCEPT ![o] = Goto(c, "limit")] /\ UNCHANGED <<wire, counter>>
  BY <1>1, <1>3, <1>4, <1>6, <1>9, WorkerGoes
<1>10. CASE /\ ~ c.cancelled /\ Running(c) /\ counter' = [counter EXCEPT !.model = @ + 1]
            /\ BeginCommit(o, Changed([c EXCEPT !.wait = id], AddPending(asked, id)), "calling")
  <2>1. /\ IsState(asked) /\ asked.calls = c.live.calls /\ asked.results = c.live.results
        /\ asked.pending = c.live.pending
        /\ asked.active = c.live.active /\ asked.status = c.live.status /\ asked.why = c.live.why
    BY <1>2 DEF IsState, StateFields
  <2>2. PendingIds(asked) = PendingIds(c.live)
    BY <2>1 DEF PendingIds
  <2> HIDE DEF asked
  <2>3. PICK s : /\ s = AddPending(asked, id)
                 /\ IsState(s) /\ s.calls = c.live.calls /\ s.results = c.live.results
                 /\ PendingIds(s) = PendingIds(c.live) \cup {id}
                 /\ s.active = c.live.active /\ s.status = c.live.status /\ s.why = c.live.why
    BY <2>1, <2>2, AddedContent
  <2>4. id \in RequestIds /\ id.kind = "model"
    <3>1. counter.model \in Nat
      BY DEF LedgerInv, HostInv, LinkTyped
    <3> QED
      BY <3>1 DEF RequestIds, Model
  <2>5. counter'.object = counter.object
    BY <1>10 DEF LedgerInv, HostInv, LinkTyped
  <2> HIDE DEF id
  <2>6. Unhurt(s, c.cancelled) => PendingIds(c.live) = {}
    BY <1>2, <2>3 DEF CourseAt, Unhurt, PendingIds
  <2>7. CourseAt("calling", id, s, c.cancelled)
    BY <1>2, <2>3, <2>4, <2>6 DEF CourseAt, Works, Reasoned
  <2>8. Answered(s) = Answered(c.live)
    BY <2>3 DEF Answered
  <2>9. BeginCommit(o, Changed([c EXCEPT !.wait = id], s), "calling")
    BY <1>10, <2>3
  <2> QED
    BY <1>1, <1>2, <1>4, <2>3, <2>5, <2>7, <2>8, <2>9, NextBegins
<1> QED
  BY <1>7, <1>8, <1>9, <1>10 DEF Think

LEMMA FirstOpenCall ==
  ASSUME NEW S \in SUBSET Nat, S # {}
  PROVE  Min(S) \in S
<1>1. PICK x \in S : \A y \in S : ~ (<<y, x>> \in OpToRel(<, Nat))
  BY NatLessThanWellFounded, WFMin
<1>2. ASSUME NEW y \in S PROVE x <= y
  <2>1. x \in Nat /\ y \in Nat
    OBVIOUS
  <2>2. ~ (y < x)
    BY <1>1, <2>1 DEF OpToRel
  <2> QED
    BY <2>1, <2>2
<1> QED
  BY <1>2 DEF Min

LEMMA UnresolvedTells ==
  ASSUME LedgerInv, NEW o \in Object, Unresolved(o)
  PROVE  Conversations' /\ Protocol' /\ Truth'
<1> DEFINE c == conv[o]
<1>1. /\ c.pc = "unresolved" /\ UNCHANGED <<ledger, applied, current, ops, wire, answers, counter>>
      /\ conv' = [conv EXCEPT ![o] = Goto(StopRun(c), "batch")]
  BY DEF Unresolved
<1>2. /\ Sound(c) /\ CourseAt("unresolved", c.wait, c.live, c.cancelled) /\ c.live.active # 0
  BY <1>1, WorkerIsKnown DEF AtRest, CourseAt, Works
<1>3. Lives(c, StopRun(c)) /\ StopRun(c).cancelled = TRUE
  BY <1>2, StopRunLives
<1>4. CourseAt("unresolved", c.wait, StopRun(c).live, StopRun(c).cancelled)
  BY <1>2, <1>3, LivesCourse
<1>5. CourseAt("batch", c.wait, StopRun(c).live, StopRun(c).cancelled)
  BY <1>3, <1>4 DEF CourseAt, Works, Unhurt
<1>6. "batch" \in Places /\ Works("batch")
  BY DEF Places, Works
<1> QED
  BY <1>1, <1>3, <1>5, <1>6, WorkerGoes

LEMMA FailTells ==
  ASSUME LedgerInv, NEW o \in Object, Fail(o)
  PROVE  Conversations' /\ Protocol' /\ Truth'
<1> DEFINE c == conv[o]
<1>1. /\ c.pc = "fail" /\ UNCHANGED <<ledger, applied, current, ops, wire, answers, counter>>
      /\ conv' = [conv EXCEPT ![o] = Goto(FailRun(c), "ending")]
  BY DEF Fail, LedgerInv, HostInv, LinkTyped
<1>2. /\ Sound(c) /\ CourseAt("fail", c.wait, c.live, c.cancelled) /\ c.live.active # 0
  BY <1>1, WorkerIsKnown DEF AtRest, CourseAt, Works
<1>3. Lives(c, FailRun(c)) /\ FailRun(c).live.why # ""
  BY <1>2, FailRunLives
<1>4. CourseAt("fail", c.wait, FailRun(c).live, FailRun(c).cancelled)
  BY <1>2, <1>3, LivesCourse
<1>5. CourseAt("ending", c.wait, FailRun(c).live, FailRun(c).cancelled)
  BY <1>3, <1>4 DEF CourseAt, Works, Unhurt
<1>6. "ending" \in Places /\ Works("ending")
  BY DEF Places, Works
<1> QED
  BY <1>1, <1>3, <1>5, <1>6, WorkerGoes

LEMMA LaunchTells ==
  ASSUME LedgerInv, NEW o \in Object, Launch(o)
  PROVE  Conversations' /\ Protocol' /\ Truth'
<1> DEFINE c == conv[o]
<1>1. /\ c.pc = "launch" /\ UNCHANGED <<ledger, applied, current, ops, answers, counter>>
  BY DEF Launch
<1>2. /\ Sound(c) /\ CourseAt("launch", c.wait, c.live, c.cancelled)
  BY <1>1, WorkerIsKnown DEF AtRest
<1>3. Lives(c, c)
  BY <1>2, SameLives
<1>4. {"batch", "calling"} \subseteq Places /\ Works("batch") /\ Works("calling")
  BY DEF Places, Works
<1>5. CASE c.cancelled /\ conv' = [conv EXCEPT ![o] = Goto(c, "batch")] /\ wire' = wire
  <2>1. CourseAt("batch", c.wait, c.live, c.cancelled)
    BY <1>2, <1>5 DEF CourseAt, Works, Unhurt
  <2> QED
    BY <1>1, <1>3, <1>4, <1>5, <2>1, WorkerGoes
<1>6. CASE conv' = [conv EXCEPT ![o] = Goto(c, "calling")] /\ wire' = wire
  <2>1. CourseAt("calling", c.wait, c.live, c.cancelled)
    BY <1>2 DEF CourseAt, Works
  <2> QED
    BY <1>1, <1>3, <1>4, <1>6, <2>1, WorkerGoes
<1>7. CASE ToolSettles(o, c, "none")
  <2>1. c.wait.kind = "tool"
    BY <1>2 DEF CourseAt
  <2> QED
    BY <1>1, <1>7, <2>1, ToolSettlesTells
<1> QED
  BY <1>5, <1>6, <1>7 DEF Launch

\* What was not executed is answered by the turn; a run that goes on has all of its
\* calls answered, but for those it comes to.
LEMMA BatchTells ==
  ASSUME LedgerInv, NEW o \in Object, Batch(o)
  PROVE  Conversations' /\ Protocol' /\ Truth'
<1> DEFINE c == conv[o]
           open == OpenCalls(c.live)
           id == Tool(Min(open))
<1>1. /\ c.pc = "batch" /\ UNCHANGED <<ledger, applied, current, ops, answers, counter>>
  BY DEF Batch
<1>2. /\ ~ AtRest(c) /\ c.pc # "committing" /\ Sound(c) /\ IsState(c.live) /\ ~ c.failed
      /\ CourseAt("batch", c.wait, c.live, c.cancelled) /\ c.live.active # 0
  BY <1>1, WorkerIsKnown DEF AtRest, CourseAt, Works
<1>3. Lives(c, c)
  BY <1>2, SameLives
<1>4. CASE open = {} /\ conv' = [conv EXCEPT ![o] = Goto(c, IF c.cancelled THEN "ending" ELSE "think")] /\ wire' = wire
  <2>1. {"ending", "think"} \subseteq Places /\ Works("ending") /\ Works("think")
    BY DEF Places, Works
  <2>2. CourseAt("ending", c.wait, c.live, c.cancelled) /\ CourseAt("think", c.wait, c.live, c.cancelled)
    BY <1>2 DEF CourseAt, Works
  <2>3. CASE conv' = [conv EXCEPT ![o] = Goto(c, "ending")]
    BY <1>1, <1>3, <1>4, <2>1, <2>2, <2>3, WorkerGoes
  <2>4. CASE conv' = [conv EXCEPT ![o] = Goto(c, "think")]
    BY <1>1, <1>3, <1>4, <2>1, <2>2, <2>4, WorkerGoes
  <2> QED
    BY <1>4, <2>3, <2>4
<1>5. CASE /\ c.cancelled \/ ~ Running(c)
           /\ BeginCommit(o, Changed(c, CloseCalls(c.live, open, "turn")), "ending")
  <2>1. PICK s : /\ s = CloseCalls(c.live, open, "turn")
                 /\ IsState(s) /\ s.calls = c.live.calls /\ s.pending = c.live.pending
                 /\ s.results = c.live.results \cup {[call |-> x, as |-> "closed", msg |-> "turn"] : x \in open}
                 /\ s.active = c.live.active /\ s.status = c.live.status /\ s.why = c.live.why
    BY <1>2, ClosedContent
  <2>2. CourseAt("ending", c.wait, s, c.cancelled)
    BY <1>2, <2>1 DEF CourseAt, Works, Reasoned, Unhurt
  <2>3. Answered(c.live) \subseteq Answered(s)
    BY <2>1 DEF Answered
  <2>4. \A r \in s.results : r.as = "closed" => r \in c.live.results \/ r.call \notin Answered(c.live)
    BY <2>1 DEF OpenCalls
  <2>5. "ending" \in Goals
    BY DEF Goals, Places
  <2>6. BeginCommit(o, Changed(c, s), "ending")
    BY <1>5, <2>1
  <2> QED
    BY <1>1, <1>2, <2>1, <2>2, <2>3, <2>4, <2>5, <2>6, NextBegins
<1>6. CASE /\ open # {} /\ ~ c.cancelled /\ Running(c)
           /\ BeginCommit(o, Changed([c EXCEPT !.wait = id], AddPending(c.live, id)), "launch")
  <2>1. Min(open) \in open /\ Min(open) \in Nat
    <3>1. open \in SUBSET Nat
      BY <1>2 DEF CourseAt, OpenCalls
    <3> QED
      BY <1>6, <3>1, FirstOpenCall
  <2>2. id \in RequestIds /\ id.kind = "tool" /\ id.n \notin Answered(c.live)
    BY <2>1 DEF RequestIds, Tool, OpenCalls
  <2> HIDE DEF id
  <2>3. PICK s : /\ s = AddPending(c.live, id)
                 /\ IsState(s) /\ s.calls = c.live.calls /\ s.results = c.live.results
                 /\ PendingIds(s) = PendingIds(c.live) \cup {id}
                 /\ s.active = c.live.active /\ s.status = c.live.status /\ s.why = c.live.why
    BY <1>2, AddedContent
  <2>4. Answered(s) = Answered(c.live)
    BY <2>3 DEF Answered
  <2>5. Unhurt(s, c.cancelled) => PendingIds(c.live) = {}
    BY <1>2, <2>3 DEF CourseAt, Unhurt, PendingIds
  <2>6. CourseAt("launch", id, s, c.cancelled)
    BY <1>2, <2>2, <2>3, <2>4, <2>5 DEF CourseAt, Works, Reasoned
  <2>7. BeginCommit(o, Changed([c EXCEPT !.wait = id], s), "launch")
    BY <1>6, <2>3
  <2>8. "launch" \in Goals
    BY DEF Goals, Places
  <2> QED
    BY <1>1, <1>2, <2>3, <2>4, <2>6, <2>7, <2>8, NextBegins
<1> QED
  BY <1>4, <1>5, <1>6 DEF Batch

\* A run that completes was hurt by nobody, and has nothing left that is pending.
LEMMA FinishTells ==
  ASSUME LedgerInv, NEW o \in Object, Finish(o)
  PROVE  Conversations' /\ Protocol' /\ Truth'
<1> DEFINE c == conv[o]
           closed == CloseCalls(c.live, OpenCalls(c.live) \ Prepared(c.live), "closed")
           s == [closed EXCEPT !.active = 0, !.status = "running", !.last = c.live.active, !.outcome = Outcome(c)]
<1>1. /\ c.pc \in {"ending", "limit"} /\ UNCHANGED <<ledger, applied, current, ops, answers, counter>>
  BY DEF Finish
<1>2. /\ ~ AtRest(c) /\ c.pc # "committing" /\ Sound(c) /\ IsState(c.live) /\ ~ c.failed
      /\ CourseAt(c.pc, c.wait, c.live, c.cancelled) /\ c.live.active # 0 /\ Reasoned(c.live)
      /\ c.live.calls \subseteq Nat
  BY <1>1, WorkerIsKnown DEF AtRest, CourseAt, Works
<1>3. BeginCommit(o, Changed(c, s), "idle")
  BY <1>2 DEF Finish
<1>4. /\ IsState(closed) /\ closed.calls = c.live.calls /\ closed.pending = c.live.pending
      /\ closed.results = c.live.results
           \cup {[call |-> x, as |-> "closed", msg |-> "closed"] : x \in OpenCalls(c.live) \ Prepared(c.live)}
  BY <1>2, ClosedContent
<1> HIDE DEF closed
<1>5. /\ IsState(s) /\ s.calls = c.live.calls /\ s.pending = c.live.pending /\ s.results = closed.results
      /\ s.active = 0 /\ s.outcome = Outcome(c)
  BY <1>4 DEF IsState, StateFields
<1> HIDE DEF s
<1>6. CourseAt("idle", c.wait, s, c.cancelled)
  BY <1>2, <1>5 DEF CourseAt, Works
<1>7. Answered(c.live) \subseteq Answered(s) /\ OpenCalls(c.live) \ Prepared(c.live) \subseteq Answered(s)
  <2>1. ASSUME NEW x \in OpenCalls(c.live) \ Prepared(c.live) PROVE x \in Answered(s)
    <3>1. [call |-> x, as |-> "closed", msg |-> "closed"] \in s.results
      BY <1>4, <1>5
    <3> QED
      BY <3>1 DEF Answered
  <2> QED
    BY <1>4, <1>5, <2>1 DEF Answered
<1>8. \A r \in s.results : r.as = "closed" => r \in c.live.results \/ r.call \notin Answered(c.live)
  BY <1>4, <1>5 DEF OpenCalls
<1>9. ASSUME Outcome(c) = "completed"
      PROVE  s.pending = {} /\ OpenCalls(s) = {}
  <2>1. c.live.why = "" /\ ~ c.cancelled
    <3>1. CASE c.live.why = ""
      BY <1>9, <3>1 DEF Outcome
    <3>2. CASE c.live.why # "" /\ c.live.status = "stopping"
      <4>1. Outcome(c) = "interrupted"
        BY <3>2 DEF Outcome
      <4> QED
        BY <1>9, <4>1
    <3>3. CASE c.live.why # "" /\ c.live.status = "running"
      <4>1. Outcome(c) = "failed"
        BY <3>3 DEF Outcome
      <4> QED
        BY <1>9, <4>1
    <3> QED
      BY <1>2, <3>1, <3>2, <3>3 DEF Reasoned
  <2>2. c.live.pending = {}
    BY <1>1, <1>2, <2>1 DEF CourseAt, Unhurt
  <2>3. Prepared(c.live) = {}
    BY <2>2 DEF Prepared
  <2> QED
    BY <1>5, <1>7, <2>2, <2>3 DEF OpenCalls
<1>10. "idle" \in Goals
  BY DEF Goals, Places
<1>11. c.pc # "waiting"
  BY <1>1
<1> QED
  BY <1>1, <1>2, <1>3, <1>5, <1>6, <1>7, <1>8, <1>9, <1>10, <1>11, NextBegins

\* A call enters the pipe when the host has it recorded: the engine and the host are
\* in step, and no commit in the pipe can still become the host's state.
LEMMA DispatchTells ==
  ASSUME LedgerInv, NEW o \in Object, Dispatch(o)
  PROVE  Conversations' /\ Protocol' /\ Truth'
<1> DEFINE c == conv[o]
           d == Goto(c, "waiting")
           msg == [type |-> "call", obj |-> o, id |-> c.wait, run |-> c.live.active]
<1>1. /\ c.pc = "calling" /\ UNCHANGED <<ledger, applied, current, ops, answers, counter>>
  BY DEF Dispatch
<1>2. /\ o = current /\ ~ AtRest(c) /\ c.pc # "committing" /\ Sound(c) /\ ~ c.failed /\ There(c)
      /\ Revised(c) /\ Course(c) /\ ~ Committing(c) /\ Works(Place(c))
      /\ CourseAt("calling", c.wait, c.live, c.cancelled)
  BY <1>1, WorkerIsKnown DEF AtRest, Works
<1>3. CASE Frozen(c)
  <2>1. NoAnswer(o, c)
    BY <1>3 DEF Dispatch
  <2> QED
    BY <1>1, <2>1, NoAnswerTells
<1>4. CASE ~ Frozen(c)
  <2>1. conv' = [conv EXCEPT ![o] = d] /\ wire' = wire \cup {msg}
    BY <1>4 DEF Dispatch
  <2>2. /\ Lives(c, d) /\ d.pc = "waiting" /\ d.live = c.live /\ d.cancelled = c.cancelled
    BY <1>2, GotoLives
  <2> HIDE DEF d
  <2>3. /\ d.rev = c.rev /\ d.saved = c.saved /\ d.sent = c.sent /\ d.failed = c.failed /\ d.then = c.then
        /\ d.wait = c.wait /\ d.cancelled = c.cancelled /\ ~ Committing(d) /\ There(d) /\ Place(d) = "waiting"
        /\ Works(d.pc) /\ Owed(d) = {c.wait} /\ Owed(c) = {}
    BY <1>1, <1>2, <2>2 DEF Lives, Alters, Committing, There, Place, Works, Owed
  <2>4. LinkTyped /\ Conversations /\ Protocol /\ Truth
    BY DEF LedgerInv, HostInv
  <2>5. Revised(d)
    BY <1>1, <1>2, <2>2, <2>3, LivesRevised DEF Works
  <2>6. CourseAt("waiting", d.wait, d.live, d.cancelled)
    BY <1>2, <2>2, <2>3 DEF CourseAt, Works
  <2>7. Course(d)
    BY <1>2, <2>3, <2>6 DEF Course, Places
  <2>8. Conversations' /\ conv'[o] = d
    BY <2>1, <2>4, <2>5, <2>7, OneConversation
  <2>9. SameCommits
    BY <1>1, <2>1 DEF SameCommits
  <2>10. Protocol'
    BY <1>1, <1>2, <2>1, <2>3, <2>4, <2>9, ProtocolMoves
  <2>11. Established(o)
    BY <1>1, <1>2, <2>4 DEF Protocol, WorkerIsEstablished
  <2>12. ledger.rev = c.rev /\ ledger = c.saved /\ SameContent(c.live, ledger)
    BY <1>2, <2>4, <2>11 DEF Protocol, InStep, SavedIsLedger, There, Revised
  <2>13. ASSUME NEW m \in wire, m.type = "commit" PROVE m.state.rev # ledger.rev + 1
    <3>1. m.obj # o
      BY <1>2, <2>4, <2>13 DEF Protocol, CommitsInWire
    <3>2. m.state.rev <= ledger.rev
      BY <1>2, <2>4, <2>11, <2>13, <3>1 DEF Protocol, Overtaken
    <3> QED
      BY <2>4, <3>2 DEF LinkTyped
  <2>14. Out' = Out \cup {c.wait}
    <3>1. msg.type = "call" /\ msg.id = c.wait
      OBVIOUS
    <3> QED
      BY <1>1, <2>1, <3>1 DEF Out
  <2>15. Answered(ledger) = Answered(c.live) /\ PendingIds(ledger) = PendingIds(c.live)
    BY <2>12 DEF SameContent, Answered, PendingIds
  <2>16. TrueOf(ledger, Out \cup {c.wait})
    <3>1. ASSUME NEW r \in ledger.results, r.as = "closed" PROVE Tool(r.call) # c.wait
      <4>1. r.call \in Answered(c.live)
        BY <2>15 DEF Answered
      <4> QED
        BY <1>2, <4>1 DEF Tool, CourseAt
    <3>2. c.wait \in PendingIds(ledger)
      BY <1>2, <2>15 DEF CourseAt
    <3> QED
      BY <2>4, <3>1, <3>2 DEF Truth, TrueOf
  <2>17. AllAnswered(c.live, Out)
    BY <1>2, <2>3, <2>4, <2>12 DEF Truth, Accounted, UpToDate
  <2>18. Accounted'
    <3>1. AllAnswered(d.live, (Out \cup {c.wait}) \ Owed(d))
      BY <2>2, <2>3, <2>17 DEF AllAnswered
    <3> QED
      BY <1>1, <1>2, <2>8, <2>14, <3>1 DEF Accounted
  <2>19. CallsTyped'
    BY <1>1, <1>2, <2>4, <2>14 DEF Truth, CallsTyped, CourseAt
  <2>20. \A m \in wire' : m.type = "commit" => m \in wire
    BY <2>1
  <2>21. \A x \in Object : ~ Committing(conv'[x])
    <3>1. \A x \in Object : x # o => ~ Committing(conv[x]) /\ conv'[x] = conv[x]
      BY <1>2, <2>1, <2>4 DEF LedgerInv, HostInv, OnlyCurrentWorks, AtRest, Committing, LinkTyped
    <3> QED
      BY <2>3, <2>8, <3>1
  <2>22. Truth'
    BY <1>1, <2>4, <2>13, <2>14, <2>16, <2>18, <2>19, <2>20, <2>21 DEF Truth
  <2> QED
    BY <2>8, <2>10, <2>22
<1> QED
  BY <1>3, <1>4

LEMMA CallAnsweredTells ==
  ASSUME LedgerInv, NEW o \in Object, CallAnswered(o)
  PROVE  Conversations' /\ Protocol' /\ Truth'
<1> DEFINE c == conv[o]
<1>1. PICK a \in answers :
        /\ a.type = "call" /\ a.obj = o /\ a.id = c.wait
        /\ \/ a.as = "invalid" /\ NoAnswer(o, c)
           \/ a.as # "invalid" /\ c.wait.kind = "model" /\ ModelSettles(o, c, a)
           \/ a.as # "invalid" /\ c.wait.kind = "tool" /\ ToolSettles(o, c, a.as)
        /\ answers' = answers \ {a}
  BY DEF CallAnswered
<1>2. c.pc = "waiting" /\ UNCHANGED <<ledger, applied, current, ops, counter>>
  BY DEF CallAnswered
<1>3. /\ \A x : x.type = "commit" => (x \in answers' <=> x \in answers)
      /\ answers' \subseteq answers
  BY <1>1
<1>4. a.calls \subseteq Nat /\ Says(c.wait.kind, a.as)
  BY <1>1 DEF LedgerInv, Truth, CallsTyped
<1>5. CASE a.as = "invalid" /\ NoAnswer(o, c)
  BY <1>2, <1>3, <1>5, NoAnswerTells
<1>6. CASE a.as # "invalid" /\ c.wait.kind = "model" /\ ModelSettles(o, c, a)
  <2>1. a.as \in {"tools", "text", "length", "unpriced"}
    BY <1>4, <1>6 DEF Says
  <2> QED
    BY <1>2, <1>3, <1>4, <1>6, <2>1, ModelSettlesTells
<1>7. CASE a.as # "invalid" /\ c.wait.kind = "tool" /\ ToolSettles(o, c, a.as)
  <2>1. a.as # "closed"
    BY <1>4 DEF Says
  <2> QED
    BY <1>2, <1>3, <1>7, <2>1, ToolSettlesTells
<1> QED
  BY <1>1, <1>5, <1>6, <1>7

LEMMA GraceEndsTells ==
  ASSUME LedgerInv, NEW o \in Object, GraceEnds(o)
  PROVE  Conversations' /\ Protocol' /\ Truth'
<1>1. /\ conv[o].pc = "waiting" /\ NoAnswer(o, conv[o])
      /\ answers' = {a \in answers : ~(a.type = "call" /\ a.obj = o)}
      /\ UNCHANGED <<ledger, applied, current, ops, counter>>
  BY DEF GraceEnds
<1>2. /\ \A x : x.type = "commit" => (x \in answers' <=> x \in answers)
      /\ answers' \subseteq answers
  BY <1>1
<1> QED
  BY <1>1, <1>2, NoAnswerTells

LEMMA CallTimesOutTells ==
  ASSUME LedgerInv, NEW o \in Object, CallTimesOut(o)
  PROVE  Conversations' /\ Protocol' /\ Truth'
<1>1. /\ conv[o].pc = "waiting" /\ conv' = [conv EXCEPT ![o] = StopRun(conv[o])]
      /\ UNCHANGED <<ledger, applied, current, ops, wire, answers, counter>>
  BY DEF CallTimesOut, LedgerInv, HostInv, LinkTyped
<1>2. o = current /\ There(conv[o]) /\ Sound(conv[o])
  BY <1>1, WorkerIsKnown DEF AtRest
<1> QED
  BY <1>1, <1>2, StopRunLives, OneStays

LEMMA WatchTells ==
  ASSUME LedgerInv, NEW o \in Object, Watch(o)
  PROVE  Conversations' /\ Protocol' /\ Truth'
<1> DEFINE c == conv[o]
           s == [c.live EXCEPT !.status = "stopping", !.why = IF @ = "" THEN "stopped" ELSE @]
           d == Changed(c, s)
           e == [d EXCEPT !.cancelled = TRUE]
<1>1. /\ c.pc \notin {"none", "idle"} /\ conv' = [conv EXCEPT ![o] = e]
      /\ UNCHANGED <<ledger, applied, current, ops, wire, answers, counter>>
  BY DEF Watch
<1>2. o = current /\ There(c) /\ Sound(c) /\ IsState(c.live)
  BY <1>1, WorkerIsKnown DEF AtRest
<1>3. /\ IsState(s) /\ SameContent(s, c.live) /\ s.active = c.live.active
      /\ s.status = "stopping" /\ s.why # ""
  BY <1>2 DEF IsState, StateFields, SameContent
<1> HIDE DEF s
<1>4. Lives(c, d) /\ d.pc = c.pc /\ IsConversation(d) /\ d.live = s
  BY <1>2, <1>3, ChangedLives
<1> HIDE DEF d
<1>5. Lives(d, e) /\ e.pc = c.pc
  BY <1>3, <1>4, CancelLives
<1> HIDE DEF e
<1>6. Lives(c, e)
  BY <1>4, <1>5, LivesOn
<1> QED
  BY <1>1, <1>2, <1>5, <1>6, OneStays

\* A stop from outside, of the conversation the table names.
LEMMA StopTells ==
  ASSUME LedgerInv, current # 0, conv' = [conv EXCEPT ![current] = StopRun(@)],
         UNCHANGED <<ledger, applied, current, ops, wire, answers, counter>>
  PROVE  Conversations' /\ Protocol' /\ Truth'
<1>1. PICK o \in Object : o = current
  BY DEF LedgerInv, HostInv, LinkTyped
<1>2. Sound(conv[o]) /\ conv' = [conv EXCEPT ![o] = StopRun(conv[o])]
  BY <1>1 DEF LedgerInv, HostInv, LinkTyped
<1>3. There(conv[o])
  BY <1>1 DEF LedgerInv, Protocol, Counted
<1> QED
  BY <1>1, <1>2, <1>3, StopRunLives, OneStays

\* A conversation that failed waits for nothing.
LEMMA CommitFailsTells ==
  ASSUME LedgerInv, NEW o \in Object, conv[o].pc = "committing",
         conv' = [conv EXCEPT ![o] = CommitFailed(conv[o])],
         \A a \in answers' : a.type = "commit" => a \in answers /\ a.obj # o, answers' \subseteq answers,
         UNCHANGED <<ledger, applied, current, ops, wire, counter>>
  PROVE  Conversations' /\ Protocol' /\ Truth'
<1> DEFINE c == conv[o]
           d == CommitFailed(c)
<1>1. /\ o = current /\ Sound(c) /\ Revised(c) /\ Course(c) /\ There(c)
      /\ LinkTyped /\ Conversations /\ Protocol /\ Truth
  BY WorkerIsKnown DEF AtRest, LedgerInv, HostInv
<1>2. Revised(d) /\ Course(d) /\ d.rev = c.rev /\ d.saved = c.saved /\ d.failed = TRUE /\ d.pc = "idle"
  BY <1>1, FailedRevised
<1> HIDE DEF d
<1>3. conv' = [conv EXCEPT ![o] = d]
  BY DEF d
<1>4. Conversations' /\ conv'[o] = d /\ \A x \in Object : x # o => conv'[x] = conv[x]
  BY <1>1, <1>2, <1>3, OneConversation
<1>5. Protocol'
  BY <1>1, <1>2, <1>3, ProtocolFails
<1>6. Out' = Out
  BY DEF Out
<1>7. ~ Works(Place(d)) /\ ~ Committing(d)
  BY <1>2 DEF Works, Place, Committing
<1>8. Accounted'
  BY <1>1, <1>4, <1>7 DEF Accounted
<1>9. CallsTyped'
  BY <1>1, <1>6 DEF Truth, CallsTyped
<1>10. \A x \in Object : Committing(conv'[x]) => conv'[x] = conv[x]
  BY <1>4, <1>7
<1>11. Truth'
  BY <1>1, <1>6, <1>8, <1>9, <1>10 DEF Truth
<1> QED
  BY <1>4, <1>5, <1>11

\* A commit is through: what follows it finds every call of the host's answered.
LEMMA CommitAnsweredTells ==
  ASSUME LedgerInv, NEW o \in Object, CommitAnswered(o)
  PROVE  Conversations' /\ Protocol' /\ Truth'
<1> DEFINE c == conv[o]
           d == CommitSucceeded(c)
<1>1. PICK a \in answers :
        /\ a.type = "commit" /\ a.obj = o
        /\ conv' = [conv EXCEPT ![o] = IF a.ok THEN CommitSucceeded(c) ELSE CommitFailed(c)]
        /\ answers' = answers \ {a}
  BY DEF CommitAnswered
<1>2. c.pc = "committing" /\ UNCHANGED <<ledger, applied, current, ops, wire, counter>>
  BY DEF CommitAnswered
<1>3. /\ o = current /\ Sound(c) /\ Revised(c) /\ Course(c) /\ Committing(c) /\ ~ c.failed
      /\ LinkTyped /\ Conversations /\ Protocol /\ Truth
  BY <1>2, WorkerIsKnown DEF AtRest, LedgerInv, HostInv, Committing
<1>4. \A b \in answers : b.type = "commit" /\ b.obj = o => b = a
  BY <1>1, <1>3 DEF Protocol, AnswersKnown
<1>5. CASE ~ a.ok
  BY <1>1, <1>2, <1>4, <1>5, CommitFailsTells
<1>6. CASE a.ok
  <2>1. conv' = [conv EXCEPT ![o] = d]
    BY <1>1, <1>6
  <2>2. /\ Revised(d) /\ Course(d) /\ d.rev = c.sent.rev /\ d.saved = c.sent /\ d.failed = c.failed
        /\ d.pc = c.then /\ SameContent(d.live, c.live)
    BY <1>3, SucceededRevised
  <2> HIDE DEF d
  <2>3. /\ ~ Committing(d) /\ There(d) /\ Place(d) = c.then /\ Place(c) = c.then /\ Owed(d) = {} /\ Owed(c) = {}
    BY <1>3, <2>2 DEF Course, Goals, Places, Committing, There, Place, Owed
  <2>4. Conversations' /\ conv'[o] = d /\ \A x \in Object : x # o => conv'[x] = conv[x]
    BY <1>3, <2>1, <2>2, OneConversation
  <2>5. Protocol'
    BY <1>1, <1>2, <1>3, <1>6, <2>1, <2>2, <2>3, ProtocolSucceeds
  <2>6. Out' = Out
    BY <1>2 DEF Out
  <2>7. Identity(o, c.sent.rev) \in applied
    BY <1>1, <1>3, <1>6 DEF Protocol, AnswersKnown
  <2>8. Works(Place(d)) => AllAnswered(d.live, Out)
    <3>1. UpToDate(o)
      BY <1>3, <2>7 DEF UpToDate
    <3>2. Works(Place(c)) => AllAnswered(c.live, Out \ Owed(c))
      BY <1>3, <3>1 DEF Truth, Accounted
    <3>3. Answered(d.live) = Answered(c.live)
      BY <2>2 DEF SameContent, Answered
    <3> QED
      BY <2>3, <3>2, <3>3 DEF AllAnswered
  <2>9. Accounted'
    <3>1. Works(Place(d)) => AllAnswered(d.live, Out \ Owed(d))
      BY <2>8 DEF AllAnswered
    <3> QED
      BY <1>2, <1>3, <2>4, <2>6, <3>1 DEF Accounted
  <2>10. CallsTyped'
    BY <1>1, <1>2, <1>3, <2>6 DEF Truth, CallsTyped
  <2>11. \A x \in Object : Committing(conv'[x]) => conv'[x] = conv[x]
    BY <2>3, <2>4
  <2>12. Truth'
    BY <1>2, <1>3, <2>6, <2>9, <2>10, <2>11 DEF Truth
  <2> QED
    BY <2>4, <2>5, <2>12
<1> QED
  BY <1>5, <1>6

LEMMA CommitTimesOutTells ==
  ASSUME LedgerInv, NEW o \in Object, CommitTimesOut(o)
  PROVE  Conversations' /\ Protocol' /\ Truth'
<1> DEFINE c == conv[o]
           d == [c EXCEPT !.attempt = 2]
           msg == [type |-> "commit", obj |-> o, state |-> c.sent]
<1>1. /\ c.pc = "committing" /\ UNCHANGED <<ledger, applied, current, ops, counter>>
      /\ answers' = {a \in answers : ~(a.type = "commit" /\ a.obj = o)}
  BY DEF CommitTimesOut
<1>2. /\ o = current /\ Sound(c) /\ IsConversation(c) /\ Revised(c) /\ Course(c) /\ Committing(c) /\ There(c)
      /\ LinkTyped /\ Conversations /\ Protocol /\ Truth
  BY <1>1, WorkerIsKnown DEF AtRest, LedgerInv, HostInv, Committing
<1>3. /\ \A a \in answers' : a.type = "commit" => a \in answers /\ a.obj # o
      /\ answers' \subseteq answers
  BY <1>1
<1>4. CASE ~ MayRetransmit(c)
  <2>1. conv' = [conv EXCEPT ![o] = CommitFailed(c)] /\ wire' = wire
    BY <1>4 DEF CommitTimesOut
  <2> QED
    BY <1>1, <1>3, <2>1, CommitFailsTells
<1>5. CASE MayRetransmit(c)
  <2>1. conv' = [conv EXCEPT ![o] = d] /\ wire' = wire \cup {msg}
    BY <1>2, <1>5 DEF CommitTimesOut, LinkTyped
  <2>2. /\ d.live = c.live /\ d.saved = c.saved /\ d.rev = c.rev /\ d.dirty = c.dirty /\ d.touched = c.touched
        /\ d.failed = c.failed /\ d.pc = c.pc /\ d.then = c.then /\ d.sent = c.sent /\ d.wait = c.wait
        /\ d.cancelled = c.cancelled
    BY <1>2 DEF IsConversation, ConversationFields
  <2> HIDE DEF d
  <2>3. Committing(d) /\ There(d) /\ Place(d) = Place(c) /\ Owed(d) = Owed(c)
    BY <1>2, <2>2 DEF Committing, There, Place, Owed
  <2>4. Revised(d) /\ Course(d)
    BY <1>2, <2>2, <2>3 DEF Revised, Course, Committing, There
  <2>5. Conversations' /\ conv'[o] = d /\ \A x \in Object : x # o => conv'[x] = conv[x]
    BY <1>2, <2>1, <2>4, OneConversation
  <2>6. Protocol'
    BY <1>1, <1>2, <1>3, <2>1, <2>2, <2>3, ProtocolRetransmits
  <2>7. Out' = Out
    BY <1>1, <2>1 DEF Out
  <2>8. Accounted'
    <3>1. UpToDate(o)' => UpToDate(o)
      BY <1>1, <2>2, <2>3, <2>5 DEF UpToDate, Committing
    <3> QED
      BY <1>1, <1>2, <2>2, <2>3, <2>5, <2>7, <3>1 DEF Truth, Accounted
  <2>9. CallsTyped'
    BY <1>1, <1>2, <2>7 DEF Truth, CallsTyped
  <2>10. \A x \in Object : Committing(conv'[x]) => Committing(conv[x]) /\ conv'[x].sent = conv[x].sent
    BY <1>2, <2>2, <2>5
  <2>11. ASSUME NEW m \in wire', m.type = "commit", m.state.rev = ledger.rev + 1 PROVE TrueOf(m.state, Out)
    <3>1. CASE m \in wire
      BY <1>2, <2>11, <3>1 DEF Truth
    <3>2. CASE m = msg
      BY <1>2, <2>11, <3>2 DEF Truth
    <3> QED
      BY <2>1, <3>1, <3>2
  <2>12. Truth'
    BY <1>1, <1>2, <2>7, <2>8, <2>9, <2>10, <2>11 DEF Truth
  <2> QED
    BY <2>5, <2>6, <2>12
<1> QED
  BY <1>4, <1>5

-----------------------------------------------------------------------------
(* The requests of the host and its own steps.                              *)

LEMMA NothingTells ==
  ASSUME LedgerInv, UNCHANGED <<ledger, applied, ops, wire, answers, conv, current, counter>>
  PROVE  Conversations' /\ Protocol' /\ Truth'
<1>1. Conversations'
  BY DEF LedgerInv, Conversations
<1>2. Counted' /\ CommitsInWire' /\ AnswersKnown' /\ AppliedKnown'
  BY DEF LedgerInv, Protocol, Counted, CommitsInWire, AnswersKnown, AppliedKnown
<1>3. Overtaken' /\ InStep' /\ WorkerIsEstablished' /\ SavedIsLedger'
  BY DEF LedgerInv, Protocol, Overtaken, InStep, WorkerIsEstablished, SavedIsLedger, Established
<1>4. Out' = Out
  BY DEF Out
<1>5. Accounted' /\ CallsTyped'
  BY <1>4 DEF LedgerInv, Truth, Accounted, UpToDate, CallsTyped
<1>6. Truth'
  BY <1>4, <1>5 DEF LedgerInv, Truth
<1> QED
  BY <1>1, <1>2, <1>3, <1>6 DEF Protocol

\* A run is admitted by an object that holds what it has saved, and nothing pending.
LEMMA StartTells ==
  ASSUME LedgerInv, NEW a \in arrived, Start(a)
  PROVE  Conversations' /\ Protocol' /\ Truth'
<1>1. UNCHANGED <<ledger, applied, ops, wire, answers, current, counter>>
  BY DEF Start
<1>2. CASE ~ Admits(conv[a.obj], a)
  BY <1>1, <1>2, NothingTells DEF Start
<1>3. CASE Admits(conv[a.obj], a)
  <2>1. PICK o \in Object : o = a.obj /\ o = current
    BY DEF LedgerInv, HostInv, OnlyCurrentWorks, LinkTyped
  <2> DEFINE c == conv[o]
             s == [c.live EXCEPT !.active = a.run, !.status = "running", !.why = "", !.asked = 0, !.runs = @ \cup {a.run}]
             f == [c EXCEPT !.pc = "input", !.cancelled = FALSE]
             d == Changed(f, s)
  <2>2. /\ LinkTyped /\ Conversations /\ Protocol /\ Truth
        /\ Sound(c) /\ IsConversation(c) /\ IsState(c.live) /\ Revised(c) /\ Course(c)
    BY DEF LedgerInv, HostInv, LinkTyped, Sound, Conversations
  <2>3. c.pc = "idle" /\ ~ c.failed /\ c.live.pending = {} /\ a.run # 0
    BY <1>3, <2>1 DEF Admits, LedgerInv, StartsKnown
  <2>4. /\ IsState(s) /\ SameContent(s, c.live) /\ s.active = a.run /\ s.status = "running"
    BY <2>2 DEF IsState, StateFields, SameContent
  <2>5. conv' = [conv EXCEPT ![o] = d]
    <3>1. conv' = [conv EXCEPT ![o] = Accept(c, a.run)]
      BY <1>3, <2>1, <2>2 DEF Start, LinkTyped
    <3> QED
      BY <3>1 DEF Accept
  <2> HIDE DEF s
  <2>6. /\ d.live = s /\ d.saved = c.saved /\ d.rev = c.rev /\ d.sent = c.sent /\ d.failed = c.failed
        /\ d.then = c.then /\ d.wait = c.wait /\ d.dirty = TRUE /\ d.pc = "input" /\ d.cancelled = FALSE
    BY <2>2 DEF Changed, IsConversation, ConversationFields
  <2> HIDE DEF d
  <2>7. /\ ~ Committing(d) /\ There(d) /\ Place(d) = "input" /\ Owed(d) = {}
        /\ ~ Committing(c) /\ There(c)
    BY <2>3, <2>6 DEF Committing, There, Place, Owed
  <2>8. SameContent(c.live, c.saved)
    BY <2>2, <2>3, <2>7 DEF Revised
  <2>9. Revised(d)
    BY <2>2, <2>3, <2>4, <2>6, <2>7, <2>8 DEF Revised, SameContent
  <2>10. s.calls \subseteq Nat /\ s.pending = {}
    BY <2>2, <2>3, <2>4 DEF Course, CourseAt, SameContent
  <2>11. Course(d)
    <3>1. CourseAt("input", d.wait, s, d.cancelled)
      BY <2>3, <2>4, <2>10 DEF CourseAt, Reasoned
    <3>2. d.then \in Goals /\ Place(d) \in Places
      BY <2>2, <2>6, <2>7 DEF Course, Places
    <3> QED
      BY <2>6, <2>7, <3>1, <3>2 DEF Course
  <2>12. Conversations' /\ conv'[o] = d /\ \A x \in Object : x # o => conv'[x] = conv[x]
    BY <2>2, <2>5, <2>9, <2>11, OneConversation
  <2>13. Protocol'
    <3>1. SameCommits /\ counter'.object = counter.object
      BY <1>1 DEF SameCommits
    <3> QED
      BY <1>1, <2>1, <2>2, <2>5, <2>6, <2>7, <3>1, ProtocolMoves
  <2>14. Out' = Out
    BY <1>1 DEF Out
  <2>15. Accounted'
    <3>1. SUFFICES ASSUME ledger.rev = c.rev PROVE AllAnswered(s, Out)
      BY <1>1, <2>1, <2>6, <2>7, <2>12, <2>14 DEF Accounted, UpToDate, AllAnswered
    <3>2. SameContent(s, ledger)
      BY <2>2, <2>4, <2>7, <2>8, <3>1 DEF Protocol, SavedIsLedger, There, SameContent
    <3>3. Answered(s) = Answered(ledger) /\ PendingIds(ledger) = {}
      BY <2>10, <3>2 DEF SameContent, Answered, PendingIds
    <3> QED
      BY <2>2, <3>3 DEF Truth, TrueOf, AllAnswered
  <2>16. CallsTyped'
    BY <1>1, <2>2, <2>14 DEF Truth, CallsTyped
  <2>17. \A x \in Object : Committing(conv'[x]) => conv'[x] = conv[x]
    BY <2>7, <2>12
  <2>18. Truth'
    BY <1>1, <2>2, <2>14, <2>15, <2>16, <2>17 DEF Truth
  <2> QED
    BY <2>12, <2>13, <2>18
<1> QED
  BY <1>2, <1>3

\* A new object begins a commit of what follows the ledger's state.
LEMMA NewCommitTells ==
  ASSUME LedgerInv, NEW o \in Object, o = counter.object + 1,
         NEW e, IsConversation(e), IsState(e.live), e.rev = ledger.rev, e.saved = ledger, ~ e.failed,
         e.dirty = TRUE \/ e.live = ledger, TrueOf(e.live, Out), BeginCommit(o, e, "idle"),
         current' = o, counter' = [counter EXCEPT !.object = o], UNCHANGED <<ledger, applied, ops, answers>>
  PROVE  Conversations' /\ Protocol' /\ Truth'
<1>1. LinkTyped /\ Conversations /\ Protocol /\ Truth /\ ledger.rev \in Nat
  BY DEF LedgerInv, HostInv, LinkTyped
<1>2. PICK d : /\ Begun(e, d, "idle")
               /\ conv' = [conv EXCEPT ![o] = d]
               /\ wire' = wire \cup {[type |-> "commit", obj |-> o, state |-> d.sent]}
  BY Begins
<1>3. /\ Revised(d) /\ SameContent(d.sent, d.live)
      /\ d.sent.rev = e.rev + 1 /\ d.sent.active = d.live.active /\ d.sent.outcome = d.live.outcome
  <2>1. e.rev \in Nat /\ (e.dirty = TRUE \/ e.live = e.saved)
    BY <1>1
  <2> QED
    BY <1>2, <2>1, BegunRevised
<1>4. /\ Committing(d) /\ There(d) /\ Place(d) = "idle" /\ ~ Works(Place(d)) /\ d.then = "idle"
      /\ d.live = e.live /\ d.rev = ledger.rev /\ d.saved = ledger
  BY <1>2 DEF Begun, Committing, There, Place, Works
<1>5. Course(d)
  <2>1. "idle" \in Goals /\ "idle" \in Places
    BY DEF Goals, Places
  <2>2. CourseAt("idle", d.wait, d.live, d.cancelled)
    BY <1>4 DEF CourseAt, TrueOf, Works
  <2> QED
    BY <1>4, <2>1, <2>2 DEF Course
<1>6. Conversations' /\ conv'[o] = d /\ \A x \in Object : x # o => conv'[x] = conv[x]
  BY <1>1, <1>2, <1>3, <1>5, OneConversation
<1>7. counter'.object = o
  BY <1>1 DEF LinkTyped
<1>8. Protocol'
  BY <1>1, <1>2, <1>3, <1>4, <1>7, ProtocolRenews
<1>9. Out' = Out
  BY <1>2 DEF Out
<1>10. TrueOf(d.sent, Out)
  BY <1>3, <1>4, TrueOfSame
<1>11. Accounted'
  BY <1>4, <1>6 DEF Accounted
<1>12. CallsTyped'
  BY <1>1, <1>9 DEF Truth, CallsTyped
<1>13. \A m \in wire' : m.type = "commit" => m \in wire \/ m.state = d.sent
  BY <1>2
<1>14. Truth'
  <2>1. \A m \in wire' : m.type = "commit" /\ m.state.rev = ledger.rev + 1 => TrueOf(m.state, Out)
    BY <1>1, <1>10, <1>13 DEF Truth
  <2>2. \A x \in Object : Committing(conv'[x]) /\ conv'[x].sent.rev = ledger.rev + 1 => TrueOf(conv'[x].sent, Out)
    BY <1>1, <1>6, <1>10 DEF Truth
  <2> QED
    BY <1>1, <1>9, <1>11, <1>12, <2>1, <2>2 DEF Truth
<1> QED
  BY <1>6, <1>8, <1>14

LEMMA CreateTells ==
  ASSUME LedgerInv, Create
  PROVE  Conversations' /\ Protocol' /\ Truth'
<1> DEFINE e == NewConversation(NoState)
<1>1. PICK o \in Object : o = counter.object + 1
  BY HostAssumption DEF Create, Object, LedgerInv, HostInv, LinkTyped
<1>2. /\ BeginCommit(o, e, "idle") /\ current' = o /\ counter' = [counter EXCEPT !.object = o]
      /\ UNCHANGED <<ledger, applied, ops, answers>>
  BY <1>1 DEF Create
<1>3. ledger = NoState
  BY DEF Create, LedgerInv, Protocol, Counted
<1>4. IsConversation(e) /\ e.live = NoState /\ e.rev = NoState.rev /\ e.saved = NoState /\ ~ e.failed
  BY DEF NewConversation, IsConversation, ConversationFields
<1>5. IsState(NoState)
  BY DEF NoState, IsState, StateFields
<1>6. TrueOf(NoState, Out)
  BY <1>3 DEF LedgerInv, Truth
<1> HIDE DEF e
<1> QED
  BY <1>1, <1>2, <1>3, <1>4, <1>5, <1>6, NewCommitTells

\* What a restore makes of the ledger's state tells no more than is known: a call that
\* left stays pending or is answered, and only what never left is closed.
LEMMA RestoredTells ==
  ASSUME LedgerInv, Reopened(ledger).active # 0
  PROVE  IsState(Restored(ledger)) /\ TrueOf(Restored(ledger), Out)
<1> DEFINE r == Reopened(ledger)
           settled(kind) == {p \in r.pending : p.id.kind = kind /\ Evidence(p) = "settled"}
           new == {[call |-> p.id.n, as |-> ops[p.id].as, msg |-> "tool"] : p \in settled("tool")}
           got == UNION {UsableCalls(ops[p.id]) : p \in settled("model")}
           open == UNION {Remains(p) : p \in r.pending}
           k == Reconcile(r)
           closed == CloseCalls(k, OpenCalls(k), "closed")
           s == [closed EXCEPT !.active = 0, !.status = "running", !.last = k.active, !.outcome = "interrupted"]
<1>1. IsState(ledger) /\ TrueOf(ledger, Out) /\ CallsTyped
  BY DEF LedgerInv, HostInv, LinkTyped, Truth
<1>2. IsState(r) /\ SameContent(r, ledger)
  <2> DEFINE owner == IF ledger.active = 0 /\ ledger.pending # {}
                      THEN [ledger EXCEPT !.active = ledger.last, !.last = 0] ELSE ledger
  <2>1. IsState(owner) /\ SameContent(owner, ledger)
    BY <1>1 DEF IsState, StateFields, SameContent
  <2>2. r = IF owner.active = 0 THEN owner ELSE [owner EXCEPT !.status = "stopping", !.why = "stopped"]
    BY DEF Reopened
  <2> HIDE DEF owner, r
  <2> QED
    BY <2>1, <2>2 DEF IsState, StateFields, SameContent
<1>3. k = [r EXCEPT !.results = Put(@, new), !.calls = @ \cup got, !.pending = open]
  BY DEF Reconcile
<1> HIDE DEF r, new, got, open, k
<1>4. /\ IsState(k) /\ k.results = Put(r.results, new) /\ k.calls = r.calls \cup got /\ k.pending = open
      /\ k.active = r.active
  BY <1>2, <1>3 DEF IsState, StateFields
<1>5. k.calls \subseteq Nat
  <2>1. ASSUME NEW p \in settled("model") PROVE UsableCalls(ops[p.id]) \subseteq Nat
    <3>1. p.id \in DOMAIN ops
      BY DEF Evidence
    <3> QED
      BY <1>1, <3>1 DEF CallsTyped, UsableCalls
  <2>2. got \subseteq Nat
    BY <2>1 DEF got
  <2> QED
    BY <1>1, <1>2, <1>4, <2>2 DEF TrueOf, SameContent
<1>6. \A x \in new : x.as # "closed"
  <2>1. ASSUME NEW p \in settled("tool") PROVE ops[p.id].as # "closed"
    <3>1. p.id \in DOMAIN ops /\ ops[p.id].stage = "settled"
      BY DEF Evidence
    <3> QED
      BY <1>1, <3>1 DEF CallsTyped, Says
  <2> QED
    BY <2>1 DEF new
<1>7. \A x \in k.results : x.as = "closed" => x \in ledger.results
  BY <1>2, <1>4, <1>6 DEF Put, SameContent
<1>8. /\ \A x \in r.results : x.call \in Answered(k)
      /\ \A x \in new : x.call \in Answered(k)
  BY <1>4 DEF Put, Answered
<1>9. ASSUME NEW p \in r.pending, p.id \in Out, p.id.kind = "tool"
      PROVE  p.id \in PendingIds(k) \/ p.id.n \in Answered(k)
  <2>1. CASE Evidence(p) = "settled"
    <3>1. p \in settled("tool")
      BY <1>9, <2>1
    <3>2. [call |-> p.id.n, as |-> ops[p.id].as, msg |-> "tool"] \in new
      BY <3>1 DEF new
    <3> QED
      BY <1>8, <3>2
  <2>2. CASE Evidence(p) = "unknown"
    <3>1. Remains(p) = {p}
      BY <2>2 DEF Remains
    <3>2. p \in k.pending
      BY <1>4, <3>1 DEF open
    <3> QED
      BY <3>2 DEF PendingIds
  <2> QED
    BY <1>9, <2>1, <2>2 DEF Evidence, Out
<1>10. ASSUME NEW id \in Out, id.kind = "tool" PROVE id \in PendingIds(k) \/ id.n \in Answered(k)
  <2>1. CASE id.n \in Answered(ledger)
    BY <1>2, <1>8, <2>1 DEF Answered, SameContent
  <2>2. CASE id \in PendingIds(ledger)
    <3>1. PICK p \in r.pending : p.id = id
      BY <1>2, <2>2 DEF PendingIds, SameContent
    <3> QED
      BY <1>9, <1>10, <3>1
  <2> QED
    BY <1>1, <1>10, <2>1, <2>2 DEF TrueOf
<1>11. CASE StillUnknown(k)
  <2>1. Restored(ledger) = k
    BY <1>11 DEF Restored, r, k
  <2>2. TrueOf(k, Out)
    BY <1>1, <1>4, <1>5, <1>7, <1>10 DEF TrueOf, r
  <2> QED
    BY <1>4, <2>1, <2>2
<1>12. CASE ~ StillUnknown(k)
  <2>1. Restored(ledger) = s
    BY <1>12 DEF Restored, r, k
  <2>2. k.pending = {} /\ PendingIds(k) = {}
    BY <1>12 DEF StillUnknown, PendingIds
  <2>3. /\ IsState(closed) /\ closed.calls = k.calls /\ closed.pending = k.pending
        /\ closed.results = k.results \cup {[call |-> x, as |-> "closed", msg |-> "closed"] : x \in OpenCalls(k)}
    BY <1>4, ClosedContent
  <2> HIDE DEF closed
  <2>4. /\ IsState(s) /\ s.calls = k.calls /\ s.pending = k.pending /\ s.results = closed.results
        /\ s.outcome = "interrupted"
    BY <2>3 DEF IsState, StateFields
  <2> HIDE DEF s
  <2>5. ASSUME NEW x \in s.results, x.as = "closed" PROVE Tool(x.call) \notin Out
    <3>1. CASE x \in k.results
      BY <1>1, <1>7, <2>5, <3>1 DEF TrueOf
    <3>2. CASE x.call \in OpenCalls(k)
      <4>1. Tool(x.call).kind = "tool" /\ Tool(x.call).n = x.call
        BY DEF Tool
      <4> QED
        BY <1>10, <2>2, <3>2, <4>1 DEF OpenCalls
    <3> QED
      BY <2>3, <2>4, <3>1, <3>2
  <2>6. Answered(k) \subseteq Answered(s)
    BY <2>3, <2>4 DEF Answered
  <2>7. TrueOf(s, Out)
    BY <1>5, <1>10, <2>2, <2>4, <2>5, <2>6 DEF TrueOf
  <2> QED
    BY <2>1, <2>4, <2>7
<1> QED
  BY <1>11, <1>12

LEMMA RestoreTells ==
  ASSUME LedgerInv, Restore
  PROVE  Conversations' /\ Protocol' /\ Truth'
<1> DEFINE c == NewConversation(ledger)
           s == Restored(ledger)
           e == Changed(c, s)
<1>1. PICK o \in Object : o = counter.object + 1
  BY HostAssumption DEF Restore, Object, LedgerInv, HostInv, LinkTyped
<1>2. /\ current' = o /\ counter' = [counter EXCEPT !.object = o]
      /\ UNCHANGED <<ledger, applied, ops, answers>>
  BY <1>1 DEF Restore
<1>3. LinkTyped /\ Conversations /\ Protocol /\ Truth /\ IsState(ledger) /\ ledger.rev \in Nat
  BY DEF LedgerInv, HostInv, LinkTyped
<1>4. /\ IsConversation(c) /\ c.live = ledger /\ c.rev = ledger.rev /\ c.saved = ledger /\ c.failed = FALSE
      /\ c.pc = "idle" /\ c.then = "idle"
  BY DEF NewConversation, IsConversation, ConversationFields
<1> HIDE DEF c
<1>5. CASE Reopened(ledger).active = 0
  <2>1. conv' = [conv EXCEPT ![o] = c] /\ wire' = wire
    BY <1>1, <1>5 DEF Restore, c
  <2>2. ~ Committing(c) /\ There(c) /\ Place(c) = "idle" /\ ~ Works(Place(c)) /\ ~ Works(c.pc)
    BY <1>4 DEF Committing, There, Place, Works
  <2>3. Revised(c)
    BY <1>3, <1>4, <2>2 DEF Revised, SameContent
  <2>4. Course(c)
    BY <1>3, <1>4, <2>2 DEF Course, CourseAt, Truth, TrueOf, Goals, Places, Works
  <2>5. Conversations' /\ conv'[o] = c /\ \A x \in Object : x # o => conv'[x] = conv[x]
    BY <1>3, <2>1, <2>3, <2>4, OneConversation
  <2>6. counter'.object = o
    BY <1>2, <1>3 DEF LinkTyped
  <2>7. Protocol'
    BY <1>1, <1>2, <1>3, <1>4, <2>1, <2>2, <2>6, ProtocolRenews
  <2>8. Out' = Out
    BY <1>2, <2>1 DEF Out
  <2>9. Accounted'
    BY <1>2, <2>2, <2>5 DEF Accounted
  <2>10. CallsTyped'
    BY <1>2, <1>3, <2>8 DEF Truth, CallsTyped
  <2>11. \A x \in Object : Committing(conv'[x]) => conv'[x] = conv[x]
    BY <2>2, <2>5
  <2>12. Truth'
    BY <1>2, <1>3, <2>1, <2>8, <2>9, <2>10, <2>11 DEF Truth
  <2> QED
    BY <2>5, <2>7, <2>12
<1>6. CASE Reopened(ledger).active # 0
  <2>1. BeginCommit(o, e, "idle")
    BY <1>1, <1>6 DEF Restore, c
  <2>2. IsState(s) /\ TrueOf(s, Out)
    BY <1>6, RestoredTells
  <2> HIDE DEF s
  <2>3. /\ IsConversation(e) /\ e.live = s /\ e.rev = ledger.rev /\ e.saved = ledger /\ ~ e.failed
        /\ e.dirty = TRUE
    BY <1>4 DEF Changed, IsConversation, ConversationFields
  <2> HIDE DEF e
  <2> QED
    BY <1>1, <1>2, <2>1, <2>2, <2>3, NewCommitTells
<1> QED
  BY <1>5, <1>6

\* The host hands a commit the answer its transaction gives.
LEMMA HostCommitsTells ==
  ASSUME LedgerInv, NEW m \in wire, HostCommits(m)
  PROVE  Conversations' /\ Protocol' /\ Truth'
<1> DEFINE id == Identity(m.obj, m.state.rev)
           ok == id \in applied \/ ledger.rev + 1 = m.state.rev
           said == [type |-> "commit", obj |-> m.obj, ok |-> ok]
           x == m.obj
           next == ok /\ id \notin applied
<1>1. /\ m.type = "commit" /\ wire' = wire \ {m}
      /\ ledger' = IF next THEN m.state ELSE ledger
      /\ applied' = IF ok THEN applied \cup {id} ELSE applied
      /\ answers' = IF Awaits(m) THEN answers \cup {said} ELSE answers
      /\ UNCHANGED <<ops, conv, current, counter>>
  BY DEF HostCommits, Reply, Identity
<1>2. LinkTyped /\ Conversations /\ Protocol /\ Truth /\ ledger.rev \in Nat
  BY DEF LedgerInv, HostInv, LinkTyped
<1>3. /\ m = [type |-> "commit", obj |-> m.obj, state |-> m.state]
      /\ x \in Object /\ There(conv[x])
      /\ m.state.rev = conv[x].rev + 1
      /\ IF Committing(conv[x]) THEN m.state = conv[x].sent ELSE conv[x].failed
      /\ Awaits(m) => Committing(conv[x]) /\ conv[x].sent = m.state
  BY <1>1, <1>2 DEF Protocol, CommitsInWire, Awaits, Committing
<1>4. \A o \in Object : /\ conv[o].rev \in Nat /\ (There(conv[o]) => conv[o].rev <= ledger.rev)
                        /\ Committing(conv[o]) => There(conv[o]) /\ conv[o].sent.rev = conv[o].rev + 1
  BY <1>2 DEF Conversations, Revised, Protocol, SavedIsLedger, There, Committing
<1>5. \A id2 \in applied : id2.obj \in 1 .. counter.object /\ id2.rev \in 1 .. ledger.rev
  BY <1>2 DEF Protocol, Counted
<1>6. id.obj = x /\ id.rev = m.state.rev /\ said.type = "commit" /\ said.obj = x /\ said.ok = ok
  BY DEF Identity
<1>7. next => ledger' = m.state /\ ledger'.rev = ledger.rev + 1 /\ conv[x].rev = ledger.rev
  BY <1>1, <1>2, <1>3, <1>4
<1>8. ~ next => ledger' = ledger /\ applied' = applied
  BY <1>1
<1>9. applied \subseteq applied' /\ (ok => id \in applied') /\ \A id2 \in applied' : id2 \in applied \/ (id2 = id /\ next)
  BY <1>1
<1>10. ledger'.rev >= ledger.rev /\ ledger'.rev \in Nat
  BY <1>2, <1>7, <1>8
<1> HIDE DEF id, ok, said, next, x
<1>11. Conversations'
  BY <1>1, <1>2 DEF Conversations
<1>12. Counted'
  <2>1. ASSUME NEW id2 \in applied' PROVE id2.obj \in 1 .. counter.object /\ id2.rev \in 1 .. ledger'.rev
    <3>1. CASE id2 \in applied
      BY <1>5, <1>10, <1>2, <3>1
    <3>2. CASE id2 = id /\ next
      <4>1. x \in 1 .. counter.object
        BY <1>2, <1>3, HostAssumption DEF Protocol, Counted, Object, LinkTyped
      <4> QED
        BY <1>2, <1>6, <1>7, <3>2, <4>1
    <3> QED
      BY <1>9, <3>1, <3>2
  <2>2. ledger'.rev = 0 => ledger' = NoState
    BY <1>2, <1>7, <1>8 DEF Protocol, Counted
  <2> QED
    BY <1>1, <1>2, <2>1, <2>2 DEF Protocol, Counted
<1>13. CommitsInWire'
  BY <1>1, <1>2 DEF Protocol, CommitsInWire
<1>14. AnswersKnown'
  <2>1. \A a \in answers : a.type = "commit" => a.obj # x
    BY <1>1, <1>2 DEF Protocol, AnswersKnown, x
  <2>2. ASSUME NEW a \in answers', a.type = "commit"
        PROVE  /\ a.obj \in Object /\ Committing(conv[a.obj])
               /\ a.ok => Identity(a.obj, conv[a.obj].sent.rev) \in applied'
               /\ \A n \in wire' : n.type = "commit" => n.obj # a.obj
               /\ \A b \in answers' : b.type = "commit" /\ b.obj = a.obj => b = a
    <3>1. CASE a \in answers
      <4>1. \A b \in answers' : b.type = "commit" /\ b.obj = a.obj => b \in answers
        BY <1>1, <1>6, <2>1, <2>2, <3>1
      <4> QED
        BY <1>1, <1>2, <1>9, <2>2, <3>1, <4>1 DEF Protocol, AnswersKnown
    <3>2. CASE a = said /\ Awaits(m)
      <4>1. a.obj = x /\ a.ok = ok /\ x \in Object /\ Committing(conv[x]) /\ conv[x].sent = m.state
        BY <1>3, <1>6, <3>2
      <4>2. a.ok => Identity(x, conv[x].sent.rev) \in applied'
        BY <1>9, <4>1 DEF id, x
      <4>3. ASSUME NEW n \in wire', n.type = "commit", n.obj = x PROVE FALSE
        <5>1. n = [type |-> "commit", obj |-> x, state |-> conv[x].sent]
          BY <1>1, <1>2, <4>1, <4>3 DEF Protocol, CommitsInWire
        <5>2. n = m
          BY <1>3, <4>1, <5>1 DEF x
        <5> QED
          BY <1>1, <5>2
      <4>4. \A b \in answers' : b.type = "commit" /\ b.obj = x => b = a
        BY <1>1, <2>1, <3>2
      <4> QED
        BY <4>1, <4>2, <4>3, <4>4
    <3> QED
      BY <1>1, <3>1, <3>2
  <2> QED
    BY <1>1, <2>2 DEF AnswersKnown
<1>15. AppliedKnown'
  <2>1. ASSUME NEW o \in Object, NEW rev \in Nat, There(conv[o]), Identity(o, rev) \in applied'
        PROVE  \/ rev <= conv[o].rev \/ conv[o].failed
               \/ Committing(conv[o]) /\ rev = conv[o].sent.rev /\ (ledger'.rev = rev => ledger' = conv[o].sent)
    <3>1. CASE Identity(o, rev) \in applied
      <4>1. rev <= ledger.rev
        BY <1>5, <3>1 DEF Identity
      <4>2. ledger'.rev = rev => ledger' = ledger
        BY <1>2, <1>7, <1>8, <4>1
      <4> QED
        BY <1>2, <2>1, <3>1, <4>2 DEF Protocol, AppliedKnown
    <3>2. CASE Identity(o, rev) = id /\ next
      <4>1. o = x /\ rev = m.state.rev
        BY <1>6, <3>2 DEF Identity
      <4> QED
        BY <1>3, <1>7, <3>2, <4>1
    <3> QED
      BY <1>9, <2>1, <3>1, <3>2
  <2> QED
    BY <1>1, <2>1 DEF AppliedKnown
<1>16. ASSUME NEW o \in Object, Established(o)' PROVE Established(o) \/ (o = x /\ next)
  BY <1>6, <1>9, <1>16 DEF Established, Identity
<1>17. Overtaken'
  <2>1. ASSUME NEW o \in Object, o = current, Established(o)', NEW n \in wire, n.type = "commit", n.obj # o
        PROVE  n.state.rev <= ledger'.rev
    <3>1. n.obj \in Object /\ There(conv[n.obj]) /\ n.state.rev = conv[n.obj].rev + 1
      BY <1>2, <2>1 DEF Protocol, CommitsInWire
    <3>2. CASE Established(o)
      <4>1. n.state.rev <= ledger.rev
        BY <1>2, <2>1, <3>2 DEF Protocol, Overtaken
      <4> QED
        BY <1>2, <1>4, <1>10, <3>1, <4>1
    <3>3. CASE o = x /\ next
      BY <1>2, <1>4, <1>7, <3>1, <3>3
    <3> QED
      BY <1>16, <2>1, <3>2, <3>3
  <2> QED
    BY <1>1, <2>1 DEF Overtaken
<1>18. InStep'
  <2>1. ASSUME NEW o \in Object, o = current, Established(o)', ~ conv[o].failed
        PROVE  IF Committing(conv[o]) /\ Identity(o, conv[o].sent.rev) \in applied'
               THEN ledger' = conv[o].sent ELSE ledger'.rev = conv[o].rev
    <3>1. CASE ~ next
      <4>1. Established(o)
        BY <1>16, <2>1, <3>1
      <4> QED
        BY <1>2, <1>8, <2>1, <3>1, <4>1 DEF Protocol, InStep
    <3>2. CASE next /\ o = x
      <4>1. Committing(conv[o]) /\ conv[o].sent = m.state
        BY <1>3, <2>1, <3>2
      <4>2. Identity(o, conv[o].sent.rev) \in applied'
        BY <1>9, <3>2, <4>1 DEF id, x, next
      <4> QED
        BY <1>7, <3>2, <4>1, <4>2
    <3>3. CASE next /\ o # x
      <4>1. m.state.rev <= ledger.rev
        BY <1>1, <1>2, <1>16, <2>1, <3>3 DEF Protocol, Overtaken, x
      <4> QED
        BY <1>2, <1>7, <3>3, <4>1
    <3> QED
      BY <3>1, <3>2, <3>3
  <2> QED
    BY <1>1, <2>1 DEF InStep
<1>19. WorkerIsEstablished'
  <2>1. \A o \in Object : Established(o) => Established(o)'
    BY <1>9 DEF Established
  <2> QED
    BY <1>1, <1>2, <2>1 DEF Protocol, WorkerIsEstablished
<1>20. SavedIsLedger'
  <2>1. CASE ~ next
    BY <1>1, <1>2, <1>8, <2>1 DEF Protocol, SavedIsLedger
  <2>2. CASE next
    BY <1>1, <1>2, <1>4, <1>7, <2>2 DEF SavedIsLedger, There
  <2> QED
    BY <2>1, <2>2
<1>21. Protocol'
  BY <1>12, <1>13, <1>14, <1>15, <1>17, <1>18, <1>19, <1>20 DEF Protocol
<1>22. Out' = Out
  BY <1>1 DEF Out
<1>23. TrueOf(ledger', Out)
  <2>1. CASE ~ next
    BY <1>2, <1>8, <2>1 DEF Truth
  <2>2. CASE next
    BY <1>1, <1>2, <1>7, <2>2 DEF Truth
  <2> QED
    BY <2>1, <2>2
<1>24. ASSUME NEW n \in wire', n.type = "commit", n.state.rev = ledger'.rev + 1 PROVE TrueOf(n.state, Out)
  <2>1. n \in wire /\ n.state.rev = conv[n.obj].rev + 1 /\ conv[n.obj].rev <= ledger.rev /\ conv[n.obj].rev \in Nat
    BY <1>1, <1>2, <1>4, <1>24 DEF Protocol, CommitsInWire
  <2>2. ~ next
    BY <1>2, <1>7, <1>24, <2>1
  <2> QED
    BY <1>2, <1>8, <1>24, <2>1, <2>2 DEF Truth
<1>25. ASSUME NEW o \in Object, Committing(conv[o]), conv[o].sent.rev = ledger'.rev + 1
       PROVE  TrueOf(conv[o].sent, Out)
  <2>1. ~ next
    BY <1>2, <1>4, <1>7, <1>25
  <2> QED
    BY <1>2, <1>8, <1>25, <2>1 DEF Truth
<1>26. Accounted'
  <2>1. ASSUME NEW o \in Object, There(conv[o]), UpToDate(o)' PROVE UpToDate(o)
    <3>1. CASE ~ next
      BY <1>1, <1>8, <2>1, <3>1 DEF UpToDate
    <3>2. CASE next
      <4>1. Committing(conv[o]) /\ Identity(o, conv[o].sent.rev) \in applied'
        BY <1>1, <1>2, <1>4, <1>7, <2>1, <3>2 DEF UpToDate
      <4>2. CASE Identity(o, conv[o].sent.rev) \in applied
        BY <4>1, <4>2 DEF UpToDate
      <4>3. CASE Identity(o, conv[o].sent.rev) = id
        <5>1. o = x
          BY <1>6, <4>3 DEF Identity
        <5> QED
          BY <1>7, <3>2, <5>1 DEF UpToDate
      <4> QED
        BY <1>9, <4>1, <4>2, <4>3
    <3> QED
      BY <3>1, <3>2
  <2>2. \A o \in Object : Works(Place(conv[o])) => There(conv[o])
    BY DEF Works, Place, There, Committing
  <2> QED
    BY <1>1, <1>2, <1>22, <2>1, <2>2 DEF Truth, Accounted
<1>27. CallsTyped'
  <2>1. \A a \in answers' : a \in answers \/ a.type = "commit"
    BY <1>1, <1>6
  <2> QED
    BY <1>1, <1>2, <1>22, <2>1 DEF Truth, CallsTyped
<1>28. Truth'
  BY <1>1, <1>22, <1>23, <1>24, <1>25, <1>26, <1>27 DEF Truth
<1> QED
  BY <1>11, <1>21, <1>28

\* Nothing but calls changes hands.
LEMMA CallsTell ==
  ASSUME LedgerInv, SameCommits, Out' = Out, CallsTyped', UNCHANGED <<ledger, applied, conv, current>>,
         counter'.object = counter.object
  PROVE  Conversations' /\ Protocol' /\ Truth'
<1>1. Conversations'
  BY DEF LedgerInv, Conversations
<1>2. Counted' /\ AppliedKnown' /\ InStep' /\ WorkerIsEstablished' /\ SavedIsLedger'
  BY DEF LedgerInv, Protocol, Counted, AppliedKnown, InStep, WorkerIsEstablished, SavedIsLedger, Established
<1>3. CommitsInWire'
  BY DEF LedgerInv, Protocol, CommitsInWire, SameCommits
<1>4. AnswersKnown'
  BY DEF LedgerInv, Protocol, AnswersKnown, SameCommits
<1>5. Overtaken'
  BY DEF LedgerInv, Protocol, Overtaken, Established, SameCommits
<1>6. Accounted'
  BY DEF LedgerInv, Truth, Accounted, UpToDate
<1>7. Truth'
  BY <1>6 DEF LedgerInv, Truth, SameCommits
<1> QED
  BY <1>1, <1>2, <1>3, <1>4, <1>5, <1>7 DEF Protocol

LEMMA HostReceivesTells ==
  ASSUME LedgerInv, NEW m \in wire, HostReceives(m)
  PROVE  Conversations' /\ Protocol' /\ Truth'
<1>1. /\ m.type = "call" /\ wire' = wire \ {m} /\ ops' = [id \in DOMAIN ops \cup {m.id} |-> IF id = m.id THEN NoResult ELSE ops[id]]
      /\ UNCHANGED <<ledger, applied, answers, conv, current, counter>>
  BY DEF HostReceives
<1>2. /\ DOMAIN ops' = DOMAIN ops \cup {m.id}
      /\ \A id \in DOMAIN ops' : ops'[id] = NoResult \/ (id \in DOMAIN ops /\ ops'[id] = ops[id])
  BY <1>1
<1>3. Out' = Out
  BY <1>1, <1>2 DEF Out
<1>4. SameCommits
  BY <1>1 DEF SameCommits
<1>5. CallsTyped'
  <2>1. NoResult.calls = {} /\ NoResult.stage = "received"
    BY DEF NoResult
  <2> QED
    BY <1>1, <1>2, <1>3, <2>1 DEF LedgerInv, Truth, CallsTyped
<1> QED
  BY <1>1, <1>3, <1>4, <1>5, CallsTell

LEMMA HostSettlesTells ==
  ASSUME LedgerInv, NEW id \in DOMAIN ops, HostSettles(id)
  PROVE  Conversations' /\ Protocol' /\ Truth'
<1>1. PICK as \in IF id.kind = "model" THEN ModelResult ELSE ToolResult,
           n \in IF id.kind = "model" THEN 0..(LastCall - counter.call) ELSE {0} :
       LET calls == (counter.call + 1)..(counter.call + n) IN
       /\ n > 0 => as \in {"tools", "unpriced", "length"}
       /\ as = "tools" => n > 0
       /\ ops' = [ops EXCEPT ![id] = IF as = "invalid" THEN @
                                     ELSE [stage |-> "settled", as |-> as, calls |-> calls]]
       /\ counter' = [counter EXCEPT !.call = @ + n]
       /\ answers' = answers \cup {[type |-> "call", obj |-> o, id |-> id, as |-> as, calls |-> calls] :
                                  o \in {x \in Object : conv[x].pc = "waiting" /\ conv[x].wait = id}}
  BY DEF HostSettles
<1>2. UNCHANGED <<ledger, applied, wire, conv, current>>
  BY DEF HostSettles
<1> DEFINE calls == (counter.call + 1)..(counter.call + n)
           new == [stage |-> "settled", as |-> as, calls |-> calls]
           told(o) == [type |-> "call", obj |-> o, id |-> id, as |-> as, calls |-> calls]
<1>3. calls \subseteq Nat
  BY <1>1, HostAssumption DEF LedgerInv, HostInv, LinkTyped
<1>4. Says(id.kind, as)
  <2>1. id.kind \in {"tool", "model"}
    BY DEF LedgerInv, Truth, CallsTyped, Out, RequestIds
  <2> QED
    BY <1>1, <2>1, HostAssumption DEF Says
<1> HIDE DEF calls
<1>5. /\ DOMAIN ops' = DOMAIN ops
      /\ \A i \in DOMAIN ops : ops'[i] = ops[i] \/ (i = id /\ ops'[i] = new)
  BY <1>1 DEF calls
<1>6. ASSUME NEW a \in answers' PROVE a \in answers \/ (a.type = "call" /\ a.id = id /\ a.as = as /\ a.calls = calls)
  <2>1. \A o : told(o).type = "call" /\ told(o).id = id /\ told(o).as = as /\ told(o).calls = calls
    OBVIOUS
  <2>2. a \in answers \/ \E o \in Object : a = told(o)
    BY <1>1 DEF calls
  <2> HIDE DEF told
  <2> QED
    BY <2>1, <2>2
<1>7. Out' = Out
  BY <1>2, <1>5 DEF Out
<1>8. SameCommits
  BY <1>1, <1>2, <1>6 DEF SameCommits
<1>9. counter'.object = counter.object
  BY <1>1 DEF LedgerInv, HostInv, LinkTyped
<1>10. CallsTyped'
  <2>1. Out' \subseteq RequestIds
    BY <1>7 DEF LedgerInv, Truth, CallsTyped
  <2>2. ASSUME NEW i \in DOMAIN ops'
        PROVE  ops'[i].calls \subseteq Nat /\ (ops'[i].stage = "settled" => Says(i.kind, ops'[i].as))
    <3>1. CASE i = id /\ ops'[i] = new
      <4>1. new.calls = calls /\ new.as = as
        OBVIOUS
      <4> QED
        BY <1>3, <1>4, <3>1, <4>1
    <3>2. CASE ops'[i] = ops[i]
      BY <1>5, <3>2 DEF LedgerInv, Truth, CallsTyped
    <3> QED
      BY <1>5, <3>1, <3>2
  <2>3. ASSUME NEW a \in answers'
        PROVE  a.type \in {"commit", "call"} /\ (a.type = "call" => a.calls \subseteq Nat /\ Says(a.id.kind, a.as))
    BY <1>3, <1>4, <1>6 DEF LedgerInv, Truth, CallsTyped
  <2> QED
    BY <2>1, <2>2, <2>3 DEF CallsTyped
<1> QED
  BY <1>2, <1>7, <1>8, <1>9, <1>10, CallsTell

\* Nothing of the engine survives, and the ledger tells of fewer calls that left.
LEMMA CrashTells ==
  ASSUME LedgerInv, Crash
  PROVE  Conversations' /\ Protocol' /\ Truth'
<1> DEFINE n == [NewConversation(NoState) EXCEPT !.pc = "none"]
<1>1. /\ conv' = [o \in Object |-> n] /\ counter' = [counter EXCEPT !.crash = @ + 1]
      /\ current' = 0 /\ wire' = {} /\ answers' = {} /\ UNCHANGED <<ledger, applied, ops>>
  BY DEF Crash
<1>2. n.live = NoState /\ n.rev = 0 /\ n.pc = "none" /\ n.then = "idle" /\ NoState.calls = {}
  BY DEF NewConversation, NoState
<1> HIDE DEF n
<1>3. \A o \in Object : conv'[o] = n /\ o # 0
  BY <1>1 DEF Object
<1>4. ~ There(n) /\ ~ Committing(n) /\ Place(n) = "none" /\ ~ Works(n.pc) /\ ~ Works(Place(n))
  BY <1>2 DEF There, Committing, Place, Works
<1>5. Revised(n)
  BY <1>2, <1>4 DEF Revised
<1>6. Course(n)
  BY <1>2, <1>4 DEF Course, CourseAt, Goals, Places
<1>7. Conversations'
  BY <1>3, <1>5, <1>6 DEF Conversations
<1>8. Counted'
  <2>1. counter'.object = counter.object
    BY <1>1 DEF LedgerInv, HostInv, LinkTyped
  <2> QED
    BY <1>1, <1>3, <1>4, <2>1 DEF LedgerInv, Protocol, Counted
<1>9. CommitsInWire' /\ AnswersKnown' /\ Overtaken'
  BY <1>1 DEF CommitsInWire, AnswersKnown, Overtaken
<1>10. AppliedKnown' /\ InStep' /\ WorkerIsEstablished' /\ SavedIsLedger'
  BY <1>1, <1>2, <1>3, <1>4 DEF AppliedKnown, InStep, WorkerIsEstablished, SavedIsLedger
<1>11. Protocol'
  BY <1>8, <1>9, <1>10 DEF Protocol
<1>12. Out' \subseteq Out
  BY <1>1 DEF Out
<1>13. TrueOf(ledger, Out')
  BY <1>12, TrueOfFewer DEF LedgerInv, Truth
<1>14. Accounted'
  BY <1>1, <1>3 DEF Accounted
<1>15. CallsTyped'
  BY <1>1, <1>12 DEF LedgerInv, Truth, CallsTyped
<1>16. Truth'
  BY <1>1, <1>3, <1>4, <1>13, <1>14, <1>15 DEF Truth
<1> QED
  BY <1>7, <1>11, <1>16

-----------------------------------------------------------------------------
(* Every step keeps the ledger true.                                        *)

LEMMA LedgerBegins ==
  ASSUME Init
  PROVE  LedgerInv
<1> DEFINE n == [NewConversation(NoState) EXCEPT !.pc = "none"]
<1>1. /\ ledger = NoState /\ applied = {} /\ ops = <<>> /\ wire = {} /\ answers = {} /\ current = 0 /\ arrived = {}
      /\ conv = [o \in Object |-> n]
  BY DEF Init
<1>2. /\ n.live = NoState /\ n.rev = 0 /\ n.pc = "none" /\ n.then = "idle"
      /\ NoState.rev = 0 /\ NoState.calls = {} /\ NoState.results = {} /\ NoState.outcome = "none"
  BY DEF NewConversation, NoState
<1> HIDE DEF n
<1>3. ~ There(n) /\ ~ Committing(n) /\ Place(n) = "none" /\ ~ Works(n.pc) /\ ~ Works(Place(n))
  BY <1>2 DEF There, Committing, Place, Works
<1>4. Conversations
  <2>1. Revised(n)
    BY <1>2, <1>3 DEF Revised
  <2>2. Course(n)
    BY <1>2, <1>3 DEF Course, CourseAt, Goals, Places
  <2> QED
    BY <1>1, <2>1, <2>2 DEF Conversations
<1>5. \A o \in Object : conv[o] = n
  BY <1>1
<1>6. Protocol
  <2>1. Counted /\ CommitsInWire /\ AnswersKnown /\ Overtaken
    BY <1>1, <1>3, <1>5 DEF Counted, CommitsInWire, AnswersKnown, Overtaken
  <2>2. AppliedKnown /\ InStep /\ WorkerIsEstablished /\ SavedIsLedger
    BY <1>1, <1>2, <1>3, <1>5 DEF AppliedKnown, InStep, Established, WorkerIsEstablished, SavedIsLedger
  <2> QED
    BY <2>1, <2>2 DEF Protocol
<1>7. Out = {}
  BY <1>1 DEF Out
<1>8. Truth
  BY <1>1, <1>2, <1>3, <1>5, <1>7 DEF Truth, TrueOf, Accounted, CallsTyped
<1> QED
  BY <1>1, <1>4, <1>6, <1>8, LinkBegins DEF LedgerInv, StartsKnown

LEMMA EngineTells ==
  ASSUME LedgerInv, NEW o \in Object, Engine(o) \/ Watch(o)
  PROVE  Conversations' /\ Protocol' /\ Truth'
  BY CommitAnsweredTells, CommitTimesOutTells, InputTells, ThinkTells, BatchTells, LaunchTells, UnresolvedTells,
     FailTells, DispatchTells, CallAnsweredTells, CallTimesOutTells, GraceEndsTells, FinishTells, WatchTells
  DEF Engine

LEMMA HostTells ==
  ASSUME LedgerInv, Host
  PROVE  Conversations' /\ Protocol' /\ Truth'
<1>1. ASSUME NEW r \in Run, StartArrives(r) PROVE Conversations' /\ Protocol' /\ Truth'
  BY <1>1, NothingTells DEF StartArrives
<1>2. ASSUME (\E r \in Run : Interrupt(r)) \/ Shutdown PROVE Conversations' /\ Protocol' /\ Truth'
  BY <1>2, StopTells DEF Interrupt, Shutdown
<1> QED
  BY <1>1, <1>2, CreateTells, RestoreTells, CrashTells, StartTells, HostCommitsTells, HostReceivesTells,
     HostSettlesTells DEF Host

LEMMA StartsStayKnown ==
  ASSUME StartsKnown, [Next]_vars
  PROVE  StartsKnown'
<1>1. arrived' \subseteq arrived \/ \E r \in Run : StartArrives(r)
  <2>1. ASSUME NEW o \in Object, Engine(o) \/ Watch(o) PROVE arrived' = arrived
    BY <2>1 DEF Engine, Watch, CommitAnswered, CommitTimesOut, CommitInput, Think, Batch, Launch, Unresolved, Fail,
       Dispatch, CallAnswered, CallTimesOut, GraceEnds, Finish
  <2>2. ASSUME \/ Create \/ Restore \/ Shutdown \/ Crash
               \/ \E r \in Run : Interrupt(r)
               \/ \E a \in arrived : Start(a)
               \/ \E m \in wire : HostCommits(m) \/ HostReceives(m)
               \/ \E id \in DOMAIN ops : HostSettles(id)
               \/ UNCHANGED vars
        PROVE  arrived' \subseteq arrived
    BY <2>2 DEF Create, Restore, Shutdown, Crash, Interrupt, Start, HostCommits, HostReceives, HostSettles, vars
  <2> QED
    BY <2>1, <2>2 DEF Next, Host
<1>2. ASSUME NEW r \in Run, StartArrives(r) PROVE StartsKnown'
  BY <1>2, HostAssumption DEF StartArrives, StartsKnown, Run
<1> QED
  BY <1>1, <1>2 DEF StartsKnown

LEMMA LedgerGoesOn ==
  ASSUME LedgerInv, ~ RestoreOverStart, [Next]_vars
  PROVE  LedgerInv'
<1>1. HostInv'
  BY LinkGoesOn DEF LedgerInv
<1>2. StartsKnown'
  BY StartsStayKnown DEF LedgerInv
<1>3. Conversations' /\ Protocol' /\ Truth'
  <2>1. CASE UNCHANGED vars
    BY <2>1, NothingTells DEF vars
  <2> QED
    BY <2>1, EngineTells, HostTells DEF Next
<1> QED
  BY <1>1, <1>2, <1>3 DEF LedgerInv

LEMMA LedgerTells ==
  ASSUME LedgerInv
  PROVE  LedgerIsTrue
<1>1. Conversations /\ Protocol /\ TrueOf(ledger, Out)
  BY DEF LedgerInv, Truth
<1>2. SavedIsLedger
  BY <1>1 DEF Protocol
<1>3. CleanViewIsCommitted
  BY <1>1 DEF Conversations, Revised, There, CleanViewIsCommitted
<1>4. ClosedNeverRan
  BY <1>1 DEF TrueOf, Out, ClosedNeverRan
<1>5. DispatchedIsRecorded
  BY <1>1 DEF TrueOf, Out, PendingIds, DispatchedIsRecorded
<1>6. CompletedIsClosed
  BY <1>1 DEF TrueOf, CompletedIsClosed
<1> QED
  BY <1>2, <1>3, <1>4, <1>5, <1>6 DEF LedgerIsTrue, EngineFollowsLedger, LedgerTellsTruth

\* However commits, their answers and retransmissions, calls, restores and kills fall
\* together, what the engine holds as saved is the host's state, a view it calls clean
\* is that state, and the ledger tells of every call what happened to it, when the host
\* does not restore a conversation over a run.start of its own (Conversation.commit,
\* toolPrepared, closeUnsentLocked, restore).
THEOREM LedgerStaysTrue == ~ RestoreOverStart => (Spec => []LedgerIsTrue)
<1> SUFFICES ASSUME ~ RestoreOverStart PROVE Spec => []LedgerIsTrue
  OBVIOUS
<1>1. Init => LedgerInv
  BY LedgerBegins
<1>2. LedgerInv /\ [Next]_vars => LedgerInv'
  BY LedgerGoesOn
<1>3. LedgerInv => LedgerIsTrue
  BY LedgerTells
<1> QED
  BY <1>1, <1>2, <1>3, PTL DEF Spec

-----------------------------------------------------------------------------
(* What the engine gets committed, and what its own restore accepts.        *)

\* The types of a checkpoint's state, field by field.
Results == [call : Call, as : {"applied", "none", "unknown", "closed"}, msg : {"tool", "turn", "closed"}]
PendingCalls == [id : RequestID, run : Run, got : {"nothing", "unknown", "cost"}]
RunTyped(s) ==
  /\ s.rev \in Nat /\ s.status \in {"running", "stopping"} /\ s.why \in {"", "stopped", "failed"}
  /\ s.active \in 0..LastRun /\ s.last \in 0..LastRun /\ s.runs \subseteq Run
  /\ s.outcome \in {"none", "completed", "interrupted", "failed"} /\ s.asked \in 0..MaxModelCalls
ContentTyped(s) == s.calls \subseteq Call /\ s.results \subseteq Results /\ s.pending \subseteq PendingCalls
Typed(s) == IsState(s) /\ RunTyped(s) /\ ContentTyped(s)

\* The runs and the calls of a state fit together; a result that is not of a tool's
\* own says that the call never ran, so that a settled one replaces none of these.
Owner(s) == IF s.active # 0 THEN s.active ELSE s.last
RunsFit(s) == {s.active, s.last} \subseteq s.runs \cup {0}
PendingFits(s) == \A p \in s.pending : p.run = Owner(s) /\ (p.id.kind = "tool" => p.id.n \in s.calls)
ResultsFit(s) ==
  /\ Answered(s) \subseteq s.calls
  /\ \A r, t \in s.results : r.call = t.call => r = t
  /\ \A r \in s.results : r.as = "closed" \/ r.msg = "tool"
Fits(s) == RunsFit(s) /\ PendingFits(s) /\ ResultsFit(s)

\* Every state of a conversation is typed; that of one that has not failed fits, and
\* so does what it sends.
FlagsTyped(c) == {c.dirty, c.touched, c.failed, c.cancelled} \subseteq BOOLEAN
Sane(c) ==
  /\ IsConversation(c) /\ FlagsTyped(c)
  /\ Typed(c.live) /\ Typed(c.saved) /\ Typed(c.sent)
  /\ c.failed \/ Fits(c.live)
  /\ c.pc = "committing" => Fits(c.sent)

\* No more calls are asked for than there are, and a tool's outcome is one of four.
Outcomes == {"applied", "none", "unknown"}
CallsBounded ==
  /\ counter.call \in 0..LastCall
  /\ \A id \in DOMAIN ops : /\ ops[id].calls \subseteq Call
                            /\ ops[id].stage = "settled" /\ id.kind = "tool" => ops[id].as \in Outcomes
  /\ \A a \in answers : a.type = "call" =>
       a.calls \subseteq Call /\ (a.id.kind = "tool" => a.as \in Outcomes \cup {"invalid"})

RestoreInv ==
  /\ Typed(ledger) /\ Fits(ledger)
  /\ \A m \in wire : m.type = "commit" => Typed(m.state) /\ Fits(m.state)
  /\ \A o \in Object : Sane(conv[o])
  /\ CallsBounded /\ closing \in BOOLEAN
  /\ \A a \in arrived : a.run \in Run

-----------------------------------------------------------------------------
(* What the operations do to a state that is typed and fits.                *)

LEMMA TypedIsCheckpoint ==
  ASSUME NEW s, Typed(s)
  PROVE  s \in CheckpointState
  BY DEF Typed, IsState, StateFields, RunTyped, ContentTyped, CheckpointState, Results, PendingCalls

\* Of t only the revision and how the run is doing are others.
Alike(s, t) ==
  /\ IsState(t)
  /\ t.rev \in Nat /\ t.status \in {"running", "stopping"} /\ t.why \in {"", "stopped", "failed"}
  /\ t.active = s.active /\ t.last = s.last /\ t.runs = s.runs /\ t.outcome = s.outcome /\ t.asked = s.asked
  /\ t.calls = s.calls /\ t.results = s.results /\ t.pending = s.pending

LEMMA AlikeIsTyped ==
  ASSUME NEW s, NEW t, Typed(s), Alike(s, t)
  PROVE  Typed(t)
  BY DEF Typed, Alike, RunTyped, ContentTyped

LEMMA AlikeFits ==
  ASSUME NEW s, NEW t, Fits(s), Alike(s, t)
  PROVE  Fits(t)
<1>1. RunsFit(t) /\ PendingFits(t)
  BY DEF Fits, Alike, RunsFit, PendingFits, Owner
<1>2. ResultsFit(t)
  BY DEF Fits, Alike, ResultsFit, Answered
<1> QED
  BY <1>1, <1>2 DEF Fits

LEMMA NoStateFits == Typed(NoState) /\ Fits(NoState)
<1>1. IsState(NoState)
  BY DEF NoState, IsState, StateFields
<1>2. RunTyped(NoState) /\ ContentTyped(NoState)
  BY HostAssumption DEF NoState, RunTyped, ContentTyped
<1>3. Fits(NoState)
  BY DEF NoState, Fits, RunsFit, PendingFits, ResultsFit, Answered
<1> QED
  BY <1>1, <1>2, <1>3 DEF Typed

\* What decides of a pending call's fit is its run, and the calls.
LEMMA ClosedFits ==
  ASSUME NEW s, Typed(s), Fits(s), NEW calls, calls \subseteq OpenCalls(s), NEW msg \in {"turn", "closed"}
  PROVE  LET t == CloseCalls(s, calls, msg) IN
         Typed(t) /\ Fits(t) /\ t.pending = s.pending /\ t.active = s.active /\ t.last = s.last
                  /\ t.runs = s.runs /\ t.calls = s.calls /\ t.rev = s.rev
<1> DEFINE t == CloseCalls(s, calls, msg)
           new(x) == [call |-> x, as |-> "closed", msg |-> msg]
           more == {new(x) : x \in calls}
<1>1. /\ IsState(t) /\ t.calls = s.calls /\ t.pending = s.pending /\ t.results = s.results \cup more
      /\ t.active = s.active /\ t.status = s.status /\ t.why = s.why /\ t.outcome = s.outcome
      /\ t.last = s.last /\ t.runs = s.runs /\ t.asked = s.asked /\ t.rev = s.rev
  BY DEF Typed, CloseCalls, IsState, StateFields
<1>2. /\ \A r \in more : r.call \in calls /\ r.as = "closed" /\ r.msg = msg
      /\ \A r, u \in more : r.call = u.call => r = u
  OBVIOUS
<1>3. more \subseteq Results
  BY DEF Results, OpenCalls, Typed, ContentTyped
<1> HIDE DEF t, more
<1>4. Typed(t)
  BY <1>1, <1>3 DEF Typed, RunTyped, ContentTyped
<1>5. RunsFit(t) /\ PendingFits(t)
  BY <1>1 DEF Fits, RunsFit, PendingFits, Owner
<1>6. ResultsFit(t)
  <2>1. \A r \in more : r.call \in s.calls /\ r.call \notin Answered(s)
    BY <1>2 DEF OpenCalls
  <2>2. \A r \in s.results : r.call \in Answered(s)
    BY DEF Answered
  <2>3. Answered(t) \subseteq t.calls
    BY <1>1, <2>1, <2>2 DEF Answered, Fits, ResultsFit
  <2>4. ASSUME NEW r \in t.results, NEW u \in t.results, r.call = u.call PROVE r = u
    BY <1>1, <1>2, <2>1, <2>2, <2>4 DEF Fits, ResultsFit
  <2>5. \A r \in t.results : r.as = "closed" \/ r.msg = "tool"
    BY <1>1, <1>2 DEF Fits, ResultsFit
  <2> QED
    BY <2>3, <2>4, <2>5 DEF ResultsFit
<1> QED
  BY <1>1, <1>4, <1>5, <1>6 DEF Fits, t

\* A state that has another set of pending calls.
LEMMA PendingChanges ==
  ASSUME NEW s, Typed(s), Fits(s), NEW t, IsState(t), NEW pending,
         t.rev = s.rev, t.active = s.active, t.status = s.status, t.why = s.why, t.last = s.last, t.runs = s.runs,
         t.outcome = s.outcome, t.asked = s.asked, t.calls = s.calls, t.results = s.results, t.pending = pending,
         \A p \in pending : p \in PendingCalls /\ p.run = Owner(s) /\ (p.id.kind = "tool" => p.id.n \in s.calls)
  PROVE  Typed(t) /\ Fits(t)
<1>1. Typed(t)
  BY DEF Typed, RunTyped, ContentTyped
<1>2. RunsFit(t) /\ PendingFits(t)
  BY DEF Fits, RunsFit, PendingFits, Owner
<1>3. ResultsFit(t)
  BY DEF Fits, ResultsFit, Answered
<1> QED
  BY <1>1, <1>2, <1>3 DEF Fits

LEMMA RemovedFits ==
  ASSUME NEW s, Typed(s), Fits(s), NEW id
  PROVE  Typed(RemovePending(s, id)) /\ Fits(RemovePending(s, id))
<1> DEFINE t == RemovePending(s, id)
           pending == {p \in s.pending : p.id # id}
<1>1. /\ IsState(t) /\ t.rev = s.rev /\ t.active = s.active /\ t.status = s.status /\ t.why = s.why
      /\ t.last = s.last /\ t.runs = s.runs /\ t.outcome = s.outcome /\ t.asked = s.asked
      /\ t.calls = s.calls /\ t.results = s.results /\ t.pending = pending
  BY DEF Typed, RemovePending, IsState, StateFields
<1>2. \A p \in pending : p \in PendingCalls /\ p.run = Owner(s) /\ (p.id.kind = "tool" => p.id.n \in s.calls)
  BY DEF Typed, ContentTyped, Fits, PendingFits
<1> HIDE DEF t, pending
<1>3. Typed(t) /\ Fits(t)
  BY <1>1, <1>2, PendingChanges
<1> QED
  BY <1>3 DEF t

LEMMA UnsettledFits ==
  ASSUME NEW s, Typed(s), Fits(s), NEW id, NEW got \in {"unknown", "cost"}
  PROVE  Typed(Unsettled(s, id, got)) /\ Fits(Unsettled(s, id, got))
<1> DEFINE t == Unsettled(s, id, got)
           marked(p) == IF p.id = id THEN [p EXCEPT !.got = got] ELSE p
           pending == {marked(p) : p \in s.pending}
<1>1. /\ IsState(t) /\ t.rev = s.rev /\ t.active = s.active /\ t.status = s.status /\ t.why = s.why
      /\ t.last = s.last /\ t.runs = s.runs /\ t.outcome = s.outcome /\ t.asked = s.asked
      /\ t.calls = s.calls /\ t.results = s.results /\ t.pending = pending
  BY DEF Typed, Unsettled, IsState, StateFields
<1>2. ASSUME NEW p \in s.pending PROVE marked(p) \in PendingCalls /\ marked(p).run = p.run /\ marked(p).id = p.id
  <2>1. p \in PendingCalls
    BY DEF Typed, ContentTyped
  <2> QED
    BY <2>1 DEF PendingCalls
<1> HIDE DEF t, marked
<1>3. \A p \in pending : p \in PendingCalls /\ p.run = Owner(s) /\ (p.id.kind = "tool" => p.id.n \in s.calls)
  BY <1>2 DEF Fits, PendingFits
<1> HIDE DEF pending
<1>4. Typed(t) /\ Fits(t)
  BY <1>1, <1>3, PendingChanges
<1> QED
  BY <1>4 DEF t

LEMMA AddedFits ==
  ASSUME NEW s, Typed(s), Fits(s), s.active # 0, NEW id \in RequestID, id.kind = "tool" => id.n \in s.calls
  PROVE  Typed(AddPending(s, id)) /\ Fits(AddPending(s, id))
<1> DEFINE t == AddPending(s, id)
           new == [id |-> id, run |-> s.active, got |-> "nothing"]
           pending == s.pending \cup {new}
<1>1. /\ IsState(t) /\ t.rev = s.rev /\ t.active = s.active /\ t.status = s.status /\ t.why = s.why
      /\ t.last = s.last /\ t.runs = s.runs /\ t.outcome = s.outcome /\ t.asked = s.asked
      /\ t.calls = s.calls /\ t.results = s.results /\ t.pending = pending
  BY DEF Typed, AddPending, IsState, StateFields
<1>2. s.active \in Run
  <2>1. LastRun \in Nat /\ s.active \in 0..LastRun
    BY HostAssumption DEF Typed, RunTyped
  <2> QED
    BY <2>1 DEF Run
<1>3. new \in PendingCalls /\ new.run = Owner(s) /\ new.id = id
  BY <1>2 DEF PendingCalls, Owner
<1> HIDE DEF t, new
<1>4. \A p \in pending : p \in PendingCalls /\ p.run = Owner(s) /\ (p.id.kind = "tool" => p.id.n \in s.calls)
  BY <1>3 DEF Typed, ContentTyped, Fits, PendingFits
<1> HIDE DEF pending
<1>5. Typed(t) /\ Fits(t)
  BY <1>1, <1>4, PendingChanges
<1> QED
  BY <1>5 DEF t

\* A tool's own result, of a call that is open.
LEMMA AnsweredFits ==
  ASSUME NEW s, Typed(s), Fits(s), NEW n \in OpenCalls(s), NEW as \in Outcomes
  PROVE  LET t == [s EXCEPT !.results = @ \cup {[call |-> n, as |-> as, msg |-> "tool"]}] IN
         Typed(t) /\ Fits(t)
<1> DEFINE r == [call |-> n, as |-> as, msg |-> "tool"]
           t == [s EXCEPT !.results = @ \cup {r}]
<1>1. /\ IsState(t) /\ t.rev = s.rev /\ t.active = s.active /\ t.status = s.status /\ t.why = s.why
      /\ t.last = s.last /\ t.runs = s.runs /\ t.outcome = s.outcome /\ t.asked = s.asked
      /\ t.calls = s.calls /\ t.results = s.results \cup {r} /\ t.pending = s.pending
  BY DEF Typed, IsState, StateFields
<1>2. r \in Results /\ r.call = n /\ r.msg = "tool"
  BY DEF Results, OpenCalls, Typed, ContentTyped, Outcomes
<1> HIDE DEF r, t
<1>3. Typed(t)
  BY <1>1, <1>2 DEF Typed, RunTyped, ContentTyped
<1>4. RunsFit(t) /\ PendingFits(t)
  BY <1>1 DEF Fits, RunsFit, PendingFits, Owner
<1>5. ResultsFit(t)
  <2>1. \A u \in s.results : u.call \in Answered(s)
    BY DEF Answered
  <2>2. n \in s.calls /\ n \notin Answered(s)
    BY DEF OpenCalls
  <2>3. Answered(t) \subseteq t.calls
    BY <1>1, <1>2, <2>1, <2>2 DEF Answered, Fits, ResultsFit
  <2> QED
    BY <1>1, <1>2, <2>1, <2>2, <2>3 DEF Fits, ResultsFit
<1> QED
  BY <1>3, <1>4, <1>5 DEF Fits, r, t

\* More calls are asked for.
LEMMA AskedFits ==
  ASSUME NEW s, Typed(s), Fits(s), NEW calls, calls \subseteq Call
  PROVE  LET t == [s EXCEPT !.calls = @ \cup calls] IN Typed(t) /\ Fits(t)
<1> DEFINE t == [s EXCEPT !.calls = @ \cup calls]
<1>1. /\ IsState(t) /\ t.rev = s.rev /\ t.active = s.active /\ t.status = s.status /\ t.why = s.why
      /\ t.last = s.last /\ t.runs = s.runs /\ t.outcome = s.outcome /\ t.asked = s.asked
      /\ t.calls = s.calls \cup calls /\ t.results = s.results /\ t.pending = s.pending
  BY DEF Typed, IsState, StateFields
<1> HIDE DEF t
<1>2. Typed(t)
  BY <1>1 DEF Typed, RunTyped, ContentTyped
<1>3. RunsFit(t) /\ PendingFits(t)
  BY <1>1 DEF Fits, RunsFit, PendingFits, Owner
<1>4. ResultsFit(t)
  BY <1>1 DEF Fits, ResultsFit, Answered
<1> QED
  BY <1>2, <1>3, <1>4 DEF Fits, t

-----------------------------------------------------------------------------
(* What a step of its own does to a conversation that is sane.              *)

LEMMA GotoSane ==
  ASSUME NEW c, Sane(c), NEW pc, pc # "committing"
  PROVE  Sane(Goto(c, pc))
<1> DEFINE d == Goto(c, pc)
<1>1. /\ IsConversation(d) /\ d.live = c.live /\ d.saved = c.saved /\ d.sent = c.sent /\ d.dirty = c.dirty
      /\ d.touched = c.touched /\ d.failed = c.failed /\ d.cancelled = c.cancelled /\ d.pc = pc
  BY DEF Sane, Goto, IsConversation, ConversationFields
<1> HIDE DEF d
<1>2. Sane(d)
  BY <1>1 DEF Sane, FlagsTyped
<1> QED
  BY <1>2 DEF d

LEMMA CancelSane ==
  ASSUME NEW c, Sane(c)
  PROVE  Sane([c EXCEPT !.cancelled = TRUE])
<1> DEFINE d == [c EXCEPT !.cancelled = TRUE]
<1>1. /\ IsConversation(d) /\ d.live = c.live /\ d.saved = c.saved /\ d.sent = c.sent /\ d.dirty = c.dirty
      /\ d.touched = c.touched /\ d.failed = c.failed /\ d.cancelled = TRUE /\ d.pc = c.pc
  BY DEF Sane, IsConversation, ConversationFields
<1> HIDE DEF d
<1>2. Sane(d)
  BY <1>1 DEF Sane, FlagsTyped
<1> QED
  BY <1>2 DEF d

LEMMA WaitSane ==
  ASSUME NEW c, Sane(c), NEW w
  PROVE  LET d == [c EXCEPT !.wait = w] IN Sane(d) /\ d.failed = c.failed /\ d.rev = c.rev
<1> DEFINE d == [c EXCEPT !.wait = w]
<1>1. /\ IsConversation(d) /\ d.live = c.live /\ d.saved = c.saved /\ d.sent = c.sent /\ d.dirty = c.dirty
      /\ d.touched = c.touched /\ d.failed = c.failed /\ d.cancelled = c.cancelled /\ d.pc = c.pc
      /\ d.rev = c.rev
  BY DEF Sane, IsConversation, ConversationFields
<1> HIDE DEF d
<1>2. Sane(d)
  BY <1>1 DEF Sane, FlagsTyped
<1> QED
  BY <1>1, <1>2 DEF d

LEMMA ChangedSane ==
  ASSUME NEW c, Sane(c), NEW s, Typed(s), c.failed \/ Fits(s)
  PROVE  LET d == Changed(c, s) IN Sane(d) /\ d.live = s /\ d.failed = c.failed /\ d.rev = c.rev
<1> DEFINE d == Changed(c, s)
<1>1. /\ IsConversation(d) /\ d.live = s /\ d.saved = c.saved /\ d.sent = c.sent /\ d.dirty = TRUE
      /\ d.touched = TRUE /\ d.failed = c.failed /\ d.cancelled = c.cancelled /\ d.pc = c.pc /\ d.rev = c.rev
  BY DEF Sane, Changed, IsConversation, ConversationFields
<1> HIDE DEF d
<1>2. Sane(d)
  BY <1>1 DEF Sane, FlagsTyped
<1> QED
  BY <1>1, <1>2 DEF d

LEMMA AlikeSane ==
  ASSUME NEW c, Sane(c), NEW s, Alike(c.live, s)
  PROVE  Sane(Changed(c, s))
<1>1. Typed(s) /\ (c.failed \/ Fits(s))
  BY AlikeIsTyped, AlikeFits DEF Sane
<1> QED
  BY <1>1, ChangedSane

LEMMA RevisionAlike ==
  ASSUME NEW s, Typed(s), NEW rev \in Nat
  PROVE  Alike(s, [s EXCEPT !.rev = rev])
  BY DEF Typed, RunTyped, Alike, IsState, StateFields

LEMMA FailRunSane ==
  ASSUME NEW c, Sane(c)
  PROVE  Sane(FailRun(c))
<1> DEFINE s == [c.live EXCEPT !.why = "failed"]
<1>1. Alike(c.live, s)
  BY DEF Sane, Typed, RunTyped, Alike, IsState, StateFields
<1> HIDE DEF s
<1>2. Sane(Changed(c, s))
  BY <1>1, AlikeSane
<1> QED
  BY <1>2 DEF FailRun, s

LEMMA StopRunSane ==
  ASSUME NEW c, Sane(c)
  PROVE  Sane(StopRun(c))
<1> DEFINE s == [c.live EXCEPT !.status = "stopping", !.why = "stopped"]
           e == IF c.live.status = "stopping" THEN c ELSE Changed(c, s)
<1>1. Alike(c.live, s)
  BY DEF Sane, Typed, RunTyped, Alike, IsState, StateFields
<1>2. StopRun(c) = IF c.live.active = 0 THEN c ELSE [e EXCEPT !.cancelled = TRUE]
  BY DEF StopRun
<1> HIDE DEF s
<1>3. Sane(Changed(c, s))
  BY <1>1, AlikeSane
<1>4. Sane(e)
  BY <1>3
<1> HIDE DEF e
<1>5. Sane([e EXCEPT !.cancelled = TRUE])
  BY <1>4, CancelSane
<1> QED
  BY <1>2, <1>5

LEMMA NewIsSane ==
  ASSUME NEW s, Typed(s), Fits(s)
  PROVE  LET d == NewConversation(s) IN Sane(d) /\ ~ d.failed /\ d.rev = s.rev
<1> DEFINE d == NewConversation(s)
<1>1. /\ IsConversation(d) /\ d.live = s /\ d.saved = s /\ d.sent = NoState /\ d.dirty = FALSE
      /\ d.touched = FALSE /\ d.failed = FALSE /\ d.cancelled = FALSE /\ d.pc = "idle"
      /\ d.rev = s.rev
  BY DEF NewConversation, IsConversation, ConversationFields
<1> HIDE DEF d
<1>2. Sane(d)
  BY <1>1, NoStateFits DEF Sane, FlagsTyped
<1> QED
  BY <1>1, <1>2 DEF d

\* A commit that begins takes the live state with it.
LEMMA BegunSane ==
  ASSUME NEW c, Sane(c), ~ c.failed, c.rev \in Nat, NEW then, NEW d, Begun(c, d, then)
  PROVE  Sane(d) /\ Typed(d.sent) /\ Fits(d.sent)
<1>1. Alike(c.live, d.sent)
  BY RevisionAlike DEF Begun, Sane
<1>2. Typed(d.sent) /\ Fits(d.sent)
  BY <1>1, AlikeIsTyped, AlikeFits DEF Sane
<1> QED
  BY <1>2 DEF Begun, Sane, FlagsTyped

LEMMA SucceededSane ==
  ASSUME NEW c, Sane(c), c.pc = "committing", c.then # "committing"
  PROVE  Sane(CommitSucceeded(c))
<1> DEFINE d == CommitSucceeded(c)
           s == [c.live EXCEPT !.rev = c.sent.rev]
<1>1. /\ IsConversation(d) /\ d.live = s /\ d.saved = c.sent /\ d.sent = NoState /\ d.dirty = c.touched
      /\ d.touched = c.touched /\ d.failed = c.failed /\ d.cancelled = c.cancelled /\ d.pc = c.then
  BY DEF Sane, CommitSucceeded, IsConversation, ConversationFields
<1>2. Alike(c.live, s)
  BY RevisionAlike DEF Sane, Typed, RunTyped
<1> HIDE DEF d, s
<1>3. Typed(s) /\ (c.failed \/ Fits(s))
  BY <1>2, AlikeIsTyped, AlikeFits DEF Sane
<1>4. Sane(d)
  BY <1>1, <1>3, NoStateFits DEF Sane, FlagsTyped
<1> QED
  BY <1>4 DEF d

\* A conversation that failed commits nothing any more.
LEMMA FailedSane ==
  ASSUME NEW c, Sane(c)
  PROVE  Sane(CommitFailed(c))
<1> DEFINE revived == IF c.live.active = 0 /\ c.saved.active # 0
                      THEN [c.live EXCEPT !.active = c.saved.active, !.last = c.saved.last,
                                          !.outcome = c.saved.outcome, !.why = c.saved.why]
                      ELSE c.live
           stopping == IF revived.active = 0 THEN revived ELSE [revived EXCEPT !.status = "stopping"]
           d == CommitFailed(c)
<1>1. d = [c EXCEPT !.failed = TRUE, !.dirty = TRUE, !.live = stopping, !.cancelled = TRUE, !.pc = "idle",
              !.sent = NoState, !.attempt = 0]
  BY DEF CommitFailed
<1>2. Typed(revived)
  BY DEF Sane, Typed, RunTyped, ContentTyped, IsState, StateFields
<1> HIDE DEF revived
<1>3. Typed(stopping)
  BY <1>2 DEF Typed, RunTyped, ContentTyped, IsState, StateFields
<1> HIDE DEF stopping, d
<1>4. /\ IsConversation(d) /\ d.live = stopping /\ d.saved = c.saved /\ d.sent = NoState /\ d.dirty = TRUE
      /\ d.touched = c.touched /\ d.failed = TRUE /\ d.cancelled = TRUE /\ d.pc = "idle"
  BY <1>1 DEF Sane, IsConversation, ConversationFields
<1>5. Sane(d)
  BY <1>3, <1>4, NoStateFits DEF Sane, FlagsTyped
<1> QED
  BY <1>5 DEF d

-----------------------------------------------------------------------------
(* The steps, and what they leave to restore.                               *)

\* What a step of a conversation leaves as it is.
Beside ==
  /\ UNCHANGED <<ledger, ops>> /\ counter'.call = counter.call
  /\ answers' \subseteq answers /\ arrived' \subseteq arrived /\ closing' \in BOOLEAN

LEMMA OneIsSane ==
  ASSUME LinkTyped, RestoreInv, NEW o \in Object, NEW d, Sane(d), conv' = [conv EXCEPT ![o] = d], Beside,
         \A m \in wire' : m.type = "commit" => m \in wire \/ (Typed(m.state) /\ Fits(m.state))
  PROVE  RestoreInv'
<1>1. \A x \in Object : conv'[x] = IF x = o THEN d ELSE conv[x]
  BY DEF LinkTyped
<1>2. \A x \in Object : Sane(conv'[x])
  BY <1>1 DEF RestoreInv
<1>3. CallsBounded'
  BY DEF RestoreInv, Beside, CallsBounded
<1> QED
  BY <1>2, <1>3 DEF RestoreInv, Beside

LEMMA OneIsSent ==
  ASSUME LinkTyped, RestoreInv, NEW o \in Object, NEW e, Sane(e), ~ e.failed, e.rev \in Nat, NEW then,
         BeginCommit(o, e, then), Beside
  PROVE  RestoreInv'
<1>1. PICK d : /\ Begun(e, d, then) /\ conv' = [conv EXCEPT ![o] = d]
               /\ wire' = wire \cup {[type |-> "commit", obj |-> o, state |-> d.sent]}
  BY Begins DEF Sane
<1>2. Sane(d) /\ Typed(d.sent) /\ Fits(d.sent)
  BY <1>1, BegunSane
<1>3. \A m \in wire' : m \in wire \/ (Typed(m.state) /\ Fits(m.state))
  BY <1>1, <1>2
<1> QED
  BY <1>1, <1>2, <1>3, OneIsSane

\* The conversation that works, as both invariants have it.
LEMMA WorkerIsSane ==
  ASSUME LedgerInv, RestoreInv, NEW o \in Object, ~ AtRest(conv[o]), conv[o].pc # "committing"
  PROVE  LET c == conv[o] IN
         /\ LinkTyped /\ Sane(c) /\ ~ c.failed /\ c.rev \in Nat /\ c.live.active # 0
         /\ Typed(c.live) /\ Fits(c.live)
         /\ c.pc \in {"launch", "calling", "waiting"} =>
              /\ c.wait \in RequestIds
              /\ c.wait.kind = "tool" => c.wait.n \in OpenCalls(c.live)
         /\ c.pc = "launch" => c.wait.kind = "tool"
<1> DEFINE c == conv[o]
<1>1. LinkTyped /\ Sane(c) /\ ~ c.failed /\ c.rev \in Nat /\ Typed(c.live) /\ Fits(c.live)
  BY WorkerIsKnown DEF LedgerInv, HostInv, RestoreInv, Sane
<1>2. CourseAt(c.pc, c.wait, c.live, c.cancelled) /\ Works(c.pc)
  BY WorkerIsKnown
<1>3. c.live.active # 0 /\ (c.pc = "launch" => c.wait.kind = "tool")
  BY <1>2 DEF CourseAt
<1>4. ASSUME c.pc \in {"launch", "calling", "waiting"}
      PROVE  c.wait \in RequestIds /\ (c.wait.kind = "tool" => c.wait.n \in OpenCalls(c.live))
  <2>1. /\ c.wait \in RequestIds /\ c.wait \in PendingIds(c.live)
        /\ c.wait.kind = "tool" => c.wait.n \notin Answered(c.live)
    BY <1>2, <1>4 DEF CourseAt
  <2>2. PICK p \in c.live.pending : p.id = c.wait
    BY <2>1 DEF PendingIds
  <2>3. c.wait.kind = "tool" => c.wait.n \in c.live.calls
    BY <1>1, <2>2 DEF Fits, PendingFits
  <2> QED
    BY <2>1, <2>3 DEF OpenCalls
<1> HIDE DEF c
<1> QED
  BY <1>1, <1>3, <1>4 DEF c

LEMMA WorkerSends ==
  ASSUME LedgerInv, RestoreInv, NEW o \in Object, ~ AtRest(conv[o]), conv[o].pc # "committing", Beside,
         NEW s, Typed(s), Fits(s), NEW then, NEW w,
         \/ BeginCommit(o, Changed(conv[o], s), then)
         \/ BeginCommit(o, Changed([conv[o] EXCEPT !.wait = w], s), then)
  PROVE  RestoreInv'
<1> DEFINE c == conv[o]
           d == [c EXCEPT !.wait = w]
<1>1. LinkTyped /\ Sane(c) /\ ~ c.failed /\ c.rev \in Nat
  BY WorkerIsSane
<1>2. Sane(d) /\ ~ d.failed /\ d.rev \in Nat
  BY <1>1, WaitSane
<1> HIDE DEF d
<1>3. CASE BeginCommit(o, Changed(c, s), then)
  <2>1. Sane(Changed(c, s)) /\ ~ Changed(c, s).failed /\ Changed(c, s).rev \in Nat
    BY <1>1, ChangedSane
  <2> QED
    BY <1>1, <1>3, <2>1, OneIsSent
<1>4. CASE BeginCommit(o, Changed(d, s), then)
  <2>1. Sane(Changed(d, s)) /\ ~ Changed(d, s).failed /\ Changed(d, s).rev \in Nat
    BY <1>2, ChangedSane
  <2> QED
    BY <1>1, <1>4, <2>1, OneIsSent
<1> QED
  BY <1>3, <1>4 DEF d

LEMMA ToolSettlesFits ==
  ASSUME LedgerInv, RestoreInv, NEW o \in Object, conv[o].pc \in {"launch", "calling", "waiting"},
         conv[o].wait.kind = "tool", NEW as \in Outcomes, ToolSettles(o, conv[o], as), Beside
  PROVE  RestoreInv'
<1> DEFINE c == conv[o]
           told == [c.live EXCEPT !.results = @ \cup {[call |-> c.wait.n, as |-> as, msg |-> "tool"]}]
           s == IF as = "unknown" THEN Unsettled(told, c.wait, "unknown") ELSE RemovePending(told, c.wait)
           then == IF as = "unknown" THEN "unresolved" ELSE "batch"
<1>1. ~ AtRest(c) /\ c.pc # "committing"
  BY DEF AtRest
<1>2. Typed(told) /\ Fits(told)
  BY <1>1, WorkerIsSane, AnsweredFits
<1>3. BeginCommit(o, Changed(c, s), then)
  BY DEF ToolSettles
<1> HIDE DEF told
<1>4. Typed(s) /\ Fits(s)
  <2>1. CASE as = "unknown"
    BY <1>2, <2>1, UnsettledFits
  <2>2. CASE as # "unknown"
    BY <1>2, <2>2, RemovedFits
  <2> QED
    BY <2>1, <2>2
<1> HIDE DEF s, then
<1> QED
  BY <1>1, <1>3, <1>4, WorkerSends

LEMMA ModelSettlesFits ==
  ASSUME LedgerInv, RestoreInv, NEW o \in Object, conv[o].pc = "waiting", NEW a, a.calls \subseteq Call,
         ModelSettles(o, conv[o], a), Beside
  PROVE  RestoreInv'
<1> DEFINE c == conv[o]
           told == [c.live EXCEPT !.calls = @ \cup UsableCalls(a)]
           removed == RemovePending(told, c.wait)
           unsettled == Unsettled(told, c.wait, "cost")
<1>1. ~ AtRest(c) /\ c.pc # "committing"
  BY DEF AtRest
<1>2. UsableCalls(a) \subseteq Call
  BY DEF UsableCalls
<1>3. Typed(told) /\ Fits(told)
  BY <1>1, <1>2, WorkerIsSane, AskedFits
<1>4. (\E then : BeginCommit(o, Changed(c, unsettled), then)) \/ (\E then : BeginCommit(o, Changed(c, removed), then))
  BY Zenon DEF ModelSettles
<1> HIDE DEF told
<1>5. Typed(removed) /\ Fits(removed) /\ Typed(unsettled) /\ Fits(unsettled)
  BY <1>3, RemovedFits, UnsettledFits
<1> HIDE DEF removed, unsettled
<1> QED
  BY <1>1, <1>4, <1>5, WorkerSends

LEMMA NoAnswerFits ==
  ASSUME LedgerInv, RestoreInv, NEW o \in Object, conv[o].pc \in {"calling", "waiting"}, NoAnswer(o, conv[o]), Beside
  PROVE  RestoreInv'
<1> DEFINE c == conv[o]
           e == Changed(c, c.live)
<1>1. ~ AtRest(c) /\ c.pc # "committing"
  BY DEF AtRest
<1>2. LinkTyped /\ Sane(c) /\ Typed(c.live) /\ Fits(c.live) /\ c.wait \in RequestIds
  BY <1>1, WorkerIsSane
<1>3. CASE c.wait.kind = "model"
  <2>1. conv' = [conv EXCEPT ![o] = Goto(FailRun(e), "ending")] /\ wire' = wire
    BY <1>3 DEF NoAnswer, ModelLost
  <2>2. Sane(e)
    BY <1>2, ChangedSane
  <2> HIDE DEF e
  <2>3. Sane(Goto(FailRun(e), "ending"))
    BY <2>2, FailRunSane, GotoSane
  <2> QED
    BY <1>2, <2>1, <2>3, OneIsSane
<1>4. CASE c.wait.kind # "model"
  <2>1. c.wait.kind = "tool" /\ ToolSettles(o, c, "unknown")
    BY <1>2, <1>4 DEF NoAnswer, RequestIds
  <2> QED
    BY <2>1, ToolSettlesFits DEF Outcomes
<1> QED
  BY <1>3, <1>4

LEMMA ThinkFits ==
  ASSUME LedgerInv, RestoreInv, NEW o \in Object, Think(o)
  PROVE  RestoreInv'
<1> DEFINE c == conv[o]
           id == Model(counter.model + 1)
           asked == [c.live EXCEPT !.asked = @ + 1]
<1>1. /\ c.pc = "think" /\ UNCHANGED <<ledger, ops, answers, arrived, closing>>
  BY DEF Think
<1>2. ~ AtRest(c) /\ c.pc # "committing"
  BY <1>1 DEF AtRest
<1>3. LinkTyped /\ Sane(c) /\ Typed(c.live) /\ Fits(c.live) /\ c.live.active # 0 /\ closing \in BOOLEAN
  BY <1>2, WorkerIsSane DEF RestoreInv
<1>4. counter \in [object : Nat, model : Nat, call : Nat, crash : Nat]
  BY <1>3 DEF LinkTyped
<1>5. counter' = counter \/ counter' = [counter EXCEPT !.model = @ + 1]
  BY Zenon DEF Think
<1>6. Beside
  BY <1>1, <1>3, <1>4, <1>5 DEF Beside
<1>7. Sane(Goto(c, "ending")) /\ Sane(Goto(c, "limit")) /\ Sane(Goto(FailRun(c), "ending"))
  BY <1>3, GotoSane, FailRunSane
<1>8. CASE /\ \/ conv' = [conv EXCEPT ![o] = Goto(c, "ending")]
              \/ conv' = [conv EXCEPT ![o] = Goto(c, "limit")]
              \/ conv' = [conv EXCEPT ![o] = Goto(FailRun(c), "ending")]
           /\ wire' = wire
  BY <1>3, <1>6, <1>7, <1>8, OneIsSane
<1>9. CASE HasBudget(c) /\ BeginCommit(o, Changed([c EXCEPT !.wait = id], AddPending(asked, id)), "calling")
  <2>1. Typed(asked) /\ Fits(asked) /\ asked.active # 0
    <3>1. /\ IsState(asked) /\ asked.rev = c.live.rev /\ asked.active = c.live.active
          /\ asked.status = c.live.status /\ asked.why = c.live.why /\ asked.last = c.live.last
          /\ asked.runs = c.live.runs /\ asked.outcome = c.live.outcome /\ asked.asked = c.live.asked + 1
          /\ asked.calls = c.live.calls /\ asked.results = c.live.results /\ asked.pending = c.live.pending
      BY <1>3 DEF Typed, IsState, StateFields
    <3> HIDE DEF asked
    <3>2. asked.asked \in 0..MaxModelCalls
      <4>1. MaxModelCalls \in Nat /\ c.live.asked \in 0..MaxModelCalls /\ c.live.asked < MaxModelCalls
        BY <1>3, <1>9, HostAssumption DEF HasBudget, Typed, RunTyped
      <4> QED
        BY <3>1, <4>1
    <3>3. Typed(asked)
      BY <1>3, <3>1, <3>2 DEF Typed, RunTyped, ContentTyped
    <3>4. Fits(asked)
      BY <1>3, <3>1 DEF Fits, RunsFit, PendingFits, ResultsFit, Owner, Answered
    <3> QED
      BY <1>3, <3>1, <3>3, <3>4
  <2>2. id \in RequestID /\ id.kind # "tool"
    BY <1>4 DEF RequestID, Model
  <2> HIDE DEF asked, id
  <2>3. Typed(AddPending(asked, id)) /\ Fits(AddPending(asked, id))
    BY <2>1, <2>2, AddedFits
  <2> QED
    BY <1>2, <1>6, <1>9, <2>3, WorkerSends
<1> QED
  BY <1>8, <1>9, Zenon DEF Think

LEMMA BatchFits ==
  ASSUME LedgerInv, RestoreInv, NEW o \in Object, Batch(o)
  PROVE  RestoreInv'
<1> DEFINE c == conv[o]
           open == OpenCalls(c.live)
           id == Tool(Min(open))
<1>1. /\ c.pc = "batch" /\ UNCHANGED <<ledger, ops, answers, arrived, closing, counter>>
  BY DEF Batch
<1>2. ~ AtRest(c) /\ c.pc # "committing"
  BY <1>1 DEF AtRest
<1>3. LinkTyped /\ Sane(c) /\ Typed(c.live) /\ Fits(c.live) /\ c.live.active # 0 /\ closing \in BOOLEAN
  BY <1>2, WorkerIsSane DEF RestoreInv
<1>4. Beside
  BY <1>1, <1>3 DEF Beside
<1>5. CASE conv' = [conv EXCEPT ![o] = Goto(c, IF c.cancelled THEN "ending" ELSE "think")] /\ wire' = wire
  BY <1>3, <1>4, <1>5, GotoSane, OneIsSane
<1>6. CASE BeginCommit(o, Changed(c, CloseCalls(c.live, open, "turn")), "ending")
  <2>1. PICK s : s = CloseCalls(c.live, open, "turn") /\ Typed(s) /\ Fits(s)
    BY <1>3, ClosedFits
  <2>2. BeginCommit(o, Changed(c, s), "ending")
    BY <1>6, <2>1
  <2> QED
    BY <1>2, <1>4, <2>1, <2>2, WorkerSends
<1>7. CASE open # {} /\ BeginCommit(o, Changed([c EXCEPT !.wait = id], AddPending(c.live, id)), "launch")
  <2>1. Min(open) \in c.live.calls /\ Min(open) \in Nat
    <3>1. open \in SUBSET Nat
      BY <1>3 DEF OpenCalls, Typed, ContentTyped, Call
    <3>2. Min(open) \in open
      BY <1>7, <3>1, FirstOpenCall
    <3> QED
      BY <3>1, <3>2 DEF OpenCalls
  <2>2. id \in RequestID /\ id.n \in c.live.calls
    BY <2>1 DEF RequestID, Tool
  <2> HIDE DEF id
  <2>3. Typed(AddPending(c.live, id)) /\ Fits(AddPending(c.live, id))
    BY <1>3, <2>2, AddedFits
  <2> QED
    BY <1>2, <1>4, <1>7, <2>3, WorkerSends
<1> QED
  BY <1>5, <1>6, <1>7 DEF Batch

\* A step that leaves the pipes alone, or puts a call into one.
LEMMA WorkerMoves ==
  ASSUME LinkTyped, RestoreInv, NEW o \in Object, NEW d, Sane(d), conv' = [conv EXCEPT ![o] = d],
         UNCHANGED <<ledger, ops, counter, answers, arrived>>, closing' \in BOOLEAN,
         wire' = wire \/ \E m : m.type = "call" /\ wire' = wire \cup {m}
  PROVE  RestoreInv'
<1>1. Beside
  BY DEF Beside
<1>2. \A m \in wire' : m.type = "commit" => m \in wire
  OBVIOUS
<1> QED
  BY <1>1, <1>2, OneIsSane

LEMMA LaunchFits ==
  ASSUME LedgerInv, RestoreInv, NEW o \in Object, Launch(o)
  PROVE  RestoreInv'
<1> DEFINE c == conv[o]
<1>1. c.pc = "launch" /\ UNCHANGED <<ledger, ops, answers, arrived, closing, counter>>
  BY DEF Launch
<1>2. LinkTyped /\ Sane(c) /\ c.wait.kind = "tool" /\ closing \in BOOLEAN
  BY <1>1, WorkerIsSane DEF RestoreInv, AtRest
<1>3. Sane(Goto(c, "batch")) /\ Sane(Goto(c, "calling"))
  BY <1>2, GotoSane
<1>4. Beside
  BY <1>1, <1>2 DEF Beside
<1>5. CASE (conv' = [conv EXCEPT ![o] = Goto(c, "batch")] \/ conv' = [conv EXCEPT ![o] = Goto(c, "calling")]) /\ wire' = wire
  BY <1>2, <1>3, <1>4, <1>5, OneIsSane
<1>6. CASE ToolSettles(o, c, "none")
  BY <1>1, <1>2, <1>4, <1>6, ToolSettlesFits DEF Outcomes
<1> QED
  BY <1>5, <1>6 DEF Launch

\* The steps that end, stop or fail a run without a commit.
LEMMA StoppingFits ==
  ASSUME LedgerInv, RestoreInv, NEW o \in Object, Unresolved(o) \/ Fail(o) \/ CallTimesOut(o) \/ Watch(o)
  PROVE  RestoreInv'
<1> DEFINE c == conv[o]
           s == [c.live EXCEPT !.status = "stopping", !.why = IF @ = "" THEN "stopped" ELSE @]
<1>1. LinkTyped /\ Sane(c) /\ closing \in BOOLEAN
  BY DEF LedgerInv, HostInv, RestoreInv
<1>2. UNCHANGED <<ledger, ops, counter, answers, arrived, closing, wire>>
  BY DEF Unresolved, Fail, CallTimesOut, Watch
<1>3. Sane(StopRun(c)) /\ Sane(Goto(StopRun(c), "batch")) /\ Sane(Goto(FailRun(c), "ending"))
  BY <1>1, StopRunSane, FailRunSane, GotoSane
<1>4. Sane([Changed(c, s) EXCEPT !.cancelled = TRUE])
  <2>1. Alike(c.live, s)
    BY <1>1 DEF Sane, Typed, RunTyped, Alike, IsState, StateFields
  <2> HIDE DEF s
  <2>2. Sane(Changed(c, s))
    BY <1>1, <2>1, AlikeSane
  <2> QED
    BY <2>2, CancelSane
<1>5. CASE Unresolved(o)
  <2>1. conv' = [conv EXCEPT ![o] = Goto(StopRun(c), "batch")]
    BY <1>5 DEF Unresolved
  <2> QED
    BY <1>1, <1>2, <1>3, <2>1, WorkerMoves
<1>6. CASE Fail(o)
  <2>1. conv' = [conv EXCEPT ![o] = Goto(FailRun(c), "ending")]
    BY <1>1, <1>6 DEF Fail, LinkTyped
  <2> QED
    BY <1>1, <1>2, <1>3, <2>1, WorkerMoves
<1>7. CASE CallTimesOut(o)
  <2>1. conv' = [conv EXCEPT ![o] = StopRun(c)]
    BY <1>1, <1>7 DEF CallTimesOut, LinkTyped
  <2> QED
    BY <1>1, <1>2, <1>3, <2>1, WorkerMoves
<1>8. CASE Watch(o)
  <2>1. conv' = [conv EXCEPT ![o] = [Changed(c, s) EXCEPT !.cancelled = TRUE]]
    BY <1>8 DEF Watch
  <2> HIDE DEF s
  <2> QED
    BY <1>1, <1>2, <1>4, <2>1, WorkerMoves
<1> QED
  BY <1>5, <1>6, <1>7, <1>8

LEMMA DispatchFits ==
  ASSUME LedgerInv, RestoreInv, NEW o \in Object, Dispatch(o)
  PROVE  RestoreInv'
<1> DEFINE c == conv[o]
           m == [type |-> "call", obj |-> o, id |-> c.wait, run |-> c.live.active]
<1>1. c.pc = "calling" /\ UNCHANGED <<ledger, ops, answers, arrived, closing, counter>>
  BY DEF Dispatch
<1>2. LinkTyped /\ Sane(c) /\ closing \in BOOLEAN
  BY DEF LedgerInv, HostInv, RestoreInv
<1>3. Beside
  BY <1>1, <1>2 DEF Beside
<1>4. CASE NoAnswer(o, c)
  BY <1>1, <1>3, <1>4, NoAnswerFits
<1>5. CASE conv' = [conv EXCEPT ![o] = Goto(c, "waiting")] /\ wire' = wire \cup {m}
  <2>1. Sane(Goto(c, "waiting"))
    BY <1>2, GotoSane
  <2>2. m.type = "call"
    OBVIOUS
  <2> HIDE DEF m
  <2> QED
    BY <1>1, <1>2, <1>5, <2>1, <2>2, WorkerMoves
<1> QED
  BY <1>4, <1>5 DEF Dispatch

LEMMA GraceEndsFits ==
  ASSUME LedgerInv, RestoreInv, NEW o \in Object, GraceEnds(o)
  PROVE  RestoreInv'
<1>1. /\ conv[o].pc = "waiting" /\ NoAnswer(o, conv[o]) /\ answers' \subseteq answers
      /\ UNCHANGED <<ledger, ops, arrived, closing, counter>>
  BY DEF GraceEnds
<1>2. Beside
  BY <1>1 DEF Beside, RestoreInv
<1> QED
  BY <1>1, <1>2, NoAnswerFits

LEMMA CallAnsweredFits ==
  ASSUME LedgerInv, RestoreInv, NEW o \in Object, CallAnswered(o)
  PROVE  RestoreInv'
<1> DEFINE c == conv[o]
<1>1. c.pc = "waiting" /\ UNCHANGED <<ledger, ops, arrived, closing, counter>>
  BY DEF CallAnswered
<1>2. PICK a \in answers :
        /\ a.type = "call" /\ a.obj = o /\ a.id = c.wait
        /\ \/ a.as = "invalid" /\ NoAnswer(o, c)
           \/ a.as # "invalid" /\ c.wait.kind = "model" /\ ModelSettles(o, c, a)
           \/ a.as # "invalid" /\ c.wait.kind = "tool" /\ ToolSettles(o, c, a.as)
        /\ answers' = answers \ {a}
  BY DEF CallAnswered
<1>3. Beside
  BY <1>1, <1>2 DEF Beside, RestoreInv
<1>4. a.calls \subseteq Call /\ (a.as # "invalid" /\ c.wait.kind = "tool" => a.as \in Outcomes)
  BY <1>2 DEF RestoreInv, CallsBounded
<1> QED
  BY <1>1, <1>2, <1>3, <1>4, NoAnswerFits, ModelSettlesFits, ToolSettlesFits

LEMMA FinishFits ==
  ASSUME LedgerInv, RestoreInv, NEW o \in Object, Finish(o)
  PROVE  RestoreInv'
<1> DEFINE c == conv[o]
           closed == CloseCalls(c.live, OpenCalls(c.live) \ Prepared(c.live), "closed")
           outcome == Outcome(c)
           s == [closed EXCEPT !.active = 0, !.status = "running", !.last = c.live.active, !.outcome = outcome]
<1>1. c.pc \in {"ending", "limit"} /\ UNCHANGED <<ledger, ops, answers, arrived, closing, counter>>
  BY DEF Finish
<1>2. ~ AtRest(c) /\ c.pc # "committing"
  BY <1>1 DEF AtRest
<1>3. LinkTyped /\ Sane(c) /\ ~ c.failed /\ Typed(c.live) /\ Fits(c.live) /\ c.live.active # 0 /\ closing \in BOOLEAN
  BY <1>2, WorkerIsSane DEF RestoreInv
<1>4. Beside
  BY <1>1, <1>3 DEF Beside
<1>5. BeginCommit(o, Changed(c, s), "idle")
  BY <1>3 DEF Finish
<1>6. outcome \in {"completed", "interrupted", "failed"}
  <2>1. c.live.status \in {"running", "stopping"}
    BY <1>3 DEF Typed, RunTyped
  <2>2. CASE c.live.why = ""
    BY <2>2 DEF Outcome
  <2>3. CASE c.live.why # "" /\ c.live.status = "stopping"
    BY <2>3 DEF Outcome
  <2>4. CASE c.live.why # "" /\ c.live.status = "running"
    BY <2>4 DEF Outcome
  <2> QED
    BY <2>1, <2>2, <2>3, <2>4
<1>7. Typed(closed) /\ Fits(closed) /\ closed.active = c.live.active
  BY <1>3, ClosedFits
<1> HIDE DEF closed, outcome
<1>8. /\ IsState(s) /\ s.rev = closed.rev /\ s.active = 0 /\ s.status = "running" /\ s.why = closed.why
      /\ s.last = closed.active /\ s.runs = closed.runs /\ s.outcome = outcome /\ s.asked = closed.asked
      /\ s.calls = closed.calls /\ s.results = closed.results /\ s.pending = closed.pending
  BY <1>7 DEF Typed, IsState, StateFields
<1> HIDE DEF s
<1>9. Typed(s)
  <2>1. 0 \in 0..LastRun
    BY HostAssumption
  <2> QED
    BY <1>6, <1>7, <1>8, <2>1 DEF Typed, RunTyped, ContentTyped
<1>10. Fits(s)
  <2>1. closed.active # 0
    BY <1>3, <1>7
  <2>2. RunsFit(s) /\ PendingFits(s)
    BY <1>7, <1>8, <2>1 DEF Fits, RunsFit, PendingFits, Owner
  <2>3. ResultsFit(s)
    BY <1>7, <1>8 DEF Fits, ResultsFit, Answered
  <2> QED
    BY <2>2, <2>3 DEF Fits
<1> QED
  BY <1>2, <1>4, <1>5, <1>9, <1>10, WorkerSends

LEMMA CommitInputFits ==
  ASSUME LedgerInv, RestoreInv, NEW o \in Object, CommitInput(o)
  PROVE  RestoreInv'
<1> DEFINE c == conv[o]
<1>1. /\ c.pc = "input" /\ BeginCommit(o, Changed(c, c.live), "think")
      /\ UNCHANGED <<ledger, ops, answers, arrived, closing, counter>>
  BY DEF CommitInput
<1>2. ~ AtRest(c) /\ c.pc # "committing"
  BY <1>1 DEF AtRest
<1>3. Typed(c.live) /\ Fits(c.live) /\ Beside
  BY <1>1, <1>2, WorkerIsSane DEF RestoreInv, Beside
<1> QED
  BY <1>1, <1>2, <1>3, WorkerSends

LEMMA CommitEndsFits ==
  ASSUME LedgerInv, RestoreInv, NEW o \in Object, CommitAnswered(o) \/ CommitTimesOut(o)
  PROVE  RestoreInv'
<1> DEFINE c == conv[o]
           m == [type |-> "commit", obj |-> o, state |-> c.sent]
<1>1. c.pc = "committing" /\ UNCHANGED <<ledger, ops, arrived, closing, counter>> /\ answers' \subseteq answers
  BY DEF CommitAnswered, CommitTimesOut
<1>2. LinkTyped /\ Sane(c) /\ closing \in BOOLEAN /\ c.then # "committing"
  BY DEF LedgerInv, HostInv, RestoreInv, Conversations, Course, Goals, Places
<1>3. Beside
  BY <1>1, <1>2 DEF Beside
<1>4. Sane(CommitSucceeded(c)) /\ Sane(CommitFailed(c))
  BY <1>1, <1>2, SucceededSane, FailedSane
<1>5. CASE (conv' = [conv EXCEPT ![o] = CommitSucceeded(c)] \/ conv' = [conv EXCEPT ![o] = CommitFailed(c)]) /\ wire' = wire
  BY <1>2, <1>3, <1>4, <1>5, OneIsSane
<1>6. CASE conv' = [conv EXCEPT ![o].attempt = 2] /\ wire' = wire \cup {m}
  <2> DEFINE d == [c EXCEPT !.attempt = 2]
  <2>1. conv' = [conv EXCEPT ![o] = d]
    BY <1>6
  <2>2. /\ IsConversation(d) /\ d.live = c.live /\ d.saved = c.saved /\ d.sent = c.sent /\ d.dirty = c.dirty
        /\ d.touched = c.touched /\ d.failed = c.failed /\ d.cancelled = c.cancelled /\ d.pc = c.pc
    BY <1>2 DEF Sane, IsConversation, ConversationFields
  <2> HIDE DEF d
  <2>3. Sane(d)
    BY <1>2, <2>2 DEF Sane, FlagsTyped
  <2>4. m.state = c.sent
    OBVIOUS
  <2> HIDE DEF m
  <2>5. \A x \in wire' : x \in wire \/ (Typed(x.state) /\ Fits(x.state))
    BY <1>1, <1>2, <1>6, <2>4 DEF Sane
  <2> QED
    BY <1>2, <1>3, <2>1, <2>3, <2>5, OneIsSane
<1>7. CASE CommitAnswered(o)
  <2>1. wire' = wire /\ \E a \in answers : conv' = [conv EXCEPT ![o] = IF a.ok THEN CommitSucceeded(c) ELSE CommitFailed(c)]
    BY <1>7, Zenon DEF CommitAnswered
  <2> QED
    BY <1>5, <2>1
<1>8. CASE CommitTimesOut(o)
  BY <1>5, <1>6, <1>8 DEF CommitTimesOut
<1> QED
  BY <1>7, <1>8

\* The state a restore works on is that of the ledger, with its run being stopped.
LEMMA ReopenedFits ==
  ASSUME NEW s, Typed(s), Fits(s)
  PROVE  LET r == Reopened(s) IN
         Typed(r) /\ Fits(r) /\ r.results = s.results /\ r.pending = s.pending /\ r.calls = s.calls
<1> DEFINE owner == IF s.active = 0 /\ s.pending # {} THEN [s EXCEPT !.active = s.last, !.last = 0] ELSE s
           stopping == [owner EXCEPT !.status = "stopping", !.why = "stopped"]
           r == Reopened(s)
<1>1. r = IF owner.active = 0 THEN owner ELSE stopping
  BY DEF Reopened
<1>2. /\ IsState(owner) /\ owner.rev = s.rev /\ owner.status = s.status /\ owner.why = s.why
      /\ owner.runs = s.runs /\ owner.outcome = s.outcome /\ owner.asked = s.asked
      /\ owner.calls = s.calls /\ owner.results = s.results /\ owner.pending = s.pending
      /\ owner.active \in {s.active, s.last} /\ owner.last \in {0, s.last} /\ Owner(owner) = Owner(s)
  BY DEF Typed, IsState, StateFields, Owner
<1> HIDE DEF owner, r
<1>3. Typed(owner)
  <2>1. 0 \in 0..LastRun
    BY HostAssumption
  <2> QED
    BY <1>2, <2>1 DEF Typed, RunTyped, ContentTyped
<1>4. Fits(owner)
  <2>1. RunsFit(owner) /\ PendingFits(owner)
    BY <1>2 DEF Fits, RunsFit, PendingFits
  <2>2. ResultsFit(owner)
    BY <1>2 DEF Fits, ResultsFit, Answered
  <2> QED
    BY <2>1, <2>2 DEF Fits
<1>5. Alike(owner, stopping)
  BY <1>3 DEF Typed, RunTyped, Alike, IsState, StateFields
<1> HIDE DEF stopping
<1>6. /\ Typed(stopping) /\ Fits(stopping)
      /\ stopping.results = s.results /\ stopping.pending = s.pending /\ stopping.calls = s.calls
  BY <1>2, <1>3, <1>4, <1>5, AlikeIsTyped, AlikeFits DEF Alike
<1>7. Typed(r) /\ Fits(r) /\ r.results = s.results /\ r.pending = s.pending /\ r.calls = s.calls
  BY <1>1, <1>2, <1>3, <1>4, <1>6
<1> QED
  BY <1>7 DEF r

\* The outcome of a tool replaces what it was told to be; no call that left was
\* told never to have run.
LEMMA ReconciledFits ==
  ASSUME LedgerInv, RestoreInv
  PROVE  LET k == Reconcile(Reopened(ledger)) IN Typed(k) /\ Fits(k)
<1> DEFINE r == Reopened(ledger)
           settled(kind) == {p \in r.pending : p.id.kind = kind /\ Evidence(p) = "settled"}
           told(p) == [call |-> p.id.n, as |-> ops[p.id].as, msg |-> "tool"]
           new == {told(p) : p \in settled("tool")}
           got == UNION {UsableCalls(ops[p.id]) : p \in settled("model")}
           open == UNION {Remains(p) : p \in r.pending}
           k == Reconcile(r)
<1>1. Typed(r) /\ Fits(r) /\ r.results = ledger.results
  BY ReopenedFits DEF RestoreInv
<1>2. k = [r EXCEPT !.results = Put(@, new), !.calls = @ \cup got, !.pending = open]
  BY DEF Reconcile
<1>3. ASSUME NEW p \in r.pending, Evidence(p) = "settled"
      PROVE  p.id \in DOMAIN ops /\ ops[p.id].stage = "settled" /\ ops[p.id].calls \subseteq Call
  <2>1. p.id \in DOMAIN ops /\ ops[p.id].stage = "settled"
    BY <1>3 DEF Evidence
  <2> QED
    BY <2>1 DEF RestoreInv, CallsBounded
<1>4. ASSUME NEW p \in settled("tool")
      PROVE  /\ told(p) \in Results /\ told(p).call = p.id.n /\ told(p).msg = "tool" /\ told(p).call \in r.calls
             /\ p.id = Tool(p.id.n) /\ p.id \in Out /\ told(p).as = ops[p.id].as
  <2>1. p \in PendingCalls /\ p.id \in RequestID /\ p.id.kind = "tool"
    BY <1>1 DEF Typed, ContentTyped, PendingCalls
  <2>2. p.id \in DOMAIN ops /\ ops[p.id].as \in Outcomes
    BY <1>3, <2>1 DEF RestoreInv, CallsBounded
  <2>3. p.id.n \in r.calls /\ r.calls \subseteq Call
    BY <1>1, <2>1 DEF Fits, PendingFits, Typed, ContentTyped
  <2>4. p.id = Tool(p.id.n)
    BY <2>1 DEF RequestID, Tool
  <2> QED
    BY <2>2, <2>3, <2>4 DEF Results, Outcomes, Out
<1>5. \A x \in new : \E p \in settled("tool") : x = told(p)
  OBVIOUS
<1>6. got \subseteq Call
  <2>1. ASSUME NEW p \in settled("model") PROVE UsableCalls(ops[p.id]) \subseteq Call
    BY <1>3 DEF UsableCalls
  <2> QED
    BY <2>1
<1>7. ASSUME NEW p \in r.pending, NEW q \in Remains(p)
      PROVE  q \in PendingCalls /\ q.run = p.run /\ q.id = p.id
  <2>1. p \in PendingCalls
    BY <1>1 DEF Typed, ContentTyped
  <2>2. q = p \/ q = [p EXCEPT !.got = "unknown"] \/ q = [p EXCEPT !.got = "cost"]
    <3>1. Evidence(p) \in {"unknown", "not_dispatched", "settled"}
      BY DEF Evidence
    <3>2. CASE Evidence(p) = "settled"
      <4>1. p.id.kind \in {"tool", "model"}
        BY <2>1 DEF PendingCalls, RequestID
      <4>2. CASE p.id.kind = "tool"
        BY <3>2, <4>2 DEF Remains
      <4>3. CASE p.id.kind = "model"
        BY <3>2, <4>3 DEF Remains
      <4> QED
        BY <4>1, <4>2, <4>3
    <3>3. CASE Evidence(p) = "unknown"
      BY <3>3 DEF Remains
    <3>4. CASE Evidence(p) = "not_dispatched"
      BY <3>4 DEF Remains
    <3> QED
      BY <3>1, <3>2, <3>3, <3>4
  <2> QED
    BY <2>1, <2>2 DEF PendingCalls
<1>8. ASSUME NEW q \in open
      PROVE  q \in PendingCalls /\ q.run = Owner(r) /\ (q.id.kind = "tool" => q.id.n \in r.calls)
  <2>1. PICK p \in r.pending : q \in Remains(p)
    BY <1>8
  <2> QED
    BY <1>1, <1>7, <2>1 DEF Fits, PendingFits
<1> HIDE DEF r, told, new, got, open, k
<1>9. /\ IsState(k) /\ k.rev = r.rev /\ k.active = r.active /\ k.status = r.status /\ k.why = r.why
      /\ k.last = r.last /\ k.runs = r.runs /\ k.outcome = r.outcome /\ k.asked = r.asked
      /\ k.calls = r.calls \cup got /\ k.results = Put(r.results, new) /\ k.pending = open
  BY <1>1, <1>2 DEF Typed, IsState, StateFields
<1>10. Typed(k)
  <2>1. Put(r.results, new) \subseteq Results
    BY <1>1, <1>4, <1>5 DEF Put, Typed, ContentTyped
  <2> QED
    BY <1>1, <1>6, <1>8, <1>9, <2>1 DEF Typed, RunTyped, ContentTyped
<1>11. RunsFit(k) /\ PendingFits(k)
  BY <1>1, <1>8, <1>9 DEF Fits, RunsFit, PendingFits, Owner
<1>12. ResultsFit(k)
  <2>1. \A x \in r.results : x.call \in r.calls
    BY <1>1 DEF Fits, ResultsFit, Answered
  <2>2. \A x \in k.results : x.call \in k.calls
    BY <1>4, <1>5, <1>9, <2>1 DEF Put
  <2>3. \A x \in k.results : x.as = "closed" \/ x.msg = "tool"
    BY <1>1, <1>4, <1>5, <1>9 DEF Put, Fits, ResultsFit
  <2>4. ASSUME NEW x \in new, NEW y \in new, x.call = y.call PROVE x = y
    <3>1. PICK p \in settled("tool") : x = told(p)
      BY <1>5
    <3>2. PICK q \in settled("tool") : y = told(q)
      BY <1>5
    <3>3. p.id = q.id
      BY <1>4, <2>4, <3>1, <3>2
    <3> QED
      BY <3>1, <3>2, <3>3 DEF told
  <2>5. ASSUME NEW x \in new, NEW y \in r.results, x.call = y.call PROVE y.msg = "tool"
    <3>1. PICK p \in settled("tool") : x = told(p)
      BY <1>5
    <3>2. Tool(y.call) \in Out
      BY <1>4, <2>5, <3>1
    <3>3. y.as # "closed"
      BY <1>1, <3>2 DEF LedgerInv, Truth, TrueOf
    <3> QED
      BY <1>1, <3>3 DEF Fits, ResultsFit
  <2>6. \A x \in new : x.msg = "tool"
    BY <1>4, <1>5
  <2>7. ASSUME NEW x \in k.results, NEW y \in k.results, x.call = y.call PROVE x = y
    <3>1. CASE x \in new /\ y \in new
      BY <2>4, <2>7, <3>1
    <3>2. CASE x \in new /\ y \notin new
      BY <1>9, <2>5, <2>6, <2>7, <3>2 DEF Put
    <3>3. CASE x \notin new /\ y \in new
      BY <1>9, <2>5, <2>6, <2>7, <3>3 DEF Put
    <3>4. CASE x \notin new /\ y \notin new
      BY <1>1, <1>9, <2>7, <3>4 DEF Put, Fits, ResultsFit
    <3> QED
      BY <3>1, <3>2, <3>3, <3>4
  <2> QED
    BY <2>2, <2>3, <2>7 DEF ResultsFit, Answered
<1> QED
  BY <1>10, <1>11, <1>12 DEF Fits, k, r

LEMMA RestoredFits ==
  ASSUME LedgerInv, RestoreInv
  PROVE  Typed(Restored(ledger)) /\ Fits(Restored(ledger))
<1> DEFINE k == Reconcile(Reopened(ledger))
           closed == CloseCalls(k, OpenCalls(k), "closed")
           s == [closed EXCEPT !.active = 0, !.status = "running", !.last = k.active, !.outcome = "interrupted"]
<1>1. Typed(k) /\ Fits(k)
  BY ReconciledFits
<1>2. Restored(ledger) = IF StillUnknown(k) THEN k ELSE s
  BY DEF Restored
<1> HIDE DEF k
<1>3. /\ Typed(closed) /\ Fits(closed) /\ closed.pending = k.pending /\ closed.active = k.active
  BY <1>1, ClosedFits
<1> HIDE DEF closed
<1>4. /\ IsState(s) /\ s.rev = closed.rev /\ s.active = 0 /\ s.status = "running" /\ s.why = closed.why
      /\ s.last = closed.active /\ s.runs = closed.runs /\ s.outcome = "interrupted" /\ s.asked = closed.asked
      /\ s.calls = closed.calls /\ s.results = closed.results /\ s.pending = closed.pending
  BY <1>3 DEF Typed, IsState, StateFields
<1> HIDE DEF s
<1>5. CASE ~ StillUnknown(k)
  <2>1. s.pending = {} /\ 0 \in 0..LastRun
    BY <1>3, <1>4, <1>5, HostAssumption DEF StillUnknown
  <2>2. Typed(s)
    BY <1>3, <1>4, <2>1 DEF Typed, RunTyped, ContentTyped
  <2>3. RunsFit(s) /\ PendingFits(s)
    BY <1>3, <1>4, <2>1 DEF Fits, RunsFit, PendingFits
  <2>4. ResultsFit(s)
    BY <1>3, <1>4 DEF Fits, ResultsFit, Answered
  <2> QED
    BY <1>2, <1>5, <2>2, <2>3, <2>4 DEF Fits
<1> QED
  BY <1>1, <1>2, <1>5

\* A new object, with a checkpoint of its own or without.
LEMMA NewFits ==
  ASSUME LedgerInv, RestoreInv, Create \/ Restore
  PROVE  RestoreInv'
<1> DEFINE c == NewConversation(ledger)
           n == NewConversation(NoState)
           e == Changed(c, Restored(ledger))
<1>1. LinkTyped /\ Typed(ledger) /\ Fits(ledger) /\ ledger.rev \in Nat /\ closing \in BOOLEAN
  BY DEF LedgerInv, HostInv, LinkTyped, RestoreInv
<1>2. PICK o \in Object : o = counter.object + 1
  BY HostAssumption DEF Create, Restore, Object, LedgerInv, HostInv, LinkTyped
<1>3. Beside
  <2>1. counter' = [counter EXCEPT !.object = counter.object + 1]
    BY DEF Create, Restore
  <2>2. counter'.call = counter.call
    BY <1>1, <2>1 DEF LinkTyped
  <2> QED
    BY <1>1, <2>2 DEF Create, Restore, Beside
<1>4. Sane(c) /\ ~ c.failed /\ c.rev \in Nat
  BY <1>1, NewIsSane
<1>5. CASE Create
  <2>1. BeginCommit(o, n, "idle")
    BY <1>2, <1>5 DEF Create
  <2>2. Sane(n) /\ ~ n.failed /\ n.rev \in Nat
    <3>1. NoState.rev \in Nat
      BY DEF NoState
    <3> QED
      BY <3>1, NewIsSane, NoStateFits
  <2> HIDE DEF n
  <2> QED
    BY <1>1, <1>3, <2>1, <2>2, OneIsSent
<1>6. CASE Restore /\ Reopened(ledger).active = 0
  <2>1. conv' = [conv EXCEPT ![o] = c] /\ wire' = wire
    BY <1>2, <1>6 DEF Restore
  <2> HIDE DEF c
  <2> QED
    BY <1>1, <1>3, <1>4, <2>1, OneIsSane
<1>7. CASE Restore /\ Reopened(ledger).active # 0
  <2>1. BeginCommit(o, e, "idle")
    BY <1>2, <1>7 DEF Restore
  <2> HIDE DEF c
  <2>2. Sane(e) /\ ~ e.failed /\ e.rev \in Nat
    BY <1>4, RestoredFits, ChangedSane
  <2> HIDE DEF e
  <2> QED
    BY <1>1, <1>3, <2>1, <2>2, OneIsSent
<1> QED
  BY <1>5, <1>6, <1>7

\* A run is admitted when nothing is pending.
LEMMA AcceptedSane ==
  ASSUME NEW c, Sane(c), NEW a, a.run \in Run, Admits(c, a)
  PROVE  Sane(Accept(c, a.run))
<1> DEFINE d == [c EXCEPT !.pc = "input", !.cancelled = FALSE]
           s == [c.live EXCEPT !.active = a.run, !.status = "running", !.why = "", !.asked = 0,
                               !.runs = @ \cup {a.run}]
<1>1. Typed(c.live) /\ Fits(c.live) /\ c.live.pending = {}
  BY DEF Sane, Admits
<1>2. /\ IsState(s) /\ s.rev = c.live.rev /\ s.active = a.run /\ s.status = "running" /\ s.why = ""
      /\ s.last = c.live.last /\ s.runs = c.live.runs \cup {a.run} /\ s.outcome = c.live.outcome /\ s.asked = 0
      /\ s.calls = c.live.calls /\ s.results = c.live.results /\ s.pending = c.live.pending
  BY <1>1 DEF Typed, IsState, StateFields
<1>3. /\ IsConversation(d) /\ d.live = c.live /\ d.saved = c.saved /\ d.sent = c.sent /\ d.dirty = c.dirty
      /\ d.touched = c.touched /\ d.failed = c.failed /\ d.cancelled = FALSE /\ d.pc = "input"
  BY DEF Sane, IsConversation, ConversationFields
<1>4. Accept(c, a.run) = Changed(d, s)
  BY DEF Accept
<1> HIDE DEF d, s
<1>5. Sane(d)
  BY <1>3 DEF Sane, FlagsTyped
<1>6. Typed(s)
  <2>1. 0 \in 0..MaxModelCalls
    BY HostAssumption
  <2>2. a.run \in 0..LastRun
    BY HostAssumption DEF Run
  <2> QED
    BY <1>1, <1>2, <2>1, <2>2 DEF Typed, RunTyped, ContentTyped
<1>7. Fits(s)
  <2>1. RunsFit(s) /\ PendingFits(s)
    BY <1>1, <1>2 DEF Fits, RunsFit, PendingFits
  <2>2. ResultsFit(s)
    BY <1>1, <1>2 DEF Fits, ResultsFit, Answered
  <2> QED
    BY <2>1, <2>2 DEF Fits
<1> QED
  BY <1>4, <1>5, <1>6, <1>7, ChangedSane

LEMMA StartFits ==
  ASSUME LedgerInv, RestoreInv, NEW a \in arrived, Start(a)
  PROVE  RestoreInv'
<1> DEFINE c == conv[a.obj]
<1>1. LinkTyped /\ a.obj \in Object /\ a.run \in Run
  BY DEF LedgerInv, HostInv, LinkTyped, OnlyCurrentWorks, RestoreInv
<1>2. Beside /\ wire' = wire
  BY DEF Start, Beside, RestoreInv
<1>3. Sane(c)
  BY <1>1 DEF RestoreInv
<1>4. CASE Admits(c, a)
  <2>1. Sane(Accept(c, a.run))
    BY <1>1, <1>3, <1>4, AcceptedSane
  <2>2. conv' = [conv EXCEPT ![a.obj] = Accept(c, a.run)]
    BY <1>1, <1>4 DEF Start, LinkTyped
  <2> QED
    BY <1>1, <1>2, <2>1, <2>2, OneIsSane
<1>5. CASE ~ Admits(c, a)
  <2>1. conv' = [conv EXCEPT ![a.obj] = c]
    BY <1>1, <1>5 DEF Start, LinkTyped
  <2> QED
    BY <1>1, <1>2, <1>3, <2>1, OneIsSane
<1> QED
  BY <1>4, <1>5

LEMMA StopFits ==
  ASSUME LedgerInv, RestoreInv, (\E r \in Run : Interrupt(r)) \/ Shutdown
  PROVE  RestoreInv'
<1>1. LinkTyped /\ current \in Object
  BY DEF LedgerInv, HostInv, LinkTyped, Interrupt, Shutdown
<1>2. conv' = [conv EXCEPT ![current] = StopRun(conv[current])]
  BY <1>1 DEF Interrupt, Shutdown, LinkTyped
<1>3. Sane(StopRun(conv[current]))
  BY <1>1, StopRunSane DEF RestoreInv
<1>4. UNCHANGED <<ledger, ops, counter, answers, arrived, wire>> /\ closing' \in BOOLEAN
  BY DEF Interrupt, Shutdown, RestoreInv
<1> QED
  BY <1>1, <1>2, <1>3, <1>4, WorkerMoves

LEMMA ArrivesFits ==
  ASSUME RestoreInv, NEW r \in Run, StartArrives(r)
  PROVE  RestoreInv'
<1>1. \A a \in arrived' : a.run \in Run
  BY DEF StartArrives, RestoreInv
<1>2. UNCHANGED <<ledger, ops, counter, answers, wire, conv, closing>>
  BY DEF StartArrives
<1>3. CallsBounded'
  BY <1>2 DEF RestoreInv, CallsBounded
<1> QED
  BY <1>1, <1>2, <1>3 DEF RestoreInv

LEMMA HostCommitsFits ==
  ASSUME LedgerInv, RestoreInv, NEW m \in wire, HostCommits(m)
  PROVE  RestoreInv'
<1>1. /\ m.type = "commit" /\ wire' \subseteq wire /\ (ledger' = ledger \/ ledger' = m.state)
      /\ UNCHANGED <<ops, conv, arrived, closing, counter>>
  BY DEF HostCommits
<1>2. \A a \in answers' : a \in answers \/ a.type = "commit"
  <2>1. PICK ok : Reply(m, [type |-> "commit", obj |-> m.obj, ok |-> ok])
    BY DEF HostCommits
  <2>2. [type |-> "commit", obj |-> m.obj, ok |-> ok].type = "commit"
    OBVIOUS
  <2> QED
    BY <2>1, <2>2 DEF Reply
<1>3. CallsBounded'
  BY <1>1, <1>2 DEF RestoreInv, CallsBounded
<1> QED
  BY <1>1, <1>3 DEF RestoreInv

LEMMA HostReceivesFits ==
  ASSUME RestoreInv, NEW m \in wire, HostReceives(m)
  PROVE  RestoreInv'
<1>1. /\ ops' = [id \in DOMAIN ops \cup {m.id} |-> IF id = m.id THEN NoResult ELSE ops[id]]
      /\ wire' \subseteq wire /\ UNCHANGED <<ledger, answers, conv, arrived, closing, counter>>
  BY DEF HostReceives
<1>2. \A id \in DOMAIN ops' : ops'[id] = NoResult \/ (id \in DOMAIN ops /\ ops'[id] = ops[id])
  BY <1>1
<1>3. NoResult.calls = {} /\ NoResult.stage = "received"
  BY DEF NoResult
<1>4. CallsBounded'
  BY <1>1, <1>2, <1>3 DEF RestoreInv, CallsBounded
<1> QED
  BY <1>1, <1>4 DEF RestoreInv

LEMMA HostSettlesFits ==
  ASSUME LedgerInv, RestoreInv, NEW id \in DOMAIN ops, HostSettles(id)
  PROVE  RestoreInv'
<1>1. PICK as \in IF id.kind = "model" THEN ModelResult ELSE ToolResult,
           n \in IF id.kind = "model" THEN 0..(LastCall - counter.call) ELSE {0} :
       LET calls == (counter.call + 1)..(counter.call + n) IN
       /\ n > 0 => as \in {"tools", "unpriced", "length"}
       /\ as = "tools" => n > 0
       /\ ops' = [ops EXCEPT ![id] = IF as = "invalid" THEN @
                                     ELSE [stage |-> "settled", as |-> as, calls |-> calls]]
       /\ counter' = [counter EXCEPT !.call = @ + n]
       /\ answers' = answers \cup {[type |-> "call", obj |-> o, id |-> id, as |-> as, calls |-> calls] :
                                  o \in {x \in Object : conv[x].pc = "waiting" /\ conv[x].wait = id}}
  BY DEF HostSettles
<1>2. UNCHANGED <<ledger, wire, conv, arrived, closing>>
  BY DEF HostSettles
<1> DEFINE calls == (counter.call + 1)..(counter.call + n)
           new == [stage |-> "settled", as |-> as, calls |-> calls]
           told(o) == [type |-> "call", obj |-> o, id |-> id, as |-> as, calls |-> calls]
<1>3. LastCall \in Nat /\ counter.call \in 0..LastCall /\ n \in 0..(LastCall - counter.call)
  <2>1. LastCall \in Nat
    BY HostAssumption
  <2>2. counter.call \in 0..LastCall
    BY DEF RestoreInv, CallsBounded
  <2>3. 0 \in 0..(LastCall - counter.call)
    BY <2>1, <2>2
  <2> QED
    BY <1>1, <2>1, <2>2, <2>3
<1>4. calls \subseteq Call /\ counter.call + n \in 0..LastCall
  BY <1>3 DEF Call
<1>5. id.kind = "tool" => as \in Outcomes \cup {"invalid"}
  BY <1>1, HostAssumption DEF Outcomes
<1>6. counter'.call = counter.call + n
  BY <1>1 DEF LedgerInv, HostInv, LinkTyped
<1> HIDE DEF calls
<1>7. \A i \in DOMAIN ops' : i \in DOMAIN ops /\ (ops'[i] = ops[i] \/ (i = id /\ as # "invalid" /\ ops'[i] = new))
  BY <1>1 DEF calls
<1>8. ASSUME NEW a \in answers' PROVE a \in answers \/ (a.type = "call" /\ a.id = id /\ a.as = as /\ a.calls = calls)
  <2>1. \A o : told(o).type = "call" /\ told(o).id = id /\ told(o).as = as /\ told(o).calls = calls
    OBVIOUS
  <2>2. a \in answers \/ \E o \in Object : a = told(o)
    BY <1>1 DEF calls
  <2> HIDE DEF told
  <2> QED
    BY <2>1, <2>2
<1>9. new.calls = calls /\ new.as = as
  OBVIOUS
<1> HIDE DEF new
<1>10. CallsBounded'
  <2>1. counter'.call \in 0..LastCall
    BY <1>4, <1>6
  <2>2. ASSUME NEW i \in DOMAIN ops'
        PROVE  ops'[i].calls \subseteq Call /\ (ops'[i].stage = "settled" /\ i.kind = "tool" => ops'[i].as \in Outcomes)
    <3>1. CASE i = id /\ as # "invalid" /\ ops'[i] = new
      BY <1>4, <1>5, <1>9, <3>1
    <3>2. CASE i \in DOMAIN ops /\ ops'[i] = ops[i]
      BY <3>2 DEF RestoreInv, CallsBounded
    <3> QED
      BY <1>7, <3>1, <3>2
  <2>3. ASSUME NEW a \in answers', a.type = "call"
        PROVE  a.calls \subseteq Call /\ (a.id.kind = "tool" => a.as \in Outcomes \cup {"invalid"})
    BY <1>4, <1>5, <1>8, <2>3 DEF RestoreInv, CallsBounded
  <2> QED
    BY <2>1, <2>2, <2>3 DEF CallsBounded
<1> QED
  BY <1>2, <1>10 DEF RestoreInv

\* Objects that are not there yet, or not any more.
LEMMA NobodyIsSane ==
  Sane([NewConversation(NoState) EXCEPT !.pc = "none"])
<1>1. Sane(NewConversation(NoState))
  BY NoStateFits, NewIsSane
<1>2. Sane(Goto(NewConversation(NoState), "none"))
  BY <1>1, GotoSane
<1> QED
  BY <1>2 DEF Goto

LEMMA CrashFits ==
  ASSUME LedgerInv, RestoreInv, Crash
  PROVE  RestoreInv'
<1> DEFINE n == [NewConversation(NoState) EXCEPT !.pc = "none"]
<1>1. /\ conv' = [o \in Object |-> n] /\ counter' = [counter EXCEPT !.crash = @ + 1]
      /\ wire' = {} /\ answers' = {} /\ arrived' = {} /\ closing' = FALSE /\ UNCHANGED <<ledger, ops>>
  BY DEF Crash
<1>2. Sane(n)
  BY NobodyIsSane
<1> HIDE DEF n
<1>3. counter'.call = counter.call
  BY <1>1 DEF LedgerInv, HostInv, LinkTyped
<1>4. CallsBounded'
  BY <1>1, <1>3 DEF RestoreInv, CallsBounded
<1> QED
  BY <1>1, <1>2, <1>4 DEF RestoreInv

LEMMA RestorableBegins ==
  ASSUME Init
  PROVE  RestoreInv
<1> DEFINE n == [NewConversation(NoState) EXCEPT !.pc = "none"]
<1>1. /\ ledger = NoState /\ wire = {} /\ conv = [o \in Object |-> n] /\ arrived = {} /\ closing = FALSE
      /\ ops = <<>> /\ answers = {} /\ counter.call = 0
  BY DEF Init
<1>2. Sane(n)
  BY NobodyIsSane
<1> HIDE DEF n
<1>3. DOMAIN ops = {} /\ 0 \in 0..LastCall
  BY <1>1, HostAssumption
<1>4. CallsBounded
  BY <1>1, <1>3 DEF CallsBounded
<1> QED
  BY <1>1, <1>2, <1>4, NoStateFits DEF RestoreInv

LEMMA RestorableGoesOn ==
  ASSUME LedgerInv, RestoreInv, [Next]_vars
  PROVE  RestoreInv'
<1>1. CASE UNCHANGED vars
  <2>1. CallsBounded'
    BY <1>1 DEF vars, RestoreInv, CallsBounded
  <2> QED
    BY <1>1, <2>1 DEF vars, RestoreInv
<1>2. ASSUME NEW o \in Object, Engine(o) \/ Watch(o) PROVE RestoreInv'
  BY <1>2, CommitEndsFits, CommitInputFits, ThinkFits, BatchFits, LaunchFits, StoppingFits, DispatchFits,
     CallAnsweredFits, GraceEndsFits, FinishFits DEF Engine
<1>3. ASSUME Host PROVE RestoreInv'
  BY <1>3, NewFits, CrashFits, StopFits, ArrivesFits, StartFits, HostCommitsFits, HostReceivesFits, HostSettlesFits
  DEF Host
<1> QED
  BY <1>1, <1>2, <1>3 DEF Next

LEMMA RestorableTells ==
  ASSUME LedgerInv, RestoreInv
  PROVE  CheckpointRestores
<1>1. Typed(ledger) /\ Fits(ledger)
  BY DEF RestoreInv
<1>2. Restorable(ledger)
  BY <1>1 DEF Fits, RunsFit, PendingFits, ResultsFit, Owner, Restorable
<1>3. ledger \in CheckpointState
  BY <1>1, TypedIsCheckpoint
<1>4. ASSUME NEW o \in Object
      PROVE  /\ conv[o].live \in CheckpointState /\ conv[o].saved \in CheckpointState
             /\ {conv[o].dirty, conv[o].touched, conv[o].failed, conv[o].cancelled} \subseteq BOOLEAN
  <2>1. Sane(conv[o])
    BY DEF RestoreInv
  <2> QED
    BY <2>1, TypedIsCheckpoint DEF Sane, FlagsTyped
<1>5. current \in 0..LastObject /\ closing \in BOOLEAN /\ stopped \subseteq Run
  <2>1. current \in Object \cup {0} /\ stopped \subseteq Run /\ closing \in BOOLEAN
    BY DEF LedgerInv, HostInv, LinkTyped, StopsAreFrozen, RestoreInv
  <2>2. LastObject \in Nat
    BY HostAssumption
  <2> QED
    BY <2>1, <2>2 DEF Object
<1>6. TypeOK
  BY <1>3, <1>4, <1>5 DEF TypeOK
<1> QED
  BY <1>2, <1>6 DEF CheckpointRestores

\* Every checkpoint that is committed, at whatever point of a run and between whatever
\* timeouts, stops, restores and kills, is one a restore accepts: its runs and calls fit
\* together, and no call has two results (validateState, restore).
THEOREM EveryCheckpointRestores == ~ RestoreOverStart => (Spec => []CheckpointRestores)
<1> SUFFICES ASSUME ~ RestoreOverStart PROVE Spec => []CheckpointRestores
  OBVIOUS
<1>1. Init => LedgerInv /\ RestoreInv
  BY LedgerBegins, RestorableBegins
<1>2. LedgerInv /\ RestoreInv /\ [Next]_vars => LedgerInv' /\ RestoreInv'
  BY LedgerGoesOn, RestorableGoesOn
<1>3. LedgerInv /\ RestoreInv => CheckpointRestores
  BY RestorableTells
<1> QED
  BY <1>1, <1>2, <1>3, PTL DEF Spec
=============================================================================
