---------------------------- MODULE ContextBudget ----------------------------
(***************************************************************************)
(* internal/agent: how one conversation fits its transcript into the context *)
(* window and its requests into their token budget (context_management.go,   *)
(* budget.go, Conversation.generate and the loop around it).                 *)
(* A turn keeps its role, whether it holds tool calls, the turn its results  *)
(* answer, and its size after contextualizeTurn, in tokens of the estimator. *)
(* A detached run may be adopted between any two steps. The provider bills   *)
(* the estimated input and at most the output it was allowed; a compaction   *)
(* summary, which is sent without a bound, may bill more.                    *)
(***************************************************************************)
EXTENDS Integers, Sequences, FiniteSets, FiniteSetsExt

CONSTANTS
  ContextWindows,        \* context windows, the first one configured and those learned later
  Limits,         \* LoopOptions.MaxTotalTokens, 0 for none
  OutputReserve,  \* Runtime.OutputReserveTokens
  RecentRounds, CompactTrigger, CompactTarget,  \* contextOptions
  SummaryTokens,  \* contextOptions.summaryBytes, in tokens
  ToolSizes,      \* sizes of a tool turn
  SystemTokens,   \* the system prompt, skills, tools and project map
  MaxModelTurns,  \* LoopOptions.MaxTurns
  MaxTurns        \* bound: no request starts when the transcript is longer

ASSUME ContextAssumption ==
  /\ ContextWindows \subseteq Nat \ {0} /\ Limits \subseteq Nat /\ ToolSizes \subseteq Nat
  /\ OutputReserve \in Nat \ {0} /\ RecentRounds \in Nat \ {0}
  /\ CompactTarget \in 1 .. CompactTrigger - 1

VARIABLES
  turns, omitted, summary,  \* c.turns, c.omittedTurnIDs, the size of c.summary
  window, fingerprint,      \* the effective window; c.lastCompressionFingerprint
  host, limit,              \* whether a host drives the conversation; the budget
  pc,                       \* where the running request or compaction stands
  compaction,               \* its compactionPlan
  req                       \* the request: the turns and the size of its prompt, the
                            \* attempt, the model turn and the turn of its open calls, what
                            \* it spent, what providers billed, and what its last paid
                            \* call was admitted for

transcript == <<turns, omitted, summary>>
setting == <<host, limit>>
vars == <<transcript, window, fingerprint, setting, pc, compaction, req>>

NoPlan == [none |-> TRUE]
NoRequest == [prompt |-> {}, input |-> 0, attempt |-> 0, round |-> 0, calls |-> 0,
              spent |-> 0, paid |-> 0, before |-> 0, need |-> 0]
Of(role, calls, size) == [role |-> role, calls |-> calls, answers |-> 0, size |-> size]
Results(call, size) == [role |-> "tool", calls |-> FALSE, answers |-> call, size |-> size]
Percent(w, p) == Max({1, (w * p) \div 100})
Reserve == IF OutputReserve >= window THEN Max({1, window \div 4}) ELSE OutputReserve

------------------------------- (* the prompt *) -------------------------------
Indices == 1 .. Len(turns)
Visible(om) == Indices \ om
Tokens(om, sum) ==
  LET upTo[i \in 0 .. Len(turns)] ==
        IF i = 0 THEN SystemTokens + sum
        ELSE upTo[i - 1] + (IF i \in om THEN 0 ELSE turns[i].size)
  IN upTo[Len(turns)]
Fingerprint(in) == <<window, Len(turns), Cardinality(omitted), in>>

\* conversationRounds: a round starts at each user turn.
Users == {i \in Indices : turns[i].role = "user"}
RoundOf(u) == {i \in Indices : u <= i /\ \A v \in Users : v > u => i < v}
After(u) == {v \in Users : v > u}

OldRounds == {u \in Users : Cardinality(After(u)) >= RecentRounds}

\* activeToolPairs: the agent turns of a round whose calls and results are both there.
PairsOf(u) == {i \in RoundOf(u) \ omitted : /\ turns[i].calls
                                            /\ i + 1 \in RoundOf(u) \ omitted
                                            /\ turns[i + 1].role = "tool"}
\* Mutant: only the bulky half of a pair is dropped.
PairResultOnly(i) == {i + 1}
Pair(i) == {i, i + 1}
PairIsOld(u, i) == Cardinality({j \in PairsOf(u) : j > i}) >= 2

\* compressionCandidates, whose order is that of their first turns.
Candidates ==
  {RoundOf(u) \ omitted : u \in {v \in OldRounds : RoundOf(v) \ omitted # {}}}
  \cup UNION {{Pair(i) : i \in {j \in PairsOf(u) : PairIsOld(u, j)}} : u \in Users \ OldRounds}

\* buildSummaryFor: the goals of the whole transcript and the facts of the omitted turns.
Deterministic(bound, om) == Min({bound, 1 + Cardinality(Users) + Cardinality(om)})
\* fitDeterministicSummary: the largest that fits the window, or the minimum.
Fitted(om) ==
  LET fits == {b \in 1 .. SummaryTokens : Tokens(om, Deterministic(b, om)) + Reserve <= window}
  IN IF fits = {} THEN 1 ELSE Deterministic(Max(fits), om)

\* planCompactionLocked; NoPlan when there is nothing to compact.
PlanFor(in, threshold, manual) ==
  LET target == Percent(window, CompactTarget)
      total == in + Reserve
      groups == Candidates
      upTo(b) == omitted \cup UNION {g \in groups : Min(g) <= b}
      fits(om) == Tokens(om, Deterministic(SummaryTokens, om)) + Reserve <= target
      ends == {Min(g) : g \in groups}
      enough == {b \in ends : fits(upTo(b))}
      om == upTo(IF enough = {} THEN Max(ends) ELSE Min(enough))
      sum == IF fits(om) THEN Deterministic(SummaryTokens, om) ELSE Fitted(om)
  IN IF total < threshold \/ groups = {} THEN NoPlan
     ELSE [turns |-> Len(turns), before |-> total, prepared |-> in, seen |-> Visible(omitted),
           omitted |-> om, new |-> om \ omitted, summary |-> sum, staged |-> Tokens(om, sum),
           target |-> target, manual |-> manual,
           print |-> Fingerprint(in), semantic |-> 0, failure |-> FALSE]

------------------------------ (* the budget *) -------------------------------
Admits(in, out) == limit = 0 \/ req.spent + in + out <= limit
Allowance(in) == IF limit = 0 THEN 0 ELSE Min({limit - req.spent - in, OutputReserve})
\* The output a provider bills: what it was allowed, or more when it was not told.
OutputsBilled(bound) == IF bound > 0 THEN {1, bound} ELSE {1, OutputReserve + 1}

----------------------------- (* one request *) -------------------------------
Idle == pc = "idle"
GoesTo(where) == pc' = where
Ends == pc' = "idle" /\ compaction' = NoPlan /\ req' = NoRequest

BeginRequest ==
  /\ Idle /\ Len(turns) < MaxTurns
  /\ turns' = Append(turns, Of("user", FALSE, 1))
  /\ req' = [NoRequest EXCEPT !.round = 1] /\ GoesTo("prepare")
  /\ UNCHANGED <<omitted, summary, window, fingerprint, setting, compaction>>

\* The prompt is decided: it is sent when it fits the window.
Prepared(in, seen) ==
  IF in + Reserve > window THEN Ends
  ELSE req' = [req EXCEPT !.prompt = seen, !.input = in] /\ compaction' = NoPlan /\ GoesTo("admit")

Prepare ==
  /\ pc = "prepare"
  /\ LET in == Tokens(omitted, summary)
         due == /\ in + Reserve >= Percent(window, CompactTrigger)
                /\ Fingerprint(in) # fingerprint
         p == PlanFor(in, Percent(window, CompactTrigger), FALSE)
     IN \/ /\ due /\ p # NoPlan
           /\ compaction' = p /\ GoesTo("summary")
           /\ UNCHANGED <<fingerprint, req>>
        \/ /\ due /\ p = NoPlan
           /\ fingerprint' = Fingerprint(in) /\ Prepared(in, Visible(omitted))
        \/ /\ ~due
           /\ Prepared(in, Visible(omitted)) /\ UNCHANGED fingerprint
  /\ UNCHANGED <<transcript, window, setting>>

\* Compact, on demand: no request budget to respect.
Compact ==
  /\ Idle
  /\ LET p == PlanFor(Tokens(omitted, summary), Percent(window, CompactTarget), TRUE)
     IN p # NoPlan /\ compaction' = p
  /\ GoesTo("summary")
  /\ UNCHANGED <<transcript, window, fingerprint, setting, req>>

SummaryInput == 1 + compaction.summary + Tokens(Indices \ compaction.new, summary) - SystemTokens

\* onSummaryUsage: the summary is charged whatever becomes of the compaction.
Charged(cost, used) == req.spent + cost

NotAdmitted ==
  /\ pc = "summary" /\ ~compaction.manual /\ ~Admits(SummaryInput, Reserve)
  /\ compaction' = [compaction EXCEPT !.failure = TRUE]
  /\ GoesTo("commit")
  /\ UNCHANGED <<transcript, window, fingerprint, setting, req>>

Billed(in, cost, charged) == [req EXCEPT !.before = req.paid, !.need = in + OutputReserve,
                                         !.paid = @ + cost, !.spent = charged]

\* buildSemanticSummary, outside the lock: a summary, an unusable answer that is paid
\* for as well, or an error. Under a host an error ends the request.
Summarize ==
  /\ pc = "summary" /\ (compaction.manual \/ Admits(SummaryInput, Reserve))
  /\ \E outcome \in {"model", "invalid", "error", "cancelled"},
        size \in {1, SummaryTokens}, out \in OutputsBilled(0) :
       LET fits == SummaryInput + SummaryTokens <= window
           cost == IF fits /\ outcome \in {"model", "invalid"} THEN SummaryInput + out ELSE 0
           good == fits /\ outcome = "model"
       IN IF outcome = "cancelled" \/ (host /\ ~good) THEN Ends
          ELSE /\ compaction' = IF good THEN [compaction EXCEPT !.semantic = size] ELSE [compaction EXCEPT !.failure = TRUE]
               /\ req' = IF compaction.manual THEN req ELSE Billed(SummaryInput, cost, Charged(cost, good))
               /\ GoesTo("commit")
  /\ UNCHANGED <<transcript, window, fingerprint, setting>>

\* Adopt appends the turns of a detached run under the state lock alone, whatever the
\* running request or compaction is doing: its prompt and its answer, if it had one, and
\* the results that close the calls of an answer.
Adopted ==
  LET prompt == Of("user", FALSE, 1)
  IN { <<prompt>>, <<prompt, Of("agent", FALSE, 1)>>,
       <<prompt, Of("agent", TRUE, 1), Results(Len(turns) + 2, 1)>> }

Adopt ==
  /\ Len(turns) < MaxTurns
  /\ \E run \in Adopted : turns' = turns \o run
  /\ UNCHANGED <<omitted, summary, window, fingerprint, setting, pc, compaction, req>>

------------------------- (* commitCompactionLocked *) -------------------------
Superseded == compaction.turns # Len(turns)
WithSemantic == ~compaction.failure /\ ~(Tokens(compaction.omitted, compaction.semantic) + Reserve > compaction.target
                                   /\ compaction.staged + Reserve <= compaction.target)
FinalSummary == IF WithSemantic THEN compaction.semantic ELSE compaction.summary
Reduces == LET total == Tokens(compaction.omitted, FinalSummary) + Reserve
           IN total < compaction.before /\ total <= window

\* The prompt is the one prepared before, and the decision is taken again later.
CommitSuperseded ==
  /\ pc = "commit" /\ Superseded
  /\ IF compaction.manual THEN Ends /\ UNCHANGED fingerprint
     ELSE fingerprint' = compaction.print /\ Prepared(compaction.prepared, compaction.seen)
  /\ UNCHANGED <<transcript, window, setting>>

CommitRefused ==
  /\ pc = "commit" /\ ~Superseded /\ ~Reduces
  /\ Ends
  /\ UNCHANGED <<transcript, window, fingerprint, setting>>

Commit ==
  /\ pc = "commit" /\ ~Superseded /\ Reduces
  /\ LET in == Tokens(compaction.omitted, FinalSummary)
     IN /\ omitted' = compaction.omitted /\ summary' = FinalSummary
        /\ fingerprint' = <<window, Len(turns), Cardinality(compaction.omitted), in>>
        /\ IF compaction.manual THEN Ends ELSE Prepared(in, Indices \ compaction.omitted)
  /\ UNCHANGED <<turns, window, setting>>

---------------------------- (* the model call *) ------------------------------
Refused ==
  /\ pc = "admit" /\ ~Admits(req.input, OutputReserve)
  /\ Ends
  /\ UNCHANGED <<transcript, window, fingerprint, setting>>

CallModel ==
  /\ pc = "admit" /\ Admits(req.input, OutputReserve)
  /\ req' = Billed(req.input, 0, req.spent) /\ GoesTo("call")
  /\ UNCHANGED <<transcript, window, fingerprint, setting, compaction>>

\* LearnOverflow: the window the provider names, or else the next tier below.
Learned == LET below == {w \in ContextWindows : w < window}
           IN IF below = {} THEN {Min(ContextWindows)} ELSE {Max(below), Min(below)}

\* generate prepares and calls again, at most four times in all.
Overflow ==
  /\ pc = "call" /\ req.attempt < 3
  /\ window' \in Learned
  /\ req' = [req EXCEPT !.attempt = @ + 1] /\ GoesTo("prepare")
  /\ UNCHANGED <<transcript, fingerprint, setting, compaction>>

\* A provider error, an answer that is refused, or the user's cancellation.
Fails ==
  /\ pc = "call" /\ Ends
  /\ UNCHANGED <<transcript, window, fingerprint, setting>>

Bills == {req.input + out : out \in OutputsBilled(Allowance(req.input))}

\* The last answer: Run returns it, whatever the budget says by then.
Answers ==
  /\ pc = "call" /\ Ends
  /\ turns' = Append(turns, Of("agent", FALSE, 1))
  /\ UNCHANGED <<omitted, summary, window, fingerprint, setting>>

\* An answer with tool calls is committed, and charged ...
CallsTools ==
  /\ pc = "call"
  /\ turns' = Append(turns, Of("agent", TRUE, 1))
  /\ \E bill \in Bills :
       req' = [req EXCEPT !.calls = Len(turns) + 1, !.spent = @ + bill, !.paid = @ + bill]
  /\ GoesTo("tools")
  /\ UNCHANGED <<omitted, summary, window, fingerprint, setting, compaction>>

\* ... and its results are, under a lock taken anew: of the tools, or those that close
\* the calls when the budget is gone. An interrupted batch ends the request.
CommitsResults ==
  /\ pc = "tools"
  /\ \E size \in ToolSizes : turns' = Append(turns, Results(req.calls, size))
  /\ \/ Ends
     \/ /\ req.round < MaxModelTurns /\ (limit = 0 \/ req.spent <= limit)
        /\ req' = [req EXCEPT !.round = @ + 1, !.attempt = 0, !.calls = 0]
        /\ GoesTo("prepare") /\ UNCHANGED compaction
  /\ UNCHANGED <<omitted, summary, window, fingerprint, setting>>

Init ==
  /\ turns = <<>> /\ omitted = {} /\ summary = 0
  /\ window = Max(ContextWindows) /\ fingerprint = <<>>
  /\ host \in BOOLEAN /\ limit \in Limits
  /\ pc = "idle" /\ compaction = NoPlan /\ req = NoRequest

Step == \/ Prepare \/ NotAdmitted \/ Summarize \/ CommitSuperseded \/ CommitRefused \/ Commit
        \/ Refused \/ CallModel \/ Overflow \/ Fails \/ Answers \/ CallsTools
        \/ CommitsResults
Next == BeginRequest \/ Compact \/ Adopt \/ Step
Spec == Init /\ [][Next]_vars

------------------------------ (* properties *) -------------------------------
\* The results whose call, or the calls whose results, the request carries alone.
Torn == {i \in Indices : turns[i].role = "tool" /\ (i \in req.prompt) # (turns[i].answers \in req.prompt)}

\* A request never carries a tool result without the call it answers, and never hides
\* the result of a call it carries (repairDanglingToolCalls would then tell the model
\* that the outcome is unknown): unless a detached run was adopted between the two, which
\* puts them in different rounds (PairsAreAtomic).
PairsStayWhole == \A i \in Torn : turns[i].answers # i - 1

\* A request never carries an orphan tool result (internal/agent/context_management_test.go
\* :60-83, TestTwentyFileConversationCompressesWithoutBreakingToolPairs). It does when a run
\* is adopted while tools execute: the results stand in the round of the adopted prompt, and
\* a compaction of the older round omits the call alone.
PairsAreAtomic == \A i \in Torn : i \notin req.prompt

\* The last RecentRounds user turns are never compressed away, however the rounds
\* before them, detached runs and compactions on demand follow each other.
RecentGoalsStay == \A u \in Users : Cardinality(After(u)) < RecentRounds => u \notin omitted

\* A paid call of a request starts only when what providers really billed so far, its
\* input and its reserve fit in the request's budget.
CallsAreAdmitted == limit = 0 \/ req.before + req.need <= limit

\* What a request is made of stays sound while compactions, detached runs and learned
\* windows follow each other: its prompt, its goals and its budget.
ContextHolds == PairsStayWhole /\ RecentGoalsStay /\ CallsAreAdmitted
==============================================================================
