------------------------------- MODULE WebTools -------------------------------
(***************************************************************************)
(* internal/webtool and the web side of Conversation.Run: what searches and  *)
(* fetches mean in a request. Every round resolves a plan from the provider's *)
(* settings and the tools that exist now: a kind is left out, done by the     *)
(* provider inside its response (hosted), by a tool of an MCP server (client) *)
(* or by another provider (delegated). The last two are calls of the model    *)
(* that Eylu expands: one execution for each query, under an identity of the   *)
(* host's, all against one budget of uses, and one result for the call.        *)
(* An execution is <<position of its call, position of its query>>. An          *)
(* identity is a number: that of the n-th "exec-n", or whatever the model chose. *)
(* The order in which a batch runs and its conflicts are in ToolBatch.           *)
(***************************************************************************)
EXTENDS Integers, Sequences, FiniteSets

CONSTANTS
  Setups,     \* what a request starts with: settings, capabilities, tools
  Responses,  \* the calls of a response: <<tool, how many queries; 0 is malformed>>
  ModelIds,   \* identities a model gives its calls
  MaxUses,    \* max_uses of a kind
  ParallelLimit,  \* of the executor
  MaxBatchQueries,
  MaxRounds, MaxChanges  \* bounds: rounds of a request, changes of the MCP catalog

ASSUME WebAssumption ==
  /\ MaxUses \in Nat /\ ModelIds \subseteq Nat
  /\ Responses \subseteq Seq(STRING \X Nat)

Kinds == {"search", "fetch"}

VARIABLES
  setup, catalog, changes,   \* is the MCP tool there; how often that changed
  phase, stop, round,        \* where Run is; why it stopped
  plan, authorized,          \* how each kind is served; hostedAuthorized
  uses, batches,             \* UsageBudget
  calls, seen, pending,      \* the response's calls, seenCalls, what pendingCalls says of one
  states, active, runCancelled, \* of the executions; how many run; the request's context
  interrupted,
  results,                   \* the state of every call's one result
  through, refused, hosted   \* history: batches the budget let through or refused; activities

request == <<setup, stop, round, plan, authorized>>
budget  == <<uses, batches, hosted>>
turn    == <<calls, seen>>
batch   == <<states, active, interrupted, through, refused>>
webVars == <<request, catalog, changes, phase, budget, turn, pending, batch, runCancelled, results>>

Function == [i \in {} |-> ""]
Finish(why) == phase' = "done" /\ stop' = why

-----------------------------------------------------------------------------
(* The plan *)

Functions == setup.base \/ catalog

\* The provider's capability, the options it would have to honour included.
HostedSupported(k, functions) == k \in setup.hosted /\ (functions => setup.beside)

\* What "auto" means: fan out where a relay is known to answer through hosted tools.
Execution(k) ==
  LET web == setup.web[k]
      fans == k = "search" /\ setup.fanout
  IN  IF web.execution # "auto" THEN web.execution
      ELSE IF fans /\ HostedSupported(k, FALSE) THEN "delegated"
      ELSE IF HostedSupported(k, Functions) THEN "hosted"
      ELSE IF web.fallback # "none" THEN web.fallback
      ELSE IF web.explicit THEN "unsupported" ELSE "none"

Delegate(k) == setup.web[k].provider \/ (k = "search" /\ setup.fanout /\ setup.web[k].execution = "auto")

ResolveOne(k) ==
  LET execution == Execution(k)
      serves == CASE execution = "hosted"    -> HostedSupported(k, Functions)
                  [] execution = "client"    -> catalog
                  [] execution = "delegated" -> Delegate(k)
                  [] OTHER                   -> execution = "none"
  IN  IF serves THEN execution ELSE "unsupported"

Resolve ==
  [k \in Kinds |-> IF setup.permission = "deny" \/ ~setup.web[k].enabled THEN "none" ELSE ResolveOne(k)]

Resolved(p) == \A k \in Kinds : p[k] # "unsupported"
Hosted(p)   == {k \in Kinds : p[k] = "hosted"}
Local(tool) == tool \in Kinds /\ plan[tool] \in {"client", "delegated"}

\* The MCP manager publishes a new catalog while the request is under way: it is
\* read in these phases only, so a change elsewhere is one that comes there.
CatalogChanges ==
  /\ phase \in {"open", "resolve", "expand"} /\ changes < MaxChanges /\ changes' = changes + 1 /\ catalog' = ~catalog
  /\ UNCHANGED <<request, phase, budget, turn, pending, batch, runCancelled, results>>

\* Hosted tools are approved once in a request; the user may say no.
Plan ==
  /\ phase \in {"open", "resolve"} /\ ~runCancelled
  /\ plan' = Resolve
  /\ \/ ~Resolved(plan') /\ Finish("aborted") /\ UNCHANGED authorized
     \/ /\ Resolved(plan') /\ phase' = (IF phase = "open" THEN "resolve" ELSE "model")
        /\ authorized' = (authorized \/ Hosted(plan') # {}) /\ UNCHANGED stop
     \/ /\ Resolved(plan') /\ Hosted(plan') # {} /\ ~authorized /\ setup.permission = "ask"
        /\ Finish("aborted") /\ UNCHANGED authorized
  /\ UNCHANGED <<setup, round, catalog, changes, budget, turn, pending, batch, runCancelled, results>>

-----------------------------------------------------------------------------
(* The response *)

Call(c, id) == [tool |-> c[1], queries |-> c[2], id |-> id]

\* The model names its calls as it likes (in what order does not matter to the host,
\* so they ascend); a name it used before ends the request.
Respond ==
  /\ phase = "model" /\ round < MaxRounds /\ round' = round + 1
  /\ \E r \in Responses : \E ids \in [DOMAIN r -> ModelIds] :
       /\ \A i \in DOMAIN r : \A j \in DOMAIN r : i < j => ids[i] < ids[j]
       /\ \A i \in DOMAIN r : r[i][1] \in Kinds => plan[r[i][1]] # "hosted"
       /\ \/ /\ \A i \in DOMAIN r : ids[i] \notin seen
             /\ calls' = [i \in DOMAIN r |-> Call(r[i], ids[i])]
             /\ seen' = seen \cup {ids[i] : i \in DOMAIN r}
             /\ pending' = [id \in DOMAIN pending \cup {ids[i] : i \in DOMAIN r} |->
                              IF id \in DOMAIN pending THEN pending[id] ELSE "open"]
             /\ phase' = "record" /\ UNCHANGED stop
          \/ /\ \E i \in DOMAIN r : ids[i] \in seen
             /\ Finish("aborted") /\ UNCHANGED <<turn, pending>>
  /\ UNCHANGED <<setup, plan, authorized, catalog, changes, budget, batch, runCancelled, results>>

\* closePending: what has no result gets one that says it was not executed.
ClosePending ==
  pending' = [id \in DOMAIN pending |->
                IF pending[id] \in {"open", "prepared"} THEN "not_executed" ELSE pending[id]]

\* UsageBudget.Record, for the n activities of one kind.
Record(k, n) == uses[k] + n <= MaxUses /\ uses' = [uses EXCEPT ![k] = @ + n]

\* What the provider searched inside the response counts as it is recorded. A count
\* over the maximum closes the calls; the request, and its budget, end with it.
RecordHosted ==
  /\ phase = "record"
  /\ \/ UNCHANGED <<uses, hosted, pending, stop>> /\ phase' = "expand"
     \/ \E k \in Hosted(plan), n \in 1..2 :
          \/ Record(k, n) /\ hosted' = [hosted EXCEPT ![k] = @ + n] /\ phase' = "expand"
             /\ UNCHANGED <<pending, stop>>
          \/ uses[k] + n > MaxUses /\ ClosePending /\ Finish("aborted") /\ UNCHANGED <<uses, hosted>>
     \/ calls = <<>> /\ Finish("completed") /\ UNCHANGED <<uses, hosted, pending>>
  /\ UNCHANGED <<setup, round, plan, authorized, catalog, changes, batches, turn, batch,
                 runCancelled, results>>

-----------------------------------------------------------------------------
(* Expansion *)

Children(i, p) ==
  IF calls[i].tool \in Kinds /\ p[calls[i].tool] \in {"client", "delegated"} /\ calls[i].queries > 0
  THEN 1..calls[i].queries ELSE {1}
Executions(p) == UNION {{<<i, j>> : j \in Children(i, p)} : i \in DOMAIN calls}

CallOf(e)      == calls[e[1]]
Expanded(e)    == Local(CallOf(e).tool) /\ CallOf(e).queries > 0
Earlier(d, e)  == d[1] < e[1] \/ (d[1] = e[1] /\ d[2] < e[2])
Rank(e)        == Cardinality({d \in DOMAIN states : Expanded(d) /\ ~Earlier(e, d)})
Reserved       == {calls[i].id : i \in DOMAIN calls}

\* executionAllocator: the n-th name that no call of this response bears.
Allocate(n) ==
  CHOOSE id \in 1..n + Cardinality(Reserved) :
    id \notin Reserved /\ Cardinality((1..id) \ Reserved) = n

ExecutionId(e) == IF Expanded(e) THEN Allocate(Rank(e)) ELSE CallOf(e).id

\* The plan is resolved again before the calls run: a kind may have gone, or come.
\* The registry is rebuilt with it, so a call for a kind no longer served is unknown.
Expand ==
  /\ phase = "expand" /\ calls # <<>>
  /\ plan' = Resolve
  /\ IF Resolved(plan')
     THEN /\ states' = [e \in Executions(plan') |-> "queued"] /\ phase' = "approve"
          /\ UNCHANGED <<stop, pending>>
     ELSE ClosePending /\ Finish("aborted") /\ UNCHANGED states
  /\ UNCHANGED <<setup, round, authorized, catalog, changes, budget, turn, active, interrupted,
                 through, refused, runCancelled, results>>

\* A response that made no call but has to go on is refused.
NothingToExpand ==
  /\ phase = "expand" /\ calls = <<>> /\ Finish("aborted")
  /\ UNCHANGED <<setup, round, plan, authorized, catalog, changes, budget, turn, pending, batch,
                 runCancelled, results>>

-----------------------------------------------------------------------------
(* The batch *)

Those(s)  == {e \in DOMAIN states : states[e] = s}
Set(e, s) == states' = [states EXCEPT ![e] = s]
Unknown(e) == CallOf(e).tool \in Kinds /\ ~Local(CallOf(e).tool)

\* Every execution is prepared before any runs, in order: a name without a tool fails,
\* a refusal with a reason rejects one, a bare refusal or a cancellation ends them all.
Approve ==
  /\ phase = "approve"
  /\ \E e \in Those("queued") :
       /\ \A d \in Those("queued") : ~Earlier(d, e)
       /\ \/ runCancelled /\ Set(e, "not_executed") /\ UNCHANGED interrupted
          \/ Unknown(e) /\ ~runCancelled /\ Set(e, "failed") /\ UNCHANGED interrupted
          \/ ~Unknown(e) /\ ~runCancelled /\ Set(e, "accepted") /\ UNCHANGED interrupted
          \/ /\ Local(CallOf(e).tool) /\ setup.permission = "ask" /\ ~runCancelled
             /\ Set(e, "rejected") /\ UNCHANGED interrupted
          \/ /\ Local(CallOf(e).tool) /\ setup.permission = "ask" /\ ~runCancelled /\ interrupted' = TRUE
             /\ states' = [d \in DOMAIN states |->
                   IF d = e THEN "rejected"
                   ELSE IF states[d] \in {"queued", "accepted"} THEN "not_executed" ELSE states[d]]
  /\ UNCHANGED <<request, catalog, changes, phase, budget, turn, pending, active, through,
                 refused, runCancelled, results>>

Approved ==
  /\ phase = "approve" /\ Those("queued") = {} /\ phase' = "run"
  /\ UNCHANGED <<request, catalog, changes, budget, turn, pending, batch, runCancelled, results>>

WebExecutions == {e \in DOMAIN states : Local(CallOf(e).tool)}

\* A fan-out may run wider than the executor's own limit.
Limit ==
  LET web == Cardinality(WebExecutions)
  IN  IF web <= ParallelLimit THEN ParallelLimit
      ELSE IF web < MaxBatchQueries THEN web ELSE MaxBatchQueries

\* OnStart: the set of open calls and the session log hear of it.
Start ==
  /\ phase = "run" /\ ~runCancelled /\ active < Limit
  /\ \E e \in Those("accepted") :
       /\ \A d \in Those("accepted") : ~Earlier(d, e)
       /\ Set(e, "started") /\ active' = active + 1
       /\ pending' = [id \in DOMAIN pending |->
                        IF id = ExecutionId(e) /\ pending[id] = "open" THEN "prepared" ELSE pending[id]]
  /\ UNCHANGED <<request, catalog, changes, phase, budget, turn, interrupted, through, refused, runCancelled, results>>

BatchOf(e) == <<CallOf(e).tool, CallOf(e).id>>

\* Mutant: every query of a batch is a use.
AcquireEach(e) ==
  /\ uses[CallOf(e).tool] < MaxUses /\ uses' = [uses EXCEPT ![CallOf(e).tool] = @ + 1]
  /\ UNCHANGED batches

\* UsageBudget.acquire: the first query of a batch pays for all of them.
Acquire(e) ==
  \/ BatchOf(e) \in batches /\ UNCHANGED <<uses, batches>>
  \/ /\ BatchOf(e) \notin batches /\ uses[CallOf(e).tool] < MaxUses
     /\ uses' = [uses EXCEPT ![CallOf(e).tool] = @ + 1] /\ batches' = batches \cup {BatchOf(e)}

\* LocalTool.Execute up to its backend, and the start of any other tool.
Execute ==
  /\ phase = "run"
  /\ \E e \in Those("started") :
       IF Expanded(e)
       THEN \/ /\ Acquire(e) /\ Set(e, "asked") /\ through' = through \cup {BatchOf(e)} /\ UNCHANGED <<refused, active>>
            \/ /\ BatchOf(e) \notin batches /\ uses[CallOf(e).tool] >= MaxUses
               /\ Set(e, "failed") /\ refused' = refused \cup {BatchOf(e)} /\ active' = active - 1
               /\ UNCHANGED <<uses, batches, through>>
       ELSE /\ IF e \in WebExecutions THEN Set(e, "failed") /\ active' = active - 1
               ELSE Set(e, "asked") /\ UNCHANGED active
            /\ UNCHANGED <<uses, batches, through, refused>>
  /\ UNCHANGED <<request, catalog, changes, phase, hosted, turn, pending, interrupted, runCancelled, results>>

\* The backend answers or fails, or the context it ran under is gone.
Return ==
  /\ phase = "run"
  /\ \E e \in Those("asked") : \E s \in {"succeeded", "failed"} \cup (IF runCancelled THEN {"cancelled"} ELSE {}) :
       Set(e, s) /\ active' = active - 1
  /\ UNCHANGED <<request, catalog, changes, phase, budget, turn, pending, interrupted, through, refused, runCancelled, results>>

CancelRun ==
  /\ phase \in {"resolve", "approve", "run"} /\ ~runCancelled /\ runCancelled' = TRUE
  /\ UNCHANGED <<request, catalog, changes, phase, budget, turn, pending, batch, results>>

\* A call that had started but not entered its tool ends there.
CutShort ==
  /\ phase = "run" /\ runCancelled
  /\ \E e \in Those("started") \cup Those("accepted") :
       /\ Set(e, "not_executed") /\ active' = active - (IF states[e] = "started" THEN 1 ELSE 0)
  /\ UNCHANGED <<request, catalog, changes, phase, budget, turn, pending, interrupted, through, refused, runCancelled, results>>

-----------------------------------------------------------------------------
(* Collapse *)

Terminal == {"succeeded", "failed", "cancelled", "rejected", "not_executed"}
StatesOf(i) == {states[e] : e \in {d \in DOMAIN states : d[1] = i}}

\* aggregateCallState
Aggregate(S) ==
  IF Cardinality(S) = 1 THEN CHOOSE s \in S : TRUE
  ELSE IF "failed" \in S THEN "failed"
  ELSE IF "cancelled" \in S THEN "cancelled"
  ELSE IF "rejected" \in S THEN "rejected" ELSE "not_executed"

\* One result for each call, under the name the model gave it; then the next round,
\* unless the batch's control ends the request.
Collapse ==
  /\ phase = "run" /\ \A e \in DOMAIN states : states[e] \in Terminal
  /\ results' = [i \in DOMAIN calls |-> Aggregate(StatesOf(i))]
  /\ pending' = [id \in DOMAIN pending |->
       IF \E i \in DOMAIN calls : calls[i].id = id
       THEN results'[CHOOSE i \in DOMAIN calls : calls[i].id = id] ELSE pending[id]]
  /\ phase' = "collapsed"
  /\ UNCHANGED <<request, catalog, changes, budget, turn, batch, runCancelled>>

NextRound ==
  /\ phase = "collapsed"
  /\ \/ runCancelled /\ Finish("cancelled")
     \/ ~runCancelled /\ interrupted /\ Finish("interrupted")
     \/ ~runCancelled /\ ~interrupted /\ phase' = "resolve" /\ UNCHANGED stop
  /\ calls' = <<>> /\ states' = Function /\ results' = <<>> /\ active' = 0
  /\ UNCHANGED <<setup, round, plan, authorized, catalog, changes, budget, seen, pending,
                 interrupted, through, refused, runCancelled>>

\* A cancelled request ends at the next round, one without rounds at its limit.
EndRun ==
  /\ \/ phase = "resolve" /\ runCancelled /\ Finish("cancelled")
     \/ phase = "model" /\ round = MaxRounds /\ Finish("limit")
  /\ UNCHANGED <<setup, round, plan, authorized, catalog, changes, budget, turn, pending, batch,
                 runCancelled, results>>

-----------------------------------------------------------------------------
WebInit ==
  /\ setup \in Setups /\ catalog \in BOOLEAN /\ changes = 0
  /\ phase = "open" /\ stop = "none" /\ round = 0
  /\ plan = [k \in Kinds |-> "none"] /\ authorized = (setup.permission = "allow")
  /\ uses = [k \in Kinds |-> 0] /\ batches = {} /\ hosted = [k \in Kinds |-> 0]
  /\ calls = <<>> /\ seen = {} /\ pending = Function
  /\ states = Function /\ active = 0 /\ runCancelled = FALSE /\ interrupted = FALSE
  /\ results = <<>> /\ through = {} /\ refused = {}

WebNext ==
  \/ CatalogChanges \/ Plan \/ Respond \/ RecordHosted \/ Expand \/ NothingToExpand
  \/ Approve \/ Approved \/ Start \/ Execute \/ Return \/ CancelRun \/ CutShort
  \/ Collapse \/ NextRound \/ EndRun

WebSpec == WebInit /\ [][WebNext]_webVars

-----------------------------------------------------------------------------
(* What the web tools promise *)

\* A batch of queries is one use, however its queries race: max_uses counts the calls
\* that were let through and the searches the provider made, never more than allowed,
\* and no call gets one query answered and another refused for its uses.
UsesAreCalls ==
  /\ \A k \in Kinds :
       /\ uses[k] = hosted[k] + Cardinality({b \in through : b[1] = k})
       /\ uses[k] <= MaxUses
  /\ through \cap refused = {}

\* The one result of a fan-out never hides what became of a query: it is a success
\* only if all of them were, and it says that none failed or was cut off only if so.
ResultIsHonest ==
  phase = "collapsed" => \A i \in DOMAIN calls :
    /\ results[i] = "succeeded" => StatesOf(i) = {"succeeded"}
    /\ results[i] \in {"rejected", "not_executed"} => StatesOf(i) \cap {"failed", "cancelled"} = {}

\* What runs at one time has names of its own, and none of them is the name of a call
\* of the response (unless it is that call, not expanded).
IdentitiesAreApart ==
  \A e \in DOMAIN states :
    /\ \A d \in DOMAIN states : d # e => ExecutionId(d) # ExecutionId(e)
    /\ Expanded(e) => ExecutionId(e) \notin Reserved

\* README_EN.md:442: an open call that is not marked prepared has had no effect yet.
PreparedIsTold ==
  \A e \in DOMAIN states : states[e] = "asked" => pending[CallOf(e).id] # "open"

\* The promises of a fan-out, which its queries keep together: one use, one result,
\* names of their own.
WebToolsHold == UsesAreCalls /\ ResultIsHonest /\ IdentitiesAreApart
==============================================================================
