------------------------------ MODULE MCModel ------------------------------
(***************************************************************************)
(* Small instances of what lies between a conversation and its model: the    *)
(* context and token budgets, the slices of one prompt, the discovery of a   *)
(* model's limits, the Responses driver, and the web tools.  They share no   *)
(* state, and one run checks them: part says which one moves, and the others *)
(* stay in one of their initial states.                                      *)
(***************************************************************************)
EXTENDS ContextBudget, SliceDedup, LimitResolver, ResponsesDriver, WebTools

VARIABLE part

-----------------------------------------------------------------------------
(* LimitResolver: a model of this host and one that two providers list *)
MCTiers == <<16, 8>>
MCTTL == [endpoint |-> 1, catalog |-> 1, learned |-> 2, negative |-> 1, stale |-> 2]
MCConfigured == [m \in Models |-> 0]
MCListed == [m \in Models |-> IF m = "local" THEN {"openai"} ELSE {"openai", "proxy"}]
MCLocal == {"local"}
\* Requests differ in nothing but their names.
SymmetricRequests == Permutations(Requests)

-----------------------------------------------------------------------------
(* ResponsesDriver *)
MCOutputs == { <<"think", "text">>, <<"call", "call">>, <<"text", "call">>,
               <<"web", "text", "web">>, <<>> }

-----------------------------------------------------------------------------
(* WebTools *)
Off    == [enabled |-> FALSE, explicit |-> FALSE, execution |-> "auto", fallback |-> "none", provider |-> FALSE]
Auto   == [Off EXCEPT !.enabled = TRUE]
Served(by) == [Auto EXCEPT !.execution = by, !.provider = TRUE, !.explicit = TRUE]
Web(s, f) == [k \in Kinds |-> IF k = "search" THEN s ELSE f]
Relay  == [permission |-> "allow", base |-> TRUE, beside |-> TRUE, hosted |-> Kinds, fanout |-> TRUE,
           web |-> Web(Auto, Auto)]

\* A relay that fans out beside a hosted fetch; searches an MCP tool serves, with the user
\* asked; hosted tools that do not go beside functions and fall back to another provider,
\* in a request without tools of its own; a kind without any backend; access denied.
MCSetups ==
  { Relay,
    [Relay EXCEPT !.permission = "ask", !.fanout = FALSE, !.web = Web(Served("client"), Off)],
    [Relay EXCEPT !.permission = "ask", !.base = FALSE, !.beside = FALSE, !.fanout = FALSE,
                  !.web = Web([Auto EXCEPT !.fallback = "delegated", !.provider = TRUE], Off)],
    [Relay EXCEPT !.hosted = {}, !.fanout = FALSE, !.web = Web([Auto EXCEPT !.explicit = TRUE], Off)],
    [Relay EXCEPT !.permission = "deny"] }

MCResponses == { <<>>, << <<"search", 2>>, <<"other", 0>> >>,
                 << <<"search", 1>>, <<"search", 2>> >>, << <<"search", 0>> >> }

-----------------------------------------------------------------------------
BudgetIdle    == host = FALSE /\ limit = Min(Limits)
SlicesIdle    == size = <<>> /\ parts = <<>> /\ slices = {}
LimitsIdle    == disk = Empty
ResponsesIdle == gateway = [parallel |-> FALSE, summary |-> FALSE, deltas |-> FALSE]
WebIdle       == setup = Relay /\ catalog = FALSE

MCInit ==
  /\ part \in {"budget", "slices", "limits", "responses", "web"}
  /\ Init /\ LimitsInit /\ ResponsesInit /\ WebInit
  /\ IF part = "slices" THEN SliceInit ELSE SlicesIdle
  /\ part # "budget" => BudgetIdle
  /\ part # "limits" => LimitsIdle
  /\ part # "responses" => ResponsesIdle
  /\ part # "web" => WebIdle

MCNext ==
  /\ \/ part = "budget" /\ Next /\ UNCHANGED <<sliceVars, limitsVars, responsesVars, webVars>>
     \/ part = "slices" /\ SliceNext /\ UNCHANGED <<vars, limitsVars, responsesVars, webVars>>
     \/ part = "limits" /\ LimitsNext /\ UNCHANGED <<vars, sliceVars, responsesVars, webVars>>
     \/ part = "responses" /\ ResponsesNext /\ UNCHANGED <<vars, sliceVars, limitsVars, webVars>>
     \/ part = "web" /\ WebNext /\ UNCHANGED <<vars, sliceVars, limitsVars, responsesVars>>
  /\ UNCHANGED part

MCSpec == MCInit /\ [][MCNext]_<<vars, sliceVars, limitsVars, responsesVars, webVars, part>>
============================================================================
