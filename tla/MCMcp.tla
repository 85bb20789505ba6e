------------------------------- MODULE MCMcp -------------------------------
(***************************************************************************)
(* Small instances of the MCP manager and of the stream that carries a       *)
(* server's messages.  They share no state (the manager sees a session that  *)
(* ends), and one run checks both: part says which one moves.                *)
(***************************************************************************)
EXTENDS McpManager, ResumableStream

VARIABLE part

Scenario(ops, offers, ends, calls, sends, with) ==
  [op |-> ops, offer |-> offers, end |-> ends, call |-> calls, send |-> sends,
   watch |-> "watch" \in with, close |-> "close" \in with]

(* Two operations against each other and against a close; one against the end  *)
(* of its session, a tool call and a notification; one with the application    *)
(* watching. *)
MCBudgets ==
  {Scenario(2, 0, 0, 0, 0, {"close"}),
   Scenario(1, 1, 1, 1, 0, {}), Scenario(1, 0, 1, 1, 0, {"close"}),
   Scenario(1, 1, 0, 0, 0, {"watch", "close"})}

MCInit ==
  /\ part \in {"manager", "stream"}
  /\ Init /\ StreamInit
  /\ part # "manager" => left = CHOOSE b \in Budgets : TRUE
  /\ part # "stream" => withIds

MCNext ==
  /\ \/ part = "manager" /\ Next /\ UNCHANGED streamVars
     \/ part = "stream" /\ StreamNext /\ UNCHANGED vars
  /\ UNCHANGED part

MCFairSpec ==
  /\ MCInit /\ [][MCNext]_<<vars, streamVars, part>>
  /\ (\A c \in Callers : WF_vars(Step(c))) /\ WF_vars(Background)
============================================================================
