------------------------------- MODULE MCTools -------------------------------
(***************************************************************************)
(* Small instances of a batch of tool calls, and of the coordinator that the *)
(* executors of a session share.  A batch sees the coordinator as a wait of  *)
(* its calls, and the coordinator sees batches as callers: they share no     *)
(* state, and one run checks both.  part says which one moves.               *)
(***************************************************************************)
EXTENDS ToolBatch, ResourceCoordinator

CONSTANTS p, q     \* the files of a batch

VARIABLE part

-----------------------------------------------------------------------------
(* The batches of a response.                                               *)
Reads(path)  == [exclusive |-> FALSE, path |-> path, effect |-> FALSE, reports |-> FALSE]
Changes(path) == [Reads(path) EXCEPT !.effect = TRUE]
Searches == Reads(NoPath)
Bash     == [Changes(NoPath) EXCEPT !.exclusive = TRUE]
Asks     == [Searches EXCEPT !.exclusive = TRUE, !.reports = TRUE]
HostTool == [Bash EXCEPT !.reports = TRUE]

MCBatches == {<<Changes(p), Changes(q), Changes(p)>>, <<Changes(p), Asks, Searches>>,
              <<Reads(p), Bash, Changes(p)>>, <<HostTool, Changes(q), Searches>>}

-----------------------------------------------------------------------------
(* A workspace w with a file f and a directory d holding a file g.          *)
MCWorkspace == {<<"w">>, <<"w", "f">>, <<"w", "d">>, <<"w", "d", "g">>}
MCName == {"w", "f", "d", "g"}

claim(kind, path, access) == [kind |-> kind, path |-> path, access |-> access]
claimed(claims) == [mode |-> "claimed", claims |-> claims]

\* A write of a file, a read of the whole tree (search, a read-only command), a
\* write of the inner tree, a claim that cannot be read (so an exclusive call)
\* and a tool without claims.
MCSubmitted ==
  { claimed({claim("file", <<"w", "f">>, "write")}),
    claimed({claim("tree", <<"w">>, "read")}),
    claimed({claim("tree", <<"w", "d">>, "write")}),
    claimed({claim("file", <<>>, "read")}),
    Shared }

-----------------------------------------------------------------------------
MCInit ==
  /\ part \in {"batch", "coordinator"}
  /\ BatchInit /\ CoordinatorInit
  /\ part # "batch" => calls = <<HostTool, Changes(q), Searches>>

MCNext ==
  /\ \/ part = "batch" /\ BatchNext /\ UNCHANGED coordinatorVars
     \/ part = "coordinator" /\ CoordinatorNext /\ UNCHANGED batchVars
  /\ UNCHANGED part

\* The fairness of BatchFairSpec, where there is a batch, and of CoordinatorFairSpec.
MCFairSpec ==
  /\ MCInit /\ [][MCNext]_<<batchVars, coordinatorVars, part>>
  /\ WF_batchVars(part = "batch" /\ UNCHANGED calls /\ (Preflight \/ Schedule))
  /\ \A i \in Call : WF_batchVars(UNCHANGED calls /\ Execute(i))
  /\ \A c \in Caller : /\ WF_coordinatorVars(LookAgain(c)) /\ WF_coordinatorVars(GiveUp(c))
                       /\ WF_coordinatorVars(ReleaseClaim(c))

\* executeBatch returns: a batch whose tools return is over at some time, with a result
\* for every call.
BatchesReturn == part = "batch" => BatchReturns
=============================================================================
