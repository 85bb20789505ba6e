------------------------------ MODULE MCSession ------------------------------
(***************************************************************************)
(* Small instances of the two sides of a session's log: the store, whose     *)
(* writes may stop in the middle of a line, and the runtime, which decides   *)
(* what is appended and when.  The runtime sees the store as an append that  *)
(* keeps what DurableLog promises: they share no state, and one run checks   *)
(* both.  part says which one moves.                                         *)
(***************************************************************************)
EXTENDS MCSessionStore, SessionRuntime

VARIABLE part

\* Background agents write between requests, beside a batch and before Sync takes the lock.
MCBetween == {"idle", "batch", "sync"}

MCInit ==
  /\ part \in {"store", "runtime"}
  /\ Init /\ RuntimeInit
  /\ part # "store" => legacy = 0

\* The bounds end the behaviours of the store; the runtime has to go on.
MCNext ==
  /\ \/ part = "store" /\ (Next \/ UNCHANGED vars) /\ UNCHANGED runtimeVars
     \/ part = "runtime" /\ RuntimeNext /\ UNCHANGED vars
  /\ UNCHANGED part

MCSpec == MCInit /\ [][MCNext]_<<vars, runtimeVars, part>>
=============================================================================
