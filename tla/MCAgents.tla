------------------------------ MODULE MCAgents ------------------------------
(***************************************************************************)
(* Small instances of the subagent tasks, of the terminal's operations and   *)
(* of its panel of an agent.  The three share no state, and one run checks   *)
(* them: part says which one moves.                                          *)
(***************************************************************************)
EXTENDS AgentTasks, TerminalUI, AgentView

VARIABLE part

NoUse == [tasks |-> 1, prompts |-> 0, stop |-> 0, watch |-> 0, close |-> 0, fail |-> 0,
          timeout |-> 0, ask |-> 0, notice |-> 0, sync |-> 0, crash |-> 0]

\* Tasks that share the slot, a stopped task that is continued, approvals with a
\* subscriber that comes and goes, a close in the middle, the session's end and its
\* next process.
MCTaskBudgets ==
  { [NoUse EXCEPT !.tasks = 2, !.prompts = 3, !.stop = 1],
    [NoUse EXCEPT !.prompts = 3, !.stop = 2, !.fail = 1, !.notice = 1],
    [NoUse EXCEPT !.tasks = 2, !.prompts = 2, !.ask = 2, !.watch = 1],
    [NoUse EXCEPT !.prompts = 2, !.ask = 1, !.stop = 1, !.timeout = 1],
    [NoUse EXCEPT !.tasks = 2, !.prompts = 3, !.close = 1],
    [NoUse EXCEPT !.prompts = 2, !.ask = 1, !.close = 1],
    [NoUse EXCEPT !.prompts = 2, !.sync = 2, !.notice = 3, !.crash = 1],
    [NoUse EXCEPT !.tasks = 2, !.prompts = 2, !.sync = 1, !.notice = 2, !.crash = 1] }

Nothing == [mode |-> "auto", request |-> 1, compact |-> 0, emits |-> 0, questions |-> 0,
            modes |-> 0, saveErrors |-> 0, interrupts |-> 0, lookups |-> 0, agentAsks |-> 0,
            stops |-> 0, ends |-> 0, checkErrors |-> 0]

\* Questions and cancellation beside an agent's approval; two requests beside a
\* lookup; plans, modes that cannot be saved and a compaction; agents that ask, are
\* stopped and end; a mode change, a cancellation and an agent that ends.
MCBudgets ==
  { Nothing,
    [Nothing EXCEPT !.emits = 2, !.questions = 2, !.interrupts = 1, !.agentAsks = 1],
    [Nothing EXCEPT !.request = 2, !.emits = 2, !.questions = 1, !.interrupts = 1, !.lookups = 1],
    [Nothing EXCEPT !.mode = "plan", !.request = 2, !.emits = 1, !.modes = 1, !.saveErrors = 1,
                    !.compact = 1],
    [Nothing EXCEPT !.agentAsks = 2, !.stops = 1, !.ends = 1, !.checkErrors = 1],
    [Nothing EXCEPT !.modes = 1, !.ends = 1, !.interrupts = 1] }

MCInit ==
  /\ part \in {"tasks", "operations", "panel"}
  /\ TasksInit /\ Init /\ ViewInit
  /\ part # "tasks" => rest = CHOOSE b \in TaskBudgets : TRUE
  /\ part # "operations" => left = Nothing

MCNext ==
  /\ \/ part = "tasks" /\ TasksNext /\ UNCHANGED <<vars, viewVars>>
     \/ part = "operations" /\ Next /\ UNCHANGED <<taskVars, viewVars>>
     \/ part = "panel" /\ ViewNext /\ UNCHANGED <<taskVars, vars>>
  /\ UNCHANGED part

\* The fairness of TasksFairSpec, and of the terminal's FairSpec.
MCFairSpec ==
  /\ MCInit /\ [][MCNext]_<<taskVars, vars, viewVars, part>>
  /\ \A w \in Tasks \X (1..3) : /\ WF_taskVars(w \in DOMAIN workers /\ Work(w))
                                /\ WF_taskVars(w \in DOMAIN workers /\ GiveUp(w))
  /\ WF_taskVars(ReceiveEvent) /\ WF_taskVars(Resolved) /\ WF_taskVars(CloseReturns)
  /\ \A o \in Operations : WF_vars(WorkerReturns(o))
=============================================================================
