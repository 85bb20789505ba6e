---------------------------- MODULE AgentsProofs ----------------------------
(* The subagent tasks and the terminal's operations, which share no state.    *)
(*                                                                            *)
(* First, that what the parent is told of its subagents is true, for any      *)
(* number of tasks and slots and any budget of operations. The invariant      *)
(* behind it says more than TasksAreHonest: which worker an active task is in *)
(* the hands of, where each prompt is that no runner has been given, and that *)
(* every outcome in a conversation, appended, handed out, exported or written,*)
(* is one its task has marked as told.                                        *)
(*                                                                            *)
(* Then, that the terminal keeps the operation that runs in hand, for any     *)
(* number of operations and any scenario: whoever asks is that operation.     *)
EXTENDS AgentTasks, TerminalUI, FiniteSetTheorems, SequenceTheorems, TLAPS

Statuses == Active \union Terminal \union {"none", "gone"}
TaskRecords == [st : Statuses, epoch : Nat, queue : Seq(Nat), rev : Nat, told : Nat, readOnly : BOOLEAN]
WorkerNames == Tasks \X Nat
Places == {"top", "acquire", "take", "turn", "asking", "asked", "finish"}
WorkerRecords == [pc : Places, ctx : WorkerNames, prompt : Nat, res : Terminal \union {"none"}]

\* A turn that ends has an outcome.
WorkersTyped ==
  /\ DOMAIN workers \subseteq WorkerNames
  /\ workers \in [DOMAIN workers -> WorkerRecords]
  /\ \A w \in DOMAIN workers : workers[w].pc = "finish" => workers[w].res \in Terminal

TasksTyped ==
  /\ task \in [Tasks -> TaskRecords]
  /\ WorkersTyped
  /\ line \in Seq(WorkerNames)
  /\ resolving \in WorkerNames \union {NoTask}
  /\ given \in [Tasks -> SUBSET Nat]
  /\ DOMAIN durable.tasks \subseteq Tasks
  /\ \A t \in DOMAIN durable.tasks : durable.tasks[t] \in [st : Terminal, rev : Nat, told : Nat]
  /\ rest \in [Uses -> Nat]

\* The places from which a worker still ends the turn it is on. A worker before them
\* goes away when it finds the queue empty, so it holds the task only while it is not.
Engaged == {"turn", "asking", "asked", "finish"}
HandsOn(t) == \E w \in DOMAIN workers : w[1] = t /\ (task[t].queue # <<>> \/ workers[w].pc \in Engaged)
TasksAreServed ==
  \A t \in Tasks :
    /\ task[t].st \in Active => HandsOn(t)
    /\ task[t].st = "waiting_approval" => resolving # NoTask /\ resolving[1] = t

\* A task may have several workers and the queue be emptied by any of them: a prompt
\* that no runner was given is in the queue all the same.
Queued(t, p) == \E i \in DOMAIN task[t].queue : task[t].queue[i] = p
PromptsAreKept ==
  \A t \in Tasks : ~ task[t].readOnly =>
    /\ task[t].st \in Active => \A p \in given[t] : p \in taken \/ Queued(t, p)
    /\ task[t].st = "completed" => given[t] \subseteq taken

\* A notice <<t, r>> is known when task t has marked revision r as told; a task whose
\* process ended without it being saved ends no more.
Known(n) == task[n[1]].st # "none" /\ (task[n[1]].st = "gone" \/ n[2] <= task[n[1]].told)
Heard(s) == s \in Seq(WorkerNames) /\ IsInjective(s) /\ \A i \in DOMAIN s : Known(s[i])
NoticesAreKnown ==
  /\ Heard(turns)
  /\ carry \subseteq WorkerNames /\ IsFiniteSet(carry)
  /\ \A n \in carry : Known(n) /\ \A i \in DOMAIN turns : turns[i] # n
  /\ syncing # NoTask => Heard(syncing[1])
\* The snapshot's turns and its tasks were not taken at one moment; the turns were first.
SavedNotices ==
  /\ durable.turns \in Seq(WorkerNames) /\ IsInjective(durable.turns)
  /\ \A i \in DOMAIN durable.turns :
       LET n == durable.turns[i] IN
         /\ task[n[1]].st # "none"
         /\ n[1] \in DOMAIN durable.tasks => n[2] <= durable.tasks[n[1]].told

HonestInv ==
  TasksTyped /\ TasksAreServed /\ PromptsAreKept /\ NoticesAreKnown /\ SavedNotices

-----------------------------------------------------------------------------
(* Types.                                                                     *)

LEMMA TasksBeginTyped == TasksInit => TasksTyped
  BY TasksAssumption DEF TasksInit, TasksTyped, WorkersTyped, TaskRecords, Statuses, WorkerRecords, WorkerNames,
     Absent, NoTask

\* Every field of a task record may be given another value of its type.
LEMMA OneFieldIsSet ==
  ASSUME NEW k \in TaskRecords
  PROVE  /\ \A st \in Statuses : [k EXCEPT !.st = st] \in TaskRecords
         /\ \A e \in Nat : [k EXCEPT !.epoch = e] \in TaskRecords
         /\ \A q \in Seq(Nat) : [k EXCEPT !.queue = q] \in TaskRecords
         /\ \A r \in Nat : [k EXCEPT !.rev = r] \in TaskRecords
         /\ \A r \in Nat : [k EXCEPT !.told = r] \in TaskRecords
  BY DEF TaskRecords

LEMMA EndedIsATask ==
  ASSUME NEW k \in TaskRecords, NEW st \in Terminal
  PROVE  /\ Ended(k, st) \in TaskRecords
         /\ Ended(k, st).st = st /\ Ended(k, st).queue = <<>>
         /\ Ended(k, st).told = k.told /\ Ended(k, st).readOnly = k.readOnly
<1> DEFINE a == [k EXCEPT !.st = st]
           b == [a EXCEPT !.queue = <<>>]
           c == [b EXCEPT !.rev = k.rev + 1]
<1>1. <<>> \in Seq(Nat) /\ k.rev + 1 \in Nat /\ st \in Statuses
  BY DEF TaskRecords, Statuses
<1>2. a \in TaskRecords
  BY <1>1, OneFieldIsSet
<1>3. b \in TaskRecords
  BY <1>1, <1>2, OneFieldIsSet
<1>4. c \in TaskRecords
  BY <1>1, <1>3, OneFieldIsSet
<1>5. Ended(k, st) = c
  BY DEF Ended, TaskRecords
<1>6. c.st = st /\ c.queue = <<>> /\ c.told = k.told /\ c.readOnly = k.readOnly
  BY DEF TaskRecords
<1> HIDE DEF c
<1> QED
  BY <1>4, <1>5, <1>6

LEMMA FinishTurnIsATask ==
  ASSUME task \in [Tasks -> TaskRecords], NEW t \in Tasks, NEW res \in Terminal
  PROVE  /\ FinishTurn(t, res) \in TaskRecords
         /\ FinishTurn(t, res).told = task[t].told
         /\ FinishTurn(t, res).readOnly = task[t].readOnly
         /\ task[t].st \notin Active => FinishTurn(t, res) = task[t]
         /\ FinishTurn(t, res).st \in Active =>
              res = "completed" /\ FinishTurn(t, res).queue # <<>> /\ FinishTurn(t, res).queue = task[t].queue
                /\ FinishTurn(t, res).st = "queued" /\ task[t].st \in Active
         /\ task[t].st \in Active /\ FinishTurn(t, res).st \notin Active =>
              FinishTurn(t, res).st = res /\ (res = "completed" => task[t].queue = <<>>)
<1> DEFINE q == [task[t] EXCEPT !.st = "queued"]
           e == Ended(task[t], res)
<1>1. q \in TaskRecords /\ q.told = task[t].told /\ q.readOnly = task[t].readOnly /\ q.queue = task[t].queue /\ q.st = "queued"
  <2>1. q \in TaskRecords
    BY OneFieldIsSet DEF Statuses, Active
  <2> QED
    BY <2>1 DEF TaskRecords
<1>2. e \in TaskRecords /\ e.told = task[t].told /\ e.readOnly = task[t].readOnly /\ e.st = res
  BY EndedIsATask
<1>3. FinishTurn(t, res) = IF task[t].st \notin Active THEN task[t]
                           ELSE IF res = "completed" /\ task[t].queue # <<>> THEN q ELSE e
  BY DEF FinishTurn
<1>4. "queued" \in Active /\ res \notin Active
  BY DEF Active, Terminal
<1> HIDE DEF q, e
<1> QED
  BY <1>1, <1>2, <1>3, <1>4

-----------------------------------------------------------------------------
(* What each operation does to the task it is about.                          *)

\* The task is there if it was, and remembers what it has told.
KeepsNews(k, o) ==
  /\ k \in TaskRecords
  /\ k.told = o.told \/ k.told > o.told
  /\ k.readOnly = o.readOnly
  /\ o.st # "none" => k.st # "none"
  /\ o.st = "gone" => k.st = "gone"

LEMMA PromptsLeft ==
  ASSUME TasksTyped
  PROVE  rest.prompts \in Nat
  BY DEF TasksTyped, Uses

LEMMA LaunchStep ==
  ASSUME TasksTyped, NEW t \in Tasks, Launch(t)
  PROVE  \E k \in TaskRecords, p \in Nat :
           /\ task' = [task EXCEPT ![t] = k] /\ KeepsNews(k, task[t])
           /\ k.st = "queued" /\ k.queue = <<p>>
           /\ workers' = StartTask(<<t, 1>>) /\ given' = [given EXCEPT ![t] = {p}]
<1> DEFINE p == rest.prompts
           a == [task[t] EXCEPT !.st = "queued"]
           b == [a EXCEPT !.epoch = 1]
           k == [b EXCEPT !.queue = <<p>>]
<1>1. p \in Nat
  BY PromptsLeft
<1>2. task[t] \in TaskRecords /\ task \in [Tasks -> TaskRecords]
  BY DEF TasksTyped
<1>3. a \in TaskRecords
  BY <1>2, OneFieldIsSet DEF Statuses, Active
<1>4. b \in TaskRecords
  BY <1>3, OneFieldIsSet
<1>5. k \in TaskRecords
  <2>1. <<p>> \in Seq(Nat)
    BY <1>1
  <2> QED
    BY <1>4, <2>1, OneFieldIsSet
<1>6. task' = [task EXCEPT ![t] = k]
  BY <1>2 DEF Launch
<1>7. KeepsNews(k, task[t]) /\ k.st = "queued" /\ k.queue = <<p>>
  <2>1. k.told = task[t].told /\ k.readOnly = task[t].readOnly /\ k.st = "queued" /\ k.queue = <<p>>
    BY <1>2 DEF TaskRecords
  <2>2. task[t].st = "none"
    BY DEF Launch
  <2> QED
    BY <1>5, <2>1, <2>2 DEF KeepsNews
<1>8. workers' = StartTask(<<t, 1>>) /\ given' = [given EXCEPT ![t] = {p}]
  BY DEF Launch
<1> HIDE DEF p, k
<1> QED
  BY <1>1, <1>5, <1>6, <1>7, <1>8

\* A follow-up: the prompt goes to the end of the queue, and a task that had ended
\* gets a worker.
Continued(t, k, p, e) ==
  /\ task' = [task EXCEPT ![t] = k] /\ KeepsNews(k, task[t])
  /\ k.queue = Append(task[t].queue, p)
  /\ k.st \in Active
  /\ \/ /\ task[t].st \in Terminal /\ workers' = StartTask(<<t, e>>)
        /\ k.st = "queued" /\ given' = [given EXCEPT ![t] = {p}]
     \/ /\ task[t].st \in Active /\ UNCHANGED workers
        /\ k.st = task[t].st /\ given' = [given EXCEPT ![t] = @ \union {p}]

LEMMA ContinueStep ==
  ASSUME TasksTyped, NEW t \in Tasks, Continue(t)
  PROVE  \E k \in TaskRecords, p \in Nat, e \in Nat : Continued(t, k, p, e)
<1> DEFINE p == rest.prompts
           e == task[t].epoch + 1
           q == Append(task[t].queue, p)
<1>1. p \in Nat
  BY PromptsLeft
<1>2. task[t] \in TaskRecords /\ task \in [Tasks -> TaskRecords]
  BY DEF TasksTyped
<1>3. e \in Nat /\ q \in Seq(Nat)
  BY <1>1, <1>2 DEF TaskRecords
<1>4. task[t].st \in Active \union Terminal /\ task[t].st # "gone"
  BY DEF Continue, Active, Terminal
<1>5. CASE task[t].st \in Terminal
  <2> DEFINE a == [task[t] EXCEPT !.st = "queued"]
             b == [a EXCEPT !.epoch = e]
             k == [b EXCEPT !.queue = q]
  <2>1. a \in TaskRecords
    BY <1>2, OneFieldIsSet DEF Statuses, Active
  <2>2. b \in TaskRecords
    BY <2>1, <1>3, OneFieldIsSet
  <2>3. k \in TaskRecords
    BY <2>2, <1>3, OneFieldIsSet
  <2>4. task' = [task EXCEPT ![t] = k]
    BY <1>2, <1>5 DEF Continue
  <2>5. k.told = task[t].told /\ k.readOnly = task[t].readOnly /\ k.st = "queued" /\ k.queue = q
    BY <1>2 DEF TaskRecords
  <2>6. workers' = StartTask(<<t, e>>) /\ given' = [given EXCEPT ![t] = {p}]
    BY <1>5 DEF Continue
  <2>7. k.st \in Active /\ KeepsNews(k, task[t])
    BY <2>3, <2>5, <1>4 DEF KeepsNews, Active
  <2> HIDE DEF p, e, k
  <2> QED
    BY <1>1, <1>3, <1>5, <2>3, <2>4, <2>5, <2>6, <2>7 DEF Continued
<1>6. CASE task[t].st \notin Terminal
  <2> DEFINE k == [task[t] EXCEPT !.queue = q]
  <2>1. k \in TaskRecords
    BY <1>2, <1>3, OneFieldIsSet
  <2>2. task' = [task EXCEPT ![t] = k]
    BY <1>2, <1>6 DEF Continue
  <2>3. k.told = task[t].told /\ k.readOnly = task[t].readOnly /\ k.st = task[t].st /\ k.queue = q
    BY <1>2 DEF TaskRecords
  <2>4. UNCHANGED workers /\ given' = [given EXCEPT ![t] = @ \union {p}]
    BY <1>6 DEF Continue
  <2>5. KeepsNews(k, task[t])
    BY <2>1, <2>3 DEF KeepsNews
  <2> HIDE DEF p, e, k
  <2> QED
    BY <1>1, <1>3, <1>4, <1>6, <2>1, <2>2, <2>3, <2>4, <2>5 DEF Continued
<1> QED
  BY <1>5, <1>6

LEMMA EndedStep ==
  ASSUME TasksTyped, NEW t \in Tasks, task[t].st \in Active, NEW st \in Terminal
  PROVE  /\ KeepsNews(Ended(task[t], st), task[t])
         /\ Ended(task[t], st).st = st /\ Ended(task[t], st).queue = <<>>
<1>1. task[t] \in TaskRecords
  BY DEF TasksTyped
<1>2. task[t].st # "gone" /\ st # "none"
  BY DEF Active, Terminal
<1> QED
  BY <1>1, <1>2, EndedIsATask DEF KeepsNews

LEMMA FinishTurnStep ==
  ASSUME TasksTyped, NEW t \in Tasks, NEW res \in Terminal
  PROVE  KeepsNews(FinishTurn(t, res), task[t])
<1>1. task \in [Tasks -> TaskRecords] /\ task[t] \in TaskRecords
  BY DEF TasksTyped
<1>2. CASE task[t].st \notin Active
  BY <1>1, <1>2, FinishTurnIsATask DEF KeepsNews
<1>3. CASE task[t].st \in Active
  <2>1. task[t].st # "gone"
    BY <1>3 DEF Active
  <2>2. FinishTurn(t, res).st # "none"
    BY <1>1, <1>3, FinishTurnIsATask DEF Active, Terminal
  <2> QED
    BY <1>1, <2>1, <2>2, FinishTurnIsATask DEF KeepsNews
<1> QED
  BY <1>2, <1>3

LEMMA TakeStep ==
  ASSUME TasksTyped, NEW w \in DOMAIN workers, Take(w), ~ NothingToDo(w[1])
  PROVE  \E k \in TaskRecords :
           /\ task' = [task EXCEPT ![w[1]] = k] /\ KeepsNews(k, task[w[1]])
           /\ k.st = "running" /\ k.queue = Tail(task[w[1]].queue)
           /\ workers' = [workers EXCEPT ![w].pc = "turn", ![w].prompt = Head(task[w[1]].queue)]
           /\ taken' = taken \union {Head(task[w[1]].queue)}
           /\ w[1] \in Tasks /\ task[w[1]].queue # <<>> /\ Head(task[w[1]].queue) \in Nat
<1> DEFINE t == w[1]
           a == [task[t] EXCEPT !.st = "running"]
           k == [a EXCEPT !.queue = Tail(task[t].queue)]
<1>1. t \in Tasks /\ task[t] \in TaskRecords /\ task \in [Tasks -> TaskRecords]
  BY DEF TasksTyped, WorkersTyped, WorkerNames
<1>2. task[t].st \in Active /\ task[t].queue # <<>>
  BY DEF NothingToDo
<1>3. Tail(task[t].queue) \in Seq(Nat) /\ Head(task[t].queue) \in Nat
  BY <1>1, <1>2 DEF TaskRecords
<1>4. a \in TaskRecords
  BY <1>1, OneFieldIsSet DEF Statuses, Active
<1>5. k \in TaskRecords
  BY <1>3, <1>4, OneFieldIsSet
<1>6. task' = [task EXCEPT ![t] = k]
  BY <1>1, <1>2 DEF Take, NothingToDo
<1>7. k.told = task[t].told /\ k.readOnly = task[t].readOnly /\ k.st = "running"
        /\ k.queue = Tail(task[t].queue)
  BY <1>1 DEF TaskRecords
<1>8. KeepsNews(k, task[t])
  BY <1>2, <1>5, <1>7 DEF KeepsNews, Active
<1>9. /\ workers' = [workers EXCEPT ![w].pc = "turn", ![w].prompt = Head(task[t].queue)]
      /\ taken' = taken \union {Head(task[t].queue)}
  BY <1>1, <1>2 DEF Take, NothingToDo
<1> HIDE DEF k
<1> QED
  BY <1>1, <1>2, <1>3, <1>5, <1>6, <1>7, <1>8, <1>9

\* Mark, of the two ends of an approval.
LEMMA MarkStep ==
  ASSUME TasksTyped, NEW t \in Tasks, NEW st \in {"waiting_approval", "running"},
         task' = Mark(t, st)
  PROVE  \/ task' = task /\ task[t].st \notin Active
         \/ /\ task[t].st \in Active
            /\ \E k \in TaskRecords :
                 /\ task' = [task EXCEPT ![t] = k] /\ KeepsNews(k, task[t])
                 /\ k.st = st /\ k.queue = task[t].queue
<1> DEFINE k == [task[t] EXCEPT !.st = st]
<1>1. task[t] \in TaskRecords /\ task \in [Tasks -> TaskRecords]
  BY DEF TasksTyped
<1>2. k \in TaskRecords
  BY <1>1, OneFieldIsSet DEF Statuses, Active
<1>3. k.told = task[t].told /\ k.readOnly = task[t].readOnly /\ k.st = st /\ k.queue = task[t].queue
  BY <1>1 DEF TaskRecords
<1>4. CASE task[t].st \in Active
  <2>1. task' = [task EXCEPT ![t] = k]
    BY <1>1, <1>4 DEF Mark
  <2>2. KeepsNews(k, task[t])
    BY <1>2, <1>3, <1>4 DEF KeepsNews, Active
  <2> HIDE DEF k
  <2> QED
    BY <1>2, <1>3, <1>4, <2>1, <2>2
<1>5. CASE task[t].st \notin Active
  BY <1>5 DEF Mark
<1> QED
  BY <1>4, <1>5

\* No operation of the manager touches what the parent was told.
NewsKept == task' \in [Tasks -> TaskRecords] /\ \A s \in Tasks : KeepsNews(task'[s], task[s])

LEMMA OneTaskMoves ==
  ASSUME TasksTyped, NEW t \in Tasks, NEW k, KeepsNews(k, task[t]), task' = [task EXCEPT ![t] = k]
  PROVE  NewsKept
<1>1. k \in TaskRecords /\ task \in [Tasks -> TaskRecords]
  BY DEF KeepsNews, TasksTyped
<1>2. task' \in [Tasks -> TaskRecords] /\ task'[t] = k /\ \A s \in Tasks : s # t => task'[s] = task[s]
  BY <1>1
<1>3. \A s \in Tasks : KeepsNews(task[s], task[s])
  BY <1>1 DEF KeepsNews
<1>4. ASSUME NEW s \in Tasks PROVE KeepsNews(task'[s], task[s])
  BY <1>2, <1>3
<1> QED
  BY <1>2, <1>4 DEF NewsKept

LEMMA NoTaskMoves ==
  ASSUME TasksTyped, task' = task
  PROVE  NewsKept
  BY DEF TasksTyped, NewsKept, KeepsNews

ManagerStep ==
  \/ \E t \in Tasks : Launch(t) \/ Continue(t) \/ Stop(t)
  \/ Watch \/ Close \/ CloseReturns
  \/ \E w \in DOMAIN workers : Work(w) \/ Ask(w) \/ GiveUp(w)
  \/ ReceiveEvent \/ Resolved

LEMMA ManagerKeepsNews ==
  ASSUME TasksTyped, ManagerStep
  PROVE  NewsKept /\ UNCHANGED parent
<1>1. UNCHANGED parent
  BY DEF ManagerStep, Launch, Continue, Stop, Watch, Close, CloseReturns, Work, Ask, GiveUp, Top,
     Acquire, AcquireCancelled, Take, TurnEnds, FinishTask, ReceiveEvent, Resolved, parent
<1>2. ASSUME NEW t \in Tasks, Launch(t) PROVE NewsKept
  BY <1>2, LaunchStep, OneTaskMoves
<1>3. ASSUME NEW t \in Tasks, Continue(t) PROVE NewsKept
  BY <1>3, ContinueStep, OneTaskMoves DEF Continued
<1>4. ASSUME NEW t \in Tasks, Stop(t) PROVE NewsKept
  <2>1. task[t].st \in Active /\ task' = [task EXCEPT ![t] = Ended(task[t], "cancelled")]
    BY <1>4 DEF Stop, TasksTyped
  <2> QED
    BY <2>1, EndedStep, OneTaskMoves DEF Terminal
<1>5. ASSUME Close PROVE NewsKept
  <2>1. \A s \in Tasks : KeepsNews(task[s], task[s])
    BY DEF KeepsNews, TasksTyped
  <2>2. \A s \in Tasks : task[s].st \in Active => KeepsNews(Ended(task[s], "cancelled"), task[s])
    BY EndedStep DEF Terminal
  <2>3. task' = [s \in Tasks |-> IF task[s].st \in Active THEN Ended(task[s], "cancelled") ELSE task[s]]
    BY <1>5 DEF Close
  <2>4. \A s \in Tasks : KeepsNews(task'[s], task[s])
    BY <2>1, <2>2, <2>3
  <2>5. task' \in [Tasks -> TaskRecords]
    BY <2>1, <2>2, <2>3 DEF KeepsNews
  <2> QED
    BY <2>4, <2>5 DEF NewsKept
<1>6. ASSUME Watch \/ CloseReturns PROVE NewsKept
  BY <1>6, NoTaskMoves DEF Watch, CloseReturns
<1>7. ASSUME NEW w \in DOMAIN workers, Top(w) \/ Acquire(w) \/ TurnEnds(w) \/ Ask(w) \/ GiveUp(w)
      PROVE  NewsKept
  BY <1>7, NoTaskMoves DEF Top, Acquire, TurnEnds, Ask, GiveUp
<1>8. \A w \in DOMAIN workers : w[1] \in Tasks
  BY DEF TasksTyped, WorkersTyped, WorkerNames
<1>9. ASSUME NEW w \in DOMAIN workers, AcquireCancelled(w) PROVE NewsKept
  <2>1. task' = [task EXCEPT ![w[1]] = FinishTurn(w[1], "cancelled")]
    BY <1>9 DEF AcquireCancelled
  <2> QED
    BY <1>8, <2>1, FinishTurnStep, OneTaskMoves DEF Terminal
<1>10. ASSUME NEW w \in DOMAIN workers, Take(w) PROVE NewsKept
  <2>1. CASE NothingToDo(w[1])
    BY <1>10, <2>1, NoTaskMoves DEF Take
  <2>2. CASE ~ NothingToDo(w[1])
    BY <1>10, <2>2, TakeStep, OneTaskMoves
  <2> QED
    BY <2>1, <2>2
<1>11. ASSUME NEW w \in DOMAIN workers, FinishTask(w) PROVE NewsKept
  <2>1. task' = [task EXCEPT ![w[1]] = FinishTurn(w[1], workers[w].res)] /\ workers[w].pc = "finish"
    BY <1>11 DEF FinishTask, At
  <2>2. workers[w].res \in Terminal
    BY <2>1 DEF TasksTyped, WorkersTyped
  <2> QED
    BY <1>8, <2>1, <2>2, FinishTurnStep, OneTaskMoves
<1>12. ASSUME ReceiveEvent PROVE NewsKept
  <2>1. line \in Seq(WorkerNames) /\ line # <<>>
    BY <1>12 DEF ReceiveEvent, TasksTyped
  <2>2. Head(line) \in WorkerNames
    BY <2>1
  <2>3. Head(line)[1] \in Tasks
    BY <2>2 DEF WorkerNames
  <2>4. task' = Mark(Head(line)[1], "waiting_approval")
    BY <1>12 DEF ReceiveEvent
  <2> QED
    BY <2>3, <2>4, MarkStep, OneTaskMoves, NoTaskMoves
<1>13. ASSUME Resolved PROVE NewsKept
  <2>1. resolving[1] \in Tasks /\ task' = Mark(resolving[1], "running")
    BY <1>13 DEF Resolved, TasksTyped, WorkerNames
  <2> QED
    BY <2>1, MarkStep, OneTaskMoves, NoTaskMoves
<1> QED
  BY <1>1, <1>2, <1>3, <1>4, <1>5, <1>6, <1>7, <1>9, <1>10, <1>11, <1>12, <1>13
  DEF ManagerStep, Work

-----------------------------------------------------------------------------
(* The notices: an outcome that is somewhere on its way into a conversation   *)
(* is one that its task has marked as told.                                   *)

LEMMA KnownStaysKnown ==
  ASSUME TasksTyped, NewsKept, NEW n \in WorkerNames, Known(n)
  PROVE  Known(n)'
<1>1. n[1] \in Tasks /\ n[2] \in Nat
  BY DEF WorkerNames
<1>2. KeepsNews(task'[n[1]], task[n[1]])
  BY <1>1 DEF NewsKept
<1>3. task[n[1]].told \in Nat /\ task'[n[1]].told \in Nat
  BY <1>1, <1>2 DEF TasksTyped, TaskRecords, KeepsNews
<1> QED
  BY <1>1, <1>2, <1>3 DEF Known, KeepsNews

LEMMA HeardStaysHeard ==
  ASSUME TasksTyped, NewsKept, NEW s, Heard(s)
  PROVE  s \in Seq(WorkerNames) /\ IsInjective(s) /\ \A i \in DOMAIN s : Known(s[i])'
<1>1. s \in Seq(WorkerNames) /\ IsInjective(s)
  BY DEF Heard
<1>2. ASSUME NEW i \in DOMAIN s PROVE Known(s[i])'
  <2>1. s[i] \in WorkerNames
    BY <1>1
  <2>2. Known(s[i])
    BY DEF Heard
  <2> QED
    BY <2>1, <2>2, KnownStaysKnown
<1> QED
  BY <1>1, <1>2

LEMMA ManagerKeepsNotices ==
  ASSUME TasksTyped, NewsKept, UNCHANGED parent, NoticesAreKnown, SavedNotices
  PROVE  NoticesAreKnown' /\ SavedNotices'
<1>1. turns' = turns /\ carry' = carry /\ syncing' = syncing /\ durable' = durable
  BY DEF parent
<1>2. Heard(turns)'
  BY <1>1, HeardStaysHeard DEF NoticesAreKnown, Heard
<1>3. syncing' # NoTask => Heard(syncing[1])'
  BY <1>1, HeardStaysHeard DEF NoticesAreKnown, Heard
<1>4. \A n \in carry : n \in WorkerNames /\ Known(n)'
  BY KnownStaysKnown DEF NoticesAreKnown
<1>5. NoticesAreKnown'
  BY <1>1, <1>2, <1>3, <1>4 DEF NoticesAreKnown
<1>6. ASSUME NEW i \in DOMAIN durable.turns PROVE task'[durable.turns[i][1]].st # "none"
  <2>1. durable.turns[i] \in WorkerNames
    BY DEF SavedNotices
  <2>2. durable.turns[i][1] \in Tasks
    BY <2>1 DEF WorkerNames
  <2>3. task[durable.turns[i][1]].st # "none"
    BY DEF SavedNotices
  <2> QED
    BY <2>2, <2>3 DEF NewsKept, KeepsNews
<1>7. SavedNotices'
  BY <1>1, <1>6 DEF SavedNotices
<1> QED
  BY <1>5, <1>7

\* What SetToSeq makes of a finite set.
LEMMA SetToSeqListsEachOnce ==
  ASSUME NEW S, IsFiniteSet(S)
  PROVE  /\ SetToSeq(S) \in Seq(S) /\ IsInjective(SetToSeq(S))
<1>1. Cardinality(S) \in Nat /\ ExistsBijection(1..Cardinality(S), S)
  BY FS_CardinalityType
<1>2. PICK f \in Bijection(1..Cardinality(S), S) : TRUE
  BY <1>1 DEF ExistsBijection
<1>3. f \in [1..Cardinality(S) -> S] /\ IsInjective(f)
  BY <1>2 DEF Bijection, Injection, IsInjective
<1>4. SetToSeq(S) \in [1..Cardinality(S) -> S] /\ IsInjective(SetToSeq(S))
  BY <1>3 DEF SetToSeq
<1>5. SetToSeq(S) \in Seq(S)
  BY <1>1, <1>4
<1> QED
  BY <1>4, <1>5

LEMMA AppendKeepsNotices ==
  ASSUME AppendUser, NoticesAreKnown, SavedNotices
  PROVE  NoticesAreKnown' /\ SavedNotices'
<1> DEFINE q == SetToSeq(carry)
<1>1. task' = task /\ syncing' = syncing /\ durable' = durable /\ turns' = turns \o q /\ carry' = {}
  BY DEF AppendUser, manager
<1>2. q \in Seq(carry) /\ IsInjective(q) /\ carry \subseteq WorkerNames
  BY SetToSeqListsEachOnce DEF NoticesAreKnown
<1>3. turns \in Seq(WorkerNames) /\ IsInjective(turns)
  BY DEF NoticesAreKnown, Heard
<1> HIDE DEF q
<1>4. q \in Seq(WorkerNames)
  BY <1>2
<1>5. /\ turns \o q \in Seq(WorkerNames)
      /\ Len(turns \o q) = Len(turns) + Len(q)
      /\ \A i \in 1..(Len(turns) + Len(q)) :
           (turns \o q)[i] = IF i <= Len(turns) THEN turns[i] ELSE q[i - Len(turns)]
  BY <1>3, <1>4
<1>6. \A i \in DOMAIN q : q[i] \in carry
  BY <1>2
<1>7. \A i \in DOMAIN turns : turns[i] \notin carry /\ Known(turns[i])
  BY DEF NoticesAreKnown, Heard
<1>8. \A n \in carry : Known(n)
  BY DEF NoticesAreKnown
<1>9. IsInjective(turns \o q)
  <2> SUFFICES ASSUME NEW i \in 1..(Len(turns) + Len(q)), NEW j \in 1..(Len(turns) + Len(q)),
                      (turns \o q)[i] = (turns \o q)[j]
               PROVE  i = j
    BY <1>5 DEF IsInjective
  <2>1. Len(turns) \in Nat /\ Len(q) \in Nat /\ DOMAIN turns = 1..Len(turns) /\ DOMAIN q = 1..Len(q)
    BY <1>3, <1>4
  <2>2. CASE i <= Len(turns) /\ j <= Len(turns)
    <3>1. turns[i] = turns[j] /\ i \in DOMAIN turns /\ j \in DOMAIN turns
      BY <1>5, <2>1, <2>2
    <3> QED
      BY <3>1, <1>3 DEF IsInjective
  <2>3. CASE i > Len(turns) /\ j > Len(turns)
    <3>1. /\ q[i - Len(turns)] = q[j - Len(turns)]
          /\ i - Len(turns) \in DOMAIN q /\ j - Len(turns) \in DOMAIN q
      BY <1>5, <2>1, <2>3
    <3>2. i - Len(turns) = j - Len(turns)
      BY <3>1, <1>2 DEF IsInjective
    <3> QED
      BY <3>2, <2>1
  <2>4. CASE i <= Len(turns) /\ j > Len(turns)
    <3>1. turns[i] = q[j - Len(turns)] /\ i \in DOMAIN turns /\ j - Len(turns) \in DOMAIN q
      BY <1>5, <2>1, <2>4
    <3> QED
      BY <3>1, <1>6, <1>7
  <2>5. CASE i > Len(turns) /\ j <= Len(turns)
    <3>1. turns[j] = q[i - Len(turns)] /\ j \in DOMAIN turns /\ i - Len(turns) \in DOMAIN q
      BY <1>5, <2>1, <2>5
    <3> QED
      BY <3>1, <1>6, <1>7
  <2> QED
    BY <2>1, <2>2, <2>3, <2>4, <2>5
<1>10. ASSUME NEW i \in DOMAIN (turns \o q) PROVE Known((turns \o q)[i])
  <2>1. (turns \o q)[i] = IF i <= Len(turns) THEN turns[i] ELSE q[i - Len(turns)]
    BY <1>5
  <2>2. CASE i <= Len(turns)
    <3>1. i \in DOMAIN turns
      BY <1>3, <1>5, <2>2
    <3> QED
      BY <1>7, <2>1, <2>2, <3>1
  <2>3. CASE i > Len(turns)
    <3>1. i - Len(turns) \in DOMAIN q
      BY <1>3, <1>4, <1>5, <2>3
    <3> QED
      BY <1>3, <1>5, <1>6, <1>8, <2>1, <2>3, <3>1
  <2> QED
    BY <1>3, <1>5, <2>2, <2>3
<1>11. Heard(turns \o q)
  BY <1>5, <1>9, <1>10 DEF Heard
<1>12. Heard(turns)' /\ (syncing' # NoTask => Heard(syncing[1])')
  BY <1>1, <1>11 DEF Heard, Known, NoticesAreKnown
<1>13. IsFiniteSet({})
  BY FS_EmptySet
<1>14. NoticesAreKnown'
  BY <1>1, <1>12, <1>13 DEF NoticesAreKnown
<1>15. SavedNotices'
  BY <1>1 DEF SavedNotices
<1> QED
  BY <1>14, <1>15

LEMMA PendingKeepsNews ==
  ASSUME TasksTyped, PendingNotifications
  PROVE  /\ NewsKept
         /\ \A t \in Pending : task'[t].told = task[t].rev
         /\ \A t \in Tasks : task'[t].st = task[t].st /\ task'[t].queue = task[t].queue
<1> DEFINE k(t) == [task[t] EXCEPT !.told = task[t].rev]
<1>1. task' = [t \in Tasks |-> IF t \in Pending THEN k(t) ELSE task[t]]
  BY DEF PendingNotifications
<1>2. \A t \in Tasks : task[t] \in TaskRecords /\ task[t].rev \in Nat /\ task[t].told \in Nat
  BY DEF TasksTyped, TaskRecords
<1>3. ASSUME NEW t \in Pending
      PROVE  /\ KeepsNews(k(t), task[t]) /\ k(t).told = task[t].rev
             /\ k(t).st = task[t].st /\ k(t).queue = task[t].queue
  <2>1. t \in Tasks /\ task[t].told < task[t].rev
    BY DEF Pending
  <2>2. k(t) \in TaskRecords
    BY <1>2, <2>1, OneFieldIsSet
  <2>3. /\ k(t).told = task[t].rev /\ k(t).st = task[t].st
        /\ k(t).queue = task[t].queue /\ k(t).readOnly = task[t].readOnly
    BY <1>2, <2>1 DEF TaskRecords
  <2>4. k(t).told > task[t].told
    BY <1>2, <2>1, <2>3
  <2> HIDE DEF k
  <2> QED
    BY <2>2, <2>3, <2>4 DEF KeepsNews
<1> HIDE DEF k
<1>4. \A t \in Tasks : KeepsNews(task[t], task[t])
  BY <1>2 DEF KeepsNews
<1>5. \A t \in Tasks : KeepsNews(task'[t], task[t])
  BY <1>1, <1>3, <1>4
<1>6. task' \in [Tasks -> TaskRecords]
  BY <1>1, <1>3, <1>4 DEF KeepsNews
<1>7. \A t \in Pending : t \in Tasks /\ task'[t].told = task[t].rev
  BY <1>1, <1>3 DEF Pending
<1>8. \A t \in Tasks : task'[t].st = task[t].st /\ task'[t].queue = task[t].queue
  BY <1>1, <1>3
<1> QED
  BY <1>5, <1>6, <1>7, <1>8 DEF NewsKept

LEMMA PendingKeepsNotices ==
  ASSUME TasksTyped, PendingNotifications, NoticesAreKnown, SavedNotices
  PROVE  NoticesAreKnown' /\ SavedNotices'
<1>1. turns' = turns /\ syncing' = syncing /\ durable' = durable /\ carry' = {Notice(t) : t \in Pending}
  BY DEF PendingNotifications
<1>2. NewsKept
  BY PendingKeepsNews
<1>3. Heard(turns)'
  BY <1>1, <1>2, HeardStaysHeard DEF NoticesAreKnown, Heard
<1>4. syncing' # NoTask => Heard(syncing[1])'
  BY <1>1, <1>2, HeardStaysHeard DEF NoticesAreKnown, Heard
<1>5. ASSUME NEW t \in Pending, NEW n, n = Notice(t)
      PROVE  /\ n \in WorkerNames /\ n[1] = t /\ Known(n)'
             /\ \A i \in DOMAIN turns : turns[i] # n
  <2>1. /\ t \in Tasks /\ task[t].st \in Terminal /\ task[t].told < task[t].rev
        /\ task[t].rev \in Nat /\ task[t].told \in Nat
    BY DEF Pending, TasksTyped, TaskRecords
  <2>2. n \in WorkerNames /\ n[1] = t /\ n[2] = task[t].rev
    BY <1>5, <2>1 DEF Notice, WorkerNames
  <2>3. task'[t].told = task[t].rev /\ task'[t].st = task[t].st
    BY <2>1, PendingKeepsNews
  <2>4. task[t].st # "none" /\ task[t].st # "gone"
    BY <2>1 DEF Terminal
  <2>5. task'[n[1]].st # "none" /\ n[2] <= task'[n[1]].told
    BY <2>1, <2>2, <2>3, <2>4
  <2>6. Known(n)'
    BY <2>5 DEF Known
  <2>7. ~ Known(n)
    BY <2>1, <2>2, <2>4 DEF Known
  <2>8. \A i \in DOMAIN turns : turns[i] # n
    BY <2>7 DEF NoticesAreKnown, Heard
  <2> QED
    BY <2>2, <2>6, <2>8
<1>6. ASSUME NEW n \in carry'
      PROVE  n \in WorkerNames /\ n[1] \in Pending /\ n = Notice(n[1]) /\ Known(n)'
               /\ \A i \in DOMAIN turns : turns[i] # n
  <2>1. PICK t \in Pending : n = Notice(t)
    BY <1>1
  <2> QED
    BY <1>5, <2>1
\* No task is in the batch twice, so the batch is finite.
<1>7. IsFiniteSet(carry')
  <2> DEFINE f == [n \in carry' |-> n[1]]
  <2>1. \A n \in carry' : n[1] \in Tasks
    BY <1>6 DEF Pending
  <2>2. \A n, m \in carry' : n[1] = m[1] => n = m
    BY <1>6
  <2>3. f \in [carry' -> Tasks] /\ \A n, m \in carry' : f[n] = f[m] => n = m
    BY <2>1, <2>2
  <2>4. f \in Injection(carry', Tasks)
    BY <2>3 DEF Injection, IsInjective
  <2>5. IsFiniteSet(Tasks)
    BY TasksAssumption, FS_Interval DEF Tasks
  <2> HIDE DEF f
  <2> QED
    BY <2>4, <2>5, FS_Injection
<1>8. NoticesAreKnown'
  BY <1>1, <1>3, <1>4, <1>6, <1>7 DEF NoticesAreKnown
<1>9. ASSUME NEW i \in DOMAIN durable.turns PROVE task'[durable.turns[i][1]].st # "none"
  <2>1. durable.turns[i] \in WorkerNames
    BY DEF SavedNotices
  <2>2. durable.turns[i][1] \in Tasks
    BY <2>1 DEF WorkerNames
  <2>3. task[durable.turns[i][1]].st # "none"
    BY DEF SavedNotices
  <2> QED
    BY <2>2, <2>3, PendingKeepsNews
<1>10. SavedNotices'
  BY <1>1, <1>9 DEF SavedNotices
<1> QED
  BY <1>8, <1>10

LEMMA ExportKeepsNotices ==
  ASSUME Export, NoticesAreKnown, SavedNotices
  PROVE  NoticesAreKnown' /\ SavedNotices'
<1>1. task' = task /\ turns' = turns /\ carry' = carry /\ durable' = durable /\ syncing' = <<turns>>
  BY DEF Export, manager
<1>2. Heard(turns)' /\ Heard(syncing[1])'
  BY <1>1 DEF Heard, Known, NoticesAreKnown
<1>3. \A n \in carry : Known(n)'
  BY <1>1 DEF Known, NoticesAreKnown
<1> QED
  BY <1>1, <1>2, <1>3 DEF NoticesAreKnown, SavedNotices

LEMMA WriteKeepsNotices ==
  ASSUME TasksTyped, Write, NoticesAreKnown, SavedNotices
  PROVE  NoticesAreKnown' /\ SavedNotices'
<1>1. /\ task' = task /\ turns' = turns /\ carry' = carry /\ syncing' = NoTask
      /\ durable'.turns = syncing[1] /\ durable'.tasks = Saved /\ syncing # NoTask
  BY DEF Write, manager
<1>2. Heard(turns)'
  BY <1>1 DEF Heard, Known, NoticesAreKnown
<1>3. \A n \in carry : Known(n)'
  BY <1>1 DEF Known, NoticesAreKnown
<1>4. NoticesAreKnown'
  BY <1>1, <1>2, <1>3 DEF NoticesAreKnown
<1>5. syncing[1] \in Seq(WorkerNames) /\ IsInjective(syncing[1]) /\ \A i \in DOMAIN syncing[1] : Known(syncing[1][i])
  BY <1>1 DEF NoticesAreKnown, Heard
<1>6. DOMAIN Saved = Settled /\ \A t \in Settled : Saved[t].told = task[t].told /\ task[t].st # "gone"
  BY DEF Saved, Settled, Terminal
<1>7. SavedNotices'
  BY <1>1, <1>5, <1>6 DEF SavedNotices, Known
<1> QED
  BY <1>4, <1>7

\* A restored task is the one that was saved.
LEMMA RestoredIsTheSaved ==
  ASSUME NEW k \in [st : Terminal, rev : Nat, told : Nat]
  PROVE  /\ Restore(k) \in TaskRecords
         /\ Restore(k).st = k.st /\ Restore(k).told = k.told /\ Restore(k).readOnly = TRUE
<1> DEFINE a == [Absent EXCEPT !.st = k.st]
           b == [a EXCEPT !.rev = k.rev]
           c == [b EXCEPT !.told = k.told]
           d == [c EXCEPT !.readOnly = TRUE]
<1>1. Absent \in TaskRecords
  BY DEF Absent, TaskRecords, Statuses
<1>2. a \in TaskRecords
  BY <1>1, OneFieldIsSet DEF Statuses
<1>3. b \in TaskRecords
  BY <1>2, OneFieldIsSet
<1>4. c \in TaskRecords
  BY <1>3, OneFieldIsSet
<1>5. c.st = k.st /\ c.told = k.told
  BY DEF Absent
<1> HIDE DEF c
<1>6. d \in TaskRecords /\ d.readOnly = TRUE /\ d.st = c.st /\ d.told = c.told
  BY <1>4 DEF TaskRecords
<1>7. Restore(k) = d
  BY DEF Restore, Absent, c
<1> HIDE DEF d
<1> QED
  BY <1>5, <1>6, <1>7

LEMMA CrashStep ==
  ASSUME TasksTyped, Crash
  PROVE  /\ task' \in [Tasks -> TaskRecords]
         /\ \A t \in Tasks : task'[t].st \notin Active
         /\ \A t \in DOMAIN durable.tasks :
              task'[t].told = durable.tasks[t].told /\ task'[t].st \in Terminal
         /\ \A t \in Tasks \ DOMAIN durable.tasks :
              task'[t].st = IF task[t].st = "none" THEN "none" ELSE "gone"
         /\ \A t \in Tasks : task'[t].st = "completed" => task'[t].readOnly = TRUE
<1> DEFINE gone == [[Absent EXCEPT !.st = "gone"] EXCEPT !.readOnly = TRUE]
           now(t) == IF t \in DOMAIN durable.tasks THEN Restore(durable.tasks[t])
                     ELSE IF task[t].st = "none" THEN Absent ELSE gone
<1>1. task' = [t \in Tasks |-> now(t)]
  BY DEF Crash, Absent
<1>3. Absent \in TaskRecords /\ Absent.st = "none"
  BY DEF Absent, TaskRecords, Statuses
<1>2. gone \in TaskRecords /\ gone.st = "gone"
  <2> DEFINE a == [Absent EXCEPT !.st = "gone"]
  <2>1. a \in TaskRecords /\ a.st = "gone"
    BY <1>3, OneFieldIsSet DEF Statuses, Absent
  <2> HIDE DEF a
  <2>2. [a EXCEPT !.readOnly = TRUE] \in TaskRecords /\ [a EXCEPT !.readOnly = TRUE].st = "gone"
    BY <2>1 DEF TaskRecords
  <2> QED
    BY <2>2 DEF a
<1>4. \A t \in DOMAIN durable.tasks :
        /\ t \in Tasks /\ Restore(durable.tasks[t]) \in TaskRecords
        /\ Restore(durable.tasks[t]).st \in Terminal /\ Restore(durable.tasks[t]).readOnly = TRUE
        /\ Restore(durable.tasks[t]).told = durable.tasks[t].told
  BY RestoredIsTheSaved DEF TasksTyped
<1> HIDE DEF gone
<1>5. ASSUME NEW t \in Tasks PROVE now(t) \in TaskRecords /\ now(t).st \notin Active
                                     /\ (now(t).st = "completed" => now(t).readOnly = TRUE)
  <2>1. CASE t \in DOMAIN durable.tasks
    BY <1>4, <2>1 DEF Active, Terminal
  <2>2. CASE t \notin DOMAIN durable.tasks
    BY <1>2, <1>3, <2>2 DEF Active
  <2> QED
    BY <2>1, <2>2
<1>6. \A t \in DOMAIN durable.tasks : now(t) = Restore(durable.tasks[t])
  OBVIOUS
<1>7. \A t \in Tasks \ DOMAIN durable.tasks : now(t).st = IF task[t].st = "none" THEN "none" ELSE "gone"
  BY <1>2, <1>3
<1> HIDE DEF now
<1> QED
  BY <1>1, <1>4, <1>5, <1>6, <1>7

LEMMA CrashKeepsNotices ==
  ASSUME TasksTyped, Crash, NoticesAreKnown, SavedNotices
  PROVE  NoticesAreKnown' /\ SavedNotices'
<1>1. turns' = durable.turns /\ carry' = {} /\ syncing' = NoTask /\ durable' = durable
  BY DEF Crash
<1>2. ASSUME NEW i \in DOMAIN durable.turns
      PROVE  Known(durable.turns[i])' /\ task'[durable.turns[i][1]].st # "none"
  <2> DEFINE n == durable.turns[i]
  <2>1. n \in WorkerNames /\ task[n[1]].st # "none"
         /\ (n[1] \in DOMAIN durable.tasks => n[2] <= durable.tasks[n[1]].told)
    BY DEF SavedNotices
  <2>2. n[1] \in Tasks
    BY <2>1 DEF WorkerNames
  <2>3. CASE n[1] \in DOMAIN durable.tasks
    <3>1. task'[n[1]].told = durable.tasks[n[1]].told /\ task'[n[1]].st # "none"
      BY <2>3, CrashStep DEF Terminal
    <3> QED
      BY <1>1, <2>1, <2>3, <3>1 DEF Known
  <2>4. CASE n[1] \notin DOMAIN durable.tasks
    <3>1. task'[n[1]].st = "gone"
      BY <2>1, <2>2, <2>4, CrashStep
    <3> QED
      BY <1>1, <3>1 DEF Known
  <2> QED
    BY <2>3, <2>4
<1>3. IsFiniteSet({})
  BY FS_EmptySet
<1>4. Heard(turns)'
  BY <1>1, <1>2 DEF Heard, SavedNotices, Known
<1>5. NoticesAreKnown'
  BY <1>1, <1>3, <1>4 DEF NoticesAreKnown
<1>6. SavedNotices'
  BY <1>1, <1>2 DEF SavedNotices
<1> QED
  BY <1>5, <1>6

-----------------------------------------------------------------------------
(* Types, of the rest of the state.                                           *)

LEMMA SpendingIsTyped ==
  ASSUME rest \in [Uses -> Nat], NEW what \in Uses, Has(what), SpendTask(what)
  PROVE  rest' \in [Uses -> Nat]
  BY DEF Has, SpendTask

\* The ways a worker's place changes.
LEMMA WorkerStarts ==
  ASSUME WorkersTyped, NEW w \in WorkerNames, workers' = StartTask(w)
  PROVE  WorkersTyped'
<1>1. NewWorker(w) \in WorkerRecords /\ NewWorker(w).pc # "finish"
  BY DEF NewWorker, WorkerRecords, Places
<1> QED
  BY <1>1 DEF StartTask, WorkersTyped

LEMMA WorkerExits ==
  ASSUME WorkersTyped, NEW w \in DOMAIN workers, Exit(w)
  PROVE  WorkersTyped'
  BY DEF Exit, Restrict, WorkersTyped

LEMMA WorkerChanges ==
  ASSUME WorkersTyped, NEW w \in DOMAIN workers, NEW k \in WorkerRecords,
         k.pc = "finish" => k.res \in Terminal, workers' = [workers EXCEPT ![w] = k]
  PROVE  WorkersTyped'
  BY DEF WorkersTyped

LEMMA WorkerGoes ==
  ASSUME WorkersTyped, NEW w, NEW pc \in Places \ {"finish"}, Goto(w, pc)
  PROVE  WorkersTyped'
<1>1. CASE w \in DOMAIN workers
  <2> DEFINE k == [workers[w] EXCEPT !.pc = pc]
  <2>1. k \in WorkerRecords /\ k.pc # "finish"
    BY <1>1 DEF WorkersTyped, WorkerRecords
  <2>2. workers' = [workers EXCEPT ![w] = k]
    BY DEF Goto
  <2> HIDE DEF k
  <2> QED
    BY <1>1, <2>1, <2>2, WorkerChanges
<1>2. CASE w \notin DOMAIN workers
  <2>1. workers' = workers
    BY <1>2 DEF Goto, WorkersTyped
  <2> QED
    BY <2>1 DEF WorkersTyped
<1> QED
  BY <1>1, <1>2

LEMMA WorkerFinishes ==
  ASSUME WorkersTyped, NEW w \in DOMAIN workers, NEW res \in Terminal,
         workers' = [workers EXCEPT ![w].pc = "finish", ![w].res = res]
  PROVE  WorkersTyped'
<1> DEFINE a == [workers[w] EXCEPT !.pc = "finish"]
           k == [a EXCEPT !.res = res]
<1>1. a \in WorkerRecords
  BY DEF WorkersTyped, WorkerRecords, Places
<1>2. k \in WorkerRecords /\ k.res = res
  BY <1>1 DEF WorkerRecords
<1>3. workers' = [workers EXCEPT ![w] = k]
  BY DEF WorkersTyped
<1> HIDE DEF k
<1> QED
  BY <1>2, <1>3, WorkerChanges

LEMMA WorkerTakes ==
  ASSUME WorkersTyped, NEW w \in DOMAIN workers, NEW p \in Nat,
         workers' = [workers EXCEPT ![w].pc = "turn", ![w].prompt = p]
  PROVE  WorkersTyped'
<1> DEFINE a == [workers[w] EXCEPT !.pc = "turn"]
           k == [a EXCEPT !.prompt = p]
<1>1. a \in WorkerRecords /\ a.pc = "turn"
  BY DEF WorkersTyped, WorkerRecords, Places
<1> HIDE DEF a
<1>2. k \in WorkerRecords /\ k.pc = "turn"
  BY <1>1 DEF WorkerRecords
<1>3. workers' = [workers EXCEPT ![w] = k]
  BY DEF WorkersTyped, a
<1> HIDE DEF k
<1> QED
  BY <1>2, <1>3, WorkerChanges

LEMMA WorkerWaits ==
  ASSUME WorkersTyped, NEW w \in DOMAIN workers, NEW c \in WorkerNames,
         workers' = [workers EXCEPT ![w].pc = "acquire", ![w].ctx = c]
  PROVE  WorkersTyped'
<1> DEFINE a == [workers[w] EXCEPT !.pc = "acquire"]
           k == [a EXCEPT !.ctx = c]
<1>1. a \in WorkerRecords /\ a.pc = "acquire"
  BY DEF WorkersTyped, WorkerRecords, Places
<1> HIDE DEF a
<1>2. k \in WorkerRecords /\ k.pc = "acquire"
  BY <1>1 DEF WorkerRecords
<1>3. workers' = [workers EXCEPT ![w] = k]
  BY DEF WorkersTyped, a
<1> HIDE DEF k
<1> QED
  BY <1>2, <1>3, WorkerChanges

LEMMA WorkersStayTyped ==
  ASSUME TasksTyped, ManagerStep
  PROVE  WorkersTyped'
<1>1. WorkersTyped /\ \A w \in DOMAIN workers : w[1] \in Tasks
  BY DEF TasksTyped, WorkersTyped, WorkerNames
<1>2. ASSUME NEW t \in Tasks, Launch(t) PROVE WorkersTyped'
  <2>1. <<t, 1>> \in WorkerNames /\ workers' = StartTask(<<t, 1>>)
    BY <1>2 DEF Launch, WorkerNames
  <2> QED
    BY <1>1, <2>1, WorkerStarts
<1>3. ASSUME NEW t \in Tasks, Continue(t) PROVE WorkersTyped'
  <2>1. CASE UNCHANGED workers
    BY <1>1, <2>1 DEF WorkersTyped
  <2>2. ASSUME NEW e \in Nat, workers' = StartTask(<<t, e>>) PROVE WorkersTyped'
    <3>1. <<t, e>> \in WorkerNames
      BY DEF WorkerNames
    <3> QED
      BY <1>1, <2>2, <3>1, WorkerStarts
  <2> QED
    BY <1>3, <2>1, <2>2, ContinueStep DEF Continued
<1>4. ASSUME UNCHANGED workers PROVE WorkersTyped'
  BY <1>1, <1>4 DEF WorkersTyped
<1>5. ASSUME (\E t \in Tasks : Stop(t)) \/ Watch \/ Close \/ CloseReturns PROVE WorkersTyped'
  BY <1>4, <1>5 DEF Stop, Watch, Close, CloseReturns
<1>6. ASSUME NEW w \in DOMAIN workers, Top(w) PROVE WorkersTyped'
  <2>1. CASE Exit(w)
    BY <1>1, <2>1, WorkerExits
  <2>2. CASE workers' = [workers EXCEPT ![w].pc = "acquire", ![w].ctx = <<w[1], task[w[1]].epoch>>]
    <3>1. <<w[1], task[w[1]].epoch>> \in WorkerNames
      BY <1>1 DEF TasksTyped, TaskRecords, WorkerNames
    <3> QED
      BY <1>1, <2>2, <3>1, WorkerWaits
  <2> QED
    BY <1>6, <2>1, <2>2 DEF Top
<1>7. ASSUME NEW w \in DOMAIN workers, Acquire(w) \/ Ask(w) PROVE WorkersTyped'
  BY <1>1, <1>7, WorkerGoes DEF Acquire, Ask, Places
<1>8. ASSUME NEW w \in DOMAIN workers, AcquireCancelled(w) PROVE WorkersTyped'
  BY <1>1, <1>8, WorkerExits DEF AcquireCancelled
<1>9. ASSUME NEW w \in DOMAIN workers, Take(w) PROVE WorkersTyped'
  <2>1. CASE NothingToDo(w[1])
    BY <1>1, <1>9, <2>1, WorkerExits DEF Take
  <2>2. CASE ~ NothingToDo(w[1])
    BY <1>1, <1>9, <2>2, TakeStep, WorkerTakes
  <2> QED
    BY <2>1, <2>2
<1>10. ASSUME NEW w \in DOMAIN workers, TurnEnds(w) \/ GiveUp(w) PROVE WorkersTyped'
  <2>1. PICK res \in Terminal : workers' = [workers EXCEPT ![w].pc = "finish", ![w].res = res]
    BY <1>10 DEF TurnEnds, GiveUp, Terminal
  <2> QED
    BY <1>1, <2>1, WorkerFinishes
<1>11. ASSUME NEW w \in DOMAIN workers, FinishTask(w) PROVE WorkersTyped'
  <2>1. Goto(w, "top") \/ Exit(w)
    BY <1>11 DEF FinishTask
  <2> QED
    BY <1>1, <2>1, WorkerGoes, WorkerExits DEF Places
<1>12. ASSUME ReceiveEvent PROVE WorkersTyped'
  BY <1>1, <1>12, WorkerGoes DEF ReceiveEvent, Places
<1>13. ASSUME Resolved PROVE WorkersTyped'
  <2>1. Goto(resolving, "turn") \/ UNCHANGED workers
    BY <1>13 DEF Resolved
  <2> QED
    BY <1>1, <1>4, <2>1, WorkerGoes DEF Places
<1> QED
  BY <1>2, <1>3, <1>5, <1>6, <1>7, <1>8, <1>9, <1>10, <1>11, <1>12, <1>13 DEF ManagerStep, Work

LEMMA QueueOfApprovalsStaysTyped ==
  ASSUME TasksTyped, ManagerStep
  PROVE  line' \in Seq(WorkerNames) /\ resolving' \in WorkerNames \union {NoTask}
<1>1. /\ line \in Seq(WorkerNames) /\ resolving \in WorkerNames \union {NoTask}
      /\ DOMAIN workers \subseteq WorkerNames
  BY DEF TasksTyped, WorkersTyped
<1>2. ASSUME UNCHANGED <<line, resolving>>
      PROVE  line' \in Seq(WorkerNames) /\ resolving' \in WorkerNames \union {NoTask}
  BY <1>1, <1>2
<1>3. ASSUME NEW w \in DOMAIN workers, Ask(w)
      PROVE  line' \in Seq(WorkerNames) /\ resolving' \in WorkerNames \union {NoTask}
  <2>1. line' = Append(line, w) /\ resolving' = resolving /\ w \in WorkerNames
    BY <1>1, <1>3 DEF Ask
  <2> QED
    BY <1>1, <2>1
<1>4. ASSUME NEW w \in DOMAIN workers, GiveUp(w)
      PROVE  line' \in Seq(WorkerNames) /\ resolving' \in WorkerNames \union {NoTask}
  <2>1. ASSUME NEW i \in DOMAIN line PROVE RemoveAt(line, i) \in Seq(WorkerNames)
    <3>1. i \in 1..Len(line) /\ Len(line) \in Nat
      BY <1>1
    <3>2. SubSeq(line, 1, i - 1) \in Seq(WorkerNames)
      BY <1>1, <3>1, SubSeqProperties
    <3>3. SubSeq(line, i + 1, Len(line)) \in Seq(WorkerNames)
      BY <1>1, <3>1, SubSeqProperties
    <3> QED
      BY <3>2, <3>3 DEF RemoveAt
  <2>2. resolving' = resolving /\ (line' = line \/ \E i \in DOMAIN line : line' = RemoveAt(line, i))
    BY <1>4 DEF GiveUp
  <2> QED
    BY <1>1, <2>1, <2>2
<1>5. ASSUME ReceiveEvent
      PROVE  line' \in Seq(WorkerNames) /\ resolving' \in WorkerNames \union {NoTask}
  <2>1. line # <<>> /\ resolving' = Head(line) /\ line' = Tail(line)
    BY <1>5 DEF ReceiveEvent
  <2> QED
    BY <1>1, <2>1
<1>6. ASSUME Resolved
      PROVE  line' \in Seq(WorkerNames) /\ resolving' \in WorkerNames \union {NoTask}
  <2>1. line' = line /\ resolving' = NoTask
    BY <1>6 DEF Resolved
  <2> QED
    BY <1>1, <2>1
<1> QED
  BY <1>2, <1>3, <1>4, <1>5, <1>6
  DEF ManagerStep, Launch, Continue, Stop, Watch, Close, CloseReturns, Work, Top, Acquire,
      AcquireCancelled, Take, TurnEnds, FinishTask

LEMMA PromptsStayTyped ==
  ASSUME TasksTyped, ManagerStep
  PROVE  given' \in [Tasks -> SUBSET Nat]
<1>1. given \in [Tasks -> SUBSET Nat]
  BY DEF TasksTyped
<1>2. ASSUME NEW t \in Tasks, Launch(t) PROVE given' \in [Tasks -> SUBSET Nat]
  <2>1. PICK p \in Nat : given' = [given EXCEPT ![t] = {p}]
    BY <1>2, LaunchStep
  <2> QED
    BY <1>1, <2>1
<1>3. ASSUME NEW t \in Tasks, Continue(t) PROVE given' \in [Tasks -> SUBSET Nat]
  <2>1. PICK p \in Nat : given' = [given EXCEPT ![t] = {p}] \/ given' = [given EXCEPT ![t] = @ \union {p}]
    BY <1>3, ContinueStep DEF Continued
  <2> QED
    BY <1>1, <2>1
<1> QED
  BY <1>1, <1>2, <1>3
  DEF ManagerStep, Stop, Watch, Close, CloseReturns, Work, Ask, GiveUp, Top, Acquire, AcquireCancelled,
      Take, TurnEnds, FinishTask, ReceiveEvent, Resolved

LEMMA BudgetStaysTyped ==
  ASSUME TasksTyped, TasksNext
  PROVE  rest' \in [Uses -> Nat]
<1>1. rest \in [Uses -> Nat]
  BY DEF TasksTyped
<1>2. ASSUME NEW t \in Tasks, Launch(t) PROVE rest' \in [Uses -> Nat]
  <2>1. /\ rest["prompts"] > 0 /\ rest["tasks"] > 0
        /\ rest' = [rest EXCEPT !.prompts = rest.prompts - 1, !.tasks = rest.tasks - 1]
    BY <1>2 DEF Launch, Has
  <2> DEFINE a == [rest EXCEPT !["prompts"] = rest["prompts"] - 1]
  <2>2. rest["prompts"] - 1 \in Nat /\ rest["tasks"] - 1 \in Nat
    BY <1>1, <2>1 DEF Uses
  <2>3. a \in [Uses -> Nat]
    BY <1>1, <2>2
  <2>4. rest' = [a EXCEPT !["tasks"] = rest["tasks"] - 1]
    BY <1>1, <2>1
  <2> QED
    BY <2>2, <2>3, <2>4
<1>3. CASE \E what \in Uses : Has(what) /\ SpendTask(what)
  BY <1>1, <1>3, SpendingIsTyped
<1>4. CASE rest' = rest
  BY <1>1, <1>4
<1>5. ASSUME NEW t \in Tasks, Continue(t) \/ Stop(t)
      PROVE  \E what \in Uses : Has(what) /\ SpendTask(what)
  BY <1>5 DEF Continue, Stop, Uses
<1>6. ASSUME Watch \/ Close \/ PendingNotifications \/ Export \/ Crash
      PROVE  \E what \in Uses : Has(what) /\ SpendTask(what)
  BY <1>6 DEF Watch, Close, PendingNotifications, Export, Crash, Uses
<1>7. ASSUME NEW w \in DOMAIN workers, TurnEnds(w) \/ Ask(w)
      PROVE  rest' = rest \/ \E what \in Uses : Has(what) /\ SpendTask(what)
  BY <1>7 DEF TurnEnds, Ask, Uses
<1>8. ASSUME NEW w \in DOMAIN workers,
             Top(w) \/ Acquire(w) \/ AcquireCancelled(w) \/ Take(w) \/ FinishTask(w) \/ GiveUp(w)
      PROVE  rest' = rest
  BY <1>8 DEF Top, Acquire, AcquireCancelled, Take, FinishTask, GiveUp
<1>9. ASSUME CloseReturns \/ ReceiveEvent \/ Resolved \/ AppendUser \/ Write PROVE rest' = rest
  BY <1>9 DEF CloseReturns, ReceiveEvent, Resolved, AppendUser, Write
<1> QED
  BY <1>2, <1>3, <1>4, <1>5, <1>6, <1>7, <1>8, <1>9 DEF TasksNext, Work

LEMMA TasksStayTyped ==
  ASSUME TasksTyped, TasksNext
  PROVE  TasksTyped'
<1>1. rest' \in [Uses -> Nat]
  BY BudgetStaysTyped
<1>2. CASE ManagerStep
  <2>1. task' \in [Tasks -> TaskRecords] /\ durable' = durable
    BY <1>2, ManagerKeepsNews DEF NewsKept, parent
  <2>2. WorkersTyped' /\ given' \in [Tasks -> SUBSET Nat]
    BY <1>2, WorkersStayTyped, PromptsStayTyped
  <2>3. line' \in Seq(WorkerNames) /\ resolving' \in WorkerNames \union {NoTask}
    BY <1>2, QueueOfApprovalsStaysTyped
  <2> QED
    BY <1>1, <2>1, <2>2, <2>3 DEF TasksTyped
<1>3. CASE PendingNotifications
  <2>1. task' \in [Tasks -> TaskRecords]
    BY <1>3, PendingKeepsNews DEF NewsKept
  <2>2. UNCHANGED <<workers, line, resolving, durable, given>>
    BY <1>3 DEF PendingNotifications
  <2> QED
    BY <1>1, <2>1, <2>2 DEF TasksTyped, WorkersTyped
<1>4. CASE AppendUser \/ Export
  <2>1. UNCHANGED <<task, workers, line, resolving, durable, given>>
    BY <1>4 DEF AppendUser, Export, manager
  <2> QED
    BY <1>1, <2>1 DEF TasksTyped, WorkersTyped
<1>5. CASE Write
  <2>1. UNCHANGED <<task, workers, line, resolving, given>> /\ durable'.tasks = Saved
    BY <1>5 DEF Write, manager
  <2>2. DOMAIN Saved \subseteq Tasks
    BY DEF Saved, Settled
  <2>3. ASSUME NEW t \in DOMAIN Saved PROVE Saved[t] \in [st : Terminal, rev : Nat, told : Nat]
    <3>1. t \in Tasks /\ task[t].st \in Terminal /\ task[t] \in TaskRecords
      BY DEF Saved, Settled, TasksTyped
    <3>2. Saved[t] = [st |-> task[t].st, rev |-> task[t].rev, told |-> task[t].told]
      BY DEF Saved
    <3> QED
      BY <3>1, <3>2 DEF TaskRecords
  <2> QED
    BY <1>1, <2>1, <2>2, <2>3 DEF TasksTyped, WorkersTyped
<1>6. CASE Crash
  <2>1. task' \in [Tasks -> TaskRecords]
    BY <1>6, CrashStep
  <2>2. /\ workers' = <<>> /\ line' = <<>> /\ resolving' = NoTask /\ durable' = durable
        /\ given' = [t \in Tasks |-> {}]
    BY <1>6 DEF Crash
  <2>3. WorkersTyped'
    BY <2>2 DEF WorkersTyped
  <2>4. line' \in Seq(WorkerNames) /\ given' \in [Tasks -> SUBSET Nat]
    BY <2>2
  <2> QED
    BY <1>1, <2>1, <2>2, <2>3, <2>4 DEF TasksTyped
<1> QED
  BY <1>2, <1>3, <1>4, <1>5, <1>6 DEF TasksNext, ManagerStep

-----------------------------------------------------------------------------
(* An active task is in the hands of a worker.                                *)

\* A worker that stays, and stays at its turn if it was at one, keeps the task.
LEMMA HandsStay ==
  ASSUME NEW s \in Tasks, HandsOn(s), task'[s].queue = task[s].queue,
         \A w \in DOMAIN workers : w[1] = s =>
           w \in DOMAIN workers' /\ (workers[w].pc \in Engaged => workers'[w].pc \in Engaged)
  PROVE  HandsOn(s)'
  BY DEF HandsOn

\* A worker's step to another place of its turn, or from one place before it to another.
LEMMA HandsMove ==
  ASSUME TasksTyped, NEW s \in Tasks, HandsOn(s), task'[s].queue = task[s].queue,
         NEW w \in DOMAIN workers, NEW k,
         workers' = [workers EXCEPT ![w] = k], workers[w].pc \in Engaged => k.pc \in Engaged
  PROVE  HandsOn(s)'
<1>1. DOMAIN workers' = DOMAIN workers /\ \A x \in DOMAIN workers : workers'[x] = IF x = w THEN k ELSE workers[x]
  BY DEF TasksTyped, WorkersTyped
<1> QED
  BY <1>1, HandsStay

LEMMA HandsAreLeft ==
  ASSUME TasksTyped, NEW s \in Tasks, HandsOn(s), task'[s].queue = task[s].queue,
         NEW w \in DOMAIN workers, Exit(w),
         w[1] # s \/ (task[s].queue = <<>> /\ workers[w].pc \notin Engaged)
  PROVE  HandsOn(s)'
<1>1. DOMAIN workers' = DOMAIN workers \ {w} /\ \A x \in DOMAIN workers' : workers'[x] = workers[x]
  BY DEF Exit, Restrict
<1>2. PICK x \in DOMAIN workers : x[1] = s /\ (task[s].queue # <<>> \/ workers[x].pc \in Engaged)
  BY DEF HandsOn
<1>3. x # w
  BY <1>2
<1> QED
  BY <1>1, <1>2, <1>3 DEF HandsOn

LEMMA ManagerKeepsHands ==
  ASSUME TasksTyped, ManagerStep, NEW s \in Tasks,
         task[s].st \in Active => HandsOn(s)
  PROVE  task'[s].st \in Active => HandsOn(s)'
<1> DEFINE Held == task'[s].st \in Active => HandsOn(s)'
<1>1. task \in [Tasks -> TaskRecords] /\ \A w \in DOMAIN workers : w[1] \in Tasks
  BY DEF TasksTyped, WorkersTyped, WorkerNames
<1>2. ASSUME NEW t \in Tasks, NEW e, workers' = StartTask(<<t, e>>), task'[t].queue # <<>>,
             s # t => task'[s] = task[s]
      PROVE  Held
  <2>1. CASE s = t
    <3>1. <<t, e>> \in DOMAIN workers' /\ <<t, e>>[1] = t
      BY <1>2 DEF StartTask
    <3> QED
      BY <1>2, <2>1, <3>1 DEF HandsOn
  <2>2. CASE s # t
    <3>1. \A w \in DOMAIN workers : w[1] = s => w \in DOMAIN workers' /\ workers'[w] = workers[w]
      <4>1. ASSUME NEW w \in DOMAIN workers, w[1] = s PROVE w # <<t, e>>
        BY <2>2, <4>1
      <4> QED
        BY <1>2, <4>1 DEF StartTask
    <3> QED
      BY <1>2, <2>2, <3>1, HandsStay
  <2> QED
    BY <2>1, <2>2
<1>3. ASSUME NEW t \in Tasks, Launch(t) PROVE Held
  <2>1. PICK k \in TaskRecords, p \in Nat :
          task' = [task EXCEPT ![t] = k] /\ k.queue = <<p>> /\ workers' = StartTask(<<t, 1>>)
    BY <1>3, LaunchStep
  <2>2. task'[t].queue # <<>> /\ (s # t => task'[s] = task[s])
    BY <1>1, <2>1
  <2> QED
    BY <1>2, <2>1, <2>2
<1>4. ASSUME NEW t \in Tasks, Continue(t) PROVE Held
  <2>1. PICK k \in TaskRecords, p \in Nat, e \in Nat : Continued(t, k, p, e)
    BY <1>4, ContinueStep
  <2>2. task'[t].queue # <<>> /\ (s # t => task'[s] = task[s])
    BY <1>1, <2>1 DEF TaskRecords, Continued
  <2>3. CASE workers' = StartTask(<<t, e>>)
    BY <1>2, <2>2, <2>3
  <2>4. CASE task[t].st \in Active /\ UNCHANGED workers
    <3>1. CASE s = t
      BY <2>2, <2>4, <3>1 DEF HandsOn
    <3>2. CASE s # t
      BY <2>2, <2>4, <3>2, HandsStay
    <3> QED
      BY <3>1, <3>2
  <2> QED
    BY <2>1, <2>3, <2>4 DEF Continued
<1>5. ASSUME NEW t \in Tasks, Stop(t) PROVE Held
  <2>1. /\ task[t].st \in Active /\ task' = [task EXCEPT ![t] = Ended(task[t], "cancelled")]
        /\ UNCHANGED workers
    BY <1>1, <1>5 DEF Stop
  <2>2. Ended(task[t], "cancelled").st \notin Active
    BY <2>1, EndedStep DEF Terminal, Active
  <2>3. s # t => task'[s] = task[s]
    BY <1>1, <2>1
  <2> QED
    BY <1>1, <2>1, <2>2, <2>3, HandsStay
<1>6. ASSUME Close PROVE Held
  <2>1. /\ task'[s] = IF task[s].st \in Active THEN Ended(task[s], "cancelled") ELSE task[s]
        /\ UNCHANGED workers
    BY <1>6 DEF Close
  <2> QED
    BY <2>1, EndedStep DEF Terminal, Active
<1>7. ASSUME Watch \/ CloseReturns PROVE Held
  <2>1. UNCHANGED <<task, workers>>
    BY <1>7 DEF Watch, CloseReturns
  <2> QED
    BY <2>1, HandsStay
<1>8. ASSUME NEW w \in DOMAIN workers, Top(w) PROVE Held
  <2>1. workers[w].pc \notin Engaged /\ task' = task
    BY <1>8 DEF Top, At, Engaged
  <2>2. CASE NothingToDo(w[1]) /\ Exit(w)
    BY <2>1, <2>2, HandsAreLeft DEF NothingToDo
  <2>3. CASE workers' = [workers EXCEPT ![w].pc = "acquire", ![w].ctx = <<w[1], task[w[1]].epoch>>]
    <3> DEFINE k == [[workers[w] EXCEPT !.pc = "acquire"] EXCEPT !.ctx = <<w[1], task[w[1]].epoch>>]
    <3>1. workers' = [workers EXCEPT ![w] = k]
      BY <2>3 DEF TasksTyped, WorkersTyped
    <3> HIDE DEF k
    <3> QED
      BY <2>1, <3>1, HandsMove
  <2> QED
    BY <1>8, <2>2, <2>3 DEF Top
<1>9. ASSUME NEW w \in DOMAIN workers, Acquire(w) PROVE Held
  <2>1. /\ workers[w].pc \notin Engaged /\ task' = task
        /\ workers' = [workers EXCEPT ![w] = [workers[w] EXCEPT !.pc = "take"]]
    BY <1>9 DEF Acquire, At, Goto, Engaged
  <2> QED
    BY <2>1, HandsMove
<1>10. ASSUME NEW w \in DOMAIN workers, AcquireCancelled(w) PROVE Held
  <2>1. Exit(w) /\ task' = [task EXCEPT ![w[1]] = FinishTurn(w[1], "cancelled")]
    BY <1>10 DEF AcquireCancelled
  <2>2. FinishTurn(w[1], "cancelled").st \notin Active
    BY <1>1, FinishTurnIsATask DEF Terminal
  <2>3. s = w[1] => task'[s].st \notin Active
    BY <1>1, <2>1, <2>2
  <2>4. s # w[1] => task'[s] = task[s]
    BY <1>1, <2>1
  <2> QED
    BY <2>1, <2>3, <2>4, HandsAreLeft
<1>11. ASSUME NEW w \in DOMAIN workers, Take(w) PROVE Held
  <2>1. CASE NothingToDo(w[1])
    <3>1. workers[w].pc \notin Engaged /\ task' = task /\ Exit(w)
      BY <1>11, <2>1 DEF Take, At, Engaged
    <3> QED
      BY <2>1, <3>1, HandsAreLeft DEF NothingToDo
  <2>2. CASE ~ NothingToDo(w[1])
    <3> DEFINE p == Head(task[w[1]].queue)
               k == [[workers[w] EXCEPT !.pc = "turn"] EXCEPT !.prompt = p]
    <3>1. PICK r \in TaskRecords : task' = [task EXCEPT ![w[1]] = r]
                                     /\ workers' = [workers EXCEPT ![w].pc = "turn", ![w].prompt = p]
      BY <1>11, <2>2, TakeStep
    <3>2. workers' = [workers EXCEPT ![w] = k] /\ w \in DOMAIN workers' /\ workers'[w] = k
      BY <3>1 DEF TasksTyped, WorkersTyped
    <3>3. k.pc = "turn"
      BY DEF TasksTyped, WorkersTyped, WorkerRecords
    <3> HIDE DEF k
    <3>4. CASE s = w[1]
      BY <3>2, <3>3, <3>4 DEF HandsOn, Engaged
    <3>5. CASE s # w[1]
      <4>1. task'[s] = task[s]
        BY <1>1, <3>1, <3>5
      <4> QED
        BY <3>2, <3>3, <4>1, HandsMove DEF Engaged
    <3> QED
      BY <3>4, <3>5
  <2> QED
    BY <2>1, <2>2
<1>12. ASSUME NEW w \in DOMAIN workers, TurnEnds(w) \/ GiveUp(w) PROVE Held
  <2>1. PICK res \in Terminal : task' = task /\ workers' = [workers EXCEPT ![w].pc = "finish", ![w].res = res]
    BY <1>12 DEF TurnEnds, GiveUp, Terminal
  <2> DEFINE k == [[workers[w] EXCEPT !.pc = "finish"] EXCEPT !.res = res]
  <2>2. workers' = [workers EXCEPT ![w] = k]
    BY <2>1 DEF TasksTyped, WorkersTyped
  <2>3. k.pc \in Engaged
    BY DEF TasksTyped, WorkersTyped, WorkerRecords, Engaged
  <2> HIDE DEF k
  <2> QED
    BY <2>1, <2>2, <2>3, HandsMove
<1>13. ASSUME NEW w \in DOMAIN workers, FinishTask(w) PROVE Held
  <2> DEFINE r == FinishTurn(w[1], workers[w].res)
  <2>1. /\ task' = [task EXCEPT ![w[1]] = r] /\ workers[w].pc = "finish"
        /\ IF task'[w[1]].st \in Active THEN Goto(w, "top") ELSE Exit(w)
    BY <1>13 DEF FinishTask, At
  <2>2. workers[w].res \in Terminal
    BY <2>1 DEF TasksTyped, WorkersTyped
  <2>3. r.st \in Active => r.queue # <<>>
    BY <1>1, <2>2, FinishTurnIsATask
  <2>4. task'[w[1]] = r /\ (s # w[1] => task'[s] = task[s])
    BY <1>1, <2>1
  <2> HIDE DEF r
  <2>5. CASE r.st \in Active
    <3>1. workers' = [workers EXCEPT ![w] = [workers[w] EXCEPT !.pc = "top"]]
      BY <2>1, <2>4, <2>5 DEF Goto
    <3>2. /\ DOMAIN workers' = DOMAIN workers
          /\ \A x \in DOMAIN workers : x # w => workers'[x] = workers[x]
      BY <3>1 DEF TasksTyped, WorkersTyped
    <3>3. CASE s = w[1]
      BY <2>3, <2>4, <2>5, <3>2, <3>3 DEF HandsOn
    <3>4. CASE s # w[1]
      BY <2>4, <3>2, <3>4, HandsStay
    <3> QED
      BY <3>3, <3>4
  <2>6. CASE r.st \notin Active
    <3>1. Exit(w)
      BY <2>1, <2>4, <2>6
    <3> QED
      BY <2>4, <2>6, <3>1, HandsAreLeft
  <2> QED
    BY <2>5, <2>6
<1>14. ASSUME NEW w \in DOMAIN workers, Ask(w) PROVE Held
  <2>1. task' = task /\ workers' = [workers EXCEPT ![w] = [workers[w] EXCEPT !.pc = "asking"]]
    BY <1>14 DEF Ask, Goto
  <2>2. [workers[w] EXCEPT !.pc = "asking"].pc \in Engaged
    BY DEF TasksTyped, WorkersTyped, WorkerRecords, Engaged
  <2> QED
    BY <2>1, <2>2, HandsMove
<1>15. ASSUME NEW w, NEW pc \in Engaged, NEW st \in {"waiting_approval", "running"}, w[1] \in Tasks,
              task' = Mark(w[1], st), Goto(w, pc) \/ UNCHANGED workers
       PROVE  Held
  <2>1. task'[s].queue = task[s].queue /\ (task'[s].st \in Active => task[s].st \in Active)
    <3>1. CASE task' = task
      BY <3>1
    <3>2. ASSUME NEW k \in TaskRecords, task' = [task EXCEPT ![w[1]] = k], k.queue = task[w[1]].queue,
                 task[w[1]].st \in Active
          PROVE  task'[s].queue = task[s].queue /\ (task'[s].st \in Active => task[s].st \in Active)
      BY <1>1, <3>2
    <3> QED
      BY <1>15, <3>1, <3>2, MarkStep
  <2>2. CASE UNCHANGED workers
    BY <2>1, <2>2, HandsStay
  <2>3. CASE Goto(w, pc) /\ w \in DOMAIN workers
    <3>1. workers' = [workers EXCEPT ![w] = [workers[w] EXCEPT !.pc = pc]]
      BY <2>3 DEF Goto
    <3>2. [workers[w] EXCEPT !.pc = pc].pc \in Engaged
      BY <2>3 DEF TasksTyped, WorkersTyped, WorkerRecords
    <3> QED
      BY <2>1, <2>3, <3>1, <3>2, HandsMove
  <2>4. CASE Goto(w, pc) /\ w \notin DOMAIN workers
    <3>1. UNCHANGED workers
      BY <2>4 DEF Goto, TasksTyped, WorkersTyped
    <3> QED
      BY <2>2, <3>1
  <2> QED
    BY <1>15, <2>2, <2>3, <2>4
<1>16. ASSUME ReceiveEvent PROVE Held
  <2>1. line \in Seq(WorkerNames) /\ line # <<>>
    BY <1>16 DEF ReceiveEvent, TasksTyped
  <2>2. Head(line) \in WorkerNames
    BY <2>1
  <2>3. Head(line)[1] \in Tasks
    BY <2>2 DEF WorkerNames
  <2> QED
    BY <1>15, <1>16, <2>3 DEF ReceiveEvent, Engaged
<1>17. ASSUME Resolved PROVE Held
  <2>1. resolving[1] \in Tasks
    BY <1>17 DEF Resolved, TasksTyped, WorkerNames
  <2>2. task' = Mark(resolving[1], "running") /\ (Goto(resolving, "turn") \/ UNCHANGED workers)
    BY <1>17 DEF Resolved
  <2> QED
    BY <1>15, <2>1, <2>2 DEF Engaged
<1> HIDE DEF Held
<1>18. Held
  BY <1>3, <1>4, <1>5, <1>6, <1>7, <1>8, <1>9, <1>10, <1>11, <1>12, <1>13, <1>14, <1>16, <1>17
  DEF ManagerStep, Work
<1> QED
  BY <1>18 DEF Held

-----------------------------------------------------------------------------
(* A task that waits for an approval has the resolver on it.                  *)

Waits(s) == task[s].st = "waiting_approval" => resolving # NoTask /\ resolving[1] = s

LEMMA ManagerKeepsWaits ==
  ASSUME TasksTyped, ManagerStep, NEW s \in Tasks, \A t \in Tasks : Waits(t)
  PROVE  Waits(s)'
<1>1. task \in [Tasks -> TaskRecords] /\ \A w \in DOMAIN workers : w[1] \in Tasks
  BY DEF TasksTyped, WorkersTyped, WorkerNames
<1>2. ASSUME resolving' = resolving, task'[s].st = "waiting_approval" => task[s].st = "waiting_approval"
      PROVE  Waits(s)'
  BY <1>2 DEF Waits
<1>3. ASSUME NEW t \in Tasks, NEW k, task' = [task EXCEPT ![t] = k], resolving' = resolving,
             k.st = "waiting_approval" => task[t].st = "waiting_approval"
      PROVE  Waits(s)'
  <2>1. task'[s].st = "waiting_approval" => task[s].st = "waiting_approval"
    BY <1>1, <1>3
  <2> QED
    BY <1>2, <1>3, <2>1
<1>4. ASSUME NEW t \in Tasks, Launch(t) PROVE Waits(s)'
  <2>1. PICK k \in TaskRecords : task' = [task EXCEPT ![t] = k] /\ k.st = "queued"
    BY <1>4, LaunchStep
  <2>2. resolving' = resolving
    BY <1>4 DEF Launch
  <2> QED
    BY <1>3, <2>1, <2>2
<1>5. ASSUME NEW t \in Tasks, Continue(t) PROVE Waits(s)'
  <2>1. PICK k \in TaskRecords, p \in Nat, e \in Nat : Continued(t, k, p, e)
    BY <1>5, ContinueStep
  <2>2. resolving' = resolving
    BY <1>5 DEF Continue
  <2> QED
    BY <1>3, <2>1, <2>2 DEF Continued
<1>6. ASSUME NEW t \in Tasks, Stop(t) PROVE Waits(s)'
  <2>1. /\ task[t].st \in Active /\ task' = [task EXCEPT ![t] = Ended(task[t], "cancelled")]
        /\ resolving' = resolving
    BY <1>1, <1>6 DEF Stop
  <2>2. Ended(task[t], "cancelled").st = "cancelled"
    BY <2>1, EndedStep DEF Terminal
  <2> QED
    BY <1>3, <2>1, <2>2
<1>7. ASSUME Close PROVE Waits(s)'
  <2>1. /\ task'[s] = IF task[s].st \in Active THEN Ended(task[s], "cancelled") ELSE task[s]
        /\ resolving' = resolving
    BY <1>7 DEF Close
  <2>2. task[s].st \in Active => Ended(task[s], "cancelled").st = "cancelled"
    BY EndedStep DEF Terminal
  <2> QED
    BY <1>2, <2>1, <2>2
<1>8. ASSUME UNCHANGED <<task, resolving>> PROVE Waits(s)'
  BY <1>2, <1>8
<1>9. ASSUME NEW w \in DOMAIN workers, NEW res \in Terminal, resolving' = resolving,
             task' = [task EXCEPT ![w[1]] = FinishTurn(w[1], res)]
      PROVE  Waits(s)'
  <2>1. FinishTurn(w[1], res).st = "waiting_approval" => task[w[1]].st = "waiting_approval"
    BY <1>1, FinishTurnIsATask DEF Active
  <2> QED
    BY <1>1, <1>3, <1>9, <2>1
<1>10. ASSUME NEW w \in DOMAIN workers, AcquireCancelled(w) PROVE Waits(s)'
  BY <1>9, <1>10 DEF AcquireCancelled, Terminal
<1>11. ASSUME NEW w \in DOMAIN workers, FinishTask(w) PROVE Waits(s)'
  <2>1. workers[w].res \in Terminal
    BY <1>11 DEF FinishTask, At, TasksTyped, WorkersTyped
  <2> QED
    BY <1>9, <1>11, <2>1 DEF FinishTask
<1>12. ASSUME NEW w \in DOMAIN workers, Take(w) PROVE Waits(s)'
  <2>1. resolving' = resolving
    BY <1>12 DEF Take
  <2>2. CASE NothingToDo(w[1])
    BY <1>8, <1>12, <2>1, <2>2 DEF Take
  <2>3. CASE ~ NothingToDo(w[1])
    <3>1. PICK k \in TaskRecords : task' = [task EXCEPT ![w[1]] = k] /\ k.st = "running"
      BY <1>12, <2>3, TakeStep
    <3> QED
      BY <1>1, <1>3, <2>1, <3>1
  <2> QED
    BY <2>2, <2>3
<1>13. ASSUME ReceiveEvent PROVE Waits(s)'
  <2> DEFINE w == Head(line)
  <2>1. line \in Seq(WorkerNames) /\ line # <<>>
    BY <1>13 DEF ReceiveEvent, TasksTyped
  <2>2. w \in WorkerNames
    BY <2>1
  <2>3. resolving' = w /\ resolving = NoTask /\ task' = Mark(w[1], "waiting_approval")
    BY <1>13 DEF ReceiveEvent
  <2> HIDE DEF w
  <2>4. w[1] \in Tasks /\ w # NoTask
    BY <2>2 DEF WorkerNames, NoTask
  <2>5. \A t \in Tasks : task[t].st # "waiting_approval"
    BY <2>3 DEF Waits
  <2>6. s # w[1] => task'[s] = task[s]
    BY <1>1, <2>3, <2>4 DEF Mark
  <2>7. task'[s].st = "waiting_approval" => s = w[1]
    BY <2>5, <2>6
  <2> QED
    BY <2>3, <2>4, <2>7 DEF Waits
<1>14. ASSUME Resolved PROVE Waits(s)'
  <2>1. resolving # NoTask /\ resolving[1] \in Tasks /\ task' = Mark(resolving[1], "running")
    BY <1>14 DEF Resolved, TasksTyped, WorkerNames
  <2>2. CASE s = resolving[1]
    <3>1. CASE task' = task /\ task[s].st \notin Active
      BY <3>1 DEF Waits, Active
    <3>2. ASSUME NEW k \in TaskRecords, task' = [task EXCEPT ![s] = k], k.st = "running" PROVE Waits(s)'
      BY <1>1, <3>2 DEF Waits
    <3> QED
      BY <2>1, <2>2, <3>1, <3>2, MarkStep
  <2>3. CASE s # resolving[1]
    <3>1. task'[s] = task[s]
      BY <1>1, <2>1, <2>3 DEF Mark
    <3>2. task[s].st # "waiting_approval"
      BY <2>3 DEF Waits
    <3> QED
      BY <3>1, <3>2 DEF Waits
  <2> QED
    BY <2>2, <2>3
<1>15. ASSUME NEW w \in DOMAIN workers, Top(w) \/ Acquire(w) \/ TurnEnds(w) \/ Ask(w) \/ GiveUp(w)
       PROVE  Waits(s)'
  BY <1>8, <1>15 DEF Top, Acquire, TurnEnds, Ask, GiveUp
<1>16. ASSUME Watch \/ CloseReturns PROVE Waits(s)'
  BY <1>8, <1>16 DEF Watch, CloseReturns
<1> QED
  BY <1>4, <1>5, <1>6, <1>7, <1>10, <1>11, <1>12, <1>13, <1>14, <1>15, <1>16 DEF ManagerStep, Work

-----------------------------------------------------------------------------
(* Every prompt of an active task was handed to a runner or waits in its queue.*)

Keeps(s) ==
  ~ task[s].readOnly =>
    /\ task[s].st \in Active => \A p \in given[s] : p \in taken \/ Queued(s, p)
    /\ task[s].st = "completed" => given[s] \subseteq taken

LEMMA PromptsStay ==
  ASSUME NEW s \in Tasks, Keeps(s),
         task'[s].readOnly = task[s].readOnly, given'[s] = given[s], taken' = taken,
         task'[s].st \in Active => task[s].st \in Active /\ task'[s].queue = task[s].queue,
         task'[s].st = "completed" =>
           \/ task[s].st = "completed"
           \/ task[s].st \in Active /\ task[s].queue = <<>>
  PROVE  Keeps(s)'
<1>1. task'[s].st \in Active /\ ~ task'[s].readOnly => (\A p \in given[s] : p \in taken \/ Queued(s, p)')
  BY DEF Keeps, Queued
<1>2. task[s].queue = <<>> => \A p \in given[s] : ~ Queued(s, p)
  BY DEF Queued
<1>3. task'[s].st = "completed" /\ ~ task'[s].readOnly => given[s] \subseteq taken
  BY <1>2 DEF Keeps
<1> QED
  BY <1>1, <1>3 DEF Keeps

LEMMA ManagerKeepsPrompts ==
  ASSUME TasksTyped, ManagerStep, NEW s \in Tasks, Keeps(s)
  PROVE  Keeps(s)'
<1>1. /\ task \in [Tasks -> TaskRecords] /\ given \in [Tasks -> SUBSET Nat]
      /\ \A w \in DOMAIN workers : w[1] \in Tasks
  BY DEF TasksTyped, WorkersTyped, WorkerNames
<1>2. ASSUME UNCHANGED <<taken, given>>, task'[s] = task[s] PROVE Keeps(s)'
  BY <1>2, PromptsStay
<1>3. ASSUME NEW t \in Tasks, Launch(t) PROVE Keeps(s)'
  <2>1. PICK k \in TaskRecords, p \in Nat :
          /\ task' = [task EXCEPT ![t] = k] /\ k.st = "queued" /\ k.queue = <<p>>
          /\ given' = [given EXCEPT ![t] = {p}]
    BY <1>3, LaunchStep
  <2>2. taken' = taken
    BY <1>3 DEF Launch
  <2>3. CASE s # t
    <3>1. task'[s] = task[s] /\ given'[s] = given[s]
      BY <1>1, <2>1, <2>3
    <3> QED
      BY <2>2, <3>1, PromptsStay
  <2>4. CASE s = t
    <3>1. task'[s].st = "queued" /\ task'[s].queue = <<p>> /\ given'[s] = {p}
      BY <1>1, <2>1, <2>4
    <3> QED
      BY <3>1 DEF Keeps, Queued
  <2> QED
    BY <2>3, <2>4
<1>4. ASSUME NEW t \in Tasks, Continue(t) PROVE Keeps(s)'
  <2>1. PICK k \in TaskRecords, p \in Nat, e \in Nat : Continued(t, k, p, e)
    BY <1>4, ContinueStep
  <2>2. taken' = taken
    BY <1>4 DEF Continue
  <2>3. CASE s # t
    <3>1. task'[s] = task[s] /\ given'[s] = given[s]
      BY <1>1, <2>1, <2>3 DEF Continued
    <3> QED
      BY <2>2, <3>1, PromptsStay
  <2>4. CASE s = t
    <3> DEFINE q == task[s].queue
    <3>1. task'[s] = k /\ k.queue = Append(q, p) /\ q \in Seq(Nat) /\ k.st \in Active
      BY <1>1, <2>1, <2>4 DEF Continued, TaskRecords
    <3>2. /\ DOMAIN k.queue = 1..(Len(q) + 1) /\ k.queue[Len(q) + 1] = p
          /\ \A i \in DOMAIN q : i \in DOMAIN k.queue /\ k.queue[i] = q[i]
      BY <3>1
    <3>3. Len(q) + 1 \in DOMAIN k.queue
      BY <3>1, <3>2
    <3>4. given'[s] = {p} \/ (task[s].st \in Active /\ given'[s] = given[s] \union {p})
      BY <1>1, <2>1, <2>4 DEF Continued
    <3>5. k.st # "completed" /\ k.readOnly = task[s].readOnly
      BY <2>1, <2>4, <3>1 DEF Continued, KeepsNews, Active
    <3>6. \A r \in given[s] : Queued(s, r) => Queued(s, r)'
      BY <3>1, <3>2 DEF Queued
    <3>7. Queued(s, p)'
      BY <3>1, <3>2, <3>3 DEF Queued
    <3> QED
      BY <2>2, <3>1, <3>4, <3>5, <3>6, <3>7 DEF Keeps
  <2> QED
    BY <2>3, <2>4
<1>5. ASSUME NEW t \in Tasks, Stop(t) PROVE Keeps(s)'
  <2>1. /\ task[t].st \in Active /\ task' = [task EXCEPT ![t] = Ended(task[t], "cancelled")]
        /\ UNCHANGED <<given, taken>>
    BY <1>1, <1>5 DEF Stop
  <2>2. Ended(task[t], "cancelled").st = "cancelled"
    BY <2>1, EndedStep DEF Terminal
  <2>3. CASE s # t
    BY <1>1, <1>2, <2>1, <2>3
  <2>4. CASE s = t
    BY <1>1, <2>1, <2>2, <2>4 DEF Keeps, Active
  <2> QED
    BY <2>3, <2>4
<1>6. ASSUME Close PROVE Keeps(s)'
  <2>1. /\ task'[s] = IF task[s].st \in Active THEN Ended(task[s], "cancelled") ELSE task[s]
        /\ UNCHANGED <<given, taken>>
    BY <1>6 DEF Close
  <2>2. task[s].st \in Active => Ended(task[s], "cancelled").st = "cancelled"
    BY EndedStep DEF Terminal
  <2>3. CASE task[s].st \in Active
    BY <2>1, <2>2, <2>3 DEF Keeps, Active
  <2>4. CASE task[s].st \notin Active
    BY <1>2, <2>1, <2>4
  <2> QED
    BY <2>3, <2>4
<1>7. ASSUME NEW w \in DOMAIN workers, NEW res \in Terminal, UNCHANGED <<given, taken>>,
             task' = [task EXCEPT ![w[1]] = FinishTurn(w[1], res)]
      PROVE  Keeps(s)'
  <2> DEFINE t == w[1]
             r == FinishTurn(t, res)
  <2>1. CASE s # t
    BY <1>1, <1>2, <1>7, <2>1
  <2>2. CASE s = t
    <3>1. task'[s] = r
      BY <1>1, <1>7, <2>2
    <3>2. r.readOnly = task[s].readOnly
      BY <1>1, <2>2, FinishTurnIsATask
    <3>3. r.st \in Active => task[s].st \in Active /\ r.queue = task[s].queue
      BY <1>1, <2>2, FinishTurnIsATask
    <3>4. r.st = "completed" => task[s].st = "completed" \/ (task[s].st \in Active /\ task[s].queue = <<>>)
      <4>1. "completed" \notin Active
        BY DEF Active
      <4> HIDE DEF r
      <4>2. task[s].st \notin Active => r = task[s]
        BY <1>1, <2>2, FinishTurnIsATask DEF r
      <4>3. task[s].st \in Active /\ r.st \notin Active => r.st = res /\ (res = "completed" => task[s].queue = <<>>)
        BY <1>1, <2>2, FinishTurnIsATask DEF r
      <4> QED
        BY <4>1, <4>2, <4>3
    <3> HIDE DEF r
    <3> QED
      BY <1>7, <3>1, <3>2, <3>3, <3>4, PromptsStay
  <2> QED
    BY <2>1, <2>2
<1>8. ASSUME NEW w \in DOMAIN workers, AcquireCancelled(w) PROVE Keeps(s)'
  BY <1>7, <1>8 DEF AcquireCancelled, Terminal
<1>9. ASSUME NEW w \in DOMAIN workers, FinishTask(w) PROVE Keeps(s)'
  <2>1. workers[w].res \in Terminal
    BY <1>9 DEF FinishTask, At, TasksTyped, WorkersTyped
  <2> QED
    BY <1>7, <1>9, <2>1 DEF FinishTask
<1>10. ASSUME NEW w \in DOMAIN workers, Take(w) PROVE Keeps(s)'
  <2>1. given' = given
    BY <1>10 DEF Take
  <2>2. CASE NothingToDo(w[1])
    <3>1. task' = task /\ taken' = taken
      BY <1>10, <2>2 DEF Take
    <3> QED
      BY <1>2, <2>1, <3>1
  <2>3. CASE ~ NothingToDo(w[1])
    <3> DEFINE q == task[w[1]].queue
    <3>1. PICK k \in TaskRecords :
            /\ task' = [task EXCEPT ![w[1]] = k] /\ KeepsNews(k, task[w[1]])
            /\ k.st = "running" /\ k.queue = Tail(q)
            /\ taken' = taken \union {Head(q)} /\ q # <<>>
      BY <1>10, <2>3, TakeStep
    <3>2. taken \subseteq taken'
      BY <3>1
    <3>3. CASE s # w[1]
      <4>1. task'[s] = task[s]
        BY <1>1, <3>1, <3>3
      <4> QED
        BY <2>1, <3>2, <4>1 DEF Keeps, Queued
    <3>4. CASE s = w[1]
      <4>1. task'[s] = k /\ k.readOnly = task[s].readOnly /\ task[s].st \in Active /\ q \in Seq(Nat)
        BY <1>1, <2>3, <3>1, <3>4 DEF KeepsNews, NothingToDo, TaskRecords
      <4>2. ASSUME NEW i \in DOMAIN q
            PROVE  q[i] = Head(q) \/ \E j \in DOMAIN Tail(q) : Tail(q)[j] = q[i]
        <5>1. i \in 1..Len(q) /\ Len(Tail(q)) = Len(q) - 1 /\ Len(q) \in Nat /\ Tail(q) \in Seq(Nat)
          BY <3>1, <4>1
        <5>2. CASE i = 1
          BY <3>1, <4>1, <5>2
        <5>3. CASE i # 1
          <6>1. i - 1 \in 1..Len(Tail(q))
            BY <5>1, <5>3
          <6>2. i - 1 \in DOMAIN Tail(q)
            BY <5>1, <6>1
          <6>3. Tail(q)[i - 1] = q[(i - 1) + 1]
            BY <3>1, <4>1, <5>1, <6>1
          <6>4. q[(i - 1) + 1] = q[i]
            BY <5>1
          <6> QED
            BY <6>2, <6>3, <6>4
        <5> QED
          BY <5>2, <5>3
      <4>3. ASSUME NEW p \in given[s], Queued(s, p), p # Head(q) PROVE Queued(s, p)'
        <5>1. PICK i \in DOMAIN q : q[i] = p
          BY <3>4, <4>3 DEF Queued
        <5>2. PICK j \in DOMAIN Tail(q) : Tail(q)[j] = p
          BY <4>2, <4>3, <5>1
        <5>3. task'[s].queue = Tail(q)
          BY <3>1, <4>1
        <5> QED
          BY <5>2, <5>3 DEF Queued
      <4>4. task'[s].st # "completed"
        BY <3>1, <4>1
      <4> QED
        BY <2>1, <3>1, <4>1, <4>3, <4>4 DEF Keeps
    <3> QED
      BY <3>3, <3>4
  <2> QED
    BY <2>2, <2>3
<1>11. ASSUME NEW t \in Tasks, NEW st \in {"waiting_approval", "running"}, task' = Mark(t, st),
              UNCHANGED <<given, taken>>
       PROVE  Keeps(s)'
  <2>1. CASE task' = task
    BY <1>2, <1>11, <2>1
  <2>2. ASSUME NEW k \in TaskRecords, task' = [task EXCEPT ![t] = k], KeepsNews(k, task[t]), k.st = st,
               k.queue = task[t].queue, task[t].st \in Active
        PROVE  Keeps(s)'
    <3>1. CASE s # t
      BY <1>1, <1>2, <1>11, <2>2, <3>1
    <3>2. CASE s = t
      <4>1. task'[s] = k /\ k.readOnly = task[s].readOnly /\ k.st # "completed"
        BY <1>1, <2>2, <3>2 DEF KeepsNews
      <4> QED
        BY <1>11, <2>2, <3>2, <4>1, PromptsStay
    <3> QED
      BY <3>1, <3>2
  <2> QED
    BY <1>11, <2>1, <2>2, MarkStep
<1>12. ASSUME ReceiveEvent PROVE Keeps(s)'
  <2>1. line \in Seq(WorkerNames) /\ line # <<>>
    BY <1>12 DEF ReceiveEvent, TasksTyped
  <2>2. Head(line) \in WorkerNames
    BY <2>1
  <2>3. Head(line)[1] \in Tasks
    BY <2>2 DEF WorkerNames
  <2> QED
    BY <1>11, <1>12, <2>3 DEF ReceiveEvent
<1>13. ASSUME Resolved PROVE Keeps(s)'
  <2>1. resolving[1] \in Tasks /\ task' = Mark(resolving[1], "running") /\ UNCHANGED <<given, taken>>
    BY <1>13 DEF Resolved, TasksTyped, WorkerNames
  <2> QED
    BY <1>11, <2>1
<1>14. ASSUME NEW w \in DOMAIN workers, Top(w) \/ Acquire(w) \/ TurnEnds(w) \/ Ask(w) \/ GiveUp(w)
       PROVE  Keeps(s)'
  BY <1>2, <1>14 DEF Top, Acquire, TurnEnds, Ask, GiveUp
<1>15. ASSUME Watch \/ CloseReturns PROVE Keeps(s)'
  BY <1>2, <1>15 DEF Watch, CloseReturns
<1> QED
  BY <1>3, <1>4, <1>5, <1>6, <1>8, <1>9, <1>10, <1>12, <1>13, <1>14, <1>15 DEF ManagerStep, Work

-----------------------------------------------------------------------------
(* The invariant, and the theorem.                                            *)

LEMMA HonestBegins ==
  ASSUME TasksInit
  PROVE  HonestInv
<1>1. TasksTyped
  BY TasksBeginTyped
<1>2. /\ \A t \in Tasks : task[t].st = "none"
      /\ turns = <<>> /\ carry = {} /\ syncing = NoTask /\ durable.turns = <<>>
  BY DEF TasksInit, Absent
<1>3. TasksAreServed /\ PromptsAreKept
  BY <1>2 DEF TasksAreServed, PromptsAreKept, Active
<1>4. Heard(turns) /\ IsFiniteSet(carry) /\ IsInjective(durable.turns)
  BY <1>2, FS_EmptySet DEF Heard, IsInjective
<1>5. NoticesAreKnown /\ SavedNotices
  BY <1>2, <1>4 DEF NoticesAreKnown, SavedNotices
<1> QED
  BY <1>1, <1>3, <1>5 DEF HonestInv

LEMMA HonestStays ==
  ASSUME HonestInv, [TasksNext]_taskVars
  PROVE  HonestInv'
<1>1. TasksTyped /\ TasksAreServed /\ PromptsAreKept /\ NoticesAreKnown /\ SavedNotices
  BY DEF HonestInv
<1>2. CASE ManagerStep
  <2>1. ASSUME NEW s \in Tasks PROVE Waits(s)' /\ (task'[s].st \in Active => HandsOn(s)') /\ Keeps(s)'
    <3>1. \A t \in Tasks : Waits(t) /\ (task[t].st \in Active => HandsOn(t)) /\ Keeps(t)
      BY <1>1 DEF TasksAreServed, PromptsAreKept, Waits, Keeps
    <3> QED
      BY <1>1, <1>2, <3>1, ManagerKeepsWaits, ManagerKeepsHands, ManagerKeepsPrompts
  <2>2. TasksAreServed' /\ PromptsAreKept'
    BY <2>1 DEF TasksAreServed, PromptsAreKept, Waits, Keeps
  <2>3. NoticesAreKnown' /\ SavedNotices'
    BY <1>1, <1>2, ManagerKeepsNews, ManagerKeepsNotices
  <2>4. TasksTyped'
    BY <1>1, <1>2, TasksStayTyped DEF TasksNext, ManagerStep
  <2> QED
    BY <2>2, <2>3, <2>4 DEF HonestInv
<1>3. ASSUME UNCHANGED <<workers, resolving, given, taken>>,
             \A t \in Tasks : /\ task'[t].st = task[t].st /\ task'[t].queue = task[t].queue
                              /\ task'[t].readOnly = task[t].readOnly
      PROVE  TasksAreServed' /\ PromptsAreKept'
  <2>1. ASSUME NEW s \in Tasks PROVE Keeps(s)'
    <3>1. Keeps(s)
      BY <1>1 DEF PromptsAreKept, Keeps
    <3> QED
      BY <1>3, <3>1, PromptsStay
  <2>2. ASSUME NEW s \in Tasks, task'[s].st \in Active PROVE HandsOn(s)'
    <3>1. HandsOn(s)
      BY <1>1, <1>3, <2>2 DEF TasksAreServed
    <3> QED
      BY <1>3, <3>1, HandsStay
  <2>3. TasksAreServed'
    BY <1>1, <1>3, <2>2 DEF TasksAreServed
  <2> QED
    BY <2>1, <2>3 DEF PromptsAreKept, Keeps
<1>4. CASE PendingNotifications
  <2>1. \A t \in Tasks : /\ task'[t].st = task[t].st /\ task'[t].queue = task[t].queue
                         /\ task'[t].readOnly = task[t].readOnly
    BY <1>1, <1>4, PendingKeepsNews DEF NewsKept, KeepsNews
  <2>2. TasksAreServed' /\ PromptsAreKept'
    BY <1>3, <1>4, <2>1 DEF PendingNotifications
  <2>3. TasksTyped' /\ NoticesAreKnown' /\ SavedNotices'
    BY <1>1, <1>4, TasksStayTyped, PendingKeepsNotices DEF TasksNext
  <2> QED
    BY <2>2, <2>3 DEF HonestInv
<1>5. CASE AppendUser \/ Export \/ Write
  <2>1. TasksAreServed' /\ PromptsAreKept'
    BY <1>3, <1>5 DEF AppendUser, Export, Write, manager
  <2>2. TasksTyped' /\ NoticesAreKnown' /\ SavedNotices'
    BY <1>1, <1>5, TasksStayTyped, AppendKeepsNotices, ExportKeepsNotices, WriteKeepsNotices DEF TasksNext
  <2> QED
    BY <2>1, <2>2 DEF HonestInv
<1>6. CASE Crash
  <2>1. TasksAreServed' /\ PromptsAreKept'
    BY <1>1, <1>6, CrashStep DEF TasksAreServed, PromptsAreKept, Active
  <2>2. TasksTyped' /\ NoticesAreKnown' /\ SavedNotices'
    BY <1>1, <1>6, TasksStayTyped, CrashKeepsNotices DEF TasksNext
  <2> QED
    BY <2>1, <2>2 DEF HonestInv
<1>7. CASE UNCHANGED taskVars
  <2>1. UNCHANGED <<task, workers, line, resolving, turns, carry, syncing, durable, given, taken, rest>>
    BY <1>7 DEF taskVars, manager, parent
  <2>2. TasksAreServed' /\ PromptsAreKept'
    BY <1>3, <2>1
  <2>3. TasksTyped'
    BY <1>1, <2>1 DEF TasksTyped, WorkersTyped
  <2>4. NoticesAreKnown' /\ SavedNotices'
    BY <1>1, <2>1 DEF NoticesAreKnown, SavedNotices, Heard, Known
  <2> QED
    BY <2>2, <2>3, <2>4 DEF HonestInv
<1> QED
  BY <1>2, <1>4, <1>5, <1>6, <1>7 DEF TasksNext, ManagerStep

\* What the parent is told of its tasks is true.
LEMMA HonestInvIsHonest ==
  ASSUME HonestInv
  PROVE  TasksAreHonest
<1>1. ActiveIsServed
  BY DEF HonestInv, TasksAreServed, HandsOn, ActiveIsServed
<1>2. CompletedTookAll
  BY DEF HonestInv, PromptsAreKept, CompletedTookAll
<1>3. NoticeOnce
  BY DEF HonestInv, NoticesAreKnown, Heard, NoticeOnce
<1> QED
  BY <1>1, <1>2, <1>3 DEF TasksAreHonest

\* Whatever stops, continues, crashes and late answers there are, a task that looks
\* active is in the hands of a worker, one that completed was given all its prompts,
\* and no outcome is told twice (AgentTaskManager of internal/tool/agent_task.go).
THEOREM TasksStayHonest == TasksSpec => []TasksAreHonest
<1>1. TasksInit => HonestInv
  BY HonestBegins
<1>2. HonestInv /\ [TasksNext]_taskVars => HonestInv'
  BY HonestStays
<1>3. HonestInv => TasksAreHonest
  BY HonestInvIsHonest
<1> QED
  BY <1>1, <1>2, <1>3, PTL DEF TasksSpec

-----------------------------------------------------------------------------
(* TerminalUI: the operation that runs is in hand.                            *)

Phases == {"none", "running", "asking", "closed"}
Events == Final \union {"work", "result", "approval", "ask"}
Kinds == {"none", "request", "compact", "follow-up"}
OperationWorkers ==
  [phase : Phases, kind : Kinds, cancelled : BOOLEAN, answered : BOOLEAN, queue : Seq(Events), readers : Nat]

TerminalTyped ==
  /\ op \in Operations \union {0}
  /\ worker \in [Operations -> OperationWorkers]
  /\ held \in BOOLEAN /\ misled \in BOOLEAN
  /\ approval \in Operations \union {0, Agent} /\ ask \in Operations \union {0}

\* Whoever asks is the current operation, which the terminal shows as busy and can
\* cancel, and its channel has no reader until the answer; only one dialog is its own.
AskerIsCurrent ==
  /\ ask # 0 => ask = op
  /\ approval \notin {0, Agent} => approval = op /\ ask = 0
  /\ ask # 0 \/ approval \notin {0, Agent} => Busy(state) /\ held /\ worker[op].readers = 0

\* One reader at most, and the current operation's is there only while it is held.
ReadersAreCounted ==
  /\ \A o \in Operations : worker[o].readers <= 1
  /\ op \in Operations /\ worker[op].readers > 0 => held

\* A lookup that answers into a running operation misleads the terminal: all that is
\* left then is that the operation can be cancelled.
HeldInv ==
  /\ TerminalTyped
  /\ RunningCanBeCancelled
  /\ misled \/ (AskerIsCurrent /\ ReadersAreCounted)

LEMMA HeldBegins ==
  ASSUME Init
  PROVE  HeldInv
<1>1. NoWorker \in OperationWorkers /\ NoWorker.readers = 0 /\ NoWorker.phase = "none"
  BY DEF NoWorker, OperationWorkers, Phases, Kinds
<1>2. /\ op = 0 /\ held = FALSE /\ approval = 0 /\ ask = 0 /\ misled = FALSE
      /\ worker = [o \in Operations |-> NoWorker]
  BY DEF Init
<1>3. TerminalTyped
  BY <1>1, <1>2 DEF TerminalTyped
<1>4. RunningCanBeCancelled
  BY <1>2 DEF RunningCanBeCancelled
<1>5. AskerIsCurrent
  BY <1>2 DEF AskerIsCurrent
<1>6. ReadersAreCounted
  BY <1>1, <1>2 DEF ReadersAreCounted
<1> QED
  BY <1>3, <1>4, <1>5, <1>6 DEF HeldInv

\* A record of a worker with another value in one field.
LEMMA OneWorkerFieldIsSet ==
  ASSUME NEW w \in OperationWorkers
  PROVE  /\ \A x \in Phases :
              /\ [w EXCEPT !.phase = x] \in OperationWorkers
              /\ [w EXCEPT !.phase = x].phase = x
              /\ [w EXCEPT !.phase = x].readers = w.readers
         /\ \A x \in BOOLEAN :
              /\ [w EXCEPT !.answered = x] \in OperationWorkers
              /\ [w EXCEPT !.answered = x].phase = w.phase
              /\ [w EXCEPT !.answered = x].readers = w.readers
         /\ \A x \in BOOLEAN :
              /\ [w EXCEPT !.cancelled = x] \in OperationWorkers
              /\ [w EXCEPT !.cancelled = x].phase = w.phase
              /\ [w EXCEPT !.cancelled = x].readers = w.readers
         /\ \A x \in Seq(Events) :
              /\ [w EXCEPT !.queue = x] \in OperationWorkers
              /\ [w EXCEPT !.queue = x].phase = w.phase
              /\ [w EXCEPT !.queue = x].readers = w.readers
         /\ \A x \in Nat :
              /\ [w EXCEPT !.readers = x] \in OperationWorkers
              /\ [w EXCEPT !.readers = x].phase = w.phase
              /\ [w EXCEPT !.readers = x].readers = x
  BY DEF OperationWorkers

LEMMA EnqueueIsAWorker ==
  ASSUME NEW w \in OperationWorkers, NEW event \in Events
  PROVE  /\ Enqueue(w, event) \in OperationWorkers
         /\ Enqueue(w, event).phase = w.phase /\ Enqueue(w, event).readers = w.readers
<1>1. Append(w.queue, event) \in Seq(Events)
  BY DEF OperationWorkers
<1> QED
  BY <1>1, OneWorkerFieldIsSet DEF Enqueue

AtWork == {"running", "asking"}

\* A step that reads no channel, shows no question and ends nothing.
LEMMA QuietStep ==
  ASSUME HeldInv, worker' \in [Operations -> OperationWorkers],
         \A o \in Operations : /\ worker'[o].readers = worker[o].readers
                               /\ worker'[o].phase \in AtWork => worker[o].phase \in AtWork,
         UNCHANGED <<op, held, approval, ask, misled>>, Busy(state) => Busy(state')
  PROVE  HeldInv'
<1>1. TerminalTyped /\ RunningCanBeCancelled /\ (misled \/ (AskerIsCurrent /\ ReadersAreCounted))
  BY DEF HeldInv
<1>2. TerminalTyped'
  BY <1>1 DEF TerminalTyped
<1>3. RunningCanBeCancelled'
  BY <1>1 DEF RunningCanBeCancelled, TerminalTyped, AtWork
<1>4. AskerIsCurrent => AskerIsCurrent'
  BY <1>1 DEF AskerIsCurrent, TerminalTyped, Busy
<1>5. ReadersAreCounted => ReadersAreCounted'
  BY DEF ReadersAreCounted
<1> QED
  BY <1>1, <1>2, <1>3, <1>4, <1>5 DEF HeldInv

LEMMA OneWorkerMoves ==
  ASSUME HeldInv, NEW o \in Operations, NEW w \in OperationWorkers, worker' = [worker EXCEPT ![o] = w],
         w.readers = worker[o].readers, w.phase \in AtWork => worker[o].phase \in AtWork,
         UNCHANGED <<op, held, approval, ask, misled>>, Busy(state) => Busy(state')
  PROVE  HeldInv'
<1>1. worker \in [Operations -> OperationWorkers]
  BY DEF HeldInv, TerminalTyped
<1>2. /\ worker' \in [Operations -> OperationWorkers]
      /\ \A x \in Operations : /\ worker'[x].readers = worker[x].readers
                               /\ worker'[x].phase \in AtWork => worker[x].phase \in AtWork
  BY <1>1
<1> QED
  BY <1>2, QuietStep

LEMMA WorkerKeepsHeld ==
  ASSUME HeldInv, NEW o \in Operations, WorkerSteps(o)
  PROVE  HeldInv'
<1>1. worker \in [Operations -> OperationWorkers] /\ worker[o] \in OperationWorkers
  BY DEF HeldInv, TerminalTyped
<1>2. /\ UNCHANGED <<op, held, approval, ask, misled>>
      /\ Busy(state) => Busy(state')
  BY DEF WorkerSteps, Emit, Question, TakeNotices, WorkerReturns, Resume, Finish, WorkerOnly, opVars, dialogVars
<1>3. ASSUME NEW event \in {"work", "result"}, Emit(o, event) PROVE HeldInv'
  <2>1. event \in Events /\ worker' = [worker EXCEPT ![o] = Enqueue(worker[o], event)]
    BY <1>1, <1>3 DEF Emit, Events
  <2> QED
    BY <1>1, <1>2, <2>1, EnqueueIsAWorker, OneWorkerMoves
<1>4. ASSUME NEW event \in {"approval", "ask"}, Question(o, event) PROVE HeldInv'
  <2> DEFINE a == Enqueue(worker[o], event)
             b == [a EXCEPT !.phase = "asking"]
             c == [b EXCEPT !.answered = FALSE]
  <2>1. event \in Events /\ worker' = [worker EXCEPT ![o] = [Enqueue(worker[o], event) EXCEPT !.phase = "asking", !.answered = FALSE]]
          /\ worker[o].phase = "running"
    BY <1>1, <1>4 DEF Question, Events
  <2>2. a \in OperationWorkers /\ a.readers = worker[o].readers
    BY <1>1, <2>1, EnqueueIsAWorker
  <2>3. b \in OperationWorkers /\ b.readers = worker[o].readers
    BY <2>2, OneWorkerFieldIsSet DEF Phases
  <2>4. c \in OperationWorkers /\ c.readers = worker[o].readers
    BY <2>3, OneWorkerFieldIsSet
  <2>5. worker' = [worker EXCEPT ![o] = c] /\ worker[o].phase \in AtWork
    BY <2>1 DEF AtWork
  <2> HIDE DEF c
  <2> QED
    BY <1>2, <2>4, <2>5, OneWorkerMoves
<1>5. ASSUME TakeNotices(o) PROVE HeldInv'
  <2>1. worker' = worker
    BY <1>5 DEF TakeNotices
  <2> QED
    BY <1>1, <1>2, <2>1, QuietStep
<1>6. ASSUME Resume(o) PROVE HeldInv'
  <2> DEFINE b == [worker[o] EXCEPT !.phase = "running"]
             c == [b EXCEPT !.answered = FALSE]
  <2>1. worker' = [worker EXCEPT ![o] = c] /\ worker[o].phase = "asking"
    BY <1>1, <1>6 DEF Resume
  <2>2. b \in OperationWorkers /\ b.readers = worker[o].readers
    BY <1>1, OneWorkerFieldIsSet DEF Phases
  <2>3. c \in OperationWorkers /\ c.readers = worker[o].readers
    BY <2>2, OneWorkerFieldIsSet
  <2>4. worker[o].phase \in AtWork
    BY <2>1 DEF AtWork
  <2> HIDE DEF c
  <2> QED
    BY <1>2, <2>1, <2>3, <2>4, OneWorkerMoves
<1>7. ASSUME Finish(o) PROVE HeldInv'
  <2>1. PICK outcome \in Outcomes(worker[o]) :
          worker' = [worker EXCEPT ![o] = [Enqueue(worker[o], outcome) EXCEPT !.phase = "closed"]]
    BY <1>1, <1>7 DEF Finish
  <2> DEFINE a == Enqueue(worker[o], outcome)
             b == [a EXCEPT !.phase = "closed"]
  <2>2. outcome \in Events
    BY DEF Outcomes, Events, Final
  <2>3. a \in OperationWorkers /\ a.readers = worker[o].readers
    BY <1>1, <2>2, EnqueueIsAWorker
  <2>4. b \in OperationWorkers /\ b.readers = worker[o].readers /\ b.phase = "closed"
    BY <2>3, OneWorkerFieldIsSet DEF Phases
  <2>5. worker' = [worker EXCEPT ![o] = b] /\ b.phase \notin AtWork
    BY <2>1, <2>4 DEF AtWork
  <2> HIDE DEF b
  <2> QED
    BY <1>2, <2>4, <2>5, OneWorkerMoves
<1> QED
  BY <1>3, <1>4, <1>5, <1>6, <1>7 DEF WorkerSteps, WorkerReturns

\* A new operation starts when no other is busy, so nobody is asking.
LEMMA StartKeepsHeld ==
  ASSUME HeldInv, NEW kind \in Kinds, NEW shown, Start(kind, shown), ~ Busy(state), op + 1 \in Operations,
         UNCHANGED <<approval, ask, misled>>
  PROVE  HeldInv'
<1> DEFINE a == [NoWorker EXCEPT !.phase = "running"]
           b == [a EXCEPT !.kind = kind]
           w == [b EXCEPT !.readers = 1]
           o == op + 1
<1>1. TerminalTyped /\ RunningCanBeCancelled /\ (misled \/ (AskerIsCurrent /\ ReadersAreCounted))
  BY DEF HeldInv
<1>2. w \in OperationWorkers /\ w.readers = 1
  <2>1. NoWorker \in OperationWorkers
    BY DEF NoWorker, OperationWorkers, Phases, Kinds
  <2>2. a \in OperationWorkers
    BY <2>1, OneWorkerFieldIsSet DEF Phases
  <2>3. b \in OperationWorkers
    BY <2>2 DEF OperationWorkers
  <2> HIDE DEF b
  <2> QED
    BY <2>3, OneWorkerFieldIsSet
<1>3. worker' = [worker EXCEPT ![o] = w] /\ op' = o /\ held' = TRUE
  BY <1>1 DEF Start, TerminalTyped, NoWorker
<1> HIDE DEF w
<1>4. TerminalTyped'
  BY <1>1, <1>2, <1>3 DEF TerminalTyped
<1>5. RunningCanBeCancelled'
  BY <1>3 DEF RunningCanBeCancelled
<1>6. AskerIsCurrent => ask = 0 /\ approval \in {0, Agent}
  BY DEF AskerIsCurrent
<1>7. AskerIsCurrent => AskerIsCurrent'
  BY <1>6 DEF AskerIsCurrent
<1>8. ReadersAreCounted => ReadersAreCounted'
  BY <1>1, <1>2, <1>3 DEF ReadersAreCounted, TerminalTyped
<1> QED
  BY <1>1, <1>4, <1>5, <1>7, <1>8 DEF HeldInv

LEMMA ReceiveKeepsHeld ==
  ASSUME HeldInv, NEW o \in Operations, Receive(o)
  PROVE  HeldInv'
<1> DEFINE event == Head(worker[o].queue)
           again == o = op /\ Rearms(event)
           a == [worker[o] EXCEPT !.queue = Tail(worker[o].queue)]
           n == IF again THEN worker[o].readers ELSE worker[o].readers - 1
           b == [a EXCEPT !.readers = n]
<1>1. TerminalTyped /\ RunningCanBeCancelled /\ (misled \/ (AskerIsCurrent /\ ReadersAreCounted))
  BY DEF HeldInv
<1>2. worker \in [Operations -> OperationWorkers] /\ worker[o] \in OperationWorkers
  BY <1>1 DEF TerminalTyped
<1>3. /\ worker[o].readers \in Nat /\ worker[o].readers > 0 /\ worker[o].queue # <<>>
      /\ UNCHANGED <<op, held, misled>>
  BY <1>2 DEF Receive, OperationWorkers, opVars
<1>4. a \in OperationWorkers /\ a.phase = worker[o].phase
  <2>1. Tail(worker[o].queue) \in Seq(Events)
    BY <1>2, <1>3 DEF OperationWorkers
  <2> QED
    BY <1>2, <2>1, OneWorkerFieldIsSet
<1>5. /\ b \in OperationWorkers /\ b.phase = worker[o].phase
      /\ b.readers = IF again THEN worker[o].readers ELSE worker[o].readers - 1
  <2>1. n \in Nat
    BY <1>3
  <2> HIDE DEF a, n
  <2>2. b \in OperationWorkers /\ b.phase = worker[o].phase /\ b.readers = n
    BY <1>4, <2>1, OneWorkerFieldIsSet
  <2> QED
    BY <2>2 DEF n
<1>6. worker' = [worker EXCEPT ![o] = b]
  BY <1>2 DEF Receive, WaitsAgain, OperationWorkers
<1> HIDE DEF b
<1>7. worker' \in [Operations -> OperationWorkers]
  BY <1>2, <1>5, <1>6
<1>8. /\ \A x \in Operations : x # o => worker'[x] = worker[x]
      /\ worker'[o] = b
  BY <1>2, <1>6
<1>9. RunningCanBeCancelled'
  BY <1>1, <1>3, <1>5, <1>8 DEF RunningCanBeCancelled, TerminalTyped
<1>10. CASE o # op
  <2>1. UNCHANGED <<state, approval, ask>>
    BY <1>10 DEF Receive, dialogVars
  <2>2. AskerIsCurrent => AskerIsCurrent'
    BY <1>1, <1>3, <1>8, <1>10, <2>1 DEF AskerIsCurrent, TerminalTyped
  <2>3. ReadersAreCounted => ReadersAreCounted'
    BY <1>2, <1>3, <1>5, <1>8, <1>10 DEF ReadersAreCounted
  <2>4. TerminalTyped'
    BY <1>1, <1>3, <1>7, <2>1 DEF TerminalTyped
  <2> QED
    BY <1>1, <1>3, <1>9, <2>2, <2>3, <2>4 DEF HeldInv
<1>11. CASE o = op
  <2>1. /\ approval' = (IF event = "approval" THEN o ELSE approval)
        /\ ask' = (IF event = "ask" THEN o ELSE ask)
        /\ event \in {"approval", "ask"} => state' = "asking"
    BY <1>11 DEF Receive, Final
  <2>2. TerminalTyped'
    BY <1>1, <1>3, <1>7, <2>1 DEF TerminalTyped
  \* Whoever is read from is not asking yet.
  <2>3. AskerIsCurrent => ask = 0 /\ approval \in {0, Agent}
    BY <1>3, <1>11 DEF AskerIsCurrent
  <2>4. ReadersAreCounted => worker[o].readers = 1 /\ held
    BY <1>3, <1>11 DEF ReadersAreCounted
  <2>5. ReadersAreCounted => ReadersAreCounted'
    BY <1>2, <1>3, <1>5, <1>8, <1>11, <2>4 DEF ReadersAreCounted
  <2>6. ASSUME AskerIsCurrent, ReadersAreCounted, event \in {"approval", "ask"} PROVE AskerIsCurrent'
    <3>1. b.readers = 0
      BY <1>3, <1>5, <2>4, <2>6 DEF Rearms
    <3> QED
      BY <1>3, <1>8, <1>11, <2>1, <2>3, <2>4, <2>6, <3>1 DEF AskerIsCurrent, Busy
  <2>7. ASSUME AskerIsCurrent, event \notin {"approval", "ask"} PROVE AskerIsCurrent'
    BY <2>1, <2>3, <2>7 DEF AskerIsCurrent
  <2> QED
    BY <1>1, <1>3, <1>9, <2>2, <2>5, <2>6, <2>7 DEF HeldInv
<1> QED
  BY <1>10, <1>11

LEMMA ClosedKeepsHeld ==
  ASSUME HeldInv, NEW o \in Operations, Closed(o)
  PROVE  HeldInv'
<1> DEFINE b == [worker[o] EXCEPT !.readers = worker[o].readers - 1]
<1>1. TerminalTyped /\ RunningCanBeCancelled /\ (misled \/ (AskerIsCurrent /\ ReadersAreCounted))
  BY DEF HeldInv
<1>2. worker \in [Operations -> OperationWorkers] /\ worker[o] \in OperationWorkers
  BY <1>1 DEF TerminalTyped
<1>3. /\ worker[o].readers \in Nat /\ worker[o].readers > 0 /\ worker[o].phase = "closed"
      /\ op' = op /\ misled' = misled /\ approval' = approval
      /\ worker' = [worker EXCEPT ![o] = b]
  BY <1>2 DEF Closed, OperationWorkers
<1>4. b \in OperationWorkers /\ b.phase = worker[o].phase /\ b.readers = worker[o].readers - 1
  <2>1. worker[o].readers - 1 \in Nat
    BY <1>3
  <2> QED
    BY <1>2, <2>1, OneWorkerFieldIsSet
<1> HIDE DEF b
<1>5. /\ worker' \in [Operations -> OperationWorkers] /\ worker'[o] = b
      /\ \A x \in Operations : x # o => worker'[x] = worker[x]
  BY <1>2, <1>3, <1>4
<1>6. CASE o = op
  <2>1. held' = FALSE /\ ask' = 0
    BY <1>6 DEF Closed, SpeaksForCurrent, ClosesCurrent
  <2>2. TerminalTyped'
    BY <1>1, <1>3, <1>5, <2>1 DEF TerminalTyped
  <2>3. RunningCanBeCancelled'
    BY <1>3, <1>4, <1>5, <1>6 DEF RunningCanBeCancelled
  <2>4. AskerIsCurrent => AskerIsCurrent'
    BY <1>3, <1>6, <2>1 DEF AskerIsCurrent
  <2>5. ReadersAreCounted => ReadersAreCounted'
    BY <1>2, <1>3, <1>4, <1>5, <1>6 DEF ReadersAreCounted
  <2> QED
    BY <1>1, <1>3, <2>2, <2>3, <2>4, <2>5 DEF HeldInv
<1>7. CASE o # op
  <2>1. held' = held /\ ask' = ask /\ state' = state
    BY <1>1, <1>7 DEF Closed, SpeaksForCurrent, ClosesCurrent, TerminalTyped
  <2>2. TerminalTyped'
    BY <1>1, <1>3, <1>5, <2>1 DEF TerminalTyped
  <2>3. RunningCanBeCancelled'
    BY <1>1, <1>3, <1>5, <1>7, <2>1 DEF RunningCanBeCancelled, TerminalTyped
  <2>4. AskerIsCurrent => AskerIsCurrent'
    BY <1>1, <1>3, <1>5, <1>7, <2>1 DEF AskerIsCurrent, TerminalTyped
  <2>5. ReadersAreCounted => ReadersAreCounted'
    BY <1>2, <1>3, <1>4, <1>5, <1>7, <2>1 DEF ReadersAreCounted
  <2> QED
    BY <1>1, <1>3, <2>2, <2>3, <2>4, <2>5 DEF HeldInv
<1> QED
  BY <1>6, <1>7

\* What ReadsOn does to the workers, the asker being answered.
LEMMA ReadsOnOnce ==
  ASSUME TerminalTyped, NEW asker \in Operations,
         NEW r, r = ReadsOn([worker EXCEPT ![asker].answered = TRUE])
  PROVE  /\ r \in [Operations -> OperationWorkers]
         /\ \A x \in Operations : r[x].phase = worker[x].phase
         /\ \A x \in Operations :
              r[x].readers = IF held /\ x = op THEN worker[x].readers + 1 ELSE worker[x].readers
<1> DEFINE a == [worker[asker] EXCEPT !.answered = TRUE]
           m == [worker EXCEPT ![asker] = a]
<1>1. worker \in [Operations -> OperationWorkers] /\ worker[asker] \in OperationWorkers
  BY DEF TerminalTyped
<1>2. a \in OperationWorkers /\ a.phase = worker[asker].phase /\ a.readers = worker[asker].readers
  BY <1>1, OneWorkerFieldIsSet
<1>3. r = ReadsOn(m)
  OBVIOUS
<1> HIDE DEF a
<1>4. /\ m \in [Operations -> OperationWorkers]
      /\ \A x \in Operations : m[x].phase = worker[x].phase /\ m[x].readers = worker[x].readers
  BY <1>1, <1>2
<1> HIDE DEF m
<1>5. CASE ~ held
  BY <1>3, <1>4, <1>5 DEF ReadsOn
<1>6. CASE held /\ op \in Operations
  <2> DEFINE b == [m[op] EXCEPT !.readers = m[op].readers + 1]
  <2>1. m[op] \in OperationWorkers /\ m[op].readers + 1 \in Nat
    BY <1>4, <1>6 DEF OperationWorkers
  <2>2. b \in OperationWorkers /\ b.phase = m[op].phase /\ b.readers = m[op].readers + 1
    BY <2>1, OneWorkerFieldIsSet
  <2>3. r = [m EXCEPT ![op] = b]
    BY <1>3, <1>6 DEF ReadsOn
  <2> HIDE DEF b
  <2> QED
    BY <1>4, <1>6, <2>2, <2>3
<1>7. CASE held /\ op \notin Operations
  <2>1. r = m
    BY <1>3, <1>4, <1>7 DEF ReadsOn
  <2> QED
    BY <1>4, <1>7, <2>1
<1> QED
  BY <1>5, <1>6, <1>7

\* The answer to the operation's question, whichever of the two dialogs shows it.
LEMMA AnswerKeepsHeld ==
  ASSUME HeldInv, AnswerAsk \/ AnswerApproval
  PROVE  HeldInv'
<1>1. TerminalTyped /\ RunningCanBeCancelled /\ (misled \/ (AskerIsCurrent /\ ReadersAreCounted))
  BY DEF HeldInv
<1>2. PICK asker \in Operations :
        /\ worker' = ReadsOn([worker EXCEPT ![asker].answered = TRUE])
        /\ AskerIsCurrent => asker = op /\ held /\ worker[op].readers = 0
  <2>1. CASE AnswerAsk
    BY <1>1, <2>1 DEF AnswerAsk, TerminalTyped, AskerIsCurrent
  <2>2. CASE AnswerApproval
    BY <1>1, <2>2 DEF AnswerApproval, TerminalTyped, AskerIsCurrent
  <2> QED
    BY <2>1, <2>2
<1>3. /\ worker' \in [Operations -> OperationWorkers]
      /\ \A x \in Operations : worker'[x].phase = worker[x].phase
      /\ \A x \in Operations :
           worker'[x].readers = IF held /\ x = op THEN worker[x].readers + 1 ELSE worker[x].readers
  BY <1>1, <1>2, ReadsOnOnce
<1>4. /\ UNCHANGED <<op, held, misled>>
      /\ \/ ask' = 0 /\ approval' = approval /\ ask # 0
         \/ ask' = ask /\ approval' = 0 /\ ask = 0
  BY DEF AnswerAsk, AnswerApproval, opVars
<1>5. TerminalTyped'
  BY <1>1, <1>3, <1>4 DEF TerminalTyped
<1>6. RunningCanBeCancelled'
  BY <1>1, <1>3, <1>4 DEF RunningCanBeCancelled, TerminalTyped
<1>7. AskerIsCurrent => AskerIsCurrent'
  BY <1>4 DEF AskerIsCurrent
<1>8. ASSUME AskerIsCurrent, ReadersAreCounted PROVE ReadersAreCounted'
  <2>1. held' /\ op' = op /\ worker[op].readers = 0
    BY <1>2, <1>4, <1>8
  <2>2. \A x \in Operations : worker'[x].readers <= 1
    BY <1>3, <1>8, <2>1 DEF ReadersAreCounted
  <2> QED
    BY <2>1, <2>2 DEF ReadersAreCounted
<1> QED
  BY <1>1, <1>4, <1>5, <1>6, <1>7, <1>8 DEF HeldInv

\* A background agent's approval opens and closes over whatever is shown.
LEMMA AgentDialogKeepsHeld ==
  ASSUME HeldInv, AnswerAgent \/ AgentEvent
  PROVE  HeldInv'
<1>1. TerminalTyped /\ RunningCanBeCancelled /\ (misled \/ (AskerIsCurrent /\ ReadersAreCounted))
  BY DEF HeldInv
<1>2. UNCHANGED <<op, held, ask, worker, misled>>
  BY DEF AnswerAgent, AgentEvent, opVars
<1>3. \/ ask = 0 /\ approval' = 0
      \/ approval' = Agent /\ state' = "asking"
      \/ UNCHANGED <<approval, state>>
  BY DEF AnswerAgent, AgentEvent
<1>4. TerminalTyped'
  BY <1>1, <1>2, <1>3 DEF TerminalTyped
<1>5. RunningCanBeCancelled'
  BY <1>1, <1>2 DEF RunningCanBeCancelled
<1>6. AskerIsCurrent => AskerIsCurrent'
  BY <1>2, <1>3 DEF AskerIsCurrent, Busy
<1>7. ReadersAreCounted => ReadersAreCounted'
  BY <1>2 DEF ReadersAreCounted
<1> QED
  BY <1>1, <1>2, <1>4, <1>5, <1>6, <1>7 DEF HeldInv

LEMMA InterruptKeepsHeld ==
  ASSUME HeldInv, Interrupt
  PROVE  HeldInv'
<1> DEFINE answered == IF ask = 0 THEN worker
                       ELSE ReadsOn([worker EXCEPT ![ask].answered = TRUE])
<1>1. TerminalTyped /\ RunningCanBeCancelled /\ (misled \/ (AskerIsCurrent /\ ReadersAreCounted))
  BY DEF HeldInv
<1>2. /\ UNCHANGED <<op, held, approval, misled>>
      /\ ask' = 0 /\ state' = "cancelling"
      /\ worker' = IF held THEN [answered EXCEPT ![op].cancelled = TRUE] ELSE answered
  BY DEF Interrupt
<1>3. /\ answered \in [Operations -> OperationWorkers]
      /\ \A x \in Operations : answered[x].phase = worker[x].phase
      /\ \A x \in Operations :
           answered[x].readers = IF ask # 0 /\ held /\ x = op THEN worker[x].readers + 1
                                 ELSE worker[x].readers
  <2>1. CASE ask = 0
    BY <1>1, <2>1 DEF TerminalTyped
  <2>2. CASE ask # 0
    <3>1. ask \in Operations
      BY <1>1, <2>2 DEF TerminalTyped
    <3>2. answered = ReadsOn([worker EXCEPT ![ask].answered = TRUE])
      BY <2>2
    <3> HIDE DEF answered
    <3> QED
      BY <1>1, <2>2, <3>1, <3>2, ReadsOnOnce
  <2> QED
    BY <2>1, <2>2
<1> HIDE DEF answered
<1>4. /\ worker' \in [Operations -> OperationWorkers]
      /\ \A x \in Operations : worker'[x].phase = answered[x].phase
      /\ \A x \in Operations : worker'[x].readers = answered[x].readers
  <2> DEFINE b == [answered[op] EXCEPT !.cancelled = TRUE]
  <2>1. CASE held /\ op \in Operations
    <3>1. b \in OperationWorkers /\ b.phase = answered[op].phase /\ b.readers = answered[op].readers
      BY <1>3, <2>1, OneWorkerFieldIsSet
    <3>2. worker' = [answered EXCEPT ![op] = b]
      BY <1>2, <2>1
    <3> HIDE DEF b
    <3> QED
      BY <1>3, <2>1, <3>1, <3>2
  <2>2. CASE ~ (held /\ op \in Operations)
    <3>1. worker' = answered
      BY <1>2, <1>3, <2>2
    <3> QED
      BY <1>3, <3>1
  <2> QED
    BY <2>1, <2>2
<1>5. TerminalTyped'
  BY <1>1, <1>2, <1>4 DEF TerminalTyped
<1>6. RunningCanBeCancelled'
  BY <1>1, <1>2, <1>3, <1>4 DEF RunningCanBeCancelled, TerminalTyped
<1>7. AskerIsCurrent => AskerIsCurrent'
  BY <1>1, <1>2, <1>3, <1>4 DEF AskerIsCurrent, TerminalTyped, Busy
<1>8. AskerIsCurrent /\ ReadersAreCounted => ReadersAreCounted'
  BY <1>1, <1>2, <1>3, <1>4 DEF ReadersAreCounted, AskerIsCurrent, TerminalTyped
<1> QED
  BY <1>1, <1>2, <1>5, <1>6, <1>7, <1>8 DEF HeldInv

\* A lookup's answer changes the state of an operation that runs, which misleads, or
\* no operation is held, and then nobody asks.
LEMMA LookupKeepsHeld ==
  ASSUME HeldInv, LookupAnswers
  PROVE  HeldInv'
<1>1. TerminalTyped /\ RunningCanBeCancelled /\ (misled \/ (AskerIsCurrent /\ ReadersAreCounted))
  BY DEF HeldInv
<1>2. /\ UNCHANGED <<op, held, ask, approval, worker>>
      /\ misled' = (misled \/ held)
  BY DEF LookupAnswers, opVars, dialogVars
<1>3. TerminalTyped'
  BY <1>1, <1>2 DEF TerminalTyped
<1>4. RunningCanBeCancelled'
  BY <1>1, <1>2 DEF RunningCanBeCancelled
<1>5. AskerIsCurrent => held \/ AskerIsCurrent'
  BY <1>2 DEF AskerIsCurrent
<1>6. ReadersAreCounted => ReadersAreCounted'
  BY <1>2 DEF ReadersAreCounted
<1> QED
  BY <1>1, <1>2, <1>3, <1>4, <1>5, <1>6 DEF HeldInv

\* The actions that may start an operation.
LEMMA StarterKeepsHeld ==
  ASSUME HeldInv,
         \/ \E kind \in {"request", "compact"} : Prompt(kind)
         \/ RevisePlan \/ CheckAnswers
         \/ \E c \in calls : ModeSet(c)
  PROVE  HeldInv'
<1>1. worker \in [Operations -> OperationWorkers]
  BY DEF HeldInv, TerminalTyped
<1>2. ASSUME NEW kind \in {"request", "compact"}, Prompt(kind) PROVE HeldInv'
  <2>1. Start(kind, mode) /\ ~ Busy(state) /\ op + 1 \in Operations /\ UNCHANGED <<approval, ask, misled>>
    BY <1>2 DEF Prompt, CanStart, dialogVars
  <2> QED
    BY <2>1, StartKeepsHeld DEF Kinds
<1>3. ASSUME RevisePlan PROVE HeldInv'
  <2>1. Start("request", mode) /\ ~ Busy(state) /\ op + 1 \in Operations /\ UNCHANGED <<approval, ask, misled>>
    BY <1>3 DEF RevisePlan, CanStart, dialogVars
  <2> QED
    BY <2>1, StartKeepsHeld DEF Kinds
<1>4. ASSUME CheckAnswers PROVE HeldInv'
  <2>1. /\ UNCHANGED <<approval, ask, misled>>
        /\ \/ Start("follow-up", mode) /\ ~ Busy(state) /\ op + 1 \in Operations
           \/ UNCHANGED <<state, op, held, worker>>
    BY <1>4 DEF CheckAnswers, dialogVars, opVars
  <2>2. CASE UNCHANGED <<state, op, held, worker>>
    BY <1>1, <2>1, <2>2, QuietStep
  <2> QED
    BY <2>1, <2>2, StartKeepsHeld DEF Kinds
<1>5. ASSUME NEW c \in calls, ModeSet(c) PROVE HeldInv'
  <2>1. /\ UNCHANGED <<approval, ask, misled>>
        /\ \/ Start("request", c.to) /\ ~ Busy(state) /\ op + 1 \in Operations
           \/ UNCHANGED <<state, op, held, worker>>
    BY <1>5 DEF ModeSet, dialogVars, opVars
  <2>2. CASE UNCHANGED <<state, op, held, worker>>
    BY <1>1, <2>1, <2>2, QuietStep
  <2> QED
    BY <2>1, <2>2, StartKeepsHeld DEF Kinds
<1> QED
  BY <1>2, <1>3, <1>4, <1>5

\* The actions that touch neither a channel nor a dialog of an operation.
LEMMA AsideKeepsHeld ==
  ASSUME HeldInv,
         \/ \E next \in Modes : CycleMode(next) \/ ExecutePlan(next)
         \/ \E c \in calls : ApplyMode(c) \/ ModeFailed(c)
         \/ TimerFires \/ Lookup
         \/ AgentAsks \/ AgentStopped \/ AgentEnds \/ CheckReads
         \/ UNCHANGED vars
  PROVE  HeldInv'
<1>1. worker \in [Operations -> OperationWorkers]
  BY DEF HeldInv, TerminalTyped
<1>2. UNCHANGED <<op, held, approval, ask, misled, worker>> /\ (Busy(state) => Busy(state'))
  <2>1. ASSUME NEW next \in Modes, CycleMode(next) \/ ExecutePlan(next)
        PROVE  UNCHANGED <<op, held, approval, ask, misled, worker, state>>
    BY <2>1 DEF CycleMode, ExecutePlan, opVars, dialogVars
  <2>2. ASSUME NEW c \in calls, ApplyMode(c) \/ ModeFailed(c)
        PROVE  UNCHANGED <<op, held, approval, ask, misled, worker, state>>
    BY <2>2 DEF ApplyMode, ModeFailed, opVars, dialogVars
  <2>3. ASSUME TimerFires \/ Lookup
        PROVE  UNCHANGED <<op, held, approval, ask, misled, worker>> /\ (Busy(state) => Busy(state'))
    BY <2>3 DEF TimerFires, Lookup, opVars, dialogVars, Busy
  <2>4. ASSUME AgentAsks \/ AgentStopped \/ AgentEnds \/ CheckReads \/ UNCHANGED vars
        PROVE  UNCHANGED <<op, held, approval, ask, misled, worker, state>>
    BY <2>4 DEF AgentAsks, AgentStopped, AgentEnds, CheckReads, AgentsOnly, opVars, dialogVars, vars
  <2> QED
    BY <2>1, <2>2, <2>3, <2>4
<1> QED
  BY <1>1, <1>2, QuietStep

LEMMA StepKeepsHeld ==
  ASSUME HeldInv, [Next]_vars
  PROVE  HeldInv'
<1>1. ASSUME NEW o \in Operations, WorkerSteps(o) \/ Receive(o) \/ Closed(o) PROVE HeldInv'
  BY <1>1, WorkerKeepsHeld, ReceiveKeepsHeld, ClosedKeepsHeld
<1> QED
  BY <1>1, StarterKeepsHeld, AsideKeepsHeld, AnswerKeepsHeld, AgentDialogKeepsHeld,
     InterruptKeepsHeld, LookupKeepsHeld DEF Next

\* However the answers, closings, interrupts, lookups and agents fall together, the
\* operation that runs has one reader at most, none while it asks, and a way to cancel
\* it (handleBackendEvent, submitApproval, sendAskDecision, handleInterrupt and
\* backendEventClosedMsg of internal/ui/model.go).
THEOREM OperationStaysHeld == Spec => []OperationIsHeld
<1>1. Init => HeldInv
  BY HeldBegins
<1>2. HeldInv /\ [Next]_vars => HeldInv'
  BY StepKeepsHeld
<1>3. HeldInv => OperationIsHeld
  <2>1. ASSUME HeldInv, AskerIsCurrent, ReadersAreCounted, NEW o \in Operations, o # 0
        PROVE  worker[o].readers <= 1 /\ (o \in {approval, ask} => worker[o].readers = 0)
    BY <2>1, TerminalAssumption DEF HeldInv, TerminalTyped, AskerIsCurrent, ReadersAreCounted, Agent
  <2> QED
    BY <2>1, TerminalAssumption DEF HeldInv, OperationIsHeld, OneReader
<1> QED
  BY <1>1, <1>2, <1>3, PTL DEF Spec

=============================================================================
