--------------------------- MODULE ToolBatchProofs ---------------------------
(***************************************************************************)
(* ToolBatch for batches of any length, any limit and any mix of calls: its  *)
(* types, the intent before the effect, the order of conflicting calls, the  *)
(* truth of what a call is reported as, how a batch is closed, and that an   *)
(* interruption is final. The first properties speak of calls whose tool was *)
(* entered; their invariant (Inv) follows a call through the flags of the    *)
(* loop (item) and the place of its goroutine (work). For the last two,      *)
(* ClosedInv adds what stops a batch, where the loop is, what the host has   *)
(* heard, and where the blame of a failure waits until it is received.       *)
(***************************************************************************)
EXTENDS ToolBatch, TLAPS, SequenceTheorems, WellFoundedInduction, FiniteSetTheorems

Asleep == {"entered", "waiting", "granted", "cleared", "ready"}
Early  == {"prepare", "preparing", "deliver", "intents"}

\* Until the intents are written there is no goroutine; the loop prepares the calls
\* in order, and between OnStart and the launch the call can still start.
Loop ==
  /\ phase \in Early => \A i \in Call : work[i] = "none"
  /\ phase \in {"prepare", "preparing"} => next # 0 /\ \A i \in Call :
       item[i] \in {"nil", "terminal", "accepted"} /\ (i >= next => item[i] = "nil")
  /\ phase = "preparing" => next \in Call
  /\ phase = "launch" => /\ next \in Call /\ item[next] = "accepted"
                         /\ \A j \in 1..next - 1 : item[j] # "done" => ~Conflict(next, j)

\* Only a call that was launched has a goroutine, and until its tool returns the
\* call has no state; what is closed without one was never said to have run.
Track ==
  \A i \in Call :
    /\ item[i] \in {"nil", "terminal", "accepted"} => work[i] = "none"
    /\ item[i] \in {"nil", "accepted"} \/ work[i] \in Asleep \cup {"executing"} => state[i] = ""
    /\ item[i] = "terminal" => state[i] \in {"", "failed", "rejected", "not_executed"}
    /\ work[i] \in {"none"} \cup Asleep => i \notin began
    /\ work[i] \in {"executing", "ended"} => i \in began

\* What is reported of a call, whether it is over or not.
Truth ==
  \A i \in Call :
    /\ state[i] = "not_executed" => i \notin began
    /\ state[i] \in {"succeeded", "cancelled", "outcome_unknown"} => i \in began

\* A recorded intent is in the log, and so is that of a call that may begin.
Intents ==
  /\ \A i \in recorded : log[i] # "none"
  /\ \A i \in Call : calls[i].effect /\ (work[i] = "ready" \/ i \in began) => log[i] # "none"

\* A call has a goroutine only when every earlier one it conflicts with is over.
Order == \A i, j \in Call : i < j /\ Conflict(i, j) /\ work[j] # "none" => item[i] = "done"

Inv == BatchTypeOK /\ Loop /\ Track /\ Truth /\ Intents /\ Order

\* The call that is being prepared has no record yet.
LEMMA NextIsNew == ASSUME Loop, phase = "preparing" PROVE next \in Call /\ item[next] = "nil"
  <1>1. next \in Call /\ \A i \in Call : i >= next => item[i] = "nil"  BY DEF Loop
  <1>2. next \in Int  BY <1>1 DEF Call
  <1> QED  BY <1>1, <1>2

LEMMA ConflictSymmetric == ASSUME NEW i, NEW j, Conflict(i, j) PROVE Conflict(j, i)
  BY DEF Conflict

\* The initial state.
LEMMA InitInv == BatchInit => Inv
  <1> SUFFICES ASSUME BatchInit PROVE Inv OBVIOUS
  <1>1. SignalType /\ BookType /\ DiskType
    BY DEF BatchInit, SignalType, BookType, DiskType, Item, State
  <1>0. BatchSize \in Nat /\ Call \subseteq Nat  BY BatchAssumption DEF Call
  <1>8. phase = "prepare" /\ next = 1 /\ watching = TRUE /\ control = "none"  BY DEF BatchInit
  <1>9. \A i \in Call : work[i] = "none" /\ item[i] = "nil"  BY DEF BatchInit
  <1>2. LoopType  BY <1>0, <1>8 DEF LoopType, Phase
  <1>3. <<>> \in Seq({"start", "result"}) /\ <<>> \in Seq(Call)  OBVIOUS
  <1>4. HostType /\ TaskType  BY <1>3 DEF BatchInit, HostType, TaskType, WorkStage
  <1>5. BatchTypeOK  BY <1>1, <1>2, <1>4 DEF BatchInit, BatchTypeOK
  <1>6. Loop  BY <1>8, <1>9 DEF Loop
  <1>7. Track /\ Truth /\ Intents /\ Order
    BY DEF BatchInit, Track, Truth, Intents, Order, Asleep
  <1> QED  BY <1>5, <1>6, <1>7 DEF Inv

-----------------------------------------------------------------------------
(* Types *)

LEMMA GroupsKept ==
  /\ SignalType /\ UNCHANGED signal => SignalType'
  /\ LoopType /\ UNCHANGED loop => LoopType'
  /\ BookType /\ UNCHANGED book => BookType'
  /\ HostType /\ UNCHANGED host => HostType'
  /\ DiskType /\ UNCHANGED disk => DiskType'
  /\ TaskType /\ UNCHANGED task => TaskType'
  BY DEF SignalType, LoopType, BookType, HostType, DiskType, TaskType,
         signal, loop, book, host, disk, task

LEMMA FailType ==
  ASSUME SignalType, NEW cause \in Cause, Fail(cause) \/ HookGone PROVE SignalType'
  BY DEF SignalType, Fail, HookGone, Cause

\* What a delivered call was told to the host as.
LEMMA DeliverType ==
  ASSUME SignalType, BookType, HostType, NEW i \in Call, NEW s \in State,
         Deliver(i, s, Fail("hook")) \/ Deliver(i, s, HookGone)
  PROVE  SignalType' /\ BookType' /\ HostType'
  <1>1. SignalType'  BY FailType, GroupsKept DEF Deliver, Cause
  <1>2. BookType'  BY DEF Deliver, Mark, BookType, Item
  <1>3. HostType'
    <2>1. CASE UNCHANGED host  BY <2>1, GroupsKept
    <2>2. CASE heard' = [heard EXCEPT ![i] = Append(@, "start")] /\ UNCHANGED notified
      BY <2>2 DEF HostType
    <2>3. CASE /\ notified' = notified \cup {i}
               /\ heard' = [heard EXCEPT ![i] =
                    @ \o (IF i \in notified THEN <<>> ELSE <<"start">>) \o <<"result">>]
      <3> DEFINE told == IF i \in notified THEN <<>> ELSE <<"start">>
      <3>1. /\ <<>> \in Seq({"start", "result"}) /\ <<"start">> \in Seq({"start", "result"})
            /\ <<"result">> \in Seq({"start", "result"})
        OBVIOUS
      <3>2. told \in Seq({"start", "result"})  BY <3>1
      <3> HIDE DEF told
      <3>3. (heard[i] \o told) \o <<"result">> \in Seq({"start", "result"})
        BY <3>1, <3>2 DEF HostType
      <3>4. heard' = [heard EXCEPT ![i] = (heard[i] \o told) \o <<"result">>]
        BY <2>3 DEF told, HostType
      <3> QED  BY <2>3, <3>3, <3>4 DEF HostType
    <2> QED  BY <2>1, <2>2, <2>3 DEF Deliver
  <1> QED  BY <1>1, <1>2, <1>3

LEMMA PreflightType == ASSUME Inv, Preflight, UNCHANGED calls PROVE BatchTypeOK'
  <1> USE BatchAssumption, GroupsKept DEF Inv, GoOn, BatchTypeOK
  <1>1. CASE Observe
    <2>1. SignalType'  BY <1>1 DEF Observe, SignalType, Cause
    <2>2. LoopType'  BY <1>1 DEF Observe, LoopType, Phase, Call
    <2>3. BookType'  BY <1>1 DEF Observe, BookType, book, Mark, Item, State
    <2> QED  BY <1>1, <2>1, <2>2, <2>3 DEF Observe
  <1>2. CASE PrepareCall
    <2>1. SignalType'  BY <1>2 DEF PrepareCall, SignalType, Cause
    <2>2. next \in Call /\ phase' = "prepare" /\ next' = next + 1 /\ UNCHANGED <<watching, control>>
      BY <1>2 DEF PrepareCall, Loop
    <2>4. LoopType'  BY <2>2 DEF LoopType, Phase, Call
    <2>3. BookType'  BY <1>2 DEF PrepareCall, BookType, Refuse, Mark, Item, State
    <2> QED  BY <1>2, <2>1, <2>3, <2>4 DEF PrepareCall
  <1>3. CASE ClosePreflight
    <2>1. LoopType'  BY <1>3 DEF ClosePreflight, LoopType, Phase
    <2>2. BookType'  BY ZenonT(60), <1>3 DEF ClosePreflight, BookType, book, Item, State
    <2> QED  BY <1>3, <2>1, <2>2 DEF ClosePreflight
  <1>4. CASE DeliverTerminal
    <2>1. PICK i \in Those("terminal") : Deliver(i, Known(state[i]), Fail("hook"))
      BY <1>4 DEF DeliverTerminal
    <2>2. i \in Call /\ Known(state[i]) \in State  BY <2>1 DEF Those, Known, BookType, State
    <2> QED  BY <1>4, <2>1, <2>2, DeliverType DEF DeliverTerminal
  <1>5. CASE CollectIntents
    <2>1. LoopType'  BY <1>5 DEF CollectIntents, LoopType, Phase
    <2> QED  BY <1>5, <2>1 DEF CollectIntents
  <1>6. CASE RecordBatchIntents
    <2>1. LoopType'  BY <1>6 DEF RecordBatchIntents, LoopType, Phase
    <2>2. SignalType' /\ BookType' /\ DiskType'
      <3>1. CASE UNCHANGED <<disk, book, signal>>  BY <3>1
      <3>2. CASE \E k : RecordTogether(Alone(Candidates(k)))
        <4>1. PICK S : S \subseteq Call /\ RecordTogether(S)
          BY <3>2 DEF Alone, Candidates, Those
        <4>2. SignalType'  BY <4>1, FailType DEF RecordTogether, Cause
        <4>3. BookType'
          <5>1. CASE UNCHANGED book  BY <5>1
          <5>2. CASE /\ item' = [i \in Call |-> IF i \in S THEN "terminal" ELSE item[i]]
                     /\ state' = [i \in Call |-> IF i \in S THEN "not_executed" ELSE state[i]]
            BY <5>2 DEF BookType, Item, State
          <5> QED  BY <4>1, <5>1, <5>2 DEF RecordTogether
        <4>4. DiskType'  BY <4>1 DEF RecordTogether, DiskType, disk
        <4> QED  BY <4>2, <4>3, <4>4
      <3> QED  BY <1>6, <3>1, <3>2 DEF RecordBatchIntents
    <2> QED  BY <1>6, <2>1, <2>2 DEF RecordBatchIntents
  <1> QED  BY <1>1, <1>2, <1>3, <1>4, <1>5, <1>6 DEF Preflight

LEMMA ScheduleType == ASSUME Inv, Schedule, UNCHANGED calls PROVE BatchTypeOK'
  <1> USE BatchAssumption, GroupsKept DEF Inv, GoOn, BatchTypeOK
  <1>1. CASE Announce
    <2>1. PICK i \in Call :
            /\ next' = i
            /\ \/ UNCHANGED <<host, signal>>
               \/ /\ heard' = [heard EXCEPT ![i] = Append(@, "start")]
                  /\ notified' \in {notified, notified \cup {i}}
                  /\ UNCHANGED signal \/ Fail("hook")
      BY <1>1 DEF Announce
    <2>2. SignalType'  BY <2>1, FailType DEF Cause
    <2>3. LoopType'  BY <1>1, <2>1 DEF Announce, LoopType, Phase, Call
    <2>4. HostType'
      <3>1. Append(heard[i], "start") \in Seq({"start", "result"})  BY DEF HostType
      <3> QED  BY <2>1, <3>1 DEF HostType, host
    <2> QED  BY <1>1, <2>2, <2>3, <2>4 DEF Announce
  <1>2. CASE Launch
    <2>1. LoopType'  BY <1>2 DEF Launch, LoopType, Phase
    <2>2. BookType'  BY <1>2 DEF Launch, BookType, Item
    <2>3. TaskType'  BY <1>2 DEF Launch, TaskType, Move, WorkStage
    <2> QED  BY <1>2, <2>1, <2>2, <2>3 DEF Launch
  <1>3. CASE FillEnds
    <2>1. LoopType'  BY <1>3 DEF FillEnds, LoopType, Phase
    <2> QED  BY <1>3, <2>1 DEF FillEnds
  <1>4. CASE Check
    <2>1. LoopType'  BY <1>4 DEF Check, LoopType, Phase
    <2>2. SignalType'  BY <1>4 DEF Check, SignalType, Cause
    <2> QED  BY <1>4, <2>1, <2>2 DEF Check
  <1>5. CASE Drain
    <2>1. PICK i \in NeverStarted : Deliver(i, "not_executed", HookGone)  BY <1>5 DEF Drain
    <2>2. i \in Call /\ "not_executed" \in State  BY <2>1 DEF NeverStarted, Those, State
    <2> QED  BY <1>5, <2>1, <2>2, DeliverType DEF Drain
  <1>6. CASE DrainEnds
    <2>1. LoopType'  BY <1>6 DEF DrainEnds, LoopType, Phase
    <2> QED  BY <1>6, <2>1 DEF DrainEnds
  <1>7. CASE Receive
    <2>1. TaskType'  BY <1>7 DEF Receive, TaskType
    <2>2. LoopType'  BY <1>7 DEF Receive, LoopType, Phase
    <2>3. BookType'  BY <1>7 DEF Receive, BookType, Item
    <2>4. HostType'
      <3> USE <1>7
      <3>1. \A i \in Call : Append(heard[i], "result") \in Seq({"start", "result"})
        BY DEF HostType
      <3>2. /\ UNCHANGED notified
            /\ \/ UNCHANGED heard
               \/ heard' = [heard EXCEPT ![Head(sent)] = Append(heard[Head(sent)], "result")]
        BY <1>7 DEF Receive, HostType
      <3>3. Head(sent) \in Call  BY <1>7 DEF Receive, TaskType
      <3>4. CASE heard' = [heard EXCEPT ![Head(sent)] = Append(heard[Head(sent)], "result")]
        BY <3>1, <3>2, <3>3, <3>4 DEF HostType
      <3>5. CASE UNCHANGED heard  BY <3>2, <3>5 DEF HostType
      <3> QED  BY <3>2, <3>4, <3>5
    <2>5. SignalType'  BY <1>7 DEF Receive, SignalType, Cause
    <2> QED  BY <1>7, <2>1, <2>2, <2>3, <2>4, <2>5 DEF Receive
  <1>8. CASE WakeUp
    <2>1. LoopType'  BY <1>8 DEF WakeUp, LoopType, Phase
    <2> QED  BY <1>8, <2>1 DEF WakeUp
  <1>9. CASE Finalize
    <2>1. LoopType'  BY <1>9 DEF Finalize, ResolveControl, LoopType, Phase
    <2> QED  BY <1>9, <2>1 DEF Finalize
  <1> QED  BY <1>1, <1>2, <1>3, <1>4, <1>5, <1>6, <1>7, <1>8, <1>9 DEF Schedule

\* A goroutine leaves the loop's variables alone.
LEMMA ExecuteType == ASSUME Inv, NEW i \in Call, Execute(i), UNCHANGED calls PROVE BatchTypeOK'
  <1> USE DEF Inv, BatchTypeOK
  <1>1. UNCHANGED <<signal, loop, host, item>>
    BY DEF Execute, StartWork, AcquireClaim, Recheck, RecordIntent, EnterTool, ToolReturns,
           RecordCompletion, Send, Quiet
  <1>2. BookType' /\ DiskType'
    <2>1. UNCHANGED state \/ \E s \in State : state' = [state EXCEPT ![i] = s]
      BY DEF Execute, StartWork, AcquireClaim, Recheck, RecordIntent, EnterTool, ToolReturns,
             RecordCompletion, Send, Mark, State
    <2>2. UNCHANGED recorded /\ log' \in {log, [log EXCEPT ![i] = "intent"], [log EXCEPT ![i] = "complete"]}
      BY DEF Execute, StartWork, AcquireClaim, Recheck, RecordIntent, EnterTool, ToolReturns,
             RecordCompletion, Send, disk
    <2> QED  BY <1>1, <2>1, <2>2 DEF BookType, DiskType
  <1>3. TaskType'
    <2>1. \E stage \in WorkStage : work' = [work EXCEPT ![i] = stage]
      BY DEF Execute, StartWork, AcquireClaim, Recheck, RecordIntent, EnterTool, ToolReturns, Recording,
             RecordCompletion, Send, Move, WorkStage
    <2>2. began' \in {began, began \cup {i}} /\ sent' \in {sent, Append(sent, i)}
      BY DEF Execute, StartWork, AcquireClaim, Recheck, RecordIntent, EnterTool, ToolReturns,
             RecordCompletion, Send
    <2>3. UNCHANGED flags \/ \E f \in {"asks", "faulty"} : flags' = [flags EXCEPT ![i] = flags[i] \cup {f}]
      BY DEF Execute, StartWork, AcquireClaim, Recheck, RecordIntent, EnterTool, ToolReturns,
             RecordCompletion, Send, TaskType
    <2> QED  BY <2>1, <2>2, <2>3 DEF TaskType
  <1> QED  BY <1>1, <1>2, <1>3, GroupsKept

-----------------------------------------------------------------------------
(* Preservation *)

\* A step of the loop before there is a goroutine.
LEMMA PreflightKeeps ==
  ASSUME Inv, Preflight, UNCHANGED calls
  PROVE  Loop' /\ Track' /\ Truth' /\ Intents' /\ Order'
  <1> USE DEF Inv, GoOn, book, disk, task, loop
  <1>1. /\ phase \in Early /\ UNCHANGED <<work, began>>
        /\ phase' \in Early \cup {"finalize", "fill"}
    BY DEF Preflight, Observe, PrepareCall, ClosePreflight, DeliverTerminal, CollectIntents,
           RecordBatchIntents, Early
  <1>2. \A i \in Call : work[i] = "none" /\ work'[i] = "none" /\ i \notin began
    BY <1>1 DEF Loop, Track
  <1>3. Order'  BY <1>2 DEF Order
  <1>4. Intents'
    <2>1. CASE RecordBatchIntents
      <3>1. CASE UNCHANGED disk  BY <1>1, <1>2, <3>1 DEF Intents
      <3>2. CASE \E S \in SUBSET Call :
              /\ recorded' = recorded \cup S
              /\ log' = [i \in Call |-> IF i \in S THEN "intent" ELSE log[i]]
        BY <1>1, <1>2, <3>2 DEF Intents, BatchTypeOK, DiskType
      <3>3. \A k : Alone(Candidates(k)) \in SUBSET Call  BY DEF Alone, Candidates, Those
      <3> QED  BY <2>1, <3>1, <3>2, <3>3 DEF RecordBatchIntents, RecordTogether
    <2>2. CASE UNCHANGED disk  BY <1>1, <1>2, <2>2 DEF Intents
    <2> QED  BY <2>1, <2>2 DEF Preflight, Observe, PrepareCall, ClosePreflight,
                               DeliverTerminal, CollectIntents
  <1>5. Track' /\ Truth'
    <2>1. \A i \in Call :
            /\ item'[i] \in {"nil", "accepted"} => state'[i] = ""
            /\ item'[i] = "terminal" => state'[i] \in {"", "failed", "rejected", "not_executed"}
            /\ state'[i] \in {"", "failed", "rejected", "not_executed"} \/ state'[i] = state[i]
      <3> USE DEF BatchTypeOK, BookType, Loop, Track
      <3>1. CASE Observe
        <4>1. CASE UNCHANGED book  BY <4>1
        <4>2. CASE /\ item' = [item EXCEPT ![next] = "terminal"]
                   /\ state' = [state EXCEPT ![next] = "not_executed"]
          BY <4>2
        <4> QED  BY <3>1, <4>1, <4>2 DEF Observe, Mark
      <3>2. CASE PrepareCall
        <4>1. next \in Call /\ item[next] = "nil"  BY <3>2, NextIsNew DEF PrepareCall
        <4>4. state[next] = ""  BY <4>1
        <4>3. \/ item' = [item EXCEPT ![next] = "accepted"] /\ UNCHANGED state
              \/ /\ item' = [item EXCEPT ![next] = "terminal"]
                 /\ \E s \in {"", "failed", "rejected", "not_executed"} : state' = [state EXCEPT ![next] = s]
          BY <3>2 DEF PrepareCall, Refuse, Mark
        <4> QED  BY <4>1, <4>4, <4>3
      <3>3. CASE ClosePreflight
        <4>1. \A i \in Call : item[i] \in {"nil", "terminal", "accepted"}
          BY <3>3 DEF ClosePreflight
        <4>2. CASE UNCHANGED book  BY <4>2
        <4>3. CASE /\ item' = [i \in Call |-> "terminal"]
                   /\ state' = [i \in Call |-> IF item[i] = "accepted" THEN "not_executed" ELSE state[i]]
          BY <4>1, <4>3
        <4> QED  BY <3>3, <4>2, <4>3 DEF ClosePreflight
      <3>4. CASE DeliverTerminal
        <4>1. PICK i \in Those("terminal") : Deliver(i, Known(state[i]), Fail("hook"))
          BY <3>4 DEF DeliverTerminal
        <4> QED  BY <4>1 DEF Those, Deliver, Mark, Known
      <3>5. CASE UNCHANGED book  BY <3>5
      <3>6. CASE RecordBatchIntents
        <4>1. CASE UNCHANGED book  BY <4>1
        <4>2. CASE \E S : /\ item' = [i \in Call |-> IF i \in S THEN "terminal" ELSE item[i]]
                          /\ state' = [i \in Call |-> IF i \in S THEN "not_executed" ELSE state[i]]
          BY <4>2
        <4> QED  BY <3>6, <4>1, <4>2 DEF RecordBatchIntents, RecordTogether
      <3> QED  BY <3>1, <3>2, <3>3, <3>4, <3>5, <3>6 DEF Preflight, CollectIntents
    <2>2. Track'  BY <1>1, <1>2, <2>1 DEF Track, Asleep
    <2>3. Truth'  BY <1>1, <1>2, <2>1 DEF Truth
    <2> QED  BY <2>2, <2>3
  <1>6. Loop'
    <2>1. phase' \in Early => \A i \in Call : work'[i] = "none"  BY <1>2
    <2>2. phase' = "preparing" => next' \in Call
      BY DEF Preflight, Observe, PrepareCall, ClosePreflight, DeliverTerminal, CollectIntents,
             RecordBatchIntents, Loop
    <2>3. phase' # "launch"  BY <1>1 DEF Early
    <2>4. ASSUME phase' \in {"prepare", "preparing"}
          PROVE  next' # 0 /\ \A i \in Call :
                   item'[i] \in {"nil", "terminal", "accepted"} /\ (i >= next' => item'[i] = "nil")
      <3>0. next \in Nat /\ Call \subseteq Nat  BY BatchAssumption DEF BatchTypeOK, LoopType, Call
      <3>1. CASE Observe
        <4>1. \/ UNCHANGED <<next, item>>
              \/ next' = next + 1 /\ item' = [item EXCEPT ![next] = "terminal"]
          BY <3>1 DEF Observe
        <4>2. next \in Call /\ phase = "prepare"  BY <3>1 DEF Observe
        <4> QED  BY <3>0, <4>1, <4>2 DEF Loop, BatchTypeOK, BookType
      <3>2. CASE PrepareCall
        <4>1. /\ phase = "preparing" /\ next' = next + 1
              /\ \E s \in {"terminal", "accepted"} : item' = [item EXCEPT ![next] = s]
          BY <3>2 DEF PrepareCall, Refuse
        <4> QED  BY <3>0, <4>1 DEF Loop, BatchTypeOK, BookType
      <3>3. CASE ~Observe /\ ~PrepareCall
        BY <2>4, <3>3 DEF Preflight, ClosePreflight, DeliverTerminal, CollectIntents, RecordBatchIntents
      <3> QED  BY <3>1, <3>2, <3>3
    <2> QED  BY <2>1, <2>2, <2>3, <2>4 DEF Loop
  <1> QED  BY <1>3, <1>4, <1>5, <1>6

\* The scheduler: a launch needs what OnStart left as it was, and a call that is over
\* stays over.
LEMMA ScheduleKeeps ==
  ASSUME Inv, Schedule, UNCHANGED calls
  PROVE  Loop' /\ Track' /\ Truth' /\ Intents' /\ Order'
  <1> USE DEF Inv, GoOn, book, disk, task, loop
  <1>1. UNCHANGED <<began, recorded, log>> /\ phase' \notin Early
    BY DEF Schedule, Announce, Launch, FillEnds, Check, Drain, DrainEnds, Receive, WakeUp,
           Finalize, Early
  <1>2. Intents'
    <2>1. \A i \in Call : work'[i] = "ready" => work[i] = "ready"
      BY DEF Schedule, Announce, Launch, FillEnds, Check, Drain, DrainEnds, Receive, WakeUp,
             Finalize, Move, BatchTypeOK, TaskType
    <2> QED  BY <1>1, <2>1 DEF Intents
  <1>3. CASE Launch
    <2>1. CASE UNCHANGED <<item, work>>
      <3>1. phase' \notin {"prepare", "preparing", "launch"} /\ UNCHANGED state
        BY <1>3, <2>1 DEF Launch
      <3> QED  BY <1>1, <1>2, <2>1, <3>1 DEF Loop, Track, Truth, Order, Conflict
    <2>2. CASE ~UNCHANGED <<item, work>>
      <3>1. /\ next \in Call /\ item[next] = "accepted" /\ UNCHANGED state
            /\ item' = [item EXCEPT ![next] = "running"] /\ work' = [work EXCEPT ![next] = "entered"]
        BY <1>3, <2>2 DEF Launch, Loop, Move
      <3>2. phase' \notin {"prepare", "preparing", "launch"}  BY <1>3 DEF Launch
      <3>3. Loop'  BY <1>1, <3>2 DEF Loop
      <3>4. Track' /\ Truth'
        BY <1>1, <3>1 DEF Track, Truth, Asleep, BatchTypeOK, BookType, TaskType
      <3>5. \A j \in 1..next - 1 : item[j] # "done" => ~Conflict(next, j)
        BY <1>3 DEF Launch, Loop
      <3>6. Order'
        <4> SUFFICES ASSUME NEW i \in Call, NEW j \in Call, i < j, Conflict(i, j)', work'[j] # "none"
                     PROVE  item'[i] = "done"
          BY DEF Order
        <4>1. Conflict(i, j) /\ Conflict(j, i)  BY DEF Conflict
        <4>2. CASE j = next
          <5>1. i \in 1..next - 1  BY <3>1, <4>2 DEF Call
          <5>2. item[i] = "done"  BY <3>5, <4>1, <4>2, <5>1
          <5> QED  BY <3>1, <5>2 DEF BatchTypeOK, BookType
        <4>3. CASE j # next
          <5>1. item[i] = "done"  BY <3>1, <4>1, <4>3 DEF Order, BatchTypeOK, TaskType
          <5> QED  BY <3>1, <5>1 DEF BatchTypeOK, BookType
        <4> QED  BY <4>2, <4>3
      <3> QED  BY <1>2, <3>3, <3>4, <3>6
    <2> QED  BY <1>2, <2>1, <2>2
  <1>4. CASE Announce
    <2>1. UNCHANGED <<item, state, work>>  BY <1>4 DEF Announce
    <2>2. Track' /\ Truth' /\ Order'  BY <1>1, <2>1 DEF Track, Truth, Order, Conflict
    <2>3. PICK i \in Call : NextRunnable(i) /\ next' = i  BY <1>4 DEF Announce
    <2>4. \A j : Conflict(i, j)' = Conflict(i, j)  BY DEF Conflict
    <2>5. item[i] = "accepted" /\ \A j \in 1..i - 1 : item[j] # "done" => ~Conflict(i, j)
      BY <2>3 DEF NextRunnable, Runnable, CanStartCall
    <2>6. phase' \in {"launch", "check"}  BY <1>4 DEF Announce
    <2>7. Loop'  BY <1>1, <2>1, <2>3, <2>4, <2>5, <2>6 DEF Loop
    <2> QED  BY <1>2, <2>2, <2>7
  <1>5. CASE ~Launch /\ ~Announce
    <2>1. phase' \notin {"prepare", "preparing", "launch"} /\ UNCHANGED work
      BY <1>5 DEF Schedule, FillEnds, Check, Drain, DrainEnds, Receive, WakeUp, Finalize
    <2>2. Loop'  BY <1>1, <2>1 DEF Loop
    <2>3. CASE UNCHANGED book  BY <1>1, <1>2, <2>1, <2>2, <2>3 DEF Track, Truth, Order, Conflict
    <2>4. CASE Drain
      <3>1. PICK i \in NeverStarted : Deliver(i, "not_executed", HookGone)  BY <2>4 DEF Drain
      <3>2. /\ i \in Call /\ item[i] \in {"terminal", "accepted"}
            /\ item' = [item EXCEPT ![i] = "done"] /\ state' = [state EXCEPT ![i] = "not_executed"]
        BY <3>1 DEF NeverStarted, Those, Deliver, Mark
      <3>3. work[i] = "none" /\ i \notin began  BY <3>2 DEF Track
      <3>4. Track' /\ Truth'
        BY <1>1, <2>1, <3>2, <3>3 DEF Track, Truth, Asleep, BatchTypeOK, BookType
      <3>5. Order'  BY <2>1, <3>2 DEF Order, Conflict, BatchTypeOK, BookType
      <3> QED  BY <1>2, <2>2, <3>4, <3>5
    <2>5. CASE Receive
      <3>1. item' = [item EXCEPT ![Head(sent)] = "done"] /\ UNCHANGED state
        BY <2>5 DEF Receive
      <3>2. \A i \in Call : item'[i] = item[i] \/ item'[i] = "done"
        BY <3>1 DEF BatchTypeOK, BookType
      <3>3. Track' /\ Truth' /\ Order'
        BY <1>1, <2>1, <3>1, <3>2 DEF Track, Truth, Order, Conflict
      <3> QED  BY <1>2, <2>2, <3>3
    <2> QED
      BY <1>5, <2>3, <2>4, <2>5 DEF Schedule, FillEnds, Check, DrainEnds, WakeUp, Finalize
  <1> QED  BY <1>3, <1>4, <1>5

\* A goroutine: it was launched, so it changes nothing but its own call.
LEMMA ExecuteKeeps ==
  ASSUME Inv, NEW i \in Call, Execute(i), UNCHANGED calls
  PROVE  Loop' /\ Track' /\ Truth' /\ Intents' /\ Order'
  <1> USE DEF Inv, Quiet, loop, disk
  <1>1. UNCHANGED <<phase, next, item, recorded>>
    BY DEF Execute, StartWork, AcquireClaim, Recheck, RecordIntent, EnterTool, ToolReturns,
           RecordCompletion, Send
  <1>2. \A j \in Call \ {i} : work'[j] = work[j] /\ state'[j] = state[j] /\ log'[j] = log[j]
                              /\ (j \in began' <=> j \in began)
    BY DEF Execute, StartWork, AcquireClaim, Recheck, RecordIntent, EnterTool, ToolReturns,
           RecordCompletion, Send, Move, Mark, BatchTypeOK, BookType, DiskType, TaskType
  <1>3. work[i] # "none" /\ work'[i] # "none"
    BY DEF Execute, StartWork, AcquireClaim, Recheck, RecordIntent, EnterTool, ToolReturns, Recording,
           RecordCompletion, Send, Move, BatchTypeOK, TaskType
  <1>4. item[i] \notin {"nil", "terminal", "accepted"}  BY <1>3 DEF Track
  <1>5. \A j \in Call : (work'[j] = "none") = (work[j] = "none")  BY <1>2, <1>3
  <1>6. Loop'  BY <1>1, <1>5 DEF Loop, Conflict
  <1>7. Order'  BY <1>1, <1>5 DEF Order, Conflict
  <1>8. /\ work'[i] \in Asleep \cup {"executing"} => state'[i] = ""
        /\ work'[i] \in Asleep => i \notin began'
        /\ work'[i] \in {"executing", "ended"} => i \in began'
        /\ state'[i] = "not_executed" => i \notin began'
        /\ state'[i] \in {"succeeded", "cancelled", "outcome_unknown"} => i \in began'
    <2> USE DEF Track, Truth, Asleep, Move, Mark, BatchTypeOK, BookType, TaskType
    <2>1. CASE StartWork(i)  BY <2>1 DEF StartWork
    <2>2. CASE AcquireClaim(i)  BY <2>2 DEF AcquireClaim
    <2>3. CASE Recheck(i)  BY <2>3 DEF Recheck
    <2>4. CASE RecordIntent(i)  BY <2>4 DEF RecordIntent
    <2>5. CASE EnterTool(i)  BY <2>5 DEF EnterTool
    <2>6. CASE ToolReturns(i)  BY <2>6 DEF ToolReturns, Recording
    <2>7. CASE RecordCompletion(i)  BY <2>7 DEF RecordCompletion
    <2>8. CASE Send(i)  BY <2>8 DEF Send
    <2> QED  BY <2>1, <2>2, <2>3, <2>4, <2>5, <2>6, <2>7, <2>8 DEF Execute
  <1>9. Track' /\ Truth'  BY <1>1, <1>2, <1>3, <1>4, <1>8 DEF Track, Truth
  <1>10. Intents'
    <2>1. log'[i] = log[i] \/ log'[i] # "none"
      BY DEF Execute, StartWork, AcquireClaim, Recheck, RecordIntent, EnterTool, ToolReturns,
             RecordCompletion, Send, BatchTypeOK, DiskType
    <2>2. i \in recorded' => log'[i] # "none"  BY <1>1, <2>1 DEF Intents
    <2>3. calls[i].effect /\ (work'[i] = "ready" \/ i \in began') => log'[i] # "none"
      <3> USE DEF Intents, Move, BatchTypeOK, TaskType, DiskType
      <3>1. CASE Recheck(i)  BY <3>1 DEF Recheck
      <3>2. CASE RecordIntent(i)  BY <3>2, <2>1 DEF RecordIntent
      <3>3. CASE EnterTool(i)  BY <3>3 DEF EnterTool
      <3>4. CASE ~Recheck(i) /\ ~RecordIntent(i) /\ ~EnterTool(i)
        <4>1. work'[i] # "ready" /\ UNCHANGED began
          BY <3>4 DEF Execute, StartWork, AcquireClaim, ToolReturns, Recording, RecordCompletion, Send
        <4> QED  BY <2>1, <4>1
      <3> QED  BY <3>1, <3>2, <3>3, <3>4
    <2> QED  BY <1>1, <1>2, <2>2, <2>3 DEF Intents, BatchTypeOK, DiskType
  <1> QED  BY <1>6, <1>7, <1>9, <1>10

-----------------------------------------------------------------------------
LEMMA NextKeepsInv == Inv /\ [BatchNext]_batchVars => Inv'
  <1> SUFFICES ASSUME Inv, [BatchNext]_batchVars PROVE Inv' OBVIOUS
  <1>1. CASE UNCHANGED batchVars
    BY <1>1, GroupsKept DEF Inv, batchVars, BatchTypeOK, Loop, Track, Truth, Intents, Order, Conflict,
                            signal, loop, book, host, disk, task
  <1>2. CASE UNCHANGED calls /\ Preflight
    BY <1>2, PreflightType, PreflightKeeps DEF Inv
  <1>3. CASE UNCHANGED calls /\ Schedule
    BY <1>3, ScheduleType, ScheduleKeeps DEF Inv
  <1>4. CASE UNCHANGED calls /\ \E i \in Call : Execute(i)
    BY <1>4, ExecuteType, ExecuteKeeps DEF Inv
  <1>5. CASE UNCHANGED calls /\ Cancel
    <2>1. BatchTypeOK'  BY <1>5, GroupsKept DEF Cancel, Inv, BatchTypeOK, SignalType
    <2>2. Loop' /\ Track' /\ Truth' /\ Intents' /\ Order'
      BY <1>5 DEF Cancel, Inv, Loop, Track, Truth, Intents, Order, Conflict, loop, book, disk, task
    <2> QED  BY <2>1, <2>2 DEF Inv
  <1> QED  BY <1>1, <1>2, <1>3, <1>4, <1>5 DEF BatchNext, Returned

LEMMA InvAlways == BatchSpec => []Inv
  BY InitInv, NextKeepsInv, PTL DEF BatchSpec

\* Every variable of the batch keeps its type.
THEOREM BatchTyped == BatchSpec => []BatchTypeOK
  <1>1. Inv => BatchTypeOK  BY DEF Inv
  <1> QED  BY <1>1, InvAlways, PTL

\* No tool with an effect is entered before its intent is in the session log.
THEOREM IntentComesFirst == BatchSpec => []IntentBeforeEffect
  <1>1. Inv => IntentBeforeEffect
    BY DEF Inv, Intents, IntentBeforeEffect, BatchTypeOK, TaskType
  <1> QED  BY <1>1, InvAlways, PTL

\* Conflicting calls of a response run one after the other, in its order.
THEOREM OrderKept == BatchSpec => []ConflictsRunInOrder
  <1>1. Inv => ConflictsRunInOrder
    BY DEF Inv, Order, Track, ConflictsRunInOrder
  <1> QED  BY <1>1, InvAlways, PTL

\* What a call is reported as agrees with whether its tool was entered.
THEOREM ReportsAreTrue == BatchSpec => []ReportIsTrue
  <1>1. Inv => ReportIsTrue  BY DEF Inv, Truth, ReportIsTrue, Those
  <1> QED  BY <1>1, InvAlways, PTL
-----------------------------------------------------------------------------
(* How a batch ends *)

\* A batch that has lost its hooks, or was cut, has an error to report.
Signals == ~hooks \/ cut => batchErr # {}

\* Where the loop is says how far the calls are: prepared, with one left to do, or all
\* over. It looks for a call that runs only when it has launched one, or has to stop.
Progress ==
  /\ phase \in {"prepare", "preparing"} => \A i \in Call : i < next => item[i] # "nil"
  /\ phase \notin {"prepare", "preparing"} => \A i \in Call : item[i] # "nil"
  /\ phase = "intents" => Those("terminal") = {}
  /\ phase \notin Early /\ Those("terminal") # {} => Stopped
  /\ phase \in {"fill", "select"} => Those("done") # Call
  /\ phase = "check" => Stopped \/ Those("running") # {}
  /\ phase = "drain" => Stopped
  /\ phase = "finalize" => Those("done") = Call
  /\ control # "none" => phase = "finalize"
  /\ "scheduler" \notin batchErr

\* A call runs as long as its goroutine does; what is sent is received once.
Workers ==
  /\ \A i \in Call : work[i] \notin {"none", "sent"} => item[i] = "running"
  /\ \A i \in Call : item[i] = "running" => work[i] # "none"
  /\ \A k \in DOMAIN sent : item[sent[k]] = "running" /\ work[sent[k]] = "sent"
  /\ \A k, l \in DOMAIN sent : sent[k] = sent[l] => k = l

\* What the host has heard of a call, by how far the call is. A call that was announced
\* and not launched is left to the drain.
Hearing ==
  /\ phase = "launch" => heard[next] = <<"start">>
  /\ \A i \in Call :
       /\ item[i] \in {"nil", "terminal"} => heard[i] = <<>> /\ i \notin notified
       /\ phase \in Early /\ item[i] = "accepted" => heard[i] = <<>> /\ i \notin notified
       /\ item[i] = "accepted" =>
            \/ heard[i] = <<>> /\ i \notin notified
            \/ /\ heard[i] = <<"start">> /\ (hooks => i \in notified)
               /\ Stopped \/ (phase = "launch" /\ next = i)
       /\ item[i] = "running" => heard[i] = <<"start">>
       /\ item[i] = "done" => /\ heard[i] \in {<<>>, <<"start">>, <<"start", "result">>}
                              /\ hooks => heard[i] = <<"start", "result">>

\* Why a call has the state it has, and where the blame for it waits until the loop
\* receives the call.
Outcomes ==
  \A i \in Call :
    /\ item[i] = "done" \/ work[i] \in {"ended", "over", "sent"} => state[i] # ""
    /\ state[i] = "not_executed" => Stopped \/ "faulty" \in flags[i]
    /\ state[i] = "outcome_unknown" => "asks" \in flags[i]
    /\ item[i] = "done" => /\ "faulty" \in flags[i] => batchErr # {}
                           /\ "asks" \in flags[i] => interrupted
    /\ calls[i].effect /\ state[i] \in {"succeeded", "cancelled"} =>
         \/ work[i] = "ended" \/ log[i] = "complete" \/ "faulty" \in flags[i]
    /\ "asks" \in flags[i] => calls[i].reports
    /\ flags[i] # {} => work[i] \in {"ended", "over", "sent"}

\* An interruption finds no goroutine before its tool: the call that asks for it is
\* exclusive.
Quieted == interrupted => \A i \in Call : work[i] \in {"none", "sent"}

ClosedInv == Inv /\ Signals /\ Progress /\ Workers /\ Hearing /\ Outcomes /\ Quieted

\* What the host hears of a call that is announced with its result.
LEMMA BothHeard ==
  /\ Append(<<"start">>, "result") = <<"start", "result">>
  /\ (<<>> \o <<"start">>) \o <<"result">> = <<"start", "result">>
  /\ (<<"start">> \o <<>>) \o <<"result">> = <<"start", "result">>
  <1> DEFINE s == <<"start">> \o <<"result">>
             t == <<"start", "result">>
  <1>1. /\ <<"start">> \in Seq({"start", "result"}) /\ <<"result">> \in Seq({"start", "result"})
        /\ Append(<<"start">>, "result") = s
        /\ <<>> \o <<"start">> = <<"start">> /\ <<"start">> \o <<>> = <<"start">>
    OBVIOUS
  <1>2. /\ Len(s) = 2 /\ s[1] = "start" /\ s[2] = "result" /\ s \in Seq({"start", "result"})
        /\ Len(t) = 2 /\ t[1] = "start" /\ t[2] = "result" /\ t \in Seq({"start", "result"})
    BY <1>1
  <1>3. ASSUME NEW u, u = s PROVE u = t
    <2> HIDE DEF s, t
    <2>1. \A i \in 1..Len(s) : s[i] = t[i]
      <3>1. \A i \in 1..2 : i = 1 \/ i = 2  OBVIOUS
      <3> QED  BY <1>2, <3>1
    <2> QED  BY <1>2, <1>3, <2>1, SeqEqual
  <1>4. s = t  BY <1>3
  <1> QED  BY <1>1, <1>4

LEMMA InitClosed == BatchInit => ClosedInv
  <1> SUFFICES ASSUME BatchInit PROVE ClosedInv OBVIOUS
  <1>1. Inv  BY InitInv
  <1>2. /\ phase = "prepare" /\ next = 1 /\ hooks /\ ~cut /\ ~interrupted /\ batchErr = {}
        /\ control = "none" /\ sent = <<>> /\ notified = {}
        /\ \A i \in Call : /\ item[i] = "nil" /\ state[i] = "" /\ heard[i] = <<>>
                           /\ work[i] = "none" /\ flags[i] = {}
    BY DEF BatchInit
  <1>3. Progress
    <2>1. \A i \in Call : ~ (i < 1)  BY BatchAssumption DEF Call
    <2> QED  BY <1>2, <2>1 DEF Progress, Early
  <1>4. Signals /\ Quieted  BY <1>2 DEF Signals, Quieted
  <1>6. Workers
    <2>1. DOMAIN sent = {}
      <3>1. sent = <<>>  BY DEF BatchInit
      <3> QED  BY <3>1
    <2> QED  BY <1>2, <2>1 DEF Workers
  <1>7. Hearing  BY <1>2 DEF Hearing
  <1>8. Outcomes  BY <1>2 DEF Outcomes
  <1> QED  BY <1>1, <1>3, <1>4, <1>6, <1>7, <1>8 DEF ClosedInv

\* Nothing that stops a batch is taken back, and hooks that are gone stay gone.
LEMMA SignalsGrow ==
  ASSUME BatchTypeOK, Signals, Preflight \/ Schedule \/ Cancel
  PROVE  /\ Signals' /\ (Stopped => Stopped') /\ (batchErr # {} => batchErr' # {})
         /\ (interrupted => interrupted') /\ (hooks' => hooks)
  <1> USE DEF Signals, Stopped, BatchDone, BatchTypeOK, SignalType
  <1>1. CASE UNCHANGED signal  BY <1>1 DEF signal
  <1>2. ASSUME NEW cause, Fail(cause) \/ HookGone
        PROVE  Signals' /\ Stopped' /\ batchErr' # {} /\ (interrupted => interrupted') /\ ~hooks'
    BY <1>2 DEF Fail, HookGone
  <1>3. CASE Observe  BY <1>3 DEF Observe
  <1>4. CASE PrepareCall
    <2>1. /\ UNCHANGED <<cancelled, cut, hooks>>
          /\ batchErr' = batchErr \/ batchErr' = batchErr \cup {"approval"}
          /\ interrupted' = interrupted \/ interrupted' = TRUE
      BY <1>4 DEF PrepareCall
    <2> QED  BY <2>1
  <1>5. CASE DeliverTerminal  BY <1>1, <1>2, <1>5 DEF DeliverTerminal, Deliver
  <1>6. CASE RecordBatchIntents  BY <1>1, <1>2, <1>6 DEF RecordBatchIntents, RecordTogether
  <1>7. CASE Announce  BY <1>1, <1>2, <1>7 DEF Announce
  <1>8. CASE Check  BY <1>1, <1>8 DEF Check
  <1>9. CASE Drain  BY <1>1, <1>2, <1>9 DEF Drain, Deliver
  <1>10. CASE Receive  BY <1>10 DEF Receive
  <1>11. CASE Cancel  BY <1>11 DEF Cancel
  <1>12. CASE ClosePreflight \/ CollectIntents \/ Launch \/ FillEnds \/ DrainEnds \/ WakeUp \/ Finalize
    BY <1>1, <1>12 DEF ClosePreflight, CollectIntents, Launch, FillEnds, DrainEnds, WakeUp, Finalize
  <1> QED
    BY <1>3, <1>4, <1>5, <1>6, <1>7, <1>8, <1>9, <1>10, <1>11, <1>12 DEF Preflight, Schedule

\* Before there is a goroutine: what the host has heard of a call is the delivery alone.
LEMMA PreflightCloses ==
  ASSUME ClosedInv, Inv', Preflight, UNCHANGED calls
  PROVE  Progress' /\ Workers' /\ Hearing' /\ Outcomes' /\ Quieted'
  <1> USE DEF GoOn, book, disk, task, loop, host
  <1>0. BatchTypeOK /\ BatchTypeOK' /\ Loop /\ Track /\ Loop' /\ Track' /\ Truth'
    BY DEF ClosedInv, Inv
  <1>1. /\ phase \in Early /\ UNCHANGED <<work, flags, sent, began, control>>
        /\ phase' \in Early \cup {"finalize", "fill"}
    BY DEF Preflight, Observe, PrepareCall, ClosePreflight, DeliverTerminal, CollectIntents,
           RecordBatchIntents, Early
  <1>2. \A i \in Call : work[i] = "none" /\ work'[i] = "none" /\ i \notin began /\ i \notin began'
    BY <1>0, <1>1 DEF Loop, Track, Asleep
  <1>3. \A i \in Call : /\ item[i] \in {"nil", "terminal", "accepted", "done"}
                        /\ item'[i] \in {"nil", "terminal", "accepted", "done"}
    <2>1. \A i \in Call : item[i] # "running"  BY <1>2 DEF ClosedInv, Workers
    <2>2. \A i \in Call : item'[i] # "running"
      <3>1. CASE UNCHANGED item  BY <2>1, <3>1
      <3>2. CASE Observe  BY <1>0, <2>1, <3>2 DEF Observe, BatchTypeOK, BookType
      <3>3. CASE PrepareCall  BY <1>0, <2>1, <3>3 DEF PrepareCall, Refuse, BatchTypeOK, BookType
      <3>4. CASE ClosePreflight  BY <2>1, <3>4 DEF ClosePreflight
      <3>5. CASE DeliverTerminal  BY <1>0, <2>1, <3>5 DEF DeliverTerminal, Deliver, BatchTypeOK, BookType
      <3>6. CASE RecordBatchIntents
        <4>1. CASE UNCHANGED book  BY <2>1, <4>1
        <4>2. ASSUME NEW S, RecordTogether(S) PROVE \A i \in Call : item'[i] # "running"
          BY <2>1, <4>2 DEF RecordTogether
        <4> QED  BY <3>6, <4>1, <4>2 DEF RecordBatchIntents
      <3> QED  BY <3>1, <3>2, <3>3, <3>4, <3>5, <3>6 DEF Preflight, CollectIntents
    <2>3. \A i \in Call : item[i] \in Item /\ item'[i] \in Item  BY <1>0 DEF BatchTypeOK, BookType
    <2> QED  BY <2>1, <2>2, <2>3 DEF Item
  <1>4. Workers'
    <2>1. DOMAIN sent = {}
      <3> SUFFICES ASSUME NEW k \in DOMAIN sent PROVE FALSE OBVIOUS
      <3>1. sent[k] \in Call  BY <1>0 DEF BatchTypeOK, TaskType
      <3> QED  BY <1>2, <3>1 DEF ClosedInv, Workers
    <2>2. DOMAIN sent' = {}  BY <1>1, <2>1
    <2> QED  BY <1>2, <1>3, <2>2 DEF Workers
  <1>5. Quieted'  BY <1>2 DEF Quieted
  <1>6. \A i \in Call : flags'[i] = {}  BY <1>1, <1>2 DEF ClosedInv, Outcomes
  <1>7. ASSUME \A i \in Call : /\ item'[i] = "done" => state'[i] # ""
                               /\ state'[i] = "not_executed" => Stopped'
        PROVE  Outcomes'
    <2>1. \A i \in Call : state'[i] \notin {"succeeded", "cancelled", "outcome_unknown"}
      BY <1>0, <1>2 DEF Truth
    <2> QED  BY <1>2, <1>6, <1>7, <2>1 DEF Outcomes
  <1>8. /\ Signals /\ Progress /\ Hearing /\ Outcomes /\ (Stopped => Stopped')
        /\ (batchErr # {} => batchErr' # {}) /\ (hooks' => hooks)
    BY <1>0, SignalsGrow DEF ClosedInv
  <1>9. \A i \in Call : state[i] = "not_executed" => Stopped'
    BY <1>1, <1>2, <1>6, <1>8 DEF Outcomes
  <1>10. CASE Observe
    <2>1. next \in Call /\ phase = "prepare" /\ item[next] = "nil" /\ UNCHANGED <<host, hooks, control>>
      <3>1. next \in Call /\ phase = "prepare" /\ UNCHANGED <<host, hooks, control>>
        BY <1>10 DEF Observe
      <3>2. next >= next  BY <3>1 DEF Call
      <3> QED  BY <1>0, <3>1, <3>2 DEF Loop
    <2>2. CASE UNCHANGED book /\ phase' = "preparing" /\ UNCHANGED next
      <3>1. Progress'  BY <1>8, <1>10, <2>1, <2>2 DEF Progress, Early, Observe
      <3>2. Hearing'  BY <1>3, <1>8, <2>1, <2>2 DEF Hearing, Early
      <3>3. Outcomes'  BY <1>7, <1>8, <1>9, <2>2 DEF Outcomes
      <3> QED  BY <1>4, <1>5, <3>1, <3>2, <3>3
    <2>3. CASE /\ item' = [item EXCEPT ![next] = "terminal"] /\ Mark(next, "not_executed")
               /\ next' = next + 1 /\ UNCHANGED phase /\ (interrupted \/ batchErr' # {})
      <3>1. Stopped'  BY <1>10, <2>3 DEF Stopped, Observe
      <3>2. \A i \in Call : i < next + 1 => i < next \/ i = next  BY <2>1 DEF Call
      <3>3. Progress'
        BY <1>0, <1>8, <1>10, <2>1, <2>3, <3>2 DEF Progress, Early, Observe, BatchTypeOK, BookType
      <3>4. Hearing'  BY <1>0, <1>3, <1>8, <2>1, <2>3 DEF Hearing, Early, BatchTypeOK, BookType
      <3>5. Outcomes'  BY <1>0, <1>7, <1>8, <2>3, <3>1 DEF Outcomes, Mark, BatchTypeOK, BookType
      <3> QED  BY <1>4, <1>5, <3>3, <3>4, <3>5
    <2> QED  BY <1>10, <2>2, <2>3 DEF Observe
  <1>11. CASE PrepareCall
    <2>1. /\ next \in Call /\ phase = "preparing" /\ phase' = "prepare" /\ next' = next + 1
          /\ item[next] = "nil" /\ UNCHANGED <<host, hooks, control>>
      BY <1>0, <1>11, NextIsNew DEF PrepareCall
    <2>2. /\ \E s \in {"terminal", "accepted"} : item' = [item EXCEPT ![next] = s]
          /\ UNCHANGED state \/ \E s \in State : state' = [state EXCEPT ![next] = s]
      BY <1>11 DEF PrepareCall, Refuse, Mark, State
    <2>3. state'[next] = "not_executed" => Stopped'
      <3>1. state[next] = ""  BY <1>0, <2>1 DEF Track
      <3> QED
        BY <1>0, <1>8, <1>11, <2>1, <3>1 DEF PrepareCall, Refuse, Mark, Stopped, BatchDone, BatchTypeOK, BookType
    <2>4. \A i \in Call : i < next + 1 => i < next \/ i = next  BY <2>1 DEF Call
    <2>5. "scheduler" \notin batchErr'
      <3>1. batchErr' = batchErr \/ batchErr' = batchErr \cup {"approval"}
        BY <1>11 DEF PrepareCall
      <3>2. "scheduler" \notin batchErr  BY <1>8 DEF Progress
      <3> QED  BY <3>1, <3>2
    <2>6. Progress'
      BY <1>0, <1>8, <2>1, <2>2, <2>4, <2>5 DEF Progress, Early, BatchTypeOK, BookType
    <2>7. Hearing'
      <3>1. \A i \in Call \ {next} : item'[i] = item[i]  BY <1>0, <2>2 DEF BatchTypeOK, BookType
      <3>2. heard[next] = <<>> /\ next \notin notified  BY <1>8, <2>1 DEF Hearing
      <3> QED  BY <1>3, <1>8, <2>1, <2>2, <3>1, <3>2 DEF Hearing, Early
    <2>8. Outcomes'
      <3>1. \A i \in Call \ {next} : item'[i] = item[i] /\ state'[i] = state[i]
        BY <1>0, <2>2 DEF BatchTypeOK, BookType
      <3>2. item'[next] # "done"  BY <1>0, <2>1, <2>2 DEF BatchTypeOK, BookType
      <3> QED  BY <1>7, <1>8, <1>9, <2>1, <2>3, <3>1, <3>2 DEF Outcomes
    <2> QED  BY <1>4, <1>5, <2>6, <2>7, <2>8
  <1>12. CASE ClosePreflight
    <2>1. /\ phase = "prepare" /\ phase' = "deliver" /\ next \notin Call /\ UNCHANGED <<signal, next, host, control>>
      BY <1>12 DEF ClosePreflight
    <2>2. \A i \in Call : item[i] # "nil"
      <3>1. next # 0 /\ next \in 0..BatchSize + 1  BY <1>0, <2>1 DEF Loop, BatchTypeOK, LoopType
      <3>2. \A i \in Call : i < next  BY BatchAssumption, <2>1, <3>1 DEF Call
      <3> QED  BY <1>8, <2>1, <3>2 DEF Progress
    <2>3. \A i \in Call : item[i] \in {"terminal", "accepted"}  BY <1>0, <2>1, <2>2 DEF Loop
    <2>4. \/ UNCHANGED book
          \/ /\ Stopped' /\ item' = [i \in Call |-> "terminal"]
             /\ state' = [i \in Call |-> IF item[i] = "accepted" THEN "not_executed" ELSE state[i]]
      BY <1>8, <1>12 DEF ClosePreflight, Stopped
    <2>5. "scheduler" \notin batchErr' /\ hooks' = hooks  BY <1>8, <2>1 DEF Progress, signal
    <2>6. \A i \in Call : item'[i] \in {"terminal", "accepted"} /\ (item'[i] = "accepted" => item[i] = "accepted")
      BY <2>3, <2>4
    <2>7. Progress'  BY <1>8, <2>1, <2>5, <2>6 DEF Progress, Early
    <2>8. Hearing'  BY <1>8, <2>1, <2>3, <2>5, <2>6 DEF Hearing, Early
    <2>9. \A i \in Call : state'[i] = "not_executed" => Stopped'  BY <1>9, <2>4
    <2>10. Outcomes'  BY <1>7, <2>6, <2>9
    <2> QED  BY <1>4, <1>5, <2>7, <2>8, <2>10
  <1>13. CASE DeliverTerminal
    <2>1. PICK i \in Those("terminal") : Deliver(i, Known(state[i]), Fail("hook"))
      BY <1>13 DEF DeliverTerminal
    <2>2. i \in Call /\ item[i] = "terminal" /\ heard[i] = <<>> /\ i \notin notified
      BY <1>8, <2>1 DEF Those, Hearing
    <2>3. phase = "deliver" /\ UNCHANGED <<phase, next, control>>  BY <1>13 DEF DeliverTerminal
    <2>4. /\ item' = [item EXCEPT ![i] = "done"] /\ state' = [state EXCEPT ![i] = Known(state[i])]
      BY <2>1 DEF Deliver, Mark
    <2>5. \/ ~hooks /\ UNCHANGED <<host, signal>>
          \/ /\ hooks /\ notified' = notified \cup {i}
             /\ heard' = [heard EXCEPT ![i] = <<"start", "result">>]
             /\ UNCHANGED signal \/ Fail("hook")
          \/ hooks /\ heard' = [heard EXCEPT ![i] = <<"start">>] /\ UNCHANGED notified /\ Fail("hook")
      <3>1. (<<>> \o <<"start">>) \o <<"result">> = <<"start", "result">> /\ Append(<<>>, "start") = <<"start">>
        BY BothHeard
      <3>2. heard \in [Call -> Seq({"start", "result"})]  BY <1>0 DEF BatchTypeOK, HostType
      <3>3. ASSUME heard' = [heard EXCEPT ![i] =
                     @ \o (IF i \in notified THEN <<>> ELSE <<"start">>) \o <<"result">>]
            PROVE  heard' = [heard EXCEPT ![i] = <<"start", "result">>]
        BY <2>2, <3>1, <3>2, <3>3
      <3>4. ASSUME heard' = [heard EXCEPT ![i] = Append(@, "start")]
            PROVE  heard' = [heard EXCEPT ![i] = <<"start">>]
        BY <2>2, <3>1, <3>2, <3>4
      <3> QED  BY <2>1, <3>3, <3>4 DEF Deliver
    <2>6. "scheduler" \notin batchErr'  BY <1>8, <2>5 DEF Progress, signal, Fail
    <2>7. \A j \in Call : j # i => item'[j] = item[j] /\ state'[j] = state[j] /\ heard'[j] = heard[j]
                                   /\ (j \in notified' <=> j \in notified)
      BY <1>0, <2>4, <2>5 DEF BatchTypeOK, BookType, HostType
    <2>8. /\ item'[i] = "done" /\ state'[i] # "" /\ (state'[i] = "not_executed" => state[i] = "not_executed")
          /\ heard'[i] \in {<<>>, <<"start">>, <<"start", "result">>}
          /\ hooks' => heard'[i] = <<"start", "result">>
      <3>1. item'[i] = "done" /\ state'[i] = Known(state[i])  BY <1>0, <2>2, <2>4 DEF BatchTypeOK, BookType
      <3>2. /\ heard'[i] \in {<<>>, <<"start">>, <<"start", "result">>}
            /\ hooks' => heard'[i] = <<"start", "result">>
        BY <1>0, <2>2, <2>5 DEF BatchTypeOK, HostType, Fail, signal
      <3> QED  BY <3>1, <3>2 DEF Known
    <2>9. Progress'  BY <1>8, <2>2, <2>3, <2>6, <2>7, <2>8 DEF Progress, Early
    <2>10. Hearing'  BY <1>3, <1>8, <2>3, <2>7, <2>8 DEF Hearing, Early
    <2>11. Outcomes'  BY <1>7, <1>8, <1>9, <2>7, <2>8 DEF Outcomes
    <2> QED  BY <1>4, <1>5, <2>9, <2>10, <2>11
  <1>14. CASE CollectIntents
    <2>1. /\ phase = "deliver" /\ phase' = "intents" /\ Those("terminal") = {}
          /\ UNCHANGED <<signal, control, book, host>>
      BY <1>14 DEF CollectIntents
    <2>2. UNCHANGED <<item, state, heard, notified, hooks, batchErr>>  BY <2>1 DEF signal
    <2>3. Progress'  BY <1>8, <2>1, <2>2 DEF Progress, Early, Those
    <2>4. Hearing'  BY <1>3, <1>8, <2>1, <2>2 DEF Hearing, Early
    <2>5. Outcomes'  BY <1>7, <1>8, <1>9, <2>2 DEF Outcomes
    <2> QED  BY <1>4, <1>5, <2>3, <2>4, <2>5
  <1>15. CASE RecordBatchIntents
    <2>1. /\ phase = "intents" /\ phase' = (IF Those("done") = Call THEN "finalize" ELSE "fill")
          /\ UNCHANGED <<next, control, host>>
      BY <1>15 DEF RecordBatchIntents
    <2>2. \/ UNCHANGED <<book, signal>>
          \/ \E S \in SUBSET Those("accepted") :
               /\ Fail("checkpoint")
               /\ item' = [i \in Call |-> IF i \in S THEN "terminal" ELSE item[i]]
               /\ state' = [i \in Call |-> IF i \in S THEN "not_executed" ELSE state[i]]
      <3>1. \A k : Alone(Candidates(k)) \in SUBSET Those("accepted")  BY DEF Alone, Candidates
      <3> QED  BY <1>15, <3>1 DEF RecordBatchIntents, RecordTogether
    <2>3. "scheduler" \notin batchErr'  BY <1>8, <2>2 DEF Progress, signal, Fail
    <2>4. \A i \in Call : /\ item'[i] = item[i] \/ (item[i] = "accepted" /\ item'[i] = "terminal" /\ Stopped')
                          /\ state'[i] = state[i] \/ (state'[i] = "not_executed" /\ Stopped')
      BY <2>2 DEF Fail, Stopped, BatchDone, Those
    <2>5. \A i \in Call : item[i] \in {"accepted", "done"}
      BY <1>3, <1>8, <2>1 DEF Progress, Those
    <2>6. \A i \in Call : item'[i] = "done" <=> item[i] = "done"  BY <2>4, <2>5
    <2>7. Those("done")' = Those("done")  BY <2>6 DEF Those
    <2>8. Progress'
      <3>1. Those("terminal")' # {} => Stopped'  BY <2>4, <2>5 DEF Those
      <3>2. \A i \in Call : item'[i] # "nil"  BY <2>4, <2>5
      <3>3. control' = "none"  BY <1>8, <2>1 DEF Progress
      <3> QED  BY <2>1, <2>3, <2>7, <3>1, <3>2, <3>3 DEF Progress, Early
    <2>9. Hearing'
      <3>1. \A i \in Call : item[i] = "accepted" => heard'[i] = <<>> /\ i \notin notified'
        BY <1>8, <2>1 DEF Hearing, Early
      <3>2. \A i \in Call : item[i] = "done" =>
              /\ heard'[i] \in {<<>>, <<"start">>, <<"start", "result">>}
              /\ hooks' => heard'[i] = <<"start", "result">>
        BY <1>8, <2>1 DEF Hearing
      <3>3. phase' # "launch"  BY <2>1
      <3> QED  BY <2>4, <2>5, <3>1, <3>2, <3>3 DEF Hearing
    <2>10. Outcomes'  BY <1>7, <1>8, <1>9, <2>4, <2>6 DEF Outcomes
    <2> QED  BY <1>4, <1>5, <2>8, <2>9, <2>10
  <1> QED  BY <1>10, <1>11, <1>12, <1>13, <1>14, <1>15 DEF Preflight

\* When the loop goes to look for a call that runs, there is one.
LEMMA SomethingRuns ==
  ASSUME BatchTypeOK, Progress, phase = "fill", ~Stopped, ~Room \/ \A i \in Call : ~Runnable(i)
  PROVE  Those("running") # {}
  <1> SUFFICES ASSUME Those("running") = {} PROVE FALSE OBVIOUS
  <1>1. CASE ~Room
    <2>1. Cardinality(Those("running")) = 0  BY FS_EmptySet
    <2> QED  BY <1>1, <2>1, BatchAssumption DEF Room
  <1>2. CASE \A i \in Call : ~Runnable(i)
    <2> DEFINE T == {i \in Call : item[i] # "done"}
    <2>1. T \subseteq Nat /\ T # {}  BY BatchAssumption DEF Call, Progress, Those
    <2>2. PICK i \in T : \A j \in T : ~ (<<j, i>> \in OpToRel(<, Nat))
      BY <2>1, NatLessThanWellFounded, WFMin
    <2>3. \A j \in 1..i - 1 : item[j] = "done"
      <3> SUFFICES ASSUME NEW j \in 1..i - 1, item[j] # "done" PROVE FALSE OBVIOUS
      <3>1. i \in 1..BatchSize /\ BatchSize \in Nat  BY BatchAssumption DEF Call
      <3>2. j \in Call /\ j < i  BY <3>1 DEF Call
      <3>3. j \in T /\ j \in Nat /\ i \in Nat  BY <2>1, <3>2
      <3> QED  BY <2>2, <3>2, <3>3 DEF OpToRel
    <2>4. item[i] = "accepted"
      <3>1. item[i] \in Item /\ item[i] \notin {"nil", "running", "done"}
        BY DEF Progress, Those, BatchTypeOK, BookType
      <3>2. item[i] # "terminal"  BY DEF Progress, Those, Early
      <3> QED  BY <3>1, <3>2 DEF Item
    <2>5. Runnable(i)  BY <2>3, <2>4 DEF Runnable, CanStartCall
    <2> QED  BY <1>2, <2>5
  <1> QED  BY <1>1, <1>2

\* The loop moves on and changes nothing else.
LEMMA LoopMovesOn ==
  ASSUME ClosedInv, UNCHANGED <<calls, signal, book, host, log, work, flags, sent>>,
         phase' \notin Early \cup {"launch"}, phase = "launch" => Stopped
  PROVE  Workers' /\ Hearing' /\ Outcomes' /\ Quieted'
  <1> USE DEF ClosedInv, signal, book, host
  <1>1. UNCHANGED <<calls, cancelled, cut, batchErr, interrupted, hooks, item, state, notified, heard,
                    log, work, flags, sent>>
    OBVIOUS
  <1>6. (Stopped => Stopped') /\ (Stopped' => Stopped)  BY <1>1 DEF Stopped, BatchDone
  <1>2. Workers'  BY <1>1 DEF Workers
  <1>3. Hearing'  BY <1>1, <1>6 DEF Hearing
  <1>4. Outcomes'
    <2>1. /\ UNCHANGED <<calls, item, state, log, work, flags>> /\ (Stopped => Stopped')
          /\ (batchErr # {} => batchErr' # {}) /\ (interrupted => interrupted')
      BY <1>1, <1>6
    <2>2. Outcomes  OBVIOUS
    <2> HIDE DEF ClosedInv, signal, book, host
    <2> QED  BY ONLY <2>1, <2>2 DEF Outcomes
  <1>5. Quieted'  BY <1>1 DEF Quieted
  <1> QED  BY <1>2, <1>3, <1>4, <1>5

LEMMA AnnounceCloses ==
  ASSUME ClosedInv, Announce, UNCHANGED calls
  PROVE  Progress' /\ Workers' /\ Hearing' /\ Outcomes' /\ Quieted'
  <1> USE DEF ClosedInv, Inv
  <1>1. PICK i \in Call :
          /\ NextRunnable(i) /\ next' = i
          /\ \/ ~hooks /\ phase' = "launch" /\ UNCHANGED <<host, signal>>
             \/ /\ hooks /\ heard' = [heard EXCEPT ![i] = Append(@, "start")]
                /\ \/ phase' = "launch" /\ notified' = notified \cup {i} /\ UNCHANGED signal
                   \/ phase' = "check" /\ Fail("hook") /\ UNCHANGED notified
    BY DEF Announce, GoOn
  <1>2. /\ phase = "fill" /\ ~Stopped /\ item[i] = "accepted"
        /\ UNCHANGED <<item, state, log, work, flags, sent, control>>
    BY <1>1 DEF Announce, NextRunnable, Runnable, book, disk, task
  <1>3. batchErr = {} /\ hooks /\ ~interrupted  BY <1>2 DEF Stopped, Signals
  <1>4. \A j \in Call : item[j] = "accepted" => heard[j] = <<>> /\ j \notin notified
    BY <1>2 DEF Hearing
  <1>5. heard' = [heard EXCEPT ![i] = <<"start">>]
    <2>1. Append(<<>>, "start") = <<"start">>  BY BothHeard
    <2> QED  BY <1>1, <1>2, <1>3, <1>4, <2>1 DEF BatchTypeOK, HostType
  <1>6. \/ phase' = "launch" /\ notified' = notified \cup {i} /\ UNCHANGED <<interrupted, batchErr, hooks>>
        \/ phase' = "check" /\ ~hooks' /\ UNCHANGED <<interrupted, notified>> /\ Stopped'
           /\ batchErr' = {"hook"}
    BY <1>1, <1>3 DEF signal, Fail, Stopped
  <1>7. Progress'
    <2>1. Those("terminal") = {}  BY <1>2 DEF Progress, Early
    <2> QED  BY <1>2, <1>6, <2>1 DEF Progress, Early, Those
  <1>8. Workers' /\ Quieted'
    <2>1. Workers'  BY <1>2 DEF Workers
    <2>2. ~interrupted'  BY <1>3, <1>6
    <2> QED  BY <2>1, <2>2 DEF Quieted
  <1>9. Hearing'
    <2>1. heard'[i] = <<"start">> /\ \A j \in Call : j # i => heard'[j] = heard[j]
      BY <1>5 DEF BatchTypeOK, HostType
    <2> QED  BY <1>1, <1>2, <1>3, <1>4, <1>6, <2>1 DEF Hearing, Early
  <1>10. Outcomes'
    <2>1. (Stopped => Stopped') /\ (batchErr # {} => batchErr' # {}) /\ (interrupted => interrupted')
      BY SignalsGrow DEF Schedule
    <2> QED  BY <1>2, <2>1 DEF Outcomes
  <1> QED  BY <1>7, <1>8, <1>9, <1>10

LEMMA LaunchCloses ==
  ASSUME ClosedInv, Launch, UNCHANGED calls
  PROVE  Progress' /\ Workers' /\ Hearing' /\ Outcomes' /\ Quieted'
  <1> USE DEF ClosedInv, Inv
  <1>1. /\ phase = "launch" /\ next \in Call /\ item[next] = "accepted"
        /\ UNCHANGED <<signal, next, control, state, host, log, flags, sent>>
    BY DEF Launch, Loop, disk
  <1>2. CASE Stopped
    <2>1. phase' = "check" /\ UNCHANGED <<item, work>>  BY <1>2 DEF Launch, GoOn
    <2>2. UNCHANGED <<batchErr>> /\ Stopped'  BY <1>1, <1>2 DEF signal, Stopped, BatchDone
    <2>3. Progress'  BY <1>1, <2>1, <2>2 DEF Progress, Early
    <2> QED  BY <1>1, <1>2, <2>1, <2>3, LoopMovesOn DEF book, Early
  <1>3. CASE ~Stopped
    <2>1. /\ item' = [item EXCEPT ![next] = "running"] /\ work' = [work EXCEPT ![next] = "entered"]
          /\ phase' \in {"check", "fill"}
      BY <1>3 DEF Launch, GoOn, Move
    <2>2. UNCHANGED <<interrupted, batchErr, hooks, cut, cancelled, notified, heard>> /\ ~interrupted /\ ~Stopped'
      BY <1>1, <1>3 DEF signal, host, Stopped, BatchDone
    <2>3. /\ item'[next] = "running" /\ work'[next] = "entered" /\ work[next] = "none" /\ state[next] = ""
          /\ \A i \in Call : i # next => item'[i] = item[i] /\ work'[i] = work[i]
      BY <1>1, <2>1 DEF BatchTypeOK, BookType, TaskType, Track
    <2>4. Progress'
      <3>1. Those("running")' # {} /\ Those("done")' # Call  BY <1>1, <2>3 DEF Those
      <3>2. Those("terminal")' = {}
        <4>1. Those("terminal") = {}  BY <1>1, <1>3 DEF Progress, Early
        <4> QED  BY <2>3, <4>1 DEF Those
      <3>3. \A i \in Call : item'[i] # "nil"  BY <1>1, <2>3 DEF Progress
      <3> QED  BY <1>1, <2>1, <2>2, <3>1, <3>2, <3>3 DEF Progress, Early
    <2>5. Workers'
      <3>1. \A k \in DOMAIN sent : sent[k] \in Call  BY DEF BatchTypeOK, TaskType
      <3>2. \A k \in DOMAIN sent : work[sent[k]] = "sent"  BY DEF Workers
      <3>3. \A k \in DOMAIN sent : sent[k] # next  BY <2>3, <3>2
      <3> QED  BY <1>1, <2>3, <3>1, <3>3 DEF Workers
    <2>6. Hearing'  BY <1>1, <1>3, <2>1, <2>2, <2>3 DEF Hearing, Early
    <2>7. Outcomes'  BY <1>1, <1>3, <2>2, <2>3 DEF Outcomes
    <2>8. Quieted'  BY <2>2 DEF Quieted
    <2> QED  BY <2>4, <2>5, <2>6, <2>7, <2>8
  <1> QED  BY <1>2, <1>3

LEMMA DrainCloses ==
  ASSUME ClosedInv, Drain, UNCHANGED calls
  PROVE  Progress' /\ Workers' /\ Hearing' /\ Outcomes' /\ Quieted'
  <1> USE DEF ClosedInv, Inv
  <1>1. PICK i \in NeverStarted : Deliver(i, "not_executed", HookGone)  BY DEF Drain
  <1>2. /\ i \in Call /\ item[i] \in {"terminal", "accepted"} /\ phase = "drain" /\ Stopped
        /\ UNCHANGED <<phase, next, control, log, work, flags, sent>>
    BY <1>1 DEF NeverStarted, Those, Drain, loop, disk, task, Progress
  <1>3. item' = [item EXCEPT ![i] = "done"] /\ state' = [state EXCEPT ![i] = "not_executed"]
    BY <1>1 DEF Deliver, Mark
  <1>4. \A j \in Call : j # i => item'[j] = item[j] /\ state'[j] = state[j]
    BY <1>3 DEF BatchTypeOK, BookType
  <1>5. item'[i] = "done" /\ state'[i] = "not_executed" /\ work[i] = "none" /\ flags[i] = {}
    BY <1>2, <1>3 DEF BatchTypeOK, BookType, Track, Outcomes
  <1>6. /\ Stopped' /\ (batchErr # {} => batchErr' # {}) /\ (interrupted => interrupted')
        /\ (hooks' => hooks)
    BY <1>2, SignalsGrow DEF Schedule
  <1>7. \/ heard[i] = <<>> /\ i \notin notified
        \/ heard[i] = <<"start">> /\ (hooks => i \in notified)
    BY <1>2 DEF Hearing
  <1>8. /\ heard'[i] \in {<<>>, <<"start">>, <<"start", "result">>}
        /\ hooks' => heard'[i] = <<"start", "result">>
        /\ \A j \in Call : j # i => heard'[j] = heard[j] /\ (j \in notified' <=> j \in notified)
    <2>1. heard \in [Call -> Seq({"start", "result"})]  BY DEF BatchTypeOK, HostType
    <2>2. CASE ~hooks /\ UNCHANGED <<host, signal>>  BY <1>7, <2>2 DEF host, signal
    <2>3. CASE /\ hooks /\ notified' = notified \cup {i}
               /\ heard' = [heard EXCEPT ![i] =
                    @ \o (IF i \in notified THEN <<>> ELSE <<"start">>) \o <<"result">>]
      <3>1. heard[i] \o (IF i \in notified THEN <<>> ELSE <<"start">>) \o <<"result">> = <<"start", "result">>
        BY <1>7, <2>3, BothHeard
      <3> QED  BY <1>2, <2>1, <2>3, <3>1
    <2>4. CASE /\ hooks /\ i \notin notified /\ HookGone
               /\ heard' = [heard EXCEPT ![i] = Append(@, "start")] /\ UNCHANGED notified
      <3>1. heard[i] = <<>> /\ Append(<<>>, "start") = <<"start">>  BY <1>7, <2>4, BothHeard
      <3>2. heard'[i] = <<"start">> /\ ~hooks'  BY <1>2, <2>1, <2>4, <3>1 DEF HookGone
      <3> QED  BY <2>1, <2>4, <3>2
    <2> QED  BY <1>1, <2>2, <2>3, <2>4 DEF Deliver
  <1>9. Progress'
    <2>1. "scheduler" \notin batchErr'
      <3>1. batchErr' = batchErr \/ batchErr' = batchErr \cup {"hook"}  BY <1>1 DEF Deliver, HookGone, signal
      <3> QED  BY <3>1 DEF Progress
    <2> QED  BY <1>2, <1>4, <1>5, <1>6, <2>1 DEF Progress, Early
  <1>10. Workers'
    <2>1. \A k \in DOMAIN sent : sent[k] \in Call /\ sent[k] # i
      BY <1>5 DEF Workers, BatchTypeOK, TaskType
    <2> QED  BY <1>2, <1>4, <1>5, <2>1 DEF Workers
  <1>11. Hearing'  BY <1>2, <1>4, <1>5, <1>6, <1>8 DEF Hearing, Early
  <1>12. Outcomes'  BY <1>2, <1>4, <1>5, <1>6 DEF Outcomes
  <1>13. Quieted'
    <2>1. interrupted' = interrupted  BY <1>1 DEF Deliver, HookGone, signal
    <2> QED  BY <1>2, <2>1 DEF Quieted
  <1> QED  BY <1>9, <1>10, <1>11, <1>12, <1>13


\* The steps of the loop that look at the batch and go somewhere.
LEMMA LoopStepCloses ==
  ASSUME ClosedInv, FillEnds \/ Check \/ DrainEnds \/ WakeUp \/ Finalize, UNCHANGED calls
  PROVE  Progress' /\ Workers' /\ Hearing' /\ Outcomes' /\ Quieted'
  <1> USE DEF ClosedInv, Inv, GoOn, loop, book, disk, task
  <1>0. BatchTypeOK /\ Progress  OBVIOUS
  <1>1. CASE FillEnds
    <2>1. /\ phase = "fill" /\ phase' = "check" /\ UNCHANGED <<signal, book, host, control>>
          /\ UNCHANGED <<log, work, flags, sent>>
      BY <1>1 DEF FillEnds
    <2>2. Stopped \/ Those("running") # {}  BY <1>0, <1>1, SomethingRuns DEF FillEnds
    <2>3. UNCHANGED <<item, batchErr>> /\ (Stopped => Stopped')
      BY <2>1 DEF signal, Stopped, BatchDone
    <2>4. Progress'  BY <1>0, <2>1, <2>2, <2>3 DEF Progress, Early, Those
    <2> QED  BY <2>1, <2>4, LoopMovesOn DEF Early
  <1>2. CASE Check
    <2>1. /\ phase = "check" /\ phase' \in {"drain", "select"} /\ UNCHANGED <<signal, book, host, control>>
          /\ UNCHANGED <<log, work, flags, sent>> /\ (phase' = "drain" => Stopped)
          /\ (phase' = "select" => Those("running") # {})
      BY <1>0, <1>2 DEF Check, Progress
    <2>3. UNCHANGED <<item, batchErr>> /\ (Stopped => Stopped')
      BY <2>1 DEF signal, Stopped, BatchDone
    <2>4. Progress'
      <3>1. phase' = "select" => Those("done")' # Call  BY <2>1, <2>3 DEF Those
      <3> QED  BY <1>0, <2>1, <2>3, <3>1 DEF Progress, Early, Those
    <2> QED  BY <2>1, <2>4, LoopMovesOn DEF Early
  <1>3. CASE DrainEnds
    <2>1. /\ phase = "drain" /\ phase' = (IF Those("done") = Call THEN "finalize" ELSE "select")
          /\ UNCHANGED <<signal, book, host, control>> /\ UNCHANGED <<log, work, flags, sent>>
      BY <1>3 DEF DrainEnds
    <2>3. UNCHANGED <<item, batchErr>> /\ (Stopped => Stopped')
      BY <2>1 DEF signal, Stopped, BatchDone
    <2>4. Progress'  BY <1>0, <2>1, <2>3 DEF Progress, Early, Those
    <2> QED  BY <2>1, <2>4, LoopMovesOn DEF Early
  <1>4. CASE WakeUp
    <2>1. /\ phase = "select" /\ phase' = "fill"
          /\ UNCHANGED <<signal, book, host, control>> /\ UNCHANGED <<log, work, flags, sent>>
      BY <1>4 DEF WakeUp
    <2>3. UNCHANGED <<item, batchErr>> /\ (Stopped => Stopped')
      BY <2>1 DEF signal, Stopped, BatchDone
    <2>4. Progress'  BY <1>0, <2>1, <2>3 DEF Progress, Early, Those
    <2> QED  BY <2>1, <2>4, LoopMovesOn DEF Early
  <1>5. CASE Finalize
    <2>1. /\ phase = "finalize" /\ phase' = "finalize"
          /\ UNCHANGED <<signal, book, host>> /\ UNCHANGED <<log, work, flags, sent>>
      BY <1>5 DEF Finalize
    <2>3. UNCHANGED <<item, batchErr>> /\ (Stopped => Stopped')
      BY <2>1 DEF signal, Stopped, BatchDone
    <2>4. Progress'  BY <1>0, <2>1, <2>3 DEF Progress, Early, Those
    <2> QED  BY <2>1, <2>4, LoopMovesOn DEF Early
  <1> QED  BY <1>1, <1>2, <1>3, <1>4, <1>5

\* What a goroutine sent is received: its call is over, and the blame is taken over.
LEMMA ReceiveCloses ==
  ASSUME ClosedInv, Receive, UNCHANGED calls
  PROVE  Progress' /\ Workers' /\ Hearing' /\ Outcomes' /\ Quieted'
  <1> DEFINE i == Head(sent)
  <1> USE DEF ClosedInv, Inv
  <1>1. /\ phase = "select" /\ sent # <<>> /\ sent' = Tail(sent) /\ item' = [item EXCEPT ![i] = "done"]
        /\ phase' = (IF Those("done")' = Call THEN "finalize" ELSE "fill")
        /\ UNCHANGED <<control, state, notified, log, work, flags>>
    BY DEF Receive, GoOn, disk
  <1>2. /\ sent \in Seq(Call) /\ Len(sent) \in Nat /\ 1 \in DOMAIN sent /\ i = sent[1] /\ i \in Call
        /\ DOMAIN sent' = 1..(Len(sent) - 1) /\ \A k \in DOMAIN sent' : sent'[k] = sent[k + 1]
    <2>1. sent \in Seq(Call) /\ sent # <<>>  BY <1>1 DEF BatchTypeOK, TaskType
    <2>2. Len(sent) \in Nat /\ Len(sent) # 0 /\ DOMAIN sent = 1..Len(sent) /\ sent \in [1..Len(sent) -> Call]
      BY <2>1
    <2>3. 1 \in DOMAIN sent /\ i = sent[1]  BY <2>1, <2>2
    <2>4. i \in Call  BY <2>2, <2>3
    <2>5. DOMAIN Tail(sent) = 1..(Len(sent) - 1) /\ \A k \in 1..(Len(sent) - 1) : Tail(sent)[k] = sent[k + 1]
      BY <2>1, <2>2
    <2> QED  BY <1>1, <2>1, <2>2, <2>3, <2>4, <2>5
  <1> HIDE DEF i
  <1>3. item[i] = "running" /\ work[i] = "sent" /\ heard[i] = <<"start">> /\ state[i] # ""
    <2>1. item[i] = "running" /\ work[i] = "sent"  BY <1>2 DEF Workers
    <2> QED  BY <1>2, <2>1 DEF Hearing, Outcomes
  <1>4. item'[i] = "done" /\ \A j \in Call : j # i => item'[j] = item[j]
    BY <1>1, <1>2 DEF BatchTypeOK, BookType
  <1>5. /\ (hooks' => hooks) /\ (Stopped => Stopped') /\ (batchErr # {} => batchErr' # {})
        /\ (interrupted => interrupted')
    BY SignalsGrow DEF Schedule
  <1>6. /\ batchErr' = batchErr \/ batchErr' = batchErr \cup {"checkpoint"} \/ batchErr' = batchErr \cup {"hook"}
        /\ "faulty" \in flags[i] => batchErr' # {}
    BY DEF Receive, i
  <1>7. interrupted' <=> (interrupted \/ "asks" \in flags[i])
    <2>1. interrupted' = (interrupted \/ "asks" \in flags[i])  BY DEF Receive, i
    <2> QED  BY <2>1
  <1>8. /\ heard'[i] \in {<<"start">>, <<"start", "result">>}
        /\ hooks' => heard'[i] = <<"start", "result">>
        /\ \A j \in Call : j # i => heard'[j] = heard[j]
    <2>1. \/ heard' = [heard EXCEPT ![i] = Append(@, "result")]
          \/ heard' = heard /\ ~hooks'
      BY DEF Receive, i
    <2>2. Append(heard[i], "result") = <<"start", "result">>  BY <1>3, BothHeard
    <2>3. CASE heard' = [heard EXCEPT ![i] = Append(@, "result")]
      <3>1. heard'[i] = <<"start", "result">>  BY <1>2, <2>2, <2>3 DEF BatchTypeOK, HostType
      <3> QED  BY <2>3, <3>1 DEF BatchTypeOK, HostType
    <2>4. CASE heard' = heard /\ ~hooks'  BY <1>3, <2>4
    <2> QED  BY <2>1, <2>3, <2>4
  <1>9. Progress'
    <2>1. "scheduler" \notin batchErr'  BY <1>6 DEF Progress
    <2>2. Those("terminal")' # {} => Stopped'
      <3>1. Those("terminal")' \subseteq Those("terminal")  BY <1>4 DEF Those
      <3>2. Those("terminal") # {} => Stopped  BY <1>1 DEF Progress, Early
      <3> QED  BY <1>5, <3>1, <3>2
    <2>3. \A j \in Call : item'[j] # "nil"  BY <1>1, <1>4 DEF Progress
    <2>4. control' = "none"  BY <1>1 DEF Progress
    <2> QED  BY <1>1, <2>1, <2>2, <2>3, <2>4 DEF Progress, Early
  <1>10. Workers'
    <2>1. \A k \in DOMAIN sent' : /\ k + 1 \in DOMAIN sent /\ k + 1 # 1 /\ k \in Int
                                  /\ sent'[k] = sent[k + 1]
      BY <1>2
    <2>2. \A k \in DOMAIN sent' : /\ sent'[k] \in Call /\ sent'[k] # i
                                  /\ item[sent'[k]] = "running" /\ work[sent'[k]] = "sent"
      <3> SUFFICES ASSUME NEW k \in DOMAIN sent'
                   PROVE  /\ sent'[k] \in Call /\ sent'[k] # i
                          /\ item[sent'[k]] = "running" /\ work[sent'[k]] = "sent"
        OBVIOUS
      <3>1. sent[k + 1] # sent[1]  BY <1>2, <2>1 DEF Workers
      <3>2. sent[k + 1] \in Call  BY <1>2, <2>1
      <3> QED  BY <1>2, <2>1, <3>1, <3>2 DEF Workers
    <2>3. \A k, l \in DOMAIN sent' : sent'[k] = sent'[l] => k = l
      <3> SUFFICES ASSUME NEW k \in DOMAIN sent', NEW l \in DOMAIN sent', sent'[k] = sent'[l]
                   PROVE  k = l
        OBVIOUS
      <3>1. k + 1 = l + 1  BY <2>1 DEF Workers
      <3> QED  BY <2>1, <3>1
    <2>4. \A k \in DOMAIN sent' : item'[sent'[k]] = "running" /\ work'[sent'[k]] = "sent"
      BY <1>1, <1>4, <2>2
    <2>5. \A j \in Call : /\ work'[j] \notin {"none", "sent"} => item'[j] = "running"
                          /\ item'[j] = "running" => work'[j] # "none"
      BY <1>1, <1>3, <1>4 DEF Workers
    <2> QED  BY <2>3, <2>4, <2>5 DEF Workers
  <1>11. Hearing'
    <2>1. phase' \notin Early \cup {"launch"} /\ phase # "launch"  BY <1>1 DEF Early
    <2>2. \A j \in Call : j # i =>
            /\ item[j] = "accepted" => \/ heard[j] = <<>> /\ j \notin notified
                                       \/ heard[j] = <<"start">> /\ (hooks => j \in notified) /\ Stopped
            /\ item[j] = "done" => /\ heard[j] \in {<<>>, <<"start">>, <<"start", "result">>}
                                   /\ hooks => heard[j] = <<"start", "result">>
      BY <2>1 DEF Hearing
    <2>3. \A j \in Call : /\ item[j] \in {"nil", "terminal"} => heard[j] = <<>> /\ j \notin notified
                          /\ item[j] = "running" => heard[j] = <<"start">>
      BY DEF Hearing
    <2> QED  BY <1>1, <1>4, <1>5, <1>8, <2>1, <2>2, <2>3 DEF Hearing
  <1>12. Outcomes'
    <2>1. \A j \in Call : item'[j] = "done" => /\ state[j] # ""
                                               /\ "faulty" \in flags[j] => batchErr' # {}
                                               /\ "asks" \in flags[j] => interrupted'
      BY <1>3, <1>4, <1>5, <1>6, <1>7 DEF Outcomes
    <2> QED  BY <1>1, <1>5, <2>1 DEF Outcomes
  <1>13. Quieted'
    <2> SUFFICES ASSUME interrupted', NEW j \in Call, work[j] \notin {"none", "sent"} PROVE FALSE
      BY <1>1 DEF Quieted
    <2>1. ~interrupted /\ "asks" \in flags[i]  BY <1>7 DEF Quieted
    <2>2. calls[i].exclusive
      <3>1. calls[i].reports  BY <1>2, <2>1 DEF Outcomes
      <3> QED  BY <1>2, <3>1, BatchAssumption DEF BatchTypeOK
    <2>3. Conflict(i, j) /\ Conflict(j, i)  BY <2>2 DEF Conflict
    <2>4. item[j] = "running" /\ j # i  BY <1>3 DEF Workers
    <2>5. i \in Int /\ j \in Int  BY <1>2 DEF Call
    <2>6. i < j \/ j < i  BY <2>4, <2>5
    <2> QED  BY <1>2, <1>3, <2>3, <2>4, <2>6 DEF Order
  <1> QED  BY <1>9, <1>10, <1>11, <1>12, <1>13

\* A goroutine leaves the loop, its signals and what the host has heard alone.
LEMMA ExecuteCloses ==
  ASSUME ClosedInv, NEW i \in Call, Execute(i), UNCHANGED calls
  PROVE  Signals' /\ Progress' /\ Workers' /\ Hearing' /\ Outcomes' /\ Quieted'
  <1> USE DEF ClosedInv, Inv, BatchTypeOK
  <1>1. UNCHANGED <<calls, signal, loop, item, host>>
    BY DEF Execute, StartWork, AcquireClaim, Recheck, RecordIntent, EnterTool, ToolReturns, RecordCompletion,
           Send, Quiet
  <1>2. /\ UNCHANGED <<cancelled, cut, batchErr, interrupted, hooks, phase, next, control, notified, heard>>
        /\ (Stopped => Stopped') /\ (Stopped' => Stopped)
    BY <1>1 DEF signal, loop, host, Stopped, BatchDone
  <1>3. Signals' /\ Progress'
    <2>1. Signals'  BY <1>2 DEF Signals
    <2>2. Progress'  BY <1>1, <1>2 DEF Progress, Those
    <2> QED  BY <2>1, <2>2
  <1>4. Hearing'
    <2>1. Hearing  OBVIOUS
    <2>2. UNCHANGED <<phase, next, item, notified, heard>> /\ (hooks' => hooks) /\ (Stopped => Stopped')
      BY <1>1, <1>2
    <2> HIDE DEF ClosedInv
    <2> QED  BY ONLY <2>1, <2>2 DEF Hearing
  <1>5. /\ work[i] \notin {"none", "sent"} /\ work'[i] # "none"
        /\ \A j \in Call : j # i => work'[j] = work[j] /\ state'[j] = state[j] /\ flags'[j] = flags[j]
                                    /\ log'[j] = log[j]
    <2>1. work[i] \in WorkStage \ {"none", "sent"}
      BY DEF Execute, StartWork, AcquireClaim, Recheck, RecordIntent, EnterTool, ToolReturns, RecordCompletion,
             Send, TaskType, WorkStage
    <2>2. \E stage \in WorkStage \ {"none"} : work' = [work EXCEPT ![i] = stage]
      BY DEF Execute, StartWork, AcquireClaim, Recheck, RecordIntent, EnterTool, ToolReturns, Recording,
             RecordCompletion, Send, Move, WorkStage
    <2>3. /\ UNCHANGED state \/ \E s \in State : state' = [state EXCEPT ![i] = s]
          /\ log' \in {log, [log EXCEPT ![i] = "intent"], [log EXCEPT ![i] = "complete"]}
          /\ UNCHANGED flags \/ \E f \in {"asks", "faulty"} : flags' = [flags EXCEPT ![i] = flags[i] \cup {f}]
      <3>1. UNCHANGED state \/ \E s \in State : state' = [state EXCEPT ![i] = s]
        BY DEF Execute, StartWork, AcquireClaim, Recheck, RecordIntent, EnterTool, ToolReturns,
               RecordCompletion, Send, Mark, State
      <3>2. log' \in {log, [log EXCEPT ![i] = "intent"], [log EXCEPT ![i] = "complete"]}
        BY DEF Execute, StartWork, AcquireClaim, Recheck, RecordIntent, EnterTool, ToolReturns,
               RecordCompletion, Send, disk
      <3>3. UNCHANGED flags \/ \E f \in {"asks", "faulty"} : flags' = [flags EXCEPT ![i] = flags[i] \cup {f}]
        BY DEF Execute, StartWork, AcquireClaim, Recheck, RecordIntent, EnterTool, ToolReturns,
               RecordCompletion, Send, TaskType
      <3> QED  BY <3>1, <3>2, <3>3
    <2> QED  BY <2>1, <2>2, <2>3 DEF TaskType, BookType, DiskType
  <1>6. item[i] = "running" /\ item'[i] = "running" /\ ~interrupted
    BY <1>1, <1>5 DEF Workers, Quieted
  <1>7. Quieted'  BY <1>2, <1>6 DEF Quieted
  <1>8. \A k \in DOMAIN sent : sent[k] \in Call /\ sent[k] # i /\ work[sent[k]] = "sent"
    <2>1. \A k \in DOMAIN sent : sent[k] \in Call  BY DEF TaskType
    <2>2. \A k \in DOMAIN sent : work[sent[k]] = "sent"  BY DEF Workers
    <2> QED  BY <1>5, <2>1, <2>2
  <1>9. Workers'
    <2>1. \A j \in Call : /\ work'[j] \notin {"none", "sent"} => item'[j] = "running"
                          /\ item'[j] = "running" => work'[j] # "none"
      BY <1>1, <1>5, <1>6 DEF Workers
    <2>2. CASE UNCHANGED sent
      <3>1. \A k \in DOMAIN sent : item'[sent[k]] = "running" /\ work'[sent[k]] = "sent"
        BY <1>1, <1>5, <1>8 DEF Workers
      <3> QED  BY <2>1, <2>2, <3>1 DEF Workers
    <2>3. CASE Send(i)
      <3>1. sent' = Append(sent, i) /\ work' = [work EXCEPT ![i] = "sent"]  BY <2>3 DEF Send, Move
      <3>2. sent \in Seq(Call) /\ Len(sent) \in Nat /\ DOMAIN sent = 1..Len(sent)  BY DEF TaskType
      <3>3. /\ DOMAIN sent' = 1..(Len(sent) + 1) /\ sent'[Len(sent) + 1] = i
            /\ \A k \in DOMAIN sent : sent'[k] = sent[k]
        BY <3>1, <3>2
      <3>4. \A k \in DOMAIN sent' : k \in DOMAIN sent \/ k = Len(sent) + 1
        BY <3>2, <3>3
      <3>5. work'[i] = "sent"  BY <3>1 DEF TaskType
      <3>6. \A k \in DOMAIN sent' : item'[sent'[k]] = "running" /\ work'[sent'[k]] = "sent"
        BY <1>1, <1>5, <1>6, <1>8, <3>3, <3>4, <3>5 DEF Workers
      <3>7. \A k, l \in DOMAIN sent' : sent'[k] = sent'[l] => k = l
        BY <1>8, <3>3, <3>4 DEF Workers
      <3> QED  BY <2>1, <3>6, <3>7 DEF Workers
    <2> QED
      BY <2>2, <2>3 DEF Execute, StartWork, AcquireClaim, Recheck, RecordIntent, EnterTool, ToolReturns,
                        RecordCompletion
  <1>10. Outcomes'
    <2> DEFINE Good(s, f, w, l) ==
          /\ w \in {"ended", "over", "sent"} => s # ""
          /\ s = "not_executed" => Stopped \/ "faulty" \in f
          /\ s = "outcome_unknown" => "asks" \in f
          /\ calls[i].effect /\ s \in {"succeeded", "cancelled"} =>
               w = "ended" \/ l = "complete" \/ "faulty" \in f
          /\ "asks" \in f => calls[i].reports
          /\ f # {} => w \in {"ended", "over", "sent"}
    <2>1. Good(state[i], flags[i], work[i], log[i])
      BY DEF Outcomes
    <2>2. /\ state \in [Call -> State] /\ log \in [Call -> {"none", "intent", "complete"}]
          /\ work \in [Call -> WorkStage] /\ flags \in [Call -> SUBSET {"asks", "faulty"}]
      BY DEF BookType, DiskType, TaskType
    <2>3. work[i] \in Asleep \cup {"executing"} => state[i] = "" /\ flags[i] = {}
      BY <2>1 DEF Track, Asleep
    <2> HIDE DEF ClosedInv, Inv, BatchTypeOK
    <2>4. BatchDone => Stopped  BY DEF Stopped
    <2>5. Good(state'[i], flags'[i], work'[i], log'[i])
      <3>1. CASE StartWork(i) \/ AcquireClaim(i) \/ Recheck(i)
        <4>1. /\ work[i] \in Asleep /\ UNCHANGED <<flags, log>>
              /\ \/ BatchDone /\ work'[i] = "over" /\ state'[i] = "not_executed"
                 \/ work'[i] \in {"waiting", "granted", "cleared", "ready"} /\ UNCHANGED state
          BY <2>2, <3>1 DEF StartWork, AcquireClaim, Recheck, Move, Mark, Asleep, disk
        <4> QED  BY <2>1, <2>3, <2>4, <4>1
      <3>2. CASE RecordIntent(i)
        <4>1. /\ work[i] = "cleared"
              /\ \/ work'[i] = "ready" /\ UNCHANGED <<state, flags>>
                 \/ work'[i] = "over" /\ state'[i] = "not_executed" /\ flags'[i] = flags[i] \cup {"faulty"}
          BY <2>2, <3>2 DEF RecordIntent, Move, Mark
        <4> QED  BY <2>1, <2>3, <4>1 DEF Asleep
      <3>3. CASE EnterTool(i)
        <4>1. work[i] = "ready" /\ work'[i] = "executing" /\ UNCHANGED <<state, flags>>
          BY <2>2, <3>3 DEF EnterTool, Move
        <4> QED  BY <2>1, <2>3, <4>1 DEF Asleep
      <3>4. CASE ToolReturns(i)
        <4>1. /\ work[i] = "executing" /\ UNCHANGED log
              /\ \/ /\ work'[i] = Recording(i) /\ UNCHANGED flags
                    /\ state'[i] \in {"succeeded", "failed", "cancelled", "rejected"}
                 \/ work'[i] = "over" /\ state'[i] = "failed" /\ UNCHANGED flags
                 \/ /\ calls[i].reports /\ work'[i] = Recording(i)
                    /\ state'[i] \in {"rejected", "outcome_unknown"} /\ flags'[i] = flags[i] \cup {"asks"}
          BY <2>2, <3>4 DEF ToolReturns, Move, Mark, disk
        <4> QED  BY <2>1, <2>3, <4>1 DEF Recording
      <3>5. CASE RecordCompletion(i)
        <4>1. /\ work[i] = "ended" /\ work'[i] = "over" /\ UNCHANGED state
              /\ \/ log'[i] = "complete" /\ UNCHANGED flags
                 \/ flags'[i] = flags[i] \cup {"faulty"} /\ UNCHANGED log
          BY <2>2, <3>5 DEF RecordCompletion, Move
        <4> QED  BY <2>1, <4>1
      <3>6. CASE Send(i)
        <4>1. work[i] = "over" /\ work'[i] = "sent" /\ UNCHANGED <<state, flags, log>>
          BY <2>2, <3>6 DEF Send, Move, disk
        <4> QED  BY <2>1, <4>1
      <3> QED  BY <3>1, <3>2, <3>3, <3>4, <3>5, <3>6 DEF Execute
    <2>6. Outcomes /\ UNCHANGED <<calls, item>> /\ (Stopped => Stopped')
          /\ (batchErr # {} => batchErr' # {}) /\ (interrupted => interrupted')
      BY <1>1, <1>2 DEF ClosedInv
    <2> QED  BY ONLY <1>5, <1>6, <2>5, <2>6 DEF Outcomes
  <1> QED  BY <1>3, <1>4, <1>7, <1>9, <1>10

\* What is decided at the end is what the batch came to: nothing stops it afterwards.
Settled == control = "continue" => ~Stopped

LEMMA SettledKept ==
  ASSUME ClosedInv, Settled, Preflight \/ Schedule \/ Cancel \/ \E i \in Call : Execute(i)
  PROVE  Settled'
  <1> USE DEF ClosedInv, Settled
  <1>1. CASE \E i \in Call : Execute(i)
    <2>1. UNCHANGED <<signal, control>>
      BY <1>1 DEF Execute, StartWork, AcquireClaim, Recheck, RecordIntent, EnterTool, ToolReturns,
             RecordCompletion, Send, Quiet, loop
    <2>2. UNCHANGED <<cancelled, cut, batchErr, interrupted, control>>  BY <2>1 DEF signal
    <2> QED  BY <2>2 DEF Stopped, BatchDone
  <1>2. CASE Finalize
    <2>1. control' = ResolveControl /\ UNCHANGED <<cancelled, cut, batchErr, interrupted>>
      BY <1>2 DEF Finalize, signal
    <2>2. control' = "continue" => batchErr = {} /\ ~cancelled /\ ~interrupted
      BY <2>1 DEF ResolveControl
    <2>3. control' = "continue" => ~cut  BY <2>2 DEF Signals
    <2> QED  BY <2>1, <2>2, <2>3 DEF Stopped, BatchDone
  <1>3. CASE ~Finalize /\ (Preflight \/ Schedule \/ Cancel)
    <2>1. phase # "finalize" \/ Cancel
      BY <1>3 DEF Preflight, Observe, PrepareCall, ClosePreflight, DeliverTerminal, CollectIntents,
             RecordBatchIntents, Schedule, Announce, Launch, FillEnds, Check, Drain, DrainEnds,
             Receive, WakeUp
    <2>2. control = "none"  BY <2>1 DEF Progress, Cancel
    <2>3. control' = control
      BY <1>3 DEF Preflight, Observe, PrepareCall, ClosePreflight, DeliverTerminal, CollectIntents,
             RecordBatchIntents, Schedule, Announce, Launch, FillEnds, Check, Drain, DrainEnds,
             Receive, WakeUp, Cancel, loop
    <2> QED  BY <2>2, <2>3
  <1> QED  BY <1>1, <1>2, <1>3

LEMMA CancelCloses ==
  ASSUME ClosedInv, Cancel, UNCHANGED calls
  PROVE  Progress' /\ Workers' /\ Hearing' /\ Outcomes' /\ Quieted'
  <1>1. /\ UNCHANGED <<calls, batchErr, interrupted, hooks, phase, next, control, item, state, notified,
                       heard, log, work, flags, sent>>
        /\ (Stopped => Stopped')
    BY DEF Cancel, loop, book, host, disk, task, Stopped, BatchDone
  <1>2. Progress /\ Workers /\ Hearing /\ Outcomes /\ Quieted  BY DEF ClosedInv
  <1>3. Progress'  BY ONLY <1>1, <1>2 DEF Progress, Those, Early
  <1>4. Workers'  BY ONLY <1>1, <1>2 DEF Workers
  <1>5. Hearing'
    <2>1. UNCHANGED <<phase, next, item, notified, heard>> /\ (hooks' => hooks) /\ (Stopped => Stopped')
      BY <1>1
    <2> QED  BY ONLY <1>2, <2>1 DEF Hearing
  <1>6. Outcomes'
    <2>1. /\ UNCHANGED <<calls, item, state, log, work, flags>> /\ (Stopped => Stopped')
          /\ (batchErr # {} => batchErr' # {}) /\ (interrupted => interrupted')
      BY <1>1
    <2> QED  BY ONLY <1>2, <2>1 DEF Outcomes
  <1>7. Quieted'
    <2>1. UNCHANGED work /\ (interrupted' => interrupted)  BY <1>1
    <2> QED  BY ONLY <1>2, <2>1 DEF Quieted
  <1> QED  BY <1>3, <1>4, <1>5, <1>6, <1>7

LEMMA ClosedStep == ClosedInv /\ Settled /\ [BatchNext]_batchVars => ClosedInv' /\ Settled'
  <1> SUFFICES ASSUME ClosedInv, Settled, [BatchNext]_batchVars PROVE ClosedInv' /\ Settled'  OBVIOUS
  <1>1. Inv'  BY NextKeepsInv DEF ClosedInv
  <1>2. CASE UNCHANGED calls /\ (Preflight \/ Schedule \/ Cancel)
    <2>1. Signals'  BY <1>2, SignalsGrow DEF ClosedInv, Inv
    <2>2. Progress' /\ Workers' /\ Hearing' /\ Outcomes' /\ Quieted'
      BY <1>1, <1>2, PreflightCloses, AnnounceCloses, LaunchCloses, DrainCloses, LoopStepCloses,
         ReceiveCloses, CancelCloses DEF Schedule
    <2> QED  BY <1>1, <1>2, <2>1, <2>2, SettledKept DEF ClosedInv
  <1>3. CASE UNCHANGED calls /\ \E i \in Call : Execute(i)
    <2>1. Signals' /\ Progress' /\ Workers' /\ Hearing' /\ Outcomes' /\ Quieted'
      BY <1>3, ExecuteCloses
    <2> QED  BY <1>1, <1>3, <2>1, SettledKept DEF ClosedInv
  <1>4. CASE UNCHANGED batchVars
    <2>1. UNCHANGED <<calls, cancelled, cut, batchErr, interrupted, hooks, phase, next, control, item,
                      state, notified, heard, log, work, flags, sent>>
      BY <1>4 DEF batchVars, signal, loop, book, host, disk, task
    <2>2. (Stopped => Stopped') /\ (Stopped' => Stopped)  BY <2>1 DEF Stopped, BatchDone
    <2>3. Signals /\ Progress /\ Workers /\ Hearing /\ Outcomes /\ Quieted  BY DEF ClosedInv
    <2>4. Signals' /\ Progress'
      <3>1. UNCHANGED <<batchErr, phase, next, control, item>> /\ (hooks => hooks') /\ (cut' => cut)
        BY <2>1
      <3>2. Signals'  BY ONLY <2>3, <3>1 DEF Signals
      <3>3. Progress'  BY ONLY <2>2, <2>3, <3>1 DEF Progress, Those, Early
      <3> QED  BY <3>2, <3>3
    <2>5. Workers'  BY ONLY <2>1, <2>3 DEF Workers
    <2>6. Hearing'
      <3>1. UNCHANGED <<phase, next, item, notified, heard>> /\ (hooks' => hooks) /\ (Stopped => Stopped')
        BY <2>1, <2>2
      <3> QED  BY ONLY <2>3, <3>1 DEF Hearing
    <2>7. Outcomes'
      <3>1. /\ UNCHANGED <<calls, item, state, log, work, flags>> /\ (Stopped => Stopped')
            /\ (batchErr # {} => batchErr' # {}) /\ (interrupted => interrupted')
        BY <2>1, <2>2
      <3> QED  BY ONLY <2>3, <3>1 DEF Outcomes
    <2>8. Quieted'
      <3>1. UNCHANGED work /\ (interrupted' => interrupted)  BY <2>1
      <3> QED  BY ONLY <2>3, <3>1 DEF Quieted
    <2>9. Settled'
      <3>1. UNCHANGED control  BY <2>1
      <3> QED  BY <2>2, <3>1 DEF Settled
    <2> QED  BY <1>1, <2>4, <2>5, <2>6, <2>7, <2>8, <2>9 DEF ClosedInv
  <1> QED  BY <1>2, <1>3, <1>4 DEF BatchNext, Returned

LEMMA ClosedAlways == BatchSpec => [](ClosedInv /\ Settled)
  <1>1. BatchInit => ClosedInv /\ Settled
    <2>1. BatchInit => Settled  BY DEF BatchInit, Settled
    <2> QED  BY <2>1, InitClosed
  <1> QED  BY <1>1, ClosedStep, PTL DEF BatchSpec

LEMMA ClosedMeans == ASSUME ClosedInv, Settled PROVE BatchIsClosed
  <1> USE DEF ClosedInv, Inv
  <1>1. HostHearsOnce
    <2> SUFFICES ASSUME NEW i \in Call
                 PROVE  /\ heard[i] \in {<<>>, <<"start">>, <<"start", "result">>}
                        /\ hooks /\ item[i] = "done" => heard[i] = <<"start", "result">>
      BY DEF HostHearsOnce
    <2>1. item[i] \in Item  BY DEF BatchTypeOK, BookType
    <2> QED  BY <2>1 DEF Hearing, Item
  <1>2. ContinueLeavesNothingOpen
    <2> SUFFICES ASSUME control = "continue", NEW i \in Call
                 PROVE  /\ state[i] \notin {"", "not_executed", "outcome_unknown"}
                        /\ calls[i].effect /\ state[i] \notin {"failed", "rejected"} => log[i] = "complete"
      BY DEF ContinueLeavesNothingOpen
    <2>1. item[i] = "done" /\ ~Stopped  BY DEF Progress, Settled, Those
    <2>2. batchErr = {} /\ ~interrupted  BY <2>1 DEF Stopped
    <2>3. "faulty" \notin flags[i] /\ "asks" \notin flags[i] /\ state[i] # ""
      BY <2>1, <2>2 DEF Outcomes
    <2>4. state[i] \notin {"not_executed", "outcome_unknown"}  BY <2>1, <2>3 DEF Outcomes
    <2>5. work[i] # "ended"  BY <2>1 DEF Workers
    <2>6. state[i] \in State  BY DEF BatchTypeOK, BookType
    <2> QED  BY <2>3, <2>4, <2>5, <2>6 DEF Outcomes, State
  <1>3. SchedulerProgresses  BY DEF Progress, SchedulerProgresses
  <1> QED  BY <1>1, <1>2, <1>3 DEF BatchIsClosed

\* What executeBatch promises before a tool is entered, in every batch: its intent is in
\* the log, and the earlier calls it conflicts with are closed.
THEOREM EffectsOrdered == BatchSpec => []EffectsAreOrdered
  <1>1. IntentBeforeEffect /\ ConflictsRunInOrder => EffectsAreOrdered  BY DEF EffectsAreOrdered
  <1> QED  BY <1>1, IntentComesFirst, OrderKept, PTL

\* However a batch ends, it is closed in order: the host hears of each call once, a batch
\* the model goes on from left nothing open, and the scheduler never gave up.
THEOREM BatchCloses == BatchSpec => []BatchIsClosed
  <1>1. ClosedInv /\ Settled => BatchIsClosed  BY ClosedMeans
  <1> QED  BY <1>1, ClosedAlways, PTL

\* After a call asked for an interruption, or the user refused one, no tool of the batch
\* is entered any more (the stop is read before the goroutine is, and a call that asks
\* runs alone).
THEOREM InterruptionStops == BatchSpec => InterruptionIsFinal
  <1>1. ClosedInv /\ [BatchNext]_batchVars => [interrupted => began' = began]_batchVars
    <2> SUFFICES ASSUME ClosedInv, BatchNext, interrupted PROVE began' = began
      BY DEF batchVars
    <2>1. CASE Preflight \/ Schedule \/ Cancel
      BY <2>1 DEF Preflight, Observe, PrepareCall, ClosePreflight, DeliverTerminal, CollectIntents,
             RecordBatchIntents, Schedule, Announce, Launch, FillEnds, Check, Drain, DrainEnds,
             Receive, WakeUp, Finalize, Cancel, task
    <2>2. ASSUME NEW i \in Call, Execute(i) PROVE began' = began
      <3>1. work[i] \in {"none", "sent"}  BY DEF ClosedInv, Quieted
      <3> QED  BY <2>2, <3>1 DEF Execute, StartWork, AcquireClaim, Recheck, RecordIntent, EnterTool, ToolReturns,
                 RecordCompletion, Send
    <2>3. CASE Returned  BY <2>3 DEF Returned, batchVars, task
    <2> QED  BY <2>1, <2>2, <2>3 DEF BatchNext
  <1> QED  BY <1>1, ClosedAlways, PTL DEF BatchSpec, InterruptionIsFinal
=============================================================================
