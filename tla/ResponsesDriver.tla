-------------------------- MODULE ResponsesDriver --------------------------
(***************************************************************************)
(* The Responses driver (internal/driver/openai_responses) between a        *)
(* conversation, a provider that keeps the conversation by response id and  *)
(* may refuse parts of a request, and a host that hears the answer through  *)
(* the request's event queue (internal/agent/event_queue.go).               *)
(*                                                                          *)
(* A response is a sequence of items, named by their output index: "think", *)
(* "text", "call" and "web".  A text and a call's arguments have two        *)
(* pieces, <<index, 1>> and <<index, 2>>.  A turn is [role, id, ver].       *)
(***************************************************************************)
EXTENDS Integers, Sequences, FiniteSets, SequencesExt

CONSTANTS
    ProviderOutputs,     \* the responses the provider gives: sequences of items
    FlushAt,     \* streamDeltaFlushBytes, in pieces
    MaxRequests, \* requests of the conversation
    MaxSystemChanges   \* changes of the system turn

ASSUME ResponsesAssumption == FlushAt \in Nat \ {0} /\ MaxRequests \in Nat /\ MaxSystemChanges \in Nat

VARIABLES
    gateway,  \* what the provider refuses: [parallel, summary, deltas]
    conversation,    \* the conversation's turns
    state,    \* DriverState: [id, vers, disabled]
    memory,   \* the provider's: response id -> what it has read
    known,    \* parallelUnsupported
    exchange,      \* the request in progress
    left,     \* the events the provider has still to send
    drv,      \* readStream's locals
    queue     \* the event queue and the host's log of what it heard

responsesVars == <<gateway, conversation, state, memory, known, exchange, left, drv, queue>>

-----------------------------------------------------------------------------
(***************************************************************************)
(* The event queue.  s says whether the host is slow in this step.          *)
(***************************************************************************)
NoEvent == [k |-> "none", i |-> 0, pieces |-> <<>>]
EventOf(k, i) == [k |-> k, i |-> i, pieces |-> <<>>]
Delta(k, i, pieces) == [k |-> k, i |-> i, pieces |-> pieces]
IsStreamedDelta(e) == e.k \in {"text", "think"}
NewQueue == [pending |-> NoEvent, slow |-> FALSE, dropped |-> 0, log |-> <<>>]

Deliver(q, e, s) == [q EXCEPT !.log = Append(@, e), !.slow = s]
Flush(q, s) ==
    IF q.pending = NoEvent THEN q
    ELSE Deliver([q EXCEPT !.pending = NoEvent], q.pending, s)
Held(q, e, s) ==
    IF Len(e.pieces) < FlushAt THEN [q EXCEPT !.pending = e]
    ELSE Flush([q EXCEPT !.pending = e], s)

\* Mutant: an event that carries state overtakes the text held back.
PushOvertakes(q, e, s) ==
    IF ~IsStreamedDelta(e) THEN Deliver(q, e, s)
    ELSE IF q.slow THEN [q EXCEPT !.dropped = @ + 1]
    ELSE IF q.pending.k = e.k
         THEN Held(q, [q.pending EXCEPT !.pieces = @ \o e.pieces], s)
         ELSE Held(Flush(q, s), e, s)

Push(q, e, s) ==
    IF ~IsStreamedDelta(e) THEN Deliver(Flush(q, s), e, s)
    ELSE IF q.slow THEN [q EXCEPT !.dropped = @ + 1]
    ELSE IF q.pending.k = e.k
         THEN Held(q, [q.pending EXCEPT !.pieces = @ \o e.pieces], s)
         ELSE Held(Flush(q, s), e, s)

EmitAll(q, es, s) ==
    LET after[n \in 0..Len(es)] == IF n = 0 THEN q ELSE Push(after[n - 1], es[n], s)
    IN after[Len(es)]

-----------------------------------------------------------------------------
(***************************************************************************)
(* The provider's side of a stream.                                         *)
(***************************************************************************)
Script(output) ==
    FlattenSeq([i \in 1..Len(output) |->
        CASE output[i] = "think" -> <<Delta("think", i, <<<<i, 1>>>>)>>
          [] output[i] = "text"  -> IF gateway.deltas
                                    THEN <<Delta("text", i, <<<<i, 1>>>>), Delta("text", i, <<<<i, 2>>>>)>>
                                    ELSE <<>>
          [] output[i] = "call"  -> <<EventOf("added", i), Delta("arguments", i, <<<<i, 1>>>>),
                                      Delta("arguments", i, <<<<i, 2>>>>), EventOf("argumentsDone", i)>>
          [] OTHER               -> <<EventOf("searching", i), EventOf("searching", i), EventOf("itemDone", i)>>])

ItemsOf(output, kind) == {i \in 1..Len(output) : output[i] = kind}
BothPieces(i) == <<<<i, 1>>, <<i, 2>>>>
TextOf(output) ==
    FlattenSeq([i \in 1..Len(output) |-> IF output[i] = "text" THEN BothPieces(i) ELSE <<>>])
\* What convertResponse makes of an envelope.
Converted(output) ==
    [text |-> TextOf(output), calls |-> ItemsOf(output, "call"), webs |-> ItemsOf(output, "web")]

-----------------------------------------------------------------------------
(***************************************************************************)
(* The request: what it sends, and what it does without when refused.       *)
(***************************************************************************)
NoFinal == [text |-> <<>>, calls |-> {}, webs |-> {}]
NewStream == [text |-> <<>>, calls |-> {}, unsent |-> <<>>, order |-> <<>>, closed |-> {},
              final |-> NoFinal, hasFinal |-> FALSE, completed |-> FALSE]
IdleRequest == [pc |-> "idle", parallel |-> FALSE, summary |-> FALSE, prev |-> 0, input |-> <<>>,
                disabled |-> FALSE, sends |-> 0, output |-> <<>>, seen |-> <<>>, id |-> 0, n |-> 0,
                ok |-> FALSE, code |-> "none", result |-> NoFinal]

SystemVers == [t \in {conversation[j].id : j \in {k \in 1..Len(conversation) : conversation[k].role = "system"}} |->
                 (CHOOSE j \in 1..Len(conversation) : conversation[j].id = t /\ conversation[j].role = "system")]
Digest(id) == conversation[SystemVers[id]].ver
LastAgent == LET at == {j \in 1..Len(conversation) : conversation[j].role = "agent"}
             IN IF at = {} THEN 0 ELSE CHOOSE j \in at : \A k \in at : k <= j

\* remoteInputTurns: the system turns that changed, then what follows the
\* last response.
RemoteInputTurns ==
    IF state.id = 0 \/ state.disabled THEN conversation
    ELSE SelectSeq(conversation, LAMBDA t : t.role = "system" /\ state.vers[t.id] # t.ver)
         \o SelectSeq(SubSeq(conversation, LastAgent + 1, Len(conversation)), LAMBDA t : t.role # "system")

Build ==
    /\ exchange.pc = "idle" /\ conversation # <<>> /\ Last(conversation).role = "user" /\ exchange.n < MaxRequests
    /\ exchange' = [IdleRequest EXCEPT !.pc = "send", !.parallel = ~known, !.summary = TRUE,
                 !.prev = IF state.disabled THEN 0 ELSE state.id,
                 !.input = RemoteInputTurns, !.disabled = state.disabled, !.n = exchange.n + 1]
    /\ queue' = NewQueue
    /\ UNCHANGED <<gateway, conversation, state, memory, known, left, drv>>

\* The provider does not know parallel_tool_calls.
RefusedParallel ==
    /\ exchange.pc = "send" /\ exchange.parallel /\ gateway.parallel
    /\ known' = TRUE
    /\ exchange' = [exchange EXCEPT !.parallel = FALSE, !.sends = @ + 1]
    /\ UNCHANGED <<gateway, conversation, state, memory, left, drv, queue>>

\* Mutant: the input that continued the forgotten response is sent again.
WithoutPreviousOnly(r) == [r EXCEPT !.prev = 0, !.disabled = TRUE]
WithoutPrevious(r) == [r EXCEPT !.prev = 0, !.disabled = TRUE, !.input = conversation]

\* The provider does not know the previous response, or forgot it.
RefusedPrevious ==
    /\ exchange.pc = "send" /\ exchange.prev # 0
    /\ exchange' = [WithoutPrevious(exchange) EXCEPT !.sends = @ + 1]
    /\ UNCHANGED <<gateway, conversation, state, memory, known, left, drv, queue>>

RefusedSummary ==
    /\ exchange.pc = "send" /\ exchange.summary /\ gateway.summary
    /\ exchange' = [exchange EXCEPT !.summary = FALSE, !.sends = @ + 1]
    /\ UNCHANGED <<gateway, conversation, state, memory, known, left, drv, queue>>

Acceptable == /\ ~(exchange.parallel /\ gateway.parallel) /\ ~(exchange.summary /\ gateway.summary)
WhatItReads == (IF exchange.prev = 0 THEN <<>> ELSE memory[exchange.prev]) \o exchange.input

\* 200: the provider has read the request and begins to answer.
Accepted(output) ==
    /\ exchange.pc = "send" /\ Acceptable
    /\ exchange' = [exchange EXCEPT !.pc = "stream", !.sends = @ + 1, !.output = output, !.seen = WhatItReads]
    /\ left' = Script(output)
    /\ drv' = NewStream
    /\ \E s \in BOOLEAN : queue' = Push(queue, EventOf("start", 0), s)
    /\ UNCHANGED <<gateway, conversation, state, memory, known>>

Failed(code) == [exchange EXCEPT !.pc = "idle", !.ok = FALSE, !.code = code]
FlushedBy(q) == \E s \in BOOLEAN : queue' = Flush(q, s)

\* Any other answer or none: the request fails and nothing was heard.
SendFails ==
    /\ exchange.pc = "send"
    /\ exchange' = Failed("provider")
    /\ UNCHANGED <<gateway, conversation, state, memory, known, left, drv, queue>>

-----------------------------------------------------------------------------
(***************************************************************************)
(* readStream.                                                              *)
(***************************************************************************)
Started(d, i) == \E j \in 1..Len(d.order) : d.order[j] = i
EmitWebStart(d, i) == IF Started(d, i) THEN <<>> ELSE <<EventOf("webStart", i)>>
WithStart(d, i) == IF Started(d, i) THEN d ELSE [d EXCEPT !.order = Append(@, i)]
StillOpen(d) == SelectSeq(d.order, LAMBDA i : i \notin d.closed)
WebEnds(open) == [j \in 1..Len(open) |-> EventOf("webEnd", open[j])]
AllClosed(d) == [d EXCEPT !.closed = @ \cup ToSet(d.order)]

DoneFlush(d, i) ==
    (IF d.unsent = <<>> THEN <<>> ELSE <<Delta("callDelta", i, d.unsent)>>) \o <<EventOf("callDone", i)>>

\* One event of the stream: what it does to the locals and what it emits.
\* ready: the buffered arguments make a batch.
Handled(d, e, ready) ==
    CASE e.k = "think" -> [d |-> d, out |-> <<e>>]
      [] e.k = "text"  -> [d |-> [d EXCEPT !.text = @ \o e.pieces], out |-> <<e>>]
      [] e.k = "added" -> [d |-> [d EXCEPT !.calls = @ \cup {e.i}, !.unsent = <<>>],
                           out |-> <<Delta("callDelta", e.i, <<>>)>>]
      [] e.k = "arguments" ->
            IF ready THEN [d |-> [d EXCEPT !.unsent = <<>>],
                           out |-> <<Delta("callDelta", e.i, d.unsent \o e.pieces)>>]
            ELSE [d |-> [d EXCEPT !.unsent = @ \o e.pieces], out |-> <<>>]
      [] e.k = "argumentsDone" -> [d |-> [d EXCEPT !.unsent = <<>>], out |-> DoneFlush(d, e.i)]
      [] e.k = "searching" ->
            [d |-> WithStart(d, e.i),
             out |-> EmitWebStart(d, e.i) \o (IF Started(d, e.i) THEN <<EventOf("webUpdate", e.i)>> ELSE <<>>)]
      [] OTHER -> \* itemDone of a web call
            [d |-> WithStart(d, e.i),
             out |-> EmitWebStart(d, e.i)
                     \o (IF e.i \in d.closed THEN <<>> ELSE <<EventOf("webUpdate", e.i)>>)]

StreamEvent ==
    /\ exchange.pc = "stream" /\ left # <<>> /\ ~drv.completed
    /\ \E ready, s \in BOOLEAN :
         LET h == Handled(drv, Head(left), ready) IN
         /\ drv' = h.d
         /\ queue' = EmitAll(queue, h.out, s)
    /\ left' = Tail(left)
    /\ UNCHANGED <<gateway, conversation, state, memory, known, exchange>>

\* Events of web activities only the envelope names.
UnheardWebs(d, webs) ==
    LET new == SetToSortSeq({i \in webs : ~Started(d, i)}, <)
    IN FlattenSeq([j \in 1..Len(new) |-> <<EventOf("webStart", new[j]), EventOf("webEnd", new[j])>>])

MissingText(emitted, final) ==
    IF IsPrefix(emitted, final) THEN SubSeq(final, Len(emitted) + 1, Len(final)) ELSE <<>>

Enveloped(d, final) ==
    [AllClosed(d) EXCEPT !.final = final, !.hasFinal = TRUE, !.completed = TRUE]

\* response.completed, response.incomplete: the envelope has the whole answer.
StreamEnvelope ==
    /\ exchange.pc = "stream" /\ left = <<>> /\ ~drv.completed
    /\ LET final == Converted(exchange.output)
           missing == MissingText(drv.text, final.text)
       IN /\ drv' = Enveloped(drv, final)
          /\ \E s \in BOOLEAN :
               queue' = EmitAll(queue, WebEnds(StillOpen(drv))
                          \o (IF missing = <<>> THEN <<>> ELSE <<Delta("text", 0, missing)>>)
                          \o UnheardWebs(drv, final.webs), s)
    /\ UNCHANGED <<gateway, conversation, state, memory, known, exchange, left>>

\* [DONE] and no envelope.
StreamDone ==
    /\ exchange.pc = "stream" /\ left = <<>> /\ ~drv.completed
    /\ drv' = [drv EXCEPT !.completed = TRUE]
    /\ UNCHANGED <<gateway, conversation, state, memory, known, exchange, left, queue>>

\* The calls a response without an envelope keeps: those whose output index
\* is below the number of calls.
SynthesizedCalls(d) == {i \in d.calls : i - 1 < Cardinality(d.calls)}
Final(d) ==
    IF d.hasFinal THEN d.final
    ELSE [text |-> d.text, calls |-> SynthesizedCalls(d), webs |-> ToSet(d.order)]
IsEmpty(final) == final.text = <<>> /\ final.calls = {} /\ final.webs = {}

Remembered(d) == IF d.hasFinal THEN Len(memory) + 1 ELSE 0
VersNow == [id \in DOMAIN SystemVers |-> Digest(id)]

\* The body ends after a completed answer.
StreamSucceeds ==
    /\ exchange.pc = "stream" /\ drv.completed /\ ~IsEmpty(Final(drv))
    /\ \E s \in BOOLEAN :
         queue' = EmitAll(queue, WebEnds(StillOpen(drv)) \o <<EventOf("usage", 0), EventOf("done", 0)>>, s)
    /\ drv' = AllClosed(drv)
    /\ memory' = IF drv.hasFinal
                 THEN Append(memory, Append(exchange.seen, [role |-> "agent", id |-> exchange.n, ver |-> 0])) ELSE memory
    /\ state' = [id |-> Remembered(drv), vers |-> VersNow, disabled |-> exchange.disabled]
    /\ conversation' = Append(conversation, [role |-> "agent", id |-> exchange.n, ver |-> 0])
    /\ exchange' = [exchange EXCEPT !.pc = "idle", !.ok = TRUE, !.result = Final(drv)]
    /\ UNCHANGED <<gateway, known, left>>

\* The provider said nothing: no text, no call, no activity.
StreamEmpty ==
    /\ exchange.pc = "stream" /\ drv.completed /\ IsEmpty(Final(drv))
    /\ exchange' = Failed("protocol")
    /\ FlushedBy(queue)
    /\ UNCHANGED <<gateway, conversation, state, memory, known, left, drv>>

\* The connection ends or breaks between two events, the provider reports a
\* failure, or the request is cancelled: what was started is ended as failed.
StreamBreaks ==
    /\ exchange.pc = "stream"
    /\ exchange' = Failed("network")
    /\ \E s \in BOOLEAN : queue' = Flush(EmitAll(queue, WebEnds(StillOpen(drv)), s), s)
    /\ drv' = AllClosed(drv)
    /\ UNCHANGED <<gateway, conversation, state, memory, known, left>>

\* It breaks inside an event: what came of it is decoded first, and refused.
StreamBreaksInEvent ==
    /\ exchange.pc = "stream" /\ (left # <<>> \/ ~drv.completed)
    /\ exchange' = Failed("protocol")
    /\ FlushedBy(queue)
    /\ UNCHANGED <<gateway, conversation, state, memory, known, left, drv>>

\* The host refuses an event: the driver returns at once.
HostFails ==
    /\ exchange.pc = "stream"
    /\ exchange' = Failed("host")
    /\ UNCHANGED <<gateway, conversation, state, memory, known, left, drv, queue>>

\* The same answer in one body: emitResponseParts, usage, done.
WholeParts(output) ==
    FlattenSeq([i \in 1..Len(output) |->
        CASE output[i] = "text" -> <<Delta("text", i, BothPieces(i))>>
          [] output[i] = "web"  -> <<EventOf("webStart", i), EventOf("webEnd", i)>>
          [] OTHER -> <<>>])
AnsweredWhole(output) ==
    /\ exchange.pc = "send" /\ Acceptable /\ ~gateway.deltas /\ ~IsEmpty(Converted(output))
    /\ \E s \in BOOLEAN :
         queue' = EmitAll(queue, <<EventOf("start", 0)>> \o WholeParts(output)
                                 \o <<EventOf("usage", 0), EventOf("done", 0)>>, s)
    /\ memory' = Append(memory, Append(WhatItReads, [role |-> "agent", id |-> exchange.n, ver |-> 0]))
    /\ state' = [id |-> Len(memory) + 1, vers |-> VersNow, disabled |-> exchange.disabled]
    /\ conversation' = Append(conversation, [role |-> "agent", id |-> exchange.n, ver |-> 0])
    /\ exchange' = [exchange EXCEPT !.pc = "idle", !.ok = TRUE, !.sends = @ + 1, !.output = output,
                          !.seen = WhatItReads, !.result = Converted(output)]
    /\ drv' = NewStream /\ left' = <<>>
    /\ UNCHANGED <<gateway, known>>

-----------------------------------------------------------------------------
(***************************************************************************)
(* The conversation between two requests.                                   *)
(***************************************************************************)
UserAsks ==
    /\ exchange.pc = "idle" /\ exchange.n < MaxRequests
    /\ Last(conversation).role # "user" \/ exchange.code # "none"
    /\ Len(conversation) < 2 * MaxRequests + 1
    /\ conversation' = Append(conversation, [role |-> "user", id |-> Len(conversation), ver |-> 0])
    /\ exchange' = [exchange EXCEPT !.code = "none"]
    /\ UNCHANGED <<gateway, state, memory, known, left, drv, queue>>

SystemChanges ==
    /\ exchange.pc = "idle" /\ conversation[1].ver < MaxSystemChanges
    /\ conversation' = [conversation EXCEPT ![1].ver = @ + 1]
    /\ UNCHANGED <<gateway, state, memory, known, exchange, left, drv, queue>>

ResponsesInit ==
    /\ gateway \in [parallel : BOOLEAN, summary : BOOLEAN, deltas : BOOLEAN]
    /\ conversation = <<[role |-> "system", id |-> 0, ver |-> 0], [role |-> "user", id |-> 1, ver |-> 0]>>
    /\ state = [id |-> 0, vers |-> <<>>, disabled |-> FALSE]
    /\ memory = <<>>
    /\ known = FALSE
    /\ exchange = IdleRequest
    /\ left = <<>>
    /\ drv = NewStream
    /\ queue = NewQueue

ResponsesNext ==
    \/ Build \/ RefusedParallel \/ RefusedPrevious \/ RefusedSummary \/ SendFails
    \/ \E output \in ProviderOutputs : Accepted(output) \/ AnsweredWhole(output)
    \/ StreamEvent \/ StreamEnvelope \/ StreamDone \/ StreamSucceeds \/ StreamEmpty
    \/ StreamBreaks \/ StreamBreaksInEvent \/ HostFails
    \/ UserAsks \/ SystemChanges

ResponsesSpec == ResponsesInit /\ [][ResponsesNext]_responsesVars

-----------------------------------------------------------------------------
Settled == exchange.pc = "idle" /\ exchange.n > 0
Answered == Settled /\ exchange.ok
Heard(k) == SelectSeq(queue.log, LAMBDA e : e.k = k)
PiecesOf(es) == FlattenSeq([j \in 1..Len(es) |-> es[j].pieces])
PlaceOf(k, i) == {j \in 1..Len(queue.log) : queue.log[j].k = k /\ queue.log[j].i = i}

\* What the host heard of a finished answer is the answer: all of its text in
\* its order when no piece was dropped, none of it twice, and all of it before
\* the event that ends the response.
HostHearsTheAnswer ==
    Answered =>
        /\ queue.dropped = 0 => PiecesOf(Heard("text")) = exchange.result.text
        /\ ToSet(PiecesOf(Heard("text"))) \subseteq ToSet(exchange.result.text)
        /\ IsInjective(PiecesOf(Heard("text")))
        /\ queue.pending = NoEvent /\ Last(queue.log).k = "done"

\* The host sees each web activity start once, then end once, and no activity
\* is left running by a request that succeeds or breaks off; only an event cut
\* in two, or the host itself, stops the driver before it ends them.
WebActivitiesEnd ==
    \A i \in 1..Len(exchange.output) :
        /\ Cardinality(PlaceOf("webStart", i)) <= 1 /\ Cardinality(PlaceOf("webEnd", i)) <= 1
        /\ \A j \in PlaceOf("webEnd", i) : \E k \in PlaceOf("webStart", i) : k < j
        /\ (Settled /\ (exchange.ok \/ exchange.code = "network"))
             => Cardinality(PlaceOf("webStart", i)) = Cardinality(PlaceOf("webEnd", i))

\* When the host is told that a call is complete it has been given all of the
\* call's arguments, in their order.
CallsArriveWhole ==
    \A i \in 1..Len(exchange.output), j \in 1..Len(queue.log) :
        (queue.log[j].k = "callDone" /\ queue.log[j].i = i)
            => PiecesOf(SelectSeq(SubSeq(queue.log, 1, j),
                                  LAMBDA e : e.k = "callDelta" /\ e.i = i)) = BothPieces(i)

\* The provider answers from the conversation as it is here: every turn but
\* the system's once and in order, the system turn's present text, and it is
\* asked at most once for every part of the request it may refuse.
ProviderReadsTheConversation ==
    exchange.pc = "stream" =>
        /\ SelectSeq(exchange.seen, LAMBDA t : t.role # "system") = SelectSeq(conversation, LAMBDA t : t.role # "system")
        /\ LET system == SelectSeq(exchange.seen, LAMBDA t : t.role = "system")
           IN system # <<>> /\ Last(system).ver = conversation[1].ver
        /\ exchange.sends <= 4

\* What the host hears of a response adds up, however slow it is and wherever the
\* stream breaks: the text, the web activities and the calls.
HostHearsRight == HostHearsTheAnswer /\ WebActivitiesEnd /\ CallsArriveWhole
=============================================================================
