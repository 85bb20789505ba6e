------------------------------- MODULE McpProofs -------------------------------
(***************************************************************************)
(* The connections of the MCP client.                                      *)
(*                                                                         *)
(* The stream of a remote server, for any number of messages, any number   *)
(* of tries and any buffer: no message is lost or repeated over its        *)
(* reconnections, and a connection that makes progress is not given up.    *)
(* The messages that were handed over are counted by the id the stream     *)
(* continues from; the attempts that bring nothing new run ahead of the    *)
(* code's count.                                                           *)
(*                                                                         *)
(* The manager, for any finite set of servers and any number of operations,*)
(* calls and changes: every open session has an owner, and the catalog is  *)
(* what the connected sessions list as soon as nothing is under way.  An   *)
(* operation is followed by what it still owes: the connection it has to   *)
(* install or close, the server it has to cut, the catalog it has to       *)
(* rebuild.                                                                *)
(***************************************************************************)
EXTENDS McpManager, ResumableStream, TLAPS, SequenceTheorems, FiniteSetTheorems

-----------------------------------------------------------------------------
(* The stream.                                                              *)

StreamShape ==
  /\ withIds \in BOOLEAN /\ at \in {"stream", "retry", "done"}
  /\ position \in 0..MaxMessages /\ lastEventID \in 0..MaxMessages /\ startID \in 0..MaxMessages
  /\ failedResumes \in Nat /\ tries \in 0..Tries
  /\ incoming \in Seq(Nat) /\ readBy \in Seq(Nat)
  /\ reason \in {"none", "no_id", "no_progress", "closed", "read"} /\ truncated \in BOOLEAN

\* Until a part of an event is taken for one, what has been handed over is what the
\* server has sent, and the id to continue from is that of the last message.
Continuity ==
  /\ ~withIds => lastEventID = 0 /\ at # "retry"
  /\ at = "stream" => startID <= position
  /\ ~truncated => /\ Len(Received) = position
                   /\ \A i \in DOMAIN Received : Received[i] = i
                   /\ withIds => lastEventID = position

\* A failed attempt that is counted has been made: the count runs behind the attempts
\* as long as no new id arrives.
Counting ==
  /\ at = "retry" => failedResumes <= tries \/ tries = Tries
  /\ at = "stream" /\ lastEventID = startID /\ lastEventID # 0 =>
       failedResumes < tries \/ tries = Tries
  /\ at # "done" => reason = "none"
  /\ reason = "no_progress" => tries = Tries

StreamInv == StreamShape /\ Continuity /\ Counting

-----------------------------------------------------------------------------
(* Sequences: what was received does not depend on how much of it was read. *)

LEMMA ReceivedType == ASSUME StreamShape PROVE Received \in Seq(Nat) /\ Len(Received) \in Nat
  BY DEF StreamShape, Received

LEMMA ReadKeepsReceived ==
  ASSUME StreamShape, incoming # <<>>
  PROVE  Append(readBy, Head(incoming)) \o Tail(incoming) = Received
  <1> DEFINE new == Append(readBy, Head(incoming)) \o Tail(incoming)
  <1>1. /\ incoming \in Seq(Nat) /\ readBy \in Seq(Nat) /\ Len(incoming) \in Nat \ {0} /\ Len(readBy) \in Nat
        /\ Head(incoming) = incoming[1] /\ incoming[1] \in Nat
    BY DEF StreamShape
  <1>2. /\ Tail(incoming) \in Seq(Nat) /\ Len(Tail(incoming)) = Len(incoming) - 1
        /\ \A k \in 1..Len(incoming) - 1 : Tail(incoming)[k] = incoming[k + 1]
    BY <1>1
  <1>3. /\ Append(readBy, Head(incoming)) \in Seq(Nat)
        /\ Len(Append(readBy, Head(incoming))) = Len(readBy) + 1
        /\ Append(readBy, Head(incoming))[Len(readBy) + 1] = incoming[1]
        /\ \A k \in 1..Len(readBy) : Append(readBy, Head(incoming))[k] = readBy[k]
    BY <1>1
  <1>4. /\ new \in Seq(Nat) /\ Received \in Seq(Nat)
        /\ Len(new) = Len(readBy) + Len(incoming) /\ Len(Received) = Len(readBy) + Len(incoming)
    BY <1>1, <1>2, <1>3 DEF Received
  <1>5. ASSUME NEW k \in 1..Len(new) PROVE new[k] = Received[k]
    <2>1. k \in Int /\ 1 <= k /\ k <= Len(readBy) + Len(incoming)  BY <1>1, <1>4
    <2>2. CASE k <= Len(readBy)
      <3>1. Received[k] = readBy[k]  BY <1>1, <2>1, <2>2 DEF Received
      <3>2. new[k] = Append(readBy, Head(incoming))[k]  BY <1>1, <1>2, <1>3, <2>1, <2>2
      <3>3. k \in 1..Len(readBy)  BY <1>1, <2>1, <2>2
      <3> QED  BY <1>3, <3>1, <3>2, <3>3
    <2>3. CASE k = Len(readBy) + 1
      <3>1. Received[k] = incoming[1]  BY <1>1, <2>1, <2>3 DEF Received
      <3>2. new[k] = Append(readBy, Head(incoming))[k]  BY <1>1, <1>2, <1>3, <2>1, <2>3
      <3> QED  BY <1>3, <2>3, <3>1, <3>2
    <2>4. CASE k > Len(readBy) + 1
      <3> DEFINE m == k - (Len(readBy) + 1)
      <3>1. m \in 1..Len(incoming) - 1  BY <1>1, <2>1, <2>4
      <3>2. Received[k] = incoming[m + 1]  BY <1>1, <2>1, <2>4 DEF Received
      <3>3. new[k] = Tail(incoming)[m]  BY <1>1, <1>2, <1>3, <2>1, <2>4
      <3> QED  BY <1>2, <3>1, <3>2, <3>3
    <2> QED  BY <1>1, <2>1, <2>2, <2>3, <2>4
  <1> HIDE DEF new
  <1>6. Len(new) = Len(Received) /\ Len(new) \in Nat  BY <1>1, <1>4
  <1>7. new = Received  BY <1>4, <1>5, <1>6, SeqEqual
  <1> QED  BY <1>7 DEF new

\* A message that arrives is one more at the end.
LEMMA ArrivalExtends ==
  ASSUME StreamShape, NEW m \in Nat
  PROVE  LET new == readBy \o Append(incoming, m)
         IN  /\ Len(new) = Len(Received) + 1 /\ DOMAIN new = 1..(Len(Received) + 1)
             /\ new[Len(Received) + 1] = m
             /\ \A k \in DOMAIN Received : new[k] = Received[k]
  BY SMTT(30) DEF StreamShape, Received

-----------------------------------------------------------------------------
LEMMA StreamTyped == ASSUME StreamShape, StreamNext PROVE StreamShape'
  <1> USE StreamAssumption DEF StreamShape
  <1>1. CASE Event
    <2>1. position + 1 \in 0..MaxMessages /\ position + 1 \in Nat  BY <1>1 DEF Event
    <2>2. incoming' \in Seq(Nat)  BY <1>1, <2>1 DEF Event
    <2> QED  BY <1>1, <2>1, <2>2 DEF Event, SetID
  <1>2. CASE StreamEnds  BY <1>2 DEF StreamEnds, GiveUpStream, Counted, CountReset
  <1>3. CASE EventCut
    <2>1. position + 1 \in 0..MaxMessages /\ MaxMessages \in 0..MaxMessages /\ Part \in Nat
      BY <1>3 DEF EventCut, Part
    <2>2. incoming' \in Seq(Nat) /\ lastEventID' \in 0..MaxMessages  BY <1>3, <2>1 DEF EventCut
    <2> QED  BY <1>3, <2>1, <2>2 DEF EventCut
  <1>4. CASE Reconnects
    BY <1>4 DEF Reconnects, GivesUp, Resume, ResumeFails, GiveUpStream, ResumeFrom, ResumeLast
  <1>5. CASE ReadEvent
    <2>1. Head(incoming) \in Nat /\ Tail(incoming) \in Seq(Nat)  BY <1>5 DEF ReadEvent
    <2> QED  BY <1>5, <2>1 DEF ReadEvent
  <1>6. CASE ReadsEnd \/ CloseStream  BY <1>6 DEF ReadsEnd, CloseStream, GiveUpStream
  <1> QED  BY <1>1, <1>2, <1>3, <1>4, <1>5, <1>6 DEF StreamNext

LEMMA ContinuityKept == ASSUME StreamShape, StreamShape', Continuity, StreamNext PROVE Continuity'
  <1>1. CASE Event
    <2>1. /\ position' = position + 1 /\ incoming' = Append(incoming, position + 1)
          /\ UNCHANGED <<withIds, at, startID, readBy, truncated>>
          /\ lastEventID' = IF withIds THEN position + 1 ELSE lastEventID
      BY <1>1 DEF Event, SetID
    <2>2. position \in Nat /\ position + 1 \in Nat /\ startID \in Nat  BY DEF StreamShape
    <2>3. Received' = readBy \o Append(incoming, position + 1)  BY <2>1 DEF Received
    <2>4. /\ Len(Received') = Len(Received) + 1 /\ DOMAIN Received' = 1..(Len(Received) + 1)
          /\ Received'[Len(Received) + 1] = position + 1
          /\ \A k \in DOMAIN Received : Received'[k] = Received[k]
      BY <2>2, <2>3, ArrivalExtends
    <2>5. Len(Received) \in Nat /\ DOMAIN Received = 1..Len(Received)  BY ReceivedType
    <2>6. ASSUME ~truncated
          PROVE  Len(Received') = position + 1 /\ \A i \in DOMAIN Received' : Received'[i] = i
      <3>1. Len(Received) = position /\ \A i \in DOMAIN Received : Received[i] = i
        BY <2>6 DEF Continuity
      <3>2. \A i \in DOMAIN Received' : i \in DOMAIN Received \/ i = position + 1
        BY <2>2, <2>4, <2>5, <3>1
      <3> QED  BY <2>4, <3>1, <3>2
    <2>7. ~withIds' => lastEventID' = 0 /\ at' # "retry"  BY <2>1 DEF Continuity
    <2>8. at' = "stream" => startID' <= position'  BY <2>1, <2>2 DEF Continuity
    <2>9. ~truncated' => (withIds' => lastEventID' = position')  BY <2>1
    <2>10. ~truncated' => Len(Received') = position' /\ \A i \in DOMAIN Received' : Received'[i] = i
      BY <2>1, <2>6
    <2> QED  BY <2>7, <2>8, <2>9, <2>10 DEF Continuity
  <1>2. CASE StreamEnds
    <2>1. /\ UNCHANGED <<withIds, position, lastEventID, startID, incoming, readBy, truncated>>
          /\ at' = "done" \/ (at' = "retry" /\ lastEventID # 0)
      BY <1>2 DEF StreamEnds, GiveUpStream
    <2>2. UNCHANGED Received  BY <2>1 DEF Received
    <2> QED  BY <2>1, <2>2 DEF Continuity
  <1>3. CASE EventCut
    <2>1. /\ truncated' /\ position' = MaxMessages /\ UNCHANGED <<withIds, at, startID>>
          /\ (~withIds => lastEventID' = lastEventID)
      BY <1>3 DEF EventCut
    <2>2. startID <= MaxMessages  BY StreamAssumption DEF StreamShape
    <2> QED  BY <2>1, <2>2 DEF Continuity
  <1>4. CASE Resume
    <2>1. /\ at = "retry" /\ position' = lastEventID /\ startID' = lastEventID
          /\ UNCHANGED <<withIds, lastEventID, incoming, readBy, truncated>>
      BY <1>4 DEF Resume, ResumeFrom, ResumeLast
    <2>2. UNCHANGED Received  BY <2>1 DEF Received
    <2>3. lastEventID <= lastEventID /\ withIds  BY <2>1 DEF StreamShape, Continuity
    <2> QED  BY <2>1, <2>2, <2>3 DEF Continuity
  <1>5. CASE GivesUp \/ ResumeFails \/ ReadsEnd \/ CloseStream
    <2>1. /\ UNCHANGED <<withIds, position, lastEventID, startID, incoming, readBy, truncated>>
          /\ at' = "done" \/ at' = at
      BY <1>5 DEF GivesUp, ResumeFails, ReadsEnd, CloseStream, GiveUpStream
    <2>2. UNCHANGED Received  BY <2>1 DEF Received
    <2> QED  BY <2>1, <2>2 DEF Continuity
  <1>6. CASE ReadEvent
    <2>1. UNCHANGED Received  BY <1>6, ReadKeepsReceived DEF ReadEvent, Received
    <2>2. UNCHANGED <<withIds, at, position, lastEventID, startID, truncated>>  BY <1>6 DEF ReadEvent
    <2> QED  BY <2>1, <2>2 DEF Continuity
  <1> QED  BY <1>1, <1>2, <1>3, <1>4, <1>5, <1>6 DEF StreamNext, Reconnects

LEMMA CountingKept == ASSUME StreamShape, Continuity, Counting, StreamNext PROVE Counting'
  <1> USE StreamAssumption DEF StreamShape
  <1>1. CASE Event
    <2>1. /\ at = "stream" /\ UNCHANGED <<withIds, at, startID, failedResumes, reason>>
          /\ withIds => tries' = 0 /\ lastEventID' = position + 1
          /\ ~withIds => UNCHANGED <<tries, lastEventID>>
      BY <1>1 DEF Event, SetID
    <2>2. withIds => lastEventID' # startID'  BY <2>1 DEF Continuity
    <2> QED  BY <2>1, <2>2 DEF Counting
  <1>2. CASE StreamEnds
    <2>1. /\ at = "stream" /\ UNCHANGED <<lastEventID, startID, tries>>
          /\ \/ at' = "done" /\ reason' = "no_id"
             \/ /\ at' = "retry" /\ lastEventID # 0 /\ UNCHANGED reason
                /\ failedResumes' = IF lastEventID = startID THEN failedResumes + 1 ELSE 0
      BY <1>2 DEF StreamEnds, GiveUpStream, Counted, CountReset
    <2> QED  BY <2>1 DEF Counting
  <1>3. CASE EventCut
    <2>1. /\ at = "stream" /\ UNCHANGED <<withIds, at, startID, failedResumes, reason, tries>>
          /\ lastEventID' = lastEventID \/ lastEventID' = position + 1
      BY <1>3 DEF EventCut
    <2>2. position + 1 # startID  BY <2>1 DEF Continuity
    <2> QED  BY <2>1, <2>2 DEF Counting
  <1>4. CASE GivesUp  BY <1>4 DEF GivesUp, GiveUpStream, Counting
  <1>5. CASE Resume  BY <1>5 DEF Resume, Counting
  <1>6. CASE ResumeFails  BY <1>6 DEF ResumeFails, Counting
  <1>7. CASE ReadEvent  BY <1>7 DEF ReadEvent, Counting
  <1>8. CASE ReadsEnd \/ CloseStream  BY <1>8 DEF ReadsEnd, CloseStream, GiveUpStream, Counting
  <1> QED  BY <1>1, <1>2, <1>3, <1>4, <1>5, <1>6, <1>7, <1>8 DEF StreamNext, Reconnects

LEMMA StreamInvStep == StreamInv /\ [StreamNext]_streamVars => StreamInv'
  <1> SUFFICES ASSUME StreamInv, [StreamNext]_streamVars PROVE StreamInv'  OBVIOUS
  <1>1. CASE StreamNext  BY <1>1, StreamTyped, ContinuityKept, CountingKept DEF StreamInv
  <1>2. CASE UNCHANGED streamVars
    BY <1>2 DEF StreamInv, StreamShape, Continuity, Counting, Received, streamVars
  <1> QED  BY <1>1, <1>2

LEMMA StreamInvStart == StreamInit => StreamInv
  <1> SUFFICES ASSUME StreamInit PROVE StreamInv  OBVIOUS
  <1>1. <<>> \in Seq(Nat) /\ Len(<<>>) = 0 /\ <<>> \o <<>> = <<>> /\ DOMAIN <<>> = 1..0  OBVIOUS
  <1>2. Received = <<>>  BY <1>1 DEF StreamInit, Received
  <1>3. \A i \in 1..0 : FALSE  OBVIOUS
  <1>4. StreamShape
    <2>1. withIds \in BOOLEAN /\ truncated \in BOOLEAN  BY DEF StreamInit
    <2>2. /\ at = "stream" /\ position = 0 /\ lastEventID = 0 /\ startID = 0 /\ failedResumes = 0
          /\ incoming = <<>> /\ readBy = <<>> /\ reason = "none" /\ tries = 0
      BY DEF StreamInit
    <2>3. 0 \in 0..MaxMessages /\ 0 \in 0..Tries /\ 0 \in Nat  BY StreamAssumption
    <2> QED  BY ONLY <1>1, <2>1, <2>2, <2>3 DEF StreamShape
  <1>5. Continuity
    <2>1. /\ at = "stream" /\ startID = 0 /\ position = 0 /\ lastEventID = 0
          /\ Len(Received) = 0 /\ DOMAIN Received = 1..0
      BY <1>1, <1>2 DEF StreamInit
    <2> QED  BY <1>3, <2>1 DEF Continuity
  <1>6. Counting  BY DEF StreamInit, Counting
  <1> QED  BY <1>4, <1>5, <1>6 DEF StreamInv

\* However often the stream breaks, the session reads every message once and in order,
\* and the transport ends with "no_progress" only after Tries attempts in a row that
\* brought nothing new (the resume loop of the legacy SSE read loop).
THEOREM StreamGoesOn == StreamSpec => []StreamResumes
  <1>1. StreamInv => StreamResumes
    <2> SUFFICES ASSUME StreamInv PROVE MessagesInOrder /\ GivesUpLate  BY DEF StreamResumes
    <2>1. MessagesInOrder  BY DEF StreamInv, Continuity, MessagesInOrder
    <2>2. GivesUpLate  BY StreamAssumption DEF StreamInv, Counting, StreamShape, GivesUpLate
    <2> QED  BY <2>1, <2>2
  <1> QED  BY <1>1, StreamInvStart, StreamInvStep, PTL DEF StreamSpec

-----------------------------------------------------------------------------
(* The manager: the shapes of its state.                                    *)

RuntimeFields == {"on", "status", "sess", "gen", "tools", "res"}
OpFields == {"pc", "kind", "s", "gen", "at", "retry", "sess", "old", "saw", "err"}
GoroutineFields == {"kind", "pc", "s", "sess", "gen", "saw"}
IsRuntime(r) == r = [f \in RuntimeFields |-> r[f]]
IsOp(o) == o = [f \in OpFields |-> o[f]]
IsGoroutine(g) == g = [f \in GoroutineFields |-> g[f]]

\* Where an operation is: not begun or over, in a disconnect, or in connect with the
\* runtime's lock.
AtEnd == {"idle", "done"}
Connecting == {"attempt", "dial", "listed", "installed", "failed", "failure_told"}
Places == AtEnd \cup {"cut", "cut_done", "connect"} \cup Connecting
Kinds == {"none", "reconnect", "enable", "disable", "logout"}

RuntimeTyped(s) ==
  /\ IsRuntime(rt[s])
  /\ rt[s].on \in BOOLEAN /\ rt[s].status \in Statuses /\ rt[s].sess \in 0 .. opened /\ rt[s].gen \in Nat
  /\ {rt[s].tools, rt[s].res} \subseteq (0 .. offer[s]) \cup {None}

\* A session that an operation has opened is one of its server, and only one that is
\* replaced or cut is left to close.
OpTyped(o) ==
  /\ IsOp(o) /\ o.pc \in Places /\ o.kind \in Kinds
  /\ o.pc \notin AtEnd => o.s \in Servers
  /\ {o.gen, o.at} \subseteq Nat /\ o.sess \in 0 .. opened /\ o.old \in 0 .. opened
  /\ o.pc \notin {"cut_done", "installed"} => o.old = 0
  /\ o.pc = "cut" => o.kind \in {"disable", "logout", "reconnect"}
  /\ o.pc = "listed" =>
       /\ o.saw \in 0 .. offer[o.s] /\ o.sess # 0
       /\ o.sess \in DOMAIN open => open[o.sess] = o.s

\* A session that has ended never comes back.
GoroutineTyped(g) ==
  /\ IsGoroutine(g) /\ g.s \in Servers /\ g.sess \in 0 .. opened /\ g.saw \in Nat
  /\ \/ g.kind = "monitor" /\ g.pc \in {"wait", "tell"} /\ (g.pc = "tell" => g.sess \notin DOMAIN open)
     \/ g.kind \in {"refresh", "optional"} /\ g.pc \in {"start", "fetch", "tell"}
     \/ g.kind = "call" /\ g.pc \in {"run", "tell"} /\ g.sess # 0
     \/ g.kind = "closer" /\ g.pc = "run"

ManagerTyped ==
  /\ opened \in Nat /\ offer \in [Servers -> Nat] /\ closed \in BOOLEAN
  /\ rt = [s \in Servers |-> rt[s]] /\ \A s \in Servers : RuntimeTyped(s)
  /\ op = [c \in Callers |-> op[c]] /\ \A c \in Callers : OpTyped(op[c])
  /\ \A g \in work : GoroutineTyped(g)
  /\ connectMu \in [Servers -> Callers \cup {None}]
  /\ DOMAIN open \subseteq 1 .. opened /\ \A n \in DOMAIN open : open[n] \in Servers

\* Who closes a connection that is open: an attempt that has installed it no longer
\* does.
Owned(n) ==
  \/ rt[open[n]].sess = n
  \/ \E c \in Callers : op[c].old = n \/ (op[c].sess = n /\ op[c].pc = "listed")
ClosersRun ==
  closed => \A s \in Servers : rt[s].sess = 0 \/ \E g \in work : g.kind = "closer" /\ g.s = s
CallsCut == \A g \in work : g.kind = "call" /\ g.pc = "run" => g.sess = rt[g.s].sess \/ g.sess \in cut

OwnersInv == ManagerTyped /\ (\A n \in DOMAIN open : Owned(n)) /\ ClosersRun /\ CallsCut

-----------------------------------------------------------------------------
(* What a step leaves alone keeps its shape.                                *)

LEMMA RuntimesStay ==
  ASSUME ManagerTyped, opened' \in Nat, opened' >= opened,
         offer' \in [Servers -> Nat], \A s \in Servers : offer'[s] >= offer[s]
  PROVE  \A s \in Servers : rt'[s] = rt[s] => RuntimeTyped(s)'
  <1> SUFFICES ASSUME NEW s \in Servers, rt'[s] = rt[s] PROVE RuntimeTyped(s)'
    OBVIOUS
  <1>1. /\ offer[s] \in Nat /\ offer'[s] \in Nat /\ offer'[s] >= offer[s] /\ opened \in Nat
    BY DEF ManagerTyped
  <1>2. RuntimeTyped(s)
    BY DEF ManagerTyped
  <1> QED BY <1>1, <1>2 DEF RuntimeTyped, IsRuntime

LEMMA OpsStay ==
  ASSUME ManagerTyped, opened' \in Nat, opened' >= opened,
         offer' \in [Servers -> Nat], \A s \in Servers : offer'[s] >= offer[s],
         \A n \in DOMAIN open' : n <= opened => n \in DOMAIN open /\ open'[n] = open[n]
  PROVE  \A c \in Callers : op'[c] = op[c] => OpTyped(op[c])'
  <1> SUFFICES ASSUME NEW c \in Callers, op'[c] = op[c] PROVE OpTyped(op[c])'
    OBVIOUS
  <1>1. OpTyped(op[c])
    BY DEF ManagerTyped
  <1>2. opened \in Nat /\ op[c].sess \in 0 .. opened /\ op[c].old \in 0 .. opened
    BY <1>1 DEF ManagerTyped, OpTyped
  <1>3. op[c].sess <= opened /\ op[c].sess \in 0 .. opened' /\ op[c].old \in 0 .. opened'
    BY <1>2
  <1>4. ASSUME op[c].pc = "listed" PROVE op[c].saw \in 0 .. offer'[op[c].s]
    <2>1. op[c].s \in Servers /\ op[c].saw \in 0 .. offer[op[c].s]
      BY <1>1, <1>4 DEF OpTyped, AtEnd
    <2> QED BY <2>1 DEF ManagerTyped
  <1> QED BY <1>1, <1>3, <1>4 DEF OpTyped, IsOp

LEMMA GoroutinesStay ==
  ASSUME ManagerTyped, opened' \in Nat, opened' >= opened,
         \A n \in DOMAIN open' : n <= opened => n \in DOMAIN open,
         NEW g, GoroutineTyped(g)
  PROVE  GoroutineTyped(g)'
  <1>1. opened \in Nat /\ g.sess \in 0 .. opened
    BY DEF ManagerTyped, GoroutineTyped
  <1>2. g.sess <= opened /\ g.sess \in 0 .. opened'
    BY <1>1
  <1> QED BY <1>2 DEF GoroutineTyped, IsGoroutine

LEMMA TypesGoOn ==
  ASSUME ManagerTyped, opened' \in Nat, opened' >= opened,
         offer' \in [Servers -> Nat], \A s \in Servers : offer'[s] >= offer[s],
         \A n \in DOMAIN open' : n <= opened => n \in DOMAIN open /\ open'[n] = open[n],
         DOMAIN open' \subseteq 1 .. opened', \A n \in DOMAIN open' : open'[n] \in Servers,
         closed' \in BOOLEAN, connectMu' \in [Servers -> Callers \cup {None}],
         rt' = [s \in Servers |-> rt'[s]], \A s \in Servers : rt'[s] = rt[s] \/ RuntimeTyped(s)',
         op' = [c \in Callers |-> op'[c]], \A c \in Callers : op'[c] = op[c] \/ OpTyped(op[c])',
         \A g \in work' : g \in work \/ GoroutineTyped(g)'
  PROVE  ManagerTyped'
  <1>1. \A s \in Servers : RuntimeTyped(s)'
    BY RuntimesStay
  <1>2. \A c \in Callers : OpTyped(op[c])'
    BY OpsStay
  <1>3. \A g \in work' : GoroutineTyped(g)'
    <2> SUFFICES ASSUME NEW g \in work', g \in work PROVE GoroutineTyped(g)'
      OBVIOUS
    <2>1. GoroutineTyped(g) /\ \A n \in DOMAIN open' : n <= opened => n \in DOMAIN open
      BY DEF ManagerTyped
    <2> QED BY <2>1, GoroutinesStay
  <1> QED BY <1>1, <1>2, <1>3 DEF ManagerTyped

\* The same for a step that opens no session.
LEMMA TypesStay ==
  ASSUME ManagerTyped, UNCHANGED <<opened, offer>>, closed' \in BOOLEAN,
         DOMAIN open' \subseteq DOMAIN open, \A n \in DOMAIN open' : open'[n] = open[n],
         connectMu' \in [Servers -> Callers \cup {None}],
         rt' = [s \in Servers |-> rt'[s]], \A s \in Servers : rt'[s] = rt[s] \/ RuntimeTyped(s)',
         op' = [c \in Callers |-> op'[c]], \A c \in Callers : op'[c] = op[c] \/ OpTyped(op[c])',
         \A g \in work' : g \in work \/ GoroutineTyped(g)'
  PROVE  ManagerTyped'
  <1>1. /\ opened' \in Nat /\ opened' >= opened
        /\ offer' \in [Servers -> Nat] /\ \A s \in Servers : offer'[s] >= offer[s]
    BY DEF ManagerTyped
  <1>2. /\ DOMAIN open' \subseteq 1 .. opened' /\ \A n \in DOMAIN open' : open'[n] \in Servers
        /\ \A n \in DOMAIN open' : n <= opened => n \in DOMAIN open /\ open'[n] = open[n]
    BY DEF ManagerTyped
  <1> QED BY <1>1, <1>2, TypesGoOn

\* What a step that opens no session must keep: the owner of what stays open, and that
\* a runtime which loses its session cancels its calls.
LEMMA OwnersGoOn ==
  ASSUME OwnersInv, ManagerTyped', closed' = closed, cut \subseteq cut',
         DOMAIN open' \subseteq DOMAIN open, \A n \in DOMAIN open' : open'[n] = open[n],
         \A n \in DOMAIN open' : Owned(n) => Owned(n)',
         \A s \in Servers : \/ rt'[s].sess = rt[s].sess
                            \/ /\ rt[s].sess = 0 \/ rt[s].sess \in cut'
                               /\ closed => rt'[s].sess = 0,
         \A g \in work' : g.kind = "call" /\ g.pc = "run" => g \in work,
         \A g \in work : g.kind = "closer" => g \in work' \/ rt'[g.s].sess = 0
  PROVE  OwnersInv'
  <1>1. \A n \in DOMAIN open' : Owned(n)'
    BY DEF OwnersInv
  <1>2. ClosersRun'
    BY DEF OwnersInv, ClosersRun
  <1>3. CallsCut'
    <2> SUFFICES ASSUME NEW g \in work', g.kind = "call", g.pc = "run"
                 PROVE  g.sess = rt'[g.s].sess \/ g.sess \in cut'
      BY DEF CallsCut
    <2>1. g \in work /\ GoroutineTyped(g)
      BY DEF OwnersInv, ManagerTyped
    <2>2. g.s \in Servers /\ g.sess # 0
      BY <2>1 DEF GoroutineTyped
    <2> QED BY <2>1, <2>2 DEF OwnersInv, CallsCut
  <1> QED BY <1>1, <1>2, <1>3 DEF OwnersInv

\* A step of an operation, and one of a goroutine.
LEMMA OwnersKept ==
  ASSUME NEW c \in Callers, \A d \in Callers : d # c => op'[d] = op[d], NEW n, open'[n] = open[n],
         rt[open[n]].sess = n => rt'[open[n]].sess = n \/ op'[c].old = n,
         op[c].old = n => op'[c].old = n,
         op[c].sess = n /\ op[c].pc = "listed" =>
           rt'[open[n]].sess = n \/ (op'[c].sess = n /\ op'[c].pc = "listed"),
         Owned(n)
  PROVE  Owned(n)'
  <1>1. CASE rt[open[n]].sess = n
    BY <1>1 DEF Owned
  <1>2. CASE op[c].old = n \/ (op[c].sess = n /\ op[c].pc = "listed")
    BY <1>2 DEF Owned
  <1>3. ASSUME NEW d \in Callers, d # c, op[d].old = n \/ (op[d].sess = n /\ op[d].pc = "listed")
        PROVE  Owned(n)'
    <2>1. op'[d] = op[d]
      BY <1>3
    <2> QED BY <1>3, <2>1 DEF Owned
  <1> QED BY <1>1, <1>2, <1>3 DEF Owned

\* The operation that a caller starts, and the one that has returned.
LEMMA ReturnedShape ==
  /\ IsOp(Returned) /\ Returned.pc = "done" /\ Returned.kind = "none"
  /\ Returned.old = 0 /\ Returned.sess = 0 /\ Returned.gen = 0 /\ Returned.at = 0
  <1>1. IsOp(Resting)
    BY DEF IsOp, OpFields, Resting
  <1> QED BY <1>1 DEF IsOp, OpFields, Resting, Returned

Started(pc, kind, s) == [Resting EXCEPT !.pc = pc, !.kind = kind, !.s = s]

LEMMA StartedShape ==
  ASSUME NEW pc, NEW kind, NEW s
  PROVE  /\ IsOp(Started(pc, kind, s))
         /\ Started(pc, kind, s).pc = pc /\ Started(pc, kind, s).kind = kind /\ Started(pc, kind, s).s = s
         /\ Started(pc, kind, s).old = 0 /\ Started(pc, kind, s).sess = 0
         /\ Started(pc, kind, s).gen = 0 /\ Started(pc, kind, s).at = 0
  <1>1. IsOp(Resting)
    BY DEF IsOp, OpFields, Resting
  <1> QED BY <1>1 DEF IsOp, OpFields, Resting, Started

LEMMA ReturnedTyped == ASSUME opened' \in Nat, NEW c \in Callers, op'[c] = Returned PROVE OpTyped(op[c])'
  BY ReturnedShape DEF OpTyped, IsOp, AtEnd, Places, Kinds, ManagerTyped

\* A status or a switch that changes leaves the session of every server as it was.
LEMMA StatusOnly ==
  ASSUME ManagerTyped, NEW s \in Servers, NEW x, UNCHANGED <<opened, offer>>,
         \/ x \in Statuses /\ rt' = [rt EXCEPT ![s].status = x]
         \/ x \in BOOLEAN /\ rt' = [rt EXCEPT ![s].on = x]
  PROVE  /\ rt' = [t \in Servers |-> rt'[t]]
         /\ \A t \in Servers : RuntimeTyped(t)' /\ rt'[t].sess = rt[t].sess
  <1>1. rt = [t \in Servers |-> rt[t]] /\ \A t \in Servers : RuntimeTyped(t)
    BY DEF ManagerTyped
  <1>2. RuntimeTyped(s) /\ IsRuntime(rt[s])
    BY <1>1 DEF RuntimeTyped
  <1>3. rt' = [t \in Servers |-> rt'[t]] /\ \A t \in Servers : t # s => rt'[t] = rt[t]
    BY <1>1
  <1>4. RuntimeTyped(s)' /\ rt'[s].sess = rt[s].sess
    BY <1>1, <1>2 DEF RuntimeTyped, IsRuntime, RuntimeFields
  <1>5. ASSUME NEW t \in Servers, t # s PROVE RuntimeTyped(t)'
    BY <1>1, <1>3, <1>5 DEF RuntimeTyped, IsRuntime
  <1> QED BY <1>3, <1>4, <1>5

\* A step of an operation that owns no connection and hands none over.
LEMMA QuietSteps ==
  ASSUME OwnersInv, NEW c \in Callers,
         op' = [d \in Callers |-> op'[d]], \A d \in Callers : d # c => op'[d] = op[d],
         OpTyped(op[c])', op[c].pc \notin {"listed", "cut_done", "installed"},
         UNCHANGED <<closed, work, open, cut, opened, offer>>,
         rt' = [s \in Servers |-> rt'[s]],
         \A s \in Servers : RuntimeTyped(s)' /\ rt'[s].sess = rt[s].sess,
         connectMu' \in [Servers -> Callers \cup {None}]
  PROVE  OwnersInv'
  <1>1. ManagerTyped'
    <2>1. ManagerTyped /\ closed' \in BOOLEAN
      BY DEF OwnersInv, ManagerTyped
    <2> QED BY <2>1, TypesStay
  <1>2. op[c].old = 0
    BY DEF OwnersInv, ManagerTyped, OpTyped
  <1>3. ASSUME NEW n \in DOMAIN open', Owned(n) PROVE Owned(n)'
    <2>1. open[n] \in Servers /\ n # 0 /\ open'[n] = open[n]
      BY DEF OwnersInv, ManagerTyped
    <2>2. rt'[open[n]].sess = rt[open[n]].sess
      BY <2>1
    <2> QED BY <1>2, <1>3, <2>1, <2>2, OwnersKept
  <1>4. \A n \in DOMAIN open' : Owned(n) => Owned(n)'
    BY <1>3
  <1> QED BY <1>1, <1>4, OwnersGoOn

LEMMA StartQuiet ==
  ASSUME OwnersInv, NEW c \in Callers, NEW kind \in {"reconnect", "enable", "disable", "logout"}, NEW s \in Servers, Start(c, kind, s)
  PROVE  OwnersInv'
  <1>1. /\ ManagerTyped /\ OpTyped(op[c]) /\ op = [d \in Callers |-> op[d]] /\ opened \in Nat
        /\ rt = [t \in Servers |-> rt[t]] /\ \A t \in Servers : RuntimeTyped(t)
        /\ connectMu \in [Servers -> Callers \cup {None}]
    BY DEF OwnersInv, ManagerTyped
  <1>2. op[c].pc \notin {"listed", "cut_done", "installed"}
    BY DEF Start
  <1>3. /\ OpTyped(op[c])' /\ op' = [d \in Callers |-> op'[d]]
        /\ \A d \in Callers : d # c => op'[d] = op[d]
    <2> DEFINE pc == IF kind = "enable" THEN "connect" ELSE "cut"
    <2>1. /\ op' = [op EXCEPT ![c] = Started(pc, kind, s)]
          /\ opened' = opened /\ pc \in {"connect", "cut"}
          /\ pc = "cut" => kind \in {"disable", "logout", "reconnect"}
      BY DEF Start, Started
    <2> HIDE DEF pc
    <2>2. /\ op' = [d \in Callers |-> op'[d]] /\ \A d \in Callers : d # c => op'[d] = op[d]
          /\ op'[c] = Started(pc, kind, s)
      BY <1>1, <2>1
    <2>3. /\ IsOp(op'[c]) /\ op'[c].pc = pc /\ op'[c].kind = kind /\ op'[c].s = s
          /\ op'[c].old = 0 /\ op'[c].sess = 0 /\ op'[c].gen = 0 /\ op'[c].at = 0
      BY <2>2, StartedShape
    <2>4. 0 \in 0 .. opened'
      BY <1>1, <2>1
    <2>5. /\ op'[c].pc \in Places /\ op'[c].kind \in Kinds /\ op'[c].pc \notin {"cut_done", "installed", "listed"}
          /\ op'[c].s \in Servers
      BY <2>1, <2>3 DEF Places, Kinds
    <2>6. OpTyped(op[c])'
      BY <2>1, <2>3, <2>4, <2>5 DEF OpTyped
    <2> QED BY <2>2, <2>6
  <1>4. /\ rt' = [t \in Servers |-> rt'[t]]
        /\ \A t \in Servers : RuntimeTyped(t)' /\ rt'[t].sess = rt[t].sess
    <2>1. CASE kind \in {"enable", "disable"}
      <3>1. UNCHANGED <<opened, offer>> /\ rt' = [rt EXCEPT ![s].on = (kind = "enable")]
        BY <2>1 DEF Start
      <3>2. (kind = "enable") \in BOOLEAN
        OBVIOUS
      <3> QED BY <1>1, <3>1, <3>2, StatusOnly
    <2>2. CASE kind \notin {"enable", "disable"}
      BY <1>1, <2>2 DEF RuntimeTyped, IsRuntime, Start
    <2> QED BY <2>1, <2>2
  <1>5. UNCHANGED <<closed, work, open, cut, opened, offer>> /\ connectMu' \in [Servers -> Callers \cup {None}]
    BY <1>1, <1>2 DEF Start
  <1> QED BY <1>2, <1>3, <1>4, <1>5, QuietSteps

LEMMA RefusedQuiet ==
  ASSUME OwnersInv, NEW c \in Callers, Refused(c)
  PROVE  OwnersInv'
  <1>1. /\ ManagerTyped /\ OpTyped(op[c]) /\ op = [d \in Callers |-> op[d]] /\ opened \in Nat
        /\ rt = [t \in Servers |-> rt[t]] /\ \A t \in Servers : RuntimeTyped(t)
        /\ connectMu \in [Servers -> Callers \cup {None}]
    BY DEF OwnersInv, ManagerTyped
  <1>2. op[c].s \in Servers /\ op[c].old = 0 /\ op[c].pc \notin {"listed", "cut_done", "installed"}
    BY <1>1 DEF OpTyped, AtEnd, Refused
  <1>3. /\ OpTyped(op[c])' /\ op' = [d \in Callers |-> op'[d]]
        /\ \A d \in Callers : d # c => op'[d] = op[d]
    <2>1. /\ op' = [op EXCEPT ![c] = Returned] /\ opened' = opened
      BY DEF Refused, Finish
    <2> QED BY <1>1, <2>1, ReturnedTyped
  <1>4. /\ rt' = [t \in Servers |-> rt'[t]]
        /\ \A t \in Servers : RuntimeTyped(t)' /\ rt'[t].sess = rt[t].sess
    BY <1>1 DEF RuntimeTyped, IsRuntime, Refused
  <1>5. UNCHANGED <<closed, work, open, cut, opened, offer>> /\ connectMu' \in [Servers -> Callers \cup {None}]
    BY <1>1, <1>2 DEF Refused
  <1> QED BY <1>2, <1>3, <1>4, <1>5, QuietSteps

LEMMA ConnectQuiet ==
  ASSUME OwnersInv, NEW c \in Callers, Connect(c)
  PROVE  OwnersInv'
  <1>1. /\ ManagerTyped /\ OpTyped(op[c]) /\ op = [d \in Callers |-> op[d]] /\ opened \in Nat
        /\ rt = [t \in Servers |-> rt[t]] /\ \A t \in Servers : RuntimeTyped(t)
        /\ connectMu \in [Servers -> Callers \cup {None}]
    BY DEF OwnersInv, ManagerTyped
  <1>2. op[c].s \in Servers /\ op[c].old = 0 /\ op[c].pc \notin {"listed", "cut_done", "installed"}
    BY <1>1 DEF OpTyped, AtEnd, Connect
  <1>3. /\ OpTyped(op[c])' /\ op' = [d \in Callers |-> op'[d]]
        /\ \A d \in Callers : d # c => op'[d] = op[d]
    <2>1. RuntimeTyped(op[c].s)
      BY <1>1, <1>2
    <2> QED BY <1>1, <1>2, <2>1 DEF OpTyped, IsOp, OpFields, RuntimeTyped, AtEnd, Places, Connecting, Connect
  <1>4. /\ rt' = [t \in Servers |-> rt'[t]]
        /\ \A t \in Servers : RuntimeTyped(t)' /\ rt'[t].sess = rt[t].sess
    BY <1>1 DEF RuntimeTyped, IsRuntime, Connect
  <1>5. UNCHANGED <<closed, work, open, cut, opened, offer>> /\ connectMu' \in [Servers -> Callers \cup {None}]
    BY <1>1, <1>2 DEF Connect
  <1> QED BY <1>2, <1>3, <1>4, <1>5, QuietSteps

LEMMA AttemptDisabledQuiet ==
  ASSUME OwnersInv, NEW c \in Callers, AttemptDisabled(c)
  PROVE  OwnersInv'
  <1>1. /\ ManagerTyped /\ OpTyped(op[c]) /\ op = [d \in Callers |-> op[d]] /\ opened \in Nat
        /\ rt = [t \in Servers |-> rt[t]] /\ \A t \in Servers : RuntimeTyped(t)
        /\ connectMu \in [Servers -> Callers \cup {None}]
    BY DEF OwnersInv, ManagerTyped
  <1>2. op[c].s \in Servers /\ op[c].old = 0 /\ op[c].pc \notin {"listed", "cut_done", "installed"}
    BY <1>1 DEF OpTyped, AtEnd, AttemptDisabled
  <1>3. /\ OpTyped(op[c])' /\ op' = [d \in Callers |-> op'[d]]
        /\ \A d \in Callers : d # c => op'[d] = op[d]
    <2>1. /\ op' = [op EXCEPT ![c] = Returned] /\ opened' = opened
      BY DEF AttemptDisabled, Finish
    <2> QED BY <1>1, <2>1, ReturnedTyped
  <1>4. /\ rt' = [t \in Servers |-> rt'[t]]
        /\ \A t \in Servers : RuntimeTyped(t)' /\ rt'[t].sess = rt[t].sess
    <2>1. UNCHANGED <<opened, offer>> /\ rt' = [rt EXCEPT ![op[c].s].status = "disabled"]
      BY DEF AttemptDisabled
    <2>2. "disabled" \in Statuses
      BY DEF Statuses
    <2> QED BY <1>1, <1>2, <2>1, <2>2, StatusOnly
  <1>5. UNCHANGED <<closed, work, open, cut, opened, offer>> /\ connectMu' \in [Servers -> Callers \cup {None}]
    BY <1>1, <1>2 DEF AttemptDisabled, Finish
  <1> QED BY <1>2, <1>3, <1>4, <1>5, QuietSteps

LEMMA AttemptQuiet ==
  ASSUME OwnersInv, NEW c \in Callers, Attempt(c)
  PROVE  OwnersInv'
  <1>1. /\ ManagerTyped /\ OpTyped(op[c]) /\ op = [d \in Callers |-> op[d]] /\ opened \in Nat
        /\ rt = [t \in Servers |-> rt[t]] /\ \A t \in Servers : RuntimeTyped(t)
        /\ connectMu \in [Servers -> Callers \cup {None}]
    BY DEF OwnersInv, ManagerTyped
  <1>2. op[c].s \in Servers /\ op[c].old = 0 /\ op[c].pc \notin {"listed", "cut_done", "installed"}
    BY <1>1 DEF OpTyped, AtEnd, Attempt
  <1>3. /\ OpTyped(op[c])' /\ op' = [d \in Callers |-> op'[d]]
        /\ \A d \in Callers : d # c => op'[d] = op[d]
    <2>1. RuntimeTyped(op[c].s)
      BY <1>1, <1>2
    <2>2. /\ op' = [op EXCEPT ![c].pc = "dial", ![c].at = rt[op[c].s].gen, ![c].saw = offer[op[c].s]]
          /\ UNCHANGED <<opened, offer, open>>
      BY DEF Attempt
    <2> QED BY <1>1, <1>2, <2>1, <2>2 DEF OpTyped, IsOp, OpFields, RuntimeTyped, AtEnd, Places, Connecting
  <1>4. /\ rt' = [t \in Servers |-> rt'[t]]
        /\ \A t \in Servers : RuntimeTyped(t)' /\ rt'[t].sess = rt[t].sess
    <2>1. UNCHANGED <<opened, offer>> /\ rt' = [rt EXCEPT ![op[c].s].status = (IF op[c].retry = 0 THEN "connecting" ELSE "reconnecting")]
      BY DEF Attempt
    <2>2. (IF op[c].retry = 0 THEN "connecting" ELSE "reconnecting") \in Statuses
      BY DEF Statuses
    <2> QED BY <1>1, <1>2, <2>1, <2>2, StatusOnly
  <1>5. UNCHANGED <<closed, work, open, cut, opened, offer>> /\ connectMu' \in [Servers -> Callers \cup {None}]
    BY <1>1, <1>2 DEF Attempt
  <1> QED BY <1>2, <1>3, <1>4, <1>5, QuietSteps

LEMMA DialFailsQuiet ==
  ASSUME OwnersInv, NEW c \in Callers, NEW err \in {"transient", "auth", "other"}, DialFails(c, err)
  PROVE  OwnersInv'
  <1>1. /\ ManagerTyped /\ OpTyped(op[c]) /\ op = [d \in Callers |-> op[d]] /\ opened \in Nat
        /\ rt = [t \in Servers |-> rt[t]] /\ \A t \in Servers : RuntimeTyped(t)
        /\ connectMu \in [Servers -> Callers \cup {None}]
    BY DEF OwnersInv, ManagerTyped
  <1>2. op[c].s \in Servers /\ op[c].old = 0 /\ op[c].pc \notin {"listed", "cut_done", "installed"}
    BY <1>1 DEF OpTyped, AtEnd, DialFails
  <1>3. /\ OpTyped(op[c])' /\ op' = [d \in Callers |-> op'[d]]
        /\ \A d \in Callers : d # c => op'[d] = op[d]
    <2>1. RuntimeTyped(op[c].s)
      BY <1>1, <1>2
    <2> QED BY <1>1, <1>2, <2>1 DEF OpTyped, IsOp, OpFields, RuntimeTyped, AtEnd, Places, Connecting, DialFails
  <1>4. /\ rt' = [t \in Servers |-> rt'[t]]
        /\ \A t \in Servers : RuntimeTyped(t)' /\ rt'[t].sess = rt[t].sess
    BY <1>1 DEF RuntimeTyped, IsRuntime, DialFails
  <1>5. UNCHANGED <<closed, work, open, cut, opened, offer>> /\ connectMu' \in [Servers -> Callers \cup {None}]
    BY <1>1, <1>2 DEF DialFails
  <1> QED BY <1>2, <1>3, <1>4, <1>5, QuietSteps

LEMMA ConnectionFailedQuiet ==
  ASSUME OwnersInv, NEW c \in Callers, ConnectionFailed(c)
  PROVE  OwnersInv'
  <1>1. /\ ManagerTyped /\ OpTyped(op[c]) /\ op = [d \in Callers |-> op[d]] /\ opened \in Nat
        /\ rt = [t \in Servers |-> rt[t]] /\ \A t \in Servers : RuntimeTyped(t)
        /\ connectMu \in [Servers -> Callers \cup {None}]
    BY DEF OwnersInv, ManagerTyped
  <1>2. op[c].s \in Servers /\ op[c].old = 0 /\ op[c].pc \notin {"listed", "cut_done", "installed"}
    BY <1>1 DEF OpTyped, AtEnd, ConnectionFailed
  <1>3. /\ OpTyped(op[c])' /\ op' = [d \in Callers |-> op'[d]]
        /\ \A d \in Callers : d # c => op'[d] = op[d]
    <2>1. CASE FailureCounts(c)
      BY <1>1, <1>2, <2>1 DEF OpTyped, IsOp, OpFields, AtEnd, Places, Connecting, ConnectionFailed
    <2>2. CASE ~FailureCounts(c)
      <3>1. /\ op' = [op EXCEPT ![c] = Returned] /\ opened' = opened
        BY <2>2 DEF ConnectionFailed, Finish
      <3> QED BY <1>1, <3>1, ReturnedTyped
    <2> QED BY <2>1, <2>2
  <1>4. /\ rt' = [t \in Servers |-> rt'[t]]
        /\ \A t \in Servers : RuntimeTyped(t)' /\ rt'[t].sess = rt[t].sess
    <2>1. CASE FailureCounts(c)
      <3>1. UNCHANGED <<opened, offer>> /\ rt' = [rt EXCEPT ![op[c].s].status = (IF op[c].err = "auth" THEN "needs_auth" ELSE "error")]
        BY <2>1 DEF ConnectionFailed
      <3>2. (IF op[c].err = "auth" THEN "needs_auth" ELSE "error") \in Statuses
        BY DEF Statuses
      <3> QED BY <1>1, <1>2, <3>1, <3>2, StatusOnly
    <2>2. CASE ~FailureCounts(c)
      BY <1>1, <2>2 DEF RuntimeTyped, IsRuntime, ConnectionFailed
    <2> QED BY <2>1, <2>2
  <1>5. UNCHANGED <<closed, work, open, cut, opened, offer>> /\ connectMu' \in [Servers -> Callers \cup {None}]
    BY <1>1, <1>2 DEF ConnectionFailed, Finish
  <1> QED BY <1>2, <1>3, <1>4, <1>5, QuietSteps

LEMMA FailureToldQuiet ==
  ASSUME OwnersInv, NEW c \in Callers, FailureTold(c)
  PROVE  OwnersInv'
  <1>1. /\ ManagerTyped /\ OpTyped(op[c]) /\ op = [d \in Callers |-> op[d]] /\ opened \in Nat
        /\ rt = [t \in Servers |-> rt[t]] /\ \A t \in Servers : RuntimeTyped(t)
        /\ connectMu \in [Servers -> Callers \cup {None}]
    BY DEF OwnersInv, ManagerTyped
  <1>2. op[c].s \in Servers /\ op[c].old = 0 /\ op[c].pc \notin {"listed", "cut_done", "installed"}
    BY <1>1 DEF OpTyped, AtEnd, FailureTold
  <1>3. /\ OpTyped(op[c])' /\ op' = [d \in Callers |-> op'[d]]
        /\ \A d \in Callers : d # c => op'[d] = op[d]
    <2>1. /\ op' = [op EXCEPT ![c] = Returned] /\ opened' = opened
      BY DEF FailureTold, Finish
    <2> QED BY <1>1, <2>1, ReturnedTyped
  <1>4. /\ rt' = [t \in Servers |-> rt'[t]]
        /\ \A t \in Servers : RuntimeTyped(t)' /\ rt'[t].sess = rt[t].sess
    BY <1>1 DEF RuntimeTyped, IsRuntime, FailureTold
  <1>5. UNCHANGED <<closed, work, open, cut, opened, offer>> /\ connectMu' \in [Servers -> Callers \cup {None}]
    BY <1>1, <1>2 DEF FailureTold, Finish
  <1> QED BY <1>2, <1>3, <1>4, <1>5, QuietSteps

\* The parts of the type invariant that every step starts from.
LEMMA Here ==
  ASSUME ManagerTyped
  PROVE  /\ \A c \in Callers : OpTyped(op[c])
         /\ op = [d \in Callers |-> op[d]] /\ opened \in Nat
         /\ rt = [t \in Servers |-> rt[t]] /\ \A t \in Servers : RuntimeTyped(t)
         /\ connectMu \in [Servers -> Callers \cup {None}] /\ closed \in BOOLEAN
         /\ DOMAIN open \subseteq 1 .. opened /\ \A n \in DOMAIN open : open[n] \in Servers /\ n # 0
  BY DEF ManagerTyped

LEMMA SeveredShape ==
  ASSUME NEW r, IsRuntime(r), NEW status
  PROVE  LET q == Severed(r, status) IN
         /\ IsRuntime(q) /\ q.on = r.on /\ q.gen = r.gen + 1 /\ q.status = status
         /\ q.sess = 0 /\ q.tools = None /\ q.res = None
  <1>1. IsRuntime(Severed(r, status))
    BY Zenon DEF IsRuntime, RuntimeFields, Severed
  <1>2. DOMAIN r = RuntimeFields
    BY DEF IsRuntime
  <1> QED BY <1>1, <1>2 DEF RuntimeFields, Severed

LEMMA SeveredTyped ==
  ASSUME ManagerTyped, NEW s \in Servers, NEW status \in Statuses,
         rt' = [rt EXCEPT ![s] = Severed(@, status)], UNCHANGED <<opened, offer>>
  PROVE  /\ rt' = [t \in Servers |-> rt'[t]] /\ \A t \in Servers : t # s => rt'[t] = rt[t]
         /\ RuntimeTyped(s)' /\ rt'[s].sess = 0
  <1>1. rt = [t \in Servers |-> rt[t]] /\ RuntimeTyped(s) /\ opened \in Nat
    BY Here DEF ManagerTyped
  <1>2. rt' = [t \in Servers |-> rt'[t]] /\ \A t \in Servers : t # s => rt'[t] = rt[t]
    BY <1>1
  <1>3. rt'[s] = Severed(rt[s], status)
    BY <1>1
  <1>4. IsRuntime(rt[s]) /\ rt[s].on \in BOOLEAN /\ rt[s].gen \in Nat
    BY <1>1 DEF RuntimeTyped
  <1>5. /\ IsRuntime(rt'[s]) /\ rt'[s].on \in BOOLEAN /\ rt'[s].gen \in Nat /\ rt'[s].status = status
        /\ rt'[s].sess = 0 /\ rt'[s].tools = None /\ rt'[s].res = None
    BY <1>3, <1>4, SeveredShape
  <1>6. RuntimeTyped(s)'
    BY <1>1, <1>5 DEF RuntimeTyped
  <1> QED BY <1>2, <1>5, <1>6

LEMMA DisconnectOwned == ASSUME OwnersInv, NEW c \in Callers, Disconnect(c) PROVE OwnersInv'
  <1>1. ManagerTyped
    BY DEF OwnersInv
  <1>2. PICK s \in Servers : s = op[c].s /\ RuntimeTyped(s) /\ op[c].pc = "cut" /\ op[c].old = 0
    <2>1. op[c].s \in Servers /\ op[c].pc = "cut" /\ op[c].old = 0
      BY <1>1, Here DEF Disconnect, OpTyped, AtEnd
    <2> QED BY <1>1, <2>1, Here
  <1>3. /\ OpTyped(op[c])' /\ op' = [d \in Callers |-> op'[d]] /\ op'[c].old = rt[s].sess
        /\ \A d \in Callers : d # c => op'[d] = op[d]
    <2>1. /\ op' = [op EXCEPT ![c].pc = "cut_done", ![c].old = rt[s].sess]
          /\ UNCHANGED <<opened, offer, open>>
      BY <1>2 DEF Disconnect
    <2>2. OpTyped(op[c]) /\ op = [d \in Callers |-> op[d]]
      BY <1>1, Here
    <2> QED BY <1>2, <2>1, <2>2 DEF OpTyped, IsOp, OpFields, RuntimeTyped, AtEnd, Places, Connecting
  <1>4. /\ rt' = [t \in Servers |-> rt'[t]] /\ \A t \in Servers : t # s => rt'[t] = rt[t]
        /\ RuntimeTyped(s)' /\ rt'[s].sess = 0
    <2>1. PICK status \in Statuses : status = StatusAfter(op[c].kind)
      BY DEF StatusAfter, Statuses
    <2>2. /\ rt' = [rt EXCEPT ![s] = Severed(@, status)]
          /\ UNCHANGED <<opened, offer>>
      BY <1>2, <2>1 DEF Disconnect
    <2> QED BY <1>1, <2>2, SeveredTyped
  <1>5. /\ UNCHANGED <<closed, connectMu, work, open, opened, offer>>
        /\ cut' = cut \cup ({rt[s].sess} \ {0})
    BY <1>2 DEF Disconnect
  <1>6. ManagerTyped'
    BY <1>1, <1>3, <1>4, <1>5, Here, TypesStay
  <1>7. ASSUME NEW n \in DOMAIN open', Owned(n) PROVE Owned(n)'
    <2>1. open[n] \in Servers /\ n # 0 /\ open'[n] = open[n]
      BY <1>1, <1>5, Here
    <2>2. rt[open[n]].sess = n => rt'[open[n]].sess = n \/ op'[c].old = n
      BY <1>3, <1>4, <2>1
    <2> QED BY <1>2, <1>3, <1>7, <2>1, <2>2, OwnersKept
  <1>8. \A n \in DOMAIN open' : Owned(n) => Owned(n)'
    BY <1>7
  <1>9. \A t \in Servers : \/ rt'[t].sess = rt[t].sess
                           \/ (rt[t].sess = 0 \/ rt[t].sess \in cut') /\ (closed => rt'[t].sess = 0)
    BY <1>4, <1>5
  <1> QED BY <1>5, <1>6, <1>8, <1>9, OwnersGoOn

LEMMA DisconnectToldOwned == ASSUME OwnersInv, NEW c \in Callers, DisconnectTold(c) PROVE OwnersInv'
  <1>1. ManagerTyped
    BY DEF OwnersInv
  <1>2. op[c].s \in Servers /\ op[c].pc = "cut_done"
    BY <1>1, Here DEF DisconnectTold, OpTyped, AtEnd
  <1>3. OpTyped(op[c])' /\ op' = [d \in Callers |-> op'[d]] /\ \A d \in Callers : d # c => op'[d] = op[d]
    <2>1. UNCHANGED <<opened, offer>>
      BY DEF DisconnectTold
    <2>2. OpTyped(op[c]) /\ op = [d \in Callers |-> op[d]] /\ opened \in Nat
      BY <1>1, Here
    <2>3. CASE op[c].kind = "reconnect"
      <3>1. op' = [op EXCEPT ![c] = [@ EXCEPT !.pc = "connect", !.old = 0]]
        BY <2>3 DEF DisconnectTold
      <3>2. op' = [d \in Callers |-> op'[d]] /\ \A d \in Callers : d # c => op'[d] = op[d]
        BY <2>2, <3>1
      <3>3. op'[c] = [op[c] EXCEPT !.pc = "connect", !.old = 0]
        BY <2>2, <3>1
      <3>4. IsOp(op[c]) /\ op[c].kind \in Kinds /\ {op[c].gen, op[c].at} \subseteq Nat /\ op[c].sess \in 0 .. opened
        BY <2>2 DEF OpTyped
      <3>5. /\ IsOp(op'[c]) /\ op'[c].pc = "connect" /\ op'[c].old = 0 /\ op'[c].kind = op[c].kind
            /\ op'[c].s = op[c].s /\ op'[c].gen = op[c].gen /\ op'[c].at = op[c].at /\ op'[c].sess = op[c].sess
        BY <3>3, <3>4 DEF IsOp, OpFields
      <3>6. OpTyped(op[c])'
        BY <1>2, <2>1, <2>2, <3>4, <3>5 DEF OpTyped, Places
      <3> QED BY <3>2, <3>6
    <2>4. CASE op[c].kind # "reconnect"
      <3>1. op' = [op EXCEPT ![c] = Returned]
        BY <2>4 DEF DisconnectTold
      <3> QED BY <2>1, <2>2, <3>1, ReturnedTyped
    <2> QED BY <2>3, <2>4
  <1>4. /\ UNCHANGED <<closed, rt, connectMu, work, cut, opened, offer>>
        /\ open' = [n \in DOMAIN open \ {op[c].old} |-> open[n]]
    BY DEF DisconnectTold
  <1>5. DOMAIN open' \subseteq DOMAIN open /\ \A n \in DOMAIN open' : open'[n] = open[n] /\ n # op[c].old
    BY <1>4
  <1>6. ManagerTyped'
    BY <1>1, <1>3, <1>4, <1>5, Here, TypesStay
  <1>7. ASSUME NEW n \in DOMAIN open', Owned(n) PROVE Owned(n)'
    BY <1>2, <1>3, <1>4, <1>5, <1>7, OwnersKept
  <1>8. \A n \in DOMAIN open' : Owned(n) => Owned(n)'
    BY <1>7
  <1> QED BY <1>4, <1>5, <1>6, <1>8, OwnersGoOn

LEMMA DiscardOwned == ASSUME OwnersInv, NEW c \in Callers, Discard(c) PROVE OwnersInv'
  <1>1. ManagerTyped
    BY DEF OwnersInv
  <1>2. op[c].s \in Servers /\ op[c].pc = "listed" /\ op[c].old = 0
    BY <1>1, Here DEF Discard, OpTyped, AtEnd
  <1>3. OpTyped(op[c])' /\ op' = [d \in Callers |-> op'[d]] /\ \A d \in Callers : d # c => op'[d] = op[d]
    <2>1. UNCHANGED <<opened, offer>> /\ op' = [op EXCEPT ![c].pc = "failed", ![c].err = "other"]
      BY DEF Discard
    <2>2. OpTyped(op[c]) /\ op = [d \in Callers |-> op[d]] /\ opened \in Nat
      BY <1>1, Here
    <2> QED BY <1>2, <2>1, <2>2 DEF OpTyped, IsOp, OpFields, AtEnd, Places, Connecting
  <1>4. /\ UNCHANGED <<closed, rt, connectMu, work, cut, opened, offer>>
        /\ open' = [n \in DOMAIN open \ {op[c].sess} |-> open[n]]
    BY DEF Discard
  <1>5. DOMAIN open' \subseteq DOMAIN open /\ \A n \in DOMAIN open' : open'[n] = open[n] /\ n # op[c].sess
    BY <1>4
  <1>6. ManagerTyped'
    BY <1>1, <1>3, <1>4, <1>5, Here, TypesStay
  <1>7. ASSUME NEW n \in DOMAIN open', Owned(n) PROVE Owned(n)'
    <2>1. n # 0
      BY <1>1, <1>5, Here
    <2> QED BY <1>2, <1>3, <1>4, <1>5, <1>7, <2>1, OwnersKept
  <1>8. \A n \in DOMAIN open' : Owned(n) => Owned(n)'
    BY <1>7
  <1> QED BY <1>4, <1>5, <1>6, <1>8, OwnersGoOn

LEMMA InstalledShape ==
  ASSUME NEW r, IsRuntime(r), NEW n, NEW v
  PROVE  LET q == Installed(r, n, v) IN
         /\ IsRuntime(q) /\ q.on = r.on /\ q.gen = r.gen + 1 /\ q.status = "connected"
         /\ q.sess = n /\ q.tools = v /\ q.res = None
  <1>1. IsRuntime(Installed(r, n, v))
    BY Zenon DEF IsRuntime, RuntimeFields, Installed
  <1>2. DOMAIN r = RuntimeFields
    BY DEF IsRuntime
  <1> QED BY <1>1, <1>2 DEF RuntimeFields, Installed

LEMMA InstalledTyped ==
  ASSUME ManagerTyped, NEW s \in Servers, NEW n \in 0 .. opened, NEW v \in 0 .. offer[s],
         rt' = [rt EXCEPT ![s] = Installed(@, n, v)], UNCHANGED <<opened, offer>>
  PROVE  /\ rt' = [t \in Servers |-> rt'[t]] /\ \A t \in Servers : t # s => rt'[t] = rt[t]
         /\ RuntimeTyped(s)' /\ rt'[s].sess = n
  <1>1. rt = [t \in Servers |-> rt[t]] /\ RuntimeTyped(s)
    BY Here DEF ManagerTyped
  <1>2. rt' = [t \in Servers |-> rt'[t]] /\ \A t \in Servers : t # s => rt'[t] = rt[t]
    BY <1>1
  <1>3. rt'[s] = Installed(rt[s], n, v)
    BY <1>1
  <1>4. IsRuntime(rt[s]) /\ rt[s].on \in BOOLEAN /\ rt[s].gen \in Nat
    BY <1>1 DEF RuntimeTyped
  <1>5. /\ IsRuntime(rt'[s]) /\ rt'[s].on \in BOOLEAN /\ rt'[s].gen \in Nat /\ rt'[s].status = "connected"
        /\ rt'[s].sess = n /\ rt'[s].tools = v /\ rt'[s].res = None
    BY <1>3, <1>4, InstalledShape
  <1>6. "connected" \in Statuses
    BY DEF Statuses
  <1>7. RuntimeTyped(s)'
    BY <1>5, <1>6 DEF RuntimeTyped
  <1> QED BY <1>2, <1>5, <1>7

LEMMA GoroutineMade ==
  ASSUME NEW kind, NEW pc, NEW s, NEW sess, NEW gen, NEW saw, NEW g, g = Goroutine(kind, pc, s, sess, gen, saw)
  PROVE  /\ IsGoroutine(g) /\ g.kind = kind /\ g.pc = pc /\ g.s = s /\ g.sess = sess /\ g.gen = gen /\ g.saw = saw
  BY DEF IsGoroutine, GoroutineFields, Goroutine

LEMMA InstallOwned == ASSUME OwnersInv, NEW c \in Callers, Install(c) PROVE OwnersInv'
  <1>1. ManagerTyped
    BY DEF OwnersInv
  <1>2. PICK s \in Servers : s = op[c].s /\ RuntimeTyped(s) /\ op[c].pc = "listed" /\ op[c].old = 0 /\ op[c].sess # 0
    <2>1. op[c].s \in Servers /\ op[c].pc = "listed" /\ op[c].old = 0 /\ op[c].sess # 0
      BY <1>1, Here DEF Install, OpTyped, AtEnd
    <2> QED BY <1>1, <2>1, Here
  <1>3. /\ OpTyped(op[c])' /\ op' = [d \in Callers |-> op'[d]] /\ op'[c].old = rt[s].sess
        /\ \A d \in Callers : d # c => op'[d] = op[d]
    <2>1. /\ op' = [op EXCEPT ![c].pc = "installed", ![c].old = rt[s].sess]
          /\ UNCHANGED <<opened, offer, open>>
      BY <1>2 DEF Install
    <2>2. OpTyped(op[c]) /\ op = [d \in Callers |-> op[d]]
      BY <1>1, Here
    <2> QED BY <1>2, <2>1, <2>2 DEF OpTyped, IsOp, OpFields, RuntimeTyped, AtEnd, Places, Connecting
  <1>4. /\ rt' = [t \in Servers |-> rt'[t]] /\ \A t \in Servers : t # s => rt'[t] = rt[t]
        /\ RuntimeTyped(s)' /\ rt'[s].sess = op[c].sess
    <2>1. /\ rt' = [rt EXCEPT ![s] = Installed(@, op[c].sess, op[c].saw)]
          /\ UNCHANGED <<opened, offer>>
      BY <1>2 DEF Install
    <2>2. OpTyped(op[c])
      BY <1>1, Here
    <2>3. op[c].sess \in 0 .. opened /\ op[c].saw \in 0 .. offer[s]
      BY <1>2, <2>2 DEF OpTyped
    <2> QED BY <1>1, <2>1, <2>3, InstalledTyped
  <1>5. /\ UNCHANGED <<closed, connectMu, work, open, opened, offer>> /\ ~closed
        /\ cut' = cut \cup ({rt[s].sess} \ {0})
    BY <1>2 DEF Install, StillWanted
  <1>6. ManagerTyped'
    BY <1>1, <1>3, <1>4, <1>5, Here, TypesStay
  <1>7. ASSUME NEW n \in DOMAIN open', Owned(n) PROVE Owned(n)'
    <2>1. open[n] \in Servers /\ n # 0 /\ open'[n] = open[n]
      BY <1>1, <1>5, Here
    <2>2. rt[open[n]].sess = n => rt'[open[n]].sess = n \/ op'[c].old = n
      BY <1>3, <1>4, <2>1
    <2>3. op[c].sess = n => rt'[open[n]].sess = n
      <3>1. op[c].sess = n => open[n] = s
        BY <1>1, <1>2, <1>5, Here DEF OpTyped
      <3> QED BY <1>4, <3>1
    <2> QED BY <1>2, <1>3, <1>7, <2>1, <2>2, <2>3, OwnersKept
  <1>8. \A n \in DOMAIN open' : Owned(n) => Owned(n)'
    BY <1>7
  <1>9. \A t \in Servers : \/ rt'[t].sess = rt[t].sess
                           \/ (rt[t].sess = 0 \/ rt[t].sess \in cut') /\ (closed => rt'[t].sess = 0)
    BY <1>4, <1>5
  <1> QED BY <1>5, <1>6, <1>8, <1>9, OwnersGoOn

LEMMA AnnounceOwned == ASSUME OwnersInv, NEW c \in Callers, Announce(c) PROVE OwnersInv'
  <1>0. PICK m, o : /\ m = Goroutine("monitor", "wait", op[c].s, op[c].sess, op[c].at + 1, 0)
                    /\ o = Goroutine("optional", "start", op[c].s, op[c].sess, op[c].at + 1, 0)
    OBVIOUS
  <1>1. ManagerTyped
    BY DEF OwnersInv
  <1>2. op[c].s \in Servers /\ op[c].pc = "installed" /\ op[c].sess \in 0 .. opened
    <2>1. OpTyped(op[c]) /\ op[c].pc = "installed"
      BY <1>1, Here DEF Announce
    <2> QED BY <2>1 DEF OpTyped, AtEnd
  <1>3. OpTyped(op[c])' /\ op' = [d \in Callers |-> op'[d]] /\ \A d \in Callers : d # c => op'[d] = op[d]
    <2>1. UNCHANGED <<opened, offer>> /\ op' = [op EXCEPT ![c] = Returned]
      BY DEF Announce, Finish
    <2> QED BY <1>1, <2>1, Here, ReturnedTyped
  <1>4. /\ UNCHANGED <<closed, rt, cut, opened, offer>> /\ connectMu' = [connectMu EXCEPT ![op[c].s] = None]
        /\ open' = [n \in DOMAIN open \ {op[c].old} |-> open[n]] /\ work' = work \cup {m, o}
    BY <1>0 DEF Announce, Finish
  <1>5. DOMAIN open' \subseteq DOMAIN open /\ \A n \in DOMAIN open' : open'[n] = open[n] /\ n # op[c].old
    BY <1>4
  <1>6. ManagerTyped'
    <2>1. /\ IsGoroutine(m) /\ m.kind = "monitor" /\ m.pc = "wait" /\ m.s = op[c].s /\ m.sess = op[c].sess /\ m.saw = 0
          /\ IsGoroutine(o) /\ o.kind = "optional" /\ o.pc = "start" /\ o.s = op[c].s /\ o.sess = op[c].sess /\ o.saw = 0
      BY <1>0, GoroutineMade
    <2>2. GoroutineTyped(m)' /\ GoroutineTyped(o)'
      BY <1>2, <1>4, <2>1 DEF GoroutineTyped
    <2> QED BY <1>1, <1>3, <1>4, <1>5, <2>2, Here, TypesStay
  <1>7. ASSUME NEW n \in DOMAIN open', Owned(n) PROVE Owned(n)'
    BY <1>2, <1>3, <1>4, <1>5, <1>7, OwnersKept
  <1>8. \A n \in DOMAIN open' : Owned(n) => Owned(n)'
    BY <1>7
  <1>9. m.kind # "call" /\ o.kind # "call"
    BY <1>0, GoroutineMade
  <1> QED BY <1>4, <1>5, <1>6, <1>8, <1>9, OwnersGoOn

LEMMA DialledOwned == ASSUME OwnersInv, NEW c \in Callers, Dialled(c) PROVE OwnersInv'
  <1>1. ManagerTyped
    BY DEF OwnersInv
  <1>2. op[c].s \in Servers /\ op[c].pc = "dial" /\ op[c].old = 0
    BY <1>1, Here DEF Dialled, OpTyped, AtEnd
  <1>3. /\ UNCHANGED <<closed, rt, connectMu, work, cut, offer>> /\ opened' = opened + 1
        /\ open' = [n \in DOMAIN open \cup {opened + 1} |-> IF n = opened + 1 THEN op[c].s ELSE open[n]]
        /\ op' = [op EXCEPT ![c].pc = "listed", ![c].sess = opened + 1, ![c].saw = offer[op[c].s]]
    BY DEF Dialled
  <1>4. opened \in Nat /\ opened + 1 \in Nat /\ opened + 1 >= opened /\ ~(opened + 1 <= opened)
    BY <1>1, Here
  <1>5. /\ DOMAIN open' = DOMAIN open \cup {opened + 1} /\ open'[opened + 1] = op[c].s
        /\ \A n \in DOMAIN open : n \in 1 .. opened /\ n # 0 /\ n # opened + 1 /\ open'[n] = open[n] /\ open[n] \in Servers
    <2>1. \A n \in DOMAIN open : n \in 1 .. opened
      BY <1>1, Here
    <2>2. \A n \in 1 .. opened : n # opened + 1
      BY <1>4
    <2> QED BY <1>1, <1>3, <2>1, <2>2, Here
  <1>6. /\ op' = [d \in Callers |-> op'[d]] /\ \A d \in Callers : d # c => op'[d] = op[d]
        /\ op'[c].sess = opened + 1 /\ op'[c].pc = "listed" /\ op'[c].s = op[c].s
        /\ IsOp(op'[c]) /\ op'[c].saw = offer[op[c].s] /\ op'[c].old = op[c].old
        /\ op'[c].kind = op[c].kind /\ op'[c].gen = op[c].gen /\ op'[c].at = op[c].at
    <2>1. IsOp(op[c]) /\ op = [d \in Callers |-> op[d]]
      BY <1>1, Here DEF OpTyped
    <2> QED BY <1>3, <2>1 DEF IsOp, OpFields
  <1>7. OpTyped(op[c])'
    <2>1. /\ op[c].kind \in Kinds /\ {op[c].gen, op[c].at} \subseteq Nat
          /\ offer[op[c].s] \in Nat
      BY <1>1, <1>2, Here DEF OpTyped, ManagerTyped
    <2>2. offer[op[c].s] \in 0 .. offer[op[c].s] /\ opened + 1 \in 0 .. opened + 1 /\ opened + 1 # 0 /\ 0 \in 0 .. opened + 1
      BY <2>1, <1>4
    <2> QED BY <1>2, <1>3, <1>5, <1>6, <2>1, <2>2 DEF OpTyped, Places, Connecting
  <1>8. ManagerTyped'
    <2>1. /\ opened' \in Nat /\ opened' >= opened /\ offer' \in [Servers -> Nat]
          /\ \A s \in Servers : offer'[s] >= offer[s]
      BY <1>1, <1>3, <1>4 DEF ManagerTyped
    <2>2. /\ \A n \in DOMAIN open' : n <= opened => n \in DOMAIN open /\ open'[n] = open[n]
          /\ DOMAIN open' \subseteq 1 .. opened' /\ \A n \in DOMAIN open' : open'[n] \in Servers
      BY <1>2, <1>3, <1>4, <1>5
    <2>3. /\ closed' \in BOOLEAN /\ connectMu' \in [Servers -> Callers \cup {None}]
          /\ rt' = [s \in Servers |-> rt'[s]] /\ (\A s \in Servers : rt'[s] = rt[s]) /\ work' = work
      BY <1>1, <1>3, Here
    <2> QED BY <1>1, <1>6, <1>7, <2>1, <2>2, <2>3, TypesGoOn
  <1>9. ASSUME NEW n \in DOMAIN open' PROVE Owned(n)'
    <2>1. CASE n = opened + 1
      BY <1>6, <2>1 DEF Owned
    <2>2. CASE n \in DOMAIN open
      <3>1. Owned(n) /\ open'[n] = open[n] /\ n # 0
        BY <1>5, <2>2 DEF OwnersInv
      <3>2. rt'[open[n]].sess = rt[open[n]].sess
        BY <1>3
      <3> QED BY <1>2, <1>6, <3>1, <3>2, OwnersKept
    <2> QED BY <1>5, <2>1, <2>2
  <1>10. ClosersRun' /\ CallsCut'
    BY <1>3 DEF OwnersInv, ClosersRun, CallsCut
  <1> QED BY <1>8, <1>9, <1>10 DEF OwnersInv

\* A step of a goroutine, whose operations stand still.
LEMMA OwnersStand ==
  ASSUME OwnersInv, UNCHANGED <<op, closed, opened, offer, connectMu>>, cut \subseteq cut',
         DOMAIN open' \subseteq DOMAIN open, \A n \in DOMAIN open' : open'[n] = open[n],
         rt' = [s \in Servers |-> rt'[s]], \A s \in Servers : rt'[s] = rt[s] \/ RuntimeTyped(s)',
         \A s \in Servers : \/ rt'[s].sess = rt[s].sess
                            \/ /\ rt[s].sess = 0 \/ rt[s].sess \in cut'
                               /\ rt[s].sess \notin DOMAIN open' /\ rt'[s].sess = 0,
         \A g \in work' : g \in work \/ GoroutineTyped(g)',
         \A g \in work' : g.kind = "call" /\ g.pc = "run" => g \in work,
         \A g \in work : g.kind = "closer" => g \in work' \/ rt'[g.s].sess = 0
  PROVE  OwnersInv'
  <1>1. ManagerTyped
    BY DEF OwnersInv
  <1>2. ManagerTyped'
    <2>1. /\ UNCHANGED <<opened, offer>> /\ closed' \in BOOLEAN /\ connectMu' \in [Servers -> Callers \cup {None}]
          /\ op' = [c \in Callers |-> op'[c]] /\ \A c \in Callers : op'[c] = op[c]
      BY <1>1, Here
    <2>2. \A g \in work' : g \in work \/ GoroutineTyped(g)'
      OBVIOUS
    <2> QED BY <1>1, <2>1, <2>2, TypesStay
  <1>3. ASSUME NEW n \in DOMAIN open', Owned(n) PROVE Owned(n)'
    <2>0. n \in DOMAIN open /\ open'[n] = open[n]
      OBVIOUS
    <2>1. open[n] \in Servers /\ open'[n] = open[n]
      BY <1>1, <2>0, Here
    <2>2. rt[open[n]].sess = n => rt'[open[n]].sess = n
      BY <2>1
    <2> QED BY <1>3, <2>1, <2>2 DEF Owned
  <1>4. \A n \in DOMAIN open' : Owned(n) => Owned(n)'
    BY <1>3
  <1> QED BY <1>2, <1>4, OwnersGoOn

LEMMA TellOwned == ASSUME OwnersInv, NEW g, Tell(g) PROVE OwnersInv'
  <1>1. ManagerTyped /\ GoroutineTyped(g) /\ g \in work /\ g.pc = "tell"
    BY DEF OwnersInv, ManagerTyped, Tell
  <1>2. /\ UNCHANGED <<op, closed, opened, offer, connectMu, rt, cut>> /\ work' = work \ {g}
        /\ open' = IF g.kind = "call" THEN [n \in DOMAIN open \ {g.sess} |-> open[n]] ELSE open
    BY DEF Tell, Ends
  <1>3. DOMAIN open' \subseteq DOMAIN open /\ \A n \in DOMAIN open' : open'[n] = open[n]
    BY <1>2
  <1>4. g.kind # "closer"
    BY <1>1 DEF GoroutineTyped
  <1>5. rt' = [s \in Servers |-> rt'[s]]
    BY <1>1, <1>2, Here
  <1> QED BY <1>2, <1>3, <1>4, <1>5, OwnersStand

\* A goroutine that begins to say what it has done.
LEMMA TellingShape ==
  ASSUME NEW g, IsGoroutine(g)
  PROVE  LET h == [g EXCEPT !.pc = "tell"] IN
         IsGoroutine(h) /\ h.kind = g.kind /\ h.pc = "tell" /\ h.s = g.s /\ h.sess = g.sess /\ h.saw = g.saw
  BY DEF IsGoroutine, GoroutineFields

LEMMA MonitorOwned == ASSUME OwnersInv, NEW g, Monitor(g) PROVE OwnersInv'
  <1>1. ManagerTyped /\ GoroutineTyped(g) /\ g \in work /\ g.kind = "monitor" /\ g.sess \notin DOMAIN open
    BY DEF OwnersInv, ManagerTyped, Monitor
  <1>2. UNCHANGED <<op, closed, opened, offer, connectMu, open>>
    BY DEF Monitor
  <1>3. CASE MonitorStale(g)
    <2>1. work' = work \ {g} /\ UNCHANGED <<rt, cut>>
      BY <1>3 DEF Monitor, Ends
    <2>2. rt' = [s \in Servers |-> rt'[s]]
      BY <1>1, <2>1, Here
    <2> QED BY <1>1, <1>2, <2>1, <2>2, OwnersStand
  <1>4. CASE ~MonitorStale(g)
    <2>1. PICK s \in Servers : s = g.s /\ RuntimeTyped(s)
      BY <1>1, Here DEF GoroutineTyped
    <2>2. PICK status \in {"disconnected", "error", "needs_auth"} :
            rt' = [rt EXCEPT ![g.s].sess = 0, ![g.s].status = status]
      BY <1>4 DEF Monitor
    <2>3. /\ rt = [t \in Servers |-> rt[t]] /\ IsRuntime(rt[s]) /\ rt[s].sess = g.sess
          /\ opened \in Nat /\ status \in Statuses
      BY <1>1, <1>4, <2>1, Here DEF MonitorStale, RuntimeTyped, Statuses
    <2>4. /\ rt' = [t \in Servers |-> rt'[t]] /\ \A t \in Servers : t # s => rt'[t] = rt[t]
          /\ IsRuntime(rt'[s]) /\ rt'[s].sess = 0 /\ rt'[s].status = status /\ rt'[s].on = rt[s].on
          /\ rt'[s].gen = rt[s].gen /\ rt'[s].tools = rt[s].tools /\ rt'[s].res = rt[s].res
      BY <2>1, <2>2, <2>3 DEF IsRuntime, RuntimeFields
    <2>5. RuntimeTyped(s)'
      BY <1>2, <2>1, <2>3, <2>4 DEF RuntimeTyped
    <2>6. PICK h : /\ work' = (work \ {g}) \cup {h} /\ h = [g EXCEPT !.pc = "tell"]
                   /\ cut' = cut \cup {g.sess}
      BY <1>4 DEF Monitor, Replace
    <2>7. GoroutineTyped(h)' /\ h.pc # "run"
      <3>1. IsGoroutine(h) /\ h.kind = g.kind /\ h.pc = "tell" /\ h.s = g.s /\ h.sess = g.sess /\ h.saw = g.saw
        BY <1>1, <2>6, TellingShape DEF GoroutineTyped
      <3> QED BY <1>1, <1>2, <3>1 DEF GoroutineTyped
    <2>8. \A t \in Servers : \/ rt'[t].sess = rt[t].sess
                             \/ /\ rt[t].sess = 0 \/ rt[t].sess \in cut'
                                /\ rt[t].sess \notin DOMAIN open' /\ rt'[t].sess = 0
      BY <1>1, <1>2, <2>3, <2>4, <2>6
    <2> QED BY <1>1, <1>2, <2>4, <2>5, <2>6, <2>7, <2>8, OwnersStand
  <1> QED BY <1>3, <1>4

LEMMA SessionMissingOwned == ASSUME OwnersInv, NEW g, SessionMissing(g) PROVE OwnersInv'
  <1>1. ManagerTyped /\ GoroutineTyped(g) /\ g \in work /\ g.kind = "call" /\ g.sess \notin DOMAIN open
    BY DEF OwnersInv, ManagerTyped, SessionMissing
  <1>2. UNCHANGED <<op, closed, opened, offer, connectMu, open>>
    BY DEF SessionMissing
  <1>3. CASE rt[g.s].sess # g.sess
    <2>1. work' = work \ {g} /\ UNCHANGED <<rt, cut>>
      BY <1>3 DEF SessionMissing, Ends
    <2>2. rt' = [s \in Servers |-> rt'[s]]
      BY <1>1, <2>1, Here
    <2> QED BY <1>1, <1>2, <2>1, <2>2, OwnersStand
  <1>4. CASE rt[g.s].sess = g.sess
    <2>1. PICK s \in Servers : s = g.s
      BY <1>1 DEF GoroutineTyped
    <2>2. PICK status \in Statuses : status = "error"
      BY DEF Statuses
    <2>3. rt' = [rt EXCEPT ![s] = Severed(@, status)] /\ cut' = cut \cup {g.sess}
      BY <1>4, <2>1, <2>2 DEF SessionMissing
    <2>4. /\ rt' = [t \in Servers |-> rt'[t]] /\ \A t \in Servers : t # s => rt'[t] = rt[t]
          /\ RuntimeTyped(s)' /\ rt'[s].sess = 0
      BY <1>1, <1>2, <2>3, SeveredTyped
    <2>5. PICK h : work' = (work \ {g}) \cup {h} /\ h = [g EXCEPT !.pc = "tell"]
      BY <1>4 DEF SessionMissing, Replace
    <2>6. GoroutineTyped(h)' /\ h.pc # "run"
      <3>1. IsGoroutine(h) /\ h.kind = g.kind /\ h.pc = "tell" /\ h.s = g.s /\ h.sess = g.sess /\ h.saw = g.saw
        BY <1>1, <2>5, TellingShape DEF GoroutineTyped
      <3> QED BY <1>1, <1>2, <3>1 DEF GoroutineTyped
    <2>7. \A t \in Servers : \/ rt'[t].sess = rt[t].sess
                             \/ /\ rt[t].sess = 0 \/ rt[t].sess \in cut'
                                /\ rt[t].sess \notin DOMAIN open' /\ rt'[t].sess = 0
      BY <1>1, <1>2, <1>4, <2>1, <2>3, <2>4
    <2> QED BY <1>1, <1>2, <2>3, <2>4, <2>5, <2>6, <2>7, OwnersStand
  <1> QED BY <1>3, <1>4

LEMMA CloseServerOwned == ASSUME OwnersInv, NEW g, CloseServer(g) PROVE OwnersInv'
  <1>1. ManagerTyped /\ GoroutineTyped(g) /\ g \in work /\ g.kind = "closer"
    BY DEF OwnersInv, ManagerTyped, CloseServer
  <1>2. PICK s \in Servers : s = g.s /\ RuntimeTyped(s)
    BY <1>1, Here DEF GoroutineTyped
  <1>3. /\ UNCHANGED <<op, closed, opened, offer, connectMu>> /\ work' = work \ {g}
        /\ open' = [n \in DOMAIN open \ {rt[s].sess} |-> open[n]] /\ cut' = cut \cup ({rt[s].sess} \ {0})
        /\ rt' = [rt EXCEPT ![s].sess = 0, ![s].gen = @ + 1, ![s].status = "disconnected"]
    BY <1>2 DEF CloseServer, Ends
  <1>4. DOMAIN open' \subseteq DOMAIN open /\ \A n \in DOMAIN open' : open'[n] = open[n] /\ n # rt[s].sess
    BY <1>3
  <1>5. rt = [t \in Servers |-> rt[t]] /\ IsRuntime(rt[s]) /\ rt[s].gen \in Nat /\ opened \in Nat
    BY <1>1, <1>2, Here DEF RuntimeTyped
  <1>6. /\ rt' = [t \in Servers |-> rt'[t]] /\ \A t \in Servers : t # s => rt'[t] = rt[t]
        /\ IsRuntime(rt'[s]) /\ rt'[s].sess = 0 /\ rt'[s].status = "disconnected" /\ rt'[s].on = rt[s].on
        /\ rt'[s].gen = rt[s].gen + 1 /\ rt'[s].tools = rt[s].tools /\ rt'[s].res = rt[s].res
    <2>1. rt' = [t \in Servers |-> rt'[t]] /\ \A t \in Servers : t # s => rt'[t] = rt[t]
      BY <1>3, <1>5
    <2>2. PICK x : x = "disconnected"
      OBVIOUS
    <2>3. rt'[s] = [rt[s] EXCEPT !.sess = 0, !.gen = @ + 1, !.status = x]
      BY <1>3, <1>5, <2>2
    <2>4. /\ IsRuntime(rt'[s]) /\ rt'[s].sess = 0 /\ rt'[s].status = x /\ rt'[s].on = rt[s].on
          /\ rt'[s].gen = rt[s].gen + 1 /\ rt'[s].tools = rt[s].tools /\ rt'[s].res = rt[s].res
      BY <1>5, <2>3 DEF IsRuntime, RuntimeFields
    <2> QED BY <2>1, <2>2, <2>4
  <1>7. RuntimeTyped(s)'
    <2>1. "disconnected" \in Statuses
      BY DEF Statuses
    <2>2. /\ rt[s].on \in BOOLEAN /\ {rt[s].tools, rt[s].res} \subseteq (0 .. offer[s]) \cup {None}
          /\ rt[s].gen + 1 \in Nat /\ 0 \in 0 .. opened
      BY <1>2, <1>5 DEF RuntimeTyped
    <2> QED BY <1>3, <1>6, <2>1, <2>2 DEF RuntimeTyped
  <1>8. \A t \in Servers : \/ rt'[t].sess = rt[t].sess
                           \/ /\ rt[t].sess = 0 \/ rt[t].sess \in cut'
                              /\ rt[t].sess \notin DOMAIN open' /\ rt'[t].sess = 0
    BY <1>3, <1>4, <1>6
  <1> QED BY <1>1, <1>2, <1>3, <1>4, <1>6, <1>7, <1>8, OwnersStand

LEMMA FetchOwned == ASSUME OwnersInv, NEW g, Fetch(g) PROVE OwnersInv'
  <1>1. ManagerTyped /\ GoroutineTyped(g) /\ g \in work /\ g.kind \in {"refresh", "optional"}
    BY DEF OwnersInv, ManagerTyped, Fetch
  <1>2. UNCHANGED <<op, closed, opened, offer, connectMu, open, rt, cut>>
    BY DEF Fetch
  <1>3. rt' = [s \in Servers |-> rt'[s]]
    BY <1>1, <1>2, Here
  <1>4. CASE ~(Usable(g) /\ rt[g.s].sess # 0)
    <2>1. work' = work \ {g}
      BY <1>4 DEF Fetch, Ends
    <2> QED BY <1>1, <1>2, <1>3, <2>1, OwnersStand
  <1>5. CASE Usable(g) /\ rt[g.s].sess # 0
    <2>1. PICK s \in Servers : s = g.s /\ RuntimeTyped(s)
      BY <1>1, Here DEF GoroutineTyped
    <2>2. PICK h : /\ work' = (work \ {g}) \cup {h}
                   /\ h = [g EXCEPT !.pc = "fetch", !.sess = rt[s].sess, !.saw = offer[s]]
      BY <1>5, <2>1 DEF Fetch, Replace
    <2>3. IsGoroutine(g) /\ rt[s].sess \in 0 .. opened /\ offer[s] \in Nat
      BY <1>1, <2>1 DEF GoroutineTyped, RuntimeTyped, ManagerTyped
    <2>4. /\ IsGoroutine(h) /\ h.kind = g.kind /\ h.pc = "fetch" /\ h.s = g.s
          /\ h.sess = rt[s].sess /\ h.saw = offer[s]
      BY <2>2, <2>3 DEF IsGoroutine, GoroutineFields
    <2>5. GoroutineTyped(h)'
      BY <1>1, <1>2, <2>1, <2>3, <2>4 DEF GoroutineTyped
    <2> QED BY <1>1, <1>2, <1>3, <2>2, <2>4, <2>5, OwnersStand
  <1> QED BY <1>4, <1>5

LEMMA ApplyOwned == ASSUME OwnersInv, NEW g, Apply(g) PROVE OwnersInv'
  <1>1. ManagerTyped /\ GoroutineTyped(g) /\ g \in work /\ g.pc = "fetch"
    BY DEF OwnersInv, ManagerTyped, Apply
  <1>2. UNCHANGED <<op, closed, opened, offer, connectMu, open, cut>>
    BY DEF Apply
  <1>3. CASE ~StillCurrent(g)
    <2>1. work' = work \ {g} /\ rt' = rt
      BY <1>3 DEF Apply, Ends
    <2>2. rt' = [s \in Servers |-> rt'[s]] /\ g.kind # "closer"
      BY <1>1, <2>1, Here DEF GoroutineTyped
    <2> QED BY <1>1, <1>2, <2>1, <2>2, OwnersStand
  <1>4. CASE StillCurrent(g)
    <2>1. PICK s \in Servers : s = g.s /\ RuntimeTyped(s) /\ g.saw \in Nat
      BY <1>1, Here DEF GoroutineTyped
    <2>2. PICK v \in g.saw .. offer[s] :
            rt' = [rt EXCEPT ![s].res = v, ![s].tools = IF g.kind = "refresh" THEN v ELSE @]
      BY <1>4, <2>1 DEF Apply
    <2>3. /\ rt = [t \in Servers |-> rt[t]] /\ IsRuntime(rt[s]) /\ offer[s] \in Nat /\ v \in 0 .. offer[s]
          /\ rt[s].tools \in (0 .. offer[s]) \cup {None}
      BY <1>1, <2>1, <2>2, Here DEF RuntimeTyped, ManagerTyped
    <2>4. PICK w \in {v, rt[s].tools} : rt' = [rt EXCEPT ![s].res = v, ![s].tools = w]
      BY <2>2, <2>3 DEF IsRuntime, RuntimeFields
    <2>5. /\ rt' = [t \in Servers |-> rt'[t]] /\ \A t \in Servers : t # s => rt'[t] = rt[t]
          /\ IsRuntime(rt'[s]) /\ rt'[s].sess = rt[s].sess /\ rt'[s].status = rt[s].status /\ rt'[s].on = rt[s].on
          /\ rt'[s].gen = rt[s].gen /\ rt'[s].tools = w /\ rt'[s].res = v
      BY <2>3, <2>4 DEF IsRuntime, RuntimeFields
    <2>6. RuntimeTyped(s)'
      BY <1>2, <2>1, <2>3, <2>5 DEF RuntimeTyped
    <2>7. PICK h : work' = (work \ {g}) \cup {h} /\ h = [g EXCEPT !.pc = "tell"]
      BY <1>4 DEF Apply, Replace
    <2>8. GoroutineTyped(h)' /\ h.pc # "run" /\ g.kind # "closer"
      <3>1. IsGoroutine(h) /\ h.kind = g.kind /\ h.pc = "tell" /\ h.s = g.s /\ h.sess = g.sess /\ h.saw = g.saw
        BY <1>1, <2>7, TellingShape DEF GoroutineTyped
      <3> QED BY <1>1, <1>2, <3>1 DEF GoroutineTyped
    <2> QED BY <1>1, <1>2, <2>5, <2>6, <2>7, <2>8, OwnersStand
  <1> QED BY <1>3, <1>4

\* A goroutine that ends without a change.
LEMMA EndsOwned ==
  ASSUME OwnersInv, NEW g \in work, FetchFails(g) \/ CallReturns(g) PROVE OwnersInv'
  <1>1. ManagerTyped /\ GoroutineTyped(g)
    BY DEF OwnersInv, ManagerTyped
  <1>2. UNCHANGED <<op, closed, opened, offer, connectMu, open, rt, cut>> /\ work' = work \ {g}
    BY DEF FetchFails, CallReturns, Ends
  <1>3. g.kind # "closer"
    BY <1>1 DEF GoroutineTyped, FetchFails, CallReturns
  <1>4. rt' = [s \in Servers |-> rt'[s]]
    BY <1>1, <1>2, Here
  <1> QED BY <1>2, <1>3, <1>4, OwnersStand

LEMMA SessionEndsOwned == ASSUME OwnersInv, NEW n \in DOMAIN open, SessionEnds(n) PROVE OwnersInv'
  <1>1. UNCHANGED <<op, closed, opened, offer, connectMu, rt, cut, work>> /\ open' = [m \in DOMAIN open \ {n} |-> open[m]]
    BY DEF SessionEnds
  <1>2. DOMAIN open' \subseteq DOMAIN open /\ \A m \in DOMAIN open' : open'[m] = open[m]
    BY <1>1
  <1>3. rt' = [s \in Servers |-> rt'[s]]
    BY <1>1, Here DEF OwnersInv
  <1> QED BY <1>1, <1>2, <1>3, OwnersStand

LEMMA BeginCallOwned == ASSUME OwnersInv, NEW s \in Servers, BeginCall(s) PROVE OwnersInv'
  <1>1. UNCHANGED <<op, closed, opened, offer, connectMu, rt, cut, open>> /\ rt[s].sess # 0
    BY DEF BeginCall
  <1>2. PICK g : work' = work \cup {g} /\ g = Goroutine("call", "run", s, rt[s].sess, left.call, 0)
    BY DEF BeginCall
  <1>3. IsGoroutine(g) /\ g.kind = "call" /\ g.pc = "run" /\ g.s = s /\ g.sess = rt[s].sess /\ g.saw = 0
    BY <1>2, GoroutineMade
  <1>4. ManagerTyped /\ rt = [t \in Servers |-> rt[t]] /\ op = [c \in Callers |-> op[c]] /\ rt[s].sess \in 0 .. opened
    BY Here DEF OwnersInv, RuntimeTyped
  <1>5. GoroutineTyped(g)'
    BY <1>1, <1>3, <1>4 DEF GoroutineTyped
  <1>6. ManagerTyped'
    <2>1. closed' \in BOOLEAN /\ connectMu' \in [Servers -> Callers \cup {None}]
      BY <1>1, <1>4, Here
    <2> QED BY <1>1, <1>2, <1>4, <1>5, <2>1, TypesStay
  <1>7. \A n \in DOMAIN open' : Owned(n)'
    BY <1>1 DEF OwnersInv, Owned
  <1>8. ClosersRun' /\ CallsCut'
    BY <1>1, <1>2, <1>3 DEF OwnersInv, ClosersRun, CallsCut
  <1> QED BY <1>6, <1>7, <1>8 DEF OwnersInv

LEMMA OfferChangesOwned == ASSUME OwnersInv, NEW s \in Servers, OfferChanges(s) PROVE OwnersInv'
  <1>1. UNCHANGED <<op, closed, opened, connectMu, rt, cut, open>> /\ offer' = [offer EXCEPT ![s] = @ + 1]
    BY DEF OfferChanges
  <1>2. PICK g : work' = work \cup {g} /\ g = Goroutine("refresh", "start", s, 0, 0, offer[s] + 1)
    BY DEF OfferChanges
  <1>3. IsGoroutine(g) /\ g.kind = "refresh" /\ g.pc = "start" /\ g.s = s /\ g.sess = 0 /\ g.saw = offer[s] + 1
    BY <1>2, GoroutineMade
  <1>4. ManagerTyped /\ rt = [t \in Servers |-> rt[t]] /\ op = [c \in Callers |-> op[c]] /\ offer \in [Servers -> Nat] /\ opened \in Nat
    BY DEF OwnersInv, ManagerTyped
  <1>5. GoroutineTyped(g)'
    BY <1>1, <1>3, <1>4 DEF GoroutineTyped
  <1>6. ManagerTyped'
    <2>1. closed' \in BOOLEAN /\ connectMu' \in [Servers -> Callers \cup {None}]
      BY <1>1, <1>4, Here
    <2>2. /\ opened' \in Nat /\ opened' >= opened /\ offer' \in [Servers -> Nat]
          /\ \A t \in Servers : offer'[t] >= offer[t]
      BY <1>1, <1>4
    <2>3. /\ DOMAIN open' \subseteq 1 .. opened' /\ \A n \in DOMAIN open' : open'[n] \in Servers
          /\ \A n \in DOMAIN open' : n <= opened => n \in DOMAIN open /\ open'[n] = open[n]
      BY <1>1, <1>4, Here
    <2> QED BY <1>1, <1>2, <1>4, <1>5, <2>1, <2>2, <2>3, TypesGoOn
  <1>7. \A n \in DOMAIN open' : Owned(n)'
    BY <1>1 DEF OwnersInv, Owned
  <1>8. ClosersRun' /\ CallsCut'
    BY <1>1, <1>2, <1>3 DEF OwnersInv, ClosersRun, CallsCut
  <1> QED BY <1>6, <1>7, <1>8 DEF OwnersInv

LEMMA CloseOwned == ASSUME OwnersInv, Close PROVE OwnersInv'
  <1>1. UNCHANGED <<op, opened, offer, connectMu, rt, cut, open>> /\ closed' = TRUE
    BY DEF Close
  <1>2. work' = work \cup {Goroutine("closer", "run", s, 0, 0, 0) : s \in Servers}
    BY DEF Close
  <1>3. \A s \in Servers : \A g : g = Goroutine("closer", "run", s, 0, 0, 0) =>
          IsGoroutine(g) /\ g.kind = "closer" /\ g.pc = "run" /\ g.s = s /\ g.sess = 0 /\ g.saw = 0
    BY GoroutineMade
  <1>4. ManagerTyped /\ rt = [t \in Servers |-> rt[t]] /\ op = [c \in Callers |-> op[c]] /\ opened \in Nat
    BY Here DEF OwnersInv
  <1>5. ASSUME NEW g \in work', g \notin work PROVE GoroutineTyped(g)' /\ g.kind = "closer"
    <2>1. PICK s \in Servers : g = Goroutine("closer", "run", s, 0, 0, 0)
      BY <1>2, <1>5
    <2> QED BY <1>1, <1>3, <1>4, <2>1 DEF GoroutineTyped
  <1>6. ManagerTyped'
    <2>1. connectMu' \in [Servers -> Callers \cup {None}]
      BY <1>1, <1>4, Here
    <2> QED BY <1>1, <1>4, <1>5, <2>1, TypesStay
  <1>7. \A n \in DOMAIN open' : Owned(n)'
    BY <1>1 DEF OwnersInv, Owned
  <1>8. ClosersRun'
    <2> SUFFICES ASSUME NEW s \in Servers PROVE \E g \in work' : g.kind = "closer" /\ g.s = s
      BY DEF ClosersRun
    <2>1. PICK g : g = Goroutine("closer", "run", s, 0, 0, 0)
      OBVIOUS
    <2>2. g \in work'
      BY <1>2, <2>1
    <2> QED BY <1>3, <2>1, <2>2
  <1>9. CallsCut'
    BY <1>1, <1>5 DEF OwnersInv, CallsCut
  <1> QED BY <1>6, <1>7, <1>8, <1>9 DEF OwnersInv

\* The application only reads and writes its own view.
LEMMA ApplicationOwned ==
  ASSUME OwnersInv, UNCHANGED <<op, opened, offer, connectMu, rt, cut, open, closed, work>> PROVE OwnersInv'
  <1>1. rt' = [s \in Servers |-> rt'[s]]
    BY Here DEF OwnersInv
  <1> QED BY <1>1, OwnersStand

LEMMA OwnersInit == Init => OwnersInv
  <1> SUFFICES ASSUME Init PROVE OwnersInv
    OBVIOUS
  <1>1. PICK up \in SUBSET Servers, number \in [Servers -> 1 .. Cardinality(Servers)] :
          /\ \A s, t \in Servers : s # t => number[s] # number[t]
          /\ InitUp(up, number)
    BY DEF Init
  <1>2. Cardinality(Servers) \in Nat
    BY McpAssumption, FS_CardinalityType DEF McpAssumption
  <1>3. /\ closed = FALSE /\ connectMu = [s \in Servers |-> None] /\ op = [c \in Callers |-> Resting]
        /\ offer = [s \in Servers |-> 0] /\ opened = Cardinality(Servers)
    BY DEF Init
  <1>4. \A s \in up : s \in Servers /\ number[s] \in 1 .. opened /\ number[s] \in 0 .. opened /\ number[s] # 0
    BY <1>1, <1>2, <1>3
  <1>5. /\ rt = [s \in Servers |-> rt[s]]
        /\ \A s \in Servers : RuntimeTyped(s) /\ (s \in up => rt[s].sess = number[s])
    <2>1. rt = [s \in Servers |-> IF s \in up
             THEN [Off EXCEPT !.status = "connected", !.sess = number[s], !.gen = 1, !.tools = 0]
             ELSE Off]
      BY <1>1 DEF InitUp
    <2>2. rt = [s \in Servers |-> rt[s]]
      BY <2>1
    <2>3. ASSUME NEW s \in Servers, s \notin up PROVE RuntimeTyped(s)
      <3>1. rt[s] = Off
        BY <2>1, <2>3
      <3>2. IsRuntime(Off)
        BY DEF IsRuntime, RuntimeFields, Off
      <3> QED BY <1>2, <1>3, <3>1, <3>2 DEF RuntimeTyped, Off, Statuses
    <2>4. ASSUME NEW s \in Servers, s \in up PROVE RuntimeTyped(s) /\ rt[s].sess = number[s]
      <3>1. rt[s] = [Off EXCEPT !.status = "connected", !.sess = number[s], !.gen = 1, !.tools = 0]
        BY <2>1, <2>4
      <3>2. IsRuntime(Off)
        BY DEF IsRuntime, RuntimeFields, Off
      <3>3. PICK x : x = "connected"
        OBVIOUS
      <3>4. rt[s] = [Off EXCEPT !.status = x, !.sess = number[s], !.gen = 1, !.tools = 0]
        BY <3>1, <3>3
      <3>5. /\ IsRuntime(rt[s]) /\ rt[s].on = Off.on /\ rt[s].status = x /\ rt[s].sess = number[s]
            /\ rt[s].gen = 1 /\ rt[s].tools = 0 /\ rt[s].res = Off.res
        BY <3>2, <3>4 DEF IsRuntime, RuntimeFields
      <3>6. Off.on = TRUE /\ Off.res = None
        BY DEF Off
      <3>7. x \in Statuses
        BY <3>3 DEF Statuses
      <3>8. number[s] \in 0 .. opened /\ 0 \in 0 .. offer[s]
        BY <1>3, <1>4, <2>4
      <3>9. rt[s].gen \in Nat /\ rt[s].tools \in 0 .. offer[s] /\ rt[s].res = None
        BY <3>5, <3>6, <3>8
      <3>10. rt[s].on \in BOOLEAN
        BY <3>5, <3>6, Zenon
      <3> QED BY <3>5, <3>7, <3>8, <3>9, <3>10 DEF RuntimeTyped
    <2> QED BY <2>2, <2>3, <2>4
  <1>6. /\ DOMAIN open = {number[s] : s \in up}
        /\ \A n \in DOMAIN open : n \in 1 .. opened /\ open[n] \in Servers /\ open[n] \in up /\ number[open[n]] = n
    <2>1. open = [n \in {number[s] : s \in up} |-> CHOOSE s \in up : number[s] = n]
      BY <1>1 DEF InitUp
    <2>2. DOMAIN open = {number[s] : s \in up}
      BY <2>1
    <2>3. ASSUME NEW n \in DOMAIN open
          PROVE  n \in 1 .. opened /\ open[n] \in Servers /\ open[n] \in up /\ number[open[n]] = n
      <3>1. open[n] = CHOOSE s \in up : number[s] = n
        BY <2>1
      <3>2. \E s \in up : number[s] = n
        BY <2>2
      <3>3. open[n] \in up /\ number[open[n]] = n
        BY <3>1, <3>2
      <3> QED BY <1>4, <3>3
    <2> QED BY <2>2, <2>3
  <1>7. \A c \in Callers : OpTyped(op[c]) /\ op[c].old = 0
    <2>1. /\ IsOp(Resting) /\ Resting.pc = "idle" /\ Resting.kind = "none" /\ Resting.gen = 0 /\ Resting.at = 0
          /\ Resting.sess = 0 /\ Resting.old = 0
      BY DEF IsOp, OpFields, Resting
    <2> QED BY <1>2, <1>3, <2>1 DEF OpTyped, AtEnd, Places, Kinds
  <1>8. \A g \in work : GoroutineTyped(g) /\ g.kind # "call"
    <2> SUFFICES ASSUME NEW g \in work PROVE GoroutineTyped(g) /\ g.kind # "call"
      OBVIOUS
    <2>1. PICK s \in up : g \in {Goroutine("monitor", "wait", s, number[s], 1, 0),
                                 Goroutine("optional", "start", s, number[s], 1, 0)}
      BY <1>1 DEF InitUp
    <2>2. s \in Servers /\ number[s] \in 0 .. opened
      BY <1>4
    <2>3. CASE g = Goroutine("monitor", "wait", s, number[s], 1, 0)
      <3>1. IsGoroutine(g) /\ g.kind = "monitor" /\ g.pc = "wait" /\ g.s = s /\ g.sess = number[s] /\ g.saw = 0
        BY <2>3, GoroutineMade
      <3> QED BY <2>2, <3>1 DEF GoroutineTyped
    <2>4. CASE g = Goroutine("optional", "start", s, number[s], 1, 0)
      <3>1. IsGoroutine(g) /\ g.kind = "optional" /\ g.pc = "start" /\ g.s = s /\ g.sess = number[s] /\ g.saw = 0
        BY <2>4, GoroutineMade
      <3> QED BY <2>2, <3>1 DEF GoroutineTyped
    <2> QED BY <2>1, <2>3, <2>4
  <1>9. ManagerTyped
    <2>1. /\ opened \in Nat /\ offer \in [Servers -> Nat] /\ closed \in BOOLEAN
          /\ op = [c \in Callers |-> op[c]] /\ connectMu \in [Servers -> Callers \cup {None}]
      BY <1>2, <1>3
    <2> QED BY <1>5, <1>6, <1>7, <1>8, <2>1 DEF ManagerTyped
  <1>10. \A n \in DOMAIN open : Owned(n)
    BY <1>5, <1>6 DEF Owned
  <1> QED BY <1>3, <1>8, <1>9, <1>10 DEF OwnersInv, ClosersRun, CallsCut

LEMMA OwnersStep == OwnersInv /\ [Next]_vars => OwnersInv'
  <1> SUFFICES ASSUME OwnersInv, [Next]_vars PROVE OwnersInv'
    OBVIOUS
  <1>1. CASE \E c \in Callers : Operation(c)
    BY <1>1, StartQuiet DEF Operation
  <1>2. ASSUME NEW c \in Callers, Step(c) PROVE OwnersInv'
    BY <1>2, DisconnectOwned, DisconnectToldOwned, RefusedQuiet, ConnectQuiet, AttemptDisabledQuiet,
       AttemptQuiet, DialledOwned, DialFailsQuiet, InstallOwned, DiscardOwned, AnnounceOwned,
       ConnectionFailedQuiet, FailureToldQuiet DEF Step
  <1>3. ASSUME NEW g \in work,
               Tell(g) \/ Monitor(g) \/ Fetch(g) \/ FetchFails(g) \/ Apply(g)
                 \/ CallReturns(g) \/ SessionMissing(g) \/ CloseServer(g)
        PROVE  OwnersInv'
    BY <1>3, TellOwned, MonitorOwned, FetchOwned, EndsOwned, ApplyOwned, SessionMissingOwned, CloseServerOwned
  <1>4. CASE Application
    BY <1>4, ApplicationOwned DEF Application, WatcherTakes, WatcherStores, SenderReads, SenderStores, managerVars
  <1>5. CASE External
    BY <1>5, ApplicationOwned, CloseOwned, OfferChangesOwned, BeginCallOwned, SessionEndsOwned
       DEF External, Unsubscribe
  <1>6. CASE UNCHANGED vars
    BY <1>6, ApplicationOwned DEF vars
  <1> QED BY <1>1, <1>2, <1>3, <1>4, <1>5, <1>6 DEF Next, Background

LEMMA OwnersSuffice == OwnersInv => SessionsAreOwned
  <1> SUFFICES ASSUME OwnersInv PROVE SessionsAreOwned
    OBVIOUS
  <1>1. TypeOK
    <2>1. ASSUME NEW s \in Servers
          PROVE /\ rt[s].status \in Statuses /\ rt[s].sess \in 0 .. opened
                /\ {rt[s].tools, rt[s].res} \subseteq (0 .. offer[s]) \cup {None}
                /\ connectMu[s] \in Callers \cup {None}
      BY DEF OwnersInv, ManagerTyped, RuntimeTyped
    <2> QED BY <2>1 DEF TypeOK, OwnersInv, ManagerTyped
  <1>2. ASSUME NEW n \in DOMAIN open
        PROVE  \/ rt[open[n]].sess = n
               \/ \E c \in Callers : op[c].old = n \/ (op[c].sess = n /\ op[c].pc \in {"listed", "installed"})
               \/ \E g \in work : g.kind = "call" /\ g.pc = "tell" /\ g.sess = n
    BY DEF OwnersInv, Owned
  <1>3. ASSUME closed, Settled, NEW n \in DOMAIN open PROVE FALSE
    <2>1. open[n] \in Servers /\ n # 0
      BY Here DEF OwnersInv
    <2>2. Owned(n)
      BY DEF OwnersInv
    <2>3. \A c \in Callers : op[c].old = 0 /\ op[c].pc # "listed"
      BY <1>3 DEF Settled, OwnersInv, ManagerTyped, OpTyped
    <2>4. rt[open[n]].sess # 0
      BY <2>1, <2>2, <2>3 DEF Owned
    <2>5. PICK g \in work : g.kind = "closer"
      BY <1>3, <2>1, <2>4 DEF OwnersInv, ClosersRun
    <2> QED BY <1>3, <2>5 DEF Settled, Parked
  <1>4. closed /\ Settled => DOMAIN open = {}
    BY <1>3
  <1>5. CallsCut
    BY DEF OwnersInv
  <1> QED BY <1>1, <1>2, <1>4, <1>5 DEF SessionsAreOwned, CallsCut

\* Every connection that is open belongs to a runtime or to somebody who closes it, a
\* closed manager leaves none, and no call runs on beside the session it was made in.
THEOREM ConnectionsNeverLeak == Spec => []SessionsAreOwned
  <1>1. Init => OwnersInv
    BY OwnersInit
  <1>2. OwnersInv /\ [Next]_vars => OwnersInv'
    BY OwnersStep
  <1>3. OwnersInv => SessionsAreOwned
    BY OwnersSuffice
  <1> QED BY <1>1, <1>2, <1>3, PTL DEF Spec

-----------------------------------------------------------------------------
(* The catalog follows: what an operation or a goroutine under way owes.    *)

\* An operation that connects has the lock of its server.
LockedAt(c) == op[c].pc \in Connecting => connectMu[op[c].s] = c

\* A server that is switched off is about to be cut, or was; a reconnect that came in
\* between looks at the switch again.
Cuts(c, s) == op[c].s = s /\ op[c].pc = "cut" /\ op[c].kind = "disable"
CutIsComing(s) == \E c \in Callers : Cuts(c, s)
Reattempts(c, s) == op[c].s = s /\ op[c].kind = "reconnect" /\ op[c].pc \in {"cut_done", "connect", "attempt"}
ReattemptIsComing(s) == \E c \in Callers : Reattempts(c, s)
SwitchAt(s) ==
  /\ Connected(s) => rt[s].sess # 0
  /\ ~rt[s].on /\ ~closed =>
       \/ CutIsComing(s)
       \/ /\ rt[s].sess = 0 /\ ~Connected(s)
          /\ rt[s].status \in {"disabled", "needs_auth"} \/ ReattemptIsComing(s)

\* The session that a server has while an operation connects it again was there when
\* that operation took the lock.
FreshAt(c) ==
  op[c].pc \in Connecting \ {"installed"} /\ Connected(op[c].s) => op[c].gen = rt[op[c].s].gen

\* The catalog holds what a server lists, or somebody is on the way to rebuild it: who
\* cut or installed a session, who goes on to a session or to a failure that counts,
\* or a goroutine that changed a runtime.
Rebuilds(c, s) ==
  /\ op[c].s = s
  /\ \/ op[c].pc \in {"cut_done", "installed", "failure_told"}
     \/ op[c].pc \in {"attempt", "dial", "listed", "failed"} /\ op[c].gen = rt[s].gen /\ rt[s].on
RebuildIsComing(s) == \E c \in Callers : Rebuilds(c, s)
TellIsComing == \E g \in work : g.pc = "tell"
CatalogAt(s) ==
  ~closed => catalog[s] = Snapshot[s] \/ CutIsComing(s) \/ RebuildIsComing(s) \/ TellIsComing

\* Servers are closed by a manager that is.
ClosersClose == (\E g \in work : g.kind = "closer") => closed

CatalogInv ==
  /\ OwnersInv /\ ClosersClose
  /\ \A c \in Callers : LockedAt(c) /\ FreshAt(c)
  /\ \A s \in Servers : SwitchAt(s) /\ CatalogAt(s)

LEMMA SnapshotStays ==
  ASSUME NEW s \in Servers, rt'[s] = rt[s]
  PROVE  Snapshot'[s] = Snapshot[s] /\ (Connected(s)' <=> Connected(s))
  BY DEF Snapshot, Connected

LEMMA SnapshotOff ==
  ASSUME NEW s \in Servers, ~Connected(s), ~Connected(s)'
  PROVE  Snapshot'[s] = Snapshot[s]
  BY DEF Snapshot

\* What is owed to the other servers does not change with an operation on one of them.
LEMMA OthersKeep ==
  ASSUME CatalogInv, NEW c \in Callers, NEW s \in Servers,
         op[c].pc \notin AtEnd => op[c].s = s,
         \A d \in Callers : d # c => op'[d] = op[d],
         \A t \in Servers : t # s => rt'[t] = rt[t],
         closed' = closed, TellIsComing => TellIsComing' \/ (~closed => catalog' = Snapshot'),
         catalog' = catalog \/ (~closed => catalog' = Snapshot')
  PROVE  \A t \in Servers : t # s => SwitchAt(t)' /\ CatalogAt(t)'
  <1> SUFFICES ASSUME NEW t \in Servers, t # s PROVE SwitchAt(t)' /\ CatalogAt(t)'
    OBVIOUS
  <1>1. SwitchAt(t) /\ CatalogAt(t) /\ rt'[t] = rt[t]
    BY DEF CatalogInv
  <1>2. CutIsComing(t) => CutIsComing(t)'
    BY DEF CutIsComing, Cuts, AtEnd
  <1>3. ReattemptIsComing(t) => ReattemptIsComing(t)'
    BY DEF ReattemptIsComing, Reattempts, AtEnd
  <1>4. RebuildIsComing(t) => RebuildIsComing(t)'
    BY <1>1 DEF RebuildIsComing, Rebuilds, AtEnd
  <1>5. SwitchAt(t)'
    BY <1>1, <1>2, <1>3 DEF SwitchAt, Connected
  <1>6. CatalogAt(t)'
    BY <1>1, <1>2, <1>4, SnapshotStays DEF CatalogAt
  <1> QED BY <1>5, <1>6

\* Nobody else connects the server of an operation that does.
LEMMA OneConnects ==
  ASSUME CatalogInv, NEW c \in Callers, op[c].pc \in Connecting,
         NEW d \in Callers, op[d].pc \in Connecting, op[d].s = op[c].s
  PROVE  d = c
  BY DEF CatalogInv, LockedAt

\* The operations that stand still while another takes a step.
LEMMA OthersFresh ==
  ASSUME CatalogInv, NEW c \in Callers, NEW s \in Servers,
         \A d \in Callers : d # c => op'[d] = op[d],
         \A t \in Servers : t # s => rt'[t] = rt[t],
         Connected(s)' => (Connected(s) /\ rt'[s].gen = rt[s].gen) \/ (op[c].pc \in Connecting /\ op[c].s = s)
  PROVE  \A d \in Callers : d # c => FreshAt(d)'
  <1> SUFFICES ASSUME NEW d \in Callers, d # c, op[d].pc \in Connecting \ {"installed"}, Connected(op[d].s)'
               PROVE  op[d].gen = rt'[op[d].s].gen
    BY DEF FreshAt
  <1>1. FreshAt(d)
    BY DEF CatalogInv
  <1>2. CASE op[d].s = s
    BY <1>1, <1>2, OneConnects DEF FreshAt
  <1>3. CASE op[d].s # s /\ op[d].s \in Servers
    BY <1>1, <1>3 DEF FreshAt, Connected
  <1>4. op[d].s \in Servers
    BY Here DEF CatalogInv, OwnersInv, OpTyped, AtEnd, Connecting
  <1> QED BY <1>2, <1>3, <1>4

LEMMA OthersLocked ==
  ASSUME CatalogInv, None \notin Callers, NEW c \in Callers, NEW s \in Servers,
         \A d \in Callers : d # c => op'[d] = op[d],
         \A t \in Servers : t # s => connectMu'[t] = connectMu[t],
         connectMu'[s] = connectMu[s] \/ connectMu[s] = None \/ (op[c].pc \in Connecting /\ op[c].s = s)
  PROVE  \A d \in Callers : d # c => LockedAt(d)'
  <1> SUFFICES ASSUME NEW d \in Callers, d # c, op[d].pc \in Connecting PROVE connectMu'[op[d].s] = d
    BY DEF LockedAt
  <1>1. connectMu[op[d].s] = d
    BY DEF CatalogInv, LockedAt
  <1>2. CASE op[d].s = s
    BY <1>1, <1>2, OneConnects
  <1>3. CASE op[d].s # s
    <2>1. op[d].s \in Servers
      BY Here DEF CatalogInv, OwnersInv, OpTyped, AtEnd, Connecting
    <2> QED BY <1>1, <1>3, <2>1
  <1> QED BY <1>2, <1>3

LEMMA OperationCatalog ==
  ASSUME CatalogInv, OwnersInv', None \notin Callers, NEW c \in Callers, NEW s \in Servers,
         op[c].pc \notin AtEnd => op[c].s = s,
         \A d \in Callers : d # c => op'[d] = op[d],
         \A t \in Servers : t # s => rt'[t] = rt[t] /\ connectMu'[t] = connectMu[t],
         closed' = closed, TellIsComing => TellIsComing', ClosersClose',
         catalog' = catalog \/ (~closed => catalog' = Snapshot'),
         Connected(s)' => (Connected(s) /\ rt'[s].gen = rt[s].gen) \/ (op[c].pc \in Connecting /\ op[c].s = s),
         connectMu'[s] = connectMu[s] \/ connectMu[s] = None \/ (op[c].pc \in Connecting /\ op[c].s = s),
         LockedAt(c)', FreshAt(c)', SwitchAt(s)', CatalogAt(s)'
  PROVE  CatalogInv'
  <1>1. \A d \in Callers : LockedAt(d)'
    BY OthersLocked
  <1>2. \A d \in Callers : FreshAt(d)'
    BY OthersFresh
  <1>3. \A t \in Servers : SwitchAt(t)' /\ CatalogAt(t)'
    BY OthersKeep
  <1> QED BY <1>1, <1>2, <1>3 DEF CatalogInv

\* What the lemmas about the steps of an operation start from.
LEMMA OpHere ==
  ASSUME CatalogInv, NEW c \in Callers
  PROVE  /\ IsOp(op[c]) /\ op = [d \in Callers |-> op[d]] /\ LockedAt(c) /\ FreshAt(c)
         /\ op[c].pc \notin AtEnd => op[c].s \in Servers
         /\ rt = [t \in Servers |-> rt[t]] /\ connectMu \in [Servers -> Callers \cup {None}]
         /\ \A s \in Servers : IsRuntime(rt[s]) /\ SwitchAt(s) /\ CatalogAt(s)
  <1>1. ManagerTyped /\ OpTyped(op[c]) /\ LockedAt(c) /\ FreshAt(c)
    BY Here DEF CatalogInv, OwnersInv
  <1>2. \A s \in Servers : RuntimeTyped(s) /\ SwitchAt(s) /\ CatalogAt(s)
    BY <1>1, Here DEF CatalogInv
  <1> QED BY <1>1, <1>2, Here DEF OpTyped, RuntimeTyped

\* A step that leaves the runtimes and the catalog, of an operation that owes no rebuilding
\* it does not go on to owe.
LEMMA StandingCatalog ==
  ASSUME CatalogInv, NEW c \in Callers, NEW s \in Servers, op[c].pc \notin AtEnd => op[c].s = s,
         \A d \in Callers : d # c => op'[d] = op[d],
         UNCHANGED <<closed, rt, catalog>>, TellIsComing => TellIsComing',
         ~closed => (Rebuilds(c, s) => Rebuilds(c, s)') /\ (Cuts(c, s) => Cuts(c, s)')
                     /\ (Reattempts(c, s) => Reattempts(c, s)' \/ rt[s].on)
  PROVE  SwitchAt(s)' /\ CatalogAt(s)'
  <1>1. SwitchAt(s) /\ CatalogAt(s) /\ Snapshot'[s] = Snapshot[s]
    BY SnapshotStays DEF CatalogInv
  <1>2. CASE closed
    BY <1>1, <1>2 DEF SwitchAt, CatalogAt, Connected
  <1>3. CASE ~closed
    <2>1. CutIsComing(s) => CutIsComing(s)'
      <3>1. ASSUME NEW d \in Callers, Cuts(d, s) PROVE Cuts(d, s)'
        BY <1>3, <3>1 DEF Cuts
      <3> QED BY <3>1 DEF CutIsComing
    <2>2. RebuildIsComing(s) => RebuildIsComing(s)'
      <3>1. ASSUME NEW d \in Callers, Rebuilds(d, s) PROVE Rebuilds(d, s)'
        BY <1>3, <3>1 DEF Rebuilds
      <3> QED BY <3>1 DEF RebuildIsComing
    <2>3. ReattemptIsComing(s) => ReattemptIsComing(s)' \/ rt[s].on
      <3>1. ASSUME NEW d \in Callers, Reattempts(d, s) PROVE Reattempts(d, s)' \/ rt[s].on
        BY <1>3, <3>1 DEF Reattempts
      <3> QED BY <3>1 DEF ReattemptIsComing
    <2> QED BY <1>1, <2>1, <2>2, <2>3 DEF SwitchAt, CatalogAt, Connected
  <1> QED BY <1>2, <1>3

LEMMA RefusedCatalog ==
  ASSUME CatalogInv, OwnersInv', None \notin Callers, NEW c \in Callers, Refused(c) PROVE CatalogInv'
  <1>1. PICK s \in Servers : s = op[c].s /\ op[c].pc \in {"cut", "connect"}
    BY OpHere DEF Refused, AtEnd
  <1>2. /\ UNCHANGED <<closed, rt, connectMu, work, catalog>> /\ closed
        /\ op' = [op EXCEPT ![c] = Returned]
    BY DEF Refused
  <1>3. op'[c].pc = "done" /\ \A d \in Callers : d # c => op'[d] = op[d]
    BY <1>2, OpHere, ReturnedShape
  <1>4. LockedAt(c)' /\ FreshAt(c)'
    BY <1>3 DEF LockedAt, FreshAt, Connecting
  <1>5. SwitchAt(s)' /\ CatalogAt(s)'
    BY <1>1, <1>2, <1>3, StandingCatalog DEF TellIsComing
  <1>6. ClosersClose' /\ (TellIsComing => TellIsComing')
    BY <1>2 DEF CatalogInv, ClosersClose, TellIsComing
  <1>7. Connected(s)' => Connected(s) /\ rt'[s].gen = rt[s].gen
    BY <1>2 DEF Connected
  <1> QED BY <1>1, <1>2, <1>3, <1>4, <1>5, <1>6, <1>7, OperationCatalog

LEMMA ConnectCatalog ==
  ASSUME CatalogInv, OwnersInv', None \notin Callers, NEW c \in Callers, Connect(c) PROVE CatalogInv'
  <1>1. PICK s \in Servers : s = op[c].s /\ op[c].pc = "connect"
    BY OpHere DEF Connect, AtEnd
  <1>2. /\ UNCHANGED <<closed, rt, work, catalog>> /\ connectMu[s] = None
        /\ connectMu' = [connectMu EXCEPT ![s] = c]
        /\ op' = [op EXCEPT ![c].pc = "attempt", ![c].gen = rt[s].gen]
    BY <1>1 DEF Connect
  <1>3. /\ op'[c].pc = "attempt" /\ op'[c].s = s /\ op'[c].gen = rt[s].gen /\ op'[c].kind = op[c].kind
        /\ \A d \in Callers : d # c => op'[d] = op[d]
    <2>1. IsOp(op[c]) /\ op = [d \in Callers |-> op[d]]
      BY OpHere
    <2>2. op'[c] = [op[c] EXCEPT !.pc = "attempt", !.gen = rt[s].gen] /\ \A d \in Callers : d # c => op'[d] = op[d]
      BY <1>2, <2>1
    <2> QED BY <1>1, <2>1, <2>2 DEF IsOp, OpFields
  <1>4. LockedAt(c)' /\ FreshAt(c)' /\ \A t \in Servers : t # s => connectMu'[t] = connectMu[t]
    BY <1>2, <1>3, OpHere DEF LockedAt, FreshAt
  <1>5. SwitchAt(s)' /\ CatalogAt(s)'
    <2>1. /\ Rebuilds(c, s) => Rebuilds(c, s)' 
          /\ Cuts(c, s) => Cuts(c, s)'
          /\ Reattempts(c, s) => Reattempts(c, s)'
      BY <1>1, <1>3 DEF Rebuilds, Cuts, Reattempts
    <2> QED BY <1>1, <1>2, <1>3, <2>1, StandingCatalog DEF TellIsComing
  <1>6. ClosersClose' /\ (TellIsComing => TellIsComing')
    BY <1>2 DEF CatalogInv, ClosersClose, TellIsComing
  <1>7. Connected(s)' => Connected(s) /\ rt'[s].gen = rt[s].gen
    BY <1>2 DEF Connected
  <1> QED BY <1>1, <1>2, <1>3, <1>4, <1>5, <1>6, <1>7, OperationCatalog

LEMMA DialFailsCatalog ==
  ASSUME CatalogInv, OwnersInv', None \notin Callers, NEW c \in Callers,
         NEW err \in {"transient", "auth", "other"}, DialFails(c, err)
  PROVE  CatalogInv'
  <1>1. PICK s \in Servers : s = op[c].s
    BY OpHere DEF DialFails, AtEnd
  <1>2. /\ UNCHANGED <<closed, rt, connectMu, work, catalog>>
        /\ op[c].pc = "dial" \/ (op[c].pc = "attempt" /\ closed)
        /\ op' = [op EXCEPT ![c] = IF Retryable(c, err)
              THEN [@ EXCEPT !.pc = "attempt", !.retry = op[c].retry + 1]
              ELSE [@ EXCEPT !.pc = "failed", !.err = err]]
    BY <1>1 DEF DialFails
  <1>3. /\ op'[c].pc \in {"attempt", "failed"} /\ op'[c].s = s /\ op'[c].gen = op[c].gen /\ op'[c].kind = op[c].kind
        /\ \A d \in Callers : d # c => op'[d] = op[d]
    <2>1. IsOp(op[c]) /\ op = [d \in Callers |-> op[d]]
      BY OpHere
    <2>2. CASE Retryable(c, err)
      <3>1. op' = [op EXCEPT ![c] = [@ EXCEPT !.pc = "attempt", !.retry = op[c].retry + 1]]
        BY <1>2, <2>2
      <3>2. op'[c] = [op[c] EXCEPT !.pc = "attempt", !.retry = op[c].retry + 1] /\ \A d \in Callers : d # c => op'[d] = op[d]
        BY <2>1, <3>1
      <3> QED BY <1>1, <2>1, <3>2 DEF IsOp, OpFields
    <2>3. CASE ~Retryable(c, err)
      <3>1. op' = [op EXCEPT ![c] = [@ EXCEPT !.pc = "failed", !.err = err]]
        BY <1>2, <2>3
      <3>2. op'[c] = [op[c] EXCEPT !.pc = "failed", !.err = err] /\ \A d \in Callers : d # c => op'[d] = op[d]
        BY <2>1, <3>1
      <3> QED BY <1>1, <2>1, <3>2 DEF IsOp, OpFields
    <2> QED BY <2>2, <2>3
  <1>4. LockedAt(c)' /\ FreshAt(c)'
    BY <1>1, <1>2, <1>3, OpHere DEF LockedAt, FreshAt, Connecting, Connected
  <1>5. SwitchAt(s)' /\ CatalogAt(s)'
    <2>1. ~closed => /\ Rebuilds(c, s) => Rebuilds(c, s)'
                     /\ Cuts(c, s) => Cuts(c, s)'
                     /\ Reattempts(c, s) => Reattempts(c, s)'
      BY <1>1, <1>2, <1>3 DEF Rebuilds, Cuts, Reattempts
    <2> QED BY <1>1, <1>2, <1>3, <2>1, StandingCatalog DEF TellIsComing
  <1>6. ClosersClose' /\ (TellIsComing => TellIsComing')
    BY <1>2 DEF CatalogInv, ClosersClose, TellIsComing
  <1>7. Connected(s)' => Connected(s) /\ rt'[s].gen = rt[s].gen
    BY <1>2 DEF Connected
  <1> QED BY <1>1, <1>2, <1>3, <1>4, <1>5, <1>6, <1>7, OperationCatalog

\* Dialled and Discard.
LEMMA ListedCatalog ==
  ASSUME CatalogInv, OwnersInv', None \notin Callers, NEW c \in Callers, Dialled(c) \/ Discard(c)
  PROVE  CatalogInv'
  <1>1. PICK s \in Servers : s = op[c].s
    BY OpHere DEF Dialled, Discard, AtEnd
  <1>2. /\ UNCHANGED <<closed, rt, connectMu, work, catalog>> /\ op[c].pc \in {"dial", "listed"}
    BY <1>1 DEF Dialled, Discard
  <1>3. /\ op'[c].pc \in {"listed", "failed"} /\ op'[c].s = s /\ op'[c].gen = op[c].gen /\ op'[c].kind = op[c].kind
        /\ \A d \in Callers : d # c => op'[d] = op[d]
    <2>1. CASE Dialled(c)
      <3>1. op' = [op EXCEPT ![c].pc = "listed", ![c].sess = opened + 1, ![c].saw = offer[op[c].s]]
        BY <2>1 DEF Dialled
      <3>2. IsOp(op[c]) /\ op = [d \in Callers |-> op[d]]
        BY OpHere
      <3>3. /\ op'[c] = [op[c] EXCEPT !.pc = "listed", !.sess = opened + 1, !.saw = offer[op[c].s]]
            /\ \A d \in Callers : d # c => op'[d] = op[d]
        BY <3>1, <3>2
      <3> QED BY <1>1, <3>2, <3>3 DEF IsOp, OpFields
    <2>2. CASE Discard(c)
      <3>1. op' = [op EXCEPT ![c].pc = "failed", ![c].err = "other"]
        BY <2>2 DEF Discard
      <3>2. IsOp(op[c]) /\ op = [d \in Callers |-> op[d]]
        BY OpHere
      <3>3. /\ op'[c] = [op[c] EXCEPT !.pc = "failed", !.err = "other"]
            /\ \A d \in Callers : d # c => op'[d] = op[d]
        BY <3>1, <3>2
      <3> QED BY <1>1, <3>2, <3>3 DEF IsOp, OpFields
    <2> QED BY <2>1, <2>2
  <1>4. LockedAt(c)' /\ FreshAt(c)'
    BY <1>1, <1>2, <1>3, OpHere DEF LockedAt, FreshAt, Connecting, Connected
  <1>5. SwitchAt(s)' /\ CatalogAt(s)'
    <2>1. /\ Rebuilds(c, s) => Rebuilds(c, s)'
          /\ Cuts(c, s) => Cuts(c, s)'
          /\ Reattempts(c, s) => Reattempts(c, s)'
      BY <1>1, <1>2, <1>3 DEF Rebuilds, Cuts, Reattempts
    <2> QED BY <1>1, <1>2, <1>3, <2>1, StandingCatalog DEF TellIsComing
  <1>6. ClosersClose' /\ (TellIsComing => TellIsComing')
    BY <1>2 DEF CatalogInv, ClosersClose, TellIsComing
  <1>7. Connected(s)' => Connected(s) /\ rt'[s].gen = rt[s].gen
    BY <1>2 DEF Connected
  <1> QED BY <1>1, <1>2, <1>3, <1>4, <1>5, <1>6, <1>7, OperationCatalog

LEMMA RebuiltCatalog ==
  ASSUME UNCHANGED <<closed, rt>>, RebuildCatalog
  PROVE  (~closed => catalog' = Snapshot') /\ \A s \in Servers : CatalogAt(s)'
  <1>1. Snapshot' = Snapshot
    BY DEF Snapshot, Connected
  <1>2. ~closed => catalog' = Snapshot'
    BY <1>1 DEF RebuildCatalog
  <1> QED BY <1>2 DEF CatalogAt

LEMMA StandingSwitch ==
  ASSUME CatalogInv, NEW c \in Callers, NEW s \in Servers,
         \A d \in Callers : d # c => op'[d] = op[d], UNCHANGED <<closed, rt>>,
         Cuts(c, s) => Cuts(c, s)', Reattempts(c, s) => Reattempts(c, s)'
  PROVE  SwitchAt(s)'
  <1>1. SwitchAt(s)
    BY DEF CatalogInv
  <1>2. CutIsComing(s) => CutIsComing(s)'
    <2>1. ASSUME NEW d \in Callers, Cuts(d, s) PROVE Cuts(d, s)'
      BY <2>1 DEF Cuts
    <2> QED BY <2>1 DEF CutIsComing
  <1>3. ReattemptIsComing(s) => ReattemptIsComing(s)'
    <2>1. ASSUME NEW d \in Callers, Reattempts(d, s) PROVE Reattempts(d, s)'
      BY <2>1 DEF Reattempts
    <2> QED BY <2>1 DEF ReattemptIsComing
  <1> QED BY <1>1, <1>2, <1>3 DEF SwitchAt, Connected

LEMMA DisconnectToldCatalog ==
  ASSUME CatalogInv, OwnersInv', None \notin Callers, NEW c \in Callers, DisconnectTold(c) PROVE CatalogInv'
  <1>1. PICK s \in Servers : s = op[c].s /\ op[c].pc = "cut_done"
    BY OpHere DEF DisconnectTold, AtEnd
  <1>2. UNCHANGED <<closed, rt, connectMu, work>> /\ RebuildCatalog
    BY DEF DisconnectTold
  <1>3. /\ \A d \in Callers : d # c => op'[d] = op[d]
        /\ \/ op[c].kind # "reconnect" /\ op'[c].pc = "done"
           \/ op[c].kind = "reconnect" /\ op'[c].pc = "connect" /\ op'[c].kind = op[c].kind /\ op'[c].s = s
    <2>1. CASE op[c].kind # "reconnect"
      <3>1. op' = [op EXCEPT ![c] = Returned]
        BY <2>1 DEF DisconnectTold
      <3> QED BY <2>1, <3>1, OpHere, ReturnedShape
    <2>2. CASE op[c].kind = "reconnect"
      <3>1. op' = [op EXCEPT ![c] = [@ EXCEPT !.pc = "connect", !.old = 0]]
        BY <2>2 DEF DisconnectTold
      <3>2. IsOp(op[c]) /\ op = [d \in Callers |-> op[d]]
        BY OpHere
      <3>3. op'[c] = [op[c] EXCEPT !.pc = "connect", !.old = 0] /\ \A d \in Callers : d # c => op'[d] = op[d]
        BY <3>1, <3>2
      <3> QED BY <1>1, <2>2, <3>2, <3>3 DEF IsOp, OpFields
    <2> QED BY <2>1, <2>2
  <1>4. LockedAt(c)' /\ FreshAt(c)'
    BY <1>3 DEF LockedAt, FreshAt, Connecting
  <1>5. SwitchAt(s)'
    <2>1. (Cuts(c, s) => Cuts(c, s)') /\ (Reattempts(c, s) => Reattempts(c, s)')
      BY <1>1, <1>3 DEF Cuts, Reattempts
    <2> QED BY <1>2, <1>3, <2>1, StandingSwitch
  <1>6. ClosersClose' /\ (TellIsComing => TellIsComing')
    BY <1>2 DEF CatalogInv, ClosersClose, TellIsComing
  <1>7. Connected(s)' => Connected(s) /\ rt'[s].gen = rt[s].gen
    BY <1>2 DEF Connected
  <1>8. CatalogAt(s)' /\ (~closed => catalog' = Snapshot')
    BY <1>2, RebuiltCatalog
  <1> QED BY <1>1, <1>2, <1>3, <1>4, <1>5, <1>6, <1>7, <1>8, OperationCatalog

LEMMA AnnounceCatalog ==
  ASSUME CatalogInv, OwnersInv', None \notin Callers, NEW c \in Callers, Announce(c) \/ FailureTold(c)
  PROVE  CatalogInv'
  <1>1. PICK s \in Servers : s = op[c].s /\ op[c].pc \in Connecting /\ op[c].pc \in {"installed", "failure_told"}
    BY OpHere DEF Announce, FailureTold, AtEnd, Connecting
  <1>2. /\ UNCHANGED <<closed, rt>> /\ RebuildCatalog /\ op' = [op EXCEPT ![c] = Returned]
        /\ connectMu' = [connectMu EXCEPT ![s] = None]
    BY <1>1 DEF Announce, FailureTold, Finish
  <1>3. /\ op'[c].pc = "done" /\ \A d \in Callers : d # c => op'[d] = op[d]
        /\ \A t \in Servers : t # s => connectMu'[t] = connectMu[t]
    BY <1>2, OpHere, ReturnedShape
  <1>4. LockedAt(c)' /\ FreshAt(c)'
    BY <1>3 DEF LockedAt, FreshAt, Connecting
  <1>5. SwitchAt(s)'
    <2>1. (Cuts(c, s) => Cuts(c, s)') /\ (Reattempts(c, s) => Reattempts(c, s)')
      BY <1>1 DEF Cuts, Reattempts
    <2> QED BY <1>2, <1>3, <2>1, StandingSwitch
  <1>6. ClosersClose' /\ (TellIsComing => TellIsComing')
    <2>1. work \subseteq work'
      BY DEF Announce, FailureTold
    <2>2. \A g \in work' : g.kind = "closer" => g \in work
      <3>1. CASE Announce(c)
        <4>1. PICK m, o : /\ work' = work \cup {m, o}
                          /\ m = Goroutine("monitor", "wait", op[c].s, op[c].sess, op[c].at + 1, 0)
                          /\ o = Goroutine("optional", "start", op[c].s, op[c].sess, op[c].at + 1, 0)
          BY <3>1 DEF Announce
        <4>2. m.kind = "monitor" /\ o.kind = "optional"
          BY <4>1, GoroutineMade
        <4> QED BY <4>1, <4>2
      <3>2. CASE FailureTold(c)
        BY <3>2 DEF FailureTold
      <3> QED BY <3>1, <3>2
    <2> QED BY <1>2, <2>1, <2>2 DEF CatalogInv, ClosersClose, TellIsComing
  <1>7. Connected(s)' => Connected(s) /\ rt'[s].gen = rt[s].gen
    BY <1>2 DEF Connected
  <1>8. CatalogAt(s)' /\ (~closed => catalog' = Snapshot')
    BY <1>2, RebuiltCatalog
  <1> QED BY <1>1, <1>2, <1>3, <1>4, <1>5, <1>6, <1>7, <1>8, OperationCatalog

LEMMA ConnectionFailedCatalog ==
  ASSUME CatalogInv, OwnersInv', None \notin Callers, NEW c \in Callers, ConnectionFailed(c)
  PROVE  CatalogInv'
  <1>1. PICK s \in Servers : s = op[c].s /\ op[c].pc = "failed" /\ op[c].pc \in Connecting
    BY OpHere DEF ConnectionFailed, AtEnd, Connecting
  <1>2. UNCHANGED <<closed, work, catalog>>
    BY DEF ConnectionFailed
  <1>3. ClosersClose' /\ (TellIsComing => TellIsComing')
    BY <1>2 DEF CatalogInv, ClosersClose, TellIsComing
  <1>4. CASE FailureCounts(c)
    <2>1. PICK status \in {"needs_auth", "error"} :
            /\ rt' = [rt EXCEPT ![s].status = status] /\ op' = [op EXCEPT ![c].pc = "failure_told"]
            /\ UNCHANGED connectMu
      BY <1>1, <1>4 DEF ConnectionFailed
    <2>2. /\ op'[c].pc = "failure_told" /\ op'[c].s = s /\ \A d \in Callers : d # c => op'[d] = op[d]
      BY <1>1, <2>1, OpHere DEF IsOp, OpFields
    <2>3. /\ rt'[s].status = status /\ rt'[s].on = rt[s].on /\ \A t \in Servers : t # s => rt'[t] = rt[t]
      BY <2>1, OpHere DEF IsRuntime, RuntimeFields
    <2>4. ~Connected(s)' /\ rt[s].on
      BY <1>1, <1>4, <2>3 DEF Connected, FailureCounts
    <2>5. LockedAt(c)' /\ FreshAt(c)'
      BY <1>1, <2>1, <2>2, <2>4, OpHere DEF LockedAt, FreshAt
    <2>6. SwitchAt(s)'
      BY <2>3, <2>4 DEF SwitchAt
    <2>7. CatalogAt(s)'
      BY <2>2 DEF CatalogAt, RebuildIsComing, Rebuilds
    <2> QED BY <1>1, <1>2, <1>3, <2>1, <2>2, <2>3, <2>4, <2>5, <2>6, <2>7, OperationCatalog
  <1>5. CASE ~FailureCounts(c)
    <2>1. rt' = rt /\ op' = [op EXCEPT ![c] = Returned] /\ connectMu' = [connectMu EXCEPT ![s] = None]
      BY <1>1, <1>5 DEF ConnectionFailed, Finish
    <2>2. /\ op'[c].pc = "done" /\ \A d \in Callers : d # c => op'[d] = op[d]
          /\ \A t \in Servers : t # s => connectMu'[t] = connectMu[t]
      BY <2>1, OpHere, ReturnedShape
    <2>3. LockedAt(c)' /\ FreshAt(c)'
      BY <2>2 DEF LockedAt, FreshAt, Connecting
    <2>4. SwitchAt(s)' /\ CatalogAt(s)'
      <3>1. ~closed => ~Rebuilds(c, s) /\ ~Cuts(c, s) /\ ~Reattempts(c, s)
        BY <1>1, <1>5 DEF Rebuilds, Cuts, Reattempts, FailureCounts
      <3> QED BY <1>1, <1>2, <1>3, <2>1, <2>2, <3>1, StandingCatalog
    <2>5. Connected(s)' => Connected(s) /\ rt'[s].gen = rt[s].gen
      BY <2>1 DEF Connected
    <2> QED BY <1>1, <1>2, <1>3, <2>1, <2>2, <2>3, <2>4, <2>5, OperationCatalog
  <1> QED BY <1>4, <1>5

-----------------------------------------------------------------------------
(* The steps of the operations.                                             *)

LEMMA StartCatalog ==
  ASSUME CatalogInv, OwnersInv', None \notin Callers, NEW c \in Callers,
         NEW kind \in {"reconnect", "enable", "disable", "logout"}, NEW s \in Servers, Start(c, kind, s)
  PROVE  CatalogInv'
  <1>1. op[c].pc = "idle" /\ op[c].pc \in AtEnd
    BY DEF Start, AtEnd
  <1>2. UNCHANGED <<closed, connectMu, work, catalog>>
    BY DEF Start
  <1>3. PICK pc \in {"cut", "connect"} :
          /\ op' = [op EXCEPT ![c] = Started(pc, kind, s)]
          /\ kind = "disable" => pc = "cut"
    BY DEF Start, Started
  <1>4. /\ op'[c].pc = pc /\ op'[c].kind = kind /\ op'[c].s = s
        /\ \A d \in Callers : d # c => op'[d] = op[d]
    BY <1>3, OpHere, StartedShape
  <1>5. LockedAt(c)' /\ FreshAt(c)'
    BY <1>4 DEF LockedAt, FreshAt, Connecting
  <1>6. ClosersClose' /\ (TellIsComing => TellIsComing')
    BY <1>2 DEF CatalogInv, ClosersClose, TellIsComing
  <1>7. /\ \A t \in Servers : t # s => rt'[t] = rt[t]
        /\ rt'[s].sess = rt[s].sess /\ rt'[s].status = rt[s].status /\ rt'[s].gen = rt[s].gen
        /\ rt'[s].tools = rt[s].tools /\ rt'[s].res = rt[s].res
        /\ (rt'[s].on <=> rt[s].on) \/ (kind = "enable" /\ rt'[s].on) \/ kind = "disable"
    <2>1. CASE kind \in {"enable", "disable"}
      <3>1. PICK x \in BOOLEAN : rt' = [rt EXCEPT ![s].on = x] /\ (kind = "enable" <=> x)
        BY <2>1 DEF Start
      <3>2. rt'[s] = [rt[s] EXCEPT !.on = x] /\ \A t \in Servers : t # s => rt'[t] = rt[t]
        BY <3>1, OpHere
      <3>3. IsRuntime(rt[s])
        BY OpHere
      <3> QED BY <2>1, <3>1, <3>2, <3>3 DEF IsRuntime, RuntimeFields
    <2>2. CASE kind \notin {"enable", "disable"}
      BY <2>2 DEF Start
    <2> QED BY <2>1, <2>2
  <1>8. Snapshot'[s] = Snapshot[s] /\ (Connected(s)' <=> Connected(s))
    BY <1>7 DEF Snapshot, Connected
  <1>9. /\ CutIsComing(s) \/ kind = "disable" => CutIsComing(s)'
        /\ ReattemptIsComing(s) => ReattemptIsComing(s)'
        /\ RebuildIsComing(s) => RebuildIsComing(s)' \/ kind = "disable"
    <2>1. CutIsComing(s) \/ kind = "disable" => CutIsComing(s)'
      BY <1>1, <1>3, <1>4 DEF CutIsComing, Cuts
    <2>2. ReattemptIsComing(s) => ReattemptIsComing(s)'
      BY <1>1, <1>4 DEF ReattemptIsComing, Reattempts
    <2>3. RebuildIsComing(s) => RebuildIsComing(s)' \/ kind = "disable"
      BY <1>1, <1>4, <1>7 DEF RebuildIsComing, Rebuilds
    <2> QED BY <2>1, <2>2, <2>3
  <1>10. SwitchAt(s) /\ CatalogAt(s)
    BY OpHere
  <1>11. SwitchAt(s)'
    BY <1>2, <1>7, <1>8, <1>9, <1>10 DEF SwitchAt
  <1>12. CatalogAt(s)'
    BY <1>2, <1>6, <1>8, <1>9, <1>10 DEF CatalogAt
  <1> QED BY <1>1, <1>2, <1>4, <1>5, <1>6, <1>7, <1>8, <1>11, <1>12, OperationCatalog

LEMMA DisconnectCatalog ==
  ASSUME CatalogInv, OwnersInv', None \notin Callers, NEW c \in Callers, Disconnect(c) PROVE CatalogInv'
  <1>1. PICK s \in Servers : s = op[c].s /\ op[c].pc = "cut"
    BY OpHere DEF Disconnect, AtEnd
  <1>2. /\ UNCHANGED <<closed, connectMu, work, catalog>>
        /\ op' = [op EXCEPT ![c].pc = "cut_done", ![c].old = rt[s].sess]
    BY <1>1 DEF Disconnect
  <1>3. /\ op'[c].pc = "cut_done" /\ op'[c].s = s /\ op'[c].kind = op[c].kind
        /\ \A d \in Callers : d # c => op'[d] = op[d]
    <2>1. IsOp(op[c]) /\ op = [d \in Callers |-> op[d]]
      BY OpHere
    <2>2. op'[c] = [op[c] EXCEPT !.pc = "cut_done", !.old = rt[s].sess] /\ \A d \in Callers : d # c => op'[d] = op[d]
      BY <1>2, <2>1
    <2> QED BY <1>1, <2>1, <2>2 DEF IsOp, OpFields
  <1>4. PICK status : status = StatusAfter(op[c].kind)
    OBVIOUS
  <1>5. /\ op[c].kind = "disable" => status = "disabled"
        /\ op[c].kind = "logout" => status = "needs_auth"
        /\ status # "connected" /\ op[c].kind \in {"disable", "logout", "reconnect"}
    <2>1. op[c].kind \in {"disable", "logout", "reconnect"}
      BY <1>1, Here DEF CatalogInv, OwnersInv, OpTyped
    <2> QED BY <1>4, <2>1 DEF StatusAfter
  <1>6. /\ rt'[s].sess = 0 /\ rt'[s].status = status /\ rt'[s].on = rt[s].on
        /\ \A t \in Servers : t # s => rt'[t] = rt[t]
    <2>1. rt' = [rt EXCEPT ![s] = Severed(@, status)]
      BY <1>1, <1>4 DEF Disconnect
    <2> QED BY <2>1, OpHere, SeveredShape
  <1>7. ~Connected(s)'
    BY <1>5, <1>6 DEF Connected
  <1>8. LockedAt(c)' /\ FreshAt(c)'
    BY <1>3 DEF LockedAt, FreshAt, Connecting
  <1>9. SwitchAt(s)'
    <2>1. op[c].kind = "reconnect" => ReattemptIsComing(s)'
      BY <1>3 DEF ReattemptIsComing, Reattempts
    <2> QED BY <1>5, <1>6, <1>7, <2>1 DEF SwitchAt
  <1>10. CatalogAt(s)'
    BY <1>3 DEF CatalogAt, RebuildIsComing, Rebuilds
  <1>11. ClosersClose' /\ (TellIsComing => TellIsComing')
    BY <1>2 DEF CatalogInv, ClosersClose, TellIsComing
  <1> QED BY <1>1, <1>2, <1>3, <1>6, <1>7, <1>8, <1>9, <1>10, <1>11, OperationCatalog

LEMMA AttemptDisabledCatalog ==
  ASSUME CatalogInv, OwnersInv', None \notin Callers, NEW c \in Callers, AttemptDisabled(c) PROVE CatalogInv'
  <1>1. PICK s \in Servers : s = op[c].s /\ op[c].pc = "attempt" /\ op[c].pc \in Connecting /\ ~closed /\ ~rt[s].on
    BY OpHere DEF AttemptDisabled, AtEnd, Connecting
  <1>2. /\ UNCHANGED <<closed, work, catalog>> /\ op' = [op EXCEPT ![c] = Returned]
        /\ connectMu' = [connectMu EXCEPT ![s] = None] /\ rt' = [rt EXCEPT ![s].status = "disabled"]
    BY <1>1 DEF AttemptDisabled, Finish
  <1>3. /\ op'[c].pc = "done" /\ \A d \in Callers : d # c => op'[d] = op[d]
        /\ \A t \in Servers : t # s => connectMu'[t] = connectMu[t]
    BY <1>2, OpHere, ReturnedShape
  <1>4. /\ rt'[s].status = "disabled" /\ rt'[s].on = rt[s].on /\ rt'[s].sess = rt[s].sess
        /\ \A t \in Servers : t # s => rt'[t] = rt[t]
    BY <1>2, OpHere DEF IsRuntime, RuntimeFields
  <1>5. LockedAt(c)' /\ FreshAt(c)'
    BY <1>3 DEF LockedAt, FreshAt, Connecting
  <1>6. CutIsComing(s) => CutIsComing(s)'
    BY <1>1, <1>3 DEF CutIsComing, Cuts
  <1>7. ~Connected(s)' /\ (CutIsComing(s) \/ (~Connected(s) /\ rt[s].sess = 0))
    BY <1>1, <1>4, OpHere DEF Connected, SwitchAt
  <1>8. SwitchAt(s)'
    BY <1>4, <1>6, <1>7 DEF SwitchAt
  <1>9. CatalogAt(s)'
    <2>1. CASE CutIsComing(s)
      BY <1>6, <2>1 DEF CatalogAt
    <2>2. CASE ~Connected(s)
      <3>1. Snapshot'[s] = Snapshot[s] /\ CatalogAt(s)
        BY <1>7, <2>2, SnapshotOff, OpHere
      <3>2. RebuildIsComing(s) => RebuildIsComing(s)'
        BY <1>1, <1>3, <1>4 DEF RebuildIsComing, Rebuilds
      <3> QED BY <1>2, <1>6, <3>1, <3>2 DEF CatalogAt, TellIsComing
    <2> QED BY <1>7, <2>1, <2>2
  <1>10. ClosersClose' /\ (TellIsComing => TellIsComing')
    BY <1>2 DEF CatalogInv, ClosersClose, TellIsComing
  <1> QED BY <1>1, <1>2, <1>3, <1>4, <1>5, <1>7, <1>8, <1>9, <1>10, OperationCatalog

LEMMA AttemptCatalog ==
  ASSUME CatalogInv, OwnersInv', None \notin Callers, NEW c \in Callers, Attempt(c) PROVE CatalogInv'
  <1>1. PICK s \in Servers : s = op[c].s /\ op[c].pc = "attempt" /\ op[c].pc \in Connecting \ {"installed"} /\ rt[s].on
    BY OpHere DEF Attempt, AtEnd, Connecting
  <1>2. /\ UNCHANGED <<closed, work, catalog, connectMu>>
        /\ op' = [op EXCEPT ![c].pc = "dial", ![c].at = rt[s].gen, ![c].saw = offer[s]]
    BY <1>1 DEF Attempt
  <1>3. /\ op'[c].pc = "dial" /\ op'[c].s = s /\ op'[c].gen = op[c].gen
        /\ \A d \in Callers : d # c => op'[d] = op[d]
    <2>1. IsOp(op[c]) /\ op = [d \in Callers |-> op[d]]
      BY OpHere
    <2>2. /\ op'[c] = [op[c] EXCEPT !.pc = "dial", !.at = rt[s].gen, !.saw = offer[s]]
          /\ \A d \in Callers : d # c => op'[d] = op[d]
      BY <1>2, <2>1
    <2> QED BY <1>1, <2>1, <2>2 DEF IsOp, OpFields
  <1>4. PICK status \in {"connecting", "reconnecting"} : rt' = [rt EXCEPT ![s].status = status]
    BY <1>1 DEF Attempt
  <1>5. /\ rt'[s].status = status /\ rt'[s].on = rt[s].on /\ rt'[s].sess = rt[s].sess /\ rt'[s].gen = rt[s].gen
        /\ \A t \in Servers : t # s => rt'[t] = rt[t]
    BY <1>4, OpHere DEF IsRuntime, RuntimeFields
  <1>6. ~Connected(s)'
    BY <1>5 DEF Connected
  <1>7. LockedAt(c)' /\ FreshAt(c)'
    BY <1>1, <1>2, <1>3, <1>6, OpHere DEF LockedAt, FreshAt, Connecting
  <1>8. SwitchAt(s)'
    BY <1>1, <1>5, <1>6 DEF SwitchAt
  <1>9. CatalogAt(s)'
    <2>1. CASE Connected(s)
      <3>1. op[c].gen = rt[s].gen
        BY <1>1, <2>1, OpHere DEF FreshAt
      <3> QED BY <1>1, <1>3, <1>5, <3>1 DEF CatalogAt, RebuildIsComing, Rebuilds
    <2>2. CASE ~Connected(s)
      <3>1. Snapshot'[s] = Snapshot[s] /\ CatalogAt(s)
        BY <1>6, <2>2, SnapshotOff, OpHere
      <3>2. RebuildIsComing(s) => RebuildIsComing(s)'
        BY <1>1, <1>3, <1>5 DEF RebuildIsComing, Rebuilds
      <3>3. CutIsComing(s) => CutIsComing(s)'
        BY <1>1, <1>3 DEF CutIsComing, Cuts
      <3> QED BY <1>2, <3>1, <3>2, <3>3 DEF CatalogAt, TellIsComing
    <2> QED BY <2>1, <2>2
  <1>10. ClosersClose' /\ (TellIsComing => TellIsComing')
    BY <1>2 DEF CatalogInv, ClosersClose, TellIsComing
  <1> QED BY <1>1, <1>2, <1>3, <1>5, <1>6, <1>7, <1>8, <1>9, <1>10, OperationCatalog

LEMMA InstallCatalog ==
  ASSUME CatalogInv, OwnersInv', None \notin Callers, NEW c \in Callers, Install(c) PROVE CatalogInv'
  <1>1. PICK s \in Servers : s = op[c].s /\ op[c].pc = "listed" /\ op[c].pc \in Connecting /\ rt[s].on /\ op[c].sess # 0
    <2>1. op[c].pc = "listed" /\ rt[op[c].s].on
      BY DEF Install, StillWanted
    <2>2. op[c].sess # 0
      BY <2>1 DEF CatalogInv, OwnersInv, ManagerTyped, OpTyped
    <2> QED BY <2>1, <2>2, OpHere DEF AtEnd, Connecting
  <1>2. /\ UNCHANGED <<closed, work, catalog, connectMu>>
        /\ op' = [op EXCEPT ![c].pc = "installed", ![c].old = rt[s].sess]
        /\ rt' = [rt EXCEPT ![s] = Installed(@, op[c].sess, op[c].saw)]
    BY <1>1 DEF Install
  <1>3. /\ op'[c].pc = "installed" /\ op'[c].s = s
        /\ \A d \in Callers : d # c => op'[d] = op[d]
    <2>1. IsOp(op[c]) /\ op = [d \in Callers |-> op[d]]
      BY OpHere
    <2>2. op'[c] = [op[c] EXCEPT !.pc = "installed", !.old = rt[s].sess] /\ \A d \in Callers : d # c => op'[d] = op[d]
      BY <1>2, <2>1
    <2> QED BY <1>1, <2>1, <2>2 DEF IsOp, OpFields
  <1>4. /\ rt'[s].sess = op[c].sess /\ rt'[s].on = rt[s].on
        /\ \A t \in Servers : t # s => rt'[t] = rt[t]
    BY <1>2, OpHere, InstalledShape
  <1>5. LockedAt(c)' /\ FreshAt(c)'
    BY <1>1, <1>2, <1>3, OpHere DEF LockedAt, FreshAt
  <1>6. SwitchAt(s)'
    BY <1>1, <1>4 DEF SwitchAt
  <1>7. CatalogAt(s)'
    BY <1>3 DEF CatalogAt, RebuildIsComing, Rebuilds
  <1>8. ClosersClose' /\ (TellIsComing => TellIsComing')
    BY <1>2 DEF CatalogInv, ClosersClose, TellIsComing
  <1> QED BY <1>1, <1>2, <1>3, <1>4, <1>5, <1>6, <1>7, <1>8, OperationCatalog

-----------------------------------------------------------------------------
(* The goroutines, the servers, the application, and Close.                 *)

\* The steps of the goroutines, the servers and the application, while the operations
\* stand still: what a server owes follows from its own runtime.
LEMMA OperationsStand ==
  ASSUME CatalogInv, OwnersInv', UNCHANGED <<op, connectMu, closed>>, ClosersClose',
         \A s \in Servers : rt'[s] = rt[s] \/ (Connected(s)' => Connected(s) /\ rt'[s].gen = rt[s].gen),
         \A s \in Servers : \/ rt'[s] = rt[s]
                            \/ /\ rt'[s].on = rt[s].on
                               /\ \/ rt'[s].sess = rt[s].sess /\ rt'[s].status = rt[s].status
                                  \/ (rt[s].sess # 0 \/ rt[s].on) /\ ~Connected(s)',
         \A s \in Servers : CatalogAt(s)'
  PROVE  CatalogInv'
  <1>1. ASSUME NEW c \in Callers PROVE LockedAt(c)' /\ FreshAt(c)'
    <2>1. LockedAt(c) /\ FreshAt(c)
      BY DEF CatalogInv
    <2>2. op[c].pc \in Connecting => op[c].s \in Servers
      BY Here DEF CatalogInv, OwnersInv, OpTyped, AtEnd, Connecting
    <2> QED BY <2>1, <2>2 DEF LockedAt, FreshAt, Connected
  <1>2. ASSUME NEW s \in Servers PROVE SwitchAt(s)'
    <2>1. SwitchAt(s)
      BY DEF CatalogInv
    <2>2. (CutIsComing(s) <=> CutIsComing(s)') /\ (ReattemptIsComing(s) <=> ReattemptIsComing(s)')
      BY DEF CutIsComing, Cuts, ReattemptIsComing, Reattempts
    <2>3. CASE rt'[s] = rt[s]
      BY <2>1, <2>2, <2>3 DEF SwitchAt, Connected
    <2>4. CASE rt'[s].on = rt[s].on /\ rt'[s].sess = rt[s].sess /\ rt'[s].status = rt[s].status
      BY <2>1, <2>2, <2>4 DEF SwitchAt, Connected
    <2>5. CASE rt'[s].on = rt[s].on /\ (rt[s].sess # 0 \/ rt[s].on) /\ ~Connected(s)'
      BY <2>1, <2>2, <2>5 DEF SwitchAt
    <2> QED BY <2>3, <2>4, <2>5
  <1> QED BY <1>1, <1>2 DEF CatalogInv

\* A step that leaves the runtimes.
LEMMA RuntimesStand ==
  ASSUME CatalogInv, OwnersInv', UNCHANGED <<op, connectMu, closed, rt>>, ClosersClose',
         RebuildCatalog \/ (UNCHANGED catalog /\ (TellIsComing => TellIsComing'))
  PROVE  CatalogInv'
  <1>1. ASSUME NEW s \in Servers PROVE CatalogAt(s)'
    <2>1. CASE RebuildCatalog
      BY <2>1, RebuiltCatalog
    <2>2. CASE UNCHANGED catalog /\ (TellIsComing => TellIsComing')
      <3>1. CatalogAt(s) /\ Snapshot'[s] = Snapshot[s]
        BY SnapshotStays DEF CatalogInv
      <3>2. (CutIsComing(s) <=> CutIsComing(s)') /\ (RebuildIsComing(s) <=> RebuildIsComing(s)')
        BY DEF CutIsComing, Cuts, RebuildIsComing, Rebuilds
      <3> QED BY <2>2, <3>1, <3>2 DEF CatalogAt
    <2> QED BY <2>1, <2>2
  <1> QED BY <1>1, OperationsStand

\* A goroutine that ends with nothing to tell, or goes on to fetch.
LEMMA SilentCatalog ==
  ASSUME CatalogInv, OwnersInv', UNCHANGED <<op, connectMu, closed, rt, catalog>>, NEW g,
         g.pc # "tell", work \ {g} \subseteq work', \A h \in work' : h.kind = "closer" => h \in work \/ h.kind = g.kind,
         g \in work
  PROVE  CatalogInv'
  <1>1. ClosersClose'
    BY DEF CatalogInv, ClosersClose
  <1>2. TellIsComing => TellIsComing'
    BY DEF TellIsComing
  <1> QED BY <1>1, <1>2, RuntimesStand

LEMMA EndsCatalog ==
  ASSUME CatalogInv, OwnersInv', NEW g \in work, FetchFails(g) \/ CallReturns(g) PROVE CatalogInv'
  BY SilentCatalog DEF FetchFails, CallReturns, Ends

LEMMA TellCatalog == ASSUME CatalogInv, OwnersInv', NEW g \in work, Tell(g) PROVE CatalogInv'
  <1>1. UNCHANGED <<op, connectMu, closed, rt>> /\ RebuildCatalog /\ work' \subseteq work
    BY DEF Tell, Ends
  <1>2. ClosersClose'
    BY <1>1 DEF CatalogInv, ClosersClose
  <1> QED BY <1>1, <1>2, RuntimesStand

LEMMA FetchCatalog == ASSUME CatalogInv, OwnersInv', NEW g \in work, Fetch(g) PROVE CatalogInv'
  <1>1. UNCHANGED <<op, connectMu, closed, rt, catalog>> /\ g.pc = "start" /\ g.kind # "closer"
    BY DEF Fetch
  <1>2. CASE ~(Usable(g) /\ rt[g.s].sess # 0)
    <2>1. work' = work \ {g}
      BY <1>2 DEF Fetch, Ends
    <2> QED BY <1>1, <2>1, SilentCatalog
  <1>3. CASE Usable(g) /\ rt[g.s].sess # 0
    <2>1. PICK h : /\ work' = (work \ {g}) \cup {h}
                   /\ h = [g EXCEPT !.pc = "fetch", !.sess = rt[g.s].sess, !.saw = offer[g.s]]
      BY <1>3 DEF Fetch, Replace
    <2>2. IsGoroutine(g)
      BY DEF CatalogInv, OwnersInv, ManagerTyped, GoroutineTyped
    <2>3. h.kind = g.kind
      BY <2>1, <2>2 DEF IsGoroutine, GoroutineFields
    <2> QED BY <1>1, <2>1, <2>3, SilentCatalog
  <1> QED BY <1>2, <1>3

\* A goroutine that changed a runtime goes on to tell it.
LEMMA ToldCatalog ==
  ASSUME CatalogInv, OwnersInv', UNCHANGED <<op, connectMu, closed>>, NEW g \in work, NEW h,
         work' = (work \ {g}) \cup {h}, h = [g EXCEPT !.pc = "tell"], g.kind # "closer",
         NEW s \in Servers, \A t \in Servers : t # s => rt'[t] = rt[t],
         Connected(s)' => Connected(s) /\ rt'[s].gen = rt[s].gen,
         rt'[s].on = rt[s].on,
         \/ rt'[s].sess = rt[s].sess /\ rt'[s].status = rt[s].status
         \/ (rt[s].sess # 0 \/ rt[s].on) /\ ~Connected(s)'
  PROVE  CatalogInv'
  <1>1. IsGoroutine(g)
    BY DEF CatalogInv, OwnersInv, ManagerTyped, GoroutineTyped
  <1>2. h.kind = g.kind /\ h.pc = "tell"
    BY <1>1, TellingShape
  <1>3. TellIsComing' /\ ClosersClose'
    BY <1>2 DEF TellIsComing, CatalogInv, ClosersClose
  <1>4. \A t \in Servers : CatalogAt(t)'
    BY <1>3 DEF CatalogAt
  <1> QED BY <1>3, <1>4, OperationsStand

LEMMA MonitorCatalog == ASSUME CatalogInv, OwnersInv', NEW g \in work, Monitor(g) PROVE CatalogInv'
  <1>1. UNCHANGED <<op, connectMu, closed, catalog>> /\ g.kind = "monitor" /\ g.pc = "wait"
    BY DEF Monitor
  <1>2. CASE MonitorStale(g)
    <2>1. work' = work \ {g} /\ rt' = rt
      BY <1>2 DEF Monitor, Ends
    <2> QED BY <1>1, <2>1, SilentCatalog
  <1>3. CASE ~MonitorStale(g)
    <2>1. PICK s \in Servers : s = g.s
      BY DEF CatalogInv, OwnersInv, ManagerTyped, GoroutineTyped
    <2>2. PICK status \in {"disconnected", "error", "needs_auth"} :
            rt' = [rt EXCEPT ![s].sess = 0, ![s].status = status]
      BY <1>3, <2>1 DEF Monitor
    <2>3. /\ rt'[s].status = status /\ rt'[s].on = rt[s].on /\ \A t \in Servers : t # s => rt'[t] = rt[t]
      <3>1. rt'[s] = [rt[s] EXCEPT !.sess = 0, !.status = status] /\ \A t \in Servers : t # s => rt'[t] = rt[t]
        BY <2>2, Here DEF CatalogInv, OwnersInv
      <3>2. IsRuntime(rt[s])
        BY DEF CatalogInv, OwnersInv, ManagerTyped, RuntimeTyped
      <3> QED BY <3>1, <3>2 DEF IsRuntime, RuntimeFields
    <2>4. ~Connected(s)'
      BY <2>3 DEF Connected
    <2>5. rt[s].on
      BY <1>3, <2>1 DEF MonitorStale
    <2>6. PICK h : work' = (work \ {g}) \cup {h} /\ h = [g EXCEPT !.pc = "tell"]
      BY <1>3 DEF Monitor, Replace
    <2> QED BY <1>1, <2>3, <2>4, <2>5, <2>6, ToldCatalog
  <1> QED BY <1>2, <1>3

LEMMA SessionMissingCatalog == ASSUME CatalogInv, OwnersInv', NEW g \in work, SessionMissing(g) PROVE CatalogInv'
  <1>1. UNCHANGED <<op, connectMu, closed, catalog>> /\ g.kind = "call" /\ g.pc = "run"
    BY DEF SessionMissing
  <1>2. CASE rt[g.s].sess # g.sess
    <2>1. work' = work \ {g} /\ rt' = rt
      BY <1>2 DEF SessionMissing, Ends
    <2> QED BY <1>1, <2>1, SilentCatalog
  <1>3. CASE rt[g.s].sess = g.sess
    <2>1. PICK s \in Servers : s = g.s /\ g.sess # 0
      BY <1>1 DEF CatalogInv, OwnersInv, ManagerTyped, GoroutineTyped
    <2>2. PICK status : status = "error"
      OBVIOUS
    <2>3. rt' = [rt EXCEPT ![s] = Severed(@, status)]
      BY <1>3, <2>1, <2>2 DEF SessionMissing
    <2>4. /\ rt'[s].status = status /\ rt'[s].on = rt[s].on /\ \A t \in Servers : t # s => rt'[t] = rt[t]
      BY <2>3, Here, SeveredShape DEF CatalogInv, OwnersInv, RuntimeTyped
    <2>5. ~Connected(s)' /\ rt[s].sess # 0
      BY <1>3, <2>1, <2>2, <2>4 DEF Connected
    <2>6. PICK h : work' = (work \ {g}) \cup {h} /\ h = [g EXCEPT !.pc = "tell"]
      BY <1>3 DEF SessionMissing, Replace
    <2> QED BY <1>1, <2>4, <2>5, <2>6, ToldCatalog
  <1> QED BY <1>2, <1>3

LEMMA ApplyCatalog == ASSUME CatalogInv, OwnersInv', NEW g \in work, Apply(g) PROVE CatalogInv'
  <1>1. UNCHANGED <<op, connectMu, closed, catalog>> /\ g.pc = "fetch"
    BY DEF Apply
  <1>2. g.kind # "closer" /\ IsGoroutine(g)
    BY <1>1 DEF CatalogInv, OwnersInv, ManagerTyped, GoroutineTyped
  <1>3. CASE ~StillCurrent(g)
    <2>1. work' = work \ {g} /\ rt' = rt
      BY <1>3 DEF Apply, Ends
    <2> QED BY <1>1, <2>1, SilentCatalog
  <1>4. CASE StillCurrent(g)
    <2>1. PICK s \in Servers : s = g.s
      BY DEF CatalogInv, OwnersInv, ManagerTyped, GoroutineTyped
    <2>2. PICK v \in g.saw .. offer[s] :
            rt' = [rt EXCEPT ![s].res = v, ![s].tools = IF g.kind = "refresh" THEN v ELSE @]
      BY <1>4, <2>1 DEF Apply
    <2>3. /\ rt'[s].status = rt[s].status /\ rt'[s].on = rt[s].on /\ rt'[s].sess = rt[s].sess
          /\ rt'[s].gen = rt[s].gen /\ \A t \in Servers : t # s => rt'[t] = rt[t]
      <3>1. rt = [t \in Servers |-> rt[t]] /\ IsRuntime(rt[s])
        BY Here DEF CatalogInv, OwnersInv, RuntimeTyped
      <3>2. PICK w \in {v, rt[s].tools} : rt' = [rt EXCEPT ![s].res = v, ![s].tools = w]
        BY <2>2, <3>1 DEF IsRuntime, RuntimeFields
      <3> QED BY <3>1, <3>2 DEF IsRuntime, RuntimeFields
    <2>4. Connected(s)' => Connected(s) /\ rt'[s].gen = rt[s].gen
      BY <2>3 DEF Connected
    <2>5. PICK h : work' = (work \ {g}) \cup {h} /\ h = [g EXCEPT !.pc = "tell"]
      BY <1>4 DEF Apply, Replace
    <2> QED BY <1>1, <1>2, <2>3, <2>4, <2>5, ToldCatalog
  <1> QED BY <1>3, <1>4

\* A closed manager publishes nothing: what it still owes is to close its sessions.
LEMMA CloseServerCatalog == ASSUME CatalogInv, OwnersInv', NEW g \in work, CloseServer(g) PROVE CatalogInv'
  <1>1. UNCHANGED <<op, connectMu, closed, catalog>> /\ g.kind = "closer" /\ work' = work \ {g}
    BY DEF CloseServer, Ends
  <1>2. closed /\ closed' /\ ClosersClose'
    BY <1>1 DEF CatalogInv, ClosersClose
  <1>3. PICK s \in Servers : s = g.s
    BY DEF CatalogInv, OwnersInv, ManagerTyped, GoroutineTyped
  <1>4. PICK x : x = "disconnected"
    OBVIOUS
  <1>5. rt' = [rt EXCEPT ![s].sess = 0, ![s].gen = @ + 1, ![s].status = x]
    BY <1>3, <1>4 DEF CloseServer
  <1>6. /\ rt'[s].status = x /\ \A t \in Servers : t # s => rt'[t] = rt[t]
    <2>1. rt = [t \in Servers |-> rt[t]] /\ IsRuntime(rt[s])
      BY Here DEF CatalogInv, OwnersInv, RuntimeTyped
    <2>2. rt'[s] = [rt[s] EXCEPT !.sess = 0, !.gen = @ + 1, !.status = x] /\ \A t \in Servers : t # s => rt'[t] = rt[t]
      BY <1>5, <2>1
    <2> QED BY <2>1, <2>2 DEF IsRuntime, RuntimeFields
  <1>7. ~Connected(s)'
    BY <1>4, <1>6 DEF Connected
  <1>8. ASSUME NEW c \in Callers PROVE LockedAt(c)' /\ FreshAt(c)'
    <2>1. LockedAt(c) /\ FreshAt(c)
      BY DEF CatalogInv
    <2>2. op[c].pc \in Connecting => op[c].s \in Servers
      BY Here DEF CatalogInv, OwnersInv, OpTyped, AtEnd, Connecting
    <2> QED BY <1>1, <1>6, <1>7, <2>1, <2>2 DEF LockedAt, FreshAt, Connected
  <1>9. ASSUME NEW t \in Servers PROVE SwitchAt(t)' /\ CatalogAt(t)'
    <2>1. SwitchAt(t)
      BY DEF CatalogInv
    <2> QED BY <1>2, <1>6, <1>7, <2>1 DEF SwitchAt, CatalogAt, Connected
  <1> QED BY <1>2, <1>8, <1>9 DEF CatalogInv

LEMMA CloseCatalog == ASSUME CatalogInv, OwnersInv', Close PROVE CatalogInv'
  <1>1. UNCHANGED <<op, connectMu, rt>> /\ closed'
    BY DEF Close
  <1>2. ClosersClose'
    BY <1>1 DEF ClosersClose
  <1>3. ASSUME NEW c \in Callers PROVE LockedAt(c)' /\ FreshAt(c)'
    BY <1>1 DEF CatalogInv, LockedAt, FreshAt, Connected
  <1>4. ASSUME NEW t \in Servers PROVE SwitchAt(t)' /\ CatalogAt(t)'
    BY <1>1 DEF CatalogInv, SwitchAt, CatalogAt, Connected
  <1> QED BY <1>2, <1>3, <1>4 DEF CatalogInv

\* BeginCall, OfferChanges, SessionEnds, and what the application does.
LEMMA RestCatalog ==
  ASSUME CatalogInv, OwnersInv',
         \/ Application \/ Unsubscribe \/ UNCHANGED vars
         \/ (\E s \in Servers : OfferChanges(s) \/ BeginCall(s)) \/ \E n \in DOMAIN open : SessionEnds(n)
  PROVE  CatalogInv'
  <1>1. UNCHANGED <<op, connectMu, closed, rt, catalog>>
    BY DEF Application, WatcherTakes, WatcherStores, SenderReads, SenderStores, managerVars, Unsubscribe,
           vars, OfferChanges, BeginCall, SessionEnds
  <1>2. \/ work' = work
        \/ \E h : work' = work \cup {h} /\ h.kind # "closer"
    <2>1. CASE Application \/ Unsubscribe \/ UNCHANGED vars \/ \E n \in DOMAIN open : SessionEnds(n)
      BY <2>1 DEF Application, WatcherTakes, WatcherStores, SenderReads, SenderStores, managerVars, Unsubscribe,
                  vars, SessionEnds
    <2>2. ASSUME NEW s \in Servers, OfferChanges(s) PROVE \E h : work' = work \cup {h} /\ h.kind # "closer"
      <3>1. PICK h : work' = work \cup {h} /\ h = Goroutine("refresh", "start", s, 0, 0, offer[s] + 1)
        BY <2>2 DEF OfferChanges
      <3>2. h.kind = "refresh"
        BY <3>1, GoroutineMade
      <3> QED BY <3>1, <3>2
    <2>3. ASSUME NEW s \in Servers, BeginCall(s) PROVE \E h : work' = work \cup {h} /\ h.kind # "closer"
      <3>1. PICK h : work' = work \cup {h} /\ h = Goroutine("call", "run", s, rt[s].sess, left.call, 0)
        BY <2>3 DEF BeginCall
      <3>2. h.kind = "call"
        BY <3>1, GoroutineMade
      <3> QED BY <3>1, <3>2
    <2> QED BY <2>1, <2>2, <2>3
  <1>3. ClosersClose' /\ (TellIsComing => TellIsComing')
    BY <1>1, <1>2 DEF CatalogInv, ClosersClose, TellIsComing
  <1> QED BY <1>1, <1>3, RuntimesStand

LEMMA NobodyIsNone == None \notin Callers
  BY McpAssumption DEF McpAssumption, Callers

LEMMA CatalogStep == CatalogInv /\ [Next]_vars => CatalogInv'
  <1> SUFFICES ASSUME CatalogInv, [Next]_vars PROVE CatalogInv'
    OBVIOUS
  <1>1. OwnersInv'
    BY OwnersStep DEF CatalogInv
  <1>2. None \notin Callers
    BY NobodyIsNone
  <1>3. CASE \E c \in Callers : Operation(c)
    BY <1>1, <1>2, <1>3, StartCatalog DEF Operation
  <1>4. ASSUME NEW c \in Callers, Step(c) PROVE CatalogInv'
    BY <1>1, <1>2, <1>4, DisconnectCatalog, DisconnectToldCatalog, RefusedCatalog, ConnectCatalog,
       AttemptDisabledCatalog, AttemptCatalog, ListedCatalog, DialFailsCatalog, InstallCatalog,
       AnnounceCatalog, ConnectionFailedCatalog DEF Step
  <1>5. ASSUME NEW g \in work,
               Tell(g) \/ Monitor(g) \/ Fetch(g) \/ FetchFails(g) \/ Apply(g)
                 \/ CallReturns(g) \/ SessionMissing(g) \/ CloseServer(g)
        PROVE  CatalogInv'
    BY <1>1, <1>5, TellCatalog, MonitorCatalog, FetchCatalog, EndsCatalog, ApplyCatalog,
       SessionMissingCatalog, CloseServerCatalog
  <1>6. CASE Application \/ UNCHANGED vars
    BY <1>1, <1>6, RestCatalog
  <1>7. CASE External
    BY <1>1, <1>7, RestCatalog, CloseCatalog DEF External
  <1> QED BY <1>3, <1>4, <1>5, <1>6, <1>7 DEF Next, Background

LEMMA CatalogSuffices == CatalogInv => CatalogFollows
  <1> SUFFICES ASSUME CatalogInv, Settled, ~closed, NEW s \in Servers
               PROVE  /\ Connected(s) => rt[s].on /\ rt[s].sess # 0
                      /\ catalog[s] = IF Connected(s) THEN [tools |-> rt[s].tools, res |-> rt[s].res] ELSE None
                      /\ ~rt[s].on => rt[s].status \in {"disabled", "needs_auth"} /\ rt[s].sess = 0
    BY DEF CatalogFollows
  <1>1. \A c \in Callers : op[c].pc \in {"idle", "done"}
    BY DEF Settled
  <1>2. ~CutIsComing(s) /\ ~ReattemptIsComing(s) /\ ~RebuildIsComing(s)
    BY <1>1 DEF CutIsComing, Cuts, ReattemptIsComing, Reattempts, RebuildIsComing, Rebuilds
  <1>3. ~TellIsComing
    <2> SUFFICES ASSUME NEW g \in work, g.pc = "tell" PROVE FALSE
      BY DEF TellIsComing
    <2>1. GoroutineTyped(g) /\ Parked(g)
      BY DEF CatalogInv, OwnersInv, ManagerTyped, Settled
    <2> QED BY <2>1 DEF GoroutineTyped, Parked
  <1>4. SwitchAt(s) /\ CatalogAt(s)
    BY DEF CatalogInv
  <1>5. catalog[s] = Snapshot[s]
    BY <1>2, <1>3, <1>4 DEF CatalogAt
  <1> QED BY <1>2, <1>4, <1>5 DEF SwitchAt, Snapshot, Connected

LEMMA CatalogInit == Init => CatalogInv
  <1> SUFFICES ASSUME Init PROVE CatalogInv
    OBVIOUS
  <1>1. PICK up \in SUBSET Servers, number \in [Servers -> 1 .. Cardinality(Servers)] : InitUp(up, number)
    BY DEF Init
  <1>2. op = [c \in Callers |-> Resting] /\ catalog = Snapshot
    BY DEF Init
  <1>3. ASSUME NEW s \in Servers PROVE rt[s].on /\ (Connected(s) => rt[s].sess # 0)
    <2>1. IsRuntime(Off) /\ Off.on = TRUE
      BY DEF IsRuntime, RuntimeFields, Off
    <2>2. CASE s \notin up
      <3>1. rt[s] = Off
        BY <1>1, <2>2 DEF InitUp
      <3> QED BY <2>1, <3>1 DEF Connected, Off
    <2>3. CASE s \in up
      <3>1. PICK x : x = "connected"
        OBVIOUS
      <3>2. rt[s] = [Off EXCEPT !.status = x, !.sess = number[s], !.gen = 1, !.tools = 0]
        BY <1>1, <2>3, <3>1 DEF InitUp
      <3>3. rt[s].on = Off.on /\ rt[s].sess = number[s]
        BY <2>1, <3>2 DEF IsRuntime, RuntimeFields
      <3>4. number[s] # 0
        BY FS_CardinalityType, McpAssumption DEF McpAssumption
      <3> QED BY <2>1, <3>3, <3>4
    <2> QED BY <2>2, <2>3
  <1>4. \A g \in work : g.kind # "closer"
    <2> SUFFICES ASSUME NEW g \in work PROVE g.kind # "closer"
      OBVIOUS
    <2>1. PICK s \in up : g \in {Goroutine("monitor", "wait", s, number[s], 1, 0),
                                 Goroutine("optional", "start", s, number[s], 1, 0)}
      BY <1>1 DEF InitUp
    <2> QED BY <2>1, GoroutineMade
  <1>5. \A c \in Callers : LockedAt(c) /\ FreshAt(c)
    BY <1>2 DEF LockedAt, FreshAt, Connecting, Resting
  <1>6. \A s \in Servers : SwitchAt(s) /\ CatalogAt(s)
    BY <1>2, <1>3 DEF SwitchAt, CatalogAt
  <1> QED BY <1>4, <1>5, <1>6, OwnersInit DEF CatalogInv, ClosersClose

\* When nothing is under way the published catalog is what the connected sessions list,
\* and a server that is switched off is down and contributes nothing.
THEOREM CatalogNeverLies == Spec => []CatalogFollows
  <1>1. Init => CatalogInv
    BY CatalogInit
  <1>2. CatalogInv /\ [Next]_vars => CatalogInv'
    BY CatalogStep
  <1>3. CatalogInv => CatalogFollows
    BY CatalogSuffices
  <1> QED BY <1>1, <1>2, <1>3, PTL DEF Spec
=============================================================================
