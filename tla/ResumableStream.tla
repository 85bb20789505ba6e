--------------------------- MODULE ResumableStream ---------------------------
(***************************************************************************)
(* The legacy SSE transport of a remote MCP server (internal/mcpclient/    *)
(* transport.go): one logical connection over a stream of events that is   *)
(* opened again, from the last event id, whenever it breaks.               *)
(*                                                                         *)
(* Abstractions.  The server's messages are 1, 2, ...; the id of an event  *)
(* is the number of its message.  A server with ids continues after the    *)
(* id it is given; one without ids is never asked to.  The delays of the   *)
(* reconnections, the address that messages are posted to, and posting,    *)
(* are left out.  The server is external: it may end or lose the stream at *)
(* any point, also inside an event, refuse it, or be silent.               *)
(***************************************************************************)
EXTENDS Integers, Sequences

CONSTANTS
    MaxMessages,   \* messages of the server
    Tries,         \* legacySSEMaximumReconnectTries
    Buffer         \* legacySSEIncomingMessageBuffer

ASSUME StreamAssumption == MaxMessages \in Nat /\ Tries \in Nat /\ Buffer \in Nat \ {0}

VARIABLES
    withIds,       \* do the server's events carry ids?
    at,            \* the read loop: "stream", "retry", "done"
    position,      \* the last message the open stream has sent
    lastEventID,   \* 0: none
    startID,       \* streamStartID: lastEventID when the stream was opened
    failedResumes,
    incoming,      \* the channel to Read
    readBy,        \* what Read has returned
    reason,        \* why the connection has ended
    truncated,           \* ghost: has a part of an event been taken for an event?
    tries          \* ghost: attempts since the last new event id

streamVars == <<withIds, at, position, lastEventID, startID, failedResumes, incoming, readBy,
                reason, truncated, tries>>

Part == 0   \* the message of an event that was cut off

-----------------------------------------------------------------------------
\* applyEventMetadata.
SetID(n) == lastEventID' = IF withIds THEN n ELSE lastEventID

\* The decoder returns a complete event; the read loop waits for room in the channel.
Event ==
    /\ at = "stream" /\ position < MaxMessages /\ Len(incoming) < Buffer
    /\ position' = position + 1
    /\ SetID(position')
    /\ incoming' = Append(incoming, position')
    /\ tries' = IF withIds THEN 0 ELSE tries
    /\ UNCHANGED <<withIds, at, startID, failedResumes, readBy, reason, truncated>>

GiveUpStream(why) == at' = "done" /\ reason' = why

\* A stream that has brought no new id counts as a failed attempt.
CountReset == IF lastEventID = startID THEN failedResumes + 1 ELSE 0
Counted == CountReset

\* The stream ends or breaks between two events, or breaks inside one.
StreamEnds ==
    /\ at = "stream"
    /\ IF lastEventID = 0
       THEN GiveUpStream("no_id") /\ UNCHANGED failedResumes
       ELSE at' = "retry" /\ failedResumes' = Counted /\ UNCHANGED reason
    /\ tries' = tries
    /\ UNCHANGED <<withIds, position, lastEventID, startID, incoming, readBy, truncated>>

\* The stream ends cleanly inside an event: the decoder returns the lines it has, the
\* id, a part of the data, or both, as an event.  The end follows at the next call.
EventCut ==
    /\ at = "stream" /\ position < MaxMessages /\ Len(incoming) < Buffer /\ ~truncated
    /\ truncated' = TRUE
    /\ \E id, data \in BOOLEAN :
         /\ id \/ data
         /\ lastEventID' = IF id /\ withIds THEN position + 1 ELSE lastEventID
         /\ incoming' = IF data THEN Append(incoming, Part) ELSE incoming
    /\ position' = MaxMessages
    /\ UNCHANGED <<withIds, at, startID, failedResumes, readBy, reason, tries>>

\* The id a stream is opened with: the server sends what follows it.
ResumeLast == lastEventID
\* Mutant: the id the broken stream was opened with.
ResumeStart == startID
ResumeFrom == ResumeLast

GivesUp ==
    /\ at = "retry" /\ failedResumes >= Tries
    /\ GiveUpStream("no_progress")
    /\ UNCHANGED <<withIds, position, lastEventID, startID, failedResumes, incoming, readBy, truncated, tries>>

Resume ==
    /\ at = "retry" /\ failedResumes < Tries
    /\ at' = "stream" /\ position' = ResumeFrom /\ startID' = lastEventID
    /\ tries' = IF tries < Tries THEN tries + 1 ELSE tries
    /\ UNCHANGED <<withIds, lastEventID, failedResumes, incoming, readBy, reason, truncated>>

ResumeFails ==
    /\ at = "retry" /\ failedResumes < Tries
    /\ failedResumes' = failedResumes + 1 /\ tries' = IF tries < Tries THEN tries + 1 ELSE tries
    /\ UNCHANGED <<withIds, at, position, lastEventID, startID, incoming, readBy, reason, truncated>>

\* Read, and Close by the session.  After the end Read may return what is left, or
\* the end.
ReadEvent ==
    /\ incoming # <<>> /\ reason # "read"
    /\ readBy' = Append(readBy, Head(incoming)) /\ incoming' = Tail(incoming)
    /\ UNCHANGED <<withIds, at, position, lastEventID, startID, failedResumes, reason, truncated, tries>>

ReadsEnd ==
    /\ at = "done" /\ reason # "read" /\ reason' = "read"
    /\ UNCHANGED <<withIds, at, position, lastEventID, startID, failedResumes, incoming, readBy, truncated, tries>>

CloseStream ==
    /\ at # "done" /\ GiveUpStream("closed")
    /\ UNCHANGED <<withIds, position, lastEventID, startID, failedResumes, incoming, readBy, truncated, tries>>

StreamInit ==
    /\ withIds \in BOOLEAN /\ at = "stream" /\ position = 0
    /\ lastEventID = 0 /\ startID = 0 /\ failedResumes = 0
    /\ incoming = <<>> /\ readBy = <<>> /\ reason = "none" /\ truncated = FALSE /\ tries = 0

Reconnects == GivesUp \/ Resume \/ ResumeFails

StreamNext ==
    \/ Event \/ StreamEnds \/ EventCut \/ Reconnects
    \/ ReadEvent \/ ReadsEnd \/ CloseStream

\* The timer of a reconnection fires, its request is answered or fails, and Read is
\* called again and again.  Nothing is asked of the server.
StreamSpec == StreamInit /\ [][StreamNext]_streamVars

-----------------------------------------------------------------------------
(***************************************************************************)
(* Properties                                                              *)
(***************************************************************************)
Received == readBy \o incoming

\* However often the stream breaks, every message is handed over once and in order,
\* unless a part of an event has been taken for one.
MessagesInOrder == ~truncated => \A i \in DOMAIN Received : Received[i] = i

\* A connection that still makes progress is not given up: before it is, Tries
\* attempts in a row have brought nothing new.
GivesUpLate == reason = "no_progress" => tries >= Tries

\* What the transport promises of a logical connection: no gap, no message twice, and
\* no end while it still makes progress.
StreamResumes == MessagesInOrder /\ GivesUpLate
=============================================================================
