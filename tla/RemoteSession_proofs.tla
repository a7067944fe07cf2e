------------------------ MODULE RemoteSession_proofs ---------------------------
(***************************************************************************)
(* One end of a connection, for any number of calls and of requests of the *)
(* peer. The messages of the peer are one line, the buffer and behind it    *)
(* the pipe: a request of it is asked once and handled once, so that the   *)
(* counter of the requests which are not answered is exact. What was sent  *)
(* and what waits to be sent are one stream: it grows by whole frames and  *)
(* by nothing else, as long as no write fails, and the wire is the         *)
(* beginning of it.                                                        *)
(***************************************************************************)
EXTENDS RemoteSession, SequenceTheorems, FiniteSetTheorems, TLAPS

\* The messages of the peer which are not handled yet.
Line == received \o inbound

\* What the peer got, and what is still to be sent: a part which was written stays in the
\* queue until the end of its write is seen.
Rest   == IF writing = "done" THEN Tail(sendQueue) ELSE sendQueue
Stream == wire \o Rest

\* Nobody ends the connection yet.
Active == ~ended /\ owner \in {"serve", "waitAnswers", "waitWrites", "close"}

Busy == {r \in Requests : reply[r] \in {"held", "erased", "queued"}}

\* A write is in flight as long as its end was not seen, and its part is in the queue.
WriteFits ==
    /\ inWrite <=> writing # "none"
    /\ writing # "none" => sendQueue # << >>

\* A message of the line was sent, and a request of it is there once and was not handled.
LineFits ==
    /\ \A i \in 1 .. Len(Line) :
          /\ Line[i] \in asked
          /\ Line[i] \in Requests =>
                /\ reply[Line[i]] = "none"
                /\ \A j \in 1 .. Len(Line) : Line[j] = Line[i] => j = i
    /\ \A r \in Requests : reply[r] # "none" => r \in asked

\* The counter of the requests which are not answered.
CountFits ==
    /\ inflight <= Cardinality(Busy)
    /\ "twice" \notin Faults => inflight = Cardinality(Busy)

\* Only a handler which answers twice answers a request again.
AgainIsTwice == \A r \in Requests : reply[r] = "again" => "twice" \in Faults

SessionInv == TypeOK /\ WriteFits /\ LineFits /\ CountFits /\ AgainIsTwice

\* The closed handler is called when it is given away.
ClosedInv ==
    /\ notified = IF hasHandler THEN 0 ELSE 1
    /\ owner = "stopped" => ~hasHandler

\* A call which waits is in the table, also one which entered it after the end.
CallsInTable ==
    \A c \in Callers :
        /\ outcome[c] = "answer" => c \in asked
        /\ Waits(c) => c \in pending

CallInv == SessionInv /\ CallsInTable

\* A sequence of whole frames, of which the last one may be cut.
Frames(s) ==
    \A i \in 1 .. Len(s) :
        /\ s[i][1] = IF i % 2 = 1 THEN "header" ELSE "payload"
        /\ i % 2 = 0 => s[i][2] = s[i - 1][2]
        /\ \A k \in 1 .. i - 1 : s[i] # s[k]

\* A message of the stream was sent by a call or by an answer.
WasSent(m) ==
    \/ m \in Callers /\ caller[m] \in {"waiting", "done"}
    \/ m \in Requests /\ reply[m] \in {"queued", "again", "done"}

AllSent == \A i \in 1 .. Len(Stream) : WasSent(Stream[i][2])

StreamFits ==
    "write" \notin Faults /\ Active =>
        /\ Frames(wire)
        /\ peerOpen => /\ writing # "failed"
                       /\ Frames(Stream)
                       /\ Len(Stream) % 2 = 0
                       /\ AllSent

\* The end of a connection is marked before anything of it is cancelled.
EndedFirst == thread \in {"fail", "cancel"} => ended

StreamInv == SessionInv /\ EndedFirst /\ StreamFits

\* The answers of the requests which the drain waits for.
DrainFits ==
    {"write", "twice", "unsent"} \cap Faults = {} /\ Active /\ peerOpen =>
        /\ \A r \in Requests : reply[r] \in {"queued", "again", "done"} => Holds(Stream, Payload(r))
        /\ drained /\ owner = "waitWrites" => \A r \in covered : reply[r] \in {"again", "done"}
        /\ drained /\ owner = "close" => \A r \in covered : Holds(wire, Payload(r))
-----------------------------------------------------------------------------
(* Types, the line of the peer and the counter.                            *)

\* The names of messages are different.
LEMMA SessionNames ==
    Callers \cap Requests = {} /\ "stray" \notin Callers \cup Requests /\ "junk" \notin Callers \cup Requests
    BY SessionAssumption

\* The steps of the session, one by one.
LEMMA NextActions ==
    ASSUME [Next]_vars
    PROVE  \/ PostRead
           \/ SelectRead
           \/ SelectQueued
           \/ OnWriteCompleted
           \/ SelectStop
           \/ OnReadCompleted
           \/ \E m \in Callers \cup {"stray"} : AnswerCall(m)
           \/ InvalidFrame
           \/ HandlerReturns
           \/ AllReported
           \/ AfterRead
           \/ \E r \in Requests : DispatchRequest(r)
           \/ \E r \in Requests : AnswerError(r)
           \/ FailOnEnd
           \/ CloseOnEnd
           \/ NotifyOnEnd
           \/ CloseHandleNow
           \/ \E c \in Callers : CheckOpen(c)
           \/ \E c \in Callers : InsertRequest(c)
           \/ \E c \in Callers : QueueRequest(c)
           \/ \E c \in Callers : RequestTooLarge(c)
           \/ \E c \in Callers : CallReturns(c)
           \/ \E c \in Callers : CallTimesOut(c)
           \/ \E r \in Requests : TakeRequest(r)
           \/ \E r \in Requests : QueueResponse(r)
           \/ \E r \in Requests : CountResponse(r)
           \/ OwnerBegins
           \/ WaitForIncomingResponses
           \/ WaitForPendingWrites
           \/ Close
           \/ StopMarks
           \/ StopFails
           \/ StopJoins
           \/ StopNotifies
           \/ ReadCompletes
           \/ WriteCompletes
           \/ \E m \in Messages : PeerSends(m) /\ (m \in Callers \cup Requests => m \notin asked)
           \/ PeerLeaves
           \/ UNCHANGED vars
<1>1. Thread =>
        \/ PostRead \/ SelectRead \/ SelectQueued \/ OnWriteCompleted \/ SelectStop \/ OnReadCompleted
        \/ \E m \in Callers \cup {"stray"} : AnswerCall(m)
        \/ InvalidFrame \/ HandlerReturns \/ AllReported \/ AfterRead
        \/ \E r \in Requests : DispatchRequest(r) \/ AnswerError(r)
        \/ FailOnEnd \/ CloseOnEnd \/ NotifyOnEnd \/ CloseHandleNow
    BY DEF Thread, OnAnswer
<1>2. Owner => \/ OwnerBegins \/ WaitForIncomingResponses \/ WaitForPendingWrites \/ Close
               \/ StopMarks \/ StopFails \/ StopJoins \/ StopNotifies
    BY DEF Owner, Stop
<1>3. Peer => \/ \E m \in Messages : PeerSends(m) /\ (m \in Callers \cup Requests => m \notin asked)
              \/ PeerLeaves
  <2>1. "stray" \in Messages /\ "junk" \in Messages /\ Callers \subseteq Messages /\ Requests \subseteq Messages
    BY DEF Messages
  <2>q. QED
    BY <2>1, SessionNames DEF Peer, PeerAnswers, PeerAsks, PeerStrays, PeerBreaks
<1>q. QED
    BY <1>1, <1>2, <1>3 DEF Next, SendRequest, SendResponse, Kernel

\* The write of the next part keeps the types.
LEMMA WriteTypes ==
    ASSUME TypeOK, NEW q \in Seq(Parts), NEW busy \in BOOLEAN, StartNextWrite(q, busy)
    PROVE  /\ sendQueue' \in Seq(Parts) /\ inWrite' \in BOOLEAN
           /\ writing' \in {"none", "posted", "done", "failed"}
<1>1. sendQueue' \in Seq(Parts)
    BY DEF StartNextWrite, IssueWrite
<1>2. inWrite' \in BOOLEAN
    BY DEF StartNextWrite, IssueWrite
<1>3. writing' \in {"none", "posted", "done", "failed"}
    BY DEF TypeOK, StartNextWrite, IssueWrite
<1>q. QED
    BY <1>1, <1>2, <1>3

\* The line begins with what is reported next.
LEMMA LineHead ==
    ASSUME TypeOK, NEW m, Report(m)
    PROVE  Len(Line) > 0 /\ Line[1] = m /\ m \in Messages
    BY DEF TypeOK, Line, Report

\* The requests which are not answered are some of the requests.
LEMMA CountRoom ==
    ASSUME TypeOK, CountFits
    PROVE  /\ IsFiniteSet(Busy) /\ Cardinality(Busy) \in Nat /\ Cardinality(Requests) \in Nat
           /\ inflight \in Nat /\ inflight <= Cardinality(Requests)
           /\ \A r \in Requests : reply[r] = "none" => inflight + 1 <= Cardinality(Requests)
<1>1. IsFiniteSet(Requests) /\ Busy \subseteq Requests /\ inflight \in Nat
    BY SessionAssumption, FS_CardinalityType DEF Busy, TypeOK
<1>2. IsFiniteSet(Busy) /\ Cardinality(Busy) <= Cardinality(Requests)
    BY <1>1, FS_Subset
<1>3. Cardinality(Busy) \in Nat /\ Cardinality(Requests) \in Nat
    BY <1>1, <1>2, FS_CardinalityType
<1>4. ASSUME NEW r \in Requests, reply[r] = "none" PROVE inflight + 1 <= Cardinality(Requests)
  <2>1. r \notin Busy /\ Busy \cup {r} \subseteq Requests
    BY <1>4 DEF Busy
  <2>2. Cardinality(Busy \cup {r}) = Cardinality(Busy) + 1
    BY <1>2, <2>1, FS_AddElement
  <2>3. Cardinality(Busy \cup {r}) <= Cardinality(Requests)
    BY <1>1, <2>1, FS_Subset
  <2>q. QED
    BY <1>1, <1>3, <2>2, <2>3 DEF CountFits
<1>q. QED
    BY <1>1, <1>2, <1>3, <1>4 DEF CountFits

\* Every step keeps the types; the counter has room for a request which is new.
LEMMA TypeStep ==
    ASSUME TypeOK, WriteFits, LineFits, CountFits, [Next]_vars
    PROVE  TypeOK'
<1> USE SessionAssumption
<1>0. TypeOK /\ WriteFits /\ LineFits /\ CountFits
    OBVIOUS
<1>1. ASSUME PostRead PROVE TypeOK'
    BY <1>0, <1>1 DEF PostRead, ThreadGoes, ConnectionEnds, TypeOK, Messages, Parts, Header, Payload,
           threadVars, ioVars, eventVars, callVars, replyVars, ownerVars, closeVars, peerVars
<1>2. ASSUME SelectRead PROVE TypeOK'
    BY <1>0, <1>2 DEF SelectRead, ThreadGoes, TypeOK, Messages, Parts, Header, Payload, threadVars,
           ioVars, eventVars, callVars, replyVars, ownerVars, closeVars, peerVars
<1>3. ASSUME SelectQueued PROVE TypeOK'
  <2>1. UNCHANGED <<thread, after, handling, received, pipe, reading, stopEvent, pending, caller,
                    outcome, incoming, inflight, reply, owner, covered, drained, ended, notified,
                    hasHandler, peerOpen, inbound, asked, wire>>
    BY <1>3 DEF SelectQueued, StartNextWrite, IssueWrite, threadVars, ioVars, eventVars, callVars,
           replyVars, ownerVars, closeVars, peerVars
  <2>2. sendQueue' \in Seq(Parts) /\ inWrite' \in BOOLEAN /\ writing' \in {"none", "posted", "done", "failed"}
    BY <1>0, <1>3, WriteTypes DEF SelectQueued, TypeOK
  <2>3. writeQueued' \in BOOLEAN
    BY <1>3 DEF SelectQueued
  <2>q. QED
    BY <1>0, <2>1, <2>2, <2>3 DEF TypeOK
<1>4. ASSUME OnWriteCompleted PROVE TypeOK'
  <2>1. UNCHANGED <<thread, after, handling, received, pipe, reading, writeQueued, stopEvent,
                    pending, caller, outcome, incoming, inflight, reply, owner, covered, drained,
                    ended, notified, hasHandler, peerOpen, inbound, asked, wire>>
    BY <1>4 DEF OnWriteCompleted, CompleteAndIssue, StartNextWrite, IssueWrite, Released,
                WriteSignalled,
           threadVars, ioVars, eventVars, callVars, replyVars, ownerVars, closeVars, peerVars
  <2>2. Released \in Seq(Parts)
    BY <1>0 DEF Released, TypeOK
  <2>3. sendQueue' \in Seq(Parts) /\ inWrite' \in BOOLEAN /\ writing' \in {"none", "posted", "done", "failed"}
    BY <1>0, <1>4, <2>2, WriteTypes DEF OnWriteCompleted, CompleteAndIssue
  <2>q. QED
    BY <1>0, <2>1, <2>2, <2>3 DEF TypeOK
<1>5. ASSUME SelectStop PROVE TypeOK'
    BY <1>0, <1>5 DEF SelectStop, ThreadGoes, TypeOK, Messages, Parts, Header, Payload, threadVars,
           ioVars, eventVars, callVars, replyVars, ownerVars, closeVars, peerVars
<1>6. ASSUME OnReadCompleted PROVE TypeOK'
  <2>1. UNCHANGED <<handling, pipe, writing, inWrite, writeQueued, stopEvent, sendQueue, pending,
                    caller, outcome, incoming, inflight, reply, owner, covered, drained, notified,
                    hasHandler, peerOpen, asked, wire>>
    BY <1>6 DEF OnReadCompleted, ConnectionEnds, threadVars, ioVars, eventVars, callVars, replyVars,
           ownerVars, closeVars, peerVars
  <2>2. reading' = "none" /\ ended' \in BOOLEAN /\ after' \in {"afterRead", "close"}
        /\ thread' \in {"close", "fail", "report"}
    BY <1>0, <1>6 DEF OnReadCompleted, ConnectionEnds, closeVars, TypeOK
  <2>3. received' \in Seq(Messages) /\ inbound' \in Seq(Messages)
    <3>1. received \in Seq(Messages) /\ inbound \in Seq(Messages)
      BY <1>0 DEF TypeOK
    <3>2. CASE UNCHANGED <<received, inbound>>
      BY <3>1, <3>2
    <3>3. ASSUME NEW n \in 1 .. Len(inbound),
                 received' = received \o SubSeq(inbound, 1, n),
                 inbound' = SubSeq(inbound, n + 1, Len(inbound))
          PROVE  received' \in Seq(Messages) /\ inbound' \in Seq(Messages)
      BY <3>1, <3>3
    <3>q. QED
      BY <1>6, <3>2, <3>3 DEF OnReadCompleted, ConnectionEnds
  <2>q. QED
    BY <1>0, <2>1, <2>2, <2>3 DEF TypeOK
<1>7. ASSUME NEW m \in Callers \cup {"stray"}, AnswerCall(m) PROVE TypeOK'
    BY <1>0, <1>7 DEF AnswerCall, Report, TypeOK, Messages, Parts, Header, Payload, threadVars, ioVars,
           eventVars, callVars, replyVars, ownerVars, closeVars, peerVars
<1>8. ASSUME InvalidFrame PROVE TypeOK'
    BY <1>0, <1>8 DEF InvalidFrame, ConnectionEnds, TypeOK, Messages, Parts, Header, Payload,
           threadVars, ioVars, eventVars, callVars, replyVars, ownerVars, closeVars, peerVars
<1>9. ASSUME HandlerReturns PROVE TypeOK'
    BY <1>0, <1>9 DEF HandlerReturns, TypeOK, Messages, Parts, Header, Payload, threadVars, ioVars,
           eventVars, callVars, replyVars, ownerVars, closeVars, peerVars
<1>10. ASSUME AllReported PROVE TypeOK'
    BY <1>0, <1>10 DEF AllReported, ThreadGoes, TypeOK, Messages, Parts, Header, Payload, threadVars,
           ioVars, eventVars, callVars, replyVars, ownerVars, closeVars, peerVars
<1>11. ASSUME AfterRead PROVE TypeOK'
  <2>1. UNCHANGED <<after, handling, received, pipe, reading, writeQueued, stopEvent, pending,
                    caller, outcome, incoming, inflight, reply, owner, covered, drained, ended,
                    notified, hasHandler, peerOpen, inbound, asked, wire>>
    BY <1>11 DEF AfterRead, StartNextWrite, IssueWrite, ThreadGoes, threadVars, ioVars, eventVars,
           callVars, replyVars, ownerVars, closeVars, peerVars
  <2>2. sendQueue' \in Seq(Parts) /\ inWrite' \in BOOLEAN /\ writing' \in {"none", "posted", "done", "failed"}
    BY <1>0, <1>11, WriteTypes DEF AfterRead, TypeOK
  <2>3. thread' = "post"
    BY <1>11 DEF AfterRead, ThreadGoes
  <2>q. QED
    BY <1>0, <2>1, <2>2, <2>3 DEF TypeOK
<1>12. ASSUME NEW r \in Requests, DispatchRequest(r) PROVE TypeOK'
  <2>1. UNCHANGED <<after, pipe, reading, writing, inWrite, writeQueued, stopEvent, sendQueue,
                    pending, caller, outcome, owner, covered, drained, ended, notified, hasHandler,
                    peerOpen, inbound, asked, wire>>
    BY <1>12 DEF DispatchRequest, Report, threadVars, ioVars, eventVars, callVars, replyVars, ownerVars,
           closeVars, peerVars
  <2>2. reply' \in [Requests -> {"none", "held", "erased", "queued", "again", "done"}]
    BY <1>0, <1>12 DEF DispatchRequest, TypeOK
  <2>3. reply[r] = "none"
    BY <1>0, <1>12, LineHead DEF DispatchRequest, LineFits
  <2>4. inflight' \in 0 .. Cardinality(Requests)
    BY <1>0, <1>12, <2>3, CountRoom DEF DispatchRequest, TypeOK
  <2>5. incoming' \subseteq Requests /\ handling' \subseteq Requests
        /\ (thread' = "handler" \/ UNCHANGED thread)
    BY <1>0, <1>12 DEF DispatchRequest, TypeOK
  <2>6. received' \in Seq(Messages)
    BY <1>0, <1>12 DEF DispatchRequest, Report, TypeOK
  <2>q. QED
    BY <1>0, <2>1, <2>2, <2>3, <2>4, <2>5, <2>6 DEF TypeOK
<1>13. ASSUME NEW r \in Requests, AnswerError(r) PROVE TypeOK'
    BY <1>0, <1>13 DEF AnswerError, ErrorLeaves, Report, QueueWrite, TypeOK, Messages, Parts, Header,
           Payload, threadVars, ioVars, eventVars, callVars, replyVars, ownerVars, closeVars, peerVars
<1>14. ASSUME FailOnEnd PROVE TypeOK'
    BY <1>0, <1>14 DEF FailOnEnd, FailPending, ThreadGoes, TypeOK, Messages, Parts, Header, Payload,
           threadVars, ioVars, eventVars, callVars, replyVars, ownerVars, closeVars, peerVars
<1>15. ASSUME CloseOnEnd PROVE TypeOK'
    BY <1>0, <1>15 DEF CloseOnEnd, CancelIo, ThreadGoes, TypeOK, Messages, Parts, Header, Payload,
           threadVars, ioVars, eventVars, callVars, replyVars, ownerVars, closeVars, peerVars
<1>16. ASSUME NotifyOnEnd PROVE TypeOK'
  <2>1. UNCHANGED <<after, handling, received, pipe, reading, writing, inWrite, writeQueued,
                    stopEvent, sendQueue, pending, caller, outcome, incoming, inflight, reply,
                    owner, covered, drained, ended, peerOpen, inbound, asked, wire>>
    BY <1>16 DEF NotifyOnEnd, NotifyClosed, ThreadGoes, threadVars, ioVars, eventVars, callVars,
                 replyVars,
           ownerVars, closeVars, peerVars
  <2>2. notified' \in Nat
    BY <1>0, <1>16 DEF NotifyOnEnd, NotifyClosed, TypeOK
  <2>3. hasHandler' \in BOOLEAN /\ ended' = ended
    BY <1>16 DEF NotifyOnEnd, NotifyClosed, closeVars
  <2>4. thread' = after
    BY <1>16 DEF NotifyOnEnd, ThreadGoes
  <2>q. QED
    BY <1>0, <2>1, <2>2, <2>3, <2>4 DEF TypeOK
<1>17. ASSUME CloseHandleNow PROVE TypeOK'
    BY <1>0, <1>17 DEF CloseHandleNow, ThreadGoes, TypeOK, Messages, Parts, Header, Payload, threadVars,
           ioVars, eventVars, callVars, replyVars, ownerVars, closeVars, peerVars
<1>18. ASSUME NEW c \in Callers, CheckOpen(c) PROVE TypeOK'
  <2>1. UNCHANGED <<thread, after, handling, received, pipe, reading, writing, inWrite, writeQueued,
                    stopEvent, sendQueue, pending, incoming, inflight, reply, owner, covered,
                    drained, ended, notified, hasHandler, peerOpen, inbound, asked, wire>>
    BY <1>18 DEF CheckOpen, CallUnchanged, threadVars, ioVars, eventVars, callVars, replyVars,
                 ownerVars,
           closeVars, peerVars
  <2>2. caller' \in [Callers -> {"idle", "checked", "inserted", "waiting", "done", "crashed"}]
    BY <1>0, <1>18 DEF CheckOpen, TypeOK
  <2>3. outcome' \in [Callers -> {"none", "answer", "closed", "decode", "aborted", "timeout"}]
    BY <1>0, <1>18 DEF CheckOpen, TypeOK
  <2>q. QED
    BY <1>0, <2>1, <2>2, <2>3 DEF TypeOK
<1>19. ASSUME NEW c \in Callers, InsertRequest(c) PROVE TypeOK'
    BY <1>0, <1>19 DEF InsertRequest, CallUnchanged, TypeOK, Messages, Parts, Header, Payload,
           threadVars, ioVars, eventVars, callVars, replyVars, ownerVars, closeVars, peerVars
<1>20. ASSUME NEW c \in Callers, QueueRequest(c) PROVE TypeOK'
    BY <1>0, <1>20 DEF QueueRequest, CallUnchanged, QueueWrite, TypeOK, Messages, Parts, Header,
           Payload, threadVars, ioVars, eventVars, callVars, replyVars, ownerVars, closeVars, peerVars
<1>21. ASSUME NEW c \in Callers, RequestTooLarge(c) PROVE TypeOK'
  <2>1. UNCHANGED <<thread, after, handling, received, pipe, reading, writing, inWrite, writeQueued,
                    stopEvent, sendQueue, incoming, inflight, reply, owner, covered, drained, ended,
                    notified, hasHandler, peerOpen, inbound, asked, wire>>
    BY <1>21 DEF RequestTooLarge, CallUnchanged, threadVars, ioVars, eventVars, callVars, replyVars,
           ownerVars, closeVars, peerVars
  <2>2. pending' \subseteq Callers
    BY <1>0, <1>21 DEF RequestTooLarge, TypeOK
  <2>3. caller' \in [Callers -> {"idle", "checked", "inserted", "waiting", "done", "crashed"}]
    BY <1>0, <1>21 DEF RequestTooLarge, TypeOK
  <2>4. outcome' \in [Callers -> {"none", "answer", "closed", "decode", "aborted", "timeout"}]
    BY <1>0, <1>21 DEF RequestTooLarge, TypeOK
  <2>q. QED
    BY <1>0, <2>1, <2>2, <2>3, <2>4 DEF TypeOK
<1>22. ASSUME NEW c \in Callers, CallReturns(c) PROVE TypeOK'
    BY <1>0, <1>22 DEF CallReturns, CallUnchanged, TypeOK, Messages, Parts, Header, Payload, threadVars,
           ioVars, eventVars, callVars, replyVars, ownerVars, closeVars, peerVars
<1>23. ASSUME NEW c \in Callers, CallTimesOut(c) PROVE TypeOK'
    BY <1>0, <1>23 DEF CallTimesOut, CallUnchanged, TypeOK, Messages, Parts, Header, Payload,
           threadVars, ioVars, eventVars, callVars, replyVars, ownerVars, closeVars, peerVars
<1>24. ASSUME NEW r \in Requests, TakeRequest(r) PROVE TypeOK'
    BY <1>0, <1>24 DEF TakeRequest, TakeFromTable, ReplyGoes, ReplyUnchanged, TypeOK, Messages, Parts,
           Header, Payload, threadVars, ioVars, eventVars, callVars, replyVars, ownerVars, closeVars,
           peerVars
<1>25. ASSUME NEW r \in Requests, QueueResponse(r) PROVE TypeOK'
  <2>1. UNCHANGED <<thread, after, handling, received, pipe, reading, writing, inWrite, stopEvent,
                    pending, caller, outcome, incoming, inflight, owner, covered, drained, ended,
                    notified, hasHandler, peerOpen, inbound, asked, wire>>
    BY <1>25 DEF QueueResponse, ReplyGoes, ReplyUnchanged, QueueWrite, threadVars, ioVars, eventVars,
           callVars, replyVars, ownerVars, closeVars, peerVars
  <2>2. reply' \in [Requests -> {"none", "held", "erased", "queued", "again", "done"}]
    BY <1>0, <1>25 DEF QueueResponse, ReplyGoes, TypeOK
  <2>3. <<Header(r), Payload(r)>> \in Seq(Parts)
    BY DEF Header, Payload, Parts
  <2>4. sendQueue' \in Seq(Parts) /\ writeQueued' \in BOOLEAN
    <3>1. sendQueue \in Seq(Parts)
      BY <1>0 DEF TypeOK
    <3>2. CASE QueueWrite(r)
      BY <2>3, <3>1, <3>2 DEF QueueWrite
    <3>3. CASE UNCHANGED <<sendQueue, writeQueued>>
      BY <1>0, <3>1, <3>3 DEF TypeOK
    <3>q. QED
      BY <1>25, <3>2, <3>3 DEF QueueResponse
  <2>q. QED
    BY <1>0, <2>1, <2>2, <2>3, <2>4 DEF TypeOK
<1>26. ASSUME NEW r \in Requests, CountResponse(r) PROVE TypeOK'
  <2>1. UNCHANGED <<thread, after, handling, received, pipe, reading, writing, inWrite, writeQueued,
                    stopEvent, sendQueue, pending, caller, outcome, incoming, owner, covered,
                    drained, ended, notified, hasHandler, peerOpen, inbound, asked, wire>>
    BY <1>26 DEF CountResponse, ReplyGoes, ReplyUnchanged, CountsDown, threadVars, ioVars, eventVars,
           callVars, replyVars, ownerVars, closeVars, peerVars
  <2>2. reply' \in [Requests -> {"none", "held", "erased", "queued", "again", "done"}]
    BY <1>0, <1>26 DEF CountResponse, ReplyGoes, TypeOK
  <2>3. inflight' \in 0 .. Cardinality(Requests)
    BY <1>0, <1>26, CountRoom DEF CountResponse, CountsDown, TypeOK
  <2>q. QED
    BY <1>0, <2>1, <2>2, <2>3 DEF TypeOK
<1>27. ASSUME OwnerBegins PROVE TypeOK'
    BY <1>0, <1>27 DEF OwnerBegins, OwnerGoes, OwnerUnchanged, TypeOK, Messages, Parts, Header, Payload,
           threadVars, ioVars, eventVars, callVars, replyVars, ownerVars, closeVars, peerVars
<1>28. ASSUME WaitForIncomingResponses PROVE TypeOK'
    BY <1>0, <1>28 DEF WaitForIncomingResponses, OwnerGoes, OwnerUnchanged, TypeOK, Messages, Parts,
           Header, Payload, threadVars, ioVars, eventVars, callVars, replyVars, ownerVars, closeVars,
           peerVars
<1>29. ASSUME WaitForPendingWrites PROVE TypeOK'
    BY <1>0, <1>29 DEF WaitForPendingWrites, OwnerGoes, OwnerUnchanged, TypeOK, Messages, Parts, Header,
           Payload, threadVars, ioVars, eventVars, callVars, replyVars, ownerVars, closeVars, peerVars
<1>30. ASSUME Close PROVE TypeOK'
    BY <1>0, <1>30 DEF Close, CloseWith, CancelIo, OwnerGoes, OwnerUnchanged, TypeOK, Messages, Parts,
           Header, Payload, threadVars, ioVars, eventVars, callVars, replyVars, ownerVars, closeVars,
           peerVars
<1>31. ASSUME StopMarks PROVE TypeOK'
    BY <1>0, <1>31 DEF StopMarks, OwnerUnchanged, TypeOK, Messages, Parts, Header, Payload, threadVars,
           ioVars, eventVars, callVars, replyVars, ownerVars, closeVars, peerVars
<1>32. ASSUME StopFails PROVE TypeOK'
    BY <1>0, <1>32 DEF StopFails, FailPending, OwnerGoes, OwnerUnchanged, TypeOK, Messages, Parts,
           Header, Payload, threadVars, ioVars, eventVars, callVars, replyVars, ownerVars, closeVars,
           peerVars
<1>33. ASSUME StopJoins PROVE TypeOK'
    BY <1>0, <1>33 DEF StopJoins, OwnerGoes, OwnerUnchanged, TypeOK, Messages, Parts, Header, Payload,
           threadVars, ioVars, eventVars, callVars, replyVars, ownerVars, closeVars, peerVars
<1>34. ASSUME StopNotifies PROVE TypeOK'
  <2>1. UNCHANGED <<thread, after, handling, received, pipe, reading, writing, inWrite, writeQueued,
                    stopEvent, sendQueue, pending, caller, outcome, incoming, inflight, reply,
                    covered, drained, ended, peerOpen, inbound, asked, wire>>
    BY <1>34 DEF StopNotifies, NotifyClosed, OwnerGoes, OwnerUnchanged, threadVars, ioVars, eventVars,
           callVars, replyVars, ownerVars, closeVars, peerVars
  <2>2. notified' \in Nat
    BY <1>0, <1>34 DEF StopNotifies, NotifyClosed, TypeOK
  <2>3. hasHandler' \in BOOLEAN /\ ended' = ended
    BY <1>34 DEF StopNotifies, NotifyClosed, closeVars
  <2>4. owner' = "stopped"
    BY <1>34 DEF StopNotifies, OwnerGoes
  <2>q. QED
    BY <1>0, <2>1, <2>2, <2>3, <2>4 DEF TypeOK
<1>35. ASSUME ReadCompletes PROVE TypeOK'
    BY <1>0, <1>35 DEF ReadCompletes, KernelUnchanged, TypeOK, Messages, Parts, Header, Payload,
           threadVars, ioVars, eventVars, callVars, replyVars, ownerVars, closeVars, peerVars
<1>36. ASSUME WriteCompletes PROVE TypeOK'
  <2>1. UNCHANGED <<thread, after, handling, received, pipe, reading, inWrite, writeQueued,
                    stopEvent, sendQueue, pending, caller, outcome, incoming, inflight, reply,
                    owner, covered, drained, ended, notified, hasHandler, peerOpen, inbound, asked>>
    BY <1>36 DEF WriteCompletes, KernelUnchanged, threadVars, ioVars, eventVars, callVars, replyVars,
           ownerVars, closeVars, peerVars
  <2>2. writing' \in {"done", "failed"}
    BY <1>36 DEF WriteCompletes
  <2>3. wire' \in Seq(Parts)
    <3>1. sendQueue \in Seq(Parts) /\ sendQueue # << >> /\ wire \in Seq(Parts)
      BY <1>0, <1>36 DEF WriteCompletes, WriteFits, TypeOK
    <3>2. Head(sendQueue) \in Parts
      BY <3>1
    <3>q. QED
      BY <1>36, <3>1, <3>2 DEF WriteCompletes
  <2>q. QED
    BY <1>0, <2>1, <2>2, <2>3 DEF TypeOK
<1>37. ASSUME NEW m \in Messages, PeerSends(m), m \in Callers \cup Requests => m \notin asked
       PROVE  TypeOK'
    BY <1>0, <1>37 DEF PeerSends, KernelUnchanged, TypeOK, Messages, Parts, Header, Payload, threadVars,
           ioVars, eventVars, callVars, replyVars, ownerVars, closeVars, peerVars
<1>38. ASSUME PeerLeaves PROVE TypeOK'
  <2>1. UNCHANGED <<thread, after, handling, received, pipe, reading, writing, inWrite, writeQueued,
                    stopEvent, sendQueue, pending, caller, outcome, incoming, inflight, reply,
                    owner, covered, drained, ended, notified, hasHandler, inbound, asked, wire>>
    BY <1>38 DEF PeerLeaves, KernelUnchanged, threadVars, ioVars, eventVars, callVars, replyVars,
           ownerVars, closeVars, peerVars
  <2>2. peerOpen' \in BOOLEAN
    BY <1>38 DEF PeerLeaves
  <2>q. QED
    BY <1>0, <2>1, <2>2 DEF TypeOK
<1>39. ASSUME UNCHANGED vars PROVE TypeOK'
    BY <1>0, <1>39 DEF vars, TypeOK, Messages, Parts, Header, Payload, threadVars, ioVars, eventVars,
           callVars, replyVars, ownerVars, closeVars, peerVars
<1>q. QED
    BY <1>1, <1>2, <1>3, <1>4, <1>5, <1>6, <1>7, <1>8, <1>9, <1>10, <1>11, <1>12, <1>13, <1>14, <1>15,
       <1>16, <1>17, <1>18, <1>19, <1>20, <1>21, <1>22, <1>23, <1>24, <1>25, <1>26, <1>27, <1>28, <1>29,
       <1>30, <1>31, <1>32, <1>33, <1>34, <1>35, <1>36, <1>37, <1>38, <1>39, NextActions

\* A write is in flight as long as its end was not seen.
LEMMA WriteStep ==
    ASSUME TypeOK, WriteFits, [Next]_vars
    PROVE  WriteFits'
<1>0. TypeOK /\ WriteFits
    OBVIOUS
<1>1. ASSUME PostRead PROVE WriteFits'
    BY <1>0, <1>1 DEF PostRead, ThreadGoes, ConnectionEnds, WriteFits, TypeOK, threadVars, ioVars,
           eventVars, callVars, replyVars, ownerVars, closeVars, peerVars
<1>2. ASSUME SelectRead PROVE WriteFits'
    BY <1>0, <1>2 DEF SelectRead, ThreadGoes, WriteFits, TypeOK, threadVars, ioVars, eventVars,
           callVars, replyVars, ownerVars, closeVars, peerVars
<1>3. ASSUME SelectQueued PROVE WriteFits'
    BY <1>0, <1>3 DEF SelectQueued, StartNextWrite, IssueWrite, WriteFits, TypeOK, threadVars, ioVars,
           eventVars, callVars, replyVars, ownerVars, closeVars, peerVars
<1>4. ASSUME OnWriteCompleted PROVE WriteFits'
    BY <1>0, <1>4 DEF OnWriteCompleted, CompleteAndIssue, StartNextWrite, IssueWrite, Released,
           WriteSignalled, WriteFits, TypeOK, threadVars, ioVars, eventVars, callVars, replyVars,
           ownerVars, closeVars, peerVars
<1>5. ASSUME SelectStop PROVE WriteFits'
    BY <1>0, <1>5 DEF SelectStop, ThreadGoes, WriteFits, TypeOK, threadVars, ioVars, eventVars,
           callVars, replyVars, ownerVars, closeVars, peerVars
<1>6. ASSUME OnReadCompleted PROVE WriteFits'
    BY <1>0, <1>6 DEF OnReadCompleted, ConnectionEnds, WriteFits, TypeOK, threadVars, ioVars, eventVars,
           callVars, replyVars, ownerVars, closeVars, peerVars
<1>7. ASSUME NEW m \in Callers \cup {"stray"}, AnswerCall(m) PROVE WriteFits'
    BY <1>0, <1>7 DEF AnswerCall, Report, WriteFits, TypeOK, threadVars, ioVars, eventVars, callVars,
           replyVars, ownerVars, closeVars, peerVars
<1>8. ASSUME InvalidFrame PROVE WriteFits'
    BY <1>0, <1>8 DEF InvalidFrame, ConnectionEnds, WriteFits, TypeOK, threadVars, ioVars, eventVars,
           callVars, replyVars, ownerVars, closeVars, peerVars
<1>9. ASSUME HandlerReturns PROVE WriteFits'
    BY <1>0, <1>9 DEF HandlerReturns, WriteFits, TypeOK, threadVars, ioVars, eventVars, callVars,
           replyVars, ownerVars, closeVars, peerVars
<1>10. ASSUME AllReported PROVE WriteFits'
    BY <1>0, <1>10 DEF AllReported, ThreadGoes, WriteFits, TypeOK, threadVars, ioVars, eventVars,
           callVars, replyVars, ownerVars, closeVars, peerVars
<1>11. ASSUME AfterRead PROVE WriteFits'
    BY <1>0, <1>11 DEF AfterRead, StartNextWrite, IssueWrite, ThreadGoes, WriteFits, TypeOK, threadVars,
           ioVars, eventVars, callVars, replyVars, ownerVars, closeVars, peerVars
<1>12. ASSUME NEW r \in Requests, DispatchRequest(r) PROVE WriteFits'
    BY <1>0, <1>12 DEF DispatchRequest, Report, WriteFits, TypeOK, threadVars, ioVars, eventVars,
           callVars, replyVars, ownerVars, closeVars, peerVars
<1>13. ASSUME NEW r \in Requests, AnswerError(r) PROVE WriteFits'
    BY <1>0, <1>13 DEF AnswerError, ErrorLeaves, Report, QueueWrite, WriteFits, TypeOK, threadVars,
           ioVars, eventVars, callVars, replyVars, ownerVars, closeVars, peerVars
<1>14. ASSUME FailOnEnd PROVE WriteFits'
    BY <1>0, <1>14 DEF FailOnEnd, FailPending, ThreadGoes, WriteFits, TypeOK, threadVars, ioVars,
           eventVars, callVars, replyVars, ownerVars, closeVars, peerVars
<1>15. ASSUME CloseOnEnd PROVE WriteFits'
    BY <1>0, <1>15 DEF CloseOnEnd, CancelIo, ThreadGoes, WriteFits, TypeOK, threadVars, ioVars,
           eventVars, callVars, replyVars, ownerVars, closeVars, peerVars
<1>16. ASSUME NotifyOnEnd PROVE WriteFits'
    BY <1>0, <1>16 DEF NotifyOnEnd, NotifyClosed, ThreadGoes, WriteFits, TypeOK, threadVars, ioVars,
           eventVars, callVars, replyVars, ownerVars, closeVars, peerVars
<1>17. ASSUME CloseHandleNow PROVE WriteFits'
    BY <1>0, <1>17 DEF CloseHandleNow, ThreadGoes, WriteFits, TypeOK, threadVars, ioVars, eventVars,
           callVars, replyVars, ownerVars, closeVars, peerVars
<1>18. ASSUME NEW c \in Callers, CheckOpen(c) PROVE WriteFits'
    BY <1>0, <1>18 DEF CheckOpen, CallUnchanged, WriteFits, TypeOK, threadVars, ioVars, eventVars,
           callVars, replyVars, ownerVars, closeVars, peerVars
<1>19. ASSUME NEW c \in Callers, InsertRequest(c) PROVE WriteFits'
    BY <1>0, <1>19 DEF InsertRequest, CallUnchanged, WriteFits, TypeOK, threadVars, ioVars, eventVars,
           callVars, replyVars, ownerVars, closeVars, peerVars
<1>20. ASSUME NEW c \in Callers, QueueRequest(c) PROVE WriteFits'
    BY <1>0, <1>20 DEF QueueRequest, CallUnchanged, QueueWrite, WriteFits, TypeOK, threadVars, ioVars,
           eventVars, callVars, replyVars, ownerVars, closeVars, peerVars
<1>21. ASSUME NEW c \in Callers, RequestTooLarge(c) PROVE WriteFits'
    BY <1>0, <1>21 DEF RequestTooLarge, CallUnchanged, WriteFits, TypeOK, threadVars, ioVars, eventVars,
           callVars, replyVars, ownerVars, closeVars, peerVars
<1>22. ASSUME NEW c \in Callers, CallReturns(c) PROVE WriteFits'
    BY <1>0, <1>22 DEF CallReturns, CallUnchanged, WriteFits, TypeOK, threadVars, ioVars, eventVars,
           callVars, replyVars, ownerVars, closeVars, peerVars
<1>23. ASSUME NEW c \in Callers, CallTimesOut(c) PROVE WriteFits'
    BY <1>0, <1>23 DEF CallTimesOut, CallUnchanged, WriteFits, TypeOK, threadVars, ioVars, eventVars,
           callVars, replyVars, ownerVars, closeVars, peerVars
<1>24. ASSUME NEW r \in Requests, TakeRequest(r) PROVE WriteFits'
    BY <1>0, <1>24 DEF TakeRequest, TakeFromTable, ReplyGoes, ReplyUnchanged, WriteFits, TypeOK,
           threadVars, ioVars, eventVars, callVars, replyVars, ownerVars, closeVars, peerVars
<1>25. ASSUME NEW r \in Requests, QueueResponse(r) PROVE WriteFits'
    BY <1>0, <1>25 DEF QueueResponse, ReplyGoes, ReplyUnchanged, QueueWrite, WriteFits, TypeOK,
           threadVars, ioVars, eventVars, callVars, replyVars, ownerVars, closeVars, peerVars
<1>26. ASSUME NEW r \in Requests, CountResponse(r) PROVE WriteFits'
    BY <1>0, <1>26 DEF CountResponse, ReplyGoes, ReplyUnchanged, CountsDown, WriteFits, TypeOK,
           threadVars, ioVars, eventVars, callVars, replyVars, ownerVars, closeVars, peerVars
<1>27. ASSUME OwnerBegins PROVE WriteFits'
    BY <1>0, <1>27 DEF OwnerBegins, OwnerGoes, OwnerUnchanged, WriteFits, TypeOK, threadVars, ioVars,
           eventVars, callVars, replyVars, ownerVars, closeVars, peerVars
<1>28. ASSUME WaitForIncomingResponses PROVE WriteFits'
    BY <1>0, <1>28 DEF WaitForIncomingResponses, OwnerGoes, OwnerUnchanged, WriteFits, TypeOK,
           threadVars, ioVars, eventVars, callVars, replyVars, ownerVars, closeVars, peerVars
<1>29. ASSUME WaitForPendingWrites PROVE WriteFits'
    BY <1>0, <1>29 DEF WaitForPendingWrites, OwnerGoes, OwnerUnchanged, WriteFits, TypeOK, threadVars,
           ioVars, eventVars, callVars, replyVars, ownerVars, closeVars, peerVars
<1>30. ASSUME Close PROVE WriteFits'
    BY <1>0, <1>30 DEF Close, CloseWith, CancelIo, OwnerGoes, OwnerUnchanged, WriteFits, TypeOK,
           threadVars, ioVars, eventVars, callVars, replyVars, ownerVars, closeVars, peerVars
<1>31. ASSUME StopMarks PROVE WriteFits'
    BY <1>0, <1>31 DEF StopMarks, OwnerUnchanged, WriteFits, TypeOK, threadVars, ioVars, eventVars,
           callVars, replyVars, ownerVars, closeVars, peerVars
<1>32. ASSUME StopFails PROVE WriteFits'
    BY <1>0, <1>32 DEF StopFails, FailPending, OwnerGoes, OwnerUnchanged, WriteFits, TypeOK, threadVars,
           ioVars, eventVars, callVars, replyVars, ownerVars, closeVars, peerVars
<1>33. ASSUME StopJoins PROVE WriteFits'
    BY <1>0, <1>33 DEF StopJoins, OwnerGoes, OwnerUnchanged, WriteFits, TypeOK, threadVars, ioVars,
           eventVars, callVars, replyVars, ownerVars, closeVars, peerVars
<1>34. ASSUME StopNotifies PROVE WriteFits'
    BY <1>0, <1>34 DEF StopNotifies, NotifyClosed, OwnerGoes, OwnerUnchanged, WriteFits, TypeOK,
           threadVars, ioVars, eventVars, callVars, replyVars, ownerVars, closeVars, peerVars
<1>35. ASSUME ReadCompletes PROVE WriteFits'
    BY <1>0, <1>35 DEF ReadCompletes, KernelUnchanged, WriteFits, TypeOK, threadVars, ioVars, eventVars,
           callVars, replyVars, ownerVars, closeVars, peerVars
<1>36. ASSUME WriteCompletes PROVE WriteFits'
    BY <1>0, <1>36 DEF WriteCompletes, KernelUnchanged, WriteFits, TypeOK, threadVars, ioVars,
           eventVars, callVars, replyVars, ownerVars, closeVars, peerVars
<1>37. ASSUME NEW m \in Messages, PeerSends(m), m \in Callers \cup Requests => m \notin asked
       PROVE  WriteFits'
    BY <1>0, <1>37 DEF PeerSends, KernelUnchanged, WriteFits, TypeOK, threadVars, ioVars, eventVars,
           callVars, replyVars, ownerVars, closeVars, peerVars
<1>38. ASSUME PeerLeaves PROVE WriteFits'
    BY <1>0, <1>38 DEF PeerLeaves, KernelUnchanged, WriteFits, TypeOK, threadVars, ioVars, eventVars,
           callVars, replyVars, ownerVars, closeVars, peerVars
<1>39. ASSUME UNCHANGED vars PROVE WriteFits'
    BY <1>0, <1>39 DEF vars, WriteFits, TypeOK, threadVars, ioVars, eventVars, callVars, replyVars,
           ownerVars, closeVars, peerVars
<1>q. QED
    BY <1>1, <1>2, <1>3, <1>4, <1>5, <1>6, <1>7, <1>8, <1>9, <1>10, <1>11, <1>12, <1>13, <1>14, <1>15,
       <1>16, <1>17, <1>18, <1>19, <1>20, <1>21, <1>22, <1>23, <1>24, <1>25, <1>26, <1>27, <1>28, <1>29,
       <1>30, <1>31, <1>32, <1>33, <1>34, <1>35, <1>36, <1>37, <1>38, <1>39, NextActions

\* The line is what it was, or its first message is handled, and no request of it is.
LEMMA LineKeeps ==
    ASSUME TypeOK, TypeOK', LineFits, NEW k \in {0, 1},
           Len(Line') = Len(Line) - k,
           \A i \in 1 .. Len(Line) - k : Line'[i] = Line[i + k],
           asked' = asked,
           \A r \in Requests : reply'[r] = reply[r] \/ reply[r] # "none" \/ (k = 1 /\ Line[1] = r)
    PROVE  LineFits'
<1>0. Len(Line) \in Nat /\ Len(Line') \in Nat
    BY DEF Line, TypeOK
<1>1. ASSUME NEW i \in 1 .. Len(Line') PROVE Line'[i] \in asked'
    BY <1>0, <1>1 DEF LineFits
<1>2. ASSUME NEW i \in 1 .. Len(Line'), Line'[i] \in Requests
      PROVE  reply'[Line'[i]] = "none"
  <2>1. i + k \in 1 .. Len(Line) /\ Line'[i] = Line[i + k]
    BY <1>0
  <2>2. reply[Line[i + k]] = "none"
    BY <1>2, <2>1 DEF LineFits
  <2>3. k = 1 => Line[i + k] # Line[1]
    <3>1. CASE k = 1 /\ Line[i + k] = Line[1]
      BY <1>0, <1>2, <2>1, <3>1 DEF LineFits
    <3>q. QED
      BY <3>1
  <2>q. QED
    BY <1>2, <2>1, <2>2, <2>3
<1>3. ASSUME NEW i \in 1 .. Len(Line'), Line'[i] \in Requests, NEW j \in 1 .. Len(Line'), Line'[j] = Line'[i]
      PROVE  j = i
  <2>1. i + k \in 1 .. Len(Line) /\ j + k \in 1 .. Len(Line)
        /\ Line'[i] = Line[i + k] /\ Line'[j] = Line[j + k]
    BY <1>0
  <2>2. j + k = i + k
    BY <1>3, <2>1 DEF LineFits
  <2>q. QED
    BY <1>0, <2>2
<1>4. \A r \in Requests : reply'[r] # "none" => r \in asked'
  <2>1. ASSUME k = 1, NEW r \in Requests, Line[1] = r PROVE r \in asked
    BY <1>0, <2>1 DEF LineFits
  <2>q. QED
    BY <2>1 DEF LineFits
<1>q. QED
    BY <1>1, <1>2, <1>3, <1>4 DEF LineFits

LEMMA LineTail ==
    ASSUME TypeOK, TypeOK', LineFits, NEW m \in Messages, Report(m),
           received' = Tail(received), UNCHANGED <<inbound, asked>>,
           \A r \in Requests : r # m => reply'[r] = reply[r]
    PROVE  LineFits'
<1>1. Len(Line') = Len(Line) - 1 /\ \A i \in 1 .. Len(Line) - 1 : Line'[i] = Line[i + 1]
    BY DEF Line, Report, TypeOK
<1>2. Line[1] = m
    BY LineHead
<1>q. QED
    BY <1>1, <1>2, LineKeeps

\* Three sequences in a row.
LEMMA JoinsAgain ==
    ASSUME NEW S, NEW s \in Seq(S), NEW u \in Seq(S), NEW v \in Seq(S)
    PROVE  (s \o u) \o v = s \o (u \o v)
    BY ConcatAssociative

\* A read moves the first messages of the pipe to the end of the buffer.
LEMMA MovesOver ==
    ASSUME NEW S, NEW s \in Seq(S), NEW t \in Seq(S), NEW n \in 1 .. Len(t)
    PROVE  (s \o SubSeq(t, 1, n)) \o SubSeq(t, n + 1, Len(t)) = s \o t
<1>1. SubSeq(t, 1, n) \in Seq(S) /\ SubSeq(t, n + 1, Len(t)) \in Seq(S)
    OBVIOUS
<1>2. SubSeq(t, 1, n) \o SubSeq(t, n + 1, Len(t)) = SubSeq(t, 1, Len(t))
    BY ConcatAdjacentSubSeq
<1>3. SubSeq(t, 1, Len(t)) = t
    BY SubSeqFull
<1>4. SubSeq(t, 1, n) \o SubSeq(t, n + 1, Len(t)) = t
    BY <1>2, <1>3
<1>5. PICK u \in Seq(S), v \in Seq(S) : u = SubSeq(t, 1, n) /\ v = SubSeq(t, n + 1, Len(t))
    BY <1>1
<1>6. u \o v = t
    BY <1>4, <1>5
<1>7. (s \o u) \o v = s \o (u \o v)
    BY JoinsAgain, SMTT(30)
<1>8. (s \o u) \o v = s \o t
    BY <1>6, <1>7, Zenon
<1>q. QED
    BY <1>5, <1>8

LEMMA LineSame ==
    ASSUME TypeOK, TypeOK', LineFits, Line' = Line, UNCHANGED asked,
           \A r \in Requests : reply'[r] = reply[r] \/ reply[r] # "none"
    PROVE  LineFits'
<1>1. Len(Line) \in Nat
    BY DEF Line, TypeOK
<1>q. QED
    BY <1>1, LineKeeps

\* A request of the peer is in the line once, and not handled as long as it is.
LEMMA LineStep ==
    ASSUME TypeOK, TypeOK', LineFits, [Next]_vars
    PROVE  LineFits'
<1> USE SessionAssumption
<1>0. TypeOK /\ TypeOK' /\ LineFits
    OBVIOUS
<1>1. ASSUME PostRead PROVE LineFits'
  <2>1. UNCHANGED <<received, inbound, asked, reply>>
    BY <1>1 DEF PostRead, ThreadGoes, ConnectionEnds, peerVars, threadVars, replyVars
  <2>q. QED
    BY <1>0, <2>1, LineSame DEF Line
<1>2. ASSUME SelectRead PROVE LineFits'
  <2>1. UNCHANGED <<received, inbound, asked, reply>>
    BY <1>2 DEF SelectRead, ThreadGoes, peerVars, threadVars, replyVars
  <2>q. QED
    BY <1>0, <2>1, LineSame DEF Line
<1>3. ASSUME SelectQueued PROVE LineFits'
  <2>1. UNCHANGED <<received, inbound, asked, reply>>
    BY <1>3 DEF SelectQueued, StartNextWrite, IssueWrite, peerVars, threadVars, replyVars
  <2>q. QED
    BY <1>0, <2>1, LineSame DEF Line
<1>4. ASSUME OnWriteCompleted PROVE LineFits'
  <2>1. UNCHANGED <<received, inbound, asked, reply>>
    BY <1>4 DEF OnWriteCompleted, CompleteAndIssue, StartNextWrite, IssueWrite, Released,
                WriteSignalled,
           peerVars, threadVars, replyVars
  <2>q. QED
    BY <1>0, <2>1, LineSame DEF Line
<1>5. ASSUME SelectStop PROVE LineFits'
  <2>1. UNCHANGED <<received, inbound, asked, reply>>
    BY <1>5 DEF SelectStop, ThreadGoes, peerVars, threadVars, replyVars
  <2>q. QED
    BY <1>0, <2>1, LineSame DEF Line
<1>6. ASSUME OnReadCompleted PROVE LineFits'
  <2>1. UNCHANGED <<asked, reply>>
    BY <1>6 DEF OnReadCompleted, replyVars
  <2>2. Line' = Line
    <3>1. CASE UNCHANGED <<received, inbound>>
      BY <3>1 DEF Line
    <3>2. ASSUME NEW n \in 1 .. Len(inbound),
                 received' = received \o SubSeq(inbound, 1, n),
                 inbound' = SubSeq(inbound, n + 1, Len(inbound))
          PROVE  Line' = Line
      <4>1. received \in Seq(Messages) /\ inbound \in Seq(Messages)
        BY <1>0 DEF TypeOK
      <4>2. (received \o SubSeq(inbound, 1, n)) \o SubSeq(inbound, n + 1, Len(inbound))
            = received \o inbound
        BY <4>1, MovesOver
      <4>q. QED
        BY <3>2, <4>2 DEF Line
    <3>q. QED
      BY <1>6, <3>1, <3>2 DEF OnReadCompleted, ConnectionEnds
  <2>q. QED
    BY <1>0, <2>1, <2>2, LineSame
<1>7. ASSUME NEW m \in Callers \cup {"stray"}, AnswerCall(m) PROVE LineFits'
  <2>1. /\ Report(m) /\ received' = Tail(received) /\ UNCHANGED <<inbound, asked>>
        /\ \A q \in Requests : q # m => reply'[q] = reply[q]
    BY <1>0, <1>7 DEF AnswerCall, TypeOK, peerVars, replyVars
  <2>2. m \in Messages
    BY DEF Messages
  <2>q. QED
    BY <1>0, <2>1, <2>2, LineTail
<1>8. ASSUME InvalidFrame PROVE LineFits'
  <2>1. UNCHANGED <<received, inbound, asked, reply>>
    BY <1>8 DEF InvalidFrame, ConnectionEnds, peerVars, threadVars, replyVars
  <2>q. QED
    BY <1>0, <2>1, LineSame DEF Line
<1>9. ASSUME HandlerReturns PROVE LineFits'
  <2>1. UNCHANGED <<received, inbound, asked, reply>>
    BY <1>9 DEF HandlerReturns, peerVars, threadVars, replyVars
  <2>q. QED
    BY <1>0, <2>1, LineSame DEF Line
<1>10. ASSUME AllReported PROVE LineFits'
  <2>1. UNCHANGED <<received, inbound, asked, reply>>
    BY <1>10 DEF AllReported, ThreadGoes, peerVars, threadVars, replyVars
  <2>q. QED
    BY <1>0, <2>1, LineSame DEF Line
<1>11. ASSUME AfterRead PROVE LineFits'
  <2>1. UNCHANGED <<received, inbound, asked, reply>>
    BY <1>11 DEF AfterRead, StartNextWrite, IssueWrite, ThreadGoes, peerVars, threadVars, replyVars
  <2>q. QED
    BY <1>0, <2>1, LineSame DEF Line
<1>12. ASSUME NEW r \in Requests, DispatchRequest(r) PROVE LineFits'
  <2>1. /\ Report(r) /\ received' = Tail(received) /\ UNCHANGED <<inbound, asked>>
        /\ \A q \in Requests : q # r => reply'[q] = reply[q]
    BY <1>0, <1>12 DEF DispatchRequest, TypeOK, peerVars, replyVars
  <2>2. r \in Messages
    BY DEF Messages
  <2>q. QED
    BY <1>0, <2>1, <2>2, LineTail
<1>13. ASSUME NEW r \in Requests, AnswerError(r) PROVE LineFits'
  <2>1. /\ Report(r) /\ received' = Tail(received) /\ UNCHANGED <<inbound, asked>>
        /\ \A q \in Requests : q # r => reply'[q] = reply[q]
    BY <1>0, <1>13 DEF AnswerError, ErrorLeaves, TypeOK, peerVars, replyVars
  <2>2. r \in Messages
    BY DEF Messages
  <2>q. QED
    BY <1>0, <2>1, <2>2, LineTail
<1>14. ASSUME FailOnEnd PROVE LineFits'
  <2>1. UNCHANGED <<received, inbound, asked, reply>>
    BY <1>14 DEF FailOnEnd, FailPending, ThreadGoes, peerVars, threadVars, replyVars
  <2>q. QED
    BY <1>0, <2>1, LineSame DEF Line
<1>15. ASSUME CloseOnEnd PROVE LineFits'
  <2>1. UNCHANGED <<received, inbound, asked, reply>>
    BY <1>15 DEF CloseOnEnd, CancelIo, ThreadGoes, peerVars, threadVars, replyVars
  <2>q. QED
    BY <1>0, <2>1, LineSame DEF Line
<1>16. ASSUME NotifyOnEnd PROVE LineFits'
  <2>1. UNCHANGED <<received, inbound, asked, reply>>
    BY <1>16 DEF NotifyOnEnd, NotifyClosed, ThreadGoes, peerVars, threadVars, replyVars
  <2>q. QED
    BY <1>0, <2>1, LineSame DEF Line
<1>17. ASSUME CloseHandleNow PROVE LineFits'
  <2>1. UNCHANGED <<received, inbound, asked, reply>>
    BY <1>17 DEF CloseHandleNow, ThreadGoes, peerVars, threadVars, replyVars
  <2>q. QED
    BY <1>0, <2>1, LineSame DEF Line
<1>18. ASSUME NEW c \in Callers, CheckOpen(c) PROVE LineFits'
  <2>1. UNCHANGED <<received, inbound, asked, reply>>
    BY <1>18 DEF CheckOpen, CallUnchanged, peerVars, threadVars, replyVars
  <2>q. QED
    BY <1>0, <2>1, LineSame DEF Line
<1>19. ASSUME NEW c \in Callers, InsertRequest(c) PROVE LineFits'
  <2>1. UNCHANGED <<received, inbound, asked, reply>>
    BY <1>19 DEF InsertRequest, CallUnchanged, peerVars, threadVars, replyVars
  <2>q. QED
    BY <1>0, <2>1, LineSame DEF Line
<1>20. ASSUME NEW c \in Callers, QueueRequest(c) PROVE LineFits'
  <2>1. UNCHANGED <<received, inbound, asked, reply>>
    BY <1>20 DEF QueueRequest, CallUnchanged, QueueWrite, peerVars, threadVars, replyVars
  <2>q. QED
    BY <1>0, <2>1, LineSame DEF Line
<1>21. ASSUME NEW c \in Callers, RequestTooLarge(c) PROVE LineFits'
  <2>1. UNCHANGED <<received, inbound, asked, reply>>
    BY <1>21 DEF RequestTooLarge, CallUnchanged, peerVars, threadVars, replyVars
  <2>q. QED
    BY <1>0, <2>1, LineSame DEF Line
<1>22. ASSUME NEW c \in Callers, CallReturns(c) PROVE LineFits'
  <2>1. UNCHANGED <<received, inbound, asked, reply>>
    BY <1>22 DEF CallReturns, CallUnchanged, peerVars, threadVars, replyVars
  <2>q. QED
    BY <1>0, <2>1, LineSame DEF Line
<1>23. ASSUME NEW c \in Callers, CallTimesOut(c) PROVE LineFits'
  <2>1. UNCHANGED <<received, inbound, asked, reply>>
    BY <1>23 DEF CallTimesOut, CallUnchanged, peerVars, threadVars, replyVars
  <2>q. QED
    BY <1>0, <2>1, LineSame DEF Line
<1>24. ASSUME NEW r \in Requests, TakeRequest(r) PROVE LineFits'
  <2>1. UNCHANGED <<received, inbound,
                    asked>> /\ \A q \in Requests : reply'[q] = reply[q] \/ reply[q] # "none"
    BY <1>0, <1>24 DEF TakeRequest, TakeFromTable, ReplyGoes, ReplyUnchanged, TypeOK, peerVars,
                       threadVars
  <2>q. QED
    BY <1>0, <2>1, LineSame DEF Line
<1>25. ASSUME NEW r \in Requests, QueueResponse(r) PROVE LineFits'
  <2>1. UNCHANGED <<received, inbound,
                    asked>> /\ \A q \in Requests : reply'[q] = reply[q] \/ reply[q] # "none"
    BY <1>0, <1>25 DEF QueueResponse, ReplyGoes, ReplyUnchanged, TypeOK, peerVars, threadVars
  <2>q. QED
    BY <1>0, <2>1, LineSame DEF Line
<1>26. ASSUME NEW r \in Requests, CountResponse(r) PROVE LineFits'
  <2>1. UNCHANGED <<received, inbound,
                    asked>> /\ \A q \in Requests : reply'[q] = reply[q] \/ reply[q] # "none"
    BY <1>0, <1>26 DEF CountResponse, ReplyGoes, ReplyUnchanged, TypeOK, peerVars, threadVars
  <2>q. QED
    BY <1>0, <2>1, LineSame DEF Line
<1>27. ASSUME OwnerBegins PROVE LineFits'
  <2>1. UNCHANGED <<received, inbound, asked, reply>>
    BY <1>27 DEF OwnerBegins, OwnerGoes, OwnerUnchanged, peerVars, threadVars, replyVars
  <2>q. QED
    BY <1>0, <2>1, LineSame DEF Line
<1>28. ASSUME WaitForIncomingResponses PROVE LineFits'
  <2>1. UNCHANGED <<received, inbound, asked, reply>>
    BY <1>28 DEF WaitForIncomingResponses, OwnerGoes, OwnerUnchanged, peerVars, threadVars, replyVars
  <2>q. QED
    BY <1>0, <2>1, LineSame DEF Line
<1>29. ASSUME WaitForPendingWrites PROVE LineFits'
  <2>1. UNCHANGED <<received, inbound, asked, reply>>
    BY <1>29 DEF WaitForPendingWrites, OwnerGoes, OwnerUnchanged, peerVars, threadVars, replyVars
  <2>q. QED
    BY <1>0, <2>1, LineSame DEF Line
<1>30. ASSUME Close PROVE LineFits'
  <2>1. UNCHANGED <<received, inbound, asked, reply>>
    BY <1>30 DEF Close, CloseWith, CancelIo, OwnerGoes, OwnerUnchanged, peerVars, threadVars, replyVars
  <2>q. QED
    BY <1>0, <2>1, LineSame DEF Line
<1>31. ASSUME StopMarks PROVE LineFits'
  <2>1. UNCHANGED <<received, inbound, asked, reply>>
    BY <1>31 DEF StopMarks, OwnerUnchanged, peerVars, threadVars, replyVars
  <2>q. QED
    BY <1>0, <2>1, LineSame DEF Line
<1>32. ASSUME StopFails PROVE LineFits'
  <2>1. UNCHANGED <<received, inbound, asked, reply>>
    BY <1>32 DEF StopFails, FailPending, OwnerGoes, OwnerUnchanged, peerVars, threadVars, replyVars
  <2>q. QED
    BY <1>0, <2>1, LineSame DEF Line
<1>33. ASSUME StopJoins PROVE LineFits'
  <2>1. UNCHANGED <<received, inbound, asked, reply>>
    BY <1>33 DEF StopJoins, OwnerGoes, OwnerUnchanged, peerVars, threadVars, replyVars
  <2>q. QED
    BY <1>0, <2>1, LineSame DEF Line
<1>34. ASSUME StopNotifies PROVE LineFits'
  <2>1. UNCHANGED <<received, inbound, asked, reply>>
    BY <1>34 DEF StopNotifies, NotifyClosed, OwnerGoes, OwnerUnchanged, peerVars, threadVars, replyVars
  <2>q. QED
    BY <1>0, <2>1, LineSame DEF Line
<1>35. ASSUME ReadCompletes PROVE LineFits'
  <2>1. UNCHANGED <<received, inbound, asked, reply>>
    BY <1>35 DEF ReadCompletes, KernelUnchanged, peerVars, threadVars, replyVars
  <2>q. QED
    BY <1>0, <2>1, LineSame DEF Line
<1>36. ASSUME WriteCompletes PROVE LineFits'
  <2>1. UNCHANGED <<received, inbound, asked, reply>>
    BY <1>36 DEF WriteCompletes, KernelUnchanged, peerVars, threadVars, replyVars
  <2>q. QED
    BY <1>0, <2>1, LineSame DEF Line
<1>37. ASSUME NEW m \in Messages, PeerSends(m), m \in Callers \cup Requests => m \notin asked
       PROVE  LineFits'
  <2>1. UNCHANGED <<received, reply>> /\ inbound' = Append(inbound, m) /\ asked' = asked \cup {m}
    BY <1>37 DEF PeerSends, KernelUnchanged, threadVars, replyVars
  <2>2. received \in Seq(Messages) /\ inbound \in Seq(Messages) /\ inbound' \in Seq(Messages)
    BY <1>0 DEF TypeOK
  <2>3. Len(Line) \in Nat /\ Len(Line') = Len(Line) + 1
        /\ Line'[Len(Line) + 1] = m /\ \A i \in 1 .. Len(Line) : Line'[i] = Line[i]
    BY <2>1, <2>2 DEF Line
  <2>4. \A i \in 1 .. Len(Line) : Line[i] = m /\ m \in Requests => FALSE
    BY <1>0, <1>37 DEF LineFits
  <2>5. m \in Requests => reply[m] = "none"
    BY <1>0, <1>37 DEF LineFits
  <2>6. \A i \in 1 .. Len(Line') : i = Len(Line) + 1 \/ i \in 1 .. Len(Line)
    BY <2>3
  <2>7. \A i \in 1 .. Len(Line') : Line'[i] \in asked'
    BY <1>0, <2>1, <2>3, <2>6 DEF LineFits
  <2>8. \A i \in 1 .. Len(Line') : Line'[i] \in Requests => reply'[Line'[i]] = "none"
    BY <1>0, <2>1, <2>3, <2>5, <2>6 DEF LineFits
  <2>9. \A i, j \in 1 .. Len(Line') : Line'[i] \in Requests /\ Line'[j] = Line'[i] => j = i
    BY <1>0, <2>3, <2>4, <2>6 DEF LineFits
  <2>10. \A r \in Requests : reply'[r] # "none" => r \in asked'
    BY <1>0, <2>1 DEF LineFits
  <2>q. QED
    BY <2>7, <2>8, <2>9, <2>10 DEF LineFits
<1>38. ASSUME PeerLeaves PROVE LineFits'
  <2>1. UNCHANGED <<received, inbound, asked, reply>>
    BY <1>38 DEF PeerLeaves, KernelUnchanged, peerVars, threadVars, replyVars
  <2>q. QED
    BY <1>0, <2>1, LineSame DEF Line
<1>39. ASSUME UNCHANGED vars PROVE LineFits'
  <2>1. UNCHANGED <<received, inbound, asked, reply>>
    BY <1>39 DEF vars, peerVars, threadVars, replyVars
  <2>q. QED
    BY <1>0, <2>1, LineSame DEF Line
<1>q. QED
    BY <1>1, <1>2, <1>3, <1>4, <1>5, <1>6, <1>7, <1>8, <1>9, <1>10, <1>11, <1>12, <1>13, <1>14, <1>15,
       <1>16, <1>17, <1>18, <1>19, <1>20, <1>21, <1>22, <1>23, <1>24, <1>25, <1>26, <1>27, <1>28, <1>29,
       <1>30, <1>31, <1>32, <1>33, <1>34, <1>35, <1>36, <1>37, <1>38, <1>39, NextActions

LEMMA CountSame ==
    ASSUME CountFits, Busy' = Busy, inflight' = inflight
    PROVE  CountFits'
    BY DEF CountFits

\* The counter of the requests which are not answered, whatever the handlers do.
LEMMA CountStep ==
    ASSUME TypeOK, LineFits, CountFits, AgainIsTwice, [Next]_vars
    PROVE  CountFits'
<1> USE SessionAssumption
<1>0. TypeOK /\ LineFits /\ CountFits /\ AgainIsTwice
    OBVIOUS
<1>1. ASSUME PostRead PROVE CountFits'
  <2>1. UNCHANGED <<reply, inflight>>
    BY <1>1 DEF PostRead, ThreadGoes, ConnectionEnds, replyVars
  <2>q. QED
    BY <1>0, <2>1, CountSame DEF Busy
<1>2. ASSUME SelectRead PROVE CountFits'
  <2>1. UNCHANGED <<reply, inflight>>
    BY <1>2 DEF SelectRead, ThreadGoes, replyVars
  <2>q. QED
    BY <1>0, <2>1, CountSame DEF Busy
<1>3. ASSUME SelectQueued PROVE CountFits'
  <2>1. UNCHANGED <<reply, inflight>>
    BY <1>3 DEF SelectQueued, StartNextWrite, IssueWrite, replyVars
  <2>q. QED
    BY <1>0, <2>1, CountSame DEF Busy
<1>4. ASSUME OnWriteCompleted PROVE CountFits'
  <2>1. UNCHANGED <<reply, inflight>>
    BY <1>4 DEF OnWriteCompleted, CompleteAndIssue, StartNextWrite, IssueWrite, Released,
                WriteSignalled,
           replyVars
  <2>q. QED
    BY <1>0, <2>1, CountSame DEF Busy
<1>5. ASSUME SelectStop PROVE CountFits'
  <2>1. UNCHANGED <<reply, inflight>>
    BY <1>5 DEF SelectStop, ThreadGoes, replyVars
  <2>q. QED
    BY <1>0, <2>1, CountSame DEF Busy
<1>6. ASSUME OnReadCompleted PROVE CountFits'
  <2>1. UNCHANGED <<reply, inflight>>
    BY <1>6 DEF OnReadCompleted, ConnectionEnds, replyVars
  <2>q. QED
    BY <1>0, <2>1, CountSame DEF Busy
<1>7. ASSUME NEW m \in Callers \cup {"stray"}, AnswerCall(m) PROVE CountFits'
  <2>1. UNCHANGED <<reply, inflight>>
    BY <1>7 DEF AnswerCall, Report, replyVars
  <2>q. QED
    BY <1>0, <2>1, CountSame DEF Busy
<1>8. ASSUME InvalidFrame PROVE CountFits'
  <2>1. UNCHANGED <<reply, inflight>>
    BY <1>8 DEF InvalidFrame, ConnectionEnds, replyVars
  <2>q. QED
    BY <1>0, <2>1, CountSame DEF Busy
<1>9. ASSUME HandlerReturns PROVE CountFits'
  <2>1. UNCHANGED <<reply, inflight>>
    BY <1>9 DEF HandlerReturns, replyVars
  <2>q. QED
    BY <1>0, <2>1, CountSame DEF Busy
<1>10. ASSUME AllReported PROVE CountFits'
  <2>1. UNCHANGED <<reply, inflight>>
    BY <1>10 DEF AllReported, ThreadGoes, replyVars
  <2>q. QED
    BY <1>0, <2>1, CountSame DEF Busy
<1>11. ASSUME AfterRead PROVE CountFits'
  <2>1. UNCHANGED <<reply, inflight>>
    BY <1>11 DEF AfterRead, StartNextWrite, IssueWrite, ThreadGoes, replyVars
  <2>q. QED
    BY <1>0, <2>1, CountSame DEF Busy
<1>12. ASSUME NEW r \in Requests, DispatchRequest(r) PROVE CountFits'
  <2>1. reply[r] = "none"
    BY <1>0, <1>12, LineHead DEF DispatchRequest, LineFits
  <2>2. r \notin Busy /\ Busy' = Busy \cup {r} /\ inflight' = inflight + 1
    BY <1>0, <1>12, <2>1 DEF DispatchRequest, Busy, TypeOK
  <2>3. Cardinality(Busy') = Cardinality(Busy) + 1
    BY <1>0, <2>2, CountRoom, FS_AddElement
  <2>q. QED
    BY <1>0, <2>2, <2>3, CountRoom DEF CountFits
<1>13. ASSUME NEW r \in Requests, AnswerError(r) PROVE CountFits'
  <2>0. reply[r] = "none"
    BY <1>0, <1>13, LineHead DEF AnswerError, ErrorLeaves, LineFits
  <2>1. Busy' = Busy /\ inflight' = inflight
    BY <1>0, <1>13, <2>0 DEF AnswerError, ErrorLeaves, Busy, TypeOK
  <2>q. QED
    BY <1>0, <2>1, CountSame
<1>14. ASSUME FailOnEnd PROVE CountFits'
  <2>1. UNCHANGED <<reply, inflight>>
    BY <1>14 DEF FailOnEnd, FailPending, ThreadGoes, replyVars
  <2>q. QED
    BY <1>0, <2>1, CountSame DEF Busy
<1>15. ASSUME CloseOnEnd PROVE CountFits'
  <2>1. UNCHANGED <<reply, inflight>>
    BY <1>15 DEF CloseOnEnd, CancelIo, ThreadGoes, replyVars
  <2>q. QED
    BY <1>0, <2>1, CountSame DEF Busy
<1>16. ASSUME NotifyOnEnd PROVE CountFits'
  <2>1. UNCHANGED <<reply, inflight>>
    BY <1>16 DEF NotifyOnEnd, NotifyClosed, ThreadGoes, replyVars
  <2>q. QED
    BY <1>0, <2>1, CountSame DEF Busy
<1>17. ASSUME CloseHandleNow PROVE CountFits'
  <2>1. UNCHANGED <<reply, inflight>>
    BY <1>17 DEF CloseHandleNow, ThreadGoes, replyVars
  <2>q. QED
    BY <1>0, <2>1, CountSame DEF Busy
<1>18. ASSUME NEW c \in Callers, CheckOpen(c) PROVE CountFits'
  <2>1. UNCHANGED <<reply, inflight>>
    BY <1>18 DEF CheckOpen, CallUnchanged, replyVars
  <2>q. QED
    BY <1>0, <2>1, CountSame DEF Busy
<1>19. ASSUME NEW c \in Callers, InsertRequest(c) PROVE CountFits'
  <2>1. UNCHANGED <<reply, inflight>>
    BY <1>19 DEF InsertRequest, CallUnchanged, replyVars
  <2>q. QED
    BY <1>0, <2>1, CountSame DEF Busy
<1>20. ASSUME NEW c \in Callers, QueueRequest(c) PROVE CountFits'
  <2>1. UNCHANGED <<reply, inflight>>
    BY <1>20 DEF QueueRequest, CallUnchanged, QueueWrite, replyVars
  <2>q. QED
    BY <1>0, <2>1, CountSame DEF Busy
<1>21. ASSUME NEW c \in Callers, RequestTooLarge(c) PROVE CountFits'
  <2>1. UNCHANGED <<reply, inflight>>
    BY <1>21 DEF RequestTooLarge, CallUnchanged, replyVars
  <2>q. QED
    BY <1>0, <2>1, CountSame DEF Busy
<1>22. ASSUME NEW c \in Callers, CallReturns(c) PROVE CountFits'
  <2>1. UNCHANGED <<reply, inflight>>
    BY <1>22 DEF CallReturns, CallUnchanged, replyVars
  <2>q. QED
    BY <1>0, <2>1, CountSame DEF Busy
<1>23. ASSUME NEW c \in Callers, CallTimesOut(c) PROVE CountFits'
  <2>1. UNCHANGED <<reply, inflight>>
    BY <1>23 DEF CallTimesOut, CallUnchanged, replyVars
  <2>q. QED
    BY <1>0, <2>1, CountSame DEF Busy
<1>24. ASSUME NEW r \in Requests, TakeRequest(r) PROVE CountFits'
  <2>1. Busy' = Busy /\ inflight' = inflight
    BY <1>0, <1>24 DEF TakeRequest, TakeFromTable, ReplyGoes, ReplyUnchanged, Busy, TypeOK
  <2>q. QED
    BY <1>0, <2>1, CountSame
<1>25. ASSUME NEW r \in Requests, QueueResponse(r) PROVE CountFits'
  <2>1. Busy' = Busy /\ inflight' = inflight
    BY <1>0, <1>25 DEF QueueResponse, ReplyGoes, ReplyUnchanged, Busy, TypeOK
  <2>q. QED
    BY <1>0, <2>1, CountSame
<1>26. ASSUME NEW r \in Requests, CountResponse(r) PROVE CountFits'
  <2>1. inflight' = IF inflight > 0 THEN inflight - 1 ELSE 0
    BY <1>26 DEF CountResponse, CountsDown
  <2>2. CASE ReplyGoes(r, "queued", "again") \/ ReplyGoes(r, "queued", "done")
    <3>1. r \in Busy /\ Busy' = Busy \ {r}
      BY <1>0, <2>2 DEF ReplyGoes, Busy, TypeOK
    <3>2. Cardinality(Busy') = Cardinality(Busy) - 1
      BY <1>0, <3>1, CountRoom, FS_RemoveElement
    <3>3. Cardinality(Busy) > 0
      BY <1>0, <3>1, CountRoom, FS_EmptySet
    <3>q. QED
      BY <1>0, <2>1, <3>2, <3>3, CountRoom DEF CountFits
  <2>3. CASE ReplyGoes(r, "again", "done")
    <3>1. Busy' = Busy
      BY <1>0, <2>3 DEF ReplyGoes, Busy, TypeOK
    <3>2. "twice" \in Faults
      BY <1>0, <2>3 DEF ReplyGoes, AgainIsTwice
    <3>q. QED
      BY <1>0, <2>1, <3>1, <3>2, CountRoom DEF CountFits
  <2>q. QED
    BY <1>26, <2>2, <2>3 DEF CountResponse
<1>27. ASSUME OwnerBegins PROVE CountFits'
  <2>1. UNCHANGED <<reply, inflight>>
    BY <1>27 DEF OwnerBegins, OwnerGoes, OwnerUnchanged, replyVars
  <2>q. QED
    BY <1>0, <2>1, CountSame DEF Busy
<1>28. ASSUME WaitForIncomingResponses PROVE CountFits'
  <2>1. UNCHANGED <<reply, inflight>>
    BY <1>28 DEF WaitForIncomingResponses, OwnerGoes, OwnerUnchanged, replyVars
  <2>q. QED
    BY <1>0, <2>1, CountSame DEF Busy
<1>29. ASSUME WaitForPendingWrites PROVE CountFits'
  <2>1. UNCHANGED <<reply, inflight>>
    BY <1>29 DEF WaitForPendingWrites, OwnerGoes, OwnerUnchanged, replyVars
  <2>q. QED
    BY <1>0, <2>1, CountSame DEF Busy
<1>30. ASSUME Close PROVE CountFits'
  <2>1. UNCHANGED <<reply, inflight>>
    BY <1>30 DEF Close, CloseWith, CancelIo, OwnerGoes, OwnerUnchanged, replyVars
  <2>q. QED
    BY <1>0, <2>1, CountSame DEF Busy
<1>31. ASSUME StopMarks PROVE CountFits'
  <2>1. UNCHANGED <<reply, inflight>>
    BY <1>31 DEF StopMarks, OwnerUnchanged, replyVars
  <2>q. QED
    BY <1>0, <2>1, CountSame DEF Busy
<1>32. ASSUME StopFails PROVE CountFits'
  <2>1. UNCHANGED <<reply, inflight>>
    BY <1>32 DEF StopFails, FailPending, OwnerGoes, OwnerUnchanged, replyVars
  <2>q. QED
    BY <1>0, <2>1, CountSame DEF Busy
<1>33. ASSUME StopJoins PROVE CountFits'
  <2>1. UNCHANGED <<reply, inflight>>
    BY <1>33 DEF StopJoins, OwnerGoes, OwnerUnchanged, replyVars
  <2>q. QED
    BY <1>0, <2>1, CountSame DEF Busy
<1>34. ASSUME StopNotifies PROVE CountFits'
  <2>1. UNCHANGED <<reply, inflight>>
    BY <1>34 DEF StopNotifies, NotifyClosed, OwnerGoes, OwnerUnchanged, replyVars
  <2>q. QED
    BY <1>0, <2>1, CountSame DEF Busy
<1>35. ASSUME ReadCompletes PROVE CountFits'
  <2>1. UNCHANGED <<reply, inflight>>
    BY <1>35 DEF ReadCompletes, KernelUnchanged, replyVars
  <2>q. QED
    BY <1>0, <2>1, CountSame DEF Busy
<1>36. ASSUME WriteCompletes PROVE CountFits'
  <2>1. UNCHANGED <<reply, inflight>>
    BY <1>36 DEF WriteCompletes, KernelUnchanged, replyVars
  <2>q. QED
    BY <1>0, <2>1, CountSame DEF Busy
<1>37. ASSUME NEW m \in Messages, PeerSends(m), m \in Callers \cup Requests => m \notin asked
       PROVE  CountFits'
  <2>1. UNCHANGED <<reply, inflight>>
    BY <1>37 DEF PeerSends, KernelUnchanged, replyVars
  <2>q. QED
    BY <1>0, <2>1, CountSame DEF Busy
<1>38. ASSUME PeerLeaves PROVE CountFits'
  <2>1. UNCHANGED <<reply, inflight>>
    BY <1>38 DEF PeerLeaves, KernelUnchanged, replyVars
  <2>q. QED
    BY <1>0, <2>1, CountSame DEF Busy
<1>39. ASSUME UNCHANGED vars PROVE CountFits'
  <2>1. UNCHANGED <<reply, inflight>>
    BY <1>39 DEF vars, replyVars
  <2>q. QED
    BY <1>0, <2>1, CountSame DEF Busy
<1>q. QED
    BY <1>1, <1>2, <1>3, <1>4, <1>5, <1>6, <1>7, <1>8, <1>9, <1>10, <1>11, <1>12, <1>13, <1>14, <1>15,
       <1>16, <1>17, <1>18, <1>19, <1>20, <1>21, <1>22, <1>23, <1>24, <1>25, <1>26, <1>27, <1>28, <1>29,
       <1>30, <1>31, <1>32, <1>33, <1>34, <1>35, <1>36, <1>37, <1>38, <1>39, NextActions

\* Only a handler which answers twice answers a request again.
LEMMA AgainStep ==
    ASSUME TypeOK, AgainIsTwice, [Next]_vars
    PROVE  AgainIsTwice'
<1>0. TypeOK /\ AgainIsTwice
    OBVIOUS
<1>1. ASSUME PostRead PROVE AgainIsTwice'
    BY <1>0, <1>1 DEF PostRead, ThreadGoes, ConnectionEnds, TypeOK, AgainIsTwice, replyVars
<1>2. ASSUME SelectRead PROVE AgainIsTwice'
    BY <1>0, <1>2 DEF SelectRead, ThreadGoes, TypeOK, AgainIsTwice, replyVars
<1>3. ASSUME SelectQueued PROVE AgainIsTwice'
    BY <1>0, <1>3 DEF SelectQueued, StartNextWrite, IssueWrite, TypeOK, AgainIsTwice, replyVars
<1>4. ASSUME OnWriteCompleted PROVE AgainIsTwice'
    BY <1>0, <1>4 DEF OnWriteCompleted, CompleteAndIssue, StartNextWrite, IssueWrite, Released,
           WriteSignalled, TypeOK, AgainIsTwice, replyVars
<1>5. ASSUME SelectStop PROVE AgainIsTwice'
    BY <1>0, <1>5 DEF SelectStop, ThreadGoes, TypeOK, AgainIsTwice, replyVars
<1>6. ASSUME OnReadCompleted PROVE AgainIsTwice'
    BY <1>0, <1>6 DEF OnReadCompleted, ConnectionEnds, TypeOK, AgainIsTwice, replyVars
<1>7. ASSUME NEW m \in Callers \cup {"stray"}, AnswerCall(m) PROVE AgainIsTwice'
    BY <1>0, <1>7 DEF AnswerCall, TypeOK, AgainIsTwice, replyVars
<1>8. ASSUME InvalidFrame PROVE AgainIsTwice'
    BY <1>0, <1>8 DEF InvalidFrame, ConnectionEnds, TypeOK, AgainIsTwice, replyVars
<1>9. ASSUME HandlerReturns PROVE AgainIsTwice'
    BY <1>0, <1>9 DEF HandlerReturns, TypeOK, AgainIsTwice, replyVars
<1>10. ASSUME AllReported PROVE AgainIsTwice'
    BY <1>0, <1>10 DEF AllReported, ThreadGoes, TypeOK, AgainIsTwice, replyVars
<1>11. ASSUME AfterRead PROVE AgainIsTwice'
    BY <1>0, <1>11 DEF AfterRead, StartNextWrite, IssueWrite, ThreadGoes, TypeOK, AgainIsTwice,
                       replyVars
<1>12. ASSUME NEW r \in Requests, DispatchRequest(r) PROVE AgainIsTwice'
    BY <1>0, <1>12 DEF DispatchRequest, TypeOK, AgainIsTwice, replyVars
<1>13. ASSUME NEW r \in Requests, AnswerError(r) PROVE AgainIsTwice'
    BY <1>0, <1>13 DEF AnswerError, ErrorLeaves, TypeOK, AgainIsTwice, replyVars
<1>14. ASSUME FailOnEnd PROVE AgainIsTwice'
    BY <1>0, <1>14 DEF FailOnEnd, FailPending, ThreadGoes, TypeOK, AgainIsTwice, replyVars
<1>15. ASSUME CloseOnEnd PROVE AgainIsTwice'
    BY <1>0, <1>15 DEF CloseOnEnd, CancelIo, ThreadGoes, TypeOK, AgainIsTwice, replyVars
<1>16. ASSUME NotifyOnEnd PROVE AgainIsTwice'
    BY <1>0, <1>16 DEF NotifyOnEnd, NotifyClosed, ThreadGoes, TypeOK, AgainIsTwice, replyVars
<1>17. ASSUME CloseHandleNow PROVE AgainIsTwice'
    BY <1>0, <1>17 DEF CloseHandleNow, ThreadGoes, TypeOK, AgainIsTwice, replyVars
<1>18. ASSUME NEW c \in Callers, CheckOpen(c) PROVE AgainIsTwice'
    BY <1>0, <1>18 DEF CheckOpen, CallUnchanged, TypeOK, AgainIsTwice, replyVars
<1>19. ASSUME NEW c \in Callers, InsertRequest(c) PROVE AgainIsTwice'
    BY <1>0, <1>19 DEF InsertRequest, CallUnchanged, TypeOK, AgainIsTwice, replyVars
<1>20. ASSUME NEW c \in Callers, QueueRequest(c) PROVE AgainIsTwice'
    BY <1>0, <1>20 DEF QueueRequest, CallUnchanged, TypeOK, AgainIsTwice, replyVars
<1>21. ASSUME NEW c \in Callers, RequestTooLarge(c) PROVE AgainIsTwice'
    BY <1>0, <1>21 DEF RequestTooLarge, CallUnchanged, TypeOK, AgainIsTwice, replyVars
<1>22. ASSUME NEW c \in Callers, CallReturns(c) PROVE AgainIsTwice'
    BY <1>0, <1>22 DEF CallReturns, CallUnchanged, TypeOK, AgainIsTwice, replyVars
<1>23. ASSUME NEW c \in Callers, CallTimesOut(c) PROVE AgainIsTwice'
    BY <1>0, <1>23 DEF CallTimesOut, CallUnchanged, TypeOK, AgainIsTwice, replyVars
<1>24. ASSUME NEW r \in Requests, TakeRequest(r) PROVE AgainIsTwice'
    BY <1>0, <1>24 DEF TakeRequest, TakeFromTable, ReplyGoes, ReplyUnchanged, TypeOK, AgainIsTwice,
           replyVars
<1>25. ASSUME NEW r \in Requests, QueueResponse(r) PROVE AgainIsTwice'
    BY <1>0, <1>25 DEF QueueResponse, ReplyGoes, ReplyUnchanged, TypeOK, AgainIsTwice, replyVars
<1>26. ASSUME NEW r \in Requests, CountResponse(r) PROVE AgainIsTwice'
    BY <1>0, <1>26 DEF CountResponse, ReplyGoes, ReplyUnchanged, CountsDown, TypeOK, AgainIsTwice,
           replyVars
<1>27. ASSUME OwnerBegins PROVE AgainIsTwice'
    BY <1>0, <1>27 DEF OwnerBegins, OwnerGoes, OwnerUnchanged, TypeOK, AgainIsTwice, replyVars
<1>28. ASSUME WaitForIncomingResponses PROVE AgainIsTwice'
    BY <1>0, <1>28 DEF WaitForIncomingResponses, OwnerGoes, OwnerUnchanged, TypeOK, AgainIsTwice,
                       replyVars
<1>29. ASSUME WaitForPendingWrites PROVE AgainIsTwice'
    BY <1>0, <1>29 DEF WaitForPendingWrites, OwnerGoes, OwnerUnchanged, TypeOK, AgainIsTwice, replyVars
<1>30. ASSUME Close PROVE AgainIsTwice'
    BY <1>0, <1>30 DEF Close, CloseWith, CancelIo, OwnerGoes, OwnerUnchanged, TypeOK, AgainIsTwice,
           replyVars
<1>31. ASSUME StopMarks PROVE AgainIsTwice'
    BY <1>0, <1>31 DEF StopMarks, OwnerUnchanged, TypeOK, AgainIsTwice, replyVars
<1>32. ASSUME StopFails PROVE AgainIsTwice'
    BY <1>0, <1>32 DEF StopFails, FailPending, OwnerGoes, OwnerUnchanged, TypeOK, AgainIsTwice,
                       replyVars
<1>33. ASSUME StopJoins PROVE AgainIsTwice'
    BY <1>0, <1>33 DEF StopJoins, OwnerGoes, OwnerUnchanged, TypeOK, AgainIsTwice, replyVars
<1>34. ASSUME StopNotifies PROVE AgainIsTwice'
    BY <1>0, <1>34 DEF StopNotifies, NotifyClosed, OwnerGoes, OwnerUnchanged, TypeOK, AgainIsTwice,
           replyVars
<1>35. ASSUME ReadCompletes PROVE AgainIsTwice'
    BY <1>0, <1>35 DEF ReadCompletes, KernelUnchanged, TypeOK, AgainIsTwice, replyVars
<1>36. ASSUME WriteCompletes PROVE AgainIsTwice'
    BY <1>0, <1>36 DEF WriteCompletes, KernelUnchanged, TypeOK, AgainIsTwice, replyVars
<1>37. ASSUME NEW m \in Messages, PeerSends(m), m \in Callers \cup Requests => m \notin asked
       PROVE  AgainIsTwice'
    BY <1>0, <1>37 DEF PeerSends, KernelUnchanged, TypeOK, AgainIsTwice, replyVars
<1>38. ASSUME PeerLeaves PROVE AgainIsTwice'
    BY <1>0, <1>38 DEF PeerLeaves, KernelUnchanged, TypeOK, AgainIsTwice, replyVars
<1>39. ASSUME UNCHANGED vars PROVE AgainIsTwice'
    BY <1>0, <1>39 DEF vars, AgainIsTwice, TypeOK, threadVars, ioVars, eventVars, callVars, replyVars,
           ownerVars, closeVars, peerVars
<1>q. QED
    BY <1>1, <1>2, <1>3, <1>4, <1>5, <1>6, <1>7, <1>8, <1>9, <1>10, <1>11, <1>12, <1>13, <1>14, <1>15,
       <1>16, <1>17, <1>18, <1>19, <1>20, <1>21, <1>22, <1>23, <1>24, <1>25, <1>26, <1>27, <1>28, <1>29,
       <1>30, <1>31, <1>32, <1>33, <1>34, <1>35, <1>36, <1>37, <1>38, <1>39, NextActions

\* The session holds its types, its line and its counter at any time.
LEMMA SessionInit ==
    ASSUME Init
    PROVE  SessionInv
<1> USE SessionAssumption
<1>1. Line = << >> /\ Busy = {}
    BY DEF Init, Line, Busy
<1>2. Cardinality(Requests) \in Nat /\ Cardinality(Busy) = 0
    BY <1>1, FS_CardinalityType, FS_EmptySet
<1>3. TypeOK
  <2>1. /\ received \in Seq(Messages) /\ inbound \in Seq(Messages)
        /\ sendQueue \in Seq(Parts) /\ wire \in Seq(Parts)
    BY DEF Init
  <2>2. /\ caller \in [Callers -> {"idle", "checked", "inserted", "waiting", "done", "crashed"}]
        /\ outcome \in [Callers -> {"none", "answer", "closed", "decode", "aborted", "timeout"}]
    BY DEF Init
  <2>3. reply \in [Requests -> {"none", "held", "erased", "queued", "again", "done"}]
    BY DEF Init
  <2>4. inflight \in 0 .. Cardinality(Requests)
    BY <1>2 DEF Init
  <2>q. QED
    BY <2>1, <2>2, <2>3, <2>4 DEF Init, TypeOK
<1>4. WriteFits /\ AgainIsTwice
    BY DEF Init, WriteFits, AgainIsTwice
<1>5. LineFits
    BY <1>1 DEF Init, LineFits
<1>6. CountFits
    BY <1>2 DEF Init, CountFits
<1>q. QED
    BY <1>3, <1>4, <1>5, <1>6 DEF SessionInv

LEMMA SessionStep ==
    ASSUME SessionInv, [Next]_vars
    PROVE  SessionInv'
<1>1. TypeOK'
    BY TypeStep DEF SessionInv
<1>2. WriteFits' /\ AgainIsTwice' /\ CountFits'
    BY WriteStep, AgainStep, CountStep DEF SessionInv
<1>3. LineFits'
    BY <1>1, LineStep DEF SessionInv
<1>q. QED
    BY <1>1, <1>2, <1>3 DEF SessionInv

\* TypeOK: the session has its types; the counter of the requests stays in its range.
THEOREM SessionTypes == Spec => []TypeOK
<1>1. Spec => []SessionInv
    BY SessionInit, SessionStep, PTL DEF Spec
<1>2. SessionInv => TypeOK
    BY DEF SessionInv
<1>q. QED
    BY <1>1, <1>2, PTL
-----------------------------------------------------------------------------
(* The calls and the closed handler.                                       *)

\* A call of the table is answered by its answer or by the end of the connection.
LEMMA CallStep ==
    ASSUME TypeOK, LineFits, CallsInTable, [Next]_vars
    PROVE  CallsInTable'
<1> USE SessionAssumption
<1>0. TypeOK /\ LineFits /\ CallsInTable
    OBVIOUS
<1>1. ASSUME PostRead PROVE CallsInTable'
    BY <1>0, <1>1 DEF PostRead, ThreadGoes, ConnectionEnds, CallsInTable, Waits, TypeOK, threadVars,
                      ioVars,
           eventVars, callVars, replyVars, ownerVars, closeVars, peerVars
<1>2. ASSUME SelectRead PROVE CallsInTable'
    BY <1>0, <1>2 DEF SelectRead, ThreadGoes, CallsInTable, Waits, TypeOK, threadVars, ioVars,
                      eventVars,
           callVars, replyVars, ownerVars, closeVars, peerVars
<1>3. ASSUME SelectQueued PROVE CallsInTable'
    BY <1>0, <1>3 DEF SelectQueued, StartNextWrite, IssueWrite, CallsInTable, Waits, TypeOK, threadVars,
           ioVars, eventVars, callVars, replyVars, ownerVars, closeVars, peerVars
<1>4. ASSUME OnWriteCompleted PROVE CallsInTable'
    BY <1>0, <1>4 DEF OnWriteCompleted, CompleteAndIssue, StartNextWrite, IssueWrite, Released,
           WriteSignalled, CallsInTable, Waits, TypeOK, threadVars, ioVars, eventVars, callVars, replyVars,
           ownerVars, closeVars, peerVars
<1>5. ASSUME SelectStop PROVE CallsInTable'
    BY <1>0, <1>5 DEF SelectStop, ThreadGoes, CallsInTable, Waits, TypeOK, threadVars, ioVars,
                      eventVars,
           callVars, replyVars, ownerVars, closeVars, peerVars
<1>6. ASSUME OnReadCompleted PROVE CallsInTable'
    BY <1>0, <1>6 DEF OnReadCompleted, ConnectionEnds, CallsInTable, Waits, TypeOK, threadVars, ioVars,
           eventVars, callVars, replyVars, ownerVars, closeVars, peerVars
<1>7. ASSUME NEW m \in Callers \cup {"stray"}, AnswerCall(m) PROVE CallsInTable'
  <2>1. m \in asked
    BY <1>0, <1>7, LineHead DEF AnswerCall, LineFits
  <2>q. QED
    BY <1>0, <1>7, <2>1 DEF AnswerCall, CallsInTable, Waits, TypeOK, peerVars
<1>8. ASSUME InvalidFrame PROVE CallsInTable'
    BY <1>0, <1>8 DEF InvalidFrame, ConnectionEnds, CallsInTable, Waits, TypeOK, threadVars, ioVars,
                      eventVars,
           callVars, replyVars, ownerVars, closeVars, peerVars
<1>9. ASSUME HandlerReturns PROVE CallsInTable'
    BY <1>0, <1>9 DEF HandlerReturns, CallsInTable, Waits, TypeOK, threadVars, ioVars, eventVars,
                      callVars,
           replyVars, ownerVars, closeVars, peerVars
<1>10. ASSUME AllReported PROVE CallsInTable'
    BY <1>0, <1>10 DEF AllReported, ThreadGoes, CallsInTable, Waits, TypeOK, threadVars, ioVars,
                       eventVars,
           callVars, replyVars, ownerVars, closeVars, peerVars
<1>11. ASSUME AfterRead PROVE CallsInTable'
    BY <1>0, <1>11 DEF AfterRead, StartNextWrite, IssueWrite, ThreadGoes, CallsInTable, Waits, TypeOK,
           threadVars, ioVars, eventVars, callVars, replyVars, ownerVars, closeVars, peerVars
<1>12. ASSUME NEW r \in Requests, DispatchRequest(r) PROVE CallsInTable'
    BY <1>0, <1>12 DEF DispatchRequest, Report, CallsInTable, Waits, TypeOK, threadVars, ioVars,
                       eventVars,
           callVars, replyVars, ownerVars, closeVars, peerVars
<1>13. ASSUME NEW r \in Requests, AnswerError(r) PROVE CallsInTable'
    BY <1>0, <1>13 DEF AnswerError, ErrorLeaves, Report, QueueWrite, CallsInTable, Waits, TypeOK,
                       threadVars,
           ioVars, eventVars, callVars, replyVars, ownerVars, closeVars, peerVars
<1>14. ASSUME FailOnEnd PROVE CallsInTable'
    BY <1>0, <1>14 DEF FailOnEnd, FailPending, ThreadGoes, CallsInTable, Waits, TypeOK, threadVars,
                       ioVars,
           eventVars, callVars, replyVars, ownerVars, closeVars, peerVars
<1>15. ASSUME CloseOnEnd PROVE CallsInTable'
    BY <1>0, <1>15 DEF CloseOnEnd, CancelIo, ThreadGoes, CallsInTable, Waits, TypeOK, threadVars,
                       ioVars,
           eventVars, callVars, replyVars, ownerVars, closeVars, peerVars
<1>16. ASSUME NotifyOnEnd PROVE CallsInTable'
    BY <1>0, <1>16 DEF NotifyOnEnd, OwnerUnchanged, CallsInTable, Waits, TypeOK, threadVars, ioVars,
                       eventVars,
           callVars, replyVars, ownerVars, closeVars, peerVars
<1>17. ASSUME CloseHandleNow PROVE CallsInTable'
    BY <1>0, <1>17 DEF CloseHandleNow, ThreadGoes, CallsInTable, Waits, TypeOK, threadVars, ioVars,
                       eventVars,
           callVars, replyVars, ownerVars, closeVars, peerVars
<1>18. ASSUME NEW c \in Callers, CheckOpen(c) PROVE CallsInTable'
    BY <1>0, <1>18 DEF CheckOpen, CallUnchanged, CallsInTable, Waits, TypeOK, threadVars, ioVars,
                       eventVars,
           callVars, replyVars, ownerVars, closeVars, peerVars
<1>19. ASSUME NEW c \in Callers, InsertRequest(c) PROVE CallsInTable'
    BY <1>0, <1>19 DEF InsertRequest, CallUnchanged, CallsInTable, Waits, TypeOK, threadVars, ioVars,
           eventVars, callVars, replyVars, ownerVars, closeVars, peerVars
<1>20. ASSUME NEW c \in Callers, QueueRequest(c) PROVE CallsInTable'
    BY <1>0, <1>20 DEF QueueRequest, CallUnchanged, QueueWrite, CallsInTable, Waits, TypeOK, threadVars,
           ioVars, eventVars, callVars, replyVars, ownerVars, closeVars, peerVars
<1>21. ASSUME NEW c \in Callers, RequestTooLarge(c) PROVE CallsInTable'
    BY <1>0, <1>21 DEF RequestTooLarge, CallUnchanged, CallsInTable, Waits, TypeOK, threadVars, ioVars,
           eventVars, callVars, replyVars, ownerVars, closeVars, peerVars
<1>22. ASSUME NEW c \in Callers, CallReturns(c) PROVE CallsInTable'
    BY <1>0, <1>22 DEF CallReturns, CallUnchanged, CallsInTable, Waits, TypeOK, threadVars, ioVars,
                       eventVars,
           callVars, replyVars, ownerVars, closeVars, peerVars
<1>23. ASSUME NEW c \in Callers, CallTimesOut(c) PROVE CallsInTable'
    BY <1>0, <1>23 DEF CallTimesOut, CallUnchanged, CallsInTable, Waits, TypeOK, threadVars, ioVars,
                       eventVars,
           callVars, replyVars, ownerVars, closeVars, peerVars
<1>24. ASSUME NEW r \in Requests, TakeRequest(r) PROVE CallsInTable'
    BY <1>0, <1>24 DEF TakeRequest, TakeFromTable, ReplyGoes, ReplyUnchanged, CallsInTable, Waits,
                       TypeOK,
           threadVars, ioVars, eventVars, callVars, replyVars, ownerVars, closeVars, peerVars
<1>25. ASSUME NEW r \in Requests, QueueResponse(r) PROVE CallsInTable'
    BY <1>0, <1>25 DEF QueueResponse, ReplyGoes, ReplyUnchanged, QueueWrite, CallsInTable, Waits,
                       TypeOK,
           threadVars, ioVars, eventVars, callVars, replyVars, ownerVars, closeVars, peerVars
<1>26. ASSUME NEW r \in Requests, CountResponse(r) PROVE CallsInTable'
    BY <1>0, <1>26 DEF CountResponse, ReplyGoes, ReplyUnchanged, CountsDown, CallsInTable, Waits,
                       TypeOK,
           threadVars, ioVars, eventVars, callVars, replyVars, ownerVars, closeVars, peerVars
<1>27. ASSUME OwnerBegins PROVE CallsInTable'
    BY <1>0, <1>27 DEF OwnerBegins, OwnerGoes, OwnerUnchanged, CallsInTable, Waits, TypeOK, threadVars,
                       ioVars,
           eventVars, callVars, replyVars, ownerVars, closeVars, peerVars
<1>28. ASSUME WaitForIncomingResponses PROVE CallsInTable'
    BY <1>0, <1>28 DEF WaitForIncomingResponses, OwnerGoes, OwnerUnchanged, CallsInTable, Waits, TypeOK,
           threadVars, ioVars, eventVars, callVars, replyVars, ownerVars, closeVars, peerVars
<1>29. ASSUME WaitForPendingWrites PROVE CallsInTable'
    BY <1>0, <1>29 DEF WaitForPendingWrites, OwnerGoes, OwnerUnchanged, CallsInTable, Waits, TypeOK,
           threadVars, ioVars, eventVars, callVars, replyVars, ownerVars, closeVars, peerVars
<1>30. ASSUME Close PROVE CallsInTable'
    BY <1>0, <1>30 DEF Close, CloseWith, CancelIo, OwnerGoes, OwnerUnchanged, CallsInTable, Waits,
                       TypeOK,
           threadVars, ioVars, eventVars, callVars, replyVars, ownerVars, closeVars, peerVars
<1>31. ASSUME StopMarks PROVE CallsInTable'
    BY <1>0, <1>31 DEF StopMarks, OwnerUnchanged, CallsInTable, Waits, TypeOK, threadVars, ioVars,
                       eventVars,
           callVars, replyVars, ownerVars, closeVars, peerVars
<1>32. ASSUME StopFails PROVE CallsInTable'
    BY <1>0, <1>32 DEF StopFails, FailPending, OwnerGoes, OwnerUnchanged, CallsInTable, Waits, TypeOK,
           threadVars, ioVars, eventVars, callVars, replyVars, ownerVars, closeVars, peerVars
<1>33. ASSUME StopJoins PROVE CallsInTable'
    BY <1>0, <1>33 DEF StopJoins, OwnerGoes, OwnerUnchanged, CallsInTable, Waits, TypeOK, threadVars,
                       ioVars,
           eventVars, callVars, replyVars, ownerVars, closeVars, peerVars
<1>34. ASSUME StopNotifies PROVE CallsInTable'
    BY <1>0, <1>34 DEF StopNotifies, OwnerUnchanged, CallsInTable, Waits, TypeOK, threadVars, ioVars,
                       eventVars,
           callVars, replyVars, ownerVars, closeVars, peerVars
<1>35. ASSUME ReadCompletes PROVE CallsInTable'
    BY <1>0, <1>35 DEF ReadCompletes, KernelUnchanged, CallsInTable, Waits, TypeOK, threadVars, ioVars,
           eventVars, callVars, replyVars, ownerVars, closeVars, peerVars
<1>36. ASSUME WriteCompletes PROVE CallsInTable'
    BY <1>0, <1>36 DEF WriteCompletes, KernelUnchanged, CallsInTable, Waits, TypeOK, threadVars, ioVars,
           eventVars, callVars, replyVars, ownerVars, closeVars, peerVars
<1>37. ASSUME NEW m \in Messages, PeerSends(m), m \in Callers \cup Requests => m \notin asked
       PROVE  CallsInTable'
    BY <1>0, <1>37 DEF PeerSends, KernelUnchanged, CallsInTable, Waits, TypeOK, threadVars, ioVars,
                       eventVars,
           callVars, replyVars, ownerVars, closeVars, peerVars
<1>38. ASSUME PeerLeaves PROVE CallsInTable'
    BY <1>0, <1>38 DEF PeerLeaves, KernelUnchanged, CallsInTable, Waits, TypeOK, threadVars, ioVars,
                       eventVars,
           callVars, replyVars, ownerVars, closeVars, peerVars
<1>39. ASSUME UNCHANGED vars PROVE CallsInTable'
    BY <1>0, <1>39 DEF vars, CallsInTable, Waits, TypeOK, threadVars, ioVars, eventVars, callVars,
                       replyVars,
           ownerVars, closeVars, peerVars
<1>q. QED
    BY <1>1, <1>2, <1>3, <1>4, <1>5, <1>6, <1>7, <1>8, <1>9, <1>10, <1>11, <1>12, <1>13, <1>14, <1>15,
       <1>16, <1>17, <1>18, <1>19, <1>20, <1>21, <1>22, <1>23, <1>24, <1>25, <1>26, <1>27, <1>28, <1>29,
       <1>30, <1>31, <1>32, <1>33, <1>34, <1>35, <1>36, <1>37, <1>38, <1>39, NextActions

\* A step which touches no call, and after which the table has not been emptied newly.
LEMMA LeavesCalls ==
    ASSUME Emptied' => Emptied, UNCHANGED <<caller, outcome>>
    PROVE  ReleasesCallers
    BY DEF ReleasesCallers, MayWait, Waits

\* Only the two ends of a connection empty the table, and each releases what is in it.
LEMMA ReleaseStep ==
    ASSUME TypeOK, CallsInTable, [Next]_vars
    PROVE  ReleasesCallers
<1>0. TypeOK /\ CallsInTable
    OBVIOUS
<1>1. ASSUME PostRead PROVE ReleasesCallers
  <2>1. Emptied' => Emptied
    BY <1>1 DEF Emptied, PostRead, ThreadGoes, ConnectionEnds, threadVars, ioVars, eventVars, callVars,
                replyVars, ownerVars, closeVars, peerVars
  <2>2. UNCHANGED <<caller, outcome>>
    BY <1>1 DEF PostRead, ThreadGoes, ConnectionEnds, threadVars, ioVars, eventVars, callVars,
                replyVars, ownerVars, closeVars, peerVars
  <2>q. QED
    BY <2>1, <2>2, LeavesCalls
<1>2. ASSUME SelectRead PROVE ReleasesCallers
  <2>1. Emptied' => Emptied
    BY <1>2 DEF Emptied, SelectRead, ThreadGoes, threadVars, ioVars, eventVars, callVars, replyVars,
                ownerVars, closeVars, peerVars
  <2>2. UNCHANGED <<caller, outcome>>
    BY <1>2 DEF SelectRead, ThreadGoes, threadVars, ioVars, eventVars, callVars, replyVars, ownerVars,
                closeVars, peerVars
  <2>q. QED
    BY <2>1, <2>2, LeavesCalls
<1>3. ASSUME SelectQueued PROVE ReleasesCallers
  <2>1. Emptied' => Emptied
    BY <1>3 DEF Emptied, SelectQueued, StartNextWrite, IssueWrite, threadVars, ioVars, eventVars,
                callVars, replyVars, ownerVars, closeVars, peerVars
  <2>2. UNCHANGED <<caller, outcome>>
    BY <1>3 DEF SelectQueued, StartNextWrite, IssueWrite, threadVars, ioVars, eventVars, callVars,
                replyVars, ownerVars, closeVars, peerVars
  <2>q. QED
    BY <2>1, <2>2, LeavesCalls
<1>4. ASSUME OnWriteCompleted PROVE ReleasesCallers
  <2>1. Emptied' => Emptied
    BY <1>4 DEF Emptied, OnWriteCompleted, CompleteAndIssue, StartNextWrite, IssueWrite, Released,
                WriteSignalled, threadVars, ioVars, eventVars, callVars, replyVars, ownerVars,
                closeVars, peerVars
  <2>2. UNCHANGED <<caller, outcome>>
    BY <1>4 DEF OnWriteCompleted, CompleteAndIssue, StartNextWrite, IssueWrite, Released,
                WriteSignalled, threadVars, ioVars, eventVars, callVars, replyVars, ownerVars,
                closeVars, peerVars
  <2>q. QED
    BY <2>1, <2>2, LeavesCalls
<1>5. ASSUME SelectStop PROVE ReleasesCallers
  <2>1. Emptied' => Emptied
    BY <1>5 DEF Emptied, SelectStop, ThreadGoes, threadVars, ioVars, eventVars, callVars, replyVars,
                ownerVars, closeVars, peerVars
  <2>2. UNCHANGED <<caller, outcome>>
    BY <1>5 DEF SelectStop, ThreadGoes, threadVars, ioVars, eventVars, callVars, replyVars, ownerVars,
                closeVars, peerVars
  <2>q. QED
    BY <2>1, <2>2, LeavesCalls
<1>6. ASSUME OnReadCompleted PROVE ReleasesCallers
  <2>1. Emptied' => Emptied
    BY <1>6 DEF Emptied, OnReadCompleted, ConnectionEnds, threadVars, ioVars, eventVars, callVars,
                replyVars, ownerVars, closeVars, peerVars
  <2>2. UNCHANGED <<caller, outcome>>
    BY <1>6 DEF OnReadCompleted, ConnectionEnds, threadVars, ioVars, eventVars, callVars, replyVars,
                ownerVars, closeVars, peerVars
  <2>q. QED
    BY <2>1, <2>2, LeavesCalls
<1>7. ASSUME NEW m \in Callers \cup {"stray"}, AnswerCall(m) PROVE ReleasesCallers
  <2>1. Emptied' => Emptied
    BY <1>7 DEF Emptied, AnswerCall, Report, ioVars, eventVars, replyVars, ownerVars, closeVars,
                peerVars
  <2>2. ASSUME Emptied, NEW d \in Callers, MayWait(d)' PROVE MayWait(d)
    BY <1>0, <1>7, <2>2 DEF Emptied, MayWait, Waits, TypeOK, AnswerCall, Report, ioVars, eventVars,
                            replyVars, ownerVars, closeVars, peerVars
  <2>q. QED
    BY <2>1, <2>2 DEF ReleasesCallers
<1>8. ASSUME InvalidFrame PROVE ReleasesCallers
  <2>1. Emptied' => Emptied
    BY <1>8 DEF Emptied, InvalidFrame, Report, ConnectionEnds, threadVars, ioVars, eventVars, callVars,
                replyVars, ownerVars, closeVars, peerVars
  <2>2. UNCHANGED <<caller, outcome>>
    BY <1>8 DEF InvalidFrame, ConnectionEnds, threadVars, ioVars, eventVars, callVars, replyVars,
                ownerVars, closeVars, peerVars
  <2>q. QED
    BY <2>1, <2>2, LeavesCalls
<1>9. ASSUME HandlerReturns PROVE ReleasesCallers
  <2>1. Emptied' => Emptied
    BY <1>9 DEF Emptied, HandlerReturns, threadVars, ioVars, eventVars, callVars, replyVars, ownerVars,
                closeVars, peerVars
  <2>2. UNCHANGED <<caller, outcome>>
    BY <1>9 DEF HandlerReturns, threadVars, ioVars, eventVars, callVars, replyVars, ownerVars,
                closeVars, peerVars
  <2>q. QED
    BY <2>1, <2>2, LeavesCalls
<1>10. ASSUME AllReported PROVE ReleasesCallers
  <2>1. Emptied' => Emptied
    BY <1>10 DEF Emptied, AllReported, ThreadGoes, threadVars, ioVars, eventVars, callVars, replyVars,
                 ownerVars, closeVars, peerVars
  <2>2. UNCHANGED <<caller, outcome>>
    BY <1>10 DEF AllReported, ThreadGoes, threadVars, ioVars, eventVars, callVars, replyVars, ownerVars,
                 closeVars, peerVars
  <2>q. QED
    BY <2>1, <2>2, LeavesCalls
<1>11. ASSUME AfterRead PROVE ReleasesCallers
  <2>1. Emptied' => Emptied
    BY <1>11 DEF Emptied, AfterRead, StartNextWrite, IssueWrite, ThreadGoes, threadVars, ioVars,
                 eventVars, callVars, replyVars, ownerVars, closeVars, peerVars
  <2>2. UNCHANGED <<caller, outcome>>
    BY <1>11 DEF AfterRead, StartNextWrite, IssueWrite, ThreadGoes, threadVars, ioVars, eventVars,
                 callVars, replyVars, ownerVars, closeVars, peerVars
  <2>q. QED
    BY <2>1, <2>2, LeavesCalls
<1>12. ASSUME NEW r \in Requests, DispatchRequest(r) PROVE ReleasesCallers
  <2>1. Emptied' => Emptied
    BY <1>12 DEF Emptied, DispatchRequest, Report, threadVars, ioVars, eventVars, callVars, replyVars,
                 ownerVars, closeVars, peerVars
  <2>2. UNCHANGED <<caller, outcome>>
    BY <1>12 DEF DispatchRequest, Report, threadVars, ioVars, eventVars, callVars, replyVars, ownerVars,
                 closeVars, peerVars
  <2>q. QED
    BY <2>1, <2>2, LeavesCalls
<1>13. ASSUME NEW r \in Requests, AnswerError(r) PROVE ReleasesCallers
  <2>1. Emptied' => Emptied
    BY <1>13 DEF Emptied, AnswerError, ErrorLeaves, Report, QueueWrite, threadVars, ioVars, eventVars,
                 callVars, replyVars, ownerVars, closeVars, peerVars
  <2>2. UNCHANGED <<caller, outcome>>
    BY <1>13 DEF AnswerError, ErrorLeaves, Report, QueueWrite, threadVars, ioVars, eventVars, callVars,
                 replyVars, ownerVars, closeVars, peerVars
  <2>q. QED
    BY <2>1, <2>2, LeavesCalls
<1>14. ASSUME FailOnEnd PROVE ReleasesCallers
    BY <1>0, <1>14 DEF ReleasesCallers, Emptied, MayWait, Waits, CallsInTable, TypeOK, FailOnEnd,
                       FailPending, ThreadGoes, threadVars, ioVars, eventVars, callVars, replyVars,
                       ownerVars, closeVars, peerVars
<1>15. ASSUME CloseOnEnd PROVE ReleasesCallers
  <2>1. Emptied' => Emptied
    BY <1>15 DEF Emptied, CloseOnEnd, CancelIo, ThreadGoes, threadVars, ioVars, eventVars, callVars,
                 replyVars, ownerVars, closeVars, peerVars
  <2>2. UNCHANGED <<caller, outcome>>
    BY <1>15 DEF CloseOnEnd, CancelIo, ThreadGoes, threadVars, ioVars, eventVars, callVars, replyVars,
                 ownerVars, closeVars, peerVars
  <2>q. QED
    BY <2>1, <2>2, LeavesCalls
<1>16. ASSUME NotifyOnEnd PROVE ReleasesCallers
  <2>1. Emptied' => Emptied
    BY <1>16 DEF Emptied, NotifyOnEnd, NotifyClosed, ThreadGoes, threadVars, ioVars, eventVars,
                 callVars,
                 replyVars, ownerVars, closeVars, peerVars
  <2>2. UNCHANGED <<caller, outcome>>
    BY <1>16 DEF NotifyOnEnd, OwnerUnchanged, threadVars, ioVars, eventVars, callVars, replyVars,
                 ownerVars, closeVars, peerVars
  <2>q. QED
    BY <2>1, <2>2, LeavesCalls
<1>17. ASSUME CloseHandleNow PROVE ReleasesCallers
  <2>1. Emptied' => Emptied
    BY <1>17 DEF Emptied, CloseHandleNow, ThreadGoes, threadVars, ioVars, eventVars, callVars,
                 replyVars, ownerVars, closeVars, peerVars
  <2>2. UNCHANGED <<caller, outcome>>
    BY <1>17 DEF CloseHandleNow, ThreadGoes, threadVars, ioVars, eventVars, callVars, replyVars,
                 ownerVars, closeVars, peerVars
  <2>q. QED
    BY <2>1, <2>2, LeavesCalls
<1>18. ASSUME NEW c \in Callers, CheckOpen(c) PROVE ReleasesCallers
  <2>1. Emptied' => Emptied
    BY <1>18 DEF Emptied, CheckOpen, CallUnchanged, threadVars, ioVars, eventVars, callVars, replyVars,
                 ownerVars, closeVars, peerVars
  <2>2. ASSUME Emptied, NEW d \in Callers, MayWait(d)' PROVE MayWait(d)
    BY <1>0, <1>18, <2>2 DEF Emptied, MayWait, Waits, TypeOK, CheckOpen, CallUnchanged, threadVars,
                             ioVars, eventVars, callVars, replyVars, ownerVars, closeVars, peerVars
  <2>q. QED
    BY <2>1, <2>2 DEF ReleasesCallers
<1>19. ASSUME NEW c \in Callers, InsertRequest(c) PROVE ReleasesCallers
  <2>1. Emptied' => Emptied
    BY <1>19 DEF Emptied, InsertRequest, CallUnchanged, threadVars, ioVars, eventVars, callVars,
                 replyVars, ownerVars, closeVars, peerVars
  <2>2. ASSUME Emptied, NEW d \in Callers, MayWait(d)' PROVE MayWait(d)
    BY <1>0, <1>19, <2>2 DEF Emptied, MayWait, Waits, TypeOK, InsertRequest, CallUnchanged, threadVars,
                             ioVars, eventVars, callVars, replyVars, ownerVars, closeVars, peerVars
  <2>q. QED
    BY <2>1, <2>2 DEF ReleasesCallers
<1>20. ASSUME NEW c \in Callers, QueueRequest(c) PROVE ReleasesCallers
  <2>1. Emptied' => Emptied
    BY <1>20 DEF Emptied, QueueRequest, CallUnchanged, QueueWrite, threadVars, ioVars, eventVars,
                 callVars, replyVars, ownerVars, closeVars, peerVars
  <2>2. ASSUME Emptied, NEW d \in Callers, MayWait(d)' PROVE MayWait(d)
    BY <1>0, <1>20, <2>2 DEF Emptied, MayWait, Waits, TypeOK, QueueRequest, CallUnchanged, QueueWrite,
                             threadVars, ioVars, eventVars, callVars, replyVars, ownerVars, closeVars,
                             peerVars
  <2>q. QED
    BY <2>1, <2>2 DEF ReleasesCallers
<1>21. ASSUME NEW c \in Callers, RequestTooLarge(c) PROVE ReleasesCallers
  <2>1. Emptied' => Emptied
    BY <1>21 DEF Emptied, RequestTooLarge, CallUnchanged, threadVars, ioVars, eventVars, callVars,
                 replyVars, ownerVars, closeVars, peerVars
  <2>2. ASSUME Emptied, NEW d \in Callers, MayWait(d)' PROVE MayWait(d)
    BY <1>0, <1>21, <2>2 DEF Emptied, MayWait, Waits, TypeOK, RequestTooLarge, CallUnchanged,
                             threadVars, ioVars, eventVars, callVars, replyVars, ownerVars, closeVars,
                             peerVars
  <2>q. QED
    BY <2>1, <2>2 DEF ReleasesCallers
<1>22. ASSUME NEW c \in Callers, CallReturns(c) PROVE ReleasesCallers
  <2>1. Emptied' => Emptied
    BY <1>22 DEF Emptied, CallReturns, CallUnchanged, threadVars, ioVars, eventVars, callVars,
                 replyVars, ownerVars, closeVars, peerVars
  <2>2. ASSUME Emptied, NEW d \in Callers, MayWait(d)' PROVE MayWait(d)
    BY <1>0, <1>22, <2>2 DEF Emptied, MayWait, Waits, TypeOK, CallReturns, CallUnchanged, threadVars,
                             ioVars, eventVars, callVars, replyVars, ownerVars, closeVars, peerVars
  <2>q. QED
    BY <2>1, <2>2 DEF ReleasesCallers
<1>23. ASSUME NEW c \in Callers, CallTimesOut(c) PROVE ReleasesCallers
  <2>1. Emptied' => Emptied
    BY <1>23 DEF Emptied, CallTimesOut, CallUnchanged, threadVars, ioVars, eventVars, callVars,
                 replyVars, ownerVars, closeVars, peerVars
  <2>2. ASSUME Emptied, NEW d \in Callers, MayWait(d)' PROVE MayWait(d)
    BY <1>0, <1>23, <2>2 DEF Emptied, MayWait, Waits, TypeOK, CallTimesOut, CallUnchanged, threadVars,
                             ioVars, eventVars, callVars, replyVars, ownerVars, closeVars, peerVars
  <2>q. QED
    BY <2>1, <2>2 DEF ReleasesCallers
<1>24. ASSUME NEW r \in Requests, TakeRequest(r) PROVE ReleasesCallers
  <2>1. Emptied' => Emptied
    BY <1>24 DEF Emptied, TakeRequest, TakeFromTable, ReplyGoes, ReplyUnchanged, threadVars, ioVars,
                 eventVars, callVars, replyVars, ownerVars, closeVars, peerVars
  <2>2. UNCHANGED <<caller, outcome>>
    BY <1>24 DEF TakeRequest, TakeFromTable, ReplyGoes, ReplyUnchanged, threadVars, ioVars, eventVars,
                 callVars, replyVars, ownerVars, closeVars, peerVars
  <2>q. QED
    BY <2>1, <2>2, LeavesCalls
<1>25. ASSUME NEW r \in Requests, QueueResponse(r) PROVE ReleasesCallers
  <2>1. Emptied' => Emptied
    BY <1>25 DEF Emptied, QueueResponse, ReplyGoes, ReplyUnchanged, QueueWrite, threadVars, ioVars,
                 eventVars, callVars, replyVars, ownerVars, closeVars, peerVars
  <2>2. UNCHANGED <<caller, outcome>>
    BY <1>25 DEF QueueResponse, ReplyGoes, ReplyUnchanged, QueueWrite, threadVars, ioVars, eventVars,
                 callVars, replyVars, ownerVars, closeVars, peerVars
  <2>q. QED
    BY <2>1, <2>2, LeavesCalls
<1>26. ASSUME NEW r \in Requests, CountResponse(r) PROVE ReleasesCallers
  <2>1. Emptied' => Emptied
    BY <1>26 DEF Emptied, CountResponse, ReplyGoes, ReplyUnchanged, CountsDown, threadVars, ioVars,
                 eventVars, callVars, replyVars, ownerVars, closeVars, peerVars
  <2>2. UNCHANGED <<caller, outcome>>
    BY <1>26 DEF CountResponse, ReplyGoes, ReplyUnchanged, CountsDown, threadVars, ioVars, eventVars,
                 callVars, replyVars, ownerVars, closeVars, peerVars
  <2>q. QED
    BY <2>1, <2>2, LeavesCalls
<1>27. ASSUME OwnerBegins PROVE ReleasesCallers
  <2>1. Emptied' => Emptied
    BY <1>27 DEF Emptied, OwnerBegins, OwnerGoes, OwnerUnchanged, threadVars, ioVars, eventVars,
                 callVars, replyVars, ownerVars, closeVars, peerVars
  <2>2. UNCHANGED <<caller, outcome>>
    BY <1>27 DEF OwnerBegins, OwnerGoes, OwnerUnchanged, threadVars, ioVars, eventVars, callVars,
                 replyVars, ownerVars, closeVars, peerVars
  <2>q. QED
    BY <2>1, <2>2, LeavesCalls
<1>28. ASSUME WaitForIncomingResponses PROVE ReleasesCallers
  <2>1. Emptied' => Emptied
    BY <1>28 DEF Emptied, WaitForIncomingResponses, OwnerGoes, OwnerUnchanged, threadVars, ioVars,
                 eventVars, callVars, replyVars, ownerVars, closeVars, peerVars
  <2>2. UNCHANGED <<caller, outcome>>
    BY <1>28 DEF WaitForIncomingResponses, OwnerGoes, OwnerUnchanged, threadVars, ioVars, eventVars,
                 callVars, replyVars, ownerVars, closeVars, peerVars
  <2>q. QED
    BY <2>1, <2>2, LeavesCalls
<1>29. ASSUME WaitForPendingWrites PROVE ReleasesCallers
  <2>1. Emptied' => Emptied
    BY <1>29 DEF Emptied, WaitForPendingWrites, OwnerGoes, OwnerUnchanged, threadVars, ioVars,
                 eventVars, callVars, replyVars, ownerVars, closeVars, peerVars
  <2>2. UNCHANGED <<caller, outcome>>
    BY <1>29 DEF WaitForPendingWrites, OwnerGoes, OwnerUnchanged, threadVars, ioVars, eventVars,
                 callVars, replyVars, ownerVars, closeVars, peerVars
  <2>q. QED
    BY <2>1, <2>2, LeavesCalls
<1>30. ASSUME Close PROVE ReleasesCallers
  <2>1. Emptied' => Emptied
    BY <1>30 DEF Emptied, Close, CloseWith, CancelIo, OwnerGoes, OwnerUnchanged, threadVars, ioVars,
                 eventVars, callVars, replyVars, ownerVars, closeVars, peerVars
  <2>2. UNCHANGED <<caller, outcome>>
    BY <1>30 DEF Close, CloseWith, CancelIo, OwnerGoes, OwnerUnchanged, threadVars, ioVars, eventVars,
                 callVars, replyVars, ownerVars, closeVars, peerVars
  <2>q. QED
    BY <2>1, <2>2, LeavesCalls
<1>31. ASSUME StopMarks PROVE ReleasesCallers
  <2>1. Emptied' => Emptied
    BY <1>31 DEF Emptied, StopMarks, OwnerUnchanged, threadVars, ioVars, eventVars, callVars, replyVars,
                 ownerVars, closeVars, peerVars
  <2>2. UNCHANGED <<caller, outcome>>
    BY <1>31 DEF StopMarks, OwnerUnchanged, threadVars, ioVars, eventVars, callVars, replyVars,
                 ownerVars, closeVars, peerVars
  <2>q. QED
    BY <2>1, <2>2, LeavesCalls
<1>32. ASSUME StopFails PROVE ReleasesCallers
    BY <1>0, <1>32 DEF ReleasesCallers, Emptied, MayWait, Waits, CallsInTable, TypeOK, StopFails,
                       FailPending, OwnerGoes, OwnerUnchanged, threadVars, ioVars, eventVars, callVars,
                       replyVars, ownerVars, closeVars, peerVars
<1>33. ASSUME StopJoins PROVE ReleasesCallers
  <2>1. Emptied' => Emptied
    BY <1>33 DEF Emptied, StopJoins, OwnerGoes, OwnerUnchanged, threadVars, ioVars, eventVars, callVars,
                 replyVars, ownerVars, closeVars, peerVars
  <2>2. UNCHANGED <<caller, outcome>>
    BY <1>33 DEF StopJoins, OwnerGoes, OwnerUnchanged, threadVars, ioVars, eventVars, callVars,
                 replyVars, ownerVars, closeVars, peerVars
  <2>q. QED
    BY <2>1, <2>2, LeavesCalls
<1>34. ASSUME StopNotifies PROVE ReleasesCallers
  <2>1. Emptied' => Emptied
    BY <1>34 DEF Emptied, StopNotifies, NotifyClosed, OwnerGoes, OwnerUnchanged, threadVars, ioVars,
                 eventVars, callVars,
                 replyVars, ownerVars, closeVars, peerVars
  <2>2. UNCHANGED <<caller, outcome>>
    BY <1>34 DEF StopNotifies, OwnerUnchanged, threadVars, ioVars, eventVars, callVars, replyVars,
                 ownerVars, closeVars, peerVars
  <2>q. QED
    BY <2>1, <2>2, LeavesCalls
<1>35. ASSUME ReadCompletes PROVE ReleasesCallers
  <2>1. Emptied' => Emptied
    BY <1>35 DEF Emptied, ReadCompletes, KernelUnchanged, threadVars, ioVars, eventVars, callVars,
                 replyVars, ownerVars, closeVars, peerVars
  <2>2. UNCHANGED <<caller, outcome>>
    BY <1>35 DEF ReadCompletes, KernelUnchanged, threadVars, ioVars, eventVars, callVars, replyVars,
                 ownerVars, closeVars, peerVars
  <2>q. QED
    BY <2>1, <2>2, LeavesCalls
<1>36. ASSUME WriteCompletes PROVE ReleasesCallers
  <2>1. Emptied' => Emptied
    BY <1>36 DEF Emptied, WriteCompletes, KernelUnchanged, threadVars, ioVars, eventVars, callVars,
                 replyVars, ownerVars, closeVars, peerVars
  <2>2. UNCHANGED <<caller, outcome>>
    BY <1>36 DEF WriteCompletes, KernelUnchanged, threadVars, ioVars, eventVars, callVars, replyVars,
                 ownerVars, closeVars, peerVars
  <2>q. QED
    BY <2>1, <2>2, LeavesCalls
<1>37. ASSUME NEW m \in Messages, PeerSends(m), m \in Callers \cup Requests => m \notin asked PROVE ReleasesCallers
  <2>1. Emptied' => Emptied
    BY <1>37 DEF Emptied, PeerSends, KernelUnchanged, threadVars, ioVars, eventVars, callVars,
                 replyVars, ownerVars, closeVars, peerVars
  <2>2. UNCHANGED <<caller, outcome>>
    BY <1>37 DEF PeerSends, KernelUnchanged, threadVars, ioVars, eventVars, callVars, replyVars,
                 ownerVars, closeVars, peerVars
  <2>q. QED
    BY <2>1, <2>2, LeavesCalls
<1>38. ASSUME PeerLeaves PROVE ReleasesCallers
  <2>1. Emptied' => Emptied
    BY <1>38 DEF Emptied, PeerLeaves, KernelUnchanged, threadVars, ioVars, eventVars, callVars,
                 replyVars, ownerVars, closeVars, peerVars
  <2>2. UNCHANGED <<caller, outcome>>
    BY <1>38 DEF PeerLeaves, KernelUnchanged, threadVars, ioVars, eventVars, callVars, replyVars,
                 ownerVars, closeVars, peerVars
  <2>q. QED
    BY <2>1, <2>2, LeavesCalls
<1>39. ASSUME UNCHANGED vars PROVE ReleasesCallers
  <2>1. Emptied' => Emptied
    BY <1>39 DEF Emptied, vars, threadVars, ioVars, eventVars, callVars, replyVars, ownerVars,
                 closeVars, peerVars
  <2>2. UNCHANGED <<caller, outcome>>
    BY <1>39 DEF vars, threadVars, ioVars, eventVars, callVars, replyVars, ownerVars, closeVars,
                 peerVars
  <2>q. QED
    BY <2>1, <2>2, LeavesCalls
<1>q. QED
    BY <1>1, <1>2, <1>3, <1>4, <1>5, <1>6, <1>7, <1>8, <1>9, <1>10, <1>11, <1>12, <1>13, <1>14, <1>15,
       <1>16, <1>17, <1>18, <1>19, <1>20, <1>21, <1>22, <1>23, <1>24, <1>25, <1>26, <1>27, <1>28, <1>29,
       <1>30, <1>31, <1>32, <1>33, <1>34, <1>35, <1>36, <1>37, <1>38, <1>39, NextActions


\* CallsAreKept: the promise of a call holds an answer only when the peer sent one; until the
\* end of the connection empties the table, a call which waits is in it; that step releases
\* every call which waits, and after it only a call which passed the check of `ended` before
\* comes to wait.
THEOREM CallsKept == Spec => CallsAreKept
<1>1. Init => CallInv
    BY SessionInit DEF CallInv, CallsInTable, Waits, Init
<1>2. CallInv /\ [Next]_vars => CallInv'
    BY SessionStep, CallStep DEF CallInv, SessionInv
<1>3. CallInv => CallsStayInTable
    BY DEF CallInv, CallsInTable, CallsStayInTable
<1>4. CallInv /\ [Next]_vars => ReleasesCallers
    BY ReleaseStep DEF CallInv, SessionInv
<1>q. QED
    BY <1>1, <1>2, <1>3, <1>4, PTL DEF Spec, CallsAreKept

\* The closed handler is given away with its only call.
LEMMA ClosedStep ==
    ASSUME TypeOK, ClosedInv, [Next]_vars
    PROVE  ClosedInv'
<1>0. TypeOK /\ ClosedInv
    OBVIOUS
<1>1. ASSUME PostRead PROVE ClosedInv'
  <2>1. UNCHANGED <<hasHandler, notified>>
    BY <1>1 DEF PostRead, ThreadGoes, ConnectionEnds, threadVars, ioVars, eventVars, callVars,
                replyVars,
           ownerVars, closeVars, peerVars
  <2>2. owner' # "stopped" \/ owner' = owner
    BY <1>1 DEF PostRead, ThreadGoes, ConnectionEnds, threadVars, ioVars, eventVars, callVars,
                replyVars,
           ownerVars, closeVars, peerVars
  <2>q. QED
    BY <1>0, <2>1, <2>2 DEF ClosedInv
<1>2. ASSUME SelectRead PROVE ClosedInv'
  <2>1. UNCHANGED <<hasHandler, notified>>
    BY <1>2 DEF SelectRead, ThreadGoes, threadVars, ioVars, eventVars, callVars, replyVars, ownerVars,
           closeVars, peerVars
  <2>2. owner' # "stopped" \/ owner' = owner
    BY <1>2 DEF SelectRead, ThreadGoes, threadVars, ioVars, eventVars, callVars, replyVars, ownerVars,
           closeVars, peerVars
  <2>q. QED
    BY <1>0, <2>1, <2>2 DEF ClosedInv
<1>3. ASSUME SelectQueued PROVE ClosedInv'
  <2>1. UNCHANGED <<hasHandler, notified>>
    BY <1>3 DEF SelectQueued, StartNextWrite, IssueWrite, threadVars, ioVars, eventVars, callVars,
           replyVars, ownerVars, closeVars, peerVars
  <2>2. owner' # "stopped" \/ owner' = owner
    BY <1>3 DEF SelectQueued, StartNextWrite, IssueWrite, threadVars, ioVars, eventVars, callVars,
           replyVars, ownerVars, closeVars, peerVars
  <2>q. QED
    BY <1>0, <2>1, <2>2 DEF ClosedInv
<1>4. ASSUME OnWriteCompleted PROVE ClosedInv'
  <2>1. UNCHANGED <<hasHandler, notified>>
    BY <1>4 DEF OnWriteCompleted, CompleteAndIssue, StartNextWrite, IssueWrite, Released,
                WriteSignalled,
           threadVars, ioVars, eventVars, callVars, replyVars, ownerVars, closeVars, peerVars
  <2>2. owner' # "stopped" \/ owner' = owner
    BY <1>4 DEF OnWriteCompleted, CompleteAndIssue, StartNextWrite, IssueWrite, Released,
                WriteSignalled,
           threadVars, ioVars, eventVars, callVars, replyVars, ownerVars, closeVars, peerVars
  <2>q. QED
    BY <1>0, <2>1, <2>2 DEF ClosedInv
<1>5. ASSUME SelectStop PROVE ClosedInv'
  <2>1. UNCHANGED <<hasHandler, notified>>
    BY <1>5 DEF SelectStop, ThreadGoes, threadVars, ioVars, eventVars, callVars, replyVars, ownerVars,
           closeVars, peerVars
  <2>2. owner' # "stopped" \/ owner' = owner
    BY <1>5 DEF SelectStop, ThreadGoes, threadVars, ioVars, eventVars, callVars, replyVars, ownerVars,
           closeVars, peerVars
  <2>q. QED
    BY <1>0, <2>1, <2>2 DEF ClosedInv
<1>6. ASSUME OnReadCompleted PROVE ClosedInv'
  <2>1. UNCHANGED <<hasHandler, notified>>
    BY <1>6 DEF OnReadCompleted, ConnectionEnds, threadVars, ioVars, eventVars, callVars, replyVars,
           ownerVars, closeVars, peerVars
  <2>2. owner' # "stopped" \/ owner' = owner
    BY <1>6 DEF OnReadCompleted, ConnectionEnds, threadVars, ioVars, eventVars, callVars, replyVars,
           ownerVars, closeVars, peerVars
  <2>q. QED
    BY <1>0, <2>1, <2>2 DEF ClosedInv
<1>7. ASSUME NEW m \in Callers \cup {"stray"}, AnswerCall(m) PROVE ClosedInv'
  <2>1. UNCHANGED <<hasHandler, notified>>
    BY <1>7 DEF AnswerCall, Report, threadVars, ioVars, eventVars, callVars, replyVars, ownerVars,
           closeVars, peerVars
  <2>2. owner' # "stopped" \/ owner' = owner
    BY <1>7 DEF AnswerCall, Report, threadVars, ioVars, eventVars, callVars, replyVars, ownerVars,
           closeVars, peerVars
  <2>q. QED
    BY <1>0, <2>1, <2>2 DEF ClosedInv
<1>8. ASSUME InvalidFrame PROVE ClosedInv'
  <2>1. UNCHANGED <<hasHandler, notified>>
    BY <1>8 DEF InvalidFrame, ConnectionEnds, threadVars, ioVars, eventVars, callVars, replyVars,
           ownerVars, closeVars, peerVars
  <2>2. owner' # "stopped" \/ owner' = owner
    BY <1>8 DEF InvalidFrame, ConnectionEnds, threadVars, ioVars, eventVars, callVars, replyVars,
           ownerVars, closeVars, peerVars
  <2>q. QED
    BY <1>0, <2>1, <2>2 DEF ClosedInv
<1>9. ASSUME HandlerReturns PROVE ClosedInv'
  <2>1. UNCHANGED <<hasHandler, notified>>
    BY <1>9 DEF HandlerReturns, threadVars, ioVars, eventVars, callVars, replyVars, ownerVars,
                closeVars,
           peerVars
  <2>2. owner' # "stopped" \/ owner' = owner
    BY <1>9 DEF HandlerReturns, threadVars, ioVars, eventVars, callVars, replyVars, ownerVars,
                closeVars,
           peerVars
  <2>q. QED
    BY <1>0, <2>1, <2>2 DEF ClosedInv
<1>10. ASSUME AllReported PROVE ClosedInv'
  <2>1. UNCHANGED <<hasHandler, notified>>
    BY <1>10 DEF AllReported, ThreadGoes, threadVars, ioVars, eventVars, callVars, replyVars, ownerVars,
           closeVars, peerVars
  <2>2. owner' # "stopped" \/ owner' = owner
    BY <1>10 DEF AllReported, ThreadGoes, threadVars, ioVars, eventVars, callVars, replyVars, ownerVars,
           closeVars, peerVars
  <2>q. QED
    BY <1>0, <2>1, <2>2 DEF ClosedInv
<1>11. ASSUME AfterRead PROVE ClosedInv'
  <2>1. UNCHANGED <<hasHandler, notified>>
    BY <1>11 DEF AfterRead, StartNextWrite, IssueWrite, ThreadGoes, threadVars, ioVars, eventVars,
           callVars, replyVars, ownerVars, closeVars, peerVars
  <2>2. owner' # "stopped" \/ owner' = owner
    BY <1>11 DEF AfterRead, StartNextWrite, IssueWrite, ThreadGoes, threadVars, ioVars, eventVars,
           callVars, replyVars, ownerVars, closeVars, peerVars
  <2>q. QED
    BY <1>0, <2>1, <2>2 DEF ClosedInv
<1>12. ASSUME NEW r \in Requests, DispatchRequest(r) PROVE ClosedInv'
  <2>1. UNCHANGED <<hasHandler, notified>>
    BY <1>12 DEF DispatchRequest, Report, threadVars, ioVars, eventVars, callVars, replyVars, ownerVars,
           closeVars, peerVars
  <2>2. owner' # "stopped" \/ owner' = owner
    BY <1>12 DEF DispatchRequest, Report, threadVars, ioVars, eventVars, callVars, replyVars, ownerVars,
           closeVars, peerVars
  <2>q. QED
    BY <1>0, <2>1, <2>2 DEF ClosedInv
<1>13. ASSUME NEW r \in Requests, AnswerError(r) PROVE ClosedInv'
  <2>1. UNCHANGED <<hasHandler, notified>>
    BY <1>13 DEF AnswerError, ErrorLeaves, Report, QueueWrite, threadVars, ioVars, eventVars, callVars,
           replyVars, ownerVars, closeVars, peerVars
  <2>2. owner' # "stopped" \/ owner' = owner
    BY <1>13 DEF AnswerError, ErrorLeaves, Report, QueueWrite, threadVars, ioVars, eventVars, callVars,
           replyVars, ownerVars, closeVars, peerVars
  <2>q. QED
    BY <1>0, <2>1, <2>2 DEF ClosedInv
<1>14. ASSUME FailOnEnd PROVE ClosedInv'
  <2>1. UNCHANGED <<hasHandler, notified>>
    BY <1>14 DEF FailOnEnd, ThreadGoes, threadVars, ioVars, eventVars, callVars, replyVars, ownerVars,
           closeVars, peerVars
  <2>2. owner' # "stopped" \/ owner' = owner
    BY <1>14 DEF FailOnEnd, FailPending, ThreadGoes, threadVars, ioVars, eventVars, callVars, replyVars,
           ownerVars, closeVars, peerVars
  <2>q. QED
    BY <1>0, <2>1, <2>2 DEF ClosedInv
<1>15. ASSUME CloseOnEnd PROVE ClosedInv'
  <2>1. UNCHANGED <<hasHandler, notified>>
    BY <1>15 DEF CloseOnEnd, ThreadGoes, threadVars, ioVars, eventVars, callVars, replyVars, ownerVars,
           closeVars, peerVars
  <2>2. owner' # "stopped" \/ owner' = owner
    BY <1>15 DEF CloseOnEnd, CancelIo, ThreadGoes, threadVars, ioVars, eventVars, callVars, replyVars,
           ownerVars, closeVars, peerVars
  <2>q. QED
    BY <1>0, <2>1, <2>2 DEF ClosedInv
<1>16. ASSUME NotifyOnEnd PROVE ClosedInv'
  <2>1. notified' = IF hasHandler THEN notified + 1 ELSE notified
    BY <1>16 DEF NotifyOnEnd, NotifyClosed
  <2>2. hasHandler' = FALSE /\ owner' = owner
    BY <1>16 DEF NotifyOnEnd, NotifyClosed, ownerVars
  <2>q. QED
    BY <1>0, <2>1, <2>2 DEF ClosedInv, TypeOK
<1>17. ASSUME CloseHandleNow PROVE ClosedInv'
  <2>1. UNCHANGED <<hasHandler, notified>>
    BY <1>17 DEF CloseHandleNow, ThreadGoes, threadVars, ioVars, eventVars, callVars, replyVars,
                 ownerVars,
           closeVars, peerVars
  <2>2. owner' # "stopped" \/ owner' = owner
    BY <1>17 DEF CloseHandleNow, ThreadGoes, threadVars, ioVars, eventVars, callVars, replyVars,
                 ownerVars,
           closeVars, peerVars
  <2>q. QED
    BY <1>0, <2>1, <2>2 DEF ClosedInv
<1>18. ASSUME NEW c \in Callers, CheckOpen(c) PROVE ClosedInv'
  <2>1. UNCHANGED <<hasHandler, notified>>
    BY <1>18 DEF CheckOpen, CallUnchanged, threadVars, ioVars, eventVars, callVars, replyVars,
                 ownerVars,
           closeVars, peerVars
  <2>2. owner' # "stopped" \/ owner' = owner
    BY <1>18 DEF CheckOpen, CallUnchanged, threadVars, ioVars, eventVars, callVars, replyVars,
                 ownerVars,
           closeVars, peerVars
  <2>q. QED
    BY <1>0, <2>1, <2>2 DEF ClosedInv
<1>19. ASSUME NEW c \in Callers, InsertRequest(c) PROVE ClosedInv'
  <2>1. UNCHANGED <<hasHandler, notified>>
    BY <1>19 DEF InsertRequest, CallUnchanged, threadVars, ioVars, eventVars, callVars, replyVars,
           ownerVars, closeVars, peerVars
  <2>2. owner' # "stopped" \/ owner' = owner
    BY <1>19 DEF InsertRequest, CallUnchanged, threadVars, ioVars, eventVars, callVars, replyVars,
           ownerVars, closeVars, peerVars
  <2>q. QED
    BY <1>0, <2>1, <2>2 DEF ClosedInv
<1>20. ASSUME NEW c \in Callers, QueueRequest(c) PROVE ClosedInv'
  <2>1. UNCHANGED <<hasHandler, notified>>
    BY <1>20 DEF QueueRequest, CallUnchanged, QueueWrite, threadVars, ioVars, eventVars, callVars,
           replyVars, ownerVars, closeVars, peerVars
  <2>2. owner' # "stopped" \/ owner' = owner
    BY <1>20 DEF QueueRequest, CallUnchanged, QueueWrite, threadVars, ioVars, eventVars, callVars,
           replyVars, ownerVars, closeVars, peerVars
  <2>q. QED
    BY <1>0, <2>1, <2>2 DEF ClosedInv
<1>21. ASSUME NEW c \in Callers, RequestTooLarge(c) PROVE ClosedInv'
  <2>1. UNCHANGED <<hasHandler, notified>>
    BY <1>21 DEF RequestTooLarge, CallUnchanged, threadVars, ioVars, eventVars, callVars, replyVars,
           ownerVars, closeVars, peerVars
  <2>2. owner' # "stopped" \/ owner' = owner
    BY <1>21 DEF RequestTooLarge, CallUnchanged, threadVars, ioVars, eventVars, callVars, replyVars,
           ownerVars, closeVars, peerVars
  <2>q. QED
    BY <1>0, <2>1, <2>2 DEF ClosedInv
<1>22. ASSUME NEW c \in Callers, CallReturns(c) PROVE ClosedInv'
  <2>1. UNCHANGED <<hasHandler, notified>>
    BY <1>22 DEF CallReturns, CallUnchanged, threadVars, ioVars, eventVars, callVars, replyVars,
                 ownerVars,
           closeVars, peerVars
  <2>2. owner' # "stopped" \/ owner' = owner
    BY <1>22 DEF CallReturns, CallUnchanged, threadVars, ioVars, eventVars, callVars, replyVars,
                 ownerVars,
           closeVars, peerVars
  <2>q. QED
    BY <1>0, <2>1, <2>2 DEF ClosedInv
<1>23. ASSUME NEW c \in Callers, CallTimesOut(c) PROVE ClosedInv'
  <2>1. UNCHANGED <<hasHandler, notified>>
    BY <1>23 DEF CallTimesOut, CallUnchanged, threadVars, ioVars, eventVars, callVars, replyVars,
           ownerVars, closeVars, peerVars
  <2>2. owner' # "stopped" \/ owner' = owner
    BY <1>23 DEF CallTimesOut, CallUnchanged, threadVars, ioVars, eventVars, callVars, replyVars,
           ownerVars, closeVars, peerVars
  <2>q. QED
    BY <1>0, <2>1, <2>2 DEF ClosedInv
<1>24. ASSUME NEW r \in Requests, TakeRequest(r) PROVE ClosedInv'
  <2>1. UNCHANGED <<hasHandler, notified>>
    BY <1>24 DEF TakeRequest, TakeFromTable, ReplyGoes, ReplyUnchanged, threadVars, ioVars, eventVars,
           callVars, replyVars, ownerVars, closeVars, peerVars
  <2>2. owner' # "stopped" \/ owner' = owner
    BY <1>24 DEF TakeRequest, TakeFromTable, ReplyGoes, ReplyUnchanged, threadVars, ioVars, eventVars,
           callVars, replyVars, ownerVars, closeVars, peerVars
  <2>q. QED
    BY <1>0, <2>1, <2>2 DEF ClosedInv
<1>25. ASSUME NEW r \in Requests, QueueResponse(r) PROVE ClosedInv'
  <2>1. UNCHANGED <<hasHandler, notified>>
    BY <1>25 DEF QueueResponse, ReplyGoes, ReplyUnchanged, QueueWrite, threadVars, ioVars, eventVars,
           callVars, replyVars, ownerVars, closeVars, peerVars
  <2>2. owner' # "stopped" \/ owner' = owner
    BY <1>25 DEF QueueResponse, ReplyGoes, ReplyUnchanged, QueueWrite, threadVars, ioVars, eventVars,
           callVars, replyVars, ownerVars, closeVars, peerVars
  <2>q. QED
    BY <1>0, <2>1, <2>2 DEF ClosedInv
<1>26. ASSUME NEW r \in Requests, CountResponse(r) PROVE ClosedInv'
  <2>1. UNCHANGED <<hasHandler, notified>>
    BY <1>26 DEF CountResponse, ReplyGoes, ReplyUnchanged, CountsDown, threadVars, ioVars, eventVars,
           callVars, replyVars, ownerVars, closeVars, peerVars
  <2>2. owner' # "stopped" \/ owner' = owner
    BY <1>26 DEF CountResponse, ReplyGoes, ReplyUnchanged, CountsDown, threadVars, ioVars, eventVars,
           callVars, replyVars, ownerVars, closeVars, peerVars
  <2>q. QED
    BY <1>0, <2>1, <2>2 DEF ClosedInv
<1>27. ASSUME OwnerBegins PROVE ClosedInv'
  <2>1. UNCHANGED <<hasHandler, notified>>
    BY <1>27 DEF OwnerBegins, OwnerGoes, OwnerUnchanged, threadVars, ioVars, eventVars, callVars,
           replyVars, ownerVars, closeVars, peerVars
  <2>2. owner' # "stopped" \/ owner' = owner
    BY <1>27 DEF OwnerBegins, OwnerGoes, OwnerUnchanged, threadVars, ioVars, eventVars, callVars,
           replyVars, ownerVars, closeVars, peerVars
  <2>q. QED
    BY <1>0, <2>1, <2>2 DEF ClosedInv
<1>28. ASSUME WaitForIncomingResponses PROVE ClosedInv'
  <2>1. UNCHANGED <<hasHandler, notified>>
    BY <1>28 DEF WaitForIncomingResponses, OwnerGoes, OwnerUnchanged, threadVars, ioVars, eventVars,
           callVars, replyVars, ownerVars, closeVars, peerVars
  <2>2. owner' # "stopped" \/ owner' = owner
    BY <1>28 DEF WaitForIncomingResponses, OwnerGoes, OwnerUnchanged, threadVars, ioVars, eventVars,
           callVars, replyVars, ownerVars, closeVars, peerVars
  <2>q. QED
    BY <1>0, <2>1, <2>2 DEF ClosedInv
<1>29. ASSUME WaitForPendingWrites PROVE ClosedInv'
  <2>1. UNCHANGED <<hasHandler, notified>>
    BY <1>29 DEF WaitForPendingWrites, OwnerGoes, OwnerUnchanged, threadVars, ioVars, eventVars,
                 callVars,
           replyVars, ownerVars, closeVars, peerVars
  <2>2. owner' # "stopped" \/ owner' = owner
    BY <1>29 DEF WaitForPendingWrites, OwnerGoes, OwnerUnchanged, threadVars, ioVars, eventVars,
                 callVars,
           replyVars, ownerVars, closeVars, peerVars
  <2>q. QED
    BY <1>0, <2>1, <2>2 DEF ClosedInv
<1>30. ASSUME Close PROVE ClosedInv'
  <2>1. UNCHANGED <<hasHandler, notified>>
    BY <1>30 DEF Close, CloseWith, OwnerGoes, OwnerUnchanged, threadVars, ioVars, eventVars, callVars,
           replyVars, ownerVars, closeVars, peerVars
  <2>2. owner' # "stopped" \/ owner' = owner
    BY <1>30 DEF Close, CloseWith, CancelIo, OwnerGoes, OwnerUnchanged, threadVars, ioVars, eventVars,
           callVars, replyVars, ownerVars, closeVars, peerVars
  <2>q. QED
    BY <1>0, <2>1, <2>2 DEF ClosedInv
<1>31. ASSUME StopMarks PROVE ClosedInv'
  <2>1. UNCHANGED <<hasHandler, notified>>
    BY <1>31 DEF StopMarks, OwnerUnchanged, threadVars, ioVars, eventVars, callVars, replyVars,
                 ownerVars,
           closeVars, peerVars
  <2>2. owner' # "stopped" \/ owner' = owner
    BY <1>31 DEF StopMarks, OwnerUnchanged, threadVars, ioVars, eventVars, callVars, replyVars,
                 ownerVars,
           closeVars, peerVars
  <2>q. QED
    BY <1>0, <2>1, <2>2 DEF ClosedInv
<1>32. ASSUME StopFails PROVE ClosedInv'
  <2>1. UNCHANGED <<hasHandler, notified>>
    BY <1>32 DEF StopFails, OwnerGoes, OwnerUnchanged, threadVars, ioVars, eventVars, callVars,
                 replyVars,
           ownerVars, closeVars, peerVars
  <2>2. owner' # "stopped" \/ owner' = owner
    BY <1>32 DEF StopFails, FailPending, OwnerGoes, OwnerUnchanged, threadVars, ioVars, eventVars,
           callVars, replyVars, ownerVars, closeVars, peerVars
  <2>q. QED
    BY <1>0, <2>1, <2>2 DEF ClosedInv
<1>33. ASSUME StopJoins PROVE ClosedInv'
  <2>1. UNCHANGED <<hasHandler, notified>>
    BY <1>33 DEF StopJoins, OwnerGoes, OwnerUnchanged, threadVars, ioVars, eventVars, callVars,
                 replyVars,
           ownerVars, closeVars, peerVars
  <2>2. owner' # "stopped" \/ owner' = owner
    BY <1>33 DEF StopJoins, OwnerGoes, OwnerUnchanged, threadVars, ioVars, eventVars, callVars,
                 replyVars,
           ownerVars, closeVars, peerVars
  <2>q. QED
    BY <1>0, <2>1, <2>2 DEF ClosedInv
<1>34. ASSUME StopNotifies PROVE ClosedInv'
  <2>1. notified' = IF hasHandler THEN notified + 1 ELSE notified
    BY <1>34 DEF StopNotifies, NotifyClosed
  <2>2. hasHandler' = FALSE
    BY <1>34 DEF StopNotifies, NotifyClosed
  <2>q. QED
    BY <1>0, <2>1, <2>2 DEF ClosedInv, TypeOK
<1>35. ASSUME ReadCompletes PROVE ClosedInv'
  <2>1. UNCHANGED <<hasHandler, notified>>
    BY <1>35 DEF ReadCompletes, KernelUnchanged, threadVars, ioVars, eventVars, callVars, replyVars,
           ownerVars, closeVars, peerVars
  <2>2. owner' # "stopped" \/ owner' = owner
    BY <1>35 DEF ReadCompletes, KernelUnchanged, threadVars, ioVars, eventVars, callVars, replyVars,
           ownerVars, closeVars, peerVars
  <2>q. QED
    BY <1>0, <2>1, <2>2 DEF ClosedInv
<1>36. ASSUME WriteCompletes PROVE ClosedInv'
  <2>1. UNCHANGED <<hasHandler, notified>>
    BY <1>36 DEF WriteCompletes, KernelUnchanged, threadVars, ioVars, eventVars, callVars, replyVars,
           ownerVars, closeVars, peerVars
  <2>2. owner' # "stopped" \/ owner' = owner
    BY <1>36 DEF WriteCompletes, KernelUnchanged, threadVars, ioVars, eventVars, callVars, replyVars,
           ownerVars, closeVars, peerVars
  <2>q. QED
    BY <1>0, <2>1, <2>2 DEF ClosedInv
<1>37. ASSUME NEW m \in Messages, PeerSends(m), m \in Callers \cup Requests => m \notin asked
       PROVE  ClosedInv'
  <2>1. UNCHANGED <<hasHandler, notified>>
    BY <1>37 DEF PeerSends, KernelUnchanged, threadVars, ioVars, eventVars, callVars, replyVars,
                 ownerVars,
           closeVars, peerVars
  <2>2. owner' # "stopped" \/ owner' = owner
    BY <1>37 DEF PeerSends, KernelUnchanged, threadVars, ioVars, eventVars, callVars, replyVars,
                 ownerVars,
           closeVars, peerVars
  <2>q. QED
    BY <1>0, <2>1, <2>2 DEF ClosedInv
<1>38. ASSUME PeerLeaves PROVE ClosedInv'
  <2>1. UNCHANGED <<hasHandler, notified>>
    BY <1>38 DEF PeerLeaves, KernelUnchanged, threadVars, ioVars, eventVars, callVars, replyVars,
           ownerVars, closeVars, peerVars
  <2>2. owner' # "stopped" \/ owner' = owner
    BY <1>38 DEF PeerLeaves, KernelUnchanged, threadVars, ioVars, eventVars, callVars, replyVars,
           ownerVars, closeVars, peerVars
  <2>q. QED
    BY <1>0, <2>1, <2>2 DEF ClosedInv
<1>39. ASSUME UNCHANGED vars PROVE ClosedInv'
  <2>1. UNCHANGED <<owner, hasHandler, notified>>
    BY <1>39 DEF vars, ownerVars, closeVars
  <2>q. QED
    BY <1>0, <2>1 DEF ClosedInv
<1>q. QED
    BY <1>1, <1>2, <1>3, <1>4, <1>5, <1>6, <1>7, <1>8, <1>9, <1>10, <1>11, <1>12, <1>13, <1>14, <1>15,
       <1>16, <1>17, <1>18, <1>19, <1>20, <1>21, <1>22, <1>23, <1>24, <1>25, <1>26, <1>27, <1>28, <1>29,
       <1>30, <1>31, <1>32, <1>33, <1>34, <1>35, <1>36, <1>37, <1>38, <1>39, NextActions

\* ClosedOnce: the end of the connection and the stop of the session race for the handler,
\* and it is called once.
THEOREM ClosedHandlerOnce == Spec => []ClosedOnce
<1>1. Init => ClosedInv
    BY DEF ClosedInv, Init
<1>2. TypeOK /\ ClosedInv /\ [Next]_vars => ClosedInv'
    BY ClosedStep
<1>3. TypeOK /\ ClosedInv => ClosedOnce
    BY DEF ClosedInv, ClosedOnce, TypeOK
<1>q. QED
    BY <1>1, <1>2, <1>3, SessionTypes, PTL DEF Spec
-----------------------------------------------------------------------------
(* The stream of the answers and the requests which were sent.             *)

\* One step of the stream: it stays, a part of it reaches the peer, a whole frame of a
\* message which was not sent is added, or the peer is gone.
Kept == \A m \in Callers \cup Requests : WasSent(m) => WasSent(m)'
Still == wire' = wire /\ Stream' = Stream
Wrote == /\ peerOpen /\ writing = "posted"
         /\ wire' = Append(wire, Head(sendQueue)) /\ Stream' = Stream
Grows(m) == /\ wire' = wire /\ Stream' = Stream \o <<Header(m), Payload(m)>>
            /\ ~WasSent(m) /\ WasSent(m)'
Lost == ~peerOpen' /\ wire' = wire
Sends(r) == WasSent(r)' => WasSent(r) \/ "unsent" \in Faults \/ Grows(r)
Settled(r) == reply[r] \in {"again", "done"} => reply'[r] \in {"again", "done"}

StreamMove ==
    /\ Active
    /\ peerOpen' => peerOpen
    /\ peerOpen' => writing' # "failed"
    /\ Kept
    /\ \/ Still \/ Wrote \/ Lost \/ \E m \in Callers \cup Requests : Grows(m)
    /\ peerOpen' => \A r \in Requests : Sends(r)
    /\ \A r \in Requests : Settled(r)

\* Nothing of the stream is touched.
LEMMA StreamStays ==
    ASSUME TypeOK, LineFits, Active, peerOpen' => peerOpen, peerOpen' => writing' # "failed",
           (Stream' = Stream /\ wire' = wire) \/ Lost,
           \A c \in Callers : caller[c] \in {"waiting", "done"} => caller'[c] \in {"waiting", "done"},
           \A r \in Requests : \/ reply'[r] = reply[r]
                               \/ reply'[r] = "held" /\ reply[r] = "none"
                               \/ reply'[r] = "erased" /\ reply[r] = "held"
                               \/ reply'[r] = "queued" /\ reply[r] = "erased" /\ "unsent" \in Faults
                               \/ reply'[r] \in {"again", "done"} /\ reply[r] \in {"queued", "again"}
    PROVE  StreamMove
<1>1. Kept
    BY SessionNames DEF Kept, WasSent
<1>2. \A r \in Requests : Sends(r) /\ Settled(r)
    BY SessionNames DEF Sends, Settled, WasSent
<1>q. QED
    BY <1>1, <1>2 DEF StreamMove, Still

\* A message is queued for the first time.
LEMMA StreamGrows ==
    ASSUME TypeOK, TypeOK', WriteFits, Active, NEW m \in Callers \cup Requests, QueueWrite(m),
           ~WasSent(m), WasSent(m)', UNCHANGED <<peerOpen, writing, wire>>,
           peerOpen => writing # "failed",
           \A c \in Callers : c # m => caller'[c] = caller[c],
           \A r \in Requests : r # m => reply'[r] = reply[r]
    PROVE  StreamMove
<1>1. <<Header(m), Payload(m)>> \in Seq(Parts)
    BY DEF Header, Payload, Parts
<1>2. Stream' = Stream \o <<Header(m), Payload(m)>>
  <2>1. sendQueue' = sendQueue \o <<Header(m), Payload(m)>>
    BY DEF QueueWrite
  <2>2. wire \in Seq(Parts) /\ sendQueue \in Seq(Parts) /\ Rest \in Seq(Parts)
    BY DEF TypeOK, WriteFits, Rest
  <2>3. Rest' = Rest \o <<Header(m), Payload(m)>>
    BY <1>1, <2>1, <2>2 DEF Rest, WriteFits
  <2>q. QED
    BY <1>1, <2>2, <2>3, JoinsAgain DEF Stream
<1>3. Grows(m)
    BY <1>2 DEF Grows
<1>4. Kept
    BY SessionNames DEF Kept, WasSent
<1>5. ASSUME NEW r \in Requests PROVE Sends(r) /\ Settled(r)
    BY <1>3, SessionNames DEF Sends, Settled, WasSent
<1>q. QED
    BY <1>3, <1>4, <1>5 DEF StreamMove

\* The write of the front of the queue leaves the stream as it is, or the peer is gone.
LEMMA StreamStarts ==
    ASSUME TypeOK, WriteFits, "write" \notin Faults, StartNextWrite(sendQueue, inWrite),
           UNCHANGED <<peerOpen, wire>>, peerOpen => writing # "failed"
    PROVE  /\ peerOpen' => writing' # "failed"
           /\ (Stream' = Stream /\ wire' = wire) \/ Lost
<1>1. sendQueue \in Seq(Parts) /\ inWrite \in BOOLEAN
    BY DEF TypeOK
<1>2. CASE inWrite
  <2>1. sendQueue' = sendQueue /\ writing' = writing
    BY <1>2 DEF StartNextWrite, IssueWrite
  <2>q. QED
    BY <2>1 DEF Stream, Rest
<1>3. CASE ~inWrite
  <2>1. writing = "none"
    BY <1>3 DEF WriteFits, TypeOK
  <2>2. (sendQueue' = sendQueue /\ writing' \in {"none", "posted"}) \/ ~peerOpen
    BY <1>3 DEF StartNextWrite, IssueWrite
  <2>q. QED
    BY <2>1, <2>2 DEF Stream, Rest, Lost
<1>q. QED
    BY <1>1, <1>2, <1>3

\* OnConnectionEnded() marks the end first, and nothing unmarks it.
LEMMA EndedStep ==
    ASSUME TypeOK, EndedFirst, [Next]_vars
    PROVE  EndedFirst'
<1>0. TypeOK /\ EndedFirst
    OBVIOUS
<1>1. ASSUME PostRead PROVE EndedFirst'
    BY <1>0, <1>1 DEF PostRead, ThreadGoes, ConnectionEnds, EndedFirst, TypeOK, threadVars, ioVars,
           eventVars, callVars, replyVars, ownerVars, closeVars, peerVars
<1>2. ASSUME SelectRead PROVE EndedFirst'
    BY <1>0, <1>2 DEF SelectRead, ThreadGoes, EndedFirst, TypeOK, threadVars, ioVars, eventVars,
                      callVars,
           replyVars, ownerVars, closeVars, peerVars
<1>3. ASSUME SelectQueued PROVE EndedFirst'
    BY <1>0, <1>3 DEF SelectQueued, StartNextWrite, IssueWrite, EndedFirst, TypeOK, threadVars, ioVars,
           eventVars, callVars, replyVars, ownerVars, closeVars, peerVars
<1>4. ASSUME OnWriteCompleted PROVE EndedFirst'
    BY <1>0, <1>4 DEF OnWriteCompleted, CompleteAndIssue, StartNextWrite, IssueWrite, Released,
           WriteSignalled, EndedFirst, TypeOK, threadVars, ioVars, eventVars, callVars, replyVars,
           ownerVars, closeVars, peerVars
<1>5. ASSUME SelectStop PROVE EndedFirst'
    BY <1>0, <1>5 DEF SelectStop, ThreadGoes, EndedFirst, TypeOK, threadVars, ioVars, eventVars,
                      callVars,
           replyVars, ownerVars, closeVars, peerVars
<1>6. ASSUME OnReadCompleted PROVE EndedFirst'
    BY <1>0, <1>6 DEF OnReadCompleted, ConnectionEnds, EndedFirst, TypeOK, threadVars, ioVars,
                      eventVars,
           callVars, replyVars, ownerVars, closeVars, peerVars
<1>7. ASSUME NEW m \in Callers \cup {"stray"}, AnswerCall(m) PROVE EndedFirst'
    BY <1>0, <1>7 DEF AnswerCall, Report, EndedFirst, TypeOK, threadVars, ioVars, eventVars, callVars,
           replyVars, ownerVars, closeVars, peerVars
<1>8. ASSUME InvalidFrame PROVE EndedFirst'
    BY <1>0, <1>8 DEF InvalidFrame, ConnectionEnds, EndedFirst, TypeOK, threadVars, ioVars, eventVars,
           callVars, replyVars, ownerVars, closeVars, peerVars
<1>9. ASSUME HandlerReturns PROVE EndedFirst'
    BY <1>0, <1>9 DEF HandlerReturns, EndedFirst, TypeOK, threadVars, ioVars, eventVars, callVars,
           replyVars, ownerVars, closeVars, peerVars
<1>10. ASSUME AllReported PROVE EndedFirst'
    BY <1>0, <1>10 DEF AllReported, ThreadGoes, EndedFirst, TypeOK, threadVars, ioVars, eventVars,
           callVars, replyVars, ownerVars, closeVars, peerVars
<1>11. ASSUME AfterRead PROVE EndedFirst'
    BY <1>0, <1>11 DEF AfterRead, StartNextWrite, IssueWrite, ThreadGoes, EndedFirst, TypeOK,
                       threadVars,
           ioVars, eventVars, callVars, replyVars, ownerVars, closeVars, peerVars
<1>12. ASSUME NEW r \in Requests, DispatchRequest(r) PROVE EndedFirst'
    BY <1>0, <1>12 DEF DispatchRequest, Report, EndedFirst, TypeOK, threadVars, ioVars, eventVars,
           callVars, replyVars, ownerVars, closeVars, peerVars
<1>13. ASSUME NEW r \in Requests, AnswerError(r) PROVE EndedFirst'
    BY <1>0, <1>13 DEF AnswerError, ErrorLeaves, Report, QueueWrite, EndedFirst, TypeOK, threadVars,
           ioVars, eventVars, callVars, replyVars, ownerVars, closeVars, peerVars
<1>14. ASSUME FailOnEnd PROVE EndedFirst'
    BY <1>0, <1>14 DEF FailOnEnd, ThreadGoes, EndedFirst, TypeOK, threadVars, ioVars, eventVars,
                       callVars,
           replyVars, ownerVars, closeVars, peerVars
<1>15. ASSUME CloseOnEnd PROVE EndedFirst'
    BY <1>0, <1>15 DEF CloseOnEnd, CancelIo, ThreadGoes, EndedFirst, TypeOK, threadVars, ioVars,
                       eventVars,
           callVars, replyVars, ownerVars, closeVars, peerVars
<1>16. ASSUME NotifyOnEnd PROVE EndedFirst'
    BY <1>0, <1>16 DEF NotifyOnEnd, NotifyClosed, ThreadGoes, EndedFirst, TypeOK, threadVars, ioVars,
           eventVars, callVars, replyVars, ownerVars, closeVars, peerVars
<1>17. ASSUME CloseHandleNow PROVE EndedFirst'
    BY <1>0, <1>17 DEF CloseHandleNow, ThreadGoes, EndedFirst, TypeOK, threadVars, ioVars, eventVars,
           callVars, replyVars, ownerVars, closeVars, peerVars
<1>18. ASSUME NEW c \in Callers, CheckOpen(c) PROVE EndedFirst'
    BY <1>0, <1>18 DEF CheckOpen, CallUnchanged, EndedFirst, TypeOK, threadVars, ioVars, eventVars,
           callVars, replyVars, ownerVars, closeVars, peerVars
<1>19. ASSUME NEW c \in Callers, InsertRequest(c) PROVE EndedFirst'
    BY <1>0, <1>19 DEF InsertRequest, CallUnchanged, EndedFirst, TypeOK, threadVars, ioVars, eventVars,
           callVars, replyVars, ownerVars, closeVars, peerVars
<1>20. ASSUME NEW c \in Callers, QueueRequest(c) PROVE EndedFirst'
    BY <1>0, <1>20 DEF QueueRequest, CallUnchanged, QueueWrite, EndedFirst, TypeOK, threadVars, ioVars,
           eventVars, callVars, replyVars, ownerVars, closeVars, peerVars
<1>21. ASSUME NEW c \in Callers, RequestTooLarge(c) PROVE EndedFirst'
    BY <1>0, <1>21 DEF RequestTooLarge, CallUnchanged, EndedFirst, TypeOK, threadVars, ioVars,
                       eventVars,
           callVars, replyVars, ownerVars, closeVars, peerVars
<1>22. ASSUME NEW c \in Callers, CallReturns(c) PROVE EndedFirst'
    BY <1>0, <1>22 DEF CallReturns, CallUnchanged, EndedFirst, TypeOK, threadVars, ioVars, eventVars,
           callVars, replyVars, ownerVars, closeVars, peerVars
<1>23. ASSUME NEW c \in Callers, CallTimesOut(c) PROVE EndedFirst'
    BY <1>0, <1>23 DEF CallTimesOut, CallUnchanged, EndedFirst, TypeOK, threadVars, ioVars, eventVars,
           callVars, replyVars, ownerVars, closeVars, peerVars
<1>24. ASSUME NEW r \in Requests, TakeRequest(r) PROVE EndedFirst'
    BY <1>0, <1>24 DEF TakeRequest, TakeFromTable, ReplyGoes, ReplyUnchanged, EndedFirst, TypeOK,
           threadVars, ioVars, eventVars, callVars, replyVars, ownerVars, closeVars, peerVars
<1>25. ASSUME NEW r \in Requests, QueueResponse(r) PROVE EndedFirst'
    BY <1>0, <1>25 DEF QueueResponse, ReplyGoes, ReplyUnchanged, QueueWrite, EndedFirst, TypeOK,
           threadVars, ioVars, eventVars, callVars, replyVars, ownerVars, closeVars, peerVars
<1>26. ASSUME NEW r \in Requests, CountResponse(r) PROVE EndedFirst'
    BY <1>0, <1>26 DEF CountResponse, ReplyGoes, ReplyUnchanged, CountsDown, EndedFirst, TypeOK,
           threadVars, ioVars, eventVars, callVars, replyVars, ownerVars, closeVars, peerVars
<1>27. ASSUME OwnerBegins PROVE EndedFirst'
    BY <1>0, <1>27 DEF OwnerBegins, OwnerGoes, OwnerUnchanged, EndedFirst, TypeOK, threadVars, ioVars,
           eventVars, callVars, replyVars, ownerVars, closeVars, peerVars
<1>28. ASSUME WaitForIncomingResponses PROVE EndedFirst'
    BY <1>0, <1>28 DEF WaitForIncomingResponses, OwnerGoes, OwnerUnchanged, EndedFirst, TypeOK,
                       threadVars,
           ioVars, eventVars, callVars, replyVars, ownerVars, closeVars, peerVars
<1>29. ASSUME WaitForPendingWrites PROVE EndedFirst'
    BY <1>0, <1>29 DEF WaitForPendingWrites, OwnerGoes, OwnerUnchanged, EndedFirst, TypeOK, threadVars,
           ioVars, eventVars, callVars, replyVars, ownerVars, closeVars, peerVars
<1>30. ASSUME Close PROVE EndedFirst'
    BY <1>0, <1>30 DEF Close, CloseWith, CancelIo, OwnerGoes, OwnerUnchanged, EndedFirst, TypeOK,
           threadVars, ioVars, eventVars, callVars, replyVars, ownerVars, closeVars, peerVars
<1>31. ASSUME StopMarks PROVE EndedFirst'
    BY <1>0, <1>31 DEF StopMarks, OwnerUnchanged, EndedFirst, TypeOK, threadVars, ioVars, eventVars,
           callVars, replyVars, ownerVars, closeVars, peerVars
<1>32. ASSUME StopFails PROVE EndedFirst'
    BY <1>0, <1>32 DEF StopFails, OwnerGoes, OwnerUnchanged, EndedFirst, TypeOK, threadVars, ioVars,
           eventVars, callVars, replyVars, ownerVars, closeVars, peerVars
<1>33. ASSUME StopJoins PROVE EndedFirst'
    BY <1>0, <1>33 DEF StopJoins, OwnerGoes, OwnerUnchanged, EndedFirst, TypeOK, threadVars, ioVars,
           eventVars, callVars, replyVars, ownerVars, closeVars, peerVars
<1>34. ASSUME StopNotifies PROVE EndedFirst'
    BY <1>0, <1>34 DEF StopNotifies, NotifyClosed, OwnerGoes, OwnerUnchanged, EndedFirst, TypeOK,
           threadVars, ioVars, eventVars, callVars, replyVars, ownerVars, closeVars, peerVars
<1>35. ASSUME ReadCompletes PROVE EndedFirst'
    BY <1>0, <1>35 DEF ReadCompletes, KernelUnchanged, EndedFirst, TypeOK, threadVars, ioVars,
                       eventVars,
           callVars, replyVars, ownerVars, closeVars, peerVars
<1>36. ASSUME WriteCompletes PROVE EndedFirst'
    BY <1>0, <1>36 DEF WriteCompletes, KernelUnchanged, EndedFirst, TypeOK, threadVars, ioVars,
                       eventVars,
           callVars, replyVars, ownerVars, closeVars, peerVars
<1>37. ASSUME NEW m \in Messages, PeerSends(m), m \in Callers \cup Requests => m \notin asked
       PROVE  EndedFirst'
    BY <1>0, <1>37 DEF PeerSends, KernelUnchanged, EndedFirst, TypeOK, threadVars, ioVars, eventVars,
           callVars, replyVars, ownerVars, closeVars, peerVars
<1>38. ASSUME PeerLeaves PROVE EndedFirst'
    BY <1>0, <1>38 DEF PeerLeaves, KernelUnchanged, EndedFirst, TypeOK, threadVars, ioVars, eventVars,
           callVars, replyVars, ownerVars, closeVars, peerVars
<1>39. ASSUME UNCHANGED vars PROVE EndedFirst'
    BY <1>0, <1>39 DEF vars, EndedFirst, TypeOK, threadVars, ioVars, eventVars, callVars, replyVars,
           ownerVars, closeVars, peerVars
<1>q. QED
    BY <1>1, <1>2, <1>3, <1>4, <1>5, <1>6, <1>7, <1>8, <1>9, <1>10, <1>11, <1>12, <1>13, <1>14, <1>15,
       <1>16, <1>17, <1>18, <1>19, <1>20, <1>21, <1>22, <1>23, <1>24, <1>25, <1>26, <1>27, <1>28, <1>29,
       <1>30, <1>31, <1>32, <1>33, <1>34, <1>35, <1>36, <1>37, <1>38, <1>39, NextActions

\* A part which was written moves from the queue to the wire.
LEMMA HeadMoves ==
    ASSUME NEW S, NEW s \in Seq(S), NEW t \in Seq(S), t # << >>
    PROVE  Append(s, Head(t)) \o Tail(t) = s \o t
    OBVIOUS

\* Every step moves the stream in one of these ways, unless it ends the connection.
LEMMA StreamMoves ==
    ASSUME TypeOK, TypeOK', WriteFits, LineFits, EndedFirst, StreamFits, [Next]_vars,
           "write" \notin Faults, Active'
    PROVE  StreamMove
<1>0. /\ TypeOK /\ TypeOK' /\ WriteFits /\ LineFits /\ EndedFirst /\ "write" \notin Faults
      /\ Active' /\ (Active /\ peerOpen => writing # "failed")
    BY DEF StreamFits
<1>1. ASSUME PostRead PROVE StreamMove
  <2>1. UNCHANGED <<peerOpen, wire, writing, sendQueue, caller, reply>> /\ Active
    BY <1>1, <1>0 DEF PostRead, ThreadGoes, ConnectionEnds, Active, threadVars, ioVars, eventVars,
           callVars, replyVars, ownerVars, closeVars, peerVars
  <2>q. QED
    BY <1>0, <2>1, StreamStays DEF Stream, Rest
<1>2. ASSUME SelectRead PROVE StreamMove
  <2>1. UNCHANGED <<peerOpen, wire, writing, sendQueue, caller, reply>> /\ Active
    BY <1>2, <1>0 DEF SelectRead, ThreadGoes, Active, threadVars, ioVars, eventVars, callVars,
                      replyVars,
           ownerVars, closeVars, peerVars
  <2>q. QED
    BY <1>0, <2>1, StreamStays DEF Stream, Rest
<1>3. ASSUME SelectQueued PROVE StreamMove
  <2>1. UNCHANGED <<peerOpen, wire, caller, reply>> /\ Active
    BY <1>3, <1>0 DEF SelectQueued, Active, threadVars, ioVars, eventVars, callVars, replyVars,
                      ownerVars,
           closeVars, peerVars
  <2>2. /\ peerOpen' => writing' # "failed"
        /\ (Stream' = Stream /\ wire' = wire) \/ Lost
    BY <1>0, <1>3, <2>1, StreamStarts DEF SelectQueued
  <2>q. QED
    BY <1>0, <2>1, <2>2, StreamStays
<1>4. ASSUME OnWriteCompleted PROVE StreamMove
  <2>1. UNCHANGED <<peerOpen, wire, caller, reply>> /\ Active
    BY <1>4, <1>0 DEF OnWriteCompleted, CompleteAndIssue, Active, threadVars, ioVars, eventVars,
                      callVars, replyVars, ownerVars, closeVars, peerVars
  <2>2. sendQueue \in Seq(Parts) /\ sendQueue # << >> /\ Released = Tail(sendQueue)
        /\ writing \in {"done", "failed"}
    BY <1>0, <1>4 DEF OnWriteCompleted, CompleteAndIssue, WriteSignalled, WriteFits, TypeOK, Released
  <2>3. /\ peerOpen' => writing' # "failed"
        /\ (Stream' = Stream /\ wire' = wire) \/ Lost
    <3>1. CASE writing = "failed"
      BY <1>0, <1>4, <2>1, <3>1 DEF Lost
    <3>2. CASE writing = "done"
      <4>1. IssueWrite(Tail(sendQueue), FALSE, TRUE)
        BY <1>4, <2>2, <3>2 DEF OnWriteCompleted, CompleteAndIssue, StartNextWrite
      <4>2. (sendQueue' = Tail(sendQueue) /\ writing' \in {"none", "posted"}) \/ ~peerOpen
        BY <1>0, <4>1 DEF IssueWrite
      <4>q. QED
        BY <2>1, <3>2, <4>2 DEF Stream, Rest, Lost
    <3>q. QED
      BY <2>2, <3>1, <3>2
  <2>q. QED
    BY <1>0, <2>1, <2>3, StreamStays
<1>5. ASSUME SelectStop PROVE StreamMove
  <2>1. UNCHANGED <<peerOpen, wire, writing, sendQueue, caller, reply>> /\ Active
    BY <1>5, <1>0 DEF SelectStop, ThreadGoes, Active, threadVars, ioVars, eventVars, callVars,
                      replyVars,
           ownerVars, closeVars, peerVars
  <2>q. QED
    BY <1>0, <2>1, StreamStays DEF Stream, Rest
<1>6. ASSUME OnReadCompleted PROVE StreamMove
  <2>1. UNCHANGED <<peerOpen, wire, writing, sendQueue, caller, reply>> /\ Active
    BY <1>6, <1>0 DEF OnReadCompleted, ConnectionEnds, Active, threadVars, ioVars, eventVars, callVars,
           replyVars, ownerVars, closeVars, peerVars
  <2>q. QED
    BY <1>0, <2>1, StreamStays DEF Stream, Rest
<1>7. ASSUME NEW m \in Callers \cup {"stray"}, AnswerCall(m) PROVE StreamMove
  <2>1. UNCHANGED <<peerOpen, wire, writing, sendQueue, caller, reply>> /\ Active
    BY <1>7, <1>0 DEF AnswerCall, Report, Active, threadVars, ioVars, eventVars, callVars, replyVars,
           ownerVars, closeVars, peerVars
  <2>q. QED
    BY <1>0, <2>1, StreamStays DEF Stream, Rest
<1>8. ASSUME InvalidFrame PROVE StreamMove
  <2>1. UNCHANGED <<peerOpen, wire, writing, sendQueue, caller, reply>> /\ Active
    BY <1>8, <1>0 DEF InvalidFrame, ConnectionEnds, Active, threadVars, ioVars, eventVars, callVars,
           replyVars, ownerVars, closeVars, peerVars
  <2>q. QED
    BY <1>0, <2>1, StreamStays DEF Stream, Rest
<1>9. ASSUME HandlerReturns PROVE StreamMove
  <2>1. UNCHANGED <<peerOpen, wire, writing, sendQueue, caller, reply>> /\ Active
    BY <1>9, <1>0 DEF HandlerReturns, Active, threadVars, ioVars, eventVars, callVars, replyVars,
           ownerVars, closeVars, peerVars
  <2>q. QED
    BY <1>0, <2>1, StreamStays DEF Stream, Rest
<1>10. ASSUME AllReported PROVE StreamMove
  <2>1. UNCHANGED <<peerOpen, wire, writing, sendQueue, caller, reply>> /\ Active
    BY <1>10, <1>0 DEF AllReported, ThreadGoes, Active, threadVars, ioVars, eventVars, callVars,
                       replyVars,
           ownerVars, closeVars, peerVars
  <2>q. QED
    BY <1>0, <2>1, StreamStays DEF Stream, Rest
<1>11. ASSUME AfterRead PROVE StreamMove
  <2>1. UNCHANGED <<peerOpen, wire, caller, reply>> /\ Active
    BY <1>11, <1>0 DEF AfterRead, ThreadGoes, Active, threadVars, ioVars, eventVars, callVars,
                       replyVars,
           ownerVars, closeVars, peerVars
  <2>2. /\ peerOpen' => writing' # "failed"
        /\ (Stream' = Stream /\ wire' = wire) \/ Lost
    BY <1>0, <1>11, <2>1, StreamStarts DEF AfterRead
  <2>q. QED
    BY <1>0, <2>1, <2>2, StreamStays
<1>12. ASSUME NEW r \in Requests, DispatchRequest(r) PROVE StreamMove
  <2>0. reply[r] = "none"
    BY <1>0, <1>12, LineHead DEF DispatchRequest, LineFits
  <2>1. UNCHANGED <<peerOpen, wire, writing, sendQueue, caller>> /\ Active
    BY <1>12, <1>0 DEF DispatchRequest, Active, threadVars, ioVars, eventVars, callVars, replyVars,
           ownerVars, closeVars, peerVars
  <2>2. \A q \in Requests : \/ reply'[q] = reply[q]
                            \/ reply'[q] = "held" /\ reply[q] = "none"
                            \/ reply'[q] = "erased" /\ reply[q] = "held"
                            \/ reply'[q] \in {"again", "done"} /\ reply[q] \in {"queued", "again"}
    BY <1>12, <1>0, <2>0 DEF DispatchRequest, TypeOK
  <2>q. QED
    BY <1>0, <2>1, <2>2, StreamStays DEF Stream, Rest
<1>13. ASSUME NEW r \in Requests, AnswerError(r) PROVE StreamMove
  <2>0. reply[r] = "none"
    BY <1>0, <1>13, LineHead DEF AnswerError, ErrorLeaves, LineFits
  <2>1. UNCHANGED <<peerOpen, wire, writing, caller>> /\ Active /\ QueueWrite(r)
    BY <1>13, <1>0 DEF AnswerError, ErrorLeaves, Active, threadVars, ioVars, eventVars, callVars,
                       replyVars, ownerVars, closeVars, peerVars
  <2>2. reply'[r] = "done" /\ \A q \in Requests : q # r => reply'[q] = reply[q]
    BY <1>13, <1>0 DEF AnswerError, ErrorLeaves, TypeOK
  <2>3. ~WasSent(r) /\ WasSent(r)'
    BY <2>0, <2>2, SessionNames DEF WasSent
  <2>q. QED
    BY <1>0, <2>1, <2>2, <2>3, StreamGrows
<1>14. ASSUME FailOnEnd PROVE StreamMove
  <2>1. UNCHANGED <<peerOpen, wire, writing, sendQueue, caller, reply>> /\ Active
    BY <1>14, <1>0 DEF FailOnEnd, FailPending, ThreadGoes, Active, threadVars, ioVars, eventVars,
                       callVars,
           replyVars, ownerVars, closeVars, peerVars
  <2>q. QED
    BY <1>0, <2>1, StreamStays DEF Stream, Rest
<1>15. ASSUME CloseOnEnd PROVE StreamMove
  <2>1. FALSE
    BY <1>0, <1>15 DEF CloseOnEnd, EndedFirst, Active, closeVars
  <2>q. QED
    BY <2>1
<1>16. ASSUME NotifyOnEnd PROVE StreamMove
  <2>1. UNCHANGED <<peerOpen, wire, writing, sendQueue, caller, reply>> /\ Active
    BY <1>16, <1>0 DEF NotifyOnEnd, NotifyClosed, ThreadGoes, Active, threadVars, ioVars, eventVars,
           callVars, replyVars, ownerVars, closeVars, peerVars
  <2>q. QED
    BY <1>0, <2>1, StreamStays DEF Stream, Rest
<1>17. ASSUME CloseHandleNow PROVE StreamMove
  <2>1. UNCHANGED <<peerOpen, wire, writing, sendQueue, caller, reply>> /\ Active
    BY <1>17, <1>0 DEF CloseHandleNow, ThreadGoes, Active, threadVars, ioVars, eventVars, callVars,
           replyVars, ownerVars, closeVars, peerVars
  <2>q. QED
    BY <1>0, <2>1, StreamStays DEF Stream, Rest
<1>18. ASSUME NEW c \in Callers, CheckOpen(c) PROVE StreamMove
  <2>1. UNCHANGED <<peerOpen, wire, writing, sendQueue, reply>> /\ Active
    BY <1>18, <1>0 DEF CheckOpen, CallUnchanged, Active, threadVars, ioVars, eventVars, callVars,
           replyVars, ownerVars, closeVars, peerVars
  <2>2. \A d \in Callers : caller[d] \in {"waiting", "done"} => caller'[d] \in {"waiting", "done"}
    BY <1>18, <1>0 DEF CheckOpen, TypeOK
  <2>q. QED
    BY <1>0, <2>1, <2>2, StreamStays DEF Stream, Rest
<1>19. ASSUME NEW c \in Callers, InsertRequest(c) PROVE StreamMove
  <2>1. UNCHANGED <<peerOpen, wire, writing, sendQueue, reply>> /\ Active
    BY <1>19, <1>0 DEF InsertRequest, CallUnchanged, Active, threadVars, ioVars, eventVars, callVars,
           replyVars, ownerVars, closeVars, peerVars
  <2>2. \A d \in Callers : caller[d] \in {"waiting", "done"} => caller'[d] \in {"waiting", "done"}
    BY <1>19, <1>0 DEF InsertRequest, TypeOK
  <2>q. QED
    BY <1>0, <2>1, <2>2, StreamStays DEF Stream, Rest
<1>20. ASSUME NEW c \in Callers, QueueRequest(c) PROVE StreamMove
  <2>1. UNCHANGED <<peerOpen, wire, writing, reply>> /\ Active /\ caller[c] = "inserted"
        /\ QueueWrite(c)
    BY <1>20, <1>0 DEF QueueRequest, CallUnchanged, Active, threadVars, ioVars, eventVars, callVars,
                       replyVars, ownerVars, closeVars, peerVars
  <2>2. caller'[c] = "waiting" /\ \A d \in Callers : d # c => caller'[d] = caller[d]
    BY <1>20, <1>0 DEF QueueRequest, TypeOK
  <2>3. ~WasSent(c) /\ WasSent(c)'
    BY <2>1, <2>2, SessionNames DEF WasSent
  <2>q. QED
    BY <1>0, <2>1, <2>2, <2>3, StreamGrows
<1>21. ASSUME NEW c \in Callers, RequestTooLarge(c) PROVE StreamMove
  <2>1. UNCHANGED <<peerOpen, wire, writing, sendQueue, reply>> /\ Active
    BY <1>21, <1>0 DEF RequestTooLarge, CallUnchanged, Active, threadVars, ioVars, eventVars, callVars,
           replyVars, ownerVars, closeVars, peerVars
  <2>2. \A d \in Callers : caller[d] \in {"waiting", "done"} => caller'[d] \in {"waiting", "done"}
    BY <1>21, <1>0 DEF RequestTooLarge, TypeOK
  <2>q. QED
    BY <1>0, <2>1, <2>2, StreamStays DEF Stream, Rest
<1>22. ASSUME NEW c \in Callers, CallReturns(c) PROVE StreamMove
  <2>1. UNCHANGED <<peerOpen, wire, writing, sendQueue, reply>> /\ Active
    BY <1>22, <1>0 DEF CallReturns, CallUnchanged, Active, threadVars, ioVars, eventVars, callVars,
           replyVars, ownerVars, closeVars, peerVars
  <2>2. \A d \in Callers : caller[d] \in {"waiting", "done"} => caller'[d] \in {"waiting", "done"}
    BY <1>22, <1>0 DEF CallReturns, TypeOK
  <2>q. QED
    BY <1>0, <2>1, <2>2, StreamStays DEF Stream, Rest
<1>23. ASSUME NEW c \in Callers, CallTimesOut(c) PROVE StreamMove
  <2>1. UNCHANGED <<peerOpen, wire, writing, sendQueue, reply>> /\ Active
    BY <1>23, <1>0 DEF CallTimesOut, CallUnchanged, Active, threadVars, ioVars, eventVars, callVars,
           replyVars, ownerVars, closeVars, peerVars
  <2>2. \A d \in Callers : caller[d] \in {"waiting", "done"} => caller'[d] \in {"waiting", "done"}
    BY <1>23, <1>0 DEF CallTimesOut, TypeOK
  <2>q. QED
    BY <1>0, <2>1, <2>2, StreamStays DEF Stream, Rest
<1>24. ASSUME NEW r \in Requests, TakeRequest(r) PROVE StreamMove
  <2>1. UNCHANGED <<peerOpen, wire, writing, sendQueue, caller>> /\ Active
    BY <1>24, <1>0 DEF TakeRequest, TakeFromTable, ReplyGoes, ReplyUnchanged, Active, threadVars,
                       ioVars,
           eventVars, callVars, replyVars, ownerVars, closeVars, peerVars
  <2>2. \A q \in Requests : \/ reply'[q] = reply[q]
                            \/ reply'[q] = "held" /\ reply[q] = "none"
                            \/ reply'[q] = "erased" /\ reply[q] = "held"
                            \/ reply'[q] \in {"again", "done"} /\ reply[q] \in {"queued", "again"}
    BY <1>24, <1>0 DEF TakeRequest, TakeFromTable, ReplyGoes, ReplyUnchanged, TypeOK
  <2>q. QED
    BY <1>0, <2>1, <2>2, StreamStays DEF Stream, Rest
<1>25. ASSUME NEW r \in Requests, QueueResponse(r) PROVE StreamMove
  <2>1. UNCHANGED <<peerOpen, wire, writing, caller>> /\ Active /\ reply[r] = "erased"
    BY <1>25, <1>0 DEF QueueResponse, ReplyGoes, ReplyUnchanged, Active, threadVars, ioVars, eventVars,
                       callVars, replyVars, ownerVars, closeVars, peerVars
  <2>2. reply'[r] = "queued" /\ \A q \in Requests : q # r => reply'[q] = reply[q]
    BY <1>25, <1>0 DEF QueueResponse, ReplyGoes, TypeOK
  <2>3. ~WasSent(r) /\ WasSent(r)'
    BY <2>1, <2>2, SessionNames DEF WasSent
  <2>4. CASE QueueWrite(r)
    BY <1>0, <2>1, <2>2, <2>3, <2>4, StreamGrows
  <2>5. CASE "unsent" \in Faults /\ UNCHANGED <<sendQueue, writeQueued>>
    BY <1>0, <2>1, <2>2, <2>5, StreamStays DEF Stream, Rest
  <2>q. QED
    BY <1>25, <2>4, <2>5 DEF QueueResponse
<1>26. ASSUME NEW r \in Requests, CountResponse(r) PROVE StreamMove
  <2>1. UNCHANGED <<peerOpen, wire, writing, sendQueue, caller>> /\ Active
    BY <1>26, <1>0 DEF CountResponse, ReplyGoes, ReplyUnchanged, Active, threadVars, ioVars, eventVars,
           callVars, replyVars, ownerVars, closeVars, peerVars
  <2>2. \A q \in Requests : \/ reply'[q] = reply[q]
                            \/ reply'[q] = "held" /\ reply[q] = "none"
                            \/ reply'[q] = "erased" /\ reply[q] = "held"
                            \/ reply'[q] \in {"again", "done"} /\ reply[q] \in {"queued", "again"}
    BY <1>26, <1>0 DEF CountResponse, ReplyGoes, ReplyUnchanged, TypeOK
  <2>q. QED
    BY <1>0, <2>1, <2>2, StreamStays DEF Stream, Rest
<1>27. ASSUME OwnerBegins PROVE StreamMove
  <2>1. UNCHANGED <<peerOpen, wire, writing, sendQueue, caller, reply>> /\ Active
    BY <1>27, <1>0 DEF OwnerBegins, OwnerGoes, OwnerUnchanged, Active, threadVars, ioVars, eventVars,
           callVars, replyVars, ownerVars, closeVars, peerVars
  <2>q. QED
    BY <1>0, <2>1, StreamStays DEF Stream, Rest
<1>28. ASSUME WaitForIncomingResponses PROVE StreamMove
  <2>1. UNCHANGED <<peerOpen, wire, writing, sendQueue, caller, reply>> /\ Active
    BY <1>28, <1>0 DEF WaitForIncomingResponses, OwnerGoes, OwnerUnchanged, Active, threadVars, ioVars,
           eventVars, callVars, replyVars, ownerVars, closeVars, peerVars
  <2>q. QED
    BY <1>0, <2>1, StreamStays DEF Stream, Rest
<1>29. ASSUME WaitForPendingWrites PROVE StreamMove
  <2>1. UNCHANGED <<peerOpen, wire, writing, sendQueue, caller, reply>> /\ Active
    BY <1>29, <1>0 DEF WaitForPendingWrites, OwnerGoes, OwnerUnchanged, Active, threadVars, ioVars,
           eventVars, callVars, replyVars, ownerVars, closeVars, peerVars
  <2>q. QED
    BY <1>0, <2>1, StreamStays DEF Stream, Rest
<1>30. ASSUME Close PROVE StreamMove
  <2>1. FALSE
    BY <1>0, <1>30 DEF Close, CloseWith, OwnerGoes, Active
  <2>q. QED
    BY <2>1
<1>31. ASSUME StopMarks PROVE StreamMove
  <2>1. UNCHANGED <<peerOpen, wire, writing, sendQueue, caller, reply>> /\ Active
    BY <1>31, <1>0 DEF StopMarks, OwnerUnchanged, Active, threadVars, ioVars, eventVars, callVars,
           replyVars, ownerVars, closeVars, peerVars
  <2>q. QED
    BY <1>0, <2>1, StreamStays DEF Stream, Rest
<1>32. ASSUME StopFails PROVE StreamMove
  <2>1. UNCHANGED <<peerOpen, wire, writing, sendQueue, caller, reply>> /\ Active
    BY <1>32, <1>0 DEF StopFails, FailPending, OwnerGoes, OwnerUnchanged, Active, threadVars, ioVars,
           eventVars, callVars, replyVars, ownerVars, closeVars, peerVars
  <2>q. QED
    BY <1>0, <2>1, StreamStays DEF Stream, Rest
<1>33. ASSUME StopJoins PROVE StreamMove
  <2>1. UNCHANGED <<peerOpen, wire, writing, sendQueue, caller, reply>> /\ Active
    BY <1>33, <1>0 DEF StopJoins, OwnerGoes, OwnerUnchanged, Active, threadVars, ioVars, eventVars,
           callVars, replyVars, ownerVars, closeVars, peerVars
  <2>q. QED
    BY <1>0, <2>1, StreamStays DEF Stream, Rest
<1>34. ASSUME StopNotifies PROVE StreamMove
  <2>1. UNCHANGED <<peerOpen, wire, writing, sendQueue, caller, reply>> /\ Active
    BY <1>34, <1>0 DEF StopNotifies, NotifyClosed, OwnerGoes, OwnerUnchanged, Active, threadVars,
                       ioVars,
           eventVars, callVars, replyVars, ownerVars, closeVars, peerVars
  <2>q. QED
    BY <1>0, <2>1, StreamStays DEF Stream, Rest
<1>35. ASSUME ReadCompletes PROVE StreamMove
  <2>1. UNCHANGED <<peerOpen, wire, writing, sendQueue, caller, reply>> /\ Active
    BY <1>35, <1>0 DEF ReadCompletes, KernelUnchanged, Active, threadVars, ioVars, eventVars, callVars,
           replyVars, ownerVars, closeVars, peerVars
  <2>q. QED
    BY <1>0, <2>1, StreamStays DEF Stream, Rest
<1>36. ASSUME WriteCompletes PROVE StreamMove
  <2>1. UNCHANGED <<peerOpen, sendQueue, caller, reply>> /\ Active /\ writing = "posted"
    BY <1>36, <1>0 DEF WriteCompletes, KernelUnchanged, Active, threadVars, ioVars, eventVars, callVars,
                       replyVars, ownerVars, closeVars, peerVars
  <2>2. CASE ~peerOpen /\ wire' = wire
    BY <1>0, <2>1, <2>2, StreamStays DEF Lost
  <2>3. CASE peerOpen /\ writing' = "done" /\ wire' = Append(wire, Head(sendQueue))
    <3>1. sendQueue \in Seq(Parts) /\ sendQueue # << >> /\ wire \in Seq(Parts)
      BY <1>0, <2>1 DEF TypeOK, WriteFits
    <3>2. Stream' = Append(wire, Head(sendQueue)) \o Tail(sendQueue) /\ Stream = wire \o sendQueue
      BY <2>1, <2>3 DEF Stream, Rest
    <3>3. Stream' = Stream
      BY <3>1, <3>2, HeadMoves
    <3>4. Wrote
      BY <2>1, <2>3, <3>3 DEF Wrote
    <3>5. Kept /\ \A r \in Requests : Sends(r) /\ Settled(r)
      BY <2>1 DEF Kept, Sends, Settled, WasSent
    <3>q. QED
      BY <2>1, <2>3, <3>4, <3>5 DEF StreamMove
  <2>q. QED
    BY <1>0, <1>36, <2>2, <2>3 DEF WriteCompletes
<1>37. ASSUME NEW m \in Messages, PeerSends(m), m \in Callers \cup Requests => m \notin asked
       PROVE  StreamMove
  <2>1. UNCHANGED <<peerOpen, wire, writing, sendQueue, caller, reply>> /\ Active
    BY <1>37, <1>0 DEF PeerSends, KernelUnchanged, Active, threadVars, ioVars, eventVars, callVars,
           replyVars, ownerVars, closeVars, peerVars
  <2>q. QED
    BY <1>0, <2>1, StreamStays DEF Stream, Rest
<1>38. ASSUME PeerLeaves PROVE StreamMove
  <2>1. UNCHANGED <<wire, writing, sendQueue, caller, reply>> /\ Active /\ ~peerOpen'
    BY <1>38, <1>0 DEF PeerLeaves, KernelUnchanged, Active, threadVars, ioVars, eventVars, callVars,
                       replyVars, ownerVars, closeVars, peerVars
  <2>q. QED
    BY <1>0, <2>1, StreamStays DEF Stream, Rest
<1>39. ASSUME UNCHANGED vars PROVE StreamMove
  <2>1. UNCHANGED <<peerOpen, wire, writing, sendQueue, caller, reply>> /\ Active
    BY <1>39, <1>0 DEF vars, Active, threadVars, ioVars, eventVars, callVars, replyVars, ownerVars,
           closeVars, peerVars
  <2>q. QED
    BY <1>0, <2>1, StreamStays DEF Stream, Rest
<1>q. QED
    BY <1>1, <1>2, <1>3, <1>4, <1>5, <1>6, <1>7, <1>8, <1>9, <1>10, <1>11, <1>12, <1>13, <1>14, <1>15,
       <1>16, <1>17, <1>18, <1>19, <1>20, <1>21, <1>22, <1>23, <1>24, <1>25, <1>26, <1>27, <1>28, <1>29,
       <1>30, <1>31, <1>32, <1>33, <1>34, <1>35, <1>36, <1>37, <1>38, <1>39, NextActions

\* Whole frames, and one more of a message which is not among them.
LEMMA FramesGrow ==
    ASSUME NEW s \in Seq(Parts), Frames(s), Len(s) % 2 = 0, NEW m \in Callers \cup Requests,
           \A i \in 1 .. Len(s) : s[i][2] # m
    PROVE  /\ Frames(s \o <<Header(m), Payload(m)>>)
           /\ Len(s \o <<Header(m), Payload(m)>>) % 2 = 0
<1> DEFINE n == Len(s)
<1> DEFINE w == s \o <<Header(m), Payload(m)>>
<1>1. n \in Nat /\ n % 2 = 0 /\ (n + 1) % 2 = 1 /\ (n + 2) % 2 = 0
    OBVIOUS
<1>2. Len(w) = n + 2
    BY DEF Header, Payload
<1>3. w[n + 1] = Header(m) /\ w[n + 2] = Payload(m) /\ \A i \in 1 .. n : w[i] = s[i]
    OBVIOUS
<1>4. Header(m)[1] = "header" /\ Header(m)[2] = m /\ Payload(m)[1] = "payload" /\ Payload(m)[2] = m
    BY DEF Header, Payload
<1> HIDE DEF w, n
<1>5. \A i \in 1 .. n : s[i] # Header(m) /\ s[i] # Payload(m)
    BY <1>4 DEF n
<1>6. ASSUME NEW i \in 1 .. n
      PROVE  /\ w[i][1] = IF i % 2 = 1 THEN "header" ELSE "payload"
             /\ i % 2 = 0 => w[i][2] = w[i - 1][2]
             /\ \A k \in 1 .. i - 1 : w[i] # w[k]
  <2>1. w[i] = s[i] /\ (i % 2 = 0 => i - 1 \in 1 .. n) /\ \A k \in 1 .. i - 1 : k \in 1 .. n
    BY <1>1, <1>3, <1>6
  <2>q. QED
    BY <1>1, <1>3, <1>6, <2>1 DEF Frames, n
<1>7. \A k \in 1 .. n : w[n + 1] # w[k]
    BY <1>1, <1>3, <1>5
<1>8. \A k \in 1 .. n + 1 : w[n + 2] # w[k]
  <2>1. w[n + 2] # w[n + 1]
    BY <1>3, <1>4
  <2>2. \A k \in 1 .. n + 1 : k = n + 1 \/ k \in 1 .. n
    BY <1>1
  <2>q. QED
    BY <1>1, <1>3, <1>5, <2>1, <2>2
<1>9. \A i \in 1 .. Len(w) : i \in 1 .. n \/ i = n + 1 \/ i = n + 2
    BY <1>1, <1>2
<1>10. ASSUME NEW i \in 1 .. Len(w)
       PROVE  /\ w[i][1] = IF i % 2 = 1 THEN "header" ELSE "payload"
              /\ i % 2 = 0 => w[i][2] = w[i - 1][2]
              /\ \A k \in 1 .. i - 1 : w[i] # w[k]
  <2>1. CASE i \in 1 .. n
    BY <1>6, <2>1
  <2>2. CASE i = n + 1
    BY <1>1, <1>3, <1>4, <1>7, <2>2
  <2>3. CASE i = n + 2
    BY <1>1, <1>3, <1>4, <1>8, <2>3
  <2>q. QED
    BY <1>9, <2>1, <2>2, <2>3
<1>11. Frames(w)
    BY <1>10 DEF Frames
<1>q. QED
    BY <1>1, <1>2, <1>11 DEF w

\* What the peer got is the beginning of the stream.
LEMMA FramesBegin ==
    ASSUME NEW s \in Seq(Parts), NEW t \in Seq(Parts), Frames(s \o t)
    PROVE  Frames(s)
<1>1. Len(s) \in Nat /\ Len(s) <= Len(s \o t) /\ \A i \in 1 .. Len(s) : (s \o t)[i] = s[i]
    OBVIOUS
<1>2. ASSUME NEW i \in 1 .. Len(s)
      PROVE  /\ s[i][1] = IF i % 2 = 1 THEN "header" ELSE "payload"
             /\ i % 2 = 0 => s[i][2] = s[i - 1][2]
             /\ \A k \in 1 .. i - 1 : s[i] # s[k]
  <2>1. i \in 1 .. Len(s \o t) /\ (i % 2 = 0 => i - 1 \in 1 .. Len(s))
        /\ \A k \in 1 .. i - 1 : k \in 1 .. Len(s)
    BY <1>1, <1>2
  <2>q. QED
    BY <1>1, <2>1 DEF Frames
<1>q. QED
    BY <1>2 DEF Frames

LEMMA StreamTypes ==
    ASSUME TypeOK, WriteFits
    PROVE  wire \in Seq(Parts) /\ Rest \in Seq(Parts) /\ Stream \in Seq(Parts)
    BY DEF TypeOK, WriteFits, Rest, Stream

\* The stream consists of whole frames of messages which were sent.
LEMMA StreamStep ==
    ASSUME SessionInv, SessionInv', EndedFirst, StreamFits, [Next]_vars
    PROVE  StreamFits'
<1>1. SUFFICES ASSUME "write" \notin Faults, Active'
      PROVE /\ Frames(wire')
            /\ peerOpen' => /\ writing' # "failed"
                            /\ Frames(Stream')
                            /\ Len(Stream') % 2 = 0
                            /\ AllSent'
    BY DEF StreamFits, Frames
<1>2. StreamMove
    BY <1>1, StreamMoves DEF SessionInv
<1>3. wire \in Seq(Parts) /\ Stream \in Seq(Parts)
      /\ wire' \in Seq(Parts) /\ Rest' \in Seq(Parts) /\ Stream' \in Seq(Parts)
    BY StreamTypes DEF SessionInv, TypeOK, WriteFits, Rest, Stream
<1>4. Frames(wire)
    BY <1>1, <1>2 DEF StreamFits, StreamMove
<1>5. peerOpen' \/ Wrote => /\ peerOpen /\ Frames(Stream) /\ Len(Stream) % 2 = 0
                            /\ AllSent
    BY <1>1, <1>2 DEF StreamFits, StreamMove, Wrote
<1>6. \A i \in 1 .. Len(Stream) : Stream[i] \in Parts /\ Stream[i][2] \in Callers \cup Requests
    BY <1>3 DEF Parts
<1>7. CASE Still
  <2>1. Frames(wire') /\ (peerOpen' => Frames(Stream'))
    BY <1>4, <1>5, <1>7 DEF Still
  <2>2. peerOpen' => AllSent'
    BY <1>2, <1>5, <1>6, <1>7 DEF Still, Kept, AllSent, WasSent, StreamMove
  <2>q. QED
    BY <1>2, <1>5, <1>7, <2>1, <2>2 DEF Still, StreamMove
<1>8. CASE Wrote
  <2>1. Frames(Stream')
    BY <1>5, <1>8 DEF Wrote
  <2>2. Frames(wire')
    <3>1. Stream' = wire' \o Rest'
      BY DEF Stream
    <3>q. QED
      BY <1>3, <2>1, <3>1, FramesBegin
  <2>3. AllSent'
    BY <1>2, <1>5, <1>6, <1>8 DEF Wrote, Kept, AllSent, WasSent, StreamMove
  <2>q. QED
    BY <1>2, <1>5, <1>8, <2>1, <2>2, <2>3 DEF Wrote, StreamMove
<1>9. CASE Lost
    BY <1>4, <1>9 DEF Lost
<1>10. ASSUME NEW m \in Callers \cup Requests, Grows(m)
       PROVE  /\ Frames(wire')
              /\ peerOpen' => /\ writing' # "failed"
                              /\ Frames(Stream')
                              /\ Len(Stream') % 2 = 0
                              /\ AllSent'
  <2>1. Frames(wire')
    BY <1>4, <1>10 DEF Grows
  <2>2. CASE ~peerOpen'
    BY <2>1, <2>2
  <2>3. CASE peerOpen'
    <3>1. \A i \in 1 .. Len(Stream) : Stream[i][2] # m
      BY <1>5, <1>10, <2>3 DEF Grows, AllSent
    <3>2. Frames(Stream') /\ Len(Stream') % 2 = 0
      BY <1>3, <1>5, <1>10, <2>3, <3>1, FramesGrow DEF Grows
    <3>3. ASSUME NEW i \in 1 .. Len(Stream'), NEW k, k = Stream'[i][2] PROVE WasSent(k)'
      <4>1. \/ i \in 1 .. Len(Stream) /\ Stream'[i] = Stream[i]
            \/ Stream'[i] = Header(m) \/ Stream'[i] = Payload(m)
        BY <1>3, <1>10, <3>3 DEF Grows
      <4>2. CASE i \in 1 .. Len(Stream) /\ Stream'[i] = Stream[i]
        BY <1>2, <1>5, <1>6, <2>3, <3>3, <4>2 DEF AllSent, StreamMove, Kept
      <4>3. CASE Stream'[i] = Header(m) \/ Stream'[i] = Payload(m)
        BY <1>10, <3>3, <4>3 DEF Grows, Header, Payload
      <4>q. QED
        BY <4>1, <4>2, <4>3
    <3>4. AllSent'
      BY <3>3 DEF AllSent, WasSent
    <3>q. QED
      BY <1>2, <2>1, <2>3, <3>2, <3>4 DEF StreamMove
  <2>q. QED
    BY <2>2, <2>3
<1>q. QED
    BY <1>2, <1>7, <1>8, <1>9, <1>10 DEF StreamMove

LEMMA StreamHolds == Spec => []StreamInv
<1>1. Init => StreamInv
  <2>1. Init => SessionInv
    BY SessionInit
  <2>2. Init => EndedFirst
    BY DEF Init, EndedFirst
  <2>3. Init => Stream = << >> /\ wire = << >>
    BY DEF Init, Stream, Rest
  <2>4. ASSUME Init PROVE StreamFits
    BY <2>3, <2>4 DEF Init, StreamFits, Frames, AllSent
  <2>q. QED
    BY <2>1, <2>2, <2>4 DEF StreamInv
<1>2. ASSUME StreamInv, [Next]_vars PROVE StreamInv'
  <2>1. SessionInv'
    BY <1>2, SessionStep DEF StreamInv
  <2>2. EndedFirst'
    BY <1>2, EndedStep DEF StreamInv, SessionInv
  <2>3. StreamFits'
    BY <1>2, <2>1, StreamStep DEF StreamInv
  <2>q. QED
    BY <2>1, <2>2, <2>3 DEF StreamInv
<1>q. QED
    BY <1>1, <1>2, PTL DEF Spec

\* WireIsFramed: as long as nobody ends the connection, the peer gets whole frames, each
\* of them once. A write which fails although the peer is there would lose one of the
\* parts which wait.
THEOREM FramesStayWhole ==
    ASSUME "write" \notin Faults
    PROVE  Spec => []WireIsFramed
<1>1. StreamInv => WireIsFramed
    BY DEF StreamInv, StreamFits, Active, Frames, WireIsFramed
<1>q. QED
    BY <1>1, StreamHolds, PTL
-----------------------------------------------------------------------------
(* The drain of the owner.                                                 *)

\* What holds a part holds it after more was added.
LEMMA HoldsMore ==
    ASSUME NEW S, NEW s \in Seq(S), NEW t \in Seq(S), NEW x, Holds(s, x)
    PROVE  Holds(s \o t, x)
<1>1. PICK i \in DOMAIN s : s[i] = x
    BY DEF Holds
<1>2. i \in DOMAIN (s \o t) /\ (s \o t)[i] = x
    BY <1>1
<1>q. QED
    BY <1>2 DEF Holds

LEMMA HoldsLast ==
    ASSUME NEW s \in Seq(Parts), NEW m \in Callers \cup Requests
    PROVE  Holds(s \o <<Header(m), Payload(m)>>, Payload(m))
<1> DEFINE w == s \o <<Header(m), Payload(m)>>
<1>1. Len(s) + 2 \in DOMAIN w /\ w[Len(s) + 2] = Payload(m)
    BY DEF Header, Payload
<1>q. QED
    BY <1>1 DEF Holds

LEMMA HoldsAppended ==
    ASSUME NEW S, NEW s \in Seq(S), NEW y \in S, NEW x, Holds(s, x)
    PROVE  Holds(Append(s, y), x)
<1>1. PICK i \in DOMAIN s : s[i] = x
    BY DEF Holds
<1>2. i \in DOMAIN Append(s, y) /\ Append(s, y)[i] = x
    BY <1>1
<1>q. QED
    BY <1>2 DEF Holds

\* The owner does nothing, or one of the steps of its drain.
OwnerMove ==
    \/ UNCHANGED ownerVars
    \/ owner' = "waitAnswers"
    \/ WaitForIncomingResponses
    \/ WaitForPendingWrites

\* Until the connection ends, the owner serves or drains.
LEMMA OwnerMoves ==
    ASSUME Active', [Next]_vars
    PROVE  OwnerMove
<1>0. Active'
    OBVIOUS
<1>1. ASSUME PostRead PROVE OwnerMove
    BY <1>0, <1>1 DEF PostRead, CallUnchanged, ReplyUnchanged, KernelUnchanged, CompleteAndIssue,
           ErrorLeaves, TakeFromTable, OwnerMove, Active
<1>2. ASSUME SelectRead PROVE OwnerMove
    BY <1>0, <1>2 DEF SelectRead, CallUnchanged, ReplyUnchanged, KernelUnchanged, CompleteAndIssue,
           ErrorLeaves, TakeFromTable, OwnerMove, Active
<1>3. ASSUME SelectQueued PROVE OwnerMove
    BY <1>0, <1>3 DEF SelectQueued, CallUnchanged, ReplyUnchanged, KernelUnchanged, CompleteAndIssue,
           ErrorLeaves, TakeFromTable, OwnerMove, Active
<1>4. ASSUME OnWriteCompleted PROVE OwnerMove
    BY <1>0, <1>4 DEF OnWriteCompleted, CallUnchanged, ReplyUnchanged, KernelUnchanged,
                      CompleteAndIssue,
           ErrorLeaves, TakeFromTable, OwnerMove, Active
<1>5. ASSUME SelectStop PROVE OwnerMove
    BY <1>0, <1>5 DEF SelectStop, CallUnchanged, ReplyUnchanged, KernelUnchanged, CompleteAndIssue,
           ErrorLeaves, TakeFromTable, OwnerMove, Active
<1>6. ASSUME OnReadCompleted PROVE OwnerMove
    BY <1>0, <1>6 DEF OnReadCompleted, CallUnchanged, ReplyUnchanged, KernelUnchanged, CompleteAndIssue,
           ErrorLeaves, TakeFromTable, OwnerMove, Active
<1>7. ASSUME NEW m \in Callers \cup {"stray"}, AnswerCall(m) PROVE OwnerMove
    BY <1>0, <1>7 DEF AnswerCall, CallUnchanged, ReplyUnchanged, KernelUnchanged, CompleteAndIssue,
           ErrorLeaves, TakeFromTable, OwnerMove, Active
<1>8. ASSUME InvalidFrame PROVE OwnerMove
    BY <1>0, <1>8 DEF InvalidFrame, CallUnchanged, ReplyUnchanged, KernelUnchanged, CompleteAndIssue,
           ErrorLeaves, TakeFromTable, OwnerMove, Active
<1>9. ASSUME HandlerReturns PROVE OwnerMove
    BY <1>0, <1>9 DEF HandlerReturns, CallUnchanged, ReplyUnchanged, KernelUnchanged, CompleteAndIssue,
           ErrorLeaves, TakeFromTable, OwnerMove, Active
<1>10. ASSUME AllReported PROVE OwnerMove
    BY <1>0, <1>10 DEF AllReported, CallUnchanged, ReplyUnchanged, KernelUnchanged, CompleteAndIssue,
           ErrorLeaves, TakeFromTable, OwnerMove, Active
<1>11. ASSUME AfterRead PROVE OwnerMove
    BY <1>0, <1>11 DEF AfterRead, CallUnchanged, ReplyUnchanged, KernelUnchanged, CompleteAndIssue,
           ErrorLeaves, TakeFromTable, OwnerMove, Active
<1>12. ASSUME NEW r \in Requests, DispatchRequest(r) PROVE OwnerMove
    BY <1>0, <1>12 DEF DispatchRequest, CallUnchanged, ReplyUnchanged, KernelUnchanged,
                       CompleteAndIssue,
           ErrorLeaves, TakeFromTable, OwnerMove, Active
<1>13. ASSUME NEW r \in Requests, AnswerError(r) PROVE OwnerMove
    BY <1>0, <1>13 DEF AnswerError, CallUnchanged, ReplyUnchanged, KernelUnchanged, CompleteAndIssue,
           ErrorLeaves, TakeFromTable, OwnerMove, Active
<1>14. ASSUME FailOnEnd PROVE OwnerMove
    BY <1>0, <1>14 DEF FailOnEnd, CallUnchanged, ReplyUnchanged, KernelUnchanged, CompleteAndIssue,
           ErrorLeaves, TakeFromTable, OwnerMove, Active
<1>15. ASSUME CloseOnEnd PROVE OwnerMove
    BY <1>0, <1>15 DEF CloseOnEnd, CallUnchanged, ReplyUnchanged, KernelUnchanged, CompleteAndIssue,
           ErrorLeaves, TakeFromTable, OwnerMove, Active
<1>16. ASSUME NotifyOnEnd PROVE OwnerMove
    BY <1>0, <1>16 DEF NotifyOnEnd, CallUnchanged, ReplyUnchanged, KernelUnchanged, CompleteAndIssue,
           ErrorLeaves, TakeFromTable, OwnerMove, Active
<1>17. ASSUME CloseHandleNow PROVE OwnerMove
    BY <1>0, <1>17 DEF CloseHandleNow, CallUnchanged, ReplyUnchanged, KernelUnchanged, CompleteAndIssue,
           ErrorLeaves, TakeFromTable, OwnerMove, Active
<1>18. ASSUME NEW c \in Callers, CheckOpen(c) PROVE OwnerMove
    BY <1>0, <1>18 DEF CheckOpen, CallUnchanged, ReplyUnchanged, KernelUnchanged, CompleteAndIssue,
           ErrorLeaves, TakeFromTable, OwnerMove, Active
<1>19. ASSUME NEW c \in Callers, InsertRequest(c) PROVE OwnerMove
    BY <1>0, <1>19 DEF InsertRequest, CallUnchanged, ReplyUnchanged, KernelUnchanged, CompleteAndIssue,
           ErrorLeaves, TakeFromTable, OwnerMove, Active
<1>20. ASSUME NEW c \in Callers, QueueRequest(c) PROVE OwnerMove
    BY <1>0, <1>20 DEF QueueRequest, CallUnchanged, ReplyUnchanged, KernelUnchanged, CompleteAndIssue,
           ErrorLeaves, TakeFromTable, OwnerMove, Active
<1>21. ASSUME NEW c \in Callers, RequestTooLarge(c) PROVE OwnerMove
    BY <1>0, <1>21 DEF RequestTooLarge, CallUnchanged, ReplyUnchanged, KernelUnchanged,
                       CompleteAndIssue,
           ErrorLeaves, TakeFromTable, OwnerMove, Active
<1>22. ASSUME NEW c \in Callers, CallReturns(c) PROVE OwnerMove
    BY <1>0, <1>22 DEF CallReturns, CallUnchanged, ReplyUnchanged, KernelUnchanged, CompleteAndIssue,
           ErrorLeaves, TakeFromTable, OwnerMove, Active
<1>23. ASSUME NEW c \in Callers, CallTimesOut(c) PROVE OwnerMove
    BY <1>0, <1>23 DEF CallTimesOut, CallUnchanged, ReplyUnchanged, KernelUnchanged, CompleteAndIssue,
           ErrorLeaves, TakeFromTable, OwnerMove, Active
<1>24. ASSUME NEW r \in Requests, TakeRequest(r) PROVE OwnerMove
    BY <1>0, <1>24 DEF TakeRequest, CallUnchanged, ReplyUnchanged, KernelUnchanged, CompleteAndIssue,
           ErrorLeaves, TakeFromTable, OwnerMove, Active
<1>25. ASSUME NEW r \in Requests, QueueResponse(r) PROVE OwnerMove
    BY <1>0, <1>25 DEF QueueResponse, CallUnchanged, ReplyUnchanged, KernelUnchanged, CompleteAndIssue,
           ErrorLeaves, TakeFromTable, OwnerMove, Active
<1>26. ASSUME NEW r \in Requests, CountResponse(r) PROVE OwnerMove
    BY <1>0, <1>26 DEF CountResponse, CallUnchanged, ReplyUnchanged, KernelUnchanged, CompleteAndIssue,
           ErrorLeaves, TakeFromTable, OwnerMove, Active
<1>27. ASSUME OwnerBegins PROVE OwnerMove
    BY <1>0, <1>27 DEF OwnerBegins, OwnerGoes, OwnerUnchanged, OwnerMove, Active
<1>28. ASSUME WaitForIncomingResponses PROVE OwnerMove
    BY <1>28 DEF OwnerMove
<1>29. ASSUME WaitForPendingWrites PROVE OwnerMove
    BY <1>29 DEF OwnerMove
<1>30. ASSUME Close PROVE OwnerMove
    BY <1>0, <1>30 DEF Close, CloseWith, CancelIo, OwnerGoes, OwnerUnchanged, OwnerMove, Active
<1>31. ASSUME StopMarks PROVE OwnerMove
    BY <1>0, <1>31 DEF StopMarks, OwnerUnchanged, OwnerMove, Active
<1>32. ASSUME StopFails PROVE OwnerMove
    BY <1>0, <1>32 DEF StopFails, FailPending, OwnerGoes, OwnerUnchanged, OwnerMove, Active
<1>33. ASSUME StopJoins PROVE OwnerMove
    BY <1>0, <1>33 DEF StopJoins, OwnerGoes, OwnerUnchanged, OwnerMove, Active
<1>34. ASSUME StopNotifies PROVE OwnerMove
    BY <1>0, <1>34 DEF StopNotifies, NotifyClosed, OwnerGoes, OwnerUnchanged, OwnerMove, Active
<1>35. ASSUME ReadCompletes PROVE OwnerMove
    BY <1>0, <1>35 DEF ReadCompletes, CallUnchanged, ReplyUnchanged, KernelUnchanged, CompleteAndIssue,
           ErrorLeaves, TakeFromTable, OwnerMove, Active
<1>36. ASSUME WriteCompletes PROVE OwnerMove
    BY <1>0, <1>36 DEF WriteCompletes, CallUnchanged, ReplyUnchanged, KernelUnchanged, CompleteAndIssue,
           ErrorLeaves, TakeFromTable, OwnerMove, Active
<1>37. ASSUME NEW m \in Messages, PeerSends(m), m \in Callers \cup Requests => m \notin asked
       PROVE  OwnerMove
    BY <1>0, <1>37 DEF PeerSends, CallUnchanged, ReplyUnchanged, KernelUnchanged, CompleteAndIssue,
           ErrorLeaves, TakeFromTable, OwnerMove, Active
<1>38. ASSUME PeerLeaves PROVE OwnerMove
    BY <1>0, <1>38 DEF PeerLeaves, CallUnchanged, ReplyUnchanged, KernelUnchanged, CompleteAndIssue,
           ErrorLeaves, TakeFromTable, OwnerMove, Active
<1>39. ASSUME UNCHANGED vars PROVE OwnerMove
    BY <1>39 DEF vars, OwnerMove
<1>q. QED
    BY <1>1, <1>2, <1>3, <1>4, <1>5, <1>6, <1>7, <1>8, <1>9, <1>10, <1>11, <1>12, <1>13, <1>14, <1>15,
       <1>16, <1>17, <1>18, <1>19, <1>20, <1>21, <1>22, <1>23, <1>24, <1>25, <1>26, <1>27, <1>28, <1>29,
       <1>30, <1>31, <1>32, <1>33, <1>34, <1>35, <1>36, <1>37, <1>38, <1>39, NextActions

\* Every answer is in the stream, and those of the requests which a drain covers reach the
\* peer before the drain ends.
LEMMA DrainStep ==
    ASSUME StreamInv, StreamInv', DrainFits, [Next]_vars
    PROVE  DrainFits'
<1> DEFINE Sent(r) == reply[r] \in {"queued", "again", "done"}
<1>1. SUFFICES ASSUME {"write", "twice", "unsent"} \cap Faults = {}, Active', peerOpen'
      PROVE /\ \A r \in Requests : Sent(r)' => Holds(Stream', Payload(r))
            /\ drained' /\ owner' = "waitWrites" => \A r \in covered' : reply'[r] \in {"again", "done"}
            /\ drained' /\ owner' = "close" => \A r \in covered' : Holds(wire', Payload(r))
    BY DEF DrainFits
<1>2. "write" \notin Faults /\ "twice" \notin Faults /\ "unsent" \notin Faults
    BY <1>1
<1>3. StreamMove
    BY <1>1, <1>2, StreamMoves DEF StreamInv, SessionInv
<1>4. Active /\ peerOpen /\ ~Lost
    BY <1>1, <1>3 DEF StreamMove, Lost
<1>5. /\ \A r \in Requests : Sent(r) => Holds(Stream, Payload(r))
      /\ drained /\ owner = "waitWrites" => \A r \in covered : reply[r] \in {"again", "done"}
      /\ drained /\ owner = "close" => \A r \in covered : Holds(wire, Payload(r))
    BY <1>1, <1>4 DEF DrainFits
<1>6. /\ wire \in Seq(Parts) /\ Stream \in Seq(Parts) /\ sendQueue \in Seq(Parts)
      /\ covered \subseteq Requests /\ covered' \subseteq Requests
      /\ TypeOK /\ WriteFits /\ CountFits
    BY StreamTypes DEF StreamInv, SessionInv, TypeOK
<1>7. \A r \in Requests : Holds(Stream, Payload(r)) => Holds(Stream', Payload(r))
  <2>1. ASSUME NEW m \in Callers \cup Requests, Grows(m), NEW r \in Requests, Holds(Stream, Payload(r))
        PROVE  Holds(Stream', Payload(r))
    <3>1. <<Header(m), Payload(m)>> \in Seq(Parts)
      BY DEF Header, Payload, Parts
    <3>q. QED
      BY <1>6, <2>1, <3>1, HoldsMore DEF Grows
  <2>2. CASE Still \/ Wrote
    BY <2>2 DEF Still, Wrote
  <2>q. QED
    BY <1>3, <1>4, <2>1, <2>2 DEF StreamMove
<1>8. \A r \in Requests : Holds(wire, Payload(r)) => Holds(wire', Payload(r))
  <2>1. CASE Wrote
    <3>1. Head(sendQueue) \in Parts
      BY <1>6, <2>1 DEF Wrote, WriteFits
    <3>q. QED
      BY <1>6, <2>1, <3>1, HoldsAppended DEF Wrote
  <2>2. ~Wrote => wire' = wire
    BY <1>3 DEF StreamMove, Still, Lost, Grows
  <2>q. QED
    BY <2>1, <2>2
<1>9. ASSUME NEW r \in Requests, Sent(r)' PROVE Holds(Stream', Payload(r))
  <2>1. CASE Sent(r)
    BY <1>5, <1>7, <2>1
  <2>2. CASE ~Sent(r)
    <3>1. Grows(r)
      BY <1>1, <1>2, <1>3, <1>9, <2>2, SessionNames DEF StreamMove, Sends, WasSent
    <3>q. QED
      BY <1>6, <3>1, HoldsLast DEF Grows
  <2>q. QED
    BY <2>1, <2>2
<1>10. OwnerMove
    BY <1>1, OwnerMoves
<1>11. CASE UNCHANGED ownerVars
  <2>1. owner' = owner /\ covered' = covered /\ drained' = drained
    BY <1>11 DEF ownerVars
  <2>2. \A r \in covered : reply[r] \in {"again", "done"} => reply'[r] \in {"again", "done"}
    BY <1>3, <1>6 DEF StreamMove, Settled
  <2>q. QED
    BY <1>5, <1>6, <1>8, <1>9, <2>1, <2>2
<1>12. CASE owner' = "waitAnswers"
    BY <1>9, <1>12
<1>13. CASE WaitForIncomingResponses
  <2>1. owner' = "waitWrites" /\ covered' = {r \in Requests : reply[r] # "none"} /\ reply' = reply
        /\ (drained' => inflight = 0)
    BY <1>13 DEF WaitForIncomingResponses, OwnerGoes, OwnerUnchanged, replyVars
  <2>2. ASSUME drained', NEW r \in covered' PROVE reply'[r] \in {"again", "done"}
    <3>1. Cardinality(Busy) = 0 /\ IsFiniteSet(Busy)
      BY <1>2, <1>6, <2>1, <2>2, CountRoom DEF CountFits
    <3>2. Busy = {}
      BY <3>1, FS_EmptySet
    <3>3. reply[r] # "none" /\ r \in Requests
      BY <2>1, <2>2
    <3>q. QED
      BY <1>6, <2>1, <3>2, <3>3 DEF Busy, TypeOK
  <2>q. QED
    BY <1>9, <2>1, <2>2
<1>14. CASE WaitForPendingWrites
  <2>1. /\ owner = "waitWrites" /\ owner' = "close" /\ covered' = covered /\ wire' = wire
        /\ drained' => drained /\ ~inWrite /\ sendQueue = << >>
    BY <1>14 DEF WaitForPendingWrites, OwnerGoes, OwnerUnchanged
  <2>2. ASSUME drained', NEW r \in covered' PROVE Holds(wire', Payload(r))
    <3>1. Stream = wire
      BY <1>6, <2>1, <2>2 DEF Stream, Rest, WriteFits
    <3>2. reply[r] \in {"again", "done"}
      BY <1>5, <2>1, <2>2
    <3>3. Holds(Stream, Payload(r))
      BY <1>5, <1>6, <2>1, <2>2, <3>2
    <3>q. QED
      BY <2>1, <3>1, <3>3
  <2>q. QED
    BY <1>9, <2>1, <2>2
<1>q. QED
    BY <1>10, <1>11, <1>12, <1>13, <1>14 DEF OwnerMove

\* DrainIsComplete: a drain whose two waits came back in time has brought the answer of
\* every request it covers to the peer. A handler which answers twice counts down for
\* another one, an answer which does not fit is never queued, and a write which fails is
\* not written again: each of them lets the drain end too early.
THEOREM DrainsAreComplete ==
    ASSUME {"write", "twice", "unsent"} \cap Faults = {}
    PROVE  Spec => []DrainIsComplete
<1>1. Init => DrainFits
    BY DEF Init, DrainFits
<1>2. ASSUME StreamInv, StreamInv', DrainFits, [Next]_vars PROVE DrainFits'
    BY <1>2, DrainStep
<1>3. DrainFits => DrainIsComplete
    BY DEF DrainFits, DrainIsComplete, Active
<1>q. QED
    BY <1>1, <1>2, <1>3, StreamHolds, PTL DEF Spec
=============================================================================
