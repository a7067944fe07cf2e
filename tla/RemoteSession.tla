---------------------------- MODULE RemoteSession ----------------------------
(***************************************************************************)
(* One end of a connection over a named pipe                               *)
(* (common/details/RemoteSessionDetail.hpp): a thread completes the reads   *)
(* and writes of the pipe and dispatches the requests of the peer, callers  *)
(* send requests and wait for their answers, handlers answer the requests   *)
(* of the peer from any thread, and an owner drains and stops the session.  *)
(*                                                                         *)
(* A message is the name of what it is about; the peer is the environment.  *)
(* Every message travels as two parts, its frame header and its payload,    *)
(* which are two entries of the send queue and two writes of the pipe.      *)
(***************************************************************************)
EXTENDS Naturals, Sequences, FiniteSets

CONSTANTS
    Callers,    \* the calls of this end, one request each
    Requests,   \* the requests of the peer
    MaxInbound, \* how many messages of the peer the pipe holds
    Faults      \* what goes wrong, a subset of SessionFaults

\* "stray": the peer sends an answer nobody waits for; "flood": it does so for ever;
\* "junk": it sends what is no frame; "leave": it closes its end; "write": a write fails
\* although the peer is there; "large": a request does not fit into a frame;
\* "unsent": an answer does not; "twice": a handler answers a request again; "timeout": a caller gives up.
SessionFaults == {"stray", "flood", "junk", "leave", "write", "large", "unsent", "twice", "timeout"}

ASSUME SessionAssumption ==
    /\ IsFiniteSet(Callers)
    /\ IsFiniteSet(Requests)
    /\ Callers \cap Requests = {}
    /\ {"stray", "junk"} \cap (Callers \cup Requests) = {}
    /\ MaxInbound \in Nat \ {0}
    /\ Faults \subseteq SessionFaults

VARIABLES
    thread,      \* where the thread of the session is
    after,       \* where it goes on after OnConnectionEnded()
    handling,    \* the requests whose handler runs on the thread
    pipe,        \* the handle of the pipe is open
    reading,     \* the overlapped read, whose end signals read_event
    writing,     \* the overlapped write, whose end signals write_event
    writeQueued, \* write_queued_event
    stopEvent,   \* stop_event
    ended,       \* the connection ended
    received,    \* the messages of recv_data which are not reported yet
    sendQueue,   \* the parts which wait for the pipe
    inWrite,     \* a write is in flight
    pending,     \* the calls of the table of the requests sent
    caller,      \* where every call is
    outcome,     \* what the promise of every call holds
    incoming,    \* the table of the requests received
    inflight,    \* the requests which are not answered
    reply,       \* where SendResponse() is for every request
    owner,       \* where the owner is in its drain and Stop()
    covered,     \* the requests received when the first wait of the drain returned true
    drained,     \* both waits of the drain returned true
    notified,    \* how often the closed handler was called
    hasHandler,  \* the closed handler is set
    peerOpen,    \* the other end is open
    inbound,     \* the messages the peer sent
    wire,        \* the parts the peer got
    asked        \* what the peer sent so far

threadVars == <<thread, after, handling, received>>
ioVars     == <<pipe, reading, writing, inWrite>>
eventVars  == <<writeQueued, stopEvent>>
callVars   == <<pending, caller, outcome>>
replyVars  == <<incoming, inflight, reply>>
ownerVars  == <<owner, covered, drained>>
closeVars  == <<ended, notified, hasHandler>>
peerVars   == <<peerOpen, inbound, asked>>
vars == <<threadVars, ioVars, eventVars, sendQueue, callVars, replyVars, ownerVars, closeVars,
          peerVars, wire>>

Messages == Callers \cup Requests \cup {"stray", "junk"}

\* The two entries of one message in the send queue.
Header(m)  == <<"header", m>>
Payload(m) == <<"payload", m>>
Parts      == {"header", "payload"} \X (Callers \cup Requests)

TypeOK ==
    /\ thread \in {"post", "select", "read", "report", "handler", "afterRead", "fail", "cancel",
                   "notify", "close", "gone"}
    /\ after \in {"afterRead", "close"}
    /\ handling \subseteq Requests
    /\ pipe \in BOOLEAN
    /\ reading \in {"none", "posted", "done", "failed"}
    /\ writing \in {"none", "posted", "done", "failed"}
    /\ {writeQueued, stopEvent, ended, inWrite, hasHandler, drained, peerOpen} \subseteq BOOLEAN
    /\ received \in Seq(Messages)
    /\ sendQueue \in Seq(Parts)
    /\ pending \subseteq Callers
    /\ caller \in [Callers -> {"idle", "checked", "inserted", "waiting", "done", "crashed"}]
    /\ outcome \in [Callers -> {"none", "answer", "closed", "decode", "aborted", "timeout"}]
    /\ incoming \subseteq Requests
    /\ inflight \in 0 .. Cardinality(Requests)
    /\ reply \in [Requests -> {"none", "held", "erased", "queued", "again", "done"}]
    /\ owner \in {"serve", "waitAnswers", "waitWrites", "close", "stop", "fail", "cancel", "join",
                  "notify", "stopped"}
    /\ covered \subseteq Requests
    /\ notified \in Nat
    /\ inbound \in Seq(Messages)
    /\ wire \in Seq(Parts)
    /\ asked \subseteq Messages

Init ==
    /\ thread = "post"
    /\ after = "close"
    /\ handling = {}
    /\ received = << >>
    /\ pipe = TRUE
    /\ reading = "none"
    /\ writing = "none"
    /\ inWrite = FALSE
    /\ writeQueued = FALSE
    /\ stopEvent = FALSE
    /\ sendQueue = << >>
    /\ pending = {}
    /\ caller = [c \in Callers |-> "idle"]
    /\ outcome = [c \in Callers |-> "none"]
    /\ incoming = {}
    /\ inflight = 0
    /\ reply = [r \in Requests |-> "none"]
    /\ owner = "serve"
    /\ covered = {}
    /\ drained = FALSE
    /\ ended = FALSE
    /\ notified = 0
    /\ hasHandler = TRUE
    /\ peerOpen = TRUE
    /\ inbound = << >>
    /\ asked = {}
    /\ wire = << >>
-----------------------------------------------------------------------------
(* The send queue.                                                         *)

Holds(s, x) == \E i \in DOMAIN s : s[i] = x

\* QueueWrite(): both parts under one lock, then the event.
QueueWrite(m) ==
    /\ sendQueue' = sendQueue \o <<Header(m), Payload(m)>>
    /\ writeQueued' = TRUE

\* The write of the front of the queue q; one which fails at once releases its part and
\* leaves the rest where it is.
IssueWrite(q, busy, clear) ==
    \/ /\ ~clear \/ q = << >>
       /\ sendQueue' = q
       /\ inWrite' = busy
       /\ writing' = IF busy THEN writing ELSE "none"
    \/ /\ clear /\ q # << >> /\ peerOpen
       /\ sendQueue' = q
       /\ inWrite' = TRUE
       /\ writing' = "posted"
    \/ /\ clear /\ q # << >>
       /\ ~peerOpen \/ "write" \in Faults
       /\ sendQueue' = Tail(q)
       /\ inWrite' = FALSE
       /\ writing' = "none"

\* Mutant: a write is issued although one is in flight.
StartNextWriteAlways(q, busy) == IssueWrite(q, busy, TRUE)

\* StartNextWrite(): one write is in flight at a time.
StartNextWrite(q, busy) == IssueWrite(q, busy, ~busy)

\* CompleteWrite(): the front of the queue is released, whatever became of it.
Released == IF sendQueue = << >> THEN << >> ELSE Tail(sendQueue)

\* CancelIoEx(): the I/O in flight fails.
CancelIo ==
    /\ reading' = IF reading = "posted" THEN "failed" ELSE reading
    /\ writing' = IF writing = "posted" THEN "failed" ELSE writing

\* FailPending(): every call of the table is answered with the code.
FailPending(code) ==
    /\ pending' = {}
    /\ outcome' = [c \in Callers |-> IF c \in pending THEN code ELSE outcome[c]]
    /\ UNCHANGED caller

\* Mutant: the handler is called without being released.
NotifyKeepsHandler ==
    /\ notified' = IF hasHandler THEN notified + 1 ELSE notified
    /\ UNCHANGED <<hasHandler, ended>>

\* NotifyClosed(): the handler leaves the session before it is called.
NotifyClosed ==
    /\ notified' = IF hasHandler THEN notified + 1 ELSE notified
    /\ hasHandler' = FALSE
    /\ UNCHANGED ended
-----------------------------------------------------------------------------
(* The thread of the session: Run() and what it calls.                     *)

ThreadGoes(to) == thread' = to /\ UNCHANGED <<after, handling, received>>

\* OnConnectionEnded() up to its exchange of `ended`.
ConnectionEnds(then) ==
    /\ ended' = TRUE
    /\ thread' = IF ended THEN then ELSE "fail"
    /\ after' = then
    /\ UNCHANGED <<handling, received, notified, hasHandler>>

PostRead ==
    /\ thread = "post"
    /\ \/ /\ peerOpen \/ inbound # << >>
          /\ reading' = "posted"
          /\ ThreadGoes("select")
          /\ UNCHANGED closeVars
       \/ /\ ~peerOpen /\ inbound = << >>
          /\ ConnectionEnds("close")
          /\ UNCHANGED reading
    /\ UNCHANGED <<pipe, writing, inWrite, eventVars, sendQueue, callVars, replyVars, ownerVars,
                   peerVars, wire>>

\* WaitForMultipleObjects names the first event which is signalled.
ReadSignalled  == reading \in {"done", "failed"}
WriteSignalled == writing \in {"done", "failed"}

SelectRead ==
    /\ thread = "select"
    /\ ReadSignalled
    /\ ThreadGoes("read")
    /\ UNCHANGED <<ioVars, eventVars, sendQueue, callVars, replyVars, ownerVars, closeVars, peerVars,
                   wire>>

SelectQueued ==
    /\ thread = "select"
    /\ ~ReadSignalled
    /\ writeQueued
    /\ writeQueued' = FALSE
    /\ StartNextWrite(sendQueue, inWrite)
    /\ UNCHANGED <<threadVars, pipe, reading, stopEvent, callVars, replyVars, ownerVars, closeVars,
                   peerVars, wire>>

\* A write which failed releases its part; only one which succeeded issues the next one.
CompleteAndIssue(issue) ==
    /\ thread = "select"
    /\ ~ReadSignalled /\ ~writeQueued
    /\ WriteSignalled
    /\ IF writing = "done" /\ issue
       THEN StartNextWrite(Released, FALSE)
       ELSE /\ sendQueue' = Released
            /\ inWrite' = FALSE
            /\ writing' = "none"
    /\ UNCHANGED <<threadVars, pipe, reading, eventVars, callVars, replyVars, ownerVars, closeVars,
                   peerVars, wire>>

\* Mutant: a completed write does not issue the next one.
WriteCompletedOnly == CompleteAndIssue(FALSE)

OnWriteCompleted == CompleteAndIssue(TRUE)

SelectStop ==
    /\ thread = "select"
    /\ ~ReadSignalled /\ ~writeQueued /\ ~WriteSignalled
    /\ stopEvent
    /\ stopEvent' = FALSE
    /\ ThreadGoes("close")
    /\ UNCHANGED <<ioVars, writeQueued, sendQueue, callVars, replyVars, ownerVars, closeVars,
                   peerVars, wire>>

\* A read which ended: the connection is over, or some messages are in the buffer.
OnReadCompleted ==
    /\ thread = "read"
    /\ reading' = "none"
    /\ \/ /\ reading = "failed"
          /\ ConnectionEnds("close")
          /\ UNCHANGED inbound
       \/ /\ reading = "done"
          /\ \E n \in 1 .. Len(inbound) :
                /\ received' = received \o SubSeq(inbound, 1, n)
                /\ inbound' = SubSeq(inbound, n + 1, Len(inbound))
          /\ thread' = "report"
          /\ UNCHANGED <<after, handling, closeVars>>
    /\ UNCHANGED <<pipe, writing, inWrite, eventVars, sendQueue, callVars, replyVars, ownerVars,
                   peerOpen, asked, wire>>

Report(m) ==
    /\ thread = "report"
    /\ received # << >>
    /\ Head(received) = m

\* The message m answers the call of its name; an answer nobody waits for is dropped.
AnswerCall(m) ==
    /\ Report(m)
    /\ received' = Tail(received)
    /\ pending' = pending \ {m}
    /\ outcome' = [c \in Callers |-> IF c \in pending \cap {m} THEN "answer" ELSE outcome[c]]
    /\ UNCHANGED <<thread, after, handling, ioVars, eventVars, sendQueue, caller, replyVars,
                   ownerVars, closeVars, peerVars, wire>>

OnAnswer == \E m \in Callers \cup {"stray"} : AnswerCall(m)

\* DispatchRequest(): the handler answers on the thread, or keeps the id for another one.
DispatchRequest(r) ==
    /\ Report(r)
    /\ received' = Tail(received)
    /\ incoming' = incoming \cup {r}
    /\ inflight' = inflight + 1
    /\ reply' = [reply EXCEPT ![r] = "held"]
    /\ \/ thread' = "handler" /\ handling' = {r}
       \/ UNCHANGED <<thread, handling>>
    /\ UNCHANGED <<after, ioVars, eventVars, sendQueue, callVars, ownerVars, closeVars, peerVars,
                   wire>>

\* No handler is registered, or the message is malformed.
ErrorLeaves(r) ==
    /\ Report(r)
    /\ received' = Tail(received)
    /\ QueueWrite(r)
    /\ reply' = [reply EXCEPT ![r] = "done"]
    /\ UNCHANGED <<thread, after, handling, ioVars, stopEvent, callVars, incoming, ownerVars,
                   closeVars, peerVars, wire>>

AnswerError(r) == ErrorLeaves(r) /\ UNCHANGED inflight

\* A frame which is no frame stays in the buffer and ends the connection.
InvalidFrame ==
    /\ Report("junk")
    /\ ConnectionEnds("afterRead")
    /\ UNCHANGED <<ioVars, eventVars, sendQueue, callVars, replyVars, ownerVars, peerVars, wire>>

HandlerReturns ==
    /\ thread = "handler"
    /\ \A r \in handling : reply[r] = "done"
    /\ thread' = "report"
    /\ handling' = {}
    /\ UNCHANGED <<after, received, ioVars, eventVars, sendQueue, callVars, replyVars, ownerVars,
                   closeVars, peerVars, wire>>

AllReported ==
    /\ thread = "report"
    /\ received = << >>
    /\ ThreadGoes("afterRead")
    /\ UNCHANGED <<ioVars, eventVars, sendQueue, callVars, replyVars, ownerVars, closeVars, peerVars,
                   wire>>

\* The answers which were queued leave before the next read.
AfterRead ==
    /\ thread = "afterRead"
    /\ StartNextWrite(sendQueue, inWrite)
    /\ ThreadGoes("post")
    /\ UNCHANGED <<pipe, reading, eventVars, callVars, replyVars, ownerVars, closeVars, peerVars,
                   wire>>

\* OnConnectionEnded(): FailPending(), Close(), NotifyClosed().
FailOnEnd ==
    /\ thread = "fail"
    /\ FailPending(IF after = "afterRead" THEN "decode" ELSE "closed")
    /\ ThreadGoes("cancel")
    /\ UNCHANGED <<ioVars, eventVars, sendQueue, replyVars, ownerVars, closeVars, peerVars, wire>>

CloseOnEnd ==
    /\ thread = "cancel"
    /\ CancelIo
    /\ stopEvent' = TRUE
    /\ ThreadGoes("notify")
    /\ UNCHANGED <<pipe, inWrite, writeQueued, sendQueue, callVars, replyVars, ownerVars, closeVars,
                   peerVars, wire>>

NotifyOnEnd ==
    /\ thread = "notify"
    /\ NotifyClosed
    /\ ThreadGoes(after)
    /\ UNCHANGED <<ioVars, eventVars, sendQueue, callVars, replyVars, ownerVars, peerVars, wire>>

CloseHandleNow ==
    /\ thread = "close"
    /\ pipe' = FALSE
    /\ ThreadGoes("gone")
    /\ UNCHANGED <<reading, writing, inWrite, eventVars, sendQueue, callVars, replyVars, ownerVars,
                   closeVars, peerVars, wire>>

Thread ==
    \/ PostRead
    \/ SelectRead \/ SelectQueued \/ OnWriteCompleted \/ SelectStop
    \/ OnReadCompleted \/ OnAnswer \/ InvalidFrame \/ HandlerReturns \/ AllReported \/ AfterRead
    \/ \E r \in Requests : DispatchRequest(r) \/ AnswerError(r)
    \/ FailOnEnd \/ CloseOnEnd \/ NotifyOnEnd \/ CloseHandleNow
-----------------------------------------------------------------------------
(* SendRequest() and the timed Call().                                     *)

CallUnchanged ==
    UNCHANGED <<threadVars, ioVars, stopEvent, replyVars, ownerVars, closeVars, peerVars, wire>>

\* Mutant: the call does not look at the end of the connection.
CheckHandleOnly(c) ==
    /\ caller[c] = "idle"
    /\ caller' = [caller EXCEPT ![c] = IF pipe THEN "checked" ELSE "done"]
    /\ outcome' = [outcome EXCEPT ![c] = IF pipe THEN "none" ELSE "closed"]
    /\ UNCHANGED <<writeQueued, sendQueue, pending>>
    /\ CallUnchanged

CheckOpen(c) ==
    /\ caller[c] = "idle"
    /\ IF ended \/ ~pipe
       THEN /\ caller' = [caller EXCEPT ![c] = "done"]
            /\ outcome' = [outcome EXCEPT ![c] = "closed"]
       ELSE /\ caller' = [caller EXCEPT ![c] = "checked"]
            /\ UNCHANGED outcome
    /\ UNCHANGED <<writeQueued, sendQueue, pending>>
    /\ CallUnchanged

InsertRequest(c) ==
    /\ caller[c] = "checked"
    /\ pending' = pending \cup {c}
    /\ caller' = [caller EXCEPT ![c] = "inserted"]
    /\ UNCHANGED <<writeQueued, sendQueue, outcome>>
    /\ CallUnchanged

QueueRequest(c) ==
    /\ caller[c] = "inserted"
    /\ QueueWrite(c)
    /\ caller' = [caller EXCEPT ![c] = "waiting"]
    /\ UNCHANGED <<pending, outcome>>
    /\ CallUnchanged

\* A request which does not fit is answered at once; a promise which holds an answer
\* already throws out of a function which must not throw.
RequestTooLarge(c) ==
    /\ "large" \in Faults
    /\ caller[c] = "inserted"
    /\ pending' = pending \ {c}
    /\ IF outcome[c] = "none"
       THEN /\ outcome' = [outcome EXCEPT ![c] = "decode"]
            /\ caller' = [caller EXCEPT ![c] = "done"]
       ELSE /\ caller' = [caller EXCEPT ![c] = "crashed"]
            /\ UNCHANGED outcome
    /\ UNCHANGED <<writeQueued, sendQueue>>
    /\ CallUnchanged

CallReturns(c) ==
    /\ caller[c] = "waiting"
    /\ outcome[c] # "none"
    /\ caller' = [caller EXCEPT ![c] = "done"]
    /\ UNCHANGED <<writeQueued, sendQueue, pending, outcome>>
    /\ CallUnchanged

\* The budget of the call is used up: the request is dropped from the table.
CallTimesOut(c) ==
    /\ "timeout" \in Faults
    /\ caller[c] = "waiting"
    /\ outcome[c] = "none"
    /\ pending' = pending \ {c}
    /\ outcome' = [outcome EXCEPT ![c] = "timeout"]
    /\ caller' = [caller EXCEPT ![c] = "done"]
    /\ UNCHANGED <<writeQueued, sendQueue>>
    /\ CallUnchanged

SendRequest(c) ==
    \/ CheckOpen(c) \/ InsertRequest(c) \/ QueueRequest(c) \/ RequestTooLarge(c)
    \/ CallReturns(c) \/ CallTimesOut(c)
-----------------------------------------------------------------------------
(* SendResponse(), on the thread of the session or on any other.           *)

ReplyUnchanged ==
    UNCHANGED <<threadVars, ioVars, stopEvent, callVars, ownerVars, closeVars, peerVars, wire>>

ReplyGoes(r, from, to) ==
    /\ reply[r] = from
    /\ reply' = [reply EXCEPT ![r] = to]

CountsDown == inflight' = IF inflight > 0 THEN inflight - 1 ELSE 0

TakeFromTable(r) ==
    /\ ReplyGoes(r, "held", "erased")
    /\ incoming' = incoming \ {r}
    /\ UNCHANGED <<writeQueued, sendQueue>>
    /\ ReplyUnchanged

\* Mutant: the request is counted as answered before its answer is queued.
TakeRequestAndCount(r) == TakeFromTable(r) /\ CountsDown

TakeRequest(r) == TakeFromTable(r) /\ UNCHANGED inflight

QueueResponse(r) ==
    /\ ReplyGoes(r, "erased", "queued")
    /\ \/ QueueWrite(r)
       \/ "unsent" \in Faults /\ UNCHANGED <<sendQueue, writeQueued>>
    /\ UNCHANGED <<incoming, inflight>>
    /\ ReplyUnchanged

\* The counter goes down for every call, whether or not the request was in the table.
CountResponse(r) ==
    /\ \/ ReplyGoes(r, "queued", "done")
       \/ "twice" \in Faults /\ ReplyGoes(r, "queued", "again")
       \/ ReplyGoes(r, "again", "done")
    /\ CountsDown
    /\ UNCHANGED <<incoming, writeQueued, sendQueue>>
    /\ ReplyUnchanged

SendResponse(r) == TakeRequest(r) \/ QueueResponse(r) \/ CountResponse(r)
-----------------------------------------------------------------------------
(* The owner: the drain of RemoteAccepter::Stop(), Close() and Stop().      *)

OwnerUnchanged ==
    UNCHANGED <<threadVars, inWrite, writeQueued, sendQueue, replyVars, peerVars, wire>>

OwnerGoes(from, to) == owner = from /\ owner' = to

\* The owner drains the session first, or stops it at once.
OwnerBegins ==
    /\ OwnerGoes("serve", "waitAnswers") \/ OwnerGoes("serve", "stop")
    /\ UNCHANGED <<covered, drained, pipe, reading, writing, stopEvent, callVars, closeVars>>
    /\ OwnerUnchanged

\* WaitForIncomingResponses() and WaitForPendingWrites(), which may run out of time.
WaitForIncomingResponses ==
    /\ OwnerGoes("waitAnswers", "waitWrites")
    /\ drained' \in BOOLEAN
    /\ drained' => inflight = 0
    /\ covered' = {r \in Requests : reply[r] # "none"}
    /\ UNCHANGED <<pipe, reading, writing, stopEvent, callVars, closeVars>>
    /\ OwnerUnchanged

WaitForPendingWrites ==
    /\ OwnerGoes("waitWrites", "close")
    /\ drained' \in BOOLEAN
    /\ drained' => drained /\ ~inWrite /\ sendQueue = << >>
    /\ UNCHANGED <<covered, pipe, reading, writing, stopEvent, callVars, closeVars>>
    /\ OwnerUnchanged

\* Close(), by the owner which drained and again by Stop().
CloseWith(signal) ==
    /\ OwnerGoes("close", "stop") \/ OwnerGoes("cancel", "join")
    /\ IF pipe
       THEN /\ CancelIo
            /\ stopEvent' = (stopEvent \/ signal)
       ELSE UNCHANGED <<reading, writing, stopEvent>>
    /\ UNCHANGED <<covered, drained, pipe, callVars, closeVars>>
    /\ OwnerUnchanged

\* Mutant: the I/O is cancelled and the thread is not told to leave.
CloseOnlyCancels == CloseWith(FALSE)

Close == CloseWith(TRUE)

StopMarks ==
    /\ owner = "stop"
    /\ owner' = IF ended THEN "cancel" ELSE "fail"
    /\ ended' = TRUE
    /\ UNCHANGED <<covered, drained, notified, hasHandler, pipe, reading, writing, stopEvent,
                   callVars>>
    /\ OwnerUnchanged

StopFails ==
    /\ OwnerGoes("fail", "cancel")
    /\ FailPending("aborted")
    /\ UNCHANGED <<covered, drained, pipe, reading, writing, stopEvent, closeVars>>
    /\ OwnerUnchanged

StopJoins ==
    /\ OwnerGoes("join", "notify")
    /\ thread = "gone"
    /\ pipe' = FALSE
    /\ UNCHANGED <<covered, drained, reading, writing, stopEvent, callVars, closeVars>>
    /\ OwnerUnchanged

StopNotifies ==
    /\ OwnerGoes("notify", "stopped")
    /\ NotifyClosed
    /\ UNCHANGED <<covered, drained, pipe, reading, writing, stopEvent, callVars>>
    /\ OwnerUnchanged

\* Stop() from the moment it was called.
Stop == StopMarks \/ StopFails \/ (owner = "cancel" /\ Close) \/ StopJoins \/ StopNotifies

Owner == OwnerBegins \/ WaitForIncomingResponses \/ WaitForPendingWrites \/ Close \/ Stop
-----------------------------------------------------------------------------
(* The pipe and the peer.                                                  *)

KernelUnchanged ==
    UNCHANGED <<threadVars, pipe, inWrite, eventVars, sendQueue, callVars, replyVars, ownerVars,
                closeVars>>

ReadCompletes ==
    /\ pipe
    /\ reading = "posted"
    /\ \/ inbound # << >> /\ reading' = "done"
       \/ ~peerOpen /\ inbound = << >> /\ reading' = "failed"
    /\ UNCHANGED <<writing, peerVars, wire>>
    /\ KernelUnchanged

WriteCompletes ==
    /\ pipe
    /\ writing = "posted"
    /\ \/ /\ peerOpen
          /\ writing' = "done"
          /\ wire' = Append(wire, Head(sendQueue))
       \/ /\ ~peerOpen \/ "write" \in Faults
          /\ writing' = "failed"
          /\ UNCHANGED wire
    /\ UNCHANGED <<reading, peerVars>>
    /\ KernelUnchanged

\* The peer got a whole frame.
Framed(m) == \E i \in 1 .. Len(wire) - 1 : wire[i] = Header(m) /\ wire[i + 1] = Payload(m)

PeerSends(m) ==
    /\ peerOpen
    /\ Len(inbound) < MaxInbound
    /\ inbound' = Append(inbound, m)
    /\ asked' = asked \cup {m}
    /\ UNCHANGED <<reading, writing, wire, peerOpen>>
    /\ KernelUnchanged

PeerAnswers == \E c \in Callers \ asked : Framed(c) /\ PeerSends(c)
PeerAsks    == \E r \in Requests \ asked : PeerSends(r)
\* A flood is one stray after the other. It is not followed beyond a frame which is none, since
\* the session keeps what it reads after one in its buffer and would fill it without bound.
PeerStrays  == /\ \/ "stray" \in Faults /\ "stray" \notin asked
                  \/ "flood" \in Faults /\ "junk" \notin asked
               /\ PeerSends("stray")
PeerBreaks  == "junk" \in Faults /\ "junk" \notin asked /\ PeerSends("junk")

PeerLeaves ==
    /\ "leave" \in Faults
    /\ peerOpen
    /\ peerOpen' = FALSE
    /\ UNCHANGED <<inbound, asked, reading, writing, wire>>
    /\ KernelUnchanged

Kernel == ReadCompletes \/ WriteCompletes
Peer   == PeerAnswers \/ PeerAsks \/ PeerStrays \/ PeerBreaks \/ PeerLeaves
-----------------------------------------------------------------------------
Next ==
    \/ Thread
    \/ \E c \in Callers : SendRequest(c)
    \/ \E r \in Requests : SendResponse(r)
    \/ Owner
    \/ Kernel
    \/ Peer

Spec == Init /\ [][Next]_vars

\* The threads are scheduled and started I/O completes.
Fairness ==
    /\ WF_vars(Thread)
    /\ WF_vars(ReadCompletes)
    /\ WF_vars(WriteCompletes)
    /\ WF_vars(owner # "serve" /\ Owner)
    /\ \A r \in Requests : WF_vars(SendResponse(r))
    /\ \A c \in Callers : WF_vars(caller[c] \in {"checked", "inserted"} /\ SendRequest(c))

FairSpec == Spec /\ Fairness
-----------------------------------------------------------------------------
\* The end of the connection has emptied the table of the calls (FailPending()), once, whoever
\* ended it; and a call waits for an answer, or may still come to wait for one.
Emptied    == ended /\ thread # "fail" /\ owner # "fail"
Waits(c)   == caller[c] \in {"inserted", "waiting"} /\ outcome[c] = "none"
MayWait(c) == caller[c] = "checked" \/ Waits(c)

CallsStayInTable ==
    \A c \in Callers :
        /\ outcome[c] = "answer" => c \in asked
        /\ Waits(c) /\ ~Emptied => c \in pending

ReleasesCallers ==
    /\ ~Emptied /\ Emptied' => \A c \in Callers : ~Waits(c)'
    /\ Emptied => \A c \in Callers : MayWait(c)' => MayWait(c)

\* A call is only answered with an answer the peer sent for it (OnAnswer()). Until the end of
\* the connection has emptied the table, a call which waits is in it (InsertRequest(),
\* Forget()); the step which empties it leaves no call waiting (FailPending()); and after it
\* no call comes to wait but one which passed the check of `ended` before (SendRequest()).
\* That one is found by nothing and waits for ever if it has no budget: StopReleasesCallers.
CallsAreKept == []CallsStayInTable /\ [][ReleasesCallers]_vars

\* Until somebody ends the connection, the peer gets whole frames: a header is followed
\* by its own payload, and nothing is sent twice (QueueWrite(), StartNextWrite()).
WireIsFramed ==
    ~ended /\ owner \in {"serve", "waitAnswers", "waitWrites", "close"} =>
        \A i \in 1 .. Len(wire) :
            /\ wire[i][1] = IF i % 2 = 1 THEN "header" ELSE "payload"
            /\ i % 2 = 0 => wire[i][2] = wire[i - 1][2]
            /\ \A k \in 1 .. i - 1 : wire[i] # wire[k]

\* A drain whose two waits returned true brought the answer of every request received
\* before it to the peer (WaitForIncomingResponses(), WaitForPendingWrites()).
DrainIsComplete ==
    drained /\ owner = "close" /\ peerOpen /\ ~ended =>
        \A r \in covered : Holds(wire, Payload(r))

\* "The handler is called once, either when the peer closes the connection or when the
\* session is stopped" (SetClosedHandler()).
ClosedOnce ==
    /\ notified <= 1
    /\ owner = "stopped" => notified = 1

\* "Every caller which waits for an answer is released" when the session stops (Stop()).
StopReleasesCallers ==
    owner = "stopped" => \A c \in Callers : caller[c] = "waiting" => outcome[c] # "none"

\* "a session its owner stopped [reports] kSessionClosedErrorCode" (OnConnectionEnded()).
StopReportsClosed == \A c \in Callers : outcome[c] # "aborted"

\* A call never throws (Call() is noexcept).
CallsNeverCrash == \A c \in Callers : caller[c] # "crashed"

\* Stop() comes back: the thread leaves its loop and is joined.
StopComesBack == owner = "stop" ~> owner = "stopped"

\* A queued answer reaches the peer unless the connection ends or is stopped first.
QueuedAnswersArrive ==
    \A r \in Requests :
        Holds(sendQueue, Payload(r)) ~> (Holds(wire, Payload(r)) \/ ended \/ owner # "serve")

\* A flood of the peer comes to an end. While it lasts it keeps the read event signalled, which
\* WaitForMultipleObjects names before all others, and neither of the two formulas above holds.
FloodEnds == <>[][~PeerStrays]_vars

\* A stop comes back once the peer does not flood the connection any more, however long it did
\* (Run(), Close(), Stop()).
StopReturns == FloodEnds => StopComesBack

\* The answers which were queued before and during a flood leave after it, both parts of each
\* (AfterRead, OnWriteCompleted()): no part is left in a queue no event tells the thread of.
AnswersLeave == FloodEnds => QueuedAnswersArrive
=============================================================================
