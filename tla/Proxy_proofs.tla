---------------------------- MODULE Proxy_proofs -------------------------------
(***************************************************************************)
(* The network isolation, for any number of threads, handles and control   *)
(* connections. A control connection has one holder, whatever the          *)
(* application does. What is known of a socket by the value of its handle  *)
(* is true as long as no socket is closed while a call uses it: then the   *)
(* kind and the peer in the table are those of the socket, and so are the  *)
(* decisions which the hooks take from them.                               *)
(***************************************************************************)
EXTENDS Proxy, SequenceTheorems, FiniteSetTheorems, TLAPS

KindOps    == {"connect", "WSAConnect", "send", "sendto", "recv", "WSARecv"}
ConnectOps == {"connect", "WSAConnect", "ConnectEx"}
WorkerPcs  == {"serve", "select", "associate", "asked", "keepRelay", "read"}

\* What the place of a call says about its operation and its socket.
CallFits(a) ==
    /\ call[a].pc \notin {"idle", "serve", "select"} => call[a].h \in Handles
    /\ call[a].pc \in {"kind", "keepKind"} => call[a].op \in KindOps
    /\ call[a].pc = "keepKind" => call[a].seen \in Kinds
    /\ call[a].pc \in {"keepRelay", "asked", "sendRelay"} => call[a].control \in Controls
    /\ call[a].pc \in {"connect", "handshake", "keepPeer", "hostConnect"} => call[a].op \in ConnectOps
    /\ call[a].pc \in {"peer", "hostSend"} => call[a].op \in {"send", "sendto"}
    /\ call[a].pc = "peer" => call[a].op = "send"
    /\ call[a].op \in ConnectOps => call[a].to \in Targets
    /\ call[a].pc \in {"forget", "closeSocket"} <=> call[a].op = "closesocket"

WorkerFits ==
    /\ call[Worker].pc \in WorkerPcs
    /\ call[Worker].pc # "serve" => batch # << >>
    /\ call[Worker].pc \notin {"serve", "select"} => call[Worker].op = "recv"
    /\ \A t \in Threads : call[t].pc \notin {"serve", "select"}

\* A receive of the queue or of the batch is there once and has its socket.
ReceivesFit ==
    /\ \A r \in Receives : status[r] \in {"queued", "taken"} => of[r] \in Handles
    /\ \A i \in 1 .. Len(queue) :
          /\ status[queue[i]] = "queued"
          /\ \A j \in 1 .. Len(queue) : queue[j] = queue[i] => j = i
    /\ \A i \in 1 .. Len(batch) :
          /\ status[batch[i].receive] = "taken"
          /\ \A j \in 1 .. Len(batch) : batch[j].receive = batch[i].receive => j = i

CallInv == TypeOK /\ (\A a \in Agents : CallFits(a)) /\ WorkerFits /\ ReceivesFit

\* Who holds a control connection which is open.
Opens(a) == call[a].pc \in {"asked", "keepRelay"}

HeldFits ==
    /\ \A h \in Handles : table[h].control \in open \cup {NoControl}
    /\ \A a \in Agents : Opens(a) => call[a].control \in open
    /\ \A g, h \in Handles : table[g].control = table[h].control /\ g # h => table[h].control = NoControl
    /\ \A a, b \in Agents : Opens(a) /\ Opens(b) /\ call[a].control = call[b].control => a = b
    /\ \A a \in Agents, h \in Handles : Opens(a) => call[a].control # table[h].control
    /\ \A c \in open : \/ \E h \in Handles : table[h].control = c
                       \/ \E a \in Agents : Opens(a) /\ call[a].control = c

HeldInv == CallInv /\ HeldFits

\* What is known of a socket is true, and nobody closes it while a call uses it.
KindFits ==
    "race" \notin habits =>
        /\ \A t \in Threads : call[t].pc # "idle" => kind[call[t].h] # "none"
        /\ \A t, u \in Threads :
              call[t].op = "closesocket" /\ call[u].h = call[t].h => u = t
        /\ \A h \in Handles : table[h].kind \in {"unknown", kind[h]}
        /\ \A h \in Handles : kind[h] = "none" => table[h].peer = NoPeer
        /\ \A t \in Threads :
              call[t].pc = "closeSocket" =>
                 table[call[t].h].kind = "unknown" /\ table[call[t].h].peer = NoPeer
        /\ \A t \in Threads : call[t].pc = "keepKind" => call[t].seen = kind[call[t].h]

\* A socket which is not open is not connected, and a thread which is idle has no socket.
StackFits ==
    /\ \A h \in Handles : kind[h] = "none" => stack[h].via = "none"
    /\ \A t \in Threads : call[t].pc = "idle" => call[t].h = NoHandle

KindInv == CallInv /\ StackFits /\ KindFits

\* What is carried is not on its way to the host.
CarriedFits ==
    {"race", "wsaConnect"} \cap habits = {} =>
        /\ \A t \in Threads :
              LET k == kind[call[t].h] IN
              /\ call[t].op = "WSAConnect" => k = "stream" \/ "datagram" \notin carried
              /\ call[t].op = "ConnectEx" => k = "stream"
              /\ call[t].op = "sendto" => k = "datagram"
              /\ call[t].pc = "hostConnect" => k \notin carried
              /\ call[t].pc = "hostSend" /\ k \in carried /\ k = "datagram" => call[t].op = "send"
              /\ "datagram" \in carried => call[t].result # "direct"
        /\ \A h \in Handles : kind[h] \in carried /\ stack[h].via = "host" =>
              stack[h].to = Server /\ kind[h] = "stream"

CarriedInv == KindInv /\ CarriedFits

\* The peer in the table is the one the socket is connected to.
PeerFits ==
    "race" \notin habits =>
        /\ \A h \in Handles : kind[h] = "stream" /\ table[h].peer # NoPeer =>
              stack[h].to = table[h].peer /\ stack[h].via \in {"tunnel", "host"}
        /\ \A t \in Threads : call[t].pc = "keepPeer" /\ kind[call[t].h] = "stream" =>
              stack[call[t].h].to = call[t].to /\ stack[call[t].h].via \in {"tunnel", "host"}

PeerInv == KindInv /\ PeerFits

\* The calls with a datagram and the places on the way to a relay.
DatagramOps == {"sendto", "recv", "WSARecv", "recvfrom"}
RelayPcs    == {"peer", "associate", "asked", "keepRelay", "sendRelay", "read", "queue"}

\* The call of a thread is at a place its kind of call has, with a socket of the kind it needs.
UseFits(t) ==
    /\ call[t].op \in DatagramOps => kind[call[t].h] = "datagram"
    /\ call[t].pc \in {"association", "unwrap"} => call[t].op = "recvfrom"
    /\ call[t].pc = "hostReceive" => call[t].op = "recvfrom" \/ "datagram" \notin carried
    /\ call[t].pc = "sendRelay" => call[t].op \in {"send", "sendto"}
    /\ "datagram" \notin carried =>
          /\ call[t].pc \in {"kind", "keepKind"} => call[t].op \in ConnectOps
          /\ call[t].pc \notin RelayPcs

\* Nobody sends through a socket which another thread reads on the path of the host.
ReadsAlone(t) == call[t].op = "recvfrom" /\ call[t].pc \in {"association", "hostReceive"}
AloneFits ==
    \A t, u \in Threads : ReadsAlone(t) /\ call[u].op \in {"send", "sendto"} => call[u].h # call[t].h

\* Without a proxy for datagrams there is no association and no receive of the worker.
UncarriedFits ==
    "datagram" \notin carried =>
        (\A h \in Handles : table[h].control = NoControl) /\ queue = << >> /\ batch = << >>

\* The worker reads the socket of the receive it works on.
ServesCurrent ==
    call[Worker].pc \in {"associate", "asked", "keepRelay", "read"} =>
        batch # << >> /\ call[Worker].h = of[Current]

UseInv == HeldInv /\ KindInv /\ (\A t \in Threads : UseFits(t)) /\ AloneFits /\ UncarriedFits /\ ServesCurrent

\* A datagram of a relay waits in the socket whose association the table knows, unless that
\* socket is being closed, and never in a socket which is read on the path of the host.
Closing(h) == \E t \in Threads : call[t].pc = "closeSocket" /\ call[t].h = h
RelayKnown(h) ==
    \A i \in 1 .. Len(inbox[h]) : inbox[h][i] = NoControl \/ inbox[h][i] = table[h].control \/ Closing(h)
ClientKnown(c) == client[c] # NoHandle => c \in open /\ table[client[c]].control = c
TakesFit(t) ==
    /\ call[t].pc = "sendRelay" => table[call[t].h].control = call[t].control
    /\ call[t].pc = "hostReceive" =>
          /\ \A i \in 1 .. Len(inbox[call[t].h]) : inbox[call[t].h][i] = NoControl
          /\ \A c \in Controls : client[c] # call[t].h
    /\ call[t].result # "header"

RelayFits ==
    /\ \A h \in Handles : RelayKnown(h)
    /\ \A c \in Controls : ClientKnown(c)
    /\ \A t \in Threads : TakesFit(t)

Unwraps == {"race", "readFirst"} \cap habits = {}
RelayInv == UseInv /\ RelayFits
-----------------------------------------------------------------------------
(* Types, the places of the calls and the receives.                        *)

\* A thread is not the worker, and both are agents.
LEMMA ProxyAgents ==
    /\ Worker \in Agents /\ Threads \subseteq Agents
    /\ \A t \in Threads : t # Worker
    /\ \A a \in Agents : a \in Threads \/ a = Worker
    /\ NoHandle \notin Handles /\ NoControl \notin Controls /\ NoPeer \notin Targets
    BY ProxyAssumption DEF Agents

\* The steps of the isolation, one by one.
LEMMA ProxySteps ==
    ASSUME [Next]_vars
    PROVE  \/ \E h \in Handles, k \in Kinds : OpenSocket(h, k)
           \/ \E t \in Threads, op \in Ops, h \in Handles, p \in Targets \cup {NoPeer} : Begin(t, op, h, p)
           \/ \E t \in Threads : AskKind(t)
           \/ \E t \in Threads : KeepKind(t)
           \/ \E t \in Threads : Connect(t)
           \/ \E t \in Threads : ServerAnswers(t)
           \/ \E t \in Threads : KeepPeer(t)
           \/ \E t \in Threads : HostConnects(t)
           \/ \E a \in Agents : Associate(a)
           \/ \E a \in Agents : RelayAnswers(a)
           \/ \E a \in Agents : KeepRelay(a)
           \/ \E t \in Threads : FindPeer(t)
           \/ \E t \in Threads : SendToRelay(t)
           \/ \E t \in Threads : HostSends(t)
           \/ \E a \in Agents : Read(a)
           \/ \E t \in Threads : FindAssociation(t)
           \/ \E t \in Threads : Unwrap(t)
           \/ \E t \in Threads : HostReceives(t)
           \/ \E t \in Threads : QueueReceive(t)
           \/ \E t \in Threads : ReleaseState(t)
           \/ \E t \in Threads : CloseSocket(t)
           \/ WorkerTakes
           \/ WorkerSelects
           \/ WorkerPutsBack
           \/ WorkerReceives
           \/ \E r \in Receives : DeadlinePasses(r)
           \/ \E h \in Handles : DatagramArrives(h)
           \/ UNCHANGED vars
<1>1. \A t \in Threads : t \in Agents
    BY DEF Agents
<1>2. Worker \in Agents
    BY DEF Agents
<1>q. QED
    BY <1>1, <1>2 DEF Next, Application, Hook, WorkerStep, Time

\* The call of a thread returns.
LEMMA ThreadReturns ==
    ASSUME NEW t \in Threads, NEW result, Returns(t, result)
    PROVE  /\ call' = [call EXCEPT ![t] =
                 [pc |-> "idle", op |-> "none", h |-> NoHandle, to |-> NoPeer, control |-> NoControl,
                  seen |-> "unknown", result |-> IF result \in Results THEN result ELSE "none"]]
           /\ UNCHANGED <<status, of, late, queue, batch>>
    BY ProxyAgents DEF Returns, Home

\* The worker completes the receive it works on.
LEMMA WorkerReturns ==
    ASSUME NEW result, Returns(Worker, result)
    PROVE  /\ call' = [call EXCEPT ![Worker] =
                 [pc |-> "serve", op |-> "none", h |-> NoHandle, to |-> NoPeer, control |-> NoControl,
                  seen |-> "unknown", result |-> "none"]]
           /\ status' = [r \in Receives |-> IF r = Current THEN result ELSE status[r]]
           /\ of' = [r \in Receives |-> IF r = Current THEN NoHandle ELSE of[r]]
           /\ late' = late \ {Current}
           /\ batch' = Tail(batch)
           /\ queue' = queue
    BY DEF Returns, Home, Completes

\* Where a call begins, and where it goes on.
LEMMA FirstSteps ==
    /\ FirstStep("connect") = IF carried # {} THEN "kind" ELSE "hostConnect"
    /\ FirstStep("WSAConnect") = IF "stream" \in carried THEN "kind" ELSE "hostConnect"
    /\ FirstStep("ConnectEx") = IF "stream" \in carried THEN "connect" ELSE "hostConnect"
    /\ \A op \in {"send", "sendto"} : FirstStep(op) = IF "datagram" \in carried THEN "kind" ELSE "hostSend"
    /\ \A op \in {"recv", "WSARecv"} : FirstStep(op) = IF "datagram" \in carried THEN "kind" ELSE "hostReceive"
    /\ FirstStep("recvfrom") = "association"
    /\ FirstStep("closesocket") = "forget"
    BY Zenon DEF FirstStep

LEMMA NextSteps ==
    ASSUME NEW k
    PROVE  /\ k = "stream" => StepForKind("connect", k) = IF "stream" \in carried THEN "connect" ELSE "hostConnect"
           /\ k # "stream" => StepForKind("connect", k) = IF "datagram" \in carried THEN "keepPeer" ELSE "hostConnect"
           /\ StepForKind("WSAConnect", k) = IF k = "stream" THEN "connect" ELSE "hostConnect"
           /\ StepForKind("send", k) = IF k = "datagram" THEN "peer" ELSE "hostSend"
           /\ StepForKind("sendto", k) = IF k = "datagram" THEN "associate" ELSE "hostSend"
           /\ StepForKind("recv", k) = IF k = "datagram" THEN "associate" ELSE "hostReceive"
           /\ StepForKind("WSARecv", k) = IF k = "datagram" THEN "queue" ELSE "hostReceive"
<1>1. k = "stream" => StepForKind("connect", k) = IF "stream" \in carried THEN "connect" ELSE "hostConnect"
    BY Zenon DEF StepForKind
<1>2. k # "stream" => StepForKind("connect", k) = IF "datagram" \in carried THEN "keepPeer" ELSE "hostConnect"
    BY Zenon DEF StepForKind
<1>3. StepForKind("WSAConnect", k) = IF k = "stream" THEN "connect" ELSE "hostConnect"
    BY Zenon DEF StepForKind
<1>4. StepForKind("send", k) = IF k = "datagram" THEN "peer" ELSE "hostSend"
    BY Zenon DEF StepForKind
<1>5. StepForKind("sendto", k) = IF k = "datagram" THEN "associate" ELSE "hostSend"
    BY Zenon DEF StepForKind
<1>6. StepForKind("recv", k) = IF k = "datagram" THEN "associate" ELSE "hostReceive"
    BY Zenon DEF StepForKind
<1>7. StepForKind("WSARecv", k) = IF k = "datagram" THEN "queue" ELSE "hostReceive"
    BY Zenon DEF StepForKind
<1>q. QED
    BY <1>1, <1>2, <1>3, <1>4, <1>5, <1>6, <1>7

LEMMA StepsFit ==
    ASSUME NEW op \in KindOps, NEW k
    PROVE  /\ StepForKind(op, k) \in {"connect", "hostConnect", "keepPeer", "peer", "hostSend",
                                      "associate", "hostReceive", "queue"}
           /\ StepForKind(op, k) \in {"connect", "keepPeer", "hostConnect"} => op \in ConnectOps
           /\ StepForKind(op, k) \in {"peer", "hostSend"} => op \in {"send", "sendto"}
           /\ StepForKind(op, k) = "peer" => op = "send"
    BY NextSteps, SMT DEF KindOps, ConnectOps

LEMMA BeginsFit ==
    ASSUME NEW op \in Ops
    PROVE  /\ FirstStep(op) \in {"kind", "hostConnect", "connect", "hostSend", "hostReceive",
                                 "association", "forget"}
           /\ FirstStep(op) \in {"connect", "hostConnect"} => op \in ConnectOps
           /\ FirstStep(op) = "hostSend" => op \in {"send", "sendto"}
           /\ FirstStep(op) = "kind" => op \in KindOps
           /\ FirstStep(op) = "forget" <=> op = "closesocket"
    BY FirstSteps, SMT DEF Ops, KindOps, ConnectOps

\* What an application does with a socket.
LEMMA SensibleMeans ==
    ASSUME NEW op, NEW h, Sensible(op, h)
    PROVE  /\ kind[h] # "none"
           /\ \A t \in Calling(h) : call[t].op # "closesocket"
           /\ op = "ConnectEx" => kind[h] = "stream"
           /\ op = "WSAConnect" => kind[h] = "stream" \/ "datagram" \notin carried \/ "wsaConnect" \in habits
           /\ op = "send" => (kind[h] = "datagram" => ReadsAsHost(h) = {} \/ "readFirst" \in habits)
           /\ op = "sendto" => kind[h] = "datagram" /\ (ReadsAsHost(h) = {} \/ "readFirst" \in habits)
           /\ op \in {"recv", "WSARecv"} => kind[h] = "datagram"
           /\ op = "recvfrom" => kind[h] = "datagram" /\ (Sends(h) = {} \/ "readFirst" \in habits)
           /\ op = "closesocket" => Calling(h) = {} \/ "race" \in habits
    BY Zenon DEF Sensible

\* The calls, field by field.
CallRecs == [pc : Pcs, op : Ops \cup {"none"}, h : Handles \cup {NoHandle},
             to : Targets \cup {NoPeer}, control : Controls \cup {NoControl},
             seen : Kinds \cup {"unknown"}, result : Results]

\* The call of `a` is at another place; the others are where they were.
OnlyCall(a) == call' \in [Agents -> CallRecs] /\ \A b \in Agents : b # a => call'[b] = call[b]
SameCall(a) == call'[a].op = call[a].op /\ call'[a].h = call[a].h /\ call'[a].to = call[a].to

LEMMA CallTypes ==
    ASSUME TypeOK
    PROVE  /\ call \in [Agents -> CallRecs]
           /\ \A a \in Agents :
                /\ call[a].pc \in Pcs /\ call[a].op \in Ops \cup {"none"}
                /\ call[a].h \in Handles \cup {NoHandle} /\ call[a].to \in Targets \cup {NoPeer}
                /\ call[a].control \in Controls \cup {NoControl}
                /\ call[a].seen \in Kinds \cup {"unknown"} /\ call[a].result \in Results
<1>1. call \in [Agents -> CallRecs]
    BY DEF TypeOK, CallRecs
<1>q. QED
    BY <1>1 DEF CallRecs

LEMMA CallGoes ==
    ASSUME call \in [Agents -> CallRecs], NEW a \in Agents, NEW pc \in Pcs,
           call' = [call EXCEPT ![a].pc = pc]
    PROVE  /\ OnlyCall(a) /\ SameCall(a)
           /\ call'[a].pc = pc /\ call'[a].control = call[a].control
           /\ call'[a].seen = call[a].seen /\ call'[a].result = call[a].result
    BY DEF CallRecs, OnlyCall, SameCall

LEMMA CallControls ==
    ASSUME call \in [Agents -> CallRecs], NEW a \in Agents, NEW pc \in Pcs,
           NEW c \in Controls \cup {NoControl},
           call' = [call EXCEPT ![a].pc = pc, ![a].control = c]
    PROVE  /\ OnlyCall(a) /\ SameCall(a)
           /\ call'[a].pc = pc /\ call'[a].control = c
           /\ call'[a].seen = call[a].seen /\ call'[a].result = call[a].result
<1>1. PICK r \in CallRecs : r = call[a]
    OBVIOUS
<1> DEFINE next == [r EXCEPT !.pc = pc, !.control = c]
<1>2. call' = [call EXCEPT ![a] = next]
    BY <1>1
<1>3. next \in CallRecs
    BY DEF CallRecs
<1>4. /\ next.op = r.op /\ next.h = r.h /\ next.to = r.to /\ next.pc = pc /\ next.control = c
      /\ next.seen = r.seen /\ next.result = r.result
    BY DEF CallRecs
<1> HIDE DEF next
<1>q. QED
    BY <1>1, <1>2, <1>3, <1>4 DEF OnlyCall, SameCall

LEMMA CallSees ==
    ASSUME call \in [Agents -> CallRecs], NEW a \in Agents, NEW pc \in Pcs,
           NEW k \in Kinds \cup {"unknown"},
           call' = [call EXCEPT ![a].pc = pc, ![a].seen = k]
    PROVE  /\ OnlyCall(a) /\ SameCall(a)
           /\ call'[a].pc = pc /\ call'[a].control = call[a].control
           /\ call'[a].seen = k /\ call'[a].result = call[a].result
<1>1. PICK r \in CallRecs : r = call[a]
    OBVIOUS
<1> DEFINE next == [r EXCEPT !.pc = pc, !.seen = k]
<1>2. call' = [call EXCEPT ![a] = next]
    BY <1>1
<1>3. next \in CallRecs
    BY DEF CallRecs
<1>4. /\ next.op = r.op /\ next.h = r.h /\ next.to = r.to /\ next.pc = pc /\ next.control = r.control
      /\ next.seen = k /\ next.result = r.result
    BY DEF CallRecs
<1> HIDE DEF next
<1>q. QED
    BY <1>1, <1>2, <1>3, <1>4 DEF OnlyCall, SameCall

\* A call of a thread returned; so did the work of the worker.
CallEnded(t) ==
    /\ OnlyCall(t)
    /\ call'[t].pc = "idle" /\ call'[t].op = "none" /\ call'[t].h = NoHandle
    /\ call'[t].control = NoControl /\ call'[t].to = NoPeer
    /\ UNCHANGED <<status, of, late, queue, batch>>

LEMMA CallReturned ==
    ASSUME call \in [Agents -> CallRecs], NEW t \in Threads, NEW result, Returns(t, result)
    PROVE  CallEnded(t) /\ call'[t].result = IF result \in Results THEN result ELSE "none"
    BY ThreadReturns, ProxyAgents DEF CallRecs, Pcs, Results, OnlyCall, CallEnded

LEMMA WorkReturned ==
    ASSUME call \in [Agents -> CallRecs], NEW result, Returns(Worker, result)
    PROVE  /\ OnlyCall(Worker)
           /\ call'[Worker].pc = "serve" /\ call'[Worker].op = "none" /\ call'[Worker].h = NoHandle
           /\ call'[Worker].control = NoControl
    BY WorkerReturns, ProxyAgents DEF CallRecs, Pcs, Results, OnlyCall

LEMMA CallBegins ==
    ASSUME call \in [Agents -> CallRecs], NEW t \in Threads, NEW op \in Ops, NEW h \in Handles,
           NEW q \in Targets \cup {NoPeer}, Begin(t, op, h, q)
    PROVE  /\ OnlyCall(t)
           /\ call'[t].pc = FirstStep(op) /\ call'[t].op = op /\ call'[t].h = h /\ call'[t].to = q
           /\ call'[t].control = NoControl /\ call'[t].seen = "unknown" /\ call'[t].result = "none"
           /\ q \in Aims(op)
<1> DEFINE first == Home(t, "none")
<1> DEFINE next == [first EXCEPT !.pc = FirstStep(op), !.op = op, !.h = h, !.to = q]
<1>1. FirstStep(op) \in Pcs
    BY BeginsFit DEF Pcs
<1>2. first \in CallRecs /\ first.control = NoControl /\ first.seen = "unknown" /\ first.result = "none"
    BY ProxyAgents DEF Home, CallRecs, Pcs, Results
<1>3. call' = [call EXCEPT ![t] = next] /\ q \in Aims(op)
    BY DEF Begin
<1> HIDE DEF first
<1>4. /\ next \in CallRecs /\ next.pc = FirstStep(op) /\ next.op = op /\ next.h = h /\ next.to = q
      /\ next.control = NoControl /\ next.seen = "unknown" /\ next.result = "none"
    BY <1>1, <1>2 DEF CallRecs
<1> HIDE DEF next
<1>q. QED
    BY <1>3, <1>4, ProxyAgents DEF OnlyCall

LEMMA WorkBegins ==
    ASSUME call \in [Agents -> CallRecs], of[Current] \in Handles, WorkerReceives
    PROVE  /\ OnlyCall(Worker) /\ UNCHANGED <<sockets, relays, settings, table, receives>>
           /\ call'[Worker].pc = "associate" /\ call'[Worker].op = "recv"
           /\ call'[Worker].h = of[Current] /\ call'[Worker].control = call[Worker].control
<1>1. ASSUME NEW h \in Handles,
             call' = [call EXCEPT ![Worker].pc = "associate", ![Worker].op = "recv", ![Worker].h = h]
      PROVE  /\ OnlyCall(Worker)
             /\ call'[Worker].pc = "associate" /\ call'[Worker].op = "recv"
             /\ call'[Worker].h = h /\ call'[Worker].control = call[Worker].control
  <2>1. PICK r \in CallRecs : r = call[Worker]
    BY ProxyAgents
  <2> DEFINE next == [r EXCEPT !.pc = "associate", !.op = "recv", !.h = h]
  <2>2. call' = [call EXCEPT ![Worker] = next]
    BY <1>1, <2>1
  <2>3. "associate" \in Pcs /\ "recv" \in Ops
    BY DEF Pcs, Ops
  <2>4. next \in CallRecs
    BY <2>3 DEF CallRecs
  <2>5. next.pc = "associate" /\ next.op = "recv" /\ next.h = h /\ next.control = r.control
    BY DEF CallRecs
  <2> HIDE DEF next
  <2>q. QED
    BY <2>1, <2>2, <2>4, <2>5, ProxyAgents DEF OnlyCall
<1>q. QED
    BY <1>1 DEF WorkerReceives

CallMoved(a, pc) ==
    /\ OnlyCall(a) /\ SameCall(a)
    /\ call'[a].pc = pc /\ call'[a].control = call[a].control
    /\ call'[a].seen = call[a].seen /\ call'[a].result = call[a].result

LEMMA CallSteps ==
    ASSUME TypeOK, NEW t \in Threads
    PROVE  /\ \A pc \in Pcs : Goes(t, pc) => CallMoved(t, pc)
           /\ \A result : Returns(t, result) =>
                CallEnded(t) /\ call'[t].result = IF result \in Results THEN result ELSE "none"
<1>1. call \in [Agents -> CallRecs]
    BY CallTypes
<1>2. ASSUME NEW pc \in Pcs, Goes(t, pc) PROVE CallMoved(t, pc)
    BY <1>1, <1>2, CallGoes, ProxyAgents DEF Goes, CallMoved
<1>3. ASSUME NEW result, Returns(t, result)
      PROVE  CallEnded(t) /\ call'[t].result = IF result \in Results THEN result ELSE "none"
    BY <1>1, <1>3, CallReturned
<1>q. QED
    BY <1>2, <1>3

\* The steps of the worker which change its call.
WorkEnded(result) ==
    /\ OnlyCall(Worker)
    /\ call'[Worker].pc = "serve" /\ call'[Worker].op = "none" /\ call'[Worker].h = NoHandle
    /\ call'[Worker].control = NoControl
    /\ status' = [r \in Receives |-> IF r = Current THEN result ELSE status[r]]
    /\ of' = [r \in Receives |-> IF r = Current THEN NoHandle ELSE of[r]]
    /\ late' = late \ {Current}
    /\ batch' = Tail(batch)
    /\ queue' = queue

LEMMA WorkSteps ==
    ASSUME TypeOK
    PROVE  /\ \A pc \in Pcs : Goes(Worker, pc) => CallMoved(Worker, pc)
           /\ \A result : Returns(Worker, result) => WorkEnded(result)
<1>1. call \in [Agents -> CallRecs]
    BY CallTypes
<1>2. ASSUME NEW pc \in Pcs, Goes(Worker, pc) PROVE CallMoved(Worker, pc)
    BY <1>1, <1>2, CallGoes, ProxyAgents DEF Goes, CallMoved
<1>3. ASSUME NEW result, Returns(Worker, result) PROVE WorkEnded(result)
    BY <1>1, <1>3, WorkReturned, WorkerReturns DEF WorkEnded
<1>q. QED
    BY <1>2, <1>3

\* The entry of `h` changed, or what the stack connected it to; the others are as they were.
EntrySays(h, k, c, p) ==
    /\ table' \in [Handles -> Entries] /\ \A g \in Handles \ {h} : table'[g] = table[g]
    /\ table'[h].kind = k /\ table'[h].control = c /\ table'[h].peer = p

StackSays(h, via, to) ==
    /\ stack' \in [Handles -> [via : {"none", "server", "tunnel", "host"}, to : Targets \cup {NoPeer}]]
    /\ \A g \in Handles \ {h} : stack'[g] = stack[g]
    /\ stack'[h].via = via /\ stack'[h].to = to

LEMMA EntryChanges ==
    ASSUME TypeOK, NEW h \in Handles
    PROVE  /\ \A k \in Kinds : table' = [table EXCEPT ![h].kind = k] =>
                EntrySays(h, k, table[h].control, table[h].peer)
           /\ \A c \in Controls \cup {NoControl} : table' = [table EXCEPT ![h].control = c] =>
                EntrySays(h, table[h].kind, c, table[h].peer)
           /\ \A p \in Targets : table' = [table EXCEPT ![h].peer = p] =>
                EntrySays(h, table[h].kind, table[h].control, p)
           /\ table' = [table EXCEPT ![h] = NoEntry] => EntrySays(h, "unknown", NoControl, NoPeer)
<1>1. table \in [Handles -> Entries] /\ table[h] \in Entries
    BY DEF TypeOK
<1>2. PICK e \in Entries : e = table[h]
    BY <1>1
<1>3. \A n \in Entries : table' = [table EXCEPT ![h] = n] => EntrySays(h, n.kind, n.control, n.peer)
    BY <1>1 DEF EntrySays
<1>4. ASSUME NEW k \in Kinds, table' = [table EXCEPT ![h].kind = k]
      PROVE  EntrySays(h, k, table[h].control, table[h].peer)
  <2> DEFINE n == [e EXCEPT !.kind = k]
  <2>1. n \in Entries /\ n.kind = k /\ n.control = e.control /\ n.peer = e.peer
    BY DEF Entries
  <2>2. table' = [table EXCEPT ![h] = n]
    BY <1>2, <1>4
  <2> HIDE DEF n
  <2>q. QED
    BY <1>2, <1>3, <2>1, <2>2
<1>5. ASSUME NEW c \in Controls \cup {NoControl}, table' = [table EXCEPT ![h].control = c]
      PROVE  EntrySays(h, table[h].kind, c, table[h].peer)
  <2> DEFINE n == [e EXCEPT !.control = c]
  <2>1. n \in Entries /\ n.control = c /\ n.kind = e.kind /\ n.peer = e.peer
    BY DEF Entries
  <2>2. table' = [table EXCEPT ![h] = n]
    BY <1>2, <1>5
  <2> HIDE DEF n
  <2>q. QED
    BY <1>2, <1>3, <2>1, <2>2
<1>6. ASSUME NEW p \in Targets, table' = [table EXCEPT ![h].peer = p]
      PROVE  EntrySays(h, table[h].kind, table[h].control, p)
  <2> DEFINE n == [e EXCEPT !.peer = p]
  <2>1. n \in Entries /\ n.peer = p /\ n.kind = e.kind /\ n.control = e.control
    BY DEF Entries
  <2>2. table' = [table EXCEPT ![h] = n]
    BY <1>2, <1>6
  <2> HIDE DEF n
  <2>q. QED
    BY <1>2, <1>3, <2>1, <2>2
<1>7. table' = [table EXCEPT ![h] = NoEntry] => EntrySays(h, "unknown", NoControl, NoPeer)
  <2>1. /\ NoEntry \in Entries /\ NoEntry.kind = "unknown" /\ NoEntry.control = NoControl
        /\ NoEntry.peer = NoPeer
    BY DEF NoEntry, Entries
  <2>q. QED
    BY <1>3, <2>1
<1>q. QED
    BY <1>4, <1>5, <1>6, <1>7

LEMMA StackChanges ==
    ASSUME TypeOK, NEW h \in Handles
    PROVE  /\ \A via \in {"none", "server", "tunnel", "host"}, to \in Targets \cup {NoPeer} :
                stack' = [stack EXCEPT ![h] = [via |-> via, to |-> to]] => StackSays(h, via, to)
           /\ stack' = [stack EXCEPT ![h].via = "server"] => StackSays(h, "server", stack[h].to)
           /\ stack' = [stack EXCEPT ![h] = Unconnected] => StackSays(h, "none", NoPeer)
<1> DEFINE S == [via : {"none", "server", "tunnel", "host"}, to : Targets \cup {NoPeer}]
<1>1. stack \in [Handles -> S]
    BY DEF TypeOK
<1>2. PICK e \in S : e = stack[h]
    BY <1>1
<1>3. \A n \in S : stack' = [stack EXCEPT ![h] = n] => StackSays(h, n.via, n.to)
    BY <1>1 DEF StackSays
<1>4. ASSUME NEW via \in {"none", "server", "tunnel", "host"}, NEW to \in Targets \cup {NoPeer},
             stack' = [stack EXCEPT ![h] = [via |-> via, to |-> to]]
      PROVE  StackSays(h, via, to)
  <2> DEFINE n == [via |-> via, to |-> to]
  <2>1. n \in S /\ n.via = via /\ n.to = to
    OBVIOUS
  <2>2. stack' = [stack EXCEPT ![h] = n]
    BY <1>4
  <2> HIDE DEF n
  <2>q. QED
    BY <1>3, <2>1, <2>2
<1>5. ASSUME stack' = [stack EXCEPT ![h].via = "server"] PROVE StackSays(h, "server", stack[h].to)
  <2> DEFINE n == [e EXCEPT !.via = "server"]
  <2>1. n \in S /\ n.via = "server" /\ n.to = e.to
    OBVIOUS
  <2>2. stack' = [stack EXCEPT ![h] = n]
    BY <1>2, <1>5
  <2> HIDE DEF n
  <2>q. QED
    BY <1>2, <1>3, <2>1, <2>2
<1>6. stack' = [stack EXCEPT ![h] = Unconnected] => StackSays(h, "none", NoPeer)
    BY <1>4 DEF Unconnected
<1>q. QED
    BY <1>4, <1>5, <1>6

\* The call of an agent takes up an association or goes on with another connection.
CallTook(a, pc, c) ==
    /\ OnlyCall(a) /\ SameCall(a)
    /\ call'[a].pc = pc /\ call'[a].control = c
    /\ call'[a].seen = call[a].seen /\ call'[a].result = call[a].result

LEMMA AssociateSteps ==
    ASSUME TypeOK, NEW a \in Agents, CallFits(a), Associate(a)
    PROVE  /\ call[a].pc = "associate" /\ call[a].h \in Handles
           /\ UNCHANGED <<sockets, client, settings, table>>
           /\ \/ /\ table[call[a].h].control # NoControl
                 /\ CallTook(a, IF call[a].op \in {"send", "sendto"} THEN "sendRelay" ELSE "read",
                             table[call[a].h].control)
                 /\ UNCHANGED <<open, receives>>
              \/ /\ table[call[a].h].control = NoControl
                 /\ \E c \in Controls \ open : CallTook(a, "asked", c) /\ open' = open \cup {c}
                 /\ UNCHANGED receives
              \/ Returns(a, "failed") /\ UNCHANGED open
<1>1. call \in [Agents -> CallRecs] /\ call[a].pc = "associate"
    BY CallTypes DEF Associate, At
<1>2. call[a].h \in Handles
    BY <1>1 DEF CallFits
<1>3. table[call[a].h].control \in Controls \cup {NoControl}
    BY <1>2 DEF TypeOK, Entries
<1>4. Controls \ open # {} => FreeControl \in Controls \ open
    BY DEF FreeControl
<1>5. \A pc \in Pcs, c \in Controls \cup {NoControl} :
         call' = [call EXCEPT ![a].pc = pc, ![a].control = c] => CallTook(a, pc, c)
    BY <1>1, CallControls DEF CallTook
<1>6. UNCHANGED <<sockets, client, settings, table>>
    BY DEF Associate, relays
<1>7. CASE table[call[a].h].control # NoControl
  <2>1. call' = [call EXCEPT ![a].pc = IF call[a].op \in {"send", "sendto"} THEN "sendRelay" ELSE "read",
                             ![a].control = table[call[a].h].control]
        /\ UNCHANGED <<open, receives>>
    BY <1>7 DEF Associate, relays
  <2>2. CallTook(a, IF call[a].op \in {"send", "sendto"} THEN "sendRelay" ELSE "read",
                 table[call[a].h].control)
    BY <1>3, <1>5, <2>1 DEF Pcs
  <2>q. QED
    BY <1>1, <1>2, <1>6, <1>7, <2>1, <2>2
<1>8. CASE table[call[a].h].control = NoControl
  <2>1. CASE Returns(a, "failed") /\ UNCHANGED relays
    BY <1>1, <1>2, <1>6, <2>1 DEF relays
  <2>2. CASE /\ Controls \ open # {}
             /\ open' = open \cup {FreeControl}
             /\ call' = [call EXCEPT ![a].pc = "asked", ![a].control = FreeControl]
             /\ UNCHANGED <<client, receives>>
    <3>1. CallTook(a, "asked", FreeControl)
      BY <1>4, <1>5, <2>2 DEF Pcs
    <3>q. QED
      BY <1>1, <1>2, <1>4, <1>6, <1>8, <2>2, <3>1
  <2>q. QED
    BY <1>8, <2>1, <2>2 DEF Associate
<1>q. QED
    BY <1>7, <1>8

LEMMA KeepRelaySteps ==
    ASSUME TypeOK, NEW a \in Agents, CallFits(a), KeepRelay(a)
    PROVE  /\ call[a].pc = "keepRelay" /\ call[a].h \in Handles /\ call[a].control \in Controls
           /\ UNCHANGED <<sockets, client, settings, receives>>
           /\ \/ /\ table[call[a].h].control = NoControl
                 /\ EntrySays(call[a].h, table[call[a].h].kind, call[a].control, table[call[a].h].peer)
                 /\ CallTook(a, IF call[a].op \in {"send", "sendto"} THEN "sendRelay" ELSE "read",
                             call[a].control)
                 /\ UNCHANGED open
              \/ /\ table[call[a].h].control # NoControl
                 /\ CallTook(a, IF call[a].op \in {"send", "sendto"} THEN "sendRelay" ELSE "read",
                             table[call[a].h].control)
                 /\ open' = open \ {call[a].control}
                 /\ UNCHANGED table
<1>1. call \in [Agents -> CallRecs] /\ call[a].pc = "keepRelay"
    BY CallTypes DEF KeepRelay, At
<1>2. call[a].h \in Handles /\ call[a].control \in Controls
    BY <1>1 DEF CallFits
<1>3. table[call[a].h].control \in Controls \cup {NoControl}
    BY <1>2 DEF TypeOK, Entries
<1>4. UNCHANGED <<sockets, client, settings, receives>>
    BY DEF KeepRelay
<1> DEFINE next == IF call[a].op \in {"send", "sendto"} THEN "sendRelay" ELSE "read"
<1>5. next \in Pcs
    BY DEF Pcs
<1> HIDE DEF next
<1>6. CASE table[call[a].h].control = NoControl
  <2>1. /\ call' = [call EXCEPT ![a].pc = next]
        /\ table' = [table EXCEPT ![call[a].h].control = call[a].control]
        /\ UNCHANGED open
    BY <1>6 DEF KeepRelay, next
  <2>2. CallTook(a, next, call[a].control)
    BY <1>1, <1>5, <2>1, CallGoes DEF CallTook
  <2>3. EntrySays(call[a].h, table[call[a].h].kind, call[a].control, table[call[a].h].peer)
    BY <1>2, <2>1, EntryChanges
  <2>q. QED
    BY <1>1, <1>2, <1>4, <1>6, <2>1, <2>2, <2>3 DEF next
<1>7. CASE table[call[a].h].control # NoControl
  <2>1. /\ call' = [call EXCEPT ![a].pc = next, ![a].control = table[call[a].h].control]
        /\ open' = open \ {call[a].control}
        /\ UNCHANGED table
    BY <1>7 DEF KeepRelay, next
  <2>2. \A pc \in Pcs, c \in Controls \cup {NoControl} :
           call' = [call EXCEPT ![a].pc = pc, ![a].control = c] => CallTook(a, pc, c)
    BY <1>1, CallControls DEF CallTook
  <2>3. CallTook(a, next, table[call[a].h].control)
    BY <1>3, <1>5, <2>1, <2>2
  <2>q. QED
    BY <1>1, <1>2, <1>4, <1>7, <2>1, <2>3 DEF next
<1>q. QED
    BY <1>6, <1>7

\* The kind of a socket is looked up, or asked of the stack and kept.
LEMMA AskKindSteps ==
    ASSUME TypeOK, NEW t \in Threads, CallFits(t), AskKind(t)
    PROVE  LET h == call[t].h IN
           /\ call[t].pc = "kind" /\ h \in Handles /\ call[t].op \in KindOps
           /\ UNCHANGED <<sockets, relays, settings, table, receives>>
           /\ OnlyCall(t) /\ SameCall(t)
           /\ call'[t].control = call[t].control /\ call'[t].result = call[t].result
           /\ \/ /\ call'[t].pc = "keepKind" /\ call'[t].seen = kind[h]
                 /\ kind[h] # "none" /\ table[h].kind = "unknown"
              \/ /\ call'[t].pc = StepForKind(call[t].op, table[h].kind)
                 /\ table[h].kind # "unknown" \/ kind[h] = "none"
<1>1. call \in [Agents -> CallRecs] /\ call[t].pc = "kind" /\ t \in Agents
    BY CallTypes, ProxyAgents DEF AskKind, At
<1>2. call[t].h \in Handles /\ call[t].op \in KindOps
    BY <1>1 DEF CallFits
<1>3. CASE table[call[t].h].kind = "unknown" /\ kind[call[t].h] # "none"
  <2>1. kind[call[t].h] \in Kinds
    BY <1>2, <1>3 DEF TypeOK
  <2>2. call' = [call EXCEPT ![t].pc = "keepKind", ![t].seen = kind[call[t].h]]
    BY <1>3 DEF AskKind
  <2>3. "keepKind" \in Pcs
    BY DEF Pcs
  <2>4. /\ OnlyCall(t) /\ SameCall(t)
        /\ call'[t].pc = "keepKind" /\ call'[t].control = call[t].control
        /\ call'[t].seen = kind[call[t].h] /\ call'[t].result = call[t].result
    BY <1>1, <2>1, <2>2, <2>3, CallSees
  <2>q. QED
    BY <1>1, <1>2, <1>3, <2>4 DEF AskKind
<1>4. CASE ~(table[call[t].h].kind = "unknown" /\ kind[call[t].h] # "none")
  <2>1. StepForKind(call[t].op, table[call[t].h].kind) \in Pcs
    BY <1>2, StepsFit DEF Pcs
  <2>2. Goes(t, StepForKind(call[t].op, table[call[t].h].kind))
    BY <1>4 DEF AskKind
  <2>3. CallMoved(t, StepForKind(call[t].op, table[call[t].h].kind))
    BY <2>1, <2>2, CallSteps
  <2>q. QED
    BY <1>1, <1>2, <1>4, <2>3 DEF AskKind, CallMoved
<1>q. QED
    BY <1>3, <1>4

LEMMA KeepKindSteps ==
    ASSUME TypeOK, NEW t \in Threads, CallFits(t), KeepKind(t)
    PROVE  /\ call[t].pc = "keepKind" /\ call[t].h \in Handles /\ call[t].op \in KindOps
           /\ call[t].seen \in Kinds
           /\ UNCHANGED <<sockets, relays, settings, receives>>
           /\ EntrySays(call[t].h, call[t].seen, table[call[t].h].control, table[call[t].h].peer)
           /\ OnlyCall(t) /\ SameCall(t)
           /\ call'[t].control = call[t].control /\ call'[t].result = call[t].result
           /\ call'[t].pc = StepForKind(call[t].op, call[t].seen)
<1>1. call \in [Agents -> CallRecs] /\ call[t].pc = "keepKind" /\ t \in Agents
    BY CallTypes, ProxyAgents DEF KeepKind, At
<1>2. call[t].h \in Handles /\ call[t].op \in KindOps /\ call[t].seen \in Kinds
    BY <1>1 DEF CallFits
<1>3. StepForKind(call[t].op, call[t].seen) \in Pcs
    BY <1>2, StepsFit DEF Pcs
<1>4. /\ call' = [call EXCEPT ![t].pc = StepForKind(call[t].op, call[t].seen), ![t].seen = "unknown"]
      /\ table' = [table EXCEPT ![call[t].h].kind = call[t].seen]
      /\ UNCHANGED <<sockets, relays, settings, receives>>
    BY DEF KeepKind
<1>5. /\ OnlyCall(t) /\ SameCall(t)
      /\ call'[t].pc = StepForKind(call[t].op, call[t].seen)
      /\ call'[t].control = call[t].control /\ call'[t].result = call[t].result
    BY <1>1, <1>3, <1>4, CallSees
<1>6. EntrySays(call[t].h, call[t].seen, table[call[t].h].control, table[call[t].h].peer)
    BY <1>2, <1>4, EntryChanges
<1>q. QED
    BY <1>1, <1>2, <1>4, <1>5, <1>6

\* The places where a call is at work on a socket.
LEMMA CallPlaces ==
    ASSUME TypeOK, NEW t \in Threads, CallFits(t)
    PROVE  /\ t \in Agents /\ t # Worker
           /\ call[t].pc \notin {"idle", "serve", "select"} => call[t].h \in Handles
           /\ call[t].pc \in {"connect", "handshake", "keepPeer", "hostConnect"} =>
                call[t].op \in ConnectOps /\ call[t].to \in Targets
           /\ call[t].pc \in {"asked", "keepRelay", "sendRelay"} => call[t].control \in Controls
           /\ call[t].pc \in {"peer", "hostSend"} => call[t].op \in {"send", "sendto"}
           /\ call[t].pc = "peer" => call[t].op = "send"
    BY ProxyAgents DEF CallFits

LEMMA ConnectSteps ==
    ASSUME TypeOK, NEW t \in Threads, CallFits(t), Connect(t)
    PROVE  LET h == call[t].h IN
           /\ call[t].pc = "connect" /\ h \in Handles /\ call[t].to \in Targets
           /\ call[t].op \in ConnectOps
           /\ UNCHANGED <<kind, inbox, relays, settings, table, receives>>
           /\ \/ /\ stack[h] = Unconnected /\ kind[h] = "stream" /\ call[t].to = Server
                 /\ StackSays(h, "host", Server)
                 /\ \/ CallMoved(t, "keepPeer")
                    \/ CallEnded(t) /\ call'[t].result = "none"
              \/ /\ stack[h] = Unconnected /\ kind[h] = "stream" /\ call[t].to # Server
                 /\ StackSays(h, "server", NoPeer)
                 /\ CallMoved(t, "handshake")
              \/ /\ CallEnded(t) /\ call'[t].result = "none"
                 /\ UNCHANGED stack
<1>1. call[t].pc = "connect"
    BY DEF Connect, At
<1>2. call[t].h \in Handles /\ call[t].to \in Targets /\ call[t].op \in ConnectOps
    BY <1>1, CallPlaces
<1>3. Goes(t, "keepPeer") => CallMoved(t, "keepPeer")
    BY CallSteps DEF Pcs
<1>4. Goes(t, "handshake") => CallMoved(t, "handshake")
    BY CallSteps DEF Pcs
<1>5. Returns(t, "failed") => CallEnded(t) /\ call'[t].result = "none"
    BY CallSteps DEF Results
<1>6. CallEnded(t) => UNCHANGED receives
    BY DEF CallEnded, receives
<1>7. UNCHANGED <<kind, inbox, relays, settings, table>>
    BY DEF Connect
<1>8. CASE Returns(t, "failed") /\ UNCHANGED stack
    BY <1>1, <1>2, <1>5, <1>6, <1>7, <1>8
<1>9. CASE ~(Returns(t, "failed") /\ UNCHANGED stack)
  <2>1. stack[call[t].h] = Unconnected /\ kind[call[t].h] = "stream"
    BY <1>9 DEF Connect
  <2>2. CASE call[t].to = Server
    <3>1. stack' = [stack EXCEPT ![call[t].h] = [via |-> "host", to |-> Server]]
      BY <1>9, <2>2 DEF Connect
    <3>2. (Goes(t, "keepPeer") /\ UNCHANGED receives) \/ Returns(t, "failed")
      BY <1>9, <2>2 DEF Connect
    <3>3. \/ CallMoved(t, "keepPeer")
          \/ CallEnded(t) /\ call'[t].result = "none"
      BY <1>3, <1>5, <3>2
    <3>4. UNCHANGED receives
      BY <1>5, <1>6, <3>2
    <3>5. StackSays(call[t].h, "host", Server)
      BY <1>2, <3>1, StackChanges DEF Targets
    <3>q. QED
      BY <1>1, <1>2, <1>7, <2>1, <2>2, <3>3, <3>4, <3>5
  <2>3. CASE call[t].to # Server
    <3>1. /\ stack' = [stack EXCEPT ![call[t].h].via = "server"]
          /\ Goes(t, "handshake") /\ UNCHANGED receives
      BY <1>9, <2>3 DEF Connect
    <3>2. stack[call[t].h].to = NoPeer
      BY <2>1 DEF Unconnected
    <3>3. StackSays(call[t].h, "server", stack[call[t].h].to)
      BY <1>2, <3>1, StackChanges
    <3>q. QED
      BY <1>1, <1>2, <1>4, <1>7, <2>1, <2>3, <3>1, <3>2, <3>3
  <2>q. QED
    BY <2>2, <2>3
<1>q. QED
    BY <1>8, <1>9

LEMMA ServerAnswersSteps ==
    ASSUME TypeOK, NEW t \in Threads, CallFits(t), ServerAnswers(t)
    PROVE  LET h == call[t].h IN
           /\ call[t].pc = "handshake" /\ h \in Handles /\ call[t].to \in Targets
           /\ call[t].op \in ConnectOps
           /\ UNCHANGED <<kind, inbox, relays, settings, table, receives>>
           /\ \/ /\ stack[h].via = "server"
                 /\ StackSays(h, "tunnel", call[t].to)
                 /\ CallMoved(t, "keepPeer")
              \/ /\ CallEnded(t) /\ call'[t].result = "none"
                 /\ UNCHANGED stack
<1>1. call[t].pc = "handshake"
    BY DEF ServerAnswers, At
<1>2. call[t].h \in Handles /\ call[t].to \in Targets /\ call[t].op \in ConnectOps
    BY <1>1, CallPlaces
<1>3. Goes(t, "keepPeer") => CallMoved(t, "keepPeer")
    BY CallSteps DEF Pcs
<1>4. Returns(t, "failed") => CallEnded(t) /\ call'[t].result = "none"
    BY CallSteps DEF Results
<1>5. CallEnded(t) => UNCHANGED receives
    BY DEF CallEnded, receives
<1>6. stack' = [stack EXCEPT ![call[t].h] = [via |-> "tunnel", to |-> call[t].to]] =>
         StackSays(call[t].h, "tunnel", call[t].to)
    BY <1>2, StackChanges
<1>q. QED
    BY <1>1, <1>2, <1>3, <1>4, <1>5, <1>6 DEF ServerAnswers

LEMMA KeepPeerSteps ==
    ASSUME TypeOK, NEW t \in Threads, CallFits(t), KeepPeer(t)
    PROVE  /\ call[t].pc = "keepPeer" /\ call[t].h \in Handles /\ call[t].to \in Targets
           /\ call[t].op \in ConnectOps
           /\ UNCHANGED <<sockets, relays, settings, receives>>
           /\ EntrySays(call[t].h, table[call[t].h].kind, table[call[t].h].control, call[t].to)
           /\ CallEnded(t) /\ call'[t].result = "none"
<1>1. call[t].pc = "keepPeer"
    BY DEF KeepPeer, At
<1>2. call[t].h \in Handles /\ call[t].to \in Targets /\ call[t].op \in ConnectOps
    BY <1>1, CallPlaces
<1>3. CallEnded(t) /\ call'[t].result = "none"
    BY CallSteps DEF KeepPeer, Results
<1>4. UNCHANGED receives
    BY <1>3 DEF CallEnded, receives
<1>5. EntrySays(call[t].h, table[call[t].h].kind, table[call[t].h].control, call[t].to)
    BY <1>2, EntryChanges DEF KeepPeer
<1>q. QED
    BY <1>1, <1>2, <1>3, <1>4, <1>5 DEF KeepPeer

LEMMA HostConnectsSteps ==
    ASSUME TypeOK, NEW t \in Threads, CallFits(t), HostConnects(t)
    PROVE  LET h == call[t].h IN
           /\ call[t].pc = "hostConnect" /\ h \in Handles /\ call[t].to \in Targets
           /\ call[t].op \in ConnectOps
           /\ UNCHANGED <<kind, inbox, relays, settings, table, receives>>
           /\ CallEnded(t) /\ call'[t].result = "none"
           /\ \/ /\ stack[h] = Unconnected /\ kind[h] # "none"
                 /\ StackSays(h, "host", call[t].to)
              \/ UNCHANGED stack
<1>1. call[t].pc = "hostConnect"
    BY DEF HostConnects, At
<1>2. call[t].h \in Handles /\ call[t].to \in Targets /\ call[t].op \in ConnectOps
    BY <1>1, CallPlaces
<1>3. CallEnded(t) /\ call'[t].result = "none"
    BY CallSteps DEF HostConnects, Results
<1>4. UNCHANGED receives
    BY <1>3 DEF CallEnded, receives
<1>5. stack' = [stack EXCEPT ![call[t].h] = [via |-> "host", to |-> call[t].to]] =>
         StackSays(call[t].h, "host", call[t].to)
    BY <1>2, StackChanges
<1>q. QED
    BY <1>1, <1>2, <1>3, <1>4, <1>5 DEF HostConnects

LEMMA FindPeerSteps ==
    ASSUME TypeOK, NEW t \in Threads, CallFits(t), FindPeer(t)
    PROVE  /\ call[t].pc = "peer" /\ call[t].h \in Handles /\ call[t].op = "send"
           /\ UNCHANGED <<sockets, relays, settings, table, receives>>
           /\ CallMoved(t, IF table[call[t].h].peer = NoPeer THEN "hostSend" ELSE "associate")
<1>1. call[t].pc = "peer"
    BY DEF FindPeer, At
<1>2. call[t].h \in Handles /\ call[t].op = "send"
    BY <1>1, CallPlaces
<1>3. Goes(t, IF table[call[t].h].peer = NoPeer THEN "hostSend" ELSE "associate")
    BY DEF FindPeer
<1>4. CallMoved(t, IF table[call[t].h].peer = NoPeer THEN "hostSend" ELSE "associate")
    BY <1>3, CallSteps DEF Pcs
<1>q. QED
    BY <1>1, <1>2, <1>4 DEF FindPeer

LEMMA SendToRelaySteps ==
    ASSUME TypeOK, NEW t \in Threads, CallFits(t), SendToRelay(t)
    PROVE  /\ call[t].pc = "sendRelay" /\ call[t].h \in Handles /\ call[t].control \in Controls
           /\ UNCHANGED <<sockets, open, settings, table, receives>>
           /\ client' = IF kind[call[t].h] = "datagram"
                        THEN [client EXCEPT ![call[t].control] = call[t].h] ELSE client
           /\ CallEnded(t) /\ call'[t].result = "none"
<1>1. call[t].pc = "sendRelay"
    BY DEF SendToRelay, At
<1>2. call[t].h \in Handles /\ call[t].control \in Controls
    BY <1>1, CallPlaces
<1>3. CallEnded(t) /\ call'[t].result = "none"
    BY CallSteps DEF SendToRelay, Results
<1>4. UNCHANGED receives
    BY <1>3 DEF CallEnded, receives
<1>q. QED
    BY <1>1, <1>2, <1>3, <1>4 DEF SendToRelay

LEMMA HostSendsSteps ==
    ASSUME TypeOK, NEW t \in Threads, CallFits(t), HostSends(t)
    PROVE  LET h == call[t].h IN
           /\ call[t].pc = "hostSend" /\ h \in Handles /\ call[t].op \in {"send", "sendto"}
           /\ UNCHANGED <<sockets, relays, settings, table, receives>>
           /\ CallEnded(t) /\ call'[t].result \in {"direct", "none"}
           /\ call'[t].result = "direct" =>
                kind[h] = "datagram" /\ (call[t].op = "sendto" \/ stack[h].via = "host")
<1>1. call[t].pc = "hostSend"
    BY DEF HostSends, At
<1>2. call[t].h \in Handles /\ call[t].op \in {"send", "sendto"}
    BY <1>1, CallPlaces
<1> DEFINE sent == kind[call[t].h] = "datagram" /\ (call[t].op = "sendto" \/ stack[call[t].h].via = "host")
<1>3. Returns(t, IF sent THEN "direct" ELSE "ok")
    BY DEF HostSends
<1> HIDE DEF sent
<1>4. CallEnded(t) /\ call'[t].result = IF sent THEN "direct" ELSE "none"
    BY <1>3, CallSteps DEF Results
<1>5. UNCHANGED receives
    BY <1>4 DEF CallEnded, receives
<1>q. QED
    BY <1>1, <1>2, <1>4, <1>5 DEF HostSends, sent

LEMMA FindAssociationSteps ==
    ASSUME TypeOK, NEW t \in Threads, CallFits(t), FindAssociation(t)
    PROVE  /\ call[t].pc = "association" /\ call[t].h \in Handles
           /\ UNCHANGED <<sockets, relays, settings, table, receives>>
           /\ CallMoved(t, IF carried # {} /\ table[call[t].h].control # NoControl
                           THEN "unwrap" ELSE "hostReceive")
<1>1. call[t].pc = "association"
    BY DEF FindAssociation, At
<1>2. call[t].h \in Handles
    BY <1>1, CallPlaces
<1> DEFINE next == IF carried # {} /\ table[call[t].h].control # NoControl THEN "unwrap" ELSE "hostReceive"
<1>3. Goes(t, next)
    BY DEF FindAssociation
<1>4. CallMoved(t, next)
    BY <1>3, CallSteps DEF Pcs
<1>q. QED
    BY <1>1, <1>2, <1>4 DEF FindAssociation

LEMMA RelayAnswersSteps ==
    ASSUME TypeOK, NEW a \in Agents, CallFits(a), RelayAnswers(a)
    PROVE  /\ call[a].pc = "asked" /\ call[a].h \in Handles /\ call[a].control \in Controls
           /\ UNCHANGED <<sockets, client, settings, table>>
           /\ \/ CallMoved(a, "keepRelay") /\ UNCHANGED <<open, receives>>
              \/ open' = open \ {call[a].control} /\ Returns(a, "failed")
<1>1. call[a].pc = "asked"
    BY DEF RelayAnswers, At
<1>2. call[a].h \in Handles /\ call[a].control \in Controls
    BY <1>1 DEF CallFits
<1>3. Goes(a, "keepRelay") => CallMoved(a, "keepRelay")
    BY CallSteps, WorkSteps, ProxyAgents DEF Pcs
<1>q. QED
    BY <1>1, <1>2, <1>3 DEF RelayAnswers

\* An agent reads a datagram, or finds that it cannot.
DatagramTaken(a, unwraps) ==
    /\ UNCHANGED <<kind, stack, relays, settings, table>>
    /\ \/ /\ inbox[call[a].h] # << >>
          /\ inbox' = [inbox EXCEPT ![call[a].h] = Tail(@)]
          /\ Returns(a, IF Head(inbox[call[a].h]) # NoControl /\ ~unwraps THEN "header" ELSE "ok")
       \/ Returns(a, "failed") /\ UNCHANGED inbox

LEMMA ReadSteps ==
    ASSUME TypeOK, NEW a \in Agents, CallFits(a), Read(a)
    PROVE  /\ call[a].pc = "read" /\ call[a].h \in Handles
           /\ DatagramTaken(a, Head(inbox[call[a].h]) = table[call[a].h].control)
<1>1. call[a].pc = "read"
    BY DEF Read, At
<1>2. call[a].h \in Handles
    BY <1>1 DEF CallFits
<1>q. QED
    BY <1>1, <1>2 DEF Read, TakesDatagram, DatagramTaken

LEMMA UnwrapSteps ==
    ASSUME TypeOK, NEW t \in Threads, CallFits(t), Unwrap(t)
    PROVE  /\ call[t].pc = "unwrap" /\ call[t].h \in Handles
           /\ DatagramTaken(t, Head(inbox[call[t].h]) = table[call[t].h].control)
<1>1. call[t].pc = "unwrap"
    BY DEF Unwrap, At
<1>2. call[t].h \in Handles
    BY <1>1, CallPlaces
<1>q. QED
    BY <1>1, <1>2 DEF Unwrap, TakesDatagram, DatagramTaken

LEMMA HostReceivesSteps ==
    ASSUME TypeOK, NEW t \in Threads, CallFits(t), HostReceives(t)
    PROVE  /\ call[t].pc = "hostReceive" /\ call[t].h \in Handles
           /\ DatagramTaken(t, FALSE)
<1>1. call[t].pc = "hostReceive"
    BY DEF HostReceives, At
<1>2. call[t].h \in Handles
    BY <1>1, CallPlaces
<1>q. QED
    BY <1>1, <1>2 DEF HostReceives, TakesDatagram, DatagramTaken

LEMMA QueueReceiveSteps ==
    ASSUME TypeOK, NEW t \in Threads, CallFits(t), QueueReceive(t)
    PROVE  /\ call[t].pc = "queue" /\ call[t].h \in Handles
           /\ UNCHANGED <<sockets, relays, settings, table, late, batch>>
           /\ OnlyCall(t)
           /\ call'[t].pc = "idle" /\ call'[t].op = "none" /\ call'[t].h = NoHandle
           /\ call'[t].control = NoControl /\ call'[t].to = NoPeer /\ call'[t].result = "none"
           /\ \/ UNCHANGED <<status, of, queue>>
              \/ \E r \in Receives :
                    /\ status[r] = "new"
                    /\ status' = [status EXCEPT ![r] = "queued"]
                    /\ of' = [of EXCEPT ![r] = call[t].h]
                    /\ queue' = Append(queue, r)
<1>1. call[t].pc = "queue" /\ call \in [Agents -> CallRecs]
    BY CallTypes DEF QueueReceive, At
<1>2. call[t].h \in Handles
    BY <1>1, CallPlaces
<1>3. call' = [call EXCEPT ![t] = Home(t, "none")]
    BY DEF QueueReceive
<1>4. /\ OnlyCall(t)
      /\ call'[t].pc = "idle" /\ call'[t].op = "none" /\ call'[t].h = NoHandle
      /\ call'[t].control = NoControl /\ call'[t].to = NoPeer /\ call'[t].result = "none"
    BY <1>1, <1>3, ProxyAgents DEF Home, OnlyCall, CallRecs, Pcs, Results
<1>q. QED
    BY <1>1, <1>2, <1>4 DEF QueueReceive

LEMMA ReleaseStateSteps ==
    ASSUME TypeOK, NEW t \in Threads, CallFits(t), ReleaseState(t)
    PROVE  LET c == table[call[t].h].control IN
           /\ call[t].pc = "forget" /\ call[t].h \in Handles
           /\ UNCHANGED <<sockets, settings, receives>>
           /\ open' = open \ {c}
           /\ client' = [d \in Controls |-> IF d = c THEN NoHandle ELSE client[d]]
           /\ client' \in [Controls -> Handles \cup {NoHandle}]
           /\ EntrySays(call[t].h, "unknown", NoControl, NoPeer)
           /\ CallMoved(t, "closeSocket")
<1>1. call[t].pc = "forget"
    BY DEF ReleaseState, At
<1>2. call[t].h \in Handles
    BY <1>1, CallPlaces
<1>3. Goes(t, "closeSocket") => CallMoved(t, "closeSocket")
    BY CallSteps DEF Pcs
<1>4. EntrySays(call[t].h, "unknown", NoControl, NoPeer)
    BY <1>2, EntryChanges DEF ReleaseState
<1> DEFINE c == table[call[t].h].control
<1>5. client' = [d \in Controls |-> IF d = c THEN NoHandle ELSE client[d]] /\ open' = open \ {c}
    BY DEF ReleaseState
<1> HIDE DEF c
<1>6. client' \in [Controls -> Handles \cup {NoHandle}]
    BY <1>5 DEF TypeOK
<1>q. QED
    BY <1>1, <1>2, <1>3, <1>4, <1>5, <1>6 DEF ReleaseState, c

LEMMA CloseSocketSteps ==
    ASSUME TypeOK, NEW t \in Threads, CallFits(t), CloseSocket(t)
    PROVE  LET h == call[t].h IN
           /\ call[t].pc = "closeSocket" /\ h \in Handles
           /\ UNCHANGED <<open, settings, table, receives>>
           /\ kind' = [kind EXCEPT ![h] = "none"] /\ kind' \in [Handles -> Kinds \cup {"none"}]
           /\ StackSays(h, "none", NoPeer)
           /\ inbox' = [inbox EXCEPT ![h] = << >>]
           /\ client' = [c \in Controls |-> IF client[c] = h THEN NoHandle ELSE client[c]]
           /\ client' \in [Controls -> Handles \cup {NoHandle}]
           /\ CallEnded(t) /\ call'[t].result = "none"
<1>1. call[t].pc = "closeSocket"
    BY DEF CloseSocket, At
<1>2. call[t].h \in Handles
    BY <1>1, CallPlaces
<1>3. CallEnded(t) /\ call'[t].result = "none"
    BY CallSteps DEF CloseSocket, Results
<1>4. UNCHANGED receives
    BY <1>3 DEF CallEnded, receives
<1>5. StackSays(call[t].h, "none", NoPeer)
    BY <1>2, StackChanges DEF CloseSocket
<1> DEFINE h == call[t].h
<1>6. /\ client' = [c \in Controls |-> IF client[c] = h THEN NoHandle ELSE client[c]]
      /\ kind' = [kind EXCEPT ![h] = "none"]
    BY DEF CloseSocket
<1> HIDE DEF h
<1>7. client' \in [Controls -> Handles \cup {NoHandle}] /\ kind' \in [Handles -> Kinds \cup {"none"}]
    BY <1>6 DEF TypeOK
<1>q. QED
    BY <1>1, <1>2, <1>3, <1>4, <1>5, <1>6, <1>7 DEF CloseSocket, h

\* The worker takes the queue, asks for the sockets, and puts back what waits.
LEMMA WorkerTakesSteps ==
    ASSUME TypeOK, WorkerTakes
    PROVE  /\ call[Worker].pc = "serve" /\ batch = << >> /\ queue # << >>
           /\ UNCHANGED <<sockets, relays, settings, table, of, late>>
           /\ batch' = [i \in DOMAIN queue |-> [receive |-> queue[i], readable |-> FALSE]]
           /\ queue' = << >>
           /\ status' = [r \in Receives |-> IF status[r] = "queued" THEN "taken" ELSE status[r]]
           /\ CallMoved(Worker, "select")
<1>1. Goes(Worker, "select") => CallMoved(Worker, "select")
    BY WorkSteps DEF Pcs
<1>q. QED
    BY <1>1 DEF WorkerTakes, At

LEMMA WorkerSelectsSteps ==
    ASSUME TypeOK, WorkerSelects
    PROVE  /\ call[Worker].pc = "select"
           /\ UNCHANGED <<sockets, relays, settings, table, queue>>
           /\ CallMoved(Worker, "serve")
           /\ \/ /\ batch' = << >>
                 /\ status' = [r \in Receives |-> IF r \in Batched THEN "failed" ELSE status[r]]
                 /\ of' = [r \in Receives |-> IF r \in Batched THEN NoHandle ELSE of[r]]
                 /\ late' = late \ Batched
              \/ /\ batch' = [i \in DOMAIN batch |->
                                 [batch[i] EXCEPT !.readable = inbox[of[batch[i].receive]] # << >>]]
                 /\ UNCHANGED <<status, of, late>>
<1>1. Goes(Worker, "serve") => CallMoved(Worker, "serve")
    BY WorkSteps DEF Pcs
<1>q. QED
    BY <1>1 DEF WorkerSelects, At, Completes

LEMMA WorkerPutsBackSteps ==
    ASSUME WorkerPutsBack
    PROVE  /\ call[Worker].pc = "serve" /\ batch # << >>
           /\ UNCHANGED <<sockets, relays, settings, table, call>>
           /\ batch' = Tail(batch)
           /\ \/ /\ status' = [r \in Receives |-> IF r = Current THEN "failed" ELSE status[r]]
                 /\ of' = [r \in Receives |-> IF r = Current THEN NoHandle ELSE of[r]]
                 /\ late' = late \ {Current}
                 /\ queue' = queue
              \/ /\ status' = [status EXCEPT ![Current] = "queued"]
                 /\ queue' = Append(queue, Current)
                 /\ UNCHANGED <<of, late>>
    BY DEF WorkerPutsBack, At, Completes

\* The types of the sockets, the relays, the table, the calls and the receives.
SocketTypes ==
    /\ kind \in [Handles -> Kinds \cup {"none"}]
    /\ stack \in [Handles -> [via : {"none", "server", "tunnel", "host"}, to : Targets \cup {NoPeer}]]
    /\ inbox \in [Handles -> Seq(Controls \cup {NoControl})]
RelayTypes == open \subseteq Controls /\ client \in [Controls -> Handles \cup {NoHandle}]
TableType == table \in [Handles -> Entries]
CallType == call \in [Agents -> CallRecs]
ReceiveTypes ==
    /\ status \in [Receives -> {"unused", "new", "queued", "taken", "ok", "failed", "header"}]
    /\ of \in [Receives -> Handles \cup {NoHandle}]
    /\ late \subseteq Receives
    /\ queue \in Seq(Receives)
    /\ batch \in Seq([receive : Receives, readable : BOOLEAN])

LEMMA TypeParts ==
    /\ TypeOK => SocketTypes /\ RelayTypes /\ TableType /\ CallType /\ ReceiveTypes
    /\ TypeOK /\ UNCHANGED settings /\ SocketTypes' /\ RelayTypes' /\ TableType' /\ CallType' /\ ReceiveTypes'
          => TypeOK'
    /\ SocketTypes /\ UNCHANGED sockets => SocketTypes'
    /\ RelayTypes /\ UNCHANGED relays => RelayTypes'
    /\ TableType /\ UNCHANGED table => TableType'
    /\ CallType /\ UNCHANGED call => CallType'
    /\ ReceiveTypes /\ UNCHANGED receives => ReceiveTypes'
    /\ \A a \in Agents : OnlyCall(a) => CallType'
<1>1. TypeOK => SocketTypes /\ RelayTypes /\ TableType /\ CallType /\ ReceiveTypes
    BY DEF TypeOK, SocketTypes, RelayTypes, TableType, CallType, CallRecs, ReceiveTypes
<1>2. TypeOK /\ UNCHANGED settings /\ SocketTypes' /\ RelayTypes' /\ TableType' /\ CallType' /\ ReceiveTypes'
          => TypeOK'
    BY DEF TypeOK, settings, SocketTypes, RelayTypes, TableType, CallType, CallRecs, ReceiveTypes
<1>3. SocketTypes /\ UNCHANGED sockets => SocketTypes'
    BY DEF sockets, SocketTypes
<1>4. RelayTypes /\ UNCHANGED relays => RelayTypes'
    BY DEF relays, RelayTypes
<1>5. TableType /\ UNCHANGED table => TableType'
    BY DEF TableType
<1>6. CallType /\ UNCHANGED call => CallType'
    BY DEF CallType
<1>7. ReceiveTypes /\ UNCHANGED receives => ReceiveTypes'
    BY DEF receives, ReceiveTypes
<1>8. \A a \in Agents : OnlyCall(a) => CallType'
    BY DEF OnlyCall, CallType
<1>q. QED
    BY <1>1, <1>2, <1>3, <1>4, <1>5, <1>6, <1>7, <1>8

\* The receive the worker looks at is the first of the batch.
LEMMA CurrentReceive ==
    ASSUME TypeOK, batch # << >>
    PROVE  /\ Current \in Receives /\ Current = batch[1].receive /\ 1 \in 1 .. Len(batch)
           /\ Tail(batch) \in Seq([receive : Receives, readable : BOOLEAN])
           /\ Len(Tail(batch)) = Len(batch) - 1
           /\ \A i \in 1 .. Len(Tail(batch)) : i + 1 \in 1 .. Len(batch) /\ Tail(batch)[i] = batch[i + 1]
<1>1. batch \in Seq([receive : Receives, readable : BOOLEAN])
    BY DEF TypeOK
<1>2. /\ Tail(batch) \in Seq([receive : Receives, readable : BOOLEAN])
      /\ Len(Tail(batch)) = Len(batch) - 1
      /\ \A i \in 1 .. Len(Tail(batch)) : i + 1 \in 1 .. Len(batch) /\ Tail(batch)[i] = batch[i + 1]
    BY <1>1, HeadTailProperties
<1>3. Current = batch[1].receive /\ 1 \in 1 .. Len(batch)
    BY <1>1 DEF Current
<1>4. batch[1] \in [receive : Receives, readable : BOOLEAN]
    BY <1>1, ElementOfSeq, <1>3
<1>q. QED
    BY <1>2, <1>3, <1>4

\* What select() finds does not change which receives are in the batch.
LEMMA SelectedBatch ==
    ASSUME batch \in Seq([receive : Receives, readable : BOOLEAN]),
           batch' = [i \in DOMAIN batch |->
                       [batch[i] EXCEPT !.readable = inbox[of[batch[i].receive]] # << >>]]
    PROVE  /\ batch' \in Seq([receive : Receives, readable : BOOLEAN]) /\ Len(batch') = Len(batch)
           /\ \A i \in 1 .. Len(batch) : batch'[i].receive = batch[i].receive
<1> DEFINE R == [receive : Receives, readable : BOOLEAN]
<1>1. \A b \in R : \A x \in BOOLEAN : [b EXCEPT !.readable = x] \in R /\ [b EXCEPT !.readable = x].receive = b.receive
    OBVIOUS
<1>2. DOMAIN batch = 1 .. Len(batch) /\ Len(batch) \in Nat /\ \A i \in 1 .. Len(batch) : batch[i] \in R
    BY ElementOfSeq, LenProperties
<1> DEFINE found(i) == inbox[of[batch[i].receive]] # << >>
<1>3. \A i : found(i) \in BOOLEAN
    OBVIOUS
<1>4. batch' = [i \in 1 .. Len(batch) |-> [batch[i] EXCEPT !.readable = found(i)]]
    BY <1>2
<1> HIDE DEF R, found
<1>5. batch' \in [1 .. Len(batch) -> R] /\ \A i \in 1 .. Len(batch) : batch'[i].receive = batch[i].receive
  <2>1. \A i \in 1 .. Len(batch) : /\ [batch[i] EXCEPT !.readable = found(i)] \in R
                                   /\ [batch[i] EXCEPT !.readable = found(i)].receive = batch[i].receive
    BY <1>1, <1>2, <1>3
  <2>q. QED
    BY <1>4, <2>1
<1>6. batch' \in Seq(R) /\ Len(batch') = Len(batch)
    BY <1>2, <1>5, SeqDef
<1>q. QED
    BY <1>5, <1>6 DEF R

\* What the return of an agent leaves of the receives.
LEMMA ReturnTypes ==
    ASSUME CallInv, NEW a \in Agents, call[a].pc \in {"asked", "associate", "read", "unwrap", "hostReceive"},
           NEW result \in {"ok", "failed", "header"}, Returns(a, result)
    PROVE  CallType' /\ ReceiveTypes'
<1>1. TypeOK /\ WorkerFits
    BY DEF CallInv
<1>2. CASE a \in Threads
  <2>1. CallEnded(a)
    BY <1>1, <1>2, CallSteps
  <2>q. QED
    BY <1>1, <2>1, TypeParts DEF CallEnded, receives
<1>3. CASE a = Worker
  <2>1. WorkEnded(result)
    BY <1>1, <1>3, WorkSteps
  <2>2. batch # << >>
    BY <1>1, <1>3 DEF WorkerFits
  <2>3. CallType'
    BY <2>1, TypeParts, ProxyAgents DEF WorkEnded
  <2>4. ReceiveTypes'
    BY <1>1, <2>1, <2>2, CurrentReceive DEF TypeOK, WorkEnded, ReceiveTypes
  <2>q. QED
    BY <2>3, <2>4
<1>q. QED
    BY <1>2, <1>3, ProxyAgents

LEMMA TakenTypes ==
    ASSUME CallInv, NEW a \in Agents, call[a].pc \in {"read", "unwrap", "hostReceive"},
           call[a].h \in Handles, NEW unwraps, DatagramTaken(a, unwraps)
    PROVE  TypeOK'
<1>1. TypeOK
    BY DEF CallInv
<1>2. CallType' /\ ReceiveTypes'
  <2>1. CASE Returns(a, "failed")
    BY <2>1, ReturnTypes
  <2>2. CASE Returns(a, IF Head(inbox[call[a].h]) # NoControl /\ ~unwraps THEN "header" ELSE "ok")
    BY <2>2, ReturnTypes
  <2>q. QED
    BY <2>1, <2>2 DEF DatagramTaken
<1>3. SocketTypes'
  <2>1. CASE UNCHANGED inbox
    BY <1>1, <2>1 DEF TypeOK, DatagramTaken, SocketTypes
  <2>2. CASE inbox[call[a].h] # << >> /\ inbox' = [inbox EXCEPT ![call[a].h] = Tail(@)]
    <3>1. Tail(inbox[call[a].h]) \in Seq(Controls \cup {NoControl})
      BY <1>1, <2>2 DEF TypeOK
    <3>q. QED
      BY <1>1, <2>2, <3>1 DEF TypeOK, DatagramTaken, SocketTypes
  <2>q. QED
    BY <2>1, <2>2 DEF DatagramTaken
<1>q. QED
    BY <1>1, <1>2, <1>3, TypeParts DEF DatagramTaken

\* Every step keeps the types.
LEMMA TypeStep ==
    ASSUME CallInv, [Next]_vars
    PROVE  TypeOK'
<1>0. TypeOK /\ (\A a \in Agents : CallFits(a)) /\ WorkerFits /\ ReceivesFit
    BY DEF CallInv
<1>1. ASSUME NEW h \in Handles, NEW k \in Kinds, OpenSocket(h, k) PROVE TypeOK'
  <2>1. SocketTypes'
    BY <1>0, <1>1 DEF OpenSocket, TypeOK, SocketTypes
  <2>q. QED
    BY <1>0, <1>1, <2>1, TypeParts DEF OpenSocket
<1>2. ASSUME NEW t \in Threads, NEW op \in Ops, NEW h \in Handles, NEW p \in Targets \cup {NoPeer},
             Begin(t, op, h, p)
      PROVE  TypeOK'
  <2>1. call \in [Agents -> CallRecs]
    BY <1>0, CallTypes
  <2>2. OnlyCall(t)
    BY <1>2, <2>1, CallBegins
  <2>q. QED
    BY <1>0, <1>2, <2>2, TypeParts, ProxyAgents DEF Begin
<1>3. ASSUME NEW t \in Threads, AskKind(t) PROVE TypeOK'
    BY <1>0, <1>3, AskKindSteps, TypeParts, ProxyAgents
<1>4. ASSUME NEW t \in Threads, KeepKind(t) PROVE TypeOK'
  <2>1. OnlyCall(t) /\ UNCHANGED <<sockets, relays, settings, receives>>
    BY <1>0, <1>4, KeepKindSteps, ProxyAgents
  <2>2. TableType'
    BY <1>0, <1>4, KeepKindSteps, ProxyAgents DEF EntrySays, TableType
  <2>q. QED
    BY <1>0, <2>1, <2>2, TypeParts, ProxyAgents
<1>5. ASSUME NEW t \in Threads, Connect(t) PROVE TypeOK'
  <2>1. OnlyCall(t) /\ UNCHANGED <<kind, inbox, relays, settings, table, receives>>
    BY <1>0, <1>5, ConnectSteps, ProxyAgents DEF CallMoved, CallEnded
  <2>2. SocketTypes'
    BY <1>0, <1>5, <2>1, ConnectSteps, ProxyAgents DEF TypeOK, StackSays, SocketTypes
  <2>q. QED
    BY <1>0, <2>1, <2>2, TypeParts, ProxyAgents
<1>6. ASSUME NEW t \in Threads, ServerAnswers(t) PROVE TypeOK'
  <2>1. OnlyCall(t) /\ UNCHANGED <<kind, inbox, relays, settings, table, receives>>
    BY <1>0, <1>6, ServerAnswersSteps, ProxyAgents DEF CallMoved, CallEnded
  <2>2. SocketTypes'
    BY <1>0, <1>6, <2>1, ServerAnswersSteps, ProxyAgents DEF TypeOK, StackSays, SocketTypes
  <2>q. QED
    BY <1>0, <2>1, <2>2, TypeParts, ProxyAgents
<1>7. ASSUME NEW t \in Threads, KeepPeer(t) PROVE TypeOK'
  <2>1. OnlyCall(t) /\ UNCHANGED <<sockets, relays, settings, receives>>
    BY <1>0, <1>7, KeepPeerSteps, ProxyAgents DEF CallEnded
  <2>2. TableType'
    BY <1>0, <1>7, KeepPeerSteps, ProxyAgents DEF EntrySays, TableType
  <2>q. QED
    BY <1>0, <2>1, <2>2, TypeParts, ProxyAgents
<1>8. ASSUME NEW t \in Threads, HostConnects(t) PROVE TypeOK'
  <2>1. OnlyCall(t) /\ UNCHANGED <<kind, inbox, relays, settings, table, receives>>
    BY <1>0, <1>8, HostConnectsSteps, ProxyAgents DEF CallMoved, CallEnded
  <2>2. SocketTypes'
    BY <1>0, <1>8, <2>1, HostConnectsSteps, ProxyAgents DEF TypeOK, StackSays, SocketTypes
  <2>q. QED
    BY <1>0, <2>1, <2>2, TypeParts, ProxyAgents
<1>9. ASSUME NEW a \in Agents, Associate(a) PROVE TypeOK'
  <2>1. CallFits(a) /\ call[a].pc = "associate" /\ UNCHANGED <<sockets, client, settings, table>>
    BY <1>0, <1>9, AssociateSteps
  <2>2. CallType' /\ RelayTypes' /\ ReceiveTypes'
    <3>1. CASE Returns(a, "failed") /\ UNCHANGED open
      <4>1. CallType' /\ ReceiveTypes'
        BY <2>1, <3>1, ReturnTypes
      <4>q. QED
        BY <1>0, <2>1, <3>1, <4>1 DEF TypeOK, RelayTypes
    <3>2. CASE ~(Returns(a, "failed") /\ UNCHANGED open)
      <4>1. OnlyCall(a) /\ UNCHANGED receives
        BY <1>0, <2>1, <1>9, <3>2, AssociateSteps DEF CallTook
      <4>2. open' \subseteq Controls
        BY <1>0, <2>1, <1>9, <3>2, AssociateSteps DEF TypeOK
      <4>q. QED
        BY <1>0, <2>1, <4>1, <4>2, TypeParts DEF RelayTypes
    <3>q. QED
      BY <3>1, <3>2
  <2>q. QED
    BY <1>0, <2>1, <2>2, TypeParts
<1>10. ASSUME NEW a \in Agents, RelayAnswers(a) PROVE TypeOK'
  <2>1. CallFits(a) /\ call[a].pc = "asked" /\ UNCHANGED <<sockets, client, settings, table>>
    BY <1>0, <1>10, RelayAnswersSteps
  <2>2. CallType' /\ RelayTypes' /\ ReceiveTypes'
    <3>1. CASE open' = open \ {call[a].control} /\ Returns(a, "failed")
      <4>1. CallType' /\ ReceiveTypes'
        BY <2>1, <3>1, ReturnTypes
      <4>q. QED
        BY <1>0, <2>1, <3>1, <4>1 DEF TypeOK, RelayTypes
    <3>2. CASE CallMoved(a, "keepRelay") /\ UNCHANGED <<open, receives>>
      BY <1>0, <2>1, <3>2, TypeParts DEF CallMoved, RelayTypes
    <3>q. QED
      BY <1>0, <2>1, <1>10, <3>1, <3>2, RelayAnswersSteps
  <2>q. QED
    BY <1>0, <2>1, <2>2, TypeParts
<1>11. ASSUME NEW a \in Agents, KeepRelay(a) PROVE TypeOK'
  <2>1. OnlyCall(a) /\ UNCHANGED <<sockets, client, settings, receives>>
    BY <1>0, <1>11, KeepRelaySteps DEF CallTook
  <2>2. TableType' /\ open' \subseteq Controls
    BY <1>0, <1>11, KeepRelaySteps DEF TypeOK, EntrySays, TableType
  <2>3. RelayTypes'
    BY <1>0, <2>1, <2>2 DEF TypeOK, RelayTypes
  <2>q. QED
    BY <1>0, <2>1, <2>2, <2>3, TypeParts
<1>12. ASSUME NEW t \in Threads, FindPeer(t) PROVE TypeOK'
    BY <1>0, <1>12, FindPeerSteps, TypeParts, ProxyAgents DEF CallMoved
<1>13. ASSUME NEW t \in Threads, SendToRelay(t) PROVE TypeOK'
  <2>1. OnlyCall(t) /\ UNCHANGED <<sockets, open, settings, table, receives>>
    BY <1>0, <1>13, SendToRelaySteps, ProxyAgents DEF CallEnded
  <2>2. RelayTypes'
    BY <1>0, <1>13, <2>1, SendToRelaySteps, ProxyAgents DEF TypeOK, RelayTypes
  <2>q. QED
    BY <1>0, <2>1, <2>2, TypeParts, ProxyAgents
<1>14. ASSUME NEW t \in Threads, HostSends(t) PROVE TypeOK'
    BY <1>0, <1>14, HostSendsSteps, TypeParts, ProxyAgents DEF CallEnded
<1>15. ASSUME NEW a \in Agents, Read(a) PROVE TypeOK'
  <2>1. a \in Agents /\ CallFits(a)
    BY <1>0, ProxyAgents
  <2>q. QED
    BY <1>0, <1>15, <2>1, ReadSteps, TakenTypes
<1>16. ASSUME NEW t \in Threads, FindAssociation(t) PROVE TypeOK'
    BY <1>0, <1>16, FindAssociationSteps, TypeParts, ProxyAgents DEF CallMoved
<1>17. ASSUME NEW t \in Threads, Unwrap(t) PROVE TypeOK'
  <2>1. t \in Agents /\ CallFits(t)
    BY <1>0, ProxyAgents
  <2>q. QED
    BY <1>0, <1>17, <2>1, UnwrapSteps, TakenTypes
<1>18. ASSUME NEW t \in Threads, HostReceives(t) PROVE TypeOK'
  <2>1. t \in Agents /\ CallFits(t)
    BY <1>0, ProxyAgents
  <2>q. QED
    BY <1>0, <1>18, <2>1, HostReceivesSteps, TakenTypes
<1>19. ASSUME NEW t \in Threads, QueueReceive(t) PROVE TypeOK'
  <2>1. /\ OnlyCall(t) /\ call[t].h \in Handles
        /\ UNCHANGED <<sockets, relays, settings, table, late, batch>>
    BY <1>0, <1>19, QueueReceiveSteps, ProxyAgents
  <2>2. \A r \in Receives : Append(queue, r) \in Seq(Receives)
    BY <1>0 DEF TypeOK
  <2>3. ReceiveTypes'
    <3>1. CASE UNCHANGED <<status, of, queue>>
      BY <1>0, <2>1, <3>1 DEF TypeOK, ReceiveTypes
    <3>2. ASSUME NEW r \in Receives, status' = [status EXCEPT ![r] = "queued"],
                 of' = [of EXCEPT ![r] = call[t].h], queue' = Append(queue, r)
          PROVE  ReceiveTypes'
      BY <1>0, <2>1, <2>2, <3>2 DEF TypeOK, ReceiveTypes
    <3>q. QED
      BY <1>0, <1>19, <3>1, <3>2, QueueReceiveSteps, ProxyAgents
  <2>q. QED
    BY <1>0, <2>1, <2>3, TypeParts, ProxyAgents
<1>20. ASSUME NEW t \in Threads, ReleaseState(t) PROVE TypeOK'
  <2>1. OnlyCall(t) /\ UNCHANGED <<sockets, settings, receives>>
    BY <1>0, <1>20, ReleaseStateSteps, ProxyAgents DEF CallMoved
  <2>2. RelayTypes' /\ TableType'
    BY <1>0, <1>20, ReleaseStateSteps, ProxyAgents DEF TypeOK, EntrySays, RelayTypes, TableType
  <2>q. QED
    BY <1>0, <2>1, <2>2, TypeParts, ProxyAgents
<1>21. ASSUME NEW t \in Threads, CloseSocket(t) PROVE TypeOK'
  <2>1. OnlyCall(t) /\ UNCHANGED <<open, settings, table, receives>>
    BY <1>0, <1>21, CloseSocketSteps, ProxyAgents DEF CallEnded
  <2>2. RelayTypes' /\ kind' \in [Handles -> Kinds \cup {"none"}]
    BY <1>0, <1>21, CloseSocketSteps, ProxyAgents DEF TypeOK, RelayTypes
  <2>3. inbox' = [inbox EXCEPT ![call[t].h] = << >>] /\ << >> \in Seq(Controls \cup {NoControl})
    BY <1>0, <1>21, CloseSocketSteps, ProxyAgents
  <2>4. StackSays(call[t].h, "none", NoPeer)
    BY <1>0, <1>21, CloseSocketSteps, ProxyAgents
  <2>5. SocketTypes'
    BY <1>0, <2>2, <2>3, <2>4 DEF TypeOK, StackSays, SocketTypes
  <2>q. QED
    BY <1>0, <2>1, <2>2, <2>5, TypeParts, ProxyAgents
<1>22. ASSUME WorkerTakes PROVE TypeOK'
  <2>1. OnlyCall(Worker) /\ UNCHANGED <<sockets, relays, settings, table, of, late>>
    BY <1>0, <1>22, WorkerTakesSteps DEF CallMoved
  <2>2. batch' \in Seq([receive : Receives, readable : BOOLEAN])
    <3>1. queue \in Seq(Receives) /\ batch' = [i \in 1 .. Len(queue) |-> [receive |-> queue[i], readable |-> FALSE]]
      BY <1>0, <1>22, WorkerTakesSteps DEF TypeOK
    <3>2. batch' \in [1 .. Len(queue) -> [receive : Receives, readable : BOOLEAN]]
      BY <3>1
    <3>q. QED
      BY <3>1, <3>2, SeqDef
  <2>3. ReceiveTypes'
    BY <1>0, <1>22, <2>1, <2>2, WorkerTakesSteps DEF TypeOK, ReceiveTypes
  <2>q. QED
    BY <1>0, <2>1, <2>3, TypeParts, ProxyAgents
<1>23. ASSUME WorkerSelects PROVE TypeOK'
  <2>1. OnlyCall(Worker) /\ UNCHANGED <<sockets, relays, settings, table, queue>>
    BY <1>0, <1>23, WorkerSelectsSteps DEF CallMoved
  <2>2. ReceiveTypes'
    <3>1. CASE batch' = << >>
      BY <1>0, <1>23, <2>1, <3>1, WorkerSelectsSteps DEF TypeOK, ReceiveTypes, Receives
    <3>2. CASE batch' # << >>
      <4>1. /\ batch' = [i \in DOMAIN batch |->
                            [batch[i] EXCEPT !.readable = inbox[of[batch[i].receive]] # << >>]]
            /\ UNCHANGED <<status, of, late>>
        BY <1>0, <1>23, <3>2, WorkerSelectsSteps
      <4>2. batch' \in Seq([receive : Receives, readable : BOOLEAN])
        BY <1>0, <4>1, SelectedBatch DEF TypeOK
      <4>q. QED
        BY <1>0, <2>1, <4>1, <4>2 DEF TypeOK, ReceiveTypes
    <3>q. QED
      BY <3>1, <3>2
  <2>q. QED
    BY <1>0, <2>1, <2>2, TypeParts, ProxyAgents
<1>24. ASSUME WorkerPutsBack PROVE TypeOK'
  <2>1. batch # << >> /\ UNCHANGED <<sockets, relays, settings, table, call>> /\ batch' = Tail(batch)
    BY <1>24, WorkerPutsBackSteps
  <2>2. /\ Current \in Receives /\ Append(queue, Current) \in Seq(Receives)
        /\ Tail(batch) \in Seq([receive : Receives, readable : BOOLEAN])
    BY <1>0, <2>1, CurrentReceive DEF TypeOK
  <2>3. ReceiveTypes'
    <3>1. /\ status' = [r \in Receives |-> IF r = Current THEN "failed" ELSE status[r]]
          /\ of' = [r \in Receives |-> IF r = Current THEN NoHandle ELSE of[r]]
          /\ late' = late \ {Current}
          /\ queue' = queue
          => ReceiveTypes'
      BY <1>0, <2>1, <2>2 DEF TypeOK, ReceiveTypes
    <3>2. /\ status' = [status EXCEPT ![Current] = "queued"]
          /\ queue' = Append(queue, Current)
          /\ UNCHANGED <<of, late>>
          => ReceiveTypes'
      BY <1>0, <2>1, <2>2 DEF TypeOK, ReceiveTypes
    <3>q. QED
      BY <1>24, <3>1, <3>2, WorkerPutsBackSteps
  <2>q. QED
    BY <1>0, <2>1, <2>3, TypeParts
<1>25. ASSUME WorkerReceives PROVE TypeOK'
  <2>1. call \in [Agents -> CallRecs] /\ of[Current] \in Handles
    <3>1. batch # << >>
      BY <1>25 DEF WorkerReceives
    <3>2. Current \in Receives /\ status[Current] = "taken"
      BY <1>0, <3>1, CurrentReceive DEF ReceivesFit
    <3>q. QED
      BY <1>0, <3>2, CallTypes DEF ReceivesFit
  <2>q. QED
    BY <1>0, <1>25, <2>1, WorkBegins, TypeParts, ProxyAgents
<1>26. ASSUME NEW r \in Receives, DeadlinePasses(r) PROVE TypeOK'
  <2>1. ReceiveTypes'
    BY <1>0, <1>26 DEF DeadlinePasses, TypeOK, ReceiveTypes
  <2>q. QED
    BY <1>0, <1>26, <2>1, TypeParts DEF DeadlinePasses
<1>27. ASSUME NEW h \in Handles, DatagramArrives(h) PROVE TypeOK'
  <2>1. \A c \in Controls \cup {NoControl} : Append(inbox[h], c) \in Seq(Controls \cup {NoControl})
    BY <1>0 DEF TypeOK
  <2>2. PICK c \in Controls \cup {NoControl} : inbox' = [inbox EXCEPT ![h] = Append(@, c)]
    BY <1>0, <1>27 DEF DatagramArrives, TypeOK
  <2>3. SocketTypes'
    BY <1>0, <1>27, <2>1, <2>2 DEF DatagramArrives, TypeOK, SocketTypes
  <2>q. QED
    BY <1>0, <1>27, <2>3, TypeParts DEF DatagramArrives
<1>28. ASSUME UNCHANGED vars PROVE TypeOK'
    BY <1>0, <1>28, TypeParts DEF vars
<1>q. QED
    BY <1>1, <1>2, <1>3, <1>4, <1>5, <1>6, <1>7, <1>8, <1>9, <1>10, <1>11, <1>12, <1>13, <1>14, <1>15,
       <1>16, <1>17, <1>18, <1>19, <1>20, <1>21, <1>22, <1>23, <1>24, <1>25, <1>26, <1>27, <1>28,
       ProxySteps

\* The call of one agent changed, and it fits its new place.
LEMMA OthersFit ==
    ASSUME CallInv, NEW a \in Agents, OnlyCall(a), CallFits(a)'
    PROVE  \A b \in Agents : CallFits(b)'
<1>1. ASSUME NEW b \in Agents, b # a PROVE CallFits(b)'
    BY <1>1 DEF OnlyCall, CallFits, CallInv
<1>q. QED
    BY <1>1

\* A return leaves the call of the agent at home.
LEMMA ReturnFits ==
    ASSUME CallInv, NEW a \in Agents, NEW result, Returns(a, result)
    PROVE  /\ OnlyCall(a) /\ CallFits(a)'
           /\ a \in Threads => CallEnded(a)
           /\ a = Worker => WorkEnded(result)
<1>1. TypeOK
    BY DEF CallInv
<1>2. CASE a \in Threads
  <2>1. CallEnded(a)
    BY <1>1, <1>2, CallSteps
  <2>2. CallFits(a)'
    BY <2>1 DEF CallEnded, CallFits, ConnectOps
  <2>q. QED
    BY <1>2, <2>1, <2>2, ProxyAgents DEF CallEnded
<1>3. CASE a = Worker
  <2>1. WorkEnded(result)
    BY <1>1, <1>3, WorkSteps
  <2>2. CallFits(a)'
    BY <1>3, <2>1 DEF WorkEnded, CallFits, ConnectOps
  <2>q. QED
    BY <1>3, <2>1, <2>2, ProxyAgents DEF WorkEnded
<1>q. QED
    BY <1>2, <1>3, ProxyAgents

LEMMA TakenReturns ==
    ASSUME CallInv, NEW a \in Agents, NEW unwraps, DatagramTaken(a, unwraps)
    PROVE  \E result \in {"ok", "header", "failed"} : Returns(a, result)
    BY DEF DatagramTaken

\* The receive the worker looks at is not in the rest of the batch.
LEMMA BatchServed ==
    ASSUME CallInv, batch # << >>
    PROVE  /\ Current \in Receives /\ status[Current] = "taken" /\ of[Current] \in Handles
           /\ \A i \in 1 .. Len(Tail(batch)) :
                /\ Tail(batch)[i].receive # Current /\ status[Tail(batch)[i].receive] = "taken"
                /\ Tail(batch)[i].receive \in Receives
                /\ \A j \in 1 .. Len(Tail(batch)) :
                      Tail(batch)[j].receive = Tail(batch)[i].receive => j = i
<1>1. TypeOK /\ ReceivesFit
    BY DEF CallInv
<1>2. /\ Current \in Receives /\ Current = batch[1].receive /\ 1 \in 1 .. Len(batch)
      /\ \A i \in 1 .. Len(Tail(batch)) : i + 1 \in 1 .. Len(batch) /\ Tail(batch)[i] = batch[i + 1]
      /\ Tail(batch) \in Seq([receive : Receives, readable : BOOLEAN])
    BY <1>1, CurrentReceive
<1>3. \A i \in 1 .. Len(Tail(batch)) : Tail(batch)[i].receive \in Receives
  <2>1. \A i \in 1 .. Len(Tail(batch)) : Tail(batch)[i] \in [receive : Receives, readable : BOOLEAN]
    BY <1>2, ElementOfSeq
  <2>q. QED
    BY <2>1
<1>4. status[Current] = "taken" /\ of[Current] \in Handles
    BY <1>1, <1>2 DEF ReceivesFit
<1>5. ASSUME NEW i \in 1 .. Len(Tail(batch))
      PROVE  /\ Tail(batch)[i].receive # Current /\ status[Tail(batch)[i].receive] = "taken"
             /\ \A j \in 1 .. Len(Tail(batch)) :
                   Tail(batch)[j].receive = Tail(batch)[i].receive => j = i
  <2>1. i + 1 \in 1 .. Len(batch) /\ Tail(batch)[i] = batch[i + 1] /\ i \in Nat /\ i >= 1
    BY <1>2
  <2>2. i + 1 # 1
    BY <2>1
  <2>3. Tail(batch)[i].receive # Current /\ status[Tail(batch)[i].receive] = "taken"
    BY <1>1, <1>2, <2>1, <2>2 DEF ReceivesFit
  <2>4. ASSUME NEW j \in 1 .. Len(Tail(batch)), Tail(batch)[j].receive = Tail(batch)[i].receive
        PROVE  j = i
    <3>1. j + 1 \in 1 .. Len(batch) /\ Tail(batch)[j] = batch[j + 1] /\ j \in Nat
      BY <1>2
    <3>2. j + 1 = i + 1
      BY <1>1, <2>1, <2>4, <3>1 DEF ReceivesFit
    <3>q. QED
      BY <2>1, <3>1, <3>2
  <2>q. QED
    BY <2>3, <2>4
<1>q. QED
    BY <1>2, <1>3, <1>4, <1>5

\* Every call fits its place after every step.
LEMMA PlacesStep ==
    ASSUME CallInv, [Next]_vars
    PROVE  \A b \in Agents : CallFits(b)'
<1>0. TypeOK /\ (\A a \in Agents : CallFits(a)) /\ WorkerFits /\ ReceivesFit
    BY DEF CallInv
<1>1. ASSUME NEW h \in Handles, NEW k \in Kinds, OpenSocket(h, k)
      PROVE  \A b \in Agents : CallFits(b)'
    BY <1>0, <1>1 DEF OpenSocket, CallFits
<1>2. ASSUME NEW t \in Threads, NEW op \in Ops, NEW h \in Handles, NEW p \in Targets \cup {NoPeer},
             Begin(t, op, h, p)
      PROVE  \A b \in Agents : CallFits(b)'
  <2>1. call \in [Agents -> CallRecs]
    BY <1>0, CallTypes
  <2>2. OnlyCall(t)
    BY <1>2, <2>1, CallBegins
  <2>3. CallFits(t)'
    BY <1>2, <2>1, CallBegins, BeginsFit DEF CallFits, Aims, ConnectOps
  <2>q. QED
    BY <2>2, <2>3, OthersFit, ProxyAgents
<1>3. ASSUME NEW t \in Threads, AskKind(t) PROVE \A b \in Agents : CallFits(b)'
  <2>1. t \in Agents /\ OnlyCall(t) /\ SameCall(t)
    BY <1>0, <1>3, AskKindSteps, ProxyAgents
  <2>2. /\ call[t].pc = "kind" /\ call[t].h \in Handles /\ call[t].op \in KindOps
        /\ kind[call[t].h] # "none" => kind[call[t].h] \in Kinds
    BY <1>0, <1>3, AskKindSteps, ProxyAgents DEF TypeOK
  <2>3. ASSUME call'[t].pc = "keepKind", call'[t].seen \in Kinds PROVE CallFits(t)'
    BY <1>0, <2>1, <2>2, <2>3 DEF KindOps, ConnectOps, SameCall, CallFits
  <2>4. ASSUME call'[t].pc = StepForKind(call[t].op, table[call[t].h].kind) PROVE CallFits(t)'
    BY <1>0, <2>1, <2>2, <2>4, StepsFit DEF KindOps, ConnectOps, SameCall, CallFits
  <2>5. CallFits(t)'
    BY <1>0, <1>3, <2>1, <2>2, <2>3, <2>4, AskKindSteps
  <2>q. QED
    BY <2>1, <2>5, OthersFit
<1>4. ASSUME NEW t \in Threads, KeepKind(t) PROVE \A b \in Agents : CallFits(b)'
  <2>1. t \in Agents /\ OnlyCall(t)
    BY <1>0, <1>4, KeepKindSteps, ProxyAgents DEF KindOps, ConnectOps
  <2>2. CallFits(t)'
    BY <1>0, <1>4, KeepKindSteps, StepsFit, ProxyAgents DEF KindOps, ConnectOps, SameCall, CallFits
  <2>q. QED
    BY <2>1, <2>2, OthersFit
<1>5. ASSUME NEW t \in Threads, Connect(t) PROVE \A b \in Agents : CallFits(b)'
  <2>1. t \in Agents /\ OnlyCall(t)
    BY <1>0, <1>5, ConnectSteps, ProxyAgents DEF CallMoved, CallEnded, ConnectOps
  <2>2. CallFits(t)'
    BY <1>0, <1>5, ConnectSteps, ProxyAgents DEF CallMoved, CallEnded, ConnectOps, SameCall, CallFits
  <2>q. QED
    BY <2>1, <2>2, OthersFit
<1>6. ASSUME NEW t \in Threads, ServerAnswers(t) PROVE \A b \in Agents : CallFits(b)'
  <2>1. t \in Agents /\ OnlyCall(t)
    BY <1>0, <1>6, ServerAnswersSteps, ProxyAgents DEF CallMoved, CallEnded, ConnectOps
  <2>2. CallFits(t)'
    BY <1>0, <1>6, ServerAnswersSteps, ProxyAgents DEF CallMoved, CallEnded, ConnectOps, SameCall, CallFits
  <2>q. QED
    BY <2>1, <2>2, OthersFit
<1>7. ASSUME NEW t \in Threads, KeepPeer(t) PROVE \A b \in Agents : CallFits(b)'
  <2>1. t \in Agents /\ OnlyCall(t)
    BY <1>0, <1>7, KeepPeerSteps, ProxyAgents DEF CallMoved, CallEnded, ConnectOps
  <2>2. CallFits(t)'
    BY <1>0, <1>7, KeepPeerSteps, ProxyAgents DEF CallMoved, CallEnded, ConnectOps, SameCall, CallFits
  <2>q. QED
    BY <2>1, <2>2, OthersFit
<1>8. ASSUME NEW t \in Threads, HostConnects(t) PROVE \A b \in Agents : CallFits(b)'
  <2>1. t \in Agents /\ OnlyCall(t)
    BY <1>0, <1>8, HostConnectsSteps, ProxyAgents DEF CallMoved, CallEnded, ConnectOps
  <2>2. CallFits(t)'
    BY <1>0, <1>8, HostConnectsSteps, ProxyAgents DEF CallMoved, CallEnded, ConnectOps, SameCall, CallFits
  <2>q. QED
    BY <2>1, <2>2, OthersFit
<1>9. ASSUME NEW a \in Agents, Associate(a) PROVE \A b \in Agents : CallFits(b)'
  <2>1. CASE Returns(a, "failed")
    BY <2>1, ReturnFits, OthersFit
  <2>2. CASE ~Returns(a, "failed")
    <3>1. OnlyCall(a)
      BY <1>0, <1>9, <2>2, AssociateSteps DEF CallTook
    <3>2. table[call[a].h].control \in Controls \cup {NoControl}
      BY <1>0, <1>9, AssociateSteps DEF TypeOK, Entries
    <3>3. CallFits(a)'
      BY <1>0, <1>9, <2>2, <3>2, AssociateSteps DEF CallTook, SameCall, CallFits
    <3>q. QED
      BY <3>1, <3>3, OthersFit
  <2>q. QED
    BY <2>1, <2>2
<1>10. ASSUME NEW a \in Agents, RelayAnswers(a) PROVE \A b \in Agents : CallFits(b)'
  <2>1. CASE Returns(a, "failed")
    BY <2>1, ReturnFits, OthersFit
  <2>2. CASE CallMoved(a, "keepRelay")
    <3>1. CallFits(a)'
      BY <1>0, <1>10, <2>2, RelayAnswersSteps DEF CallMoved, SameCall, CallFits
    <3>q. QED
      BY <2>2, <3>1, OthersFit DEF CallMoved
  <2>q. QED
    BY <1>0, <1>10, <2>1, <2>2, RelayAnswersSteps
<1>11. ASSUME NEW a \in Agents, KeepRelay(a) PROVE \A b \in Agents : CallFits(b)'
  <2>1. OnlyCall(a)
    BY <1>0, <1>11, KeepRelaySteps DEF CallTook
  <2>2. table[call[a].h].control \in Controls \cup {NoControl}
    BY <1>0, <1>11, KeepRelaySteps DEF TypeOK, Entries
  <2>3. CallFits(a)'
    BY <1>0, <1>11, <2>2, KeepRelaySteps DEF CallTook, SameCall, CallFits
  <2>q. QED
    BY <2>1, <2>3, OthersFit
<1>12. ASSUME NEW t \in Threads, FindPeer(t) PROVE \A b \in Agents : CallFits(b)'
  <2>1. t \in Agents /\ OnlyCall(t)
    BY <1>0, <1>12, FindPeerSteps, ProxyAgents DEF CallMoved, ConnectOps
  <2>2. CallFits(t)'
    BY <1>0, <1>12, FindPeerSteps, ProxyAgents DEF CallMoved, ConnectOps, SameCall, CallFits
  <2>q. QED
    BY <2>1, <2>2, OthersFit
<1>13. ASSUME NEW t \in Threads, SendToRelay(t) PROVE \A b \in Agents : CallFits(b)'
  <2>1. t \in Agents /\ OnlyCall(t)
    BY <1>0, <1>13, SendToRelaySteps, ProxyAgents DEF CallEnded, ConnectOps
  <2>2. CallFits(t)'
    BY <1>0, <1>13, SendToRelaySteps, ProxyAgents DEF CallEnded, ConnectOps, SameCall, CallFits
  <2>q. QED
    BY <2>1, <2>2, OthersFit
<1>14. ASSUME NEW t \in Threads, HostSends(t) PROVE \A b \in Agents : CallFits(b)'
  <2>1. t \in Agents /\ OnlyCall(t)
    BY <1>0, <1>14, HostSendsSteps, ProxyAgents DEF CallEnded, ConnectOps
  <2>2. CallFits(t)'
    BY <1>0, <1>14, HostSendsSteps, ProxyAgents DEF CallEnded, ConnectOps, SameCall, CallFits
  <2>q. QED
    BY <2>1, <2>2, OthersFit
<1>15. ASSUME NEW a \in Agents, Read(a) PROVE \A b \in Agents : CallFits(b)'
  <2>1. a \in Agents
    BY ProxyAgents
  <2>2. \E result : Returns(a, result)
    BY <1>0, <1>15, <2>1, ReadSteps, TakenReturns
  <2>q. QED
    BY <2>1, <2>2, ReturnFits, OthersFit
<1>16. ASSUME NEW t \in Threads, FindAssociation(t) PROVE \A b \in Agents : CallFits(b)'
  <2>1. t \in Agents /\ OnlyCall(t)
    BY <1>0, <1>16, FindAssociationSteps, ProxyAgents DEF CallMoved
  <2>2. CallFits(t)'
    BY <1>0, <1>16, FindAssociationSteps, ProxyAgents DEF CallMoved, SameCall, CallFits
  <2>q. QED
    BY <2>1, <2>2, OthersFit
<1>17. ASSUME NEW t \in Threads, Unwrap(t) PROVE \A b \in Agents : CallFits(b)'
  <2>1. t \in Agents
    BY ProxyAgents
  <2>2. \E result : Returns(t, result)
    BY <1>0, <1>17, <2>1, UnwrapSteps, TakenReturns
  <2>q. QED
    BY <2>1, <2>2, ReturnFits, OthersFit
<1>18. ASSUME NEW t \in Threads, HostReceives(t) PROVE \A b \in Agents : CallFits(b)'
  <2>1. t \in Agents
    BY ProxyAgents
  <2>2. \E result : Returns(t, result)
    BY <1>0, <1>18, <2>1, HostReceivesSteps, TakenReturns
  <2>q. QED
    BY <2>1, <2>2, ReturnFits, OthersFit
<1>19. ASSUME NEW t \in Threads, QueueReceive(t) PROVE \A b \in Agents : CallFits(b)'
  <2>1. t \in Agents /\ OnlyCall(t)
    BY <1>0, <1>19, QueueReceiveSteps, ProxyAgents DEF ConnectOps
  <2>2. CallFits(t)'
    BY <1>0, <1>19, QueueReceiveSteps, ProxyAgents DEF ConnectOps, SameCall, CallFits
  <2>q. QED
    BY <2>1, <2>2, OthersFit
<1>20. ASSUME NEW t \in Threads, ReleaseState(t) PROVE \A b \in Agents : CallFits(b)'
  <2>1. t \in Agents /\ OnlyCall(t)
    BY <1>0, <1>20, ReleaseStateSteps, ProxyAgents DEF CallMoved
  <2>2. CallFits(t)'
    BY <1>0, <1>20, ReleaseStateSteps, ProxyAgents DEF CallMoved, SameCall, CallFits
  <2>q. QED
    BY <2>1, <2>2, OthersFit
<1>21. ASSUME NEW t \in Threads, CloseSocket(t) PROVE \A b \in Agents : CallFits(b)'
  <2>1. t \in Agents /\ OnlyCall(t)
    BY <1>0, <1>21, CloseSocketSteps, ProxyAgents DEF CallEnded, ConnectOps
  <2>2. CallFits(t)'
    BY <1>0, <1>21, CloseSocketSteps, ProxyAgents DEF CallEnded, ConnectOps, SameCall, CallFits
  <2>q. QED
    BY <2>1, <2>2, OthersFit
<1>22. ASSUME WorkerTakes PROVE \A b \in Agents : CallFits(b)'
  <2>1. OnlyCall(Worker)
    BY <1>0, <1>22, WorkerTakesSteps DEF CallMoved
  <2>2. CallFits(Worker)'
    BY <1>0, <1>22, WorkerTakesSteps, ProxyAgents DEF CallMoved, SameCall, CallFits
  <2>q. QED
    BY <2>1, <2>2, OthersFit, ProxyAgents
<1>23. ASSUME WorkerSelects PROVE \A b \in Agents : CallFits(b)'
  <2>1. OnlyCall(Worker)
    BY <1>0, <1>23, WorkerSelectsSteps DEF CallMoved
  <2>2. CallFits(Worker)'
    BY <1>0, <1>23, WorkerSelectsSteps, ProxyAgents DEF CallMoved, SameCall, CallFits
  <2>q. QED
    BY <2>1, <2>2, OthersFit, ProxyAgents
<1>24. ASSUME WorkerPutsBack PROVE \A b \in Agents : CallFits(b)'
    BY <1>0, <1>24, WorkerPutsBackSteps DEF CallFits
<1>25. ASSUME WorkerReceives PROVE \A b \in Agents : CallFits(b)'
  <2>1. call \in [Agents -> CallRecs] /\ of[Current] \in Handles
    BY <1>0, <1>25, CallTypes, BatchServed DEF WorkerReceives
  <2>2. OnlyCall(Worker)
    BY <1>25, <2>1, WorkBegins
  <2>3. CallFits(Worker)'
    BY <1>25, <2>1, WorkBegins DEF CallFits, ConnectOps
  <2>q. QED
    BY <2>2, <2>3, OthersFit, ProxyAgents
<1>26. ASSUME NEW r \in Receives, DeadlinePasses(r) PROVE \A b \in Agents : CallFits(b)'
    BY <1>0, <1>26 DEF DeadlinePasses, CallFits
<1>27. ASSUME NEW h \in Handles, DatagramArrives(h) PROVE \A b \in Agents : CallFits(b)'
    BY <1>0, <1>27 DEF DatagramArrives, CallFits
<1>28. ASSUME UNCHANGED vars PROVE \A b \in Agents : CallFits(b)'
    BY <1>0, <1>28 DEF vars, CallFits
<1>q. QED
    BY <1>1, <1>2, <1>3, <1>4, <1>5, <1>6, <1>7, <1>8, <1>9, <1>10, <1>11, <1>12, <1>13, <1>14, <1>15,
       <1>16, <1>17, <1>18, <1>19, <1>20, <1>21, <1>22, <1>23, <1>24, <1>25, <1>26, <1>27, <1>28,
       ProxySteps

\* A step of a thread leaves the worker and its receives alone.
LEMMA WorkerKept ==
    ASSUME CallInv, UNCHANGED receives,
           \/ UNCHANGED call
           \/ \E t \in Threads : OnlyCall(t) /\ call'[t].pc \notin {"serve", "select"}
    PROVE  WorkerFits' /\ ReceivesFit'
<1>1. WorkerFits /\ ReceivesFit
    BY DEF CallInv
<1>2. ReceivesFit'
    BY <1>1 DEF ReceivesFit, receives
<1>3. WorkerFits'
    BY <1>1, ProxyAgents DEF WorkerFits, OnlyCall, receives
<1>q. QED
    BY <1>2, <1>3

\* The worker completes its receive.
LEMMA WorkerEndedFits ==
    ASSUME CallInv, batch # << >>, NEW result \in {"ok", "failed", "header"}, WorkEnded(result)
    PROVE  WorkerFits' /\ ReceivesFit'
<1>1. TypeOK /\ WorkerFits /\ ReceivesFit
    BY DEF CallInv
<1>2. WorkerFits'
    BY <1>1, ProxyAgents DEF WorkerFits, WorkerPcs, WorkEnded, OnlyCall
<1>3. /\ Current \in Receives /\ status[Current] = "taken"
      /\ \A i \in 1 .. Len(Tail(batch)) :
           /\ Tail(batch)[i].receive # Current /\ status[Tail(batch)[i].receive] = "taken"
           /\ Tail(batch)[i].receive \in Receives
           /\ \A j \in 1 .. Len(Tail(batch)) : Tail(batch)[j].receive = Tail(batch)[i].receive => j = i
    BY BatchServed
<1>4. \A i \in 1 .. Len(queue) : queue[i] \in Receives
    BY <1>1, ElementOfSeq DEF TypeOK
<1>5. \A r \in Receives : status'[r] \in {"queued", "taken"} => of'[r] \in Handles
    BY <1>1 DEF WorkEnded, ReceivesFit
<1>6. \A r \in Receives : r # Current => status'[r] = status[r]
    BY DEF WorkEnded
<1>7. \A i \in 1 .. Len(queue') :
         /\ status'[queue'[i]] = "queued"
         /\ \A j \in 1 .. Len(queue') : queue'[j] = queue'[i] => j = i
    BY <1>1, <1>3, <1>4, <1>6 DEF WorkEnded, ReceivesFit
<1>8. \A i \in 1 .. Len(batch') :
         /\ status'[batch'[i].receive] = "taken"
         /\ \A j \in 1 .. Len(batch') : batch'[j].receive = batch'[i].receive => j = i
    BY <1>3, <1>6 DEF WorkEnded
<1>q. QED
    BY <1>2, <1>5, <1>7, <1>8 DEF ReceivesFit

\* So does an agent whose call returns.
LEMMA ReturnKeeps ==
    ASSUME CallInv, NEW a \in Agents, call[a].pc \in {"associate", "asked", "read", "unwrap", "hostReceive"},
           NEW result \in {"ok", "failed", "header"}, Returns(a, result)
    PROVE  WorkerFits' /\ ReceivesFit'
<1>1. CASE a \in Threads
  <2>1. CallEnded(a)
    BY <1>1, ReturnFits
  <2>q. QED
    BY <1>1, <2>1, WorkerKept DEF CallEnded, receives
<1>2. CASE a = Worker
  <2>1. WorkEnded(result)
    BY <1>2, ReturnFits
  <2>2. batch # << >>
    BY <1>2 DEF CallInv, WorkerFits
  <2>q. QED
    BY <2>1, <2>2, WorkerEndedFits
<1>q. QED
    BY <1>1, <1>2, ProxyAgents

\* An agent goes on with its call: the worker has a batch as long as it is busy.
LEMMA GoesOnKeeps ==
    ASSUME CallInv, NEW a \in Agents, OnlyCall(a), call'[a].op = call[a].op, UNCHANGED receives,
           call[a].pc \in {"associate", "asked", "keepRelay"},
           call'[a].pc \in {"asked", "keepRelay", "sendRelay", "read"},
           a = Worker => call'[a].pc # "sendRelay"
    PROVE  WorkerFits' /\ ReceivesFit'
<1>1. CASE a \in Threads
    BY <1>1, WorkerKept
<1>2. CASE a = Worker
  <2>1. ReceivesFit'
    BY DEF CallInv, ReceivesFit, receives
  <2>2. WorkerFits'
    BY <1>2, ProxyAgents DEF CallInv, WorkerFits, WorkerPcs, OnlyCall, receives
  <2>q. QED
    BY <2>1, <2>2
<1>q. QED
    BY <1>1, <1>2, ProxyAgents

\* A set of layers has a last one.
LEMMA LastLayer ==
    ASSUME NEW U, IsFiniteSet(U), U \subseteq Int, U # {}
    PROVE  \E i \in U : \A j \in U : j <= i
<1> DEFINE After(i) == {j \in U : j > i}
<1> DEFINE T == {After(i) : i \in U}
<1> DEFINE R == StrictSubsetOrdering(U)
<1>1. \A i \in U : After(i) \in FiniteSubsetsOf(U)
    BY FS_Subset DEF FiniteSubsetsOf
<1>2. T \subseteq FiniteSubsetsOf(U) /\ T # {}
    BY <1>1
<1>3. IsWellFoundedOn(R, FiniteSubsetsOf(U))
    BY FS_StrictSubsetOrderingWellFounded
<1>4. \E x \in T : \A y \in T : ~(<<y, x>> \in R)
  <2> HIDE DEF T, R
  <2>q. QED
    BY <1>2, <1>3, WFMin
<1>5. PICK i \in U : \A k \in U : <<After(k), After(i)>> \notin R
    BY <1>4
<1>6. ASSUME NEW k \in U, k > i PROVE FALSE
  <2>1. After(k) \subseteq After(i) /\ k \in After(i) /\ k \notin After(k)
    <3>1. \A j \in Int : j > k => j > i
      BY <1>6
    <3>2. ~(k > k)
      BY U \subseteq Int
    <3>q. QED
      BY <1>6, <3>1, <3>2
  <2>2. <<After(k), After(i)>> \in R
    BY <2>1 DEF StrictSubsetOrdering
  <2>q. QED
    BY <1>5, <2>2
<1>q. QED
    BY <1>6

\* The receives of the batch are receives, and a batch is made of the queue.
LEMMA BatchMembers ==
    ASSUME TypeOK
    PROVE  \A i \in 1 .. Len(batch) : batch[i].receive \in Receives
<1>1. \A i \in 1 .. Len(batch) : batch[i] \in [receive : Receives, readable : BOOLEAN]
    BY ElementOfSeq DEF TypeOK
<1>q. QED
    BY <1>1

LEMMA TakenBatch ==
    ASSUME TypeOK, queue # << >>,
           batch' = [i \in DOMAIN queue |-> [receive |-> queue[i], readable |-> FALSE]]
    PROVE  /\ batch' # << >> /\ Len(batch') = Len(queue)
           /\ \A i \in 1 .. Len(queue) : batch'[i].receive = queue[i]
<1>1. queue \in Seq(Receives) /\ DOMAIN queue = 1 .. Len(queue) /\ Len(queue) \in Nat
    BY DEF TypeOK
<1>2. batch' \in [1 .. Len(queue) -> [receive : Receives, readable : BOOLEAN]]
    BY <1>1
<1>3. batch' \in Seq([receive : Receives, readable : BOOLEAN]) /\ Len(batch') = Len(queue)
    BY <1>1, <1>2, SeqDef
<1>4. Len(queue) # 0
    BY <1>1, EmptySeq
<1>q. QED
    BY <1>1, <1>3, <1>4, EmptySeq

\* Every step keeps the worker at work on receives which wait.
LEMMA ReceivesStep ==
    ASSUME CallInv, [Next]_vars
    PROVE  WorkerFits' /\ ReceivesFit'
<1>0. TypeOK /\ (\A a \in Agents : CallFits(a)) /\ WorkerFits /\ ReceivesFit
    BY DEF CallInv
<1>1. ASSUME NEW h \in Handles, NEW k \in Kinds, OpenSocket(h, k) PROVE WorkerFits' /\ ReceivesFit'
    BY <1>1, WorkerKept DEF OpenSocket
<1>2. ASSUME NEW t \in Threads, NEW op \in Ops, NEW h \in Handles, NEW p \in Targets \cup {NoPeer},
             Begin(t, op, h, p)
      PROVE  WorkerFits' /\ ReceivesFit'
  <2>1. OnlyCall(t) /\ call'[t].pc \notin {"serve", "select"} /\ UNCHANGED receives
    <3>1. call \in [Agents -> CallRecs] /\ UNCHANGED receives
      BY <1>0, <1>2, CallTypes DEF Begin
    <3>2. OnlyCall(t) /\ call'[t].pc = FirstStep(op)
      BY <1>2, <3>1, CallBegins
    <3>q. QED
      BY <3>1, <3>2, BeginsFit
  <2>q. QED
    BY <2>1, WorkerKept
<1>3. ASSUME NEW t \in Threads, AskKind(t) PROVE WorkerFits' /\ ReceivesFit'
  <2>1. OnlyCall(t) /\ call'[t].pc \notin {"serve", "select"} /\ UNCHANGED receives
    BY <1>0, <1>3, AskKindSteps, StepsFit, ProxyAgents
  <2>q. QED
    BY <2>1, WorkerKept
<1>4. ASSUME NEW t \in Threads, KeepKind(t) PROVE WorkerFits' /\ ReceivesFit'
  <2>1. OnlyCall(t) /\ call'[t].pc \notin {"serve", "select"} /\ UNCHANGED receives
    BY <1>0, <1>4, KeepKindSteps, StepsFit, ProxyAgents
  <2>q. QED
    BY <2>1, WorkerKept
<1>5. ASSUME NEW t \in Threads, Connect(t) PROVE WorkerFits' /\ ReceivesFit'
  <2>1. OnlyCall(t) /\ call'[t].pc \notin {"serve", "select"} /\ UNCHANGED receives
    BY <1>0, <1>5, ConnectSteps, ProxyAgents DEF CallMoved, CallEnded
  <2>q. QED
    BY <2>1, WorkerKept
<1>6. ASSUME NEW t \in Threads, ServerAnswers(t) PROVE WorkerFits' /\ ReceivesFit'
  <2>1. OnlyCall(t) /\ call'[t].pc \notin {"serve", "select"} /\ UNCHANGED receives
    BY <1>0, <1>6, ServerAnswersSteps, ProxyAgents DEF CallMoved, CallEnded
  <2>q. QED
    BY <2>1, WorkerKept
<1>7. ASSUME NEW t \in Threads, KeepPeer(t) PROVE WorkerFits' /\ ReceivesFit'
  <2>1. OnlyCall(t) /\ call'[t].pc \notin {"serve", "select"} /\ UNCHANGED receives
    BY <1>0, <1>7, KeepPeerSteps, ProxyAgents DEF CallEnded
  <2>q. QED
    BY <2>1, WorkerKept
<1>8. ASSUME NEW t \in Threads, HostConnects(t) PROVE WorkerFits' /\ ReceivesFit'
  <2>1. OnlyCall(t) /\ call'[t].pc \notin {"serve", "select"} /\ UNCHANGED receives
    BY <1>0, <1>8, HostConnectsSteps, ProxyAgents DEF CallEnded
  <2>q. QED
    BY <2>1, WorkerKept
<1>9. ASSUME NEW a \in Agents, Associate(a) PROVE WorkerFits' /\ ReceivesFit'
  <2>1. call[a].pc = "associate"
    BY <1>0, <1>9, AssociateSteps
  <2>2. CASE Returns(a, "failed")
    BY <2>1, <2>2, ReturnKeeps
  <2>3. CASE ~Returns(a, "failed")
    <3>1. /\ OnlyCall(a) /\ SameCall(a) /\ UNCHANGED receives
          /\ call'[a].pc \in {"asked", "sendRelay", "read"}
          /\ call'[a].pc = "sendRelay" => call[a].op \in {"send", "sendto"}
      BY <1>0, <1>9, <2>3, AssociateSteps DEF CallTook
    <3>2. a = Worker => call[a].op = "recv"
      BY <1>0, <2>1 DEF WorkerFits
    <3>q. QED
      BY <2>1, <3>1, <3>2, GoesOnKeeps DEF SameCall
  <2>q. QED
    BY <2>2, <2>3
<1>10. ASSUME NEW a \in Agents, RelayAnswers(a) PROVE WorkerFits' /\ ReceivesFit'
  <2>1. call[a].pc = "asked"
    BY <1>0, <1>10, RelayAnswersSteps
  <2>2. CASE Returns(a, "failed")
    BY <2>1, <2>2, ReturnKeeps
  <2>3. CASE CallMoved(a, "keepRelay") /\ UNCHANGED receives
    BY <2>1, <2>3, GoesOnKeeps DEF CallMoved, SameCall
  <2>q. QED
    BY <1>0, <1>10, <2>2, <2>3, RelayAnswersSteps
<1>11. ASSUME NEW a \in Agents, KeepRelay(a) PROVE WorkerFits' /\ ReceivesFit'
  <2>1. /\ call[a].pc = "keepRelay" /\ OnlyCall(a) /\ SameCall(a) /\ UNCHANGED receives
        /\ call'[a].pc \in {"sendRelay", "read"}
        /\ call'[a].pc = "sendRelay" => call[a].op \in {"send", "sendto"}
    BY <1>0, <1>11, KeepRelaySteps DEF CallTook
  <2>2. a = Worker => call[a].op = "recv"
    BY <1>0, <2>1 DEF WorkerFits
  <2>q. QED
    BY <2>1, <2>2, GoesOnKeeps DEF SameCall
<1>12. ASSUME NEW t \in Threads, FindPeer(t) PROVE WorkerFits' /\ ReceivesFit'
  <2>1. OnlyCall(t) /\ call'[t].pc \notin {"serve", "select"} /\ UNCHANGED receives
    BY <1>0, <1>12, FindPeerSteps, ProxyAgents DEF CallMoved
  <2>q. QED
    BY <2>1, WorkerKept
<1>13. ASSUME NEW t \in Threads, SendToRelay(t) PROVE WorkerFits' /\ ReceivesFit'
  <2>1. OnlyCall(t) /\ call'[t].pc \notin {"serve", "select"} /\ UNCHANGED receives
    BY <1>0, <1>13, SendToRelaySteps, ProxyAgents DEF CallEnded
  <2>q. QED
    BY <2>1, WorkerKept
<1>14. ASSUME NEW t \in Threads, HostSends(t) PROVE WorkerFits' /\ ReceivesFit'
  <2>1. OnlyCall(t) /\ call'[t].pc \notin {"serve", "select"} /\ UNCHANGED receives
    BY <1>0, <1>14, HostSendsSteps, ProxyAgents DEF CallEnded
  <2>q. QED
    BY <2>1, WorkerKept
<1>15. ASSUME NEW a \in Agents, Read(a) PROVE WorkerFits' /\ ReceivesFit'
  <2>1. a \in Agents /\ call[a].pc \in {"read", "unwrap", "hostReceive"}
    BY <1>0, <1>15, ReadSteps, ProxyAgents
  <2>2. \E result \in {"ok", "header", "failed"} : Returns(a, result)
    BY <1>0, <1>15, <2>1, ReadSteps, TakenReturns
  <2>q. QED
    BY <2>1, <2>2, ReturnKeeps
<1>16. ASSUME NEW t \in Threads, FindAssociation(t) PROVE WorkerFits' /\ ReceivesFit'
  <2>1. OnlyCall(t) /\ call'[t].pc \notin {"serve", "select"} /\ UNCHANGED receives
    BY <1>0, <1>16, FindAssociationSteps, ProxyAgents DEF CallMoved
  <2>q. QED
    BY <2>1, WorkerKept
<1>17. ASSUME NEW t \in Threads, Unwrap(t) PROVE WorkerFits' /\ ReceivesFit'
  <2>1. t \in Agents /\ call[t].pc \in {"read", "unwrap", "hostReceive"}
    BY <1>0, <1>17, UnwrapSteps, ProxyAgents
  <2>2. \E result \in {"ok", "header", "failed"} : Returns(t, result)
    BY <1>0, <1>17, <2>1, UnwrapSteps, TakenReturns
  <2>q. QED
    BY <2>1, <2>2, ReturnKeeps
<1>18. ASSUME NEW t \in Threads, HostReceives(t) PROVE WorkerFits' /\ ReceivesFit'
  <2>1. t \in Agents /\ call[t].pc \in {"read", "unwrap", "hostReceive"}
    BY <1>0, <1>18, HostReceivesSteps, ProxyAgents
  <2>2. \E result \in {"ok", "header", "failed"} : Returns(t, result)
    BY <1>0, <1>18, <2>1, HostReceivesSteps, TakenReturns
  <2>q. QED
    BY <2>1, <2>2, ReturnKeeps
<1>19. ASSUME NEW t \in Threads, QueueReceive(t) PROVE WorkerFits' /\ ReceivesFit'
  <2>1. /\ OnlyCall(t) /\ call'[t].pc = "idle" /\ call[t].h \in Handles
        /\ UNCHANGED <<late, batch>>
    BY <1>0, <1>19, QueueReceiveSteps, ProxyAgents
  <2>2. CASE UNCHANGED <<status, of, queue>>
    BY <2>1, <2>2, WorkerKept DEF receives
  <2>3. ASSUME NEW r \in Receives, status[r] = "new", status' = [status EXCEPT ![r] = "queued"],
               of' = [of EXCEPT ![r] = call[t].h], queue' = Append(queue, r)
        PROVE  WorkerFits' /\ ReceivesFit'
    <3>1. WorkerFits'
      BY <1>0, <2>1, ProxyAgents DEF WorkerFits, OnlyCall
    <3>2. \A q \in Receives : status'[q] \in {"queued", "taken"} => of'[q] \in Handles
      BY <1>0, <2>1, <2>3 DEF TypeOK, ReceivesFit
    <3>3. queue \in Seq(Receives) /\ \A i \in 1 .. Len(queue) : queue[i] \in Receives /\ queue[i] # r
      BY <1>0, <2>3, ElementOfSeq DEF TypeOK, ReceivesFit
    <3>4. /\ Len(queue') = Len(queue) + 1 /\ queue'[Len(queue) + 1] = r
          /\ \A i \in 1 .. Len(queue) : queue'[i] = queue[i]
      BY <2>3, <3>3, AppendProperties
    <3>5. Len(queue) \in Nat /\ \A i \in 1 .. Len(queue') : i = Len(queue) + 1 \/ i \in 1 .. Len(queue)
      BY <3>3, <3>4
    <3>6. \A i \in 1 .. Len(queue') :
             /\ status'[queue'[i]] = "queued"
             /\ \A j \in 1 .. Len(queue') : queue'[j] = queue'[i] => j = i
      BY <1>0, <2>3, <3>3, <3>4, <3>5 DEF TypeOK, ReceivesFit
    <3>7. \A i \in 1 .. Len(batch) : batch[i].receive # r /\ batch[i].receive \in Receives
      BY <1>0, <2>3, BatchMembers DEF ReceivesFit
    <3>8. \A i \in 1 .. Len(batch) : status'[batch[i].receive] = "taken"
      BY <1>0, <2>3, <3>7 DEF TypeOK, ReceivesFit
    <3>q. QED
      BY <1>0, <2>1, <3>1, <3>2, <3>6, <3>8 DEF ReceivesFit
  <2>q. QED
    BY <1>0, <1>19, <2>2, <2>3, QueueReceiveSteps, ProxyAgents
<1>20. ASSUME NEW t \in Threads, ReleaseState(t) PROVE WorkerFits' /\ ReceivesFit'
  <2>1. OnlyCall(t) /\ call'[t].pc \notin {"serve", "select"} /\ UNCHANGED receives
    BY <1>0, <1>20, ReleaseStateSteps, ProxyAgents DEF CallMoved
  <2>q. QED
    BY <2>1, WorkerKept
<1>21. ASSUME NEW t \in Threads, CloseSocket(t) PROVE WorkerFits' /\ ReceivesFit'
  <2>1. OnlyCall(t) /\ call'[t].pc \notin {"serve", "select"} /\ UNCHANGED receives
    BY <1>0, <1>21, CloseSocketSteps, ProxyAgents DEF CallEnded
  <2>q. QED
    BY <2>1, WorkerKept
<1>22. ASSUME WorkerTakes PROVE WorkerFits' /\ ReceivesFit'
  <2>1. WorkerFits'
    BY <1>0, <1>22, WorkerTakesSteps, ProxyAgents, TakenBatch DEF WorkerFits, WorkerPcs, CallMoved, OnlyCall
  <2>2. \A r \in Receives : status'[r] \in {"queued", "taken"} => of'[r] \in Handles
    BY <1>0, <1>22, WorkerTakesSteps DEF ReceivesFit
  <2>3. \A i \in 1 .. Len(queue) : queue[i] \in Receives
    BY <1>0, ElementOfSeq DEF TypeOK
  <2>4. Len(batch') = Len(queue) /\ \A i \in 1 .. Len(queue) : batch'[i].receive = queue[i]
    BY <1>0, <1>22, WorkerTakesSteps, TakenBatch
  <2>5. \A i \in 1 .. Len(batch') :
           /\ status'[batch'[i].receive] = "taken"
           /\ \A j \in 1 .. Len(batch') : batch'[j].receive = batch'[i].receive => j = i
    BY <1>0, <1>22, <2>3, <2>4, WorkerTakesSteps DEF ReceivesFit
  <2>6. queue' = << >>
    BY <1>0, <1>22, WorkerTakesSteps
  <2>q. QED
    BY <2>1, <2>2, <2>5, <2>6 DEF ReceivesFit
<1>23. ASSUME WorkerSelects PROVE WorkerFits' /\ ReceivesFit'
  <2>1. WorkerFits'
    BY <1>0, <1>23, WorkerSelectsSteps, ProxyAgents DEF WorkerFits, WorkerPcs, CallMoved, OnlyCall
  <2>2. CASE /\ batch' = << >>
             /\ status' = [r \in Receives |-> IF r \in Batched THEN "failed" ELSE status[r]]
             /\ of' = [r \in Receives |-> IF r \in Batched THEN NoHandle ELSE of[r]]
    <3>1. \A r \in Receives : status'[r] \in {"queued", "taken"} => of'[r] \in Handles
      BY <1>0, <2>2 DEF ReceivesFit
    <3>2. \A i \in 1 .. Len(queue) : queue[i] \in Receives /\ status[queue[i]] = "queued"
      BY <1>0, ElementOfSeq DEF TypeOK, ReceivesFit
    <3>3. \A r \in Batched : status[r] = "taken"
      BY <1>0, LenProperties DEF TypeOK, ReceivesFit, Batched
    <3>4. \A i \in 1 .. Len(queue) : status'[queue[i]] = "queued"
      BY <2>2, <3>2, <3>3
    <3>q. QED
      BY <1>0, <1>23, <2>1, <2>2, <3>1, <3>4, WorkerSelectsSteps DEF ReceivesFit
  <2>3. CASE /\ batch' = [i \in DOMAIN batch |->
                            [batch[i] EXCEPT !.readable = inbox[of[batch[i].receive]] # << >>]]
             /\ UNCHANGED <<status, of, late>>
    <3>1. Len(batch') = Len(batch) /\ \A i \in 1 .. Len(batch) : batch'[i].receive = batch[i].receive
      BY <1>0, <2>3, SelectedBatch DEF TypeOK
    <3>2. queue' = queue
      BY <1>0, <1>23, WorkerSelectsSteps
    <3>q. QED
      BY <1>0, <2>1, <2>3, <3>1, <3>2 DEF ReceivesFit
  <2>q. QED
    BY <1>0, <1>23, <2>2, <2>3, WorkerSelectsSteps
<1>24. ASSUME WorkerPutsBack PROVE WorkerFits' /\ ReceivesFit'
  <2>1. /\ call[Worker].pc = "serve" /\ batch # << >> /\ UNCHANGED call /\ batch' = Tail(batch)
    BY <1>24, WorkerPutsBackSteps
  <2>2. WorkerFits'
    BY <1>0, <2>1 DEF WorkerFits
  <2>3. /\ Current \in Receives /\ status[Current] = "taken" /\ of[Current] \in Handles
        /\ \A i \in 1 .. Len(Tail(batch)) :
             /\ Tail(batch)[i].receive # Current /\ status[Tail(batch)[i].receive] = "taken"
             /\ Tail(batch)[i].receive \in Receives
             /\ \A j \in 1 .. Len(Tail(batch)) : Tail(batch)[j].receive = Tail(batch)[i].receive => j = i
    BY <2>1, BatchServed
  <2>4. queue \in Seq(Receives) /\ \A i \in 1 .. Len(queue) : queue[i] \in Receives /\ queue[i] # Current
    BY <1>0, <2>3, ElementOfSeq DEF TypeOK, ReceivesFit
  <2>5. CASE /\ status' = [r \in Receives |-> IF r = Current THEN "failed" ELSE status[r]]
             /\ of' = [r \in Receives |-> IF r = Current THEN NoHandle ELSE of[r]]
             /\ queue' = queue
    <3>1. \A r \in Receives : status'[r] \in {"queued", "taken"} => of'[r] \in Handles
      BY <1>0, <2>5 DEF ReceivesFit
    <3>2. \A i \in 1 .. Len(batch') :
             /\ status'[batch'[i].receive] = "taken"
             /\ \A j \in 1 .. Len(batch') : batch'[j].receive = batch'[i].receive => j = i
      BY <2>1, <2>3, <2>5
    <3>q. QED
      BY <1>0, <2>2, <2>4, <2>5, <3>1, <3>2 DEF ReceivesFit
  <2>6. CASE /\ status' = [status EXCEPT ![Current] = "queued"]
             /\ queue' = Append(queue, Current)
             /\ UNCHANGED <<of, late>>
    <3>1. \A r \in Receives : status'[r] \in {"queued", "taken"} => of'[r] \in Handles
      BY <1>0, <2>3, <2>6 DEF TypeOK, ReceivesFit
    <3>2. \A i \in 1 .. Len(batch') :
             /\ status'[batch'[i].receive] = "taken"
             /\ \A j \in 1 .. Len(batch') : batch'[j].receive = batch'[i].receive => j = i
      BY <1>0, <2>1, <2>3, <2>6 DEF TypeOK
    <3>3. /\ Len(queue') = Len(queue) + 1 /\ queue'[Len(queue) + 1] = Current
          /\ \A i \in 1 .. Len(queue) : queue'[i] = queue[i]
      BY <2>3, <2>4, <2>6, AppendProperties
    <3>4. Len(queue) \in Nat /\ \A i \in 1 .. Len(queue') : i = Len(queue) + 1 \/ i \in 1 .. Len(queue)
      BY <2>4, <3>3
    <3>5. \A i \in 1 .. Len(queue') :
             /\ status'[queue'[i]] = "queued"
             /\ \A j \in 1 .. Len(queue') : queue'[j] = queue'[i] => j = i
      BY <1>0, <2>3, <2>4, <2>6, <3>3, <3>4 DEF TypeOK, ReceivesFit
    <3>q. QED
      BY <2>2, <3>1, <3>2, <3>5 DEF ReceivesFit
  <2>q. QED
    BY <1>24, <2>5, <2>6, WorkerPutsBackSteps
<1>25. ASSUME WorkerReceives PROVE WorkerFits' /\ ReceivesFit'
  <2>1. batch # << >>
    BY <1>25 DEF WorkerReceives
  <2>2. /\ OnlyCall(Worker) /\ UNCHANGED receives
        /\ call'[Worker].pc = "associate" /\ call'[Worker].op = "recv"
    BY <1>0, <1>25, <2>1, CallTypes, BatchServed, WorkBegins
  <2>3. WorkerFits'
    BY <1>0, <2>1, <2>2, ProxyAgents DEF WorkerFits, WorkerPcs, OnlyCall, receives
  <2>q. QED
    BY <1>0, <2>2, <2>3 DEF ReceivesFit, receives
<1>26. ASSUME NEW r \in Receives, DeadlinePasses(r) PROVE WorkerFits' /\ ReceivesFit'
  <2>1. UNCHANGED <<call, status, of, queue, batch>>
    BY <1>26 DEF DeadlinePasses
  <2>q. QED
    BY <1>0, <2>1 DEF WorkerFits, ReceivesFit
<1>27. ASSUME NEW h \in Handles, DatagramArrives(h) PROVE WorkerFits' /\ ReceivesFit'
    BY <1>27, WorkerKept DEF DatagramArrives
<1>28. ASSUME UNCHANGED vars PROVE WorkerFits' /\ ReceivesFit'
    BY <1>28, WorkerKept DEF vars
<1>q. QED
    BY <1>1, <1>2, <1>3, <1>4, <1>5, <1>6, <1>7, <1>8, <1>9, <1>10, <1>11, <1>12, <1>13, <1>14, <1>15,
       <1>16, <1>17, <1>18, <1>19, <1>20, <1>21, <1>22, <1>23, <1>24, <1>25, <1>26, <1>27, <1>28,
       ProxySteps

LEMMA CallInit == Init => CallInv
<1> SUFFICES ASSUME Init PROVE CallInv
    OBVIOUS
<1>1. PICK s \in Scenarios :
         /\ carried = ConfiguredBy(s.layers)
         /\ blocking = s.blocking /\ habits = s.habits
         /\ status = [r \in Receives |-> IF r <= s.receives THEN "new" ELSE "unused"]
    BY DEF Init
<1>2. \A a \in Agents : Home(a, "none") \in CallRecs
    BY DEF Home, CallRecs, Pcs, Results
<1>3. call \in [Agents -> CallRecs]
    BY <1>2 DEF Init
<1>4. carried \subseteq Kinds
  <2>1. s.layers \in Seq([enabled : BOOLEAN, carries : SUBSET Kinds])
    BY ProxyAssumption
  <2> DEFINE usable == {i \in DOMAIN s.layers : s.layers[i].enabled}
  <2>2. CASE usable = {}
    BY <1>1, <2>2 DEF ConfiguredBy
  <2>3. CASE usable # {}
    <3>1. usable \subseteq 1 .. Len(s.layers) /\ IsFiniteSet(1 .. Len(s.layers))
      BY <2>1, FS_Interval
    <3>2. IsFiniteSet(usable) /\ usable \subseteq Int
      BY <3>1, FS_Subset
    <3>3. \E i \in usable : \A j \in usable : j <= i
      BY <2>3, <3>2, LastLayer
    <3>4. PICK i \in usable : carried = s.layers[i].carries
      BY <1>1, <2>3, <3>3 DEF ConfiguredBy
    <3>5. s.layers[i] \in [enabled : BOOLEAN, carries : SUBSET Kinds]
      BY <2>1, <3>1, ElementOfSeq
    <3>q. QED
      BY <3>4, <3>5
  <2>q. QED
    BY <2>2, <2>3
<1>5. blocking \subseteq Handles /\ habits \subseteq ProxyHabits
    BY <1>1, ProxyAssumption
<1>6. /\ NoEntry \in Entries
      /\ Unconnected \in [via : {"none", "server", "tunnel", "host"}, to : Targets \cup {NoPeer}]
      /\ << >> \in Seq(Controls \cup {NoControl})
    BY DEF NoEntry, Entries, Unconnected
<1>7. SocketTypes /\ RelayTypes /\ TableType
    BY <1>6 DEF Init, SocketTypes, RelayTypes, TableType
<1>8. ReceiveTypes
    BY <1>1 DEF Init, ReceiveTypes
<1>9. TypeOK
    BY <1>3, <1>4, <1>5, <1>7, <1>8 DEF TypeOK, SocketTypes, RelayTypes, TableType, ReceiveTypes, CallRecs
<1>10. \A a \in Agents : CallFits(a)
    BY DEF Init, Home, CallFits, ConnectOps
<1>11. WorkerFits
    BY ProxyAgents DEF Init, Home, WorkerFits, WorkerPcs
<1>12. ReceivesFit
    BY <1>1 DEF Init, ReceivesFit
<1>q. QED
    BY <1>9, <1>10, <1>11, <1>12 DEF CallInv

LEMMA CallNext == CallInv /\ [Next]_vars => CallInv'
<1> SUFFICES ASSUME CallInv, [Next]_vars PROVE CallInv'
    OBVIOUS
<1>q. QED
    BY TypeStep, PlacesStep, ReceivesStep DEF CallInv

\* Every variable of the isolation keeps its type, whatever the application does.
THEOREM ProxyTypes == Spec => []TypeOK
<1>1. CallInv => TypeOK
    BY DEF CallInv
<1>q. QED
    BY CallInit, CallNext, <1>1, PTL DEF Spec
-----------------------------------------------------------------------------
(* Every control connection which is open has one holder.                  *)

\* The holders stay as long as no entry changes its control connection, and the call which
\* changed has none, or the one it had.
LEMMA HeldKept ==
    ASSUME CallInv, HeldFits, NEW a \in Agents, OnlyCall(a) \/ UNCHANGED call, UNCHANGED open,
           \A h \in Handles : table'[h].control = table[h].control,
           \/ ~Opens(a) /\ ~Opens(a)'
           \/ Opens(a) /\ Opens(a)' /\ call'[a].control = call[a].control
    PROVE  HeldFits'
<1>1. ASSUME NEW b \in Agents
      PROVE  (Opens(b)' <=> Opens(b)) /\ (Opens(b) => call'[b].control = call[b].control)
    BY DEF OnlyCall, Opens
<1>2. \A h \in Handles : table'[h].control \in open' \cup {NoControl}
    BY DEF HeldFits
<1>3. \A b \in Agents : Opens(b)' => call'[b].control \in open'
    BY <1>1 DEF HeldFits
<1>4. \A g, h \in Handles : table'[g].control = table'[h].control /\ g # h => table'[h].control = NoControl
    BY DEF HeldFits
<1>5. \A b, d \in Agents : Opens(b)' /\ Opens(d)' /\ call'[b].control = call'[d].control => b = d
    BY <1>1 DEF HeldFits
<1>6. \A b \in Agents, h \in Handles : Opens(b)' => call'[b].control # table'[h].control
    BY <1>1 DEF HeldFits
<1>7. \A c \in open' : \/ \E h \in Handles : table'[h].control = c
                       \/ \E b \in Agents : Opens(b)' /\ call'[b].control = c
    BY <1>1 DEF HeldFits
<1>q. QED
    BY <1>2, <1>3, <1>4, <1>5, <1>6, <1>7 DEF HeldFits

\* The call of an agent opens a control connection.
LEMMA HeldOpened ==
    ASSUME CallInv, HeldFits, NEW a \in Agents, OnlyCall(a), ~Opens(a), UNCHANGED table,
           NEW c \in Controls \ open, open' = open \cup {c}, Opens(a)', call'[a].control = c
    PROVE  HeldFits'
<1>1. \A b \in Agents : b # a => call'[b] = call[b] /\ (Opens(b)' <=> Opens(b))
    BY DEF OnlyCall, Opens
<1>2. c # NoControl /\ \A h \in Handles : table[h].control # c
    BY ProxyAgents DEF HeldFits
<1>3. \A b \in Agents : Opens(b) => call[b].control # c
    BY DEF HeldFits
<1>4. /\ \A h \in Handles : table'[h].control \in open' \cup {NoControl}
      /\ \A b \in Agents : Opens(b)' => call'[b].control \in open'
      /\ \A g, h \in Handles : table'[g].control = table'[h].control /\ g # h => table'[h].control = NoControl
    BY <1>1 DEF HeldFits
<1>5. \A b, d \in Agents : Opens(b)' /\ Opens(d)' /\ call'[b].control = call'[d].control => b = d
    BY <1>1, <1>3 DEF HeldFits
<1>6. \A b \in Agents, h \in Handles : Opens(b)' => call'[b].control # table'[h].control
    BY <1>1, <1>2 DEF HeldFits
<1>7. \A e \in open' : \/ \E h \in Handles : table'[h].control = e
                       \/ \E b \in Agents : Opens(b)' /\ call'[b].control = e
  <2>1. ASSUME NEW e \in open, NEW b \in Agents, Opens(b), call[b].control = e
        PROVE  Opens(b)' /\ call'[b].control = e
    BY <1>1, <2>1
  <2>q. QED
    BY <2>1 DEF HeldFits
<1>q. QED
    BY <1>4, <1>5, <1>6, <1>7 DEF HeldFits

\* An agent gives up the control connection it opened, to nobody.
LEMMA HeldGivenUp ==
    ASSUME CallInv, HeldFits, NEW a \in Agents, OnlyCall(a), Opens(a), UNCHANGED table,
           open' = open \ {call[a].control}, ~Opens(a)'
    PROVE  HeldFits'
<1>1. \A b \in Agents : b # a => call'[b] = call[b] /\ (Opens(b)' <=> Opens(b))
    BY DEF OnlyCall, Opens
<1>2. \A h \in Handles : table[h].control # call[a].control
    BY DEF HeldFits
<1>3. \A b \in Agents : Opens(b)' => b # a /\ Opens(b) /\ call'[b].control = call[b].control
    BY <1>1
<1>4. /\ \A h \in Handles : table'[h].control \in open' \cup {NoControl}
      /\ \A g, h \in Handles : table'[g].control = table'[h].control /\ g # h => table'[h].control = NoControl
    BY <1>2 DEF HeldFits
<1>5. \A b \in Agents : Opens(b)' => call'[b].control \in open'
    BY <1>3 DEF HeldFits
<1>6. \A b, d \in Agents : Opens(b)' /\ Opens(d)' /\ call'[b].control = call'[d].control => b = d
    BY <1>3 DEF HeldFits
<1>7. \A b \in Agents, h \in Handles : Opens(b)' => call'[b].control # table'[h].control
    BY <1>3 DEF HeldFits
<1>8. \A e \in open' : \/ \E h \in Handles : table'[h].control = e
                       \/ \E b \in Agents : Opens(b)' /\ call'[b].control = e
  <2>1. ASSUME NEW e \in open', NEW b \in Agents, Opens(b), call[b].control = e
        PROVE  Opens(b)' /\ call'[b].control = e
    BY <1>1, <2>1
  <2>q. QED
    BY <2>1 DEF HeldFits
<1>q. QED
    BY <1>4, <1>5, <1>6, <1>7, <1>8 DEF HeldFits

\* It hands it over to the entry of its socket, which had none.
LEMMA HeldKeptByEntry ==
    ASSUME CallInv, HeldFits, NEW a \in Agents, OnlyCall(a), Opens(a), ~Opens(a)', UNCHANGED open,
           NEW h \in Handles, table[h].control = NoControl,
           EntrySays(h, table[h].kind, call[a].control, table[h].peer)
    PROVE  HeldFits'
<1>1. \A b \in Agents : Opens(b)' => b # a /\ Opens(b) /\ call'[b].control = call[b].control
    BY DEF OnlyCall, Opens
<1>2. table'[h].control = call[a].control /\ \A g \in Handles : g # h => table'[g] = table[g]
    BY DEF EntrySays
<1>3. \A g \in Handles : table[g].control # call[a].control
    BY DEF HeldFits
<1>4. /\ \A g \in Handles : table'[g].control \in open' \cup {NoControl}
      /\ \A f, g \in Handles : table'[f].control = table'[g].control /\ f # g => table'[g].control = NoControl
    BY <1>2, <1>3 DEF HeldFits
<1>5. \A b \in Agents : Opens(b)' => call'[b].control \in open'
    BY <1>1 DEF HeldFits
<1>6. \A b, d \in Agents : Opens(b)' /\ Opens(d)' /\ call'[b].control = call'[d].control => b = d
    BY <1>1 DEF HeldFits
<1>7. \A b \in Agents, g \in Handles : Opens(b)' => call'[b].control # table'[g].control
    BY <1>1, <1>2 DEF HeldFits
<1>8. \A e \in open' : \/ \E g \in Handles : table'[g].control = e
                       \/ \E b \in Agents : Opens(b)' /\ call'[b].control = e
  <2>1. ASSUME NEW e \in open, NEW b \in Agents, b # a, Opens(b), call[b].control = e
        PROVE  Opens(b)' /\ call'[b].control = e
    BY <2>1 DEF OnlyCall, Opens
  <2>2. ASSUME NEW e \in open, NEW g \in Handles, table[g].control = e PROVE table'[g].control = e
    <3>1. e # NoControl
      BY ProxyAgents DEF CallInv, TypeOK
    <3>q. QED
      BY <1>2, <2>2, <3>1
  <2>q. QED
    BY <1>2, <2>1, <2>2 DEF HeldFits
<1>q. QED
    BY <1>4, <1>5, <1>6, <1>7, <1>8 DEF HeldFits

\* The entry of a socket gives up its control connection.
LEMMA HeldReleased ==
    ASSUME CallInv, HeldFits, NEW a \in Agents, OnlyCall(a), ~Opens(a), ~Opens(a)',
           NEW h \in Handles, EntrySays(h, "unknown", NoControl, NoPeer),
           open' = open \ {table[h].control}
    PROVE  HeldFits'
<1>1. \A b \in Agents : (Opens(b)' <=> Opens(b)) /\ (Opens(b) => call'[b].control = call[b].control)
    BY DEF OnlyCall, Opens
<1>2. table'[h].control = NoControl /\ \A g \in Handles : g # h => table'[g] = table[g]
    BY DEF EntrySays
<1>3. \A g \in Handles : g # h /\ table[g].control = table[h].control => table[g].control = NoControl
    BY DEF HeldFits
<1>4. /\ \A g \in Handles : table'[g].control \in open' \cup {NoControl}
      /\ \A f, g \in Handles : table'[f].control = table'[g].control /\ f # g => table'[g].control = NoControl
    BY <1>2, <1>3 DEF HeldFits
<1>5. \A b \in Agents : Opens(b)' => call'[b].control \in open'
    BY <1>1 DEF HeldFits
<1>6. \A b, d \in Agents : Opens(b)' /\ Opens(d)' /\ call'[b].control = call'[d].control => b = d
    BY <1>1 DEF HeldFits
<1>7. \A b \in Agents, g \in Handles : Opens(b)' => call'[b].control # table'[g].control
  <2>1. \A b \in Agents : Opens(b) => call[b].control # NoControl
    BY ProxyAgents DEF HeldFits, CallInv, TypeOK
  <2>q. QED
    BY <1>1, <1>2, <2>1 DEF HeldFits
<1>8. \A e \in open' : \/ \E g \in Handles : table'[g].control = e
                       \/ \E b \in Agents : Opens(b)' /\ call'[b].control = e
  <2>1. ASSUME NEW e \in open', NEW g \in Handles, table[g].control = e PROVE table'[g].control = e
    BY <1>2, <2>1
  <2>2. ASSUME NEW e \in open', NEW b \in Agents, Opens(b), call[b].control = e
        PROVE  Opens(b)' /\ call'[b].control = e
    BY <1>1, <2>2
  <2>q. QED
    BY <2>1, <2>2 DEF HeldFits
<1>q. QED
    BY <1>4, <1>5, <1>6, <1>7, <1>8 DEF HeldFits

\* An agent whose call returned is at home.
LEMMA ReturnGoesHome ==
    ASSUME CallInv, NEW a \in Agents, NEW result, Returns(a, result)
    PROVE  /\ OnlyCall(a) /\ call'[a].pc \in {"idle", "serve"} /\ call'[a].op = "none"
           /\ call'[a].h = NoHandle /\ call'[a].control = NoControl
    BY ReturnFits, ProxyAgents DEF CallEnded, WorkEnded

\* Every step keeps the holders of the control connections.
LEMMA HeldStep ==
    ASSUME HeldInv, [Next]_vars
    PROVE  HeldFits'
<1>0. /\ CallInv /\ HeldFits /\ TypeOK /\ \A a \in Agents : CallFits(a)
      /\ \A t \in Threads : t \in Agents
    BY ProxyAgents DEF HeldInv, CallInv
<1>1. ASSUME NEW h \in Handles, NEW k \in Kinds, OpenSocket(h, k) PROVE HeldFits'
    BY <1>0, <1>1 DEF OpenSocket, relays, HeldFits, Opens
<1>2. ASSUME NEW t \in Threads, NEW op \in Ops, NEW h \in Handles, NEW p \in Targets \cup {NoPeer},
             Begin(t, op, h, p)
      PROVE  HeldFits'
  <2>1. UNCHANGED <<open, table>> /\ call[t].pc = "idle" /\ call \in [Agents -> CallRecs]
    BY <1>0, <1>2, CallTypes DEF Begin, At, relays
  <2>2. OnlyCall(t) /\ call'[t].pc = FirstStep(op)
    BY <1>2, <2>1, CallBegins
  <2>3. ~Opens(t) /\ ~Opens(t)'
    BY <2>1, <2>2, BeginsFit DEF Opens
  <2>q. QED
    BY <1>0, <2>1, <2>2, <2>3, HeldKept
<1>3. ASSUME NEW t \in Threads, AskKind(t) PROVE HeldFits'
  <2>1. /\ OnlyCall(t) /\ UNCHANGED open
        /\ \A h \in Handles : table'[h].control = table[h].control
    BY <1>0, <1>3, AskKindSteps DEF relays
  <2>2. ~Opens(t) /\ ~Opens(t)'
    BY <1>0, <1>3, AskKindSteps, StepsFit DEF Opens
  <2>q. QED
    BY <1>0, <2>1, <2>2, HeldKept
<1>4. ASSUME NEW t \in Threads, KeepKind(t) PROVE HeldFits'
  <2>1. /\ OnlyCall(t) /\ UNCHANGED open
        /\ \A h \in Handles : table'[h].control = table[h].control
    BY <1>0, <1>4, KeepKindSteps DEF EntrySays, relays
  <2>2. ~Opens(t) /\ ~Opens(t)'
    BY <1>0, <1>4, KeepKindSteps, StepsFit DEF EntrySays, Opens
  <2>q. QED
    BY <1>0, <2>1, <2>2, HeldKept
<1>5. ASSUME NEW t \in Threads, Connect(t) PROVE HeldFits'
  <2>1. /\ OnlyCall(t) /\ UNCHANGED open
        /\ \A h \in Handles : table'[h].control = table[h].control
    BY <1>0, <1>5, ConnectSteps DEF CallMoved, CallEnded, relays
  <2>2. ~Opens(t) /\ ~Opens(t)'
    BY <1>0, <1>5, ConnectSteps DEF CallMoved, CallEnded, Opens
  <2>q. QED
    BY <1>0, <2>1, <2>2, HeldKept
<1>6. ASSUME NEW t \in Threads, ServerAnswers(t) PROVE HeldFits'
  <2>1. /\ OnlyCall(t) /\ UNCHANGED open
        /\ \A h \in Handles : table'[h].control = table[h].control
    BY <1>0, <1>6, ServerAnswersSteps DEF CallMoved, CallEnded, relays
  <2>2. ~Opens(t) /\ ~Opens(t)'
    BY <1>0, <1>6, ServerAnswersSteps DEF CallMoved, CallEnded, Opens
  <2>q. QED
    BY <1>0, <2>1, <2>2, HeldKept
<1>7. ASSUME NEW t \in Threads, KeepPeer(t) PROVE HeldFits'
  <2>1. /\ OnlyCall(t) /\ UNCHANGED open
        /\ \A h \in Handles : table'[h].control = table[h].control
    BY <1>0, <1>7, KeepPeerSteps DEF CallEnded, EntrySays, relays
  <2>2. ~Opens(t) /\ ~Opens(t)'
    BY <1>0, <1>7, KeepPeerSteps DEF CallEnded, EntrySays, Opens
  <2>q. QED
    BY <1>0, <2>1, <2>2, HeldKept
<1>8. ASSUME NEW t \in Threads, HostConnects(t) PROVE HeldFits'
  <2>1. /\ OnlyCall(t) /\ UNCHANGED open
        /\ \A h \in Handles : table'[h].control = table[h].control
    BY <1>0, <1>8, HostConnectsSteps DEF CallMoved, CallEnded, relays
  <2>2. ~Opens(t) /\ ~Opens(t)'
    BY <1>0, <1>8, HostConnectsSteps DEF CallMoved, CallEnded, Opens
  <2>q. QED
    BY <1>0, <2>1, <2>2, HeldKept
<1>9. ASSUME NEW a \in Agents, Associate(a) PROVE HeldFits'
  <2>1. call[a].pc = "associate" /\ UNCHANGED table /\ ~Opens(a)
    BY <1>0, <1>9, AssociateSteps DEF Opens
  <2>2. CASE Returns(a, "failed") /\ UNCHANGED open
    <3>1. OnlyCall(a) /\ ~Opens(a)'
      BY <1>0, <2>2, ReturnGoesHome DEF Opens
    <3>q. QED
      BY <1>0, <2>1, <2>2, <3>1, HeldKept
  <2>3. ASSUME NEW c \in Controls \ open, CallTook(a, "asked", c), open' = open \cup {c}
        PROVE  HeldFits'
    BY <1>0, <2>1, <2>3, HeldOpened DEF CallTook, Opens
  <2>4. CASE /\ CallTook(a, IF call[a].op \in {"send", "sendto"} THEN "sendRelay" ELSE "read",
                         table[call[a].h].control)
             /\ UNCHANGED <<open, receives>>
    BY <1>0, <2>1, <2>4, HeldKept DEF CallTook, Opens
  <2>q. QED
    BY <1>0, <1>9, <2>2, <2>3, <2>4, AssociateSteps
<1>10. ASSUME NEW a \in Agents, RelayAnswers(a) PROVE HeldFits'
  <2>1. call[a].pc = "asked" /\ UNCHANGED table /\ Opens(a)
    BY <1>0, <1>10, RelayAnswersSteps DEF Opens
  <2>2. CASE open' = open \ {call[a].control} /\ Returns(a, "failed")
    <3>1. OnlyCall(a) /\ ~Opens(a)'
      BY <1>0, <2>2, ReturnGoesHome DEF Opens
    <3>q. QED
      BY <1>0, <2>1, <2>2, <3>1, HeldGivenUp
  <2>3. CASE CallMoved(a, "keepRelay") /\ UNCHANGED <<open, receives>>
    BY <1>0, <2>1, <2>3, HeldKept DEF CallMoved, Opens
  <2>q. QED
    BY <1>0, <1>10, <2>2, <2>3, RelayAnswersSteps
<1>11. ASSUME NEW a \in Agents, KeepRelay(a) PROVE HeldFits'
  <2>1. call[a].pc = "keepRelay" /\ call[a].h \in Handles /\ Opens(a)
    BY <1>0, <1>11, KeepRelaySteps DEF Opens
  <2>2. OnlyCall(a) /\ ~Opens(a)'
    BY <1>0, <1>11, KeepRelaySteps DEF CallTook, Opens
  <2>3. CASE /\ table[call[a].h].control = NoControl /\ UNCHANGED open
             /\ EntrySays(call[a].h, table[call[a].h].kind, call[a].control, table[call[a].h].peer)
    BY <1>0, <2>1, <2>2, <2>3, HeldKeptByEntry
  <2>4. CASE open' = open \ {call[a].control} /\ UNCHANGED table
    BY <1>0, <2>1, <2>2, <2>4, HeldGivenUp
  <2>q. QED
    BY <1>0, <1>11, <2>3, <2>4, KeepRelaySteps
<1>12. ASSUME NEW t \in Threads, FindPeer(t) PROVE HeldFits'
  <2>1. /\ OnlyCall(t) /\ UNCHANGED open
        /\ \A h \in Handles : table'[h].control = table[h].control
    BY <1>0, <1>12, FindPeerSteps DEF CallMoved, CallEnded, relays
  <2>2. ~Opens(t) /\ ~Opens(t)'
    BY <1>0, <1>12, FindPeerSteps DEF CallMoved, CallEnded, Opens
  <2>q. QED
    BY <1>0, <2>1, <2>2, HeldKept
<1>13. ASSUME NEW t \in Threads, SendToRelay(t) PROVE HeldFits'
  <2>1. /\ OnlyCall(t) /\ UNCHANGED open
        /\ \A h \in Handles : table'[h].control = table[h].control
    BY <1>0, <1>13, SendToRelaySteps DEF CallMoved, CallEnded, relays
  <2>2. ~Opens(t) /\ ~Opens(t)'
    BY <1>0, <1>13, SendToRelaySteps DEF CallMoved, CallEnded, Opens
  <2>q. QED
    BY <1>0, <2>1, <2>2, HeldKept
<1>14. ASSUME NEW t \in Threads, HostSends(t) PROVE HeldFits'
  <2>1. /\ OnlyCall(t) /\ UNCHANGED open
        /\ \A h \in Handles : table'[h].control = table[h].control
    BY <1>0, <1>14, HostSendsSteps DEF CallMoved, CallEnded, relays
  <2>2. ~Opens(t) /\ ~Opens(t)'
    BY <1>0, <1>14, HostSendsSteps DEF CallMoved, CallEnded, Opens
  <2>q. QED
    BY <1>0, <2>1, <2>2, HeldKept
<1>15. ASSUME NEW a \in Agents, Read(a) PROVE HeldFits'
  <2>1. /\ call[a].pc \in {"read", "unwrap", "hostReceive"} /\ UNCHANGED <<open, table>>
        /\ \E result \in {"ok", "header", "failed"} : Returns(a, result)
    BY <1>0, <1>15, ReadSteps, TakenReturns DEF DatagramTaken, relays
  <2>2. OnlyCall(a) /\ ~Opens(a) /\ ~Opens(a)'
    BY <1>0, <2>1, ReturnGoesHome DEF Opens
  <2>q. QED
    BY <1>0, <2>1, <2>2, HeldKept
<1>16. ASSUME NEW t \in Threads, FindAssociation(t) PROVE HeldFits'
  <2>1. /\ OnlyCall(t) /\ UNCHANGED open
        /\ \A h \in Handles : table'[h].control = table[h].control
    BY <1>0, <1>16, FindAssociationSteps DEF CallMoved, CallEnded, relays
  <2>2. ~Opens(t) /\ ~Opens(t)'
    BY <1>0, <1>16, FindAssociationSteps DEF CallMoved, CallEnded, Opens
  <2>q. QED
    BY <1>0, <2>1, <2>2, HeldKept
<1>17. ASSUME NEW t \in Threads, Unwrap(t) PROVE HeldFits'
  <2>1. /\ call[t].pc \in {"read", "unwrap", "hostReceive"} /\ UNCHANGED <<open, table>>
        /\ \E result \in {"ok", "header", "failed"} : Returns(t, result)
    BY <1>0, <1>17, UnwrapSteps, TakenReturns DEF DatagramTaken, relays
  <2>2. OnlyCall(t) /\ ~Opens(t) /\ ~Opens(t)'
    BY <1>0, <2>1, ReturnGoesHome DEF Opens
  <2>q. QED
    BY <1>0, <2>1, <2>2, HeldKept
<1>18. ASSUME NEW t \in Threads, HostReceives(t) PROVE HeldFits'
  <2>1. /\ call[t].pc \in {"read", "unwrap", "hostReceive"} /\ UNCHANGED <<open, table>>
        /\ \E result \in {"ok", "header", "failed"} : Returns(t, result)
    BY <1>0, <1>18, HostReceivesSteps, TakenReturns DEF DatagramTaken, relays
  <2>2. OnlyCall(t) /\ ~Opens(t) /\ ~Opens(t)'
    BY <1>0, <2>1, ReturnGoesHome DEF Opens
  <2>q. QED
    BY <1>0, <2>1, <2>2, HeldKept
<1>19. ASSUME NEW t \in Threads, QueueReceive(t) PROVE HeldFits'
  <2>1. /\ OnlyCall(t) /\ UNCHANGED open
        /\ \A h \in Handles : table'[h].control = table[h].control
    BY <1>0, <1>19, QueueReceiveSteps DEF CallMoved, CallEnded, relays
  <2>2. ~Opens(t) /\ ~Opens(t)'
    BY <1>0, <1>19, QueueReceiveSteps DEF CallMoved, CallEnded, Opens
  <2>q. QED
    BY <1>0, <2>1, <2>2, HeldKept
<1>20. ASSUME NEW t \in Threads, ReleaseState(t) PROVE HeldFits'
  <2>1. /\ OnlyCall(t) /\ ~Opens(t) /\ ~Opens(t)' /\ call[t].h \in Handles
        /\ EntrySays(call[t].h, "unknown", NoControl, NoPeer)
        /\ open' = open \ {table[call[t].h].control}
    BY <1>0, <1>20, ReleaseStateSteps DEF CallMoved, Opens
  <2>q. QED
    BY <1>0, <2>1, HeldReleased
<1>21. ASSUME NEW t \in Threads, CloseSocket(t) PROVE HeldFits'
  <2>1. /\ OnlyCall(t) /\ UNCHANGED open
        /\ \A h \in Handles : table'[h].control = table[h].control
    BY <1>0, <1>21, CloseSocketSteps DEF CallMoved, CallEnded, relays
  <2>2. ~Opens(t) /\ ~Opens(t)'
    BY <1>0, <1>21, CloseSocketSteps DEF CallMoved, CallEnded, Opens
  <2>q. QED
    BY <1>0, <2>1, <2>2, HeldKept
<1>22. ASSUME WorkerTakes PROVE HeldFits'
  <2>1. OnlyCall(Worker) /\ ~Opens(Worker) /\ ~Opens(Worker)' /\ UNCHANGED <<open, table>>
    BY <1>0, <1>22, WorkerTakesSteps DEF CallMoved, Opens, relays
  <2>q. QED
    BY <1>0, <2>1, HeldKept, ProxyAgents
<1>23. ASSUME WorkerSelects PROVE HeldFits'
  <2>1. OnlyCall(Worker) /\ ~Opens(Worker) /\ ~Opens(Worker)' /\ UNCHANGED <<open, table>>
    BY <1>0, <1>23, WorkerSelectsSteps DEF CallMoved, Opens, relays
  <2>q. QED
    BY <1>0, <2>1, HeldKept, ProxyAgents
<1>24. ASSUME WorkerPutsBack PROVE HeldFits'
    BY <1>0, <1>24, WorkerPutsBackSteps DEF relays, HeldFits, Opens
<1>25. ASSUME WorkerReceives PROVE HeldFits'
  <2>1. batch # << >> /\ call[Worker].pc = "serve"
    BY <1>25 DEF WorkerReceives, At
  <2>2. /\ OnlyCall(Worker) /\ call'[Worker].pc = "associate" /\ UNCHANGED <<open, table>>
    BY <1>0, <1>25, <2>1, CallTypes, BatchServed, WorkBegins DEF relays
  <2>3. ~Opens(Worker) /\ ~Opens(Worker)'
    BY <2>1, <2>2 DEF Opens
  <2>q. QED
    BY <1>0, <2>2, <2>3, HeldKept, ProxyAgents
<1>26. ASSUME NEW r \in Receives, DeadlinePasses(r) PROVE HeldFits'
    BY <1>0, <1>26 DEF DeadlinePasses, relays, HeldFits, Opens
<1>27. ASSUME NEW h \in Handles, DatagramArrives(h) PROVE HeldFits'
    BY <1>0, <1>27 DEF DatagramArrives, relays, HeldFits, Opens
<1>28. ASSUME UNCHANGED vars PROVE HeldFits'
    BY <1>0, <1>28 DEF vars, relays, HeldFits, Opens
<1>q. QED
    BY <1>1, <1>2, <1>3, <1>4, <1>5, <1>6, <1>7, <1>8, <1>9, <1>10, <1>11, <1>12, <1>13, <1>14, <1>15,
       <1>16, <1>17, <1>18, <1>19, <1>20, <1>21, <1>22, <1>23, <1>24, <1>25, <1>26, <1>27, <1>28,
       ProxySteps

LEMMA HeldInit == Init => HeldInv
<1> SUFFICES ASSUME Init PROVE HeldInv
    OBVIOUS
<1>1. /\ open = {} /\ \A h \in Handles : table[h].control = NoControl
      /\ \A a \in Agents : call[a].pc \in {"idle", "serve"}
    BY DEF Init, NoEntry, Home
<1>2. HeldFits
    BY <1>1 DEF HeldFits, Opens
<1>q. QED
    BY <1>2, CallInit DEF HeldInv

\* Every control connection which is open is held once, by the entry of a socket or by the call
\* which opened it, and no entry names one which is closed: whatever the threads do, nobody
\* uses a connection of somebody else, and none is left over.
THEOREM ControlsHeld == Spec => []ControlsAreHeld
<1>1. Init => HeldInv
    BY HeldInit
<1>2. HeldInv /\ [Next]_vars => HeldInv'
  <2> SUFFICES ASSUME HeldInv, [Next]_vars PROVE HeldInv'
    OBVIOUS
  <2>1. CallInv'
    BY CallNext DEF HeldInv
  <2>q. QED
    BY <2>1, HeldStep DEF HeldInv
<1>3. HeldInv => ControlsAreHeld
  <2> SUFFICES ASSUME HeldInv PROVE ControlsAreHeld
    OBVIOUS
  <2>0. HeldFits /\ TypeOK
    BY DEF HeldInv, CallInv
  <2>1. \A h \in Handles : table[h].control \in open \cup {NoControl}
    BY <2>0 DEF HeldFits
  <2>2. ASSUME NEW c \in open
        PROVE  Cardinality({h \in Handles : table[h].control = c}
                   \cup {a \in Agents : call[a].control = c /\ call[a].pc \in {"asked", "keepRelay"}}) = 1
    <3> DEFINE entries == {h \in Handles : table[h].control = c}
    <3> DEFINE calls == {a \in Agents : call[a].control = c /\ call[a].pc \in {"asked", "keepRelay"}}
    <3>1. c # NoControl
      BY <2>0, ProxyAgents DEF TypeOK
    <3>2. \A g, h \in entries : g = h
      BY <2>0, <3>1 DEF HeldFits
    <3>3. \A a, b \in calls : a = b
      BY <2>0 DEF HeldFits, Opens
    <3>4. entries = {} \/ calls = {}
      BY <2>0 DEF HeldFits, Opens
    <3>5. entries # {} \/ calls # {}
      BY <2>0 DEF HeldFits, Opens
    <3>6. \E x : entries \cup calls = {x}
      <4>1. CASE entries # {}
        <5>1. PICK x \in entries : TRUE
          BY <4>1
        <5>q. QED
          BY <3>2, <3>4, <4>1, <5>1
      <4>2. CASE entries = {}
        <5>1. PICK x \in calls : TRUE
          BY <3>5, <4>2
        <5>q. QED
          BY <3>3, <4>2, <5>1
      <4>q. QED
        BY <4>1, <4>2
    <3>q. QED
      BY <3>6, FS_Singleton
  <2>q. QED
    BY <2>1, <2>2 DEF ControlsAreHeld
<1>q. QED
    BY <1>1, <1>2, <1>3, PTL DEF Spec
-----------------------------------------------------------------------------
(* What is known of a socket.                                              *)

\* A call returned, or goes on with its socket.
Continues(t) ==
    \/ call'[t].pc = "idle" /\ call'[t].h = NoHandle /\ call'[t].op # "closesocket"
    \/ /\ call[t].pc # "idle" /\ call'[t].pc # "idle"
       /\ call'[t].h = call[t].h /\ call'[t].op = call[t].op
       /\ call'[t].pc \in {"keepKind", "closeSocket"} =>
            call'[t].pc = call[t].pc /\ call'[t].seen = call[t].seen

LEMMA CallContinues ==
    ASSUME KindInv, NEW a \in Agents, OnlyCall(a), a \in Threads => Continues(a)
    PROVE  \A t \in Threads : Continues(t)
<1>1. ASSUME NEW t \in Threads, t # a PROVE Continues(t)
  <2>1. call'[t] = call[t] /\ CallFits(t) /\ (call[t].pc = "idle" => call[t].h = NoHandle)
    BY <1>1, ProxyAgents DEF OnlyCall, KindInv, CallInv, StackFits
  <2>q. QED
    BY <2>1 DEF Continues, CallFits
<1>q. QED
    BY <1>1

LEMMA SameContinues ==
    ASSUME KindInv, UNCHANGED call
    PROVE  \A t \in Threads : Continues(t)
<1>1. ASSUME NEW t \in Threads PROVE Continues(t)
  <2>1. CallFits(t) /\ (call[t].pc = "idle" => call[t].h = NoHandle)
    BY ProxyAgents DEF KindInv, CallInv, StackFits
  <2>q. QED
    BY <2>1 DEF Continues, CallFits
<1>q. QED
    BY <1>1

\* Those are the ways in which the call of a thread goes on.
LEMMA MovesContinue ==
    ASSUME NEW t \in Threads, call[t].pc # "idle"
    PROVE  /\ \A pc \in Pcs \ {"idle", "keepKind", "closeSocket"} : CallMoved(t, pc) => Continues(t)
           /\ \A pc \in Pcs \ {"idle", "keepKind", "closeSocket"} : \A c : CallTook(t, pc, c) => Continues(t)
           /\ CallEnded(t) => Continues(t)
    BY DEF CallMoved, CallTook, CallEnded, SameCall, Continues

LEMMA KindKept ==
    ASSUME KindInv, UNCHANGED <<habits, kind>>, \A t \in Threads : Continues(t),
           \A h \in Handles : table'[h].kind = table[h].kind /\ table'[h].peer = table[h].peer
    PROVE  KindFits'
<1> SUFFICES ASSUME "race" \notin habits PROVE KindFits'
    BY DEF KindFits
<1>0. KindFits /\ \A t \in Threads : CallFits(t)
    BY ProxyAgents DEF KindInv, CallInv
<1>1. \A t \in Threads : call'[t].pc # "idle" => kind'[call'[t].h] # "none"
    BY <1>0 DEF KindFits, Continues
<1>2. \A t, u \in Threads : call'[t].op = "closesocket" /\ call'[u].h = call'[t].h => u = t
  <2> SUFFICES ASSUME NEW t \in Threads, NEW u \in Threads, call'[t].op = "closesocket",
                      call'[u].h = call'[t].h
               PROVE  u = t
    OBVIOUS
  <2>1. call[t].op = "closesocket" /\ call'[t].h = call[t].h /\ call[t].h \in Handles
    BY <1>0 DEF Continues, CallFits
  <2>2. call'[u].h = call[u].h
    BY <2>1, ProxyAgents DEF Continues
  <2>q. QED
    BY <1>0, <2>1, <2>2 DEF KindFits
<1>3. /\ \A h \in Handles : table'[h].kind \in {"unknown", kind'[h]}
      /\ \A h \in Handles : kind'[h] = "none" => table'[h].peer = NoPeer
    BY <1>0 DEF KindFits
<1>4. ASSUME NEW t \in Threads, call'[t].pc = "closeSocket"
      PROVE  table'[call'[t].h].kind = "unknown" /\ table'[call'[t].h].peer = NoPeer
  <2>1. call[t].pc = "closeSocket" /\ call'[t].h = call[t].h
    BY <1>4 DEF Continues
  <2>2. call[t].h \in Handles
    BY <1>0, <2>1 DEF CallFits
  <2>q. QED
    BY <1>0, <2>1, <2>2 DEF KindFits
<1>5. \A t \in Threads : call'[t].pc = "keepKind" => call'[t].seen = kind'[call'[t].h]
    BY <1>0 DEF KindFits, Continues
<1>q. QED
    BY <1>1, <1>2, <1>3, <1>4, <1>5 DEF KindFits

LEMMA StackKept ==
    ASSUME \A t \in Threads : Continues(t),
           \A h \in Handles : kind'[h] = "none" => stack'[h].via = "none"
    PROVE  StackFits'
    BY DEF StackFits, Continues

\* Every step keeps what is known of the sockets.
LEMMA KindStep ==
    ASSUME KindInv, [Next]_vars
    PROVE  StackFits' /\ KindFits'
<1>0. /\ KindInv /\ CallInv /\ TypeOK /\ StackFits /\ KindFits
      /\ (\A a \in Agents : CallFits(a)) /\ WorkerFits /\ \A t \in Threads : t \in Agents
    BY ProxyAgents DEF KindInv, CallInv
<1>1. ASSUME NEW h \in Handles, NEW k \in Kinds, OpenSocket(h, k) PROVE StackFits' /\ KindFits'
  <2>1. /\ UNCHANGED <<stack, habits, table, call>> /\ kind[h] = "none" /\ kind' = [kind EXCEPT ![h] = k]
        /\ kind'[h] # "none" /\ \A g \in Handles : g # h => kind'[g] = kind[g]
    BY <1>0, <1>1 DEF OpenSocket, sockets, settings, TypeOK, Kinds
  <2>2. StackFits'
    BY <1>0, <2>1 DEF StackFits
  <2>3. ASSUME "race" \notin habits PROVE KindFits'
    <3>1. \A t \in Threads : call[t].pc # "idle" => call[t].h # h /\ kind'[call[t].h] = kind[call[t].h]
      BY <1>0, <2>1, <2>3 DEF KindFits
    <3>2. \A g \in Handles : table'[g].kind \in {"unknown", kind'[g]}
      <4>1. table[h].kind \in Kinds \cup {"unknown"}
        BY <1>0 DEF TypeOK, Entries
      <4>2. table[h].kind = "unknown"
        BY <1>0, <2>1, <2>3, <4>1 DEF KindFits, Kinds
      <4>q. QED
        BY <1>0, <2>1, <2>3, <4>2 DEF KindFits
    <3>3. \A t \in Threads : call[t].pc = "keepKind" => call[t].seen = kind'[call[t].h]
      BY <1>0, <2>3, <3>1 DEF KindFits
    <3>4. \A t \in Threads : call'[t].pc # "idle" => kind'[call'[t].h] # "none"
      BY <1>0, <2>1, <2>3, <3>1 DEF KindFits
    <3>q. QED
      BY <1>0, <2>1, <2>3, <3>2, <3>3, <3>4 DEF KindFits
  <2>q. QED
    BY <2>1, <2>2, <2>3 DEF KindFits
<1>2. ASSUME NEW t \in Threads, NEW op \in Ops, NEW h \in Handles, NEW p \in Targets \cup {NoPeer},
             Begin(t, op, h, p)
      PROVE  StackFits' /\ KindFits'
  <2>1. /\ UNCHANGED <<kind, stack, habits, table>> /\ call[t].pc = "idle" /\ call \in [Agents -> CallRecs]
        /\ Sensible(op, h)
    BY <1>0, <1>2, CallTypes DEF Begin, At, sockets, settings
  <2>2. /\ OnlyCall(t) /\ call'[t].pc = FirstStep(op) /\ call'[t].op = op /\ call'[t].h = h
    BY <1>2, <2>1, CallBegins
  <2>3. call'[t].pc \notin {"idle", "keepKind", "closeSocket"} /\ kind[h] # "none"
    BY <2>1, <2>2, BeginsFit, SensibleMeans
  <2>4. \A u \in Threads : u # t => call'[u] = call[u]
    BY <1>0, <2>2 DEF OnlyCall
  <2>5. StackFits'
    BY <1>0, <2>1, <2>3, <2>4 DEF StackFits
  <2>6. ASSUME "race" \notin habits PROVE KindFits'
    <3>1. op = "closesocket" => Calling(h) = {}
      BY <2>1, <2>6, SensibleMeans
    <3>2. \A u \in Calling(h) : call[u].op # "closesocket"
      BY <2>1, SensibleMeans
    <3>3. \A u, v \in Threads : call'[u].op = "closesocket" /\ call'[v].h = call'[u].h => v = u
      BY <1>0, <2>2, <2>4, <2>6, <3>1, <3>2 DEF KindFits, Calling
    <3>q. QED
      BY <1>0, <2>1, <2>2, <2>3, <2>4, <2>6, <3>3 DEF KindFits
  <2>q. QED
    BY <2>1, <2>5, <2>6 DEF KindFits
<1>3. ASSUME NEW t \in Threads, AskKind(t) PROVE StackFits' /\ KindFits'
  <2>1. /\ OnlyCall(t) /\ SameCall(t) /\ UNCHANGED <<kind, stack, habits, table>>
        /\ call[t].pc = "kind" /\ call[t].op \in KindOps
    BY <1>0, <1>3, AskKindSteps DEF sockets, settings
  <2>2. CASE call'[t].pc = StepForKind(call[t].op, table[call[t].h].kind)
    <3>1. Continues(t)
      BY <2>1, <2>2, StepsFit DEF SameCall, Continues
    <3>q. QED
      BY <1>0, <2>1, <3>1, CallContinues, KindKept, StackKept DEF StackFits
  <2>3. CASE call'[t].pc = "keepKind" /\ call'[t].seen = kind[call[t].h]
    <3>1. \A u \in Threads : u # t => call'[u] = call[u]
      BY <1>0, <2>1 DEF OnlyCall
    <3>2. StackFits'
      BY <1>0, <2>1, <2>3, <3>1 DEF StackFits, SameCall
    <3>3. ASSUME "race" \notin habits PROVE KindFits'
      BY <1>0, <2>1, <2>3, <3>1, <3>3 DEF KindFits, SameCall
    <3>q. QED
      BY <2>1, <3>2, <3>3 DEF KindFits
  <2>q. QED
    BY <1>0, <1>3, <2>2, <2>3, AskKindSteps
<1>4. ASSUME NEW t \in Threads, KeepKind(t) PROVE StackFits' /\ KindFits'
  <2>1. /\ OnlyCall(t) /\ SameCall(t) /\ UNCHANGED <<kind, stack, habits>>
        /\ call[t].pc = "keepKind" /\ call[t].op \in KindOps /\ call[t].h \in Handles
        /\ EntrySays(call[t].h, call[t].seen, table[call[t].h].control, table[call[t].h].peer)
        /\ call'[t].pc \notin {"idle", "keepKind", "closeSocket"}
    BY <1>0, <1>4, KeepKindSteps, StepsFit DEF sockets, settings
  <2>2. \A u \in Threads : u # t => call'[u] = call[u]
    BY <1>0, <2>1 DEF OnlyCall
  <2>3. StackFits'
    BY <1>0, <2>1, <2>2 DEF StackFits
  <2>4. ASSUME "race" \notin habits PROVE KindFits'
    <3>1. call[t].seen = kind[call[t].h]
      BY <1>0, <2>1, <2>4 DEF KindFits
    <3>2. \A h \in Handles : /\ table'[h].kind \in {"unknown", kind'[h]}
                             /\ table'[h].peer = table[h].peer
      BY <1>0, <2>1, <2>4, <3>1 DEF KindFits, EntrySays
    <3>3. \A u \in Threads : call[u].pc = "closeSocket" => call[u].h # call[t].h /\ call[u].h \in Handles
      BY <1>0, <2>1, <2>4 DEF KindFits, CallFits
    <3>4. \A u \in Threads : call'[u].pc = "closeSocket" =>
             table'[call'[u].h].kind = "unknown" /\ table'[call'[u].h].peer = NoPeer
      BY <1>0, <2>1, <2>2, <2>4, <3>3 DEF KindFits, EntrySays
    <3>q. QED
      BY <1>0, <2>1, <2>2, <2>4, <3>2, <3>4 DEF KindFits, SameCall
  <2>q. QED
    BY <2>1, <2>3, <2>4 DEF KindFits
<1>5. ASSUME NEW t \in Threads, Connect(t) PROVE StackFits' /\ KindFits'
  <2>1. OnlyCall(t) /\ UNCHANGED <<kind, habits, table>>
    BY <1>0, <1>5, ConnectSteps DEF settings, CallMoved, CallEnded
  <2>2. Continues(t)
    BY <1>0, <1>5, ConnectSteps, MovesContinue DEF Pcs
  <2>3. \A h \in Handles : kind'[h] = "none" => stack'[h].via = "none"
    BY <1>0, <1>5, <2>1, ConnectSteps DEF StackSays, StackFits
  <2>q. QED
    BY <1>0, <2>1, <2>2, <2>3, CallContinues, KindKept, StackKept
<1>6. ASSUME NEW t \in Threads, ServerAnswers(t) PROVE StackFits' /\ KindFits'
  <2>1. OnlyCall(t) /\ UNCHANGED <<kind, habits, table>>
    BY <1>0, <1>6, ServerAnswersSteps DEF settings, CallMoved, CallEnded
  <2>2. Continues(t)
    BY <1>0, <1>6, ServerAnswersSteps, MovesContinue DEF Pcs
  <2>3. \A h \in Handles : kind'[h] = "none" => stack'[h].via = "none"
    BY <1>0, <1>6, <2>1, ServerAnswersSteps DEF StackSays, StackFits
  <2>q. QED
    BY <1>0, <2>1, <2>2, <2>3, CallContinues, KindKept, StackKept
<1>7. ASSUME NEW t \in Threads, KeepPeer(t) PROVE StackFits' /\ KindFits'
  <2>1. /\ CallEnded(t) /\ UNCHANGED <<kind, stack, habits>> /\ call[t].pc = "keepPeer"
        /\ call[t].h \in Handles
        /\ EntrySays(call[t].h, table[call[t].h].kind, table[call[t].h].control, call[t].to)
    BY <1>0, <1>7, KeepPeerSteps DEF sockets, settings
  <2>2. \A u \in Threads : u # t => call'[u] = call[u]
    BY <1>0, <2>1 DEF OnlyCall, CallEnded
  <2>3. StackFits'
    BY <1>0, <2>1, <2>2 DEF StackFits, CallEnded
  <2>4. ASSUME "race" \notin habits PROVE KindFits'
    <3>1. \A h \in Handles : /\ table'[h].kind \in {"unknown", kind'[h]}
                             /\ kind'[h] = "none" => table'[h].peer = NoPeer
      BY <1>0, <2>1, <2>4 DEF KindFits, EntrySays
    <3>2. \A u \in Threads : call[u].pc = "closeSocket" => call[u].h # call[t].h /\ call[u].h \in Handles
      BY <1>0, <2>1, <2>4 DEF KindFits, CallFits
    <3>3. \A u \in Threads : call'[u].pc = "closeSocket" =>
             table'[call'[u].h].kind = "unknown" /\ table'[call'[u].h].peer = NoPeer
      BY <1>0, <2>1, <2>2, <2>4, <3>2 DEF KindFits, EntrySays, CallEnded
    <3>4. \A u, v \in Threads : call'[u].op = "closesocket" /\ call'[v].h = call'[u].h => v = u
      BY <1>0, <2>1, <2>2, <2>4, ProxyAgents DEF KindFits, CallEnded, CallFits
    <3>q. QED
      BY <1>0, <2>1, <2>2, <2>4, <3>1, <3>3, <3>4 DEF KindFits, CallEnded
  <2>q. QED
    BY <2>1, <2>3, <2>4 DEF KindFits
<1>8. ASSUME NEW t \in Threads, HostConnects(t) PROVE StackFits' /\ KindFits'
  <2>1. OnlyCall(t) /\ UNCHANGED <<kind, habits, table>>
    BY <1>0, <1>8, HostConnectsSteps DEF settings, CallMoved, CallEnded
  <2>2. Continues(t)
    BY <1>0, <1>8, HostConnectsSteps, MovesContinue DEF Pcs
  <2>3. \A h \in Handles : kind'[h] = "none" => stack'[h].via = "none"
    BY <1>0, <1>8, <2>1, HostConnectsSteps DEF StackSays, StackFits
  <2>q. QED
    BY <1>0, <2>1, <2>2, <2>3, CallContinues, KindKept, StackKept
<1>9. ASSUME NEW a \in Agents, Associate(a) PROVE StackFits' /\ KindFits'
  <2>1. OnlyCall(a) /\ UNCHANGED <<kind, stack, habits, table>>
    BY <1>0, <1>9, AssociateSteps, ReturnFits DEF sockets, settings, CallTook
  <2>2. a \in Threads => Continues(a)
    BY <1>0, <1>9, AssociateSteps, ReturnFits, MovesContinue DEF Pcs
  <2>q. QED
    BY <1>0, <2>1, <2>2, CallContinues, KindKept, StackKept DEF StackFits
<1>10. ASSUME NEW a \in Agents, RelayAnswers(a) PROVE StackFits' /\ KindFits'
  <2>1. OnlyCall(a) /\ UNCHANGED <<kind, stack, habits, table>>
    BY <1>0, <1>10, RelayAnswersSteps, ReturnFits DEF sockets, settings, CallMoved
  <2>2. a \in Threads => Continues(a)
    BY <1>0, <1>10, RelayAnswersSteps, ReturnFits, MovesContinue DEF Pcs
  <2>q. QED
    BY <1>0, <2>1, <2>2, CallContinues, KindKept, StackKept DEF StackFits
<1>11. ASSUME NEW a \in Agents, KeepRelay(a) PROVE StackFits' /\ KindFits'
  <2>1. /\ OnlyCall(a) /\ UNCHANGED <<kind, stack, habits>>
        /\ \A h \in Handles : table'[h].kind = table[h].kind /\ table'[h].peer = table[h].peer
    BY <1>0, <1>11, KeepRelaySteps DEF sockets, settings, CallTook, EntrySays
  <2>2. a \in Threads => Continues(a)
    BY <1>0, <1>11, KeepRelaySteps, MovesContinue DEF Pcs
  <2>q. QED
    BY <1>0, <2>1, <2>2, CallContinues, KindKept, StackKept DEF StackFits
<1>12. ASSUME NEW t \in Threads, FindPeer(t) PROVE StackFits' /\ KindFits'
  <2>1. OnlyCall(t) /\ UNCHANGED <<kind, stack, habits, table>>
    BY <1>0, <1>12, FindPeerSteps DEF sockets, settings, CallMoved, CallEnded
  <2>2. Continues(t)
    BY <1>0, <1>12, FindPeerSteps, MovesContinue DEF Pcs
  <2>q. QED
    BY <1>0, <2>1, <2>2, CallContinues, KindKept, StackKept DEF StackFits
<1>13. ASSUME NEW t \in Threads, SendToRelay(t) PROVE StackFits' /\ KindFits'
  <2>1. OnlyCall(t) /\ UNCHANGED <<kind, stack, habits, table>>
    BY <1>0, <1>13, SendToRelaySteps DEF sockets, settings, CallMoved, CallEnded
  <2>2. Continues(t)
    BY <1>0, <1>13, SendToRelaySteps, MovesContinue DEF Pcs
  <2>q. QED
    BY <1>0, <2>1, <2>2, CallContinues, KindKept, StackKept DEF StackFits
<1>14. ASSUME NEW t \in Threads, HostSends(t) PROVE StackFits' /\ KindFits'
  <2>1. OnlyCall(t) /\ UNCHANGED <<kind, stack, habits, table>>
    BY <1>0, <1>14, HostSendsSteps DEF sockets, settings, CallMoved, CallEnded
  <2>2. Continues(t)
    BY <1>0, <1>14, HostSendsSteps, MovesContinue DEF Pcs
  <2>q. QED
    BY <1>0, <2>1, <2>2, CallContinues, KindKept, StackKept DEF StackFits
<1>15. ASSUME NEW a \in Agents, Read(a) PROVE StackFits' /\ KindFits'
  <2>1. /\ call[a].pc \in {"read", "unwrap", "hostReceive"} /\ UNCHANGED <<kind, stack, habits, table>>
        /\ \E result \in {"ok", "header", "failed"} : Returns(a, result)
    BY <1>0, <1>15, ReadSteps, TakenReturns DEF DatagramTaken, settings
  <2>2. OnlyCall(a) /\ (a \in Threads => Continues(a))
    BY <1>0, <2>1, ReturnFits DEF CallEnded, Continues
  <2>q. QED
    BY <1>0, <2>1, <2>2, CallContinues, KindKept, StackKept DEF StackFits
<1>16. ASSUME NEW t \in Threads, FindAssociation(t) PROVE StackFits' /\ KindFits'
  <2>1. OnlyCall(t) /\ UNCHANGED <<kind, stack, habits, table>>
    BY <1>0, <1>16, FindAssociationSteps DEF sockets, settings, CallMoved, CallEnded
  <2>2. Continues(t)
    BY <1>0, <1>16, FindAssociationSteps, MovesContinue DEF Pcs
  <2>q. QED
    BY <1>0, <2>1, <2>2, CallContinues, KindKept, StackKept DEF StackFits
<1>17. ASSUME NEW t \in Threads, Unwrap(t) PROVE StackFits' /\ KindFits'
  <2>1. /\ call[t].pc \in {"read", "unwrap", "hostReceive"} /\ UNCHANGED <<kind, stack, habits, table>>
        /\ \E result \in {"ok", "header", "failed"} : Returns(t, result)
    BY <1>0, <1>17, UnwrapSteps, TakenReturns DEF DatagramTaken, settings
  <2>2. OnlyCall(t) /\ (t \in Threads => Continues(t))
    BY <1>0, <2>1, ReturnFits DEF CallEnded, Continues
  <2>q. QED
    BY <1>0, <2>1, <2>2, CallContinues, KindKept, StackKept DEF StackFits
<1>18. ASSUME NEW t \in Threads, HostReceives(t) PROVE StackFits' /\ KindFits'
  <2>1. /\ call[t].pc \in {"read", "unwrap", "hostReceive"} /\ UNCHANGED <<kind, stack, habits, table>>
        /\ \E result \in {"ok", "header", "failed"} : Returns(t, result)
    BY <1>0, <1>18, HostReceivesSteps, TakenReturns DEF DatagramTaken, settings
  <2>2. OnlyCall(t) /\ (t \in Threads => Continues(t))
    BY <1>0, <2>1, ReturnFits DEF CallEnded, Continues
  <2>q. QED
    BY <1>0, <2>1, <2>2, CallContinues, KindKept, StackKept DEF StackFits
<1>19. ASSUME NEW t \in Threads, QueueReceive(t) PROVE StackFits' /\ KindFits'
  <2>1. OnlyCall(t) /\ UNCHANGED <<kind, stack, habits, table>>
    BY <1>0, <1>19, QueueReceiveSteps DEF sockets, settings, CallMoved, CallEnded
  <2>2. Continues(t)
    BY <1>0, <1>19, QueueReceiveSteps, MovesContinue DEF Pcs, Continues
  <2>q. QED
    BY <1>0, <2>1, <2>2, CallContinues, KindKept, StackKept DEF StackFits
<1>20. ASSUME NEW t \in Threads, ReleaseState(t) PROVE StackFits' /\ KindFits'
  <2>1. /\ CallMoved(t, "closeSocket") /\ UNCHANGED <<kind, stack, habits>> /\ call[t].pc = "forget"
        /\ call[t].h \in Handles /\ EntrySays(call[t].h, "unknown", NoControl, NoPeer)
    BY <1>0, <1>20, ReleaseStateSteps DEF sockets, settings
  <2>2. \A u \in Threads : u # t => call'[u] = call[u]
    BY <1>0, <2>1 DEF OnlyCall, CallMoved
  <2>3. StackFits'
    BY <1>0, <2>1, <2>2 DEF StackFits, CallMoved
  <2>4. ASSUME "race" \notin habits PROVE KindFits'
    <3>1. \A h \in Handles : /\ table'[h].kind \in {"unknown", kind'[h]}
                             /\ kind'[h] = "none" => table'[h].peer = NoPeer
      BY <1>0, <2>1, <2>4 DEF KindFits, EntrySays
    <3>2. \A u \in Threads : call'[u].pc = "closeSocket" =>
             table'[call'[u].h].kind = "unknown" /\ table'[call'[u].h].peer = NoPeer
      BY <1>0, <2>1, <2>2, <2>4 DEF KindFits, EntrySays, CallMoved, SameCall, CallFits
    <3>q. QED
      BY <1>0, <2>1, <2>2, <2>4, <3>1, <3>2 DEF KindFits, CallMoved, SameCall
  <2>q. QED
    BY <2>1, <2>3, <2>4 DEF KindFits
<1>21. ASSUME NEW t \in Threads, CloseSocket(t) PROVE StackFits' /\ KindFits'
  <2>1. /\ CallEnded(t) /\ UNCHANGED <<habits, table>> /\ call[t].pc = "closeSocket"
        /\ call[t].h \in Handles /\ kind' = [kind EXCEPT ![call[t].h] = "none"]
        /\ StackSays(call[t].h, "none", NoPeer)
    BY <1>0, <1>21, CloseSocketSteps DEF settings
  <2>2. \A u \in Threads : u # t => call'[u] = call[u]
    BY <1>0, <2>1 DEF OnlyCall, CallEnded
  <2>3. /\ kind'[call[t].h] = "none"
        /\ \A h \in Handles : h # call[t].h => kind'[h] = kind[h]
    BY <1>0, <2>1 DEF TypeOK
  <2>4. StackFits'
    BY <1>0, <2>1, <2>2, <2>3 DEF StackFits, StackSays, CallEnded
  <2>5. ASSUME "race" \notin habits PROVE KindFits'
    <3>1. call[t].op = "closesocket"
      BY <1>0, <2>1 DEF CallFits
    <3>2. \A u \in Threads : u # t => call[u].h # call[t].h
      BY <1>0, <2>5, <3>1 DEF KindFits
    <3>3. \A u \in Threads : u # t /\ call[u].pc # "idle" => kind'[call[u].h] = kind[call[u].h]
      BY <1>0, <2>1, <3>2
    <3>4. \A h \in Handles : /\ table'[h].kind \in {"unknown", kind'[h]}
                             /\ kind'[h] = "none" => table'[h].peer = NoPeer
      BY <1>0, <2>1, <2>3, <2>5 DEF KindFits
    <3>5. \A u, v \in Threads : call'[u].op = "closesocket" /\ call'[v].h = call'[u].h => v = u
      BY <1>0, <2>1, <2>2, <2>5, ProxyAgents DEF KindFits, CallEnded, CallFits
    <3>6. /\ \A u \in Threads : call'[u].pc # "idle" => kind'[call'[u].h] # "none"
          /\ \A u \in Threads : call'[u].pc = "keepKind" => call'[u].seen = kind'[call'[u].h]
      BY <1>0, <2>1, <2>2, <2>5, <3>3 DEF KindFits, CallEnded
    <3>7. \A u \in Threads : call'[u].pc = "closeSocket" =>
             table'[call'[u].h].kind = "unknown" /\ table'[call'[u].h].peer = NoPeer
      BY <1>0, <2>1, <2>2, <2>5 DEF KindFits, CallEnded
    <3>q. QED
      BY <3>4, <3>5, <3>6, <3>7 DEF KindFits
  <2>q. QED
    BY <2>1, <2>4, <2>5 DEF KindFits
<1>22. ASSUME WorkerTakes PROVE StackFits' /\ KindFits'
  <2>1. OnlyCall(Worker) /\ UNCHANGED <<kind, stack, habits, table>>
    BY <1>0, <1>22, WorkerTakesSteps DEF CallMoved, sockets, settings
  <2>q. QED
    BY <1>0, <2>1, CallContinues, KindKept, StackKept, ProxyAgents DEF StackFits
<1>23. ASSUME WorkerSelects PROVE StackFits' /\ KindFits'
  <2>1. OnlyCall(Worker) /\ UNCHANGED <<kind, stack, habits, table>>
    BY <1>0, <1>23, WorkerSelectsSteps DEF CallMoved, sockets, settings
  <2>q. QED
    BY <1>0, <2>1, CallContinues, KindKept, StackKept, ProxyAgents DEF StackFits
<1>24. ASSUME WorkerPutsBack PROVE StackFits' /\ KindFits'
  <2>1. UNCHANGED <<kind, stack, habits, table, call>>
    BY <1>24, WorkerPutsBackSteps DEF sockets, settings
  <2>q. QED
    BY <1>0, <2>1, SameContinues, KindKept, StackKept DEF StackFits
<1>25. ASSUME WorkerReceives PROVE StackFits' /\ KindFits'
  <2>1. batch # << >>
    BY <1>25 DEF WorkerReceives
  <2>2. OnlyCall(Worker) /\ UNCHANGED <<kind, stack, habits, table>>
    BY <1>0, <1>25, <2>1, CallTypes, BatchServed, WorkBegins DEF sockets, settings
  <2>q. QED
    BY <1>0, <2>2, CallContinues, KindKept, StackKept, ProxyAgents DEF StackFits
<1>26. ASSUME NEW r \in Receives, DeadlinePasses(r) PROVE StackFits' /\ KindFits'
  <2>1. UNCHANGED <<kind, stack, habits, table, call>>
    BY <1>26 DEF DeadlinePasses, sockets, settings
  <2>q. QED
    BY <1>0, <2>1, SameContinues, KindKept, StackKept DEF StackFits
<1>27. ASSUME NEW h \in Handles, DatagramArrives(h) PROVE StackFits' /\ KindFits'
  <2>1. UNCHANGED <<kind, stack, habits, table, call>>
    BY <1>27 DEF DatagramArrives, sockets, settings
  <2>q. QED
    BY <1>0, <2>1, SameContinues, KindKept, StackKept DEF StackFits
<1>28. ASSUME UNCHANGED vars PROVE StackFits' /\ KindFits'
    BY <1>0, <1>28, SameContinues, KindKept, StackKept DEF vars, sockets, settings, StackFits
<1>q. QED
    BY <1>1, <1>2, <1>3, <1>4, <1>5, <1>6, <1>7, <1>8, <1>9, <1>10, <1>11, <1>12, <1>13, <1>14, <1>15,
       <1>16, <1>17, <1>18, <1>19, <1>20, <1>21, <1>22, <1>23, <1>24, <1>25, <1>26, <1>27, <1>28,
       ProxySteps

LEMMA KindSafe ==
    /\ Init => KindInv
    /\ KindInv /\ [Next]_vars => KindInv'
<1>1. ASSUME Init PROVE KindInv
  <2>1. /\ \A h \in Handles : /\ kind[h] = "none" /\ stack[h].via = "none"
                             /\ table[h].kind = "unknown" /\ table[h].peer = NoPeer
        /\ \A t \in Threads : call[t].pc = "idle" /\ call[t].h = NoHandle /\ call[t].op = "none"
    BY <1>1, ProxyAgents DEF Init, NoEntry, Unconnected, Home
  <2>2. StackFits /\ KindFits
    BY <2>1 DEF StackFits, KindFits
  <2>q. QED
    BY <1>1, <2>2, CallInit DEF KindInv
<1>2. ASSUME KindInv, [Next]_vars PROVE KindInv'
    BY <1>2, CallNext, KindStep DEF KindInv
<1>q. QED
    BY <1>1, <1>2
-----------------------------------------------------------------------------
(* A socket which is carried is not connected to the host.                 *)

\* The call of a thread is at a place which suits the kind of its socket.
Suits(t) ==
    LET k == kind[call[t].h] IN
    /\ call[t].op = "WSAConnect" => k = "stream" \/ "datagram" \notin carried
    /\ call[t].op = "ConnectEx" => k = "stream"
    /\ call[t].op = "sendto" => k = "datagram"
    /\ call[t].pc = "hostConnect" => k \notin carried
    /\ call[t].pc = "hostSend" /\ k \in carried /\ k = "datagram" => call[t].op = "send"
    /\ "datagram" \in carried => call[t].result # "direct"

SocketsSuit ==
    \A h \in Handles : kind[h] \in carried /\ stack[h].via = "host" =>
        stack[h].to = Server /\ kind[h] = "stream"

LEMMA CarriedMeans ==
    /\ CarriedFits <=> ({"race", "wsaConnect"} \cap habits = {} =>
                           (\A t \in Threads : Suits(t)) /\ SocketsSuit)
    /\ CarriedFits' <=> ({"race", "wsaConnect"} \cap habits' = {} =>
                            (\A t \in Threads : Suits(t)') /\ SocketsSuit')
    BY DEF CarriedFits, Suits, SocketsSuit

\* A call which goes on or returns still suits its socket, unless it goes to the host or sent a
\* datagram directly.
StillSuits(t) ==
    \/ call'[t].op = "none" /\ call'[t].pc \in {"idle", "serve"} /\ call'[t].result # "direct"
    \/ /\ call'[t].op = call[t].op /\ call'[t].h = call[t].h /\ call'[t].result = call[t].result
       /\ call'[t].pc \in {"hostConnect", "hostSend"} => call'[t].pc = call[t].pc

LEMMA SuitsKept ==
    ASSUME CarriedInv, {"race", "wsaConnect"} \cap habits = {}, UNCHANGED <<kind, carried>>,
           NEW a \in Agents, OnlyCall(a) \/ UNCHANGED call, a \in Threads => StillSuits(a) \/ Suits(a)'
    PROVE  \A t \in Threads : Suits(t)'
<1>1. \A t \in Threads : Suits(t) /\ t \in Agents
    BY CarriedMeans, ProxyAgents DEF CarriedInv
<1>2. ASSUME NEW t \in Threads, call'[t] = call[t] PROVE Suits(t)'
    BY <1>1, <1>2 DEF Suits
<1>3. ASSUME NEW t \in Threads, StillSuits(t) PROVE Suits(t)'
    BY <1>1, <1>3 DEF Suits, StillSuits
<1>q. QED
    BY <1>1, <1>2, <1>3 DEF OnlyCall

\* Those are the ways in which a call still suits.
LEMMA MovesSuit ==
    ASSUME NEW t \in Threads
    PROVE  /\ \A pc \in Pcs \ {"hostConnect", "hostSend"} : CallMoved(t, pc) => StillSuits(t)
           /\ \A pc \in Pcs \ {"hostConnect", "hostSend"} : \A c : CallTook(t, pc, c) => StillSuits(t)
           /\ CallEnded(t) /\ call'[t].result # "direct" => StillSuits(t)
    BY DEF CallMoved, CallTook, CallEnded, SameCall, StillSuits

\* A call whose kind is looked up goes to the host only if that kind is not carried.
LEMMA KindSuits ==
    ASSUME CarriedInv, {"race", "wsaConnect"} \cap habits = {}, NEW t \in Threads, UNCHANGED <<kind, carried>>,
           call[t].op \in KindOps, call[t].h \in Handles, SameCall(t), call'[t].result = call[t].result,
           call'[t].pc = StepForKind(call[t].op, kind[call[t].h]), kind[call[t].h] # "none"
    PROVE  Suits(t)'
<1>1. Suits(t)
    BY CarriedMeans DEF CarriedInv
<1>2. kind[call[t].h] \in Kinds
    BY DEF CarriedInv, KindInv, CallInv, TypeOK
<1>3. call'[t].pc = "hostConnect" => kind[call[t].h] \notin carried
  <2> DEFINE k == kind[call[t].h]
  <2>1. CASE call[t].op = "connect" /\ k = "stream"
    BY <2>1, NextSteps
  <2>2. CASE call[t].op = "connect" /\ k = "datagram"
    BY <2>2, NextSteps
  <2>3. CASE call[t].op = "WSAConnect"
    BY <1>1, <1>2, <2>3, NextSteps DEF Kinds, Suits
  <2>4. CASE call[t].op \in {"send", "sendto", "recv", "WSARecv"}
    <3>1. /\ StepForKind("send", k) \in {"peer", "hostSend"}
          /\ StepForKind("sendto", k) \in {"associate", "hostSend"}
          /\ StepForKind("recv", k) \in {"associate", "hostReceive"}
          /\ StepForKind("WSARecv", k) \in {"queue", "hostReceive"}
      BY NextSteps
    <3> HIDE DEF k
    <3>2. CASE call[t].op = "send"
      BY <3>1, <3>2 DEF k
    <3>3. CASE call[t].op = "sendto"
      BY <3>1, <3>3 DEF k
    <3>4. CASE call[t].op = "recv"
      BY <3>1, <3>4 DEF k
    <3>5. CASE call[t].op = "WSARecv"
      BY <3>1, <3>5 DEF k
    <3>q. QED
      BY <2>4, <3>2, <3>3, <3>4, <3>5
  <2>q. QED
    BY <1>2, <2>1, <2>2, <2>3, <2>4 DEF KindOps, Kinds
<1>4. call'[t].pc = "hostSend" /\ kind[call[t].h] = "datagram" => call[t].op = "send"
    BY NextSteps DEF KindOps
<1>q. QED
    BY <1>1, <1>3, <1>4 DEF Suits, SameCall

\* What the layers and the habits say does not change.
LEMMA SettingsKept ==
    ASSUME [Next]_vars
    PROVE  UNCHANGED <<carried, blocking, habits>>
<1>1. ASSUME NEW h \in Handles, NEW k \in Kinds, OpenSocket(h, k) PROVE UNCHANGED settings
    BY <1>1 DEF OpenSocket
<1>2. ASSUME NEW t \in Threads, NEW op \in Ops, NEW h \in Handles, NEW p \in Targets \cup {NoPeer},
             Begin(t, op, h, p)
      PROVE  UNCHANGED settings
    BY <1>2 DEF Begin
<1>3. ASSUME NEW t \in Threads, AskKind(t) PROVE UNCHANGED settings
    BY <1>3 DEF AskKind
<1>4. ASSUME NEW t \in Threads, KeepKind(t) PROVE UNCHANGED settings
    BY <1>4 DEF KeepKind
<1>5. ASSUME NEW t \in Threads, Connect(t) PROVE UNCHANGED settings
    BY <1>5 DEF Connect
<1>6. ASSUME NEW t \in Threads, ServerAnswers(t) PROVE UNCHANGED settings
    BY <1>6 DEF ServerAnswers
<1>7. ASSUME NEW t \in Threads, KeepPeer(t) PROVE UNCHANGED settings
    BY <1>7 DEF KeepPeer
<1>8. ASSUME NEW t \in Threads, HostConnects(t) PROVE UNCHANGED settings
    BY <1>8 DEF HostConnects
<1>9. ASSUME NEW a \in Agents, Associate(a) PROVE UNCHANGED settings
    BY <1>9 DEF Associate
<1>10. ASSUME NEW a \in Agents, RelayAnswers(a) PROVE UNCHANGED settings
    BY <1>10 DEF RelayAnswers
<1>11. ASSUME NEW a \in Agents, KeepRelay(a) PROVE UNCHANGED settings
    BY <1>11 DEF KeepRelay
<1>12. ASSUME NEW t \in Threads, FindPeer(t) PROVE UNCHANGED settings
    BY <1>12 DEF FindPeer
<1>13. ASSUME NEW t \in Threads, SendToRelay(t) PROVE UNCHANGED settings
    BY <1>13 DEF SendToRelay
<1>14. ASSUME NEW t \in Threads, HostSends(t) PROVE UNCHANGED settings
    BY <1>14 DEF HostSends
<1>15. ASSUME NEW a \in Agents, Read(a) PROVE UNCHANGED settings
    BY <1>15 DEF Read
<1>16. ASSUME NEW t \in Threads, FindAssociation(t) PROVE UNCHANGED settings
    BY <1>16 DEF FindAssociation
<1>17. ASSUME NEW t \in Threads, Unwrap(t) PROVE UNCHANGED settings
    BY <1>17 DEF Unwrap
<1>18. ASSUME NEW t \in Threads, HostReceives(t) PROVE UNCHANGED settings
    BY <1>18 DEF HostReceives
<1>19. ASSUME NEW t \in Threads, QueueReceive(t) PROVE UNCHANGED settings
    BY <1>19 DEF QueueReceive
<1>20. ASSUME NEW t \in Threads, ReleaseState(t) PROVE UNCHANGED settings
    BY <1>20 DEF ReleaseState
<1>21. ASSUME NEW t \in Threads, CloseSocket(t) PROVE UNCHANGED settings
    BY <1>21 DEF CloseSocket
<1>22. ASSUME WorkerTakes PROVE UNCHANGED settings
    BY <1>22 DEF WorkerTakes
<1>23. ASSUME WorkerSelects PROVE UNCHANGED settings
    BY <1>23 DEF WorkerSelects
<1>24. ASSUME WorkerPutsBack PROVE UNCHANGED settings
    BY <1>24 DEF WorkerPutsBack
<1>25. ASSUME WorkerReceives PROVE UNCHANGED settings
    BY <1>25 DEF WorkerReceives
<1>26. ASSUME NEW r \in Receives, DeadlinePasses(r) PROVE UNCHANGED settings
    BY <1>26 DEF DeadlinePasses
<1>27. ASSUME NEW h \in Handles, DatagramArrives(h) PROVE UNCHANGED settings
    BY <1>27 DEF DatagramArrives
<1>28. ASSUME UNCHANGED vars PROVE UNCHANGED settings
    BY <1>28 DEF vars
<1>q. QED
    BY <1>1, <1>2, <1>3, <1>4, <1>5, <1>6, <1>7, <1>8, <1>9, <1>10, <1>11, <1>12, <1>13, <1>14, <1>15,
       <1>16, <1>17, <1>18, <1>19, <1>20, <1>21, <1>22, <1>23, <1>24, <1>25, <1>26, <1>27, <1>28,
       ProxySteps DEF settings

\* A read which returns still suits.
LEMMA ReturnSuits ==
    ASSUME CallInv, NEW t \in Threads, NEW result \in {"ok", "header", "failed"}, Returns(t, result)
    PROVE  StillSuits(t)
<1>1. CallEnded(t) /\ call'[t].result = IF result \in Results THEN result ELSE "none"
    BY CallSteps DEF CallInv
<1>q. QED
    BY <1>1, MovesSuit DEF Results

\* Every step keeps what is carried away from the host.
LEMMA CarriedStep ==
    ASSUME CarriedInv, [Next]_vars
    PROVE  CarriedFits'
<1> SUFFICES ASSUME {"race", "wsaConnect"} \cap habits = {}
             PROVE  (\A u \in Threads : Suits(u)') /\ SocketsSuit'
    BY SettingsKept, CarriedMeans
<1>0. /\ CarriedInv /\ KindInv /\ CallInv /\ TypeOK /\ StackFits /\ "race" \notin habits /\ KindFits
      /\ (\A u \in Threads : Suits(u)) /\ SocketsSuit /\ UNCHANGED <<carried, habits>>
      /\ (\A a \in Agents : CallFits(a)) /\ \A t \in Threads : t \in Agents /\ t # Worker
    BY SettingsKept, CarriedMeans, ProxyAgents DEF CarriedInv, KindInv, CallInv
<1>1. ASSUME NEW h \in Handles, NEW k \in Kinds, OpenSocket(h, k) PROVE (\A u \in Threads : Suits(u)') /\ SocketsSuit'
  <2>1. /\ UNCHANGED <<stack, call>> /\ kind[h] = "none" /\ kind' = [kind EXCEPT ![h] = k]
        /\ \A g \in Handles : g # h => kind'[g] = kind[g]
    BY <1>0, <1>1 DEF OpenSocket, TypeOK
  <2>2. \A u \in Threads : call[u].pc # "idle" => call[u].h # h /\ kind'[call[u].h] = kind[call[u].h]
    BY <1>0, <2>1 DEF KindFits, CallFits
  <2>3. \A u \in Threads : call[u].pc = "idle" => kind'[call[u].h] = kind[call[u].h]
    BY <1>0, <2>1, ProxyAgents DEF StackFits, TypeOK
  <2>4. \A u \in Threads : Suits(u)'
    BY <1>0, <2>1, <2>2, <2>3 DEF Suits
  <2>5. SocketsSuit'
    BY <1>0, <2>1 DEF SocketsSuit, StackFits
  <2>q. QED
    BY <2>4, <2>5
<1>2. ASSUME NEW t \in Threads, NEW op \in Ops, NEW h \in Handles, NEW p \in Targets \cup {NoPeer},
             Begin(t, op, h, p)
      PROVE  (\A u \in Threads : Suits(u)') /\ SocketsSuit'
  <2>1. /\ UNCHANGED <<kind, stack>> /\ call \in [Agents -> CallRecs] /\ Sensible(op, h)
    BY <1>0, <1>2, CallTypes DEF Begin, sockets
  <2>2. /\ OnlyCall(t) /\ call'[t].pc = FirstStep(op) /\ call'[t].op = op /\ call'[t].h = h
        /\ call'[t].result = "none"
    BY <1>2, <2>1, CallBegins
  <2>3. kind[h] \in Kinds
    BY <1>0, <2>1, SensibleMeans DEF TypeOK
  <2>4. /\ op = "WSAConnect" => kind[h] = "stream" \/ "datagram" \notin carried
        /\ op = "ConnectEx" => kind[h] = "stream"
        /\ op = "sendto" => kind[h] = "datagram"
    BY <1>0, <2>1, SensibleMeans
  <2>5. FirstStep(op) = "hostConnect" => kind[h] \notin carried
    BY <2>3, <2>4, FirstSteps DEF Ops, Kinds
  <2>6. FirstStep(op) = "hostSend" => "datagram" \notin carried
    BY FirstSteps DEF Ops
  <2>7. Suits(t)'
    BY <1>0, <2>1, <2>2, <2>4, <2>5, <2>6 DEF Suits
  <2>q. QED
    BY <1>0, <2>1, <2>2, <2>7, SuitsKept DEF SocketsSuit
<1>3. ASSUME NEW t \in Threads, AskKind(t) PROVE (\A u \in Threads : Suits(u)') /\ SocketsSuit'
  <2>1. /\ OnlyCall(t) /\ SameCall(t) /\ UNCHANGED <<kind, stack>> /\ call'[t].result = call[t].result
        /\ call[t].pc = "kind" /\ call[t].h \in Handles /\ call[t].op \in KindOps
    BY <1>0, <1>3, AskKindSteps DEF sockets
  <2>2. CASE call'[t].pc = "keepKind"
    BY <1>0, <2>1, <2>2, SuitsKept DEF SameCall, StillSuits, SocketsSuit
  <2>3. CASE /\ call'[t].pc = StepForKind(call[t].op, table[call[t].h].kind)
             /\ table[call[t].h].kind # "unknown" \/ kind[call[t].h] = "none"
    <3>1. kind[call[t].h] # "none" /\ table[call[t].h].kind = kind[call[t].h]
      BY <1>0, <2>1, <2>3 DEF KindFits
    <3>2. Suits(t)'
      BY <1>0, <2>1, <2>3, <3>1, KindSuits
    <3>q. QED
      BY <1>0, <2>1, <3>2, SuitsKept DEF SocketsSuit
  <2>q. QED
    BY <1>0, <1>3, <2>2, <2>3, AskKindSteps
<1>4. ASSUME NEW t \in Threads, KeepKind(t) PROVE (\A u \in Threads : Suits(u)') /\ SocketsSuit'
  <2>1. /\ OnlyCall(t) /\ SameCall(t) /\ UNCHANGED <<kind, stack>> /\ call'[t].result = call[t].result
        /\ call[t].pc = "keepKind" /\ call[t].h \in Handles /\ call[t].op \in KindOps
        /\ call'[t].pc = StepForKind(call[t].op, call[t].seen) /\ call[t].seen \in Kinds
    BY <1>0, <1>4, KeepKindSteps DEF sockets
  <2>2. call[t].seen = kind[call[t].h] /\ kind[call[t].h] # "none"
    BY <1>0, <2>1 DEF KindFits
  <2>3. Suits(t)'
    BY <1>0, <2>1, <2>2, KindSuits
  <2>q. QED
    BY <1>0, <2>1, <2>3, SuitsKept DEF SocketsSuit
<1>5. ASSUME NEW t \in Threads, Connect(t) PROVE (\A u \in Threads : Suits(u)') /\ SocketsSuit'
  <2>1. OnlyCall(t) /\ UNCHANGED <<kind>>
    BY <1>0, <1>5, ConnectSteps DEF sockets, CallMoved, CallEnded
  <2>2. StillSuits(t)
    BY <1>0, <1>5, ConnectSteps, MovesSuit DEF Pcs
  <2>3. SocketsSuit'
    BY <1>0, <1>5, <2>1, ConnectSteps DEF StackSays, SocketsSuit
  <2>q. QED
    BY <1>0, <2>1, <2>2, <2>3, SuitsKept
<1>6. ASSUME NEW t \in Threads, ServerAnswers(t) PROVE (\A u \in Threads : Suits(u)') /\ SocketsSuit'
  <2>1. OnlyCall(t) /\ UNCHANGED <<kind>>
    BY <1>0, <1>6, ServerAnswersSteps DEF sockets, CallMoved, CallEnded
  <2>2. StillSuits(t)
    BY <1>0, <1>6, ServerAnswersSteps, MovesSuit DEF Pcs
  <2>3. SocketsSuit'
    BY <1>0, <1>6, <2>1, ServerAnswersSteps DEF StackSays, SocketsSuit
  <2>q. QED
    BY <1>0, <2>1, <2>2, <2>3, SuitsKept
<1>7. ASSUME NEW t \in Threads, KeepPeer(t) PROVE (\A u \in Threads : Suits(u)') /\ SocketsSuit'
  <2>1. OnlyCall(t) /\ UNCHANGED <<kind, stack>>
    BY <1>0, <1>7, KeepPeerSteps DEF sockets, CallMoved, CallEnded
  <2>2. StillSuits(t)
    BY <1>0, <1>7, KeepPeerSteps, MovesSuit DEF Pcs
  <2>q. QED
    BY <1>0, <2>1, <2>2, SuitsKept DEF SocketsSuit
<1>8. ASSUME NEW t \in Threads, HostConnects(t) PROVE (\A u \in Threads : Suits(u)') /\ SocketsSuit'
  <2>1. OnlyCall(t) /\ UNCHANGED <<kind>> /\ call[t].pc = "hostConnect" /\ call[t].h \in Handles
    BY <1>0, <1>8, HostConnectsSteps DEF CallEnded
  <2>2. StillSuits(t)
    BY <1>0, <1>8, HostConnectsSteps, MovesSuit
  <2>3. kind[call[t].h] \notin carried
    BY <1>0, <2>1 DEF Suits
  <2>4. SocketsSuit'
    BY <1>0, <1>8, <2>1, <2>3, HostConnectsSteps DEF StackSays, SocketsSuit
  <2>q. QED
    BY <1>0, <2>1, <2>2, <2>4, SuitsKept
<1>9. ASSUME NEW a \in Agents, Associate(a) PROVE (\A u \in Threads : Suits(u)') /\ SocketsSuit'
  <2>1. OnlyCall(a) /\ UNCHANGED <<kind, stack>>
    BY <1>0, <1>9, AssociateSteps, ReturnFits DEF sockets, CallTook
  <2>2. a \in Threads => StillSuits(a)
    BY <1>0, <1>9, AssociateSteps, ReturnSuits, MovesSuit DEF Pcs
  <2>q. QED
    BY <1>0, <2>1, <2>2, SuitsKept DEF SocketsSuit
<1>10. ASSUME NEW a \in Agents, RelayAnswers(a) PROVE (\A u \in Threads : Suits(u)') /\ SocketsSuit'
  <2>1. OnlyCall(a) /\ UNCHANGED <<kind, stack>>
    BY <1>0, <1>10, RelayAnswersSteps, ReturnFits DEF sockets, CallMoved
  <2>2. a \in Threads => StillSuits(a)
    BY <1>0, <1>10, RelayAnswersSteps, ReturnSuits, MovesSuit DEF Pcs
  <2>q. QED
    BY <1>0, <2>1, <2>2, SuitsKept DEF SocketsSuit
<1>11. ASSUME NEW a \in Agents, KeepRelay(a) PROVE (\A u \in Threads : Suits(u)') /\ SocketsSuit'
  <2>1. OnlyCall(a) /\ UNCHANGED <<kind, stack>>
    BY <1>0, <1>11, KeepRelaySteps, ReturnFits DEF sockets, CallTook
  <2>2. a \in Threads => StillSuits(a)
    BY <1>0, <1>11, KeepRelaySteps, ReturnSuits, MovesSuit DEF Pcs
  <2>q. QED
    BY <1>0, <2>1, <2>2, SuitsKept DEF SocketsSuit
<1>12. ASSUME NEW t \in Threads, FindPeer(t) PROVE (\A u \in Threads : Suits(u)') /\ SocketsSuit'
  <2>1. OnlyCall(t) /\ UNCHANGED <<kind, stack>> /\ call[t].op = "send"
    BY <1>0, <1>12, FindPeerSteps DEF sockets, CallMoved
  <2>2. Suits(t)'
    BY <1>0, <1>12, <2>1, FindPeerSteps DEF Suits, CallMoved, SameCall
  <2>q. QED
    BY <1>0, <2>1, <2>2, SuitsKept DEF SocketsSuit
<1>13. ASSUME NEW t \in Threads, SendToRelay(t) PROVE (\A u \in Threads : Suits(u)') /\ SocketsSuit'
  <2>1. OnlyCall(t) /\ UNCHANGED <<kind, stack>>
    BY <1>0, <1>13, SendToRelaySteps DEF sockets, CallMoved, CallEnded
  <2>2. StillSuits(t)
    BY <1>0, <1>13, SendToRelaySteps, MovesSuit DEF Pcs
  <2>q. QED
    BY <1>0, <2>1, <2>2, SuitsKept DEF SocketsSuit
<1>14. ASSUME NEW t \in Threads, HostSends(t) PROVE (\A u \in Threads : Suits(u)') /\ SocketsSuit'
  <2>1. /\ CallEnded(t) /\ UNCHANGED <<kind, stack>> /\ call[t].h \in Handles /\ call[t].pc = "hostSend"
        /\ call'[t].result = "direct" =>
             kind[call[t].h] = "datagram" /\ (call[t].op = "sendto" \/ stack[call[t].h].via = "host")
    BY <1>0, <1>14, HostSendsSteps DEF sockets
  <2>2. "datagram" \in carried => call'[t].result # "direct"
    BY <1>0, <2>1 DEF Suits, SocketsSuit
  <2>3. Suits(t)'
    BY <1>0, <2>1, <2>2 DEF Suits, CallEnded
  <2>q. QED
    BY <1>0, <2>1, <2>3, SuitsKept DEF SocketsSuit, CallEnded
<1>15. ASSUME NEW a \in Agents, Read(a) PROVE (\A u \in Threads : Suits(u)') /\ SocketsSuit'
  <2>1. /\ UNCHANGED <<kind, stack>>
        /\ \E result \in {"ok", "header", "failed"} : Returns(a, result)
    BY <1>0, <1>15, ReadSteps, TakenReturns DEF DatagramTaken
  <2>2. OnlyCall(a) /\ (a \in Threads => StillSuits(a))
    BY <1>0, <2>1, ReturnSuits, ReturnFits
  <2>q. QED
    BY <1>0, <2>1, <2>2, SuitsKept DEF SocketsSuit
<1>16. ASSUME NEW t \in Threads, FindAssociation(t) PROVE (\A u \in Threads : Suits(u)') /\ SocketsSuit'
  <2>1. OnlyCall(t) /\ UNCHANGED <<kind, stack>>
    BY <1>0, <1>16, FindAssociationSteps DEF sockets, CallMoved, CallEnded
  <2>2. StillSuits(t)
    BY <1>0, <1>16, FindAssociationSteps, MovesSuit DEF Pcs
  <2>q. QED
    BY <1>0, <2>1, <2>2, SuitsKept DEF SocketsSuit
<1>17. ASSUME NEW t \in Threads, Unwrap(t) PROVE (\A u \in Threads : Suits(u)') /\ SocketsSuit'
  <2>1. /\ UNCHANGED <<kind, stack>>
        /\ \E result \in {"ok", "header", "failed"} : Returns(t, result)
    BY <1>0, <1>17, UnwrapSteps, TakenReturns DEF DatagramTaken
  <2>2. OnlyCall(t) /\ (t \in Threads => StillSuits(t))
    BY <1>0, <2>1, ReturnSuits, ReturnFits
  <2>q. QED
    BY <1>0, <2>1, <2>2, SuitsKept DEF SocketsSuit
<1>18. ASSUME NEW t \in Threads, HostReceives(t) PROVE (\A u \in Threads : Suits(u)') /\ SocketsSuit'
  <2>1. /\ UNCHANGED <<kind, stack>>
        /\ \E result \in {"ok", "header", "failed"} : Returns(t, result)
    BY <1>0, <1>18, HostReceivesSteps, TakenReturns DEF DatagramTaken
  <2>2. OnlyCall(t) /\ (t \in Threads => StillSuits(t))
    BY <1>0, <2>1, ReturnSuits, ReturnFits
  <2>q. QED
    BY <1>0, <2>1, <2>2, SuitsKept DEF SocketsSuit
<1>19. ASSUME NEW t \in Threads, QueueReceive(t) PROVE (\A u \in Threads : Suits(u)') /\ SocketsSuit'
  <2>1. OnlyCall(t) /\ UNCHANGED <<kind, stack>>
    BY <1>0, <1>19, QueueReceiveSteps DEF sockets, CallMoved, CallEnded
  <2>2. StillSuits(t)
    BY <1>0, <1>19, QueueReceiveSteps, MovesSuit DEF Pcs, StillSuits
  <2>q. QED
    BY <1>0, <2>1, <2>2, SuitsKept DEF SocketsSuit
<1>20. ASSUME NEW t \in Threads, ReleaseState(t) PROVE (\A u \in Threads : Suits(u)') /\ SocketsSuit'
  <2>1. OnlyCall(t) /\ UNCHANGED <<kind, stack>>
    BY <1>0, <1>20, ReleaseStateSteps DEF sockets, CallMoved, CallEnded
  <2>2. StillSuits(t)
    BY <1>0, <1>20, ReleaseStateSteps, MovesSuit DEF Pcs
  <2>q. QED
    BY <1>0, <2>1, <2>2, SuitsKept DEF SocketsSuit
<1>21. ASSUME NEW t \in Threads, CloseSocket(t) PROVE (\A u \in Threads : Suits(u)') /\ SocketsSuit'
  <2>1. /\ CallEnded(t) /\ call'[t].result = "none" /\ call[t].pc = "closeSocket"
        /\ call[t].h \in Handles /\ kind' = [kind EXCEPT ![call[t].h] = "none"]
        /\ StackSays(call[t].h, "none", NoPeer)
    BY <1>0, <1>21, CloseSocketSteps
  <2>2. \A u \in Threads : u # t => call'[u] = call[u]
    BY <1>0, <2>1 DEF OnlyCall, CallEnded
  <2>3. \A h \in Handles : h # call[t].h => kind'[h] = kind[h] /\ stack'[h] = stack[h]
    BY <1>0, <2>1 DEF StackSays, TypeOK
  <2>4. call[t].op = "closesocket"
    BY <1>0, <2>1 DEF CallFits
  <2>5. \A u \in Threads : u # t => call[u].h # call[t].h
    BY <1>0, <2>4 DEF KindFits
  <2>6. \A u \in Threads : u # t => kind'[call[u].h] = kind[call[u].h]
    BY <1>0, <2>1, <2>5, CallTypes DEF TypeOK
  <2>7. \A u \in Threads : u # t => Suits(u)'
    BY <1>0, <2>2, <2>6 DEF Suits
  <2>8. Suits(t)'
    BY <1>0, <2>1 DEF Suits, CallEnded
  <2>9. SocketsSuit'
    BY <1>0, <2>1, <2>3 DEF SocketsSuit, StackSays
  <2>q. QED
    BY <2>7, <2>8, <2>9
<1>22. ASSUME WorkerTakes PROVE (\A u \in Threads : Suits(u)') /\ SocketsSuit'
  <2>1. OnlyCall(Worker) /\ UNCHANGED <<kind, stack>>
    BY <1>0, <1>22, WorkerTakesSteps DEF CallMoved, sockets
  <2>q. QED
    BY <1>0, <2>1, SuitsKept, ProxyAgents DEF SocketsSuit
<1>23. ASSUME WorkerSelects PROVE (\A u \in Threads : Suits(u)') /\ SocketsSuit'
  <2>1. OnlyCall(Worker) /\ UNCHANGED <<kind, stack>>
    BY <1>0, <1>23, WorkerSelectsSteps DEF CallMoved, sockets
  <2>q. QED
    BY <1>0, <2>1, SuitsKept, ProxyAgents DEF SocketsSuit
<1>24. ASSUME WorkerPutsBack PROVE (\A u \in Threads : Suits(u)') /\ SocketsSuit'
  <2>1. UNCHANGED <<kind, stack, call>>
    BY <1>24, WorkerPutsBackSteps DEF sockets
  <2>q. QED
    BY <1>0, <2>1 DEF Suits, SocketsSuit
<1>25. ASSUME WorkerReceives PROVE (\A u \in Threads : Suits(u)') /\ SocketsSuit'
  <2>1. batch # << >>
    BY <1>25 DEF WorkerReceives
  <2>2. OnlyCall(Worker) /\ UNCHANGED <<kind, stack>>
    BY <1>0, <1>25, <2>1, CallTypes, BatchServed, WorkBegins DEF sockets
  <2>q. QED
    BY <1>0, <2>2, SuitsKept, ProxyAgents DEF SocketsSuit
<1>26. ASSUME NEW r \in Receives, DeadlinePasses(r) PROVE (\A u \in Threads : Suits(u)') /\ SocketsSuit'
  <2>1. UNCHANGED <<kind, stack, call>>
    BY <1>26 DEF DeadlinePasses, sockets
  <2>q. QED
    BY <1>0, <2>1 DEF Suits, SocketsSuit
<1>27. ASSUME NEW h \in Handles, DatagramArrives(h) PROVE (\A u \in Threads : Suits(u)') /\ SocketsSuit'
  <2>1. UNCHANGED <<kind, stack, call>>
    BY <1>27 DEF DatagramArrives, sockets
  <2>q. QED
    BY <1>0, <2>1 DEF Suits, SocketsSuit
<1>28. ASSUME UNCHANGED vars PROVE (\A u \in Threads : Suits(u)') /\ SocketsSuit'
    BY <1>0, <1>28 DEF vars, sockets, Suits, SocketsSuit
<1>q. QED
    BY <1>1, <1>2, <1>3, <1>4, <1>5, <1>6, <1>7, <1>8, <1>9, <1>10, <1>11, <1>12, <1>13, <1>14, <1>15,
       <1>16, <1>17, <1>18, <1>19, <1>20, <1>21, <1>22, <1>23, <1>24, <1>25, <1>26, <1>27, <1>28,
       ProxySteps

\* What the proxy carries never reaches the host directly, whichever way an application goes:
\* for an application which does not use a socket while another thread closes it, and does not
\* connect a datagram socket by WSAConnect.
THEOREM CarriedIsNeverDirect ==
    ASSUME \A s \in Scenarios : {"race", "wsaConnect"} \cap s.habits = {}
    PROVE  Spec => []CarriedNeverDirect
<1> DEFINE I == CarriedInv /\ {"race", "wsaConnect"} \cap habits = {}
<1>1. Init => I
  <2> SUFFICES ASSUME Init PROVE I
    OBVIOUS
  <2>1. KindInv /\ {"race", "wsaConnect"} \cap habits = {}
    BY KindSafe DEF Init
  <2>2. \A t \in Threads : call[t].pc = "idle" /\ call[t].op = "none" /\ call[t].result = "none"
    BY ProxyAgents DEF Init, Home
  <2>3. \A h \in Handles : stack[h].via = "none"
    BY DEF Init, Unconnected
  <2>q. QED
    BY <2>1, <2>2, <2>3, CarriedMeans DEF CarriedInv, Suits, SocketsSuit
<1>2. I /\ [Next]_vars => I'
    BY KindSafe, CarriedStep, SettingsKept DEF CarriedInv
<1>3. I => CarriedNeverDirect
    BY CarriedMeans DEF CarriedInv, Suits, SocketsSuit, CarriedNeverDirect
<1>q. QED
    BY <1>1, <1>2, <1>3, PTL DEF Spec
-----------------------------------------------------------------------------
(* The peer of a stream is the one it is connected to.                     *)

Reaches(h, p) == stack[h].to = p /\ stack[h].via \in {"tunnel", "host"}

Remembers(h) == kind[h] = "stream" /\ table[h].peer # NoPeer => Reaches(h, table[h].peer)
Reports(t) == call[t].pc = "keepPeer" /\ kind[call[t].h] = "stream" => Reaches(call[t].h, call[t].to)

PeersReached == (\A h \in Handles : Remembers(h)) /\ (\A t \in Threads : Reports(t))

LEMMA PeerMeans ==
    /\ PeerFits <=> ("race" \notin habits => PeersReached)
    /\ PeerFits' <=> ("race" \notin habits' => PeersReached')
    BY DEF PeerFits, PeersReached, Remembers, Reports, Reaches

\* A step of another kind of call leaves the peers as they are.
LEMMA PeersKept ==
    ASSUME PeersReached, UNCHANGED <<kind, stack>>, \A h \in Handles : table'[h].peer = table[h].peer,
           NEW a \in Agents, OnlyCall(a) \/ UNCHANGED call, a \in Threads => Reports(a)'
    PROVE  PeersReached'
<1>1. \A h \in Handles : Remembers(h)'
    BY DEF PeersReached, Remembers, Reaches
<1>2. ASSUME NEW t \in Threads, t # a \/ UNCHANGED call PROVE Reports(t)'
  <2>1. call'[t] = call[t]
    BY <1>2, ProxyAgents DEF OnlyCall
  <2>q. QED
    BY <2>1 DEF PeersReached, Reports, Reaches
<1>q. QED
    BY <1>1, <1>2 DEF PeersReached

\* A socket which is not connected is connected: nobody believed in its peer before.
LEMMA PeersAnew ==
    ASSUME PeersReached, UNCHANGED <<kind, table>>, NEW t \in Threads, OnlyCall(t), Reports(t)',
           call[t].h \in Handles, stack[call[t].h].via \in {"none", "server"},
           NEW via, NEW to, StackSays(call[t].h, via, to), \A u \in Threads : CallFits(u)
    PROVE  PeersReached'
<1>1. ASSUME NEW h \in Handles PROVE Remembers(h)'
  <2>1. CASE h = call[t].h
    BY <2>1 DEF PeersReached, Remembers, Reaches
  <2>2. CASE h # call[t].h
    BY <2>2 DEF PeersReached, Remembers, Reaches, StackSays
  <2>q. QED
    BY <2>1, <2>2
<1>2. ASSUME NEW u \in Threads, u # t PROVE Reports(u)'
  <2>1. call'[u] = call[u] /\ Reports(u) /\ (call[u].pc = "keepPeer" => call[u].h \in Handles)
    BY <1>2, ProxyAgents DEF OnlyCall, PeersReached, CallFits
  <2>2. CASE call[u].h = call[t].h
    BY <2>1, <2>2 DEF Reports, Reaches
  <2>3. CASE call[u].h # call[t].h
    BY <2>1, <2>3 DEF Reports, Reaches, StackSays
  <2>q. QED
    BY <2>2, <2>3
<1>q. QED
    BY <1>1, <1>2 DEF PeersReached

\* The kind of a stream sends no call to the place where an address is kept unasked.
LEMMA StreamsAreAsked ==
    ASSUME NEW op \in KindOps
    PROVE  StepForKind(op, "stream") # "keepPeer"
<1>1. CASE op = "connect"
    BY <1>1, NextSteps
<1>2. CASE op = "WSAConnect"
    BY <1>2, NextSteps
<1>3. CASE op = "send"
    BY <1>3, NextSteps
<1>4. CASE op = "sendto"
    BY <1>4, NextSteps
<1>5. CASE op = "recv"
    BY <1>5, NextSteps
<1>6. CASE op = "WSARecv"
    BY <1>6, NextSteps
<1>q. QED
    BY <1>1, <1>2, <1>3, <1>4, <1>5, <1>6 DEF KindOps

\* Every step keeps the peers of the streams.
LEMMA PeerStep ==
    ASSUME PeerInv, [Next]_vars
    PROVE  PeerFits'
<1> SUFFICES ASSUME "race" \notin habits PROVE PeersReached'
    BY SettingsKept, PeerMeans
<1>0. /\ PeerInv /\ KindInv /\ CallInv /\ TypeOK /\ StackFits /\ KindFits /\ PeersReached
      /\ (\A a \in Agents : CallFits(a)) /\ (\A u \in Threads : CallFits(u))
      /\ \A t \in Threads : t \in Agents /\ t # Worker
    BY PeerMeans, ProxyAgents DEF PeerInv, KindInv, CallInv
<1>1. ASSUME NEW h \in Handles, NEW k \in Kinds, OpenSocket(h, k) PROVE PeersReached'
  <2>1. /\ UNCHANGED <<stack, table, call>> /\ kind[h] = "none" /\ kind' = [kind EXCEPT ![h] = k]
        /\ \A g \in Handles : g # h => kind'[g] = kind[g]
    BY <1>0, <1>1 DEF OpenSocket, TypeOK
  <2>2. \A u \in Threads : call[u].pc # "idle" => call[u].h # h /\ kind'[call[u].h] = kind[call[u].h]
    BY <1>0, <2>1 DEF KindFits, CallFits
  <2>3. table[h].peer = NoPeer
    BY <1>0, <2>1 DEF KindFits
  <2>4. \A u \in Threads : Reports(u)'
    BY <1>0, <2>1, <2>2 DEF PeersReached, Reports, Reaches
  <2>5. \A g \in Handles : Remembers(g)'
    BY <1>0, <2>1, <2>3 DEF PeersReached, Remembers, Reaches
  <2>q. QED
    BY <2>4, <2>5 DEF PeersReached
<1>2. ASSUME NEW t \in Threads, NEW op \in Ops, NEW h \in Handles, NEW p \in Targets \cup {NoPeer},
             Begin(t, op, h, p)
      PROVE  PeersReached'
  <2>1. UNCHANGED <<kind, stack, table>> /\ call \in [Agents -> CallRecs]
    BY <1>0, <1>2, CallTypes DEF Begin, sockets
  <2>2. OnlyCall(t) /\ call'[t].pc = FirstStep(op)
    BY <1>2, <2>1, CallBegins
  <2>3. Reports(t)'
    BY <2>2, BeginsFit DEF Reports
  <2>q. QED
    BY <1>0, <2>1, <2>2, <2>3, PeersKept
<1>3. ASSUME NEW t \in Threads, AskKind(t) PROVE PeersReached'
  <2>1. /\ OnlyCall(t) /\ SameCall(t) /\ UNCHANGED <<kind, stack>> /\ call[t].h \in Handles
        /\ call[t].pc = "kind" /\ call[t].op \in KindOps
    BY <1>0, <1>3, AskKindSteps DEF sockets
  <2>2. UNCHANGED table
    BY <1>3 DEF AskKind
  <2>3. CASE call'[t].pc = "keepKind"
    BY <1>0, <2>1, <2>2, <2>3, PeersKept DEF Reports
  <2>4. CASE /\ call'[t].pc = StepForKind(call[t].op, table[call[t].h].kind)
             /\ table[call[t].h].kind # "unknown" \/ kind[call[t].h] = "none"
    <3>1. table[call[t].h].kind = kind[call[t].h]
      BY <1>0, <2>1, <2>4 DEF KindFits
    <3>2. Reports(t)'
      BY <2>1, <2>4, <3>1, StreamsAreAsked DEF Reports, SameCall
    <3>q. QED
      BY <1>0, <2>1, <2>2, <3>2, PeersKept
  <2>q. QED
    BY <1>0, <1>3, <2>3, <2>4, AskKindSteps
<1>4. ASSUME NEW t \in Threads, KeepKind(t) PROVE PeersReached'
  <2>1. /\ OnlyCall(t) /\ SameCall(t) /\ UNCHANGED <<kind, stack>> /\ call[t].h \in Handles
        /\ call[t].pc = "keepKind" /\ call[t].op \in KindOps
    BY <1>0, <1>4, KeepKindSteps DEF sockets
  <2>2. \A h \in Handles : table'[h].peer = table[h].peer
    BY <1>0, <1>4, KeepKindSteps DEF EntrySays
  <2>3. call'[t].pc = StepForKind(call[t].op, call[t].seen) /\ call[t].seen = kind[call[t].h]
    BY <1>0, <1>4, <2>1, KeepKindSteps DEF KindFits
  <2>4. Reports(t)'
    BY <2>1, <2>3, StreamsAreAsked DEF Reports, SameCall
  <2>q. QED
    BY <1>0, <2>1, <2>2, <2>4, PeersKept
<1>5. ASSUME NEW t \in Threads, Connect(t) PROVE PeersReached'
  <2>1. /\ OnlyCall(t) /\ UNCHANGED <<kind, table>> /\ call[t].h \in Handles
    BY <1>0, <1>5, ConnectSteps DEF CallMoved, CallEnded
  <2>2. CASE /\ stack[call[t].h] = Unconnected /\ call[t].to = Server
             /\ StackSays(call[t].h, "host", Server)
             /\ CallMoved(t, "keepPeer") \/ CallEnded(t)
    <3>1. Reports(t)'
      BY <2>1, <2>2 DEF Reports, Reaches, StackSays, CallMoved, CallEnded, SameCall
    <3>q. QED
      BY <1>0, <2>1, <2>2, <3>1, PeersAnew DEF Unconnected
  <2>3. CASE /\ stack[call[t].h] = Unconnected /\ StackSays(call[t].h, "server", NoPeer)
             /\ CallMoved(t, "handshake")
    BY <1>0, <2>1, <2>3, PeersAnew DEF Unconnected, Reports, CallMoved
  <2>4. CASE CallEnded(t) /\ UNCHANGED stack
    BY <1>0, <2>1, <2>4, PeersKept DEF Reports, CallEnded
  <2>q. QED
    BY <1>0, <1>5, <2>2, <2>3, <2>4, ConnectSteps
<1>6. ASSUME NEW t \in Threads, ServerAnswers(t) PROVE PeersReached'
  <2>1. /\ OnlyCall(t) /\ UNCHANGED <<kind, table>> /\ call[t].h \in Handles
    BY <1>0, <1>6, ServerAnswersSteps DEF CallMoved, CallEnded
  <2>2. CASE /\ stack[call[t].h].via = "server" /\ StackSays(call[t].h, "tunnel", call[t].to)
             /\ CallMoved(t, "keepPeer")
    <3>1. Reports(t)'
      BY <2>1, <2>2 DEF Reports, Reaches, StackSays, CallMoved, SameCall
    <3>q. QED
      BY <1>0, <2>1, <2>2, <3>1, PeersAnew
  <2>3. CASE CallEnded(t) /\ UNCHANGED stack
    BY <1>0, <2>1, <2>3, PeersKept DEF Reports, CallEnded
  <2>q. QED
    BY <1>0, <1>6, <2>2, <2>3, ServerAnswersSteps
<1>7. ASSUME NEW t \in Threads, KeepPeer(t) PROVE PeersReached'
  <2>1. /\ CallEnded(t) /\ OnlyCall(t) /\ UNCHANGED <<kind, stack>> /\ call[t].h \in Handles
        /\ call[t].pc = "keepPeer"
        /\ EntrySays(call[t].h, table[call[t].h].kind, table[call[t].h].control, call[t].to)
    BY <1>0, <1>7, KeepPeerSteps DEF CallEnded, sockets
  <2>2. \A u \in Threads : Reports(u)'
    BY <1>0, <2>1 DEF PeersReached, Reports, Reaches, OnlyCall, CallEnded
  <2>3. \A h \in Handles : Remembers(h)'
    BY <1>0, <2>1 DEF PeersReached, Reports, Remembers, Reaches, EntrySays
  <2>q. QED
    BY <2>2, <2>3 DEF PeersReached
<1>8. ASSUME NEW t \in Threads, HostConnects(t) PROVE PeersReached'
  <2>1. /\ CallEnded(t) /\ OnlyCall(t) /\ UNCHANGED <<kind, table>> /\ call[t].h \in Handles
    BY <1>0, <1>8, HostConnectsSteps DEF CallEnded
  <2>2. Reports(t)'
    BY <2>1 DEF Reports, CallEnded
  <2>3. CASE stack[call[t].h] = Unconnected /\ StackSays(call[t].h, "host", call[t].to)
    BY <1>0, <2>1, <2>2, <2>3, PeersAnew DEF Unconnected
  <2>4. CASE UNCHANGED stack
    BY <1>0, <2>1, <2>2, <2>4, PeersKept
  <2>q. QED
    BY <1>0, <1>8, <2>3, <2>4, HostConnectsSteps
<1>9. ASSUME NEW a \in Agents, Associate(a) PROVE PeersReached'
  <2>1. /\ OnlyCall(a) /\ UNCHANGED <<kind, stack>>
        /\ \A h \in Handles : table'[h].peer = table[h].peer
    BY <1>0, <1>9, AssociateSteps, ReturnFits DEF sockets, CallTook
  <2>2. a \in Threads => Reports(a)'
    BY <1>0, <1>9, AssociateSteps, ReturnFits DEF Reports, CallEnded, CallTook
  <2>q. QED
    BY <1>0, <2>1, <2>2, PeersKept
<1>10. ASSUME NEW a \in Agents, RelayAnswers(a) PROVE PeersReached'
  <2>1. /\ OnlyCall(a) /\ UNCHANGED <<kind, stack>>
        /\ \A h \in Handles : table'[h].peer = table[h].peer
    BY <1>0, <1>10, RelayAnswersSteps, ReturnFits DEF sockets, CallMoved
  <2>2. a \in Threads => Reports(a)'
    BY <1>0, <1>10, RelayAnswersSteps, ReturnFits DEF Reports, CallEnded, CallMoved
  <2>q. QED
    BY <1>0, <2>1, <2>2, PeersKept
<1>11. ASSUME NEW a \in Agents, KeepRelay(a) PROVE PeersReached'
  <2>1. /\ OnlyCall(a) /\ UNCHANGED <<kind, stack>>
        /\ \A h \in Handles : table'[h].peer = table[h].peer
    BY <1>0, <1>11, KeepRelaySteps, ReturnFits DEF sockets, CallTook, EntrySays
  <2>2. a \in Threads => Reports(a)'
    BY <1>0, <1>11, KeepRelaySteps, ReturnFits DEF Reports, CallEnded, CallTook, EntrySays
  <2>q. QED
    BY <1>0, <2>1, <2>2, PeersKept
<1>12. ASSUME NEW t \in Threads, FindPeer(t) PROVE PeersReached'
  <2>1. OnlyCall(t) /\ call'[t].pc # "keepPeer" /\ UNCHANGED <<kind, stack, table>>
    BY <1>0, <1>12, FindPeerSteps DEF sockets, CallMoved, CallEnded
  <2>q. QED
    BY <1>0, <2>1, PeersKept DEF Reports
<1>13. ASSUME NEW t \in Threads, SendToRelay(t) PROVE PeersReached'
  <2>1. OnlyCall(t) /\ call'[t].pc # "keepPeer" /\ UNCHANGED <<kind, stack, table>>
    BY <1>0, <1>13, SendToRelaySteps DEF sockets, CallMoved, CallEnded
  <2>q. QED
    BY <1>0, <2>1, PeersKept DEF Reports
<1>14. ASSUME NEW t \in Threads, HostSends(t) PROVE PeersReached'
  <2>1. OnlyCall(t) /\ call'[t].pc # "keepPeer" /\ UNCHANGED <<kind, stack, table>>
    BY <1>0, <1>14, HostSendsSteps DEF sockets, CallMoved, CallEnded
  <2>q. QED
    BY <1>0, <2>1, PeersKept DEF Reports
<1>15. ASSUME NEW a \in Agents, Read(a) PROVE PeersReached'
  <2>1. /\ UNCHANGED <<kind, stack, table>>
        /\ \E result \in {"ok", "header", "failed"} : Returns(a, result)
    BY <1>0, <1>15, ReadSteps, TakenReturns DEF DatagramTaken
  <2>2. OnlyCall(a) /\ (a \in Threads => Reports(a)')
    BY <1>0, <2>1, ReturnFits DEF CallEnded, Reports
  <2>q. QED
    BY <1>0, <2>1, <2>2, PeersKept
<1>16. ASSUME NEW t \in Threads, FindAssociation(t) PROVE PeersReached'
  <2>1. OnlyCall(t) /\ call'[t].pc # "keepPeer" /\ UNCHANGED <<kind, stack, table>>
    BY <1>0, <1>16, FindAssociationSteps DEF sockets, CallMoved, CallEnded
  <2>q. QED
    BY <1>0, <2>1, PeersKept DEF Reports
<1>17. ASSUME NEW t \in Threads, Unwrap(t) PROVE PeersReached'
  <2>1. /\ UNCHANGED <<kind, stack, table>>
        /\ \E result \in {"ok", "header", "failed"} : Returns(t, result)
    BY <1>0, <1>17, UnwrapSteps, TakenReturns DEF DatagramTaken
  <2>2. OnlyCall(t) /\ (t \in Threads => Reports(t)')
    BY <1>0, <2>1, ReturnFits DEF CallEnded, Reports
  <2>q. QED
    BY <1>0, <2>1, <2>2, PeersKept
<1>18. ASSUME NEW t \in Threads, HostReceives(t) PROVE PeersReached'
  <2>1. /\ UNCHANGED <<kind, stack, table>>
        /\ \E result \in {"ok", "header", "failed"} : Returns(t, result)
    BY <1>0, <1>18, HostReceivesSteps, TakenReturns DEF DatagramTaken
  <2>2. OnlyCall(t) /\ (t \in Threads => Reports(t)')
    BY <1>0, <2>1, ReturnFits DEF CallEnded, Reports
  <2>q. QED
    BY <1>0, <2>1, <2>2, PeersKept
<1>19. ASSUME NEW t \in Threads, QueueReceive(t) PROVE PeersReached'
  <2>1. OnlyCall(t) /\ call'[t].pc # "keepPeer" /\ UNCHANGED <<kind, stack, table>>
    BY <1>0, <1>19, QueueReceiveSteps DEF sockets, CallMoved, CallEnded
  <2>q. QED
    BY <1>0, <2>1, PeersKept DEF Reports
<1>20. ASSUME NEW t \in Threads, ReleaseState(t) PROVE PeersReached'
  <2>1. /\ CallMoved(t, "closeSocket") /\ OnlyCall(t) /\ UNCHANGED <<kind, stack>> /\ call[t].h \in Handles
        /\ EntrySays(call[t].h, "unknown", NoControl, NoPeer)
    BY <1>0, <1>20, ReleaseStateSteps DEF CallMoved, sockets
  <2>2. \A u \in Threads : Reports(u)'
    BY <1>0, <2>1 DEF PeersReached, Reports, Reaches, OnlyCall, CallMoved
  <2>3. \A h \in Handles : Remembers(h)'
    BY <1>0, <2>1 DEF PeersReached, Remembers, Reaches, EntrySays
  <2>q. QED
    BY <2>2, <2>3 DEF PeersReached
<1>21. ASSUME NEW t \in Threads, CloseSocket(t) PROVE PeersReached'
  <2>1. /\ CallEnded(t) /\ UNCHANGED table /\ call[t].pc = "closeSocket"
        /\ call[t].h \in Handles /\ kind' = [kind EXCEPT ![call[t].h] = "none"]
        /\ StackSays(call[t].h, "none", NoPeer)
    BY <1>0, <1>21, CloseSocketSteps
  <2>2. \A u \in Threads : u # t => call'[u] = call[u]
    BY <1>0, <2>1 DEF OnlyCall, CallEnded
  <2>3. kind'[call[t].h] = "none"
        /\ \A h \in Handles : h # call[t].h => kind'[h] = kind[h] /\ stack'[h] = stack[h]
    BY <1>0, <2>1 DEF StackSays, TypeOK
  <2>4. \A u \in Threads : u # t /\ call[u].pc = "keepPeer" => call[u].h \in Handles
    BY <1>0 DEF CallFits
  <2>5. \A u \in Threads : Reports(u)'
    BY <1>0, <2>1, <2>2, <2>3, <2>4 DEF PeersReached, Reports, Reaches, CallEnded
  <2>6. \A h \in Handles : Remembers(h)'
    BY <1>0, <2>1, <2>3 DEF PeersReached, Remembers, Reaches
  <2>q. QED
    BY <2>5, <2>6 DEF PeersReached
<1>22. ASSUME WorkerTakes PROVE PeersReached'
  <2>1. OnlyCall(Worker) /\ UNCHANGED <<kind, stack, table>>
    BY <1>0, <1>22, WorkerTakesSteps DEF CallMoved, sockets
  <2>q. QED
    BY <1>0, <2>1, PeersKept, ProxyAgents
<1>23. ASSUME WorkerSelects PROVE PeersReached'
  <2>1. OnlyCall(Worker) /\ UNCHANGED <<kind, stack, table>>
    BY <1>0, <1>23, WorkerSelectsSteps DEF CallMoved, sockets
  <2>q. QED
    BY <1>0, <2>1, PeersKept, ProxyAgents
<1>24. ASSUME WorkerPutsBack PROVE PeersReached'
  <2>1. UNCHANGED <<kind, stack, table, call>>
    BY <1>24, WorkerPutsBackSteps DEF sockets
  <2>q. QED
    BY <1>0, <2>1 DEF PeersReached, Remembers, Reports, Reaches
<1>25. ASSUME WorkerReceives PROVE PeersReached'
  <2>1. batch # << >>
    BY <1>25 DEF WorkerReceives
  <2>2. OnlyCall(Worker) /\ UNCHANGED <<kind, stack, table>>
    BY <1>0, <1>25, <2>1, CallTypes, BatchServed, WorkBegins DEF sockets
  <2>q. QED
    BY <1>0, <2>2, PeersKept, ProxyAgents
<1>26. ASSUME NEW r \in Receives, DeadlinePasses(r) PROVE PeersReached'
  <2>1. UNCHANGED <<kind, stack, table, call>>
    BY <1>26 DEF DeadlinePasses, sockets
  <2>q. QED
    BY <1>0, <2>1 DEF PeersReached, Remembers, Reports, Reaches
<1>27. ASSUME NEW h \in Handles, DatagramArrives(h) PROVE PeersReached'
  <2>1. UNCHANGED <<kind, stack, table, call>>
    BY <1>27 DEF DatagramArrives, sockets
  <2>q. QED
    BY <1>0, <2>1 DEF PeersReached, Remembers, Reports, Reaches
<1>28. ASSUME UNCHANGED vars PROVE PeersReached'
    BY <1>0, <1>28 DEF vars, sockets, PeersReached, Remembers, Reports, Reaches
<1>q. QED
    BY <1>1, <1>2, <1>3, <1>4, <1>5, <1>6, <1>7, <1>8, <1>9, <1>10, <1>11, <1>12, <1>13, <1>14, <1>15,
       <1>16, <1>17, <1>18, <1>19, <1>20, <1>21, <1>22, <1>23, <1>24, <1>25, <1>26, <1>27, <1>28,
       ProxySteps

\* The peer a stream reports is the one its connection reaches: for an application which does
\* not use a socket while another thread closes it, since the entry is found by the value of
\* the handle.
THEOREM PeersAreReached ==
    ASSUME \A s \in Scenarios : "race" \notin s.habits
    PROVE  Spec => []PeerIsReached
<1> DEFINE I == PeerInv /\ "race" \notin habits
<1>1. Init => I
  <2> SUFFICES ASSUME Init PROVE I
    OBVIOUS
  <2>1. KindInv /\ "race" \notin habits
    BY KindSafe DEF Init
  <2>2. \A t \in Threads : call[t].pc = "idle"
    BY ProxyAgents DEF Init, Home
  <2>3. \A h \in Handles : kind[h] = "none"
    BY DEF Init
  <2>q. QED
    BY <2>1, <2>2, <2>3, PeerMeans DEF PeerInv, PeersReached, Remembers, Reports
<1>2. I /\ [Next]_vars => I'
    BY KindSafe, PeerStep, SettingsKept DEF PeerInv
<1>3. I => PeerIsReached
    BY PeerMeans DEF PeerInv, PeersReached, Remembers, Reaches, PeerIsReached
<1>q. QED
    BY <1>1, <1>2, <1>3, PTL DEF Spec
-----------------------------------------------------------------------------
(* Datagrams of a relay.                                                   *)

\* A call which returned, goes on away from every relay, or from one of its places to another.
StillUses(t) ==
    \/ call'[t].op = "none" /\ call'[t].pc = "idle"
    \/ /\ call'[t].op = call[t].op /\ call'[t].h = call[t].h
       /\ \/ call'[t].pc \notin RelayPcs \cup {"association", "unwrap", "hostReceive", "kind", "keepKind"}
          \/ /\ call[t].pc \in RelayPcs /\ call'[t].pc \in RelayPcs
             /\ call'[t].pc = "sendRelay" => call[t].op \in {"send", "sendto"}

LEMMA MovesUse ==
    ASSUME NEW t \in Threads
    PROVE  /\ \A pc \in {"connect", "handshake", "keepPeer", "hostConnect", "hostSend", "closeSocket"} :
                CallMoved(t, pc) => StillUses(t)
           /\ CallEnded(t) => StillUses(t)
           /\ \A pc \in {"associate", "asked", "keepRelay", "read"} :
                call[t].pc \in RelayPcs /\ CallMoved(t, pc) => StillUses(t)
           /\ \A c : call[t].pc \in RelayPcs /\ CallTook(t, "asked", c) => StillUses(t)
           /\ \A c : /\ call[t].pc \in RelayPcs
                     /\ CallTook(t, IF call[t].op \in {"send", "sendto"} THEN "sendRelay" ELSE "read", c)
                     => StillUses(t)
    BY DEF CallMoved, CallTook, CallEnded, SameCall, StillUses, RelayPcs

LEMMA StillFits ==
    ASSUME NEW t \in Threads, UseFits(t), StillUses(t), UNCHANGED <<kind, carried>>
    PROVE  UseFits(t)' /\ (ReadsAlone(t)' => ReadsAlone(t))
    BY DEF UseFits, StillUses, ReadsAlone, RelayPcs, DatagramOps

\* A step of one call, which changes no kind of a socket.
LEMMA UsesKept ==
    ASSUME UseInv, UNCHANGED <<kind, carried>>,
           NEW a \in Agents, OnlyCall(a) \/ UNCHANGED call,
           a \in Threads => \/ StillUses(a)
                            \/ /\ UseFits(a)' /\ SameCall(a)
                               /\ ReadsAlone(a)' => ReadsAlone(a)
    PROVE  (\A t \in Threads : UseFits(t)') /\ AloneFits'
<1>0. \A t \in Threads : t \in Agents /\ UseFits(t)
    BY ProxyAgents DEF UseInv
<1>1. ASSUME NEW t \in Threads
      PROVE  /\ UseFits(t)'
             /\ ReadsAlone(t)' => ReadsAlone(t)
             /\ call'[t].op # "none" => call'[t].op = call[t].op /\ call'[t].h = call[t].h
  <2>1. CASE call'[t] = call[t]
    BY <1>0, <2>1 DEF UseFits, ReadsAlone
  <2>2. CASE t = a
    BY <1>0, <2>2, StillFits DEF StillUses, SameCall
  <2>q. QED
    BY <1>0, <2>1, <2>2 DEF OnlyCall
<1>2. AloneFits'
  <2> SUFFICES ASSUME NEW t \in Threads, NEW u \in Threads, ReadsAlone(t)', call'[u].op \in {"send", "sendto"}
               PROVE  call'[u].h # call'[t].h
    BY DEF AloneFits
  <2>1. ReadsAlone(t) /\ call'[t].h = call[t].h /\ call'[u].h = call[u].h /\ call'[u].op = call[u].op
    BY <1>1 DEF ReadsAlone
  <2>q. QED
    BY <2>1 DEF UseInv, AloneFits
<1>q. QED
    BY <1>1, <1>2

\* Where a call goes whose kind is known.
LEMMA KindUses ==
    ASSUME UseInv, NEW t \in Threads, UNCHANGED <<kind, carried>>, call[t].pc \in {"kind", "keepKind"},
           call[t].op \in KindOps, SameCall(t), call[t].h \in Handles, kind[call[t].h] \in Kinds,
           call'[t].pc = StepForKind(call[t].op, kind[call[t].h])
    PROVE  UseFits(t)' /\ ~ReadsAlone(t)'
<1> DEFINE k == kind[call[t].h]
<1>0. UseFits(t)
    BY DEF UseInv
<1>1. /\ call'[t].pc \notin {"association", "unwrap", "sendRelay", "kind", "keepKind"}
      /\ call'[t].pc \in RelayPcs \cup {"hostReceive"} => call[t].op \notin ConnectOps
    BY StepsFit, NextSteps, SMT DEF KindOps, ConnectOps, RelayPcs
<1>2. call[t].op \in {"recv", "WSARecv"} => call'[t].pc # "hostReceive"
    BY <1>0, NextSteps DEF UseFits, DatagramOps
<1>3. call'[t].pc = "hostReceive" => call[t].op \in {"recv", "WSARecv"}
  <2>1. call[t].op \in {"send", "sendto"} => call'[t].pc # "hostReceive"
    BY NextSteps
  <2>q. QED
    BY <1>1, <2>1 DEF KindOps, ConnectOps
<1>q. QED
    BY <1>0, <1>1, <1>2, <1>3 DEF UseFits, SameCall, ReadsAlone, KindOps, ConnectOps, DatagramOps

\* Every step keeps the calls at places of their kind, and the readers alone.
LEMMA UseStep ==
    ASSUME UseInv, Unwraps, [Next]_vars
    PROVE  (\A u \in Threads : UseFits(u)') /\ AloneFits'
<1> DEFINE Kept == (\A u \in Threads : UseFits(u)') /\ AloneFits'
<1>0. /\ UseInv /\ KindInv /\ CallInv /\ TypeOK /\ KindFits /\ {"race", "readFirst"} \cap habits = {}
      /\ (\A u \in Threads : UseFits(u)) /\ AloneFits /\ UNCHANGED <<carried, habits>>
      /\ (\A a \in Agents : CallFits(a)) /\ \A t \in Threads : t \in Agents /\ t # Worker
    BY SettingsKept, ProxyAgents DEF UseInv, KindInv, CallInv, Unwraps
<1>1. ASSUME NEW h \in Handles, NEW k \in Kinds, OpenSocket(h, k) PROVE Kept
  <2>1. /\ UNCHANGED call /\ kind[h] = "none" /\ kind' = [kind EXCEPT ![h] = k]
        /\ \A g \in Handles : g # h => kind'[g] = kind[g]
    BY <1>0, <1>1 DEF OpenSocket, TypeOK
  <2>2. ASSUME NEW t \in Threads, call[t].op \in DatagramOps PROVE kind'[call[t].h] = "datagram"
    <3>1. kind[call[t].h] = "datagram"
      BY <1>0, <2>2 DEF UseFits
    <3>2. CASE call[t].h \in Handles
      BY <2>1, <3>1, <3>2
    <3>3. CASE call[t].h \notin Handles
      BY <1>0, <2>1, <3>1, <3>3 DEF TypeOK
    <3>q. QED
      BY <3>2, <3>3
  <2>3. \A t \in Threads : UseFits(t)'
    BY <1>0, <2>1, <2>2 DEF UseFits
  <2>q. QED
    BY <1>0, <2>1, <2>3 DEF AloneFits, ReadsAlone
<1>2. ASSUME NEW t \in Threads, NEW op \in Ops, NEW h \in Handles, NEW p \in Targets \cup {NoPeer},
             Begin(t, op, h, p)
      PROVE  Kept
  <2>1. UNCHANGED <<kind, carried>> /\ call \in [Agents -> CallRecs] /\ Sensible(op, h)
    BY <1>0, <1>2, CallTypes DEF Begin, sockets, settings
  <2>2. OnlyCall(t) /\ call'[t].pc = FirstStep(op) /\ call'[t].op = op /\ call'[t].h = h
    BY <1>2, <2>1, CallBegins
  <2>3. \A u \in Threads : u # t => call'[u] = call[u]
    BY <1>0, <2>2 DEF OnlyCall
  <2>4. UseFits(t)'
    <3>1. op \in DatagramOps => kind[h] = "datagram"
      BY <2>1, SensibleMeans DEF DatagramOps
    <3>2. /\ FirstStep(op) \notin RelayPcs \cup {"unwrap", "keepKind"}
          /\ FirstStep(op) = "association" => op = "recvfrom"
          /\ FirstStep(op) = "hostReceive" => "datagram" \notin carried
          /\ FirstStep(op) = "kind" /\ "datagram" \notin carried => op \in ConnectOps
      BY FirstSteps, SMT DEF Ops, RelayPcs, ConnectOps
    <3>q. QED
      BY <2>1, <2>2, <3>1, <3>2 DEF UseFits, RelayPcs
  <2>5. \A u \in Threads : UseFits(u)'
    BY <1>0, <2>1, <2>3, <2>4 DEF UseFits
  <2>6. ASSUME NEW s \in Threads, NEW u \in Threads, ReadsAlone(s)', call'[u].op \in {"send", "sendto"}
        PROVE  call'[u].h # call'[s].h
    <3>1. CASE s = t
      <4>1. op = "recvfrom" /\ u # t /\ call'[u] = call[u]
        BY <2>2, <2>3, <2>6, <3>1 DEF ReadsAlone
      <4>2. Sends(h) = {}
        BY <1>0, <2>1, <4>1, SensibleMeans
      <4>q. QED
        BY <2>2, <2>6, <3>1, <4>1, <4>2 DEF Sends, Calling
    <3>2. CASE s # t /\ u = t
      <4>1. op \in {"send", "sendto"} /\ call'[s] = call[s] /\ ReadsAlone(s)
        BY <2>2, <2>3, <2>6, <3>2 DEF ReadsAlone
      <4>2. CASE call[s].h = h
        <5>1. kind[h] = "datagram"
          BY <1>0, <4>1, <4>2 DEF UseFits, ReadsAlone, DatagramOps
        <5>2. ReadsAsHost(h) = {}
          BY <1>0, <2>1, <4>1, <5>1, SensibleMeans
        <5>q. QED
          BY <4>1, <4>2, <5>2 DEF ReadsAsHost, Calling, ReadsAlone, At
      <4>q. QED
        BY <2>2, <3>2, <4>1, <4>2
    <3>3. CASE s # t /\ u # t
      BY <1>0, <2>3, <2>6, <3>3 DEF AloneFits, ReadsAlone
    <3>q. QED
      BY <3>1, <3>2, <3>3
  <2>q. QED
    BY <2>5, <2>6 DEF AloneFits
<1>3. ASSUME NEW t \in Threads, AskKind(t) PROVE Kept
  <2>1. /\ OnlyCall(t) /\ SameCall(t) /\ UNCHANGED kind /\ call[t].h \in Handles
        /\ call[t].pc = "kind" /\ call[t].op \in KindOps
    BY <1>0, <1>3, AskKindSteps DEF sockets
  <2>2. kind[call[t].h] \in Kinds
    BY <1>0, <2>1 DEF KindFits, TypeOK
  <2>3. CASE call'[t].pc = "keepKind"
    <3>1. UseFits(t)' /\ ~ReadsAlone(t)'
      BY <1>0, <2>1, <2>3 DEF UseFits, SameCall, ReadsAlone, RelayPcs
    <3>q. QED
      BY <1>0, <2>1, <3>1, UsesKept
  <2>4. CASE /\ call'[t].pc = StepForKind(call[t].op, table[call[t].h].kind)
             /\ table[call[t].h].kind # "unknown" \/ kind[call[t].h] = "none"
    <3>1. table[call[t].h].kind = kind[call[t].h]
      BY <1>0, <2>1, <2>2, <2>4 DEF KindFits, Kinds
    <3>2. UseFits(t)' /\ ~ReadsAlone(t)'
      BY <1>0, <2>1, <2>2, <2>4, <3>1, KindUses
    <3>q. QED
      BY <1>0, <2>1, <3>2, UsesKept
  <2>q. QED
    BY <1>0, <1>3, <2>3, <2>4, AskKindSteps
<1>4. ASSUME NEW t \in Threads, KeepKind(t) PROVE Kept
  <2>1. /\ OnlyCall(t) /\ SameCall(t) /\ UNCHANGED kind /\ call[t].h \in Handles
        /\ call[t].pc = "keepKind" /\ call[t].op \in KindOps /\ call[t].seen \in Kinds
        /\ call'[t].pc = StepForKind(call[t].op, call[t].seen)
    BY <1>0, <1>4, KeepKindSteps DEF sockets
  <2>2. call[t].seen = kind[call[t].h]
    BY <1>0, <2>1 DEF KindFits
  <2>3. UseFits(t)' /\ ~ReadsAlone(t)'
    BY <1>0, <2>1, <2>2, KindUses
  <2>q. QED
    BY <1>0, <2>1, <2>3, UsesKept
<1>5. ASSUME NEW t \in Threads, Connect(t) PROVE Kept
  <2>1. OnlyCall(t) /\ UNCHANGED kind /\ StillUses(t)
    BY <1>0, <1>5, ConnectSteps, MovesUse DEF CallMoved, CallEnded, sockets
  <2>q. QED
    BY <1>0, <2>1, UsesKept
<1>6. ASSUME NEW t \in Threads, ServerAnswers(t) PROVE Kept
  <2>1. OnlyCall(t) /\ UNCHANGED kind /\ StillUses(t)
    BY <1>0, <1>6, ServerAnswersSteps, MovesUse DEF CallMoved, CallEnded, sockets
  <2>q. QED
    BY <1>0, <2>1, UsesKept
<1>7. ASSUME NEW t \in Threads, KeepPeer(t) PROVE Kept
  <2>1. OnlyCall(t) /\ UNCHANGED kind /\ StillUses(t)
    BY <1>0, <1>7, KeepPeerSteps, MovesUse DEF CallMoved, CallEnded, sockets
  <2>q. QED
    BY <1>0, <2>1, UsesKept
<1>8. ASSUME NEW t \in Threads, HostConnects(t) PROVE Kept
  <2>1. OnlyCall(t) /\ UNCHANGED kind /\ StillUses(t)
    BY <1>0, <1>8, HostConnectsSteps, MovesUse DEF CallMoved, CallEnded, sockets
  <2>q. QED
    BY <1>0, <2>1, UsesKept
<1>9. ASSUME NEW a \in Agents, Associate(a) PROVE Kept
  <2>1. OnlyCall(a) /\ UNCHANGED kind /\ call[a].pc \in RelayPcs
    BY <1>0, <1>9, AssociateSteps, ReturnFits DEF CallMoved, CallTook, sockets, RelayPcs
  <2>2. a \in Threads => StillUses(a)
    BY <1>0, <1>9, <2>1, AssociateSteps, ReturnFits, MovesUse
  <2>q. QED
    BY <1>0, <2>1, <2>2, UsesKept
<1>10. ASSUME NEW a \in Agents, RelayAnswers(a) PROVE Kept
  <2>1. OnlyCall(a) /\ UNCHANGED kind /\ call[a].pc \in RelayPcs
    BY <1>0, <1>10, RelayAnswersSteps, ReturnFits DEF CallMoved, CallTook, sockets, RelayPcs
  <2>2. a \in Threads => StillUses(a)
    BY <1>0, <1>10, <2>1, RelayAnswersSteps, ReturnFits, MovesUse
  <2>q. QED
    BY <1>0, <2>1, <2>2, UsesKept
<1>11. ASSUME NEW a \in Agents, KeepRelay(a) PROVE Kept
  <2>1. OnlyCall(a) /\ UNCHANGED kind /\ call[a].pc \in RelayPcs
    BY <1>0, <1>11, KeepRelaySteps, ReturnFits DEF CallMoved, CallTook, sockets, RelayPcs
  <2>2. a \in Threads => StillUses(a)
    BY <1>0, <1>11, <2>1, KeepRelaySteps, ReturnFits, MovesUse
  <2>q. QED
    BY <1>0, <2>1, <2>2, UsesKept
<1>12. ASSUME NEW t \in Threads, FindPeer(t) PROVE Kept
  <2>1. OnlyCall(t) /\ UNCHANGED kind /\ call[t].pc \in RelayPcs
    BY <1>0, <1>12, FindPeerSteps DEF CallMoved, sockets, RelayPcs
  <2>2. StillUses(t)
    BY <1>0, <1>12, <2>1, FindPeerSteps, MovesUse
  <2>q. QED
    BY <1>0, <2>1, <2>2, UsesKept
<1>13. ASSUME NEW t \in Threads, SendToRelay(t) PROVE Kept
  <2>1. OnlyCall(t) /\ UNCHANGED kind /\ StillUses(t)
    BY <1>0, <1>13, SendToRelaySteps, MovesUse DEF CallMoved, CallEnded, sockets
  <2>q. QED
    BY <1>0, <2>1, UsesKept
<1>14. ASSUME NEW t \in Threads, HostSends(t) PROVE Kept
  <2>1. OnlyCall(t) /\ UNCHANGED kind /\ StillUses(t)
    BY <1>0, <1>14, HostSendsSteps, MovesUse DEF CallMoved, CallEnded, sockets
  <2>q. QED
    BY <1>0, <2>1, UsesKept
<1>15. ASSUME NEW a \in Agents, Read(a) PROVE Kept
  <2>1. UNCHANGED kind /\ \E result \in {"ok", "header", "failed"} : Returns(a, result)
    BY <1>0, <1>15, ReadSteps, TakenReturns DEF DatagramTaken
  <2>2. OnlyCall(a) /\ (a \in Threads => StillUses(a))
    BY <1>0, <2>1, ReturnFits, MovesUse
  <2>q. QED
    BY <1>0, <2>1, <2>2, UsesKept
<1>16. ASSUME NEW t \in Threads, FindAssociation(t) PROVE Kept
  <2>1. /\ OnlyCall(t) /\ UNCHANGED kind /\ SameCall(t) /\ call[t].pc = "association"
        /\ call'[t].pc \in {"unwrap", "hostReceive"}
    BY <1>0, <1>16, FindAssociationSteps DEF CallMoved, sockets
  <2>2. UseFits(t)' /\ (ReadsAlone(t)' => ReadsAlone(t))
    BY <1>0, <2>1 DEF UseFits, SameCall, ReadsAlone, RelayPcs
  <2>q. QED
    BY <1>0, <2>1, <2>2, UsesKept
<1>17. ASSUME NEW t \in Threads, Unwrap(t) PROVE Kept
  <2>1. UNCHANGED kind /\ \E result \in {"ok", "header", "failed"} : Returns(t, result)
    BY <1>0, <1>17, UnwrapSteps, TakenReturns DEF DatagramTaken
  <2>2. OnlyCall(t) /\ (t \in Threads => StillUses(t))
    BY <1>0, <2>1, ReturnFits, MovesUse
  <2>q. QED
    BY <1>0, <2>1, <2>2, UsesKept
<1>18. ASSUME NEW t \in Threads, HostReceives(t) PROVE Kept
  <2>1. UNCHANGED kind /\ \E result \in {"ok", "header", "failed"} : Returns(t, result)
    BY <1>0, <1>18, HostReceivesSteps, TakenReturns DEF DatagramTaken
  <2>2. OnlyCall(t) /\ (t \in Threads => StillUses(t))
    BY <1>0, <2>1, ReturnFits, MovesUse
  <2>q. QED
    BY <1>0, <2>1, <2>2, UsesKept
<1>19. ASSUME NEW t \in Threads, QueueReceive(t) PROVE Kept
  <2>1. OnlyCall(t) /\ UNCHANGED kind /\ StillUses(t)
    BY <1>0, <1>19, QueueReceiveSteps DEF sockets, StillUses
  <2>q. QED
    BY <1>0, <2>1, UsesKept
<1>20. ASSUME NEW t \in Threads, ReleaseState(t) PROVE Kept
  <2>1. OnlyCall(t) /\ UNCHANGED kind /\ StillUses(t)
    BY <1>0, <1>20, ReleaseStateSteps, MovesUse DEF CallMoved, CallEnded, sockets
  <2>q. QED
    BY <1>0, <2>1, UsesKept
<1>21. ASSUME NEW t \in Threads, CloseSocket(t) PROVE Kept
  <2>1. /\ CallEnded(t) /\ call[t].pc = "closeSocket" /\ call[t].h \in Handles
        /\ kind' = [kind EXCEPT ![call[t].h] = "none"]
    BY <1>0, <1>21, CloseSocketSteps
  <2>2. \A u \in Threads : u # t => call'[u] = call[u]
    BY <1>0, <2>1 DEF OnlyCall, CallEnded
  <2>3. \A u \in Threads : u # t => call[u].h # call[t].h
    BY <1>0, <2>1 DEF KindFits, CallFits
  <2>4. \A u \in Threads : u # t => kind'[call[u].h] = kind[call[u].h]
    BY <2>1, <2>3
  <2>5. \A u \in Threads : UseFits(u)'
    BY <1>0, <2>1, <2>2, <2>4 DEF UseFits, CallEnded, DatagramOps, RelayPcs
  <2>6. AloneFits'
    BY <1>0, <2>1, <2>2 DEF AloneFits, ReadsAlone, CallEnded
  <2>q. QED
    BY <2>5, <2>6
<1>22. ASSUME WorkerTakes PROVE Kept
  <2>1. OnlyCall(Worker) /\ UNCHANGED kind
    BY <1>0, <1>22, WorkerTakesSteps DEF CallMoved, sockets
  <2>q. QED
    BY <1>0, <2>1, UsesKept, ProxyAgents
<1>23. ASSUME WorkerSelects PROVE Kept
  <2>1. OnlyCall(Worker) /\ UNCHANGED kind
    BY <1>0, <1>23, WorkerSelectsSteps DEF CallMoved, sockets
  <2>q. QED
    BY <1>0, <2>1, UsesKept, ProxyAgents
<1>24. ASSUME WorkerPutsBack PROVE Kept
  <2>1. UNCHANGED <<kind, call>>
    BY <1>24, WorkerPutsBackSteps DEF sockets
  <2>q. QED
    BY <1>0, <2>1, UsesKept, ProxyAgents
<1>25. ASSUME WorkerReceives PROVE Kept
  <2>1. batch # << >>
    BY <1>25 DEF WorkerReceives
  <2>2. OnlyCall(Worker) /\ UNCHANGED kind
    BY <1>0, <1>25, <2>1, CallTypes, BatchServed, WorkBegins DEF sockets
  <2>q. QED
    BY <1>0, <2>2, UsesKept, ProxyAgents
<1>26. ASSUME NEW r \in Receives, DeadlinePasses(r) PROVE Kept
    BY <1>0, <1>26, UsesKept, ProxyAgents DEF DeadlinePasses, sockets
<1>27. ASSUME NEW h \in Handles, DatagramArrives(h) PROVE Kept
    BY <1>0, <1>27, UsesKept, ProxyAgents DEF DatagramArrives
<1>28. ASSUME UNCHANGED vars PROVE Kept
    BY <1>0, <1>28, UsesKept, ProxyAgents DEF vars, sockets
<1>q. QED
    BY <1>1, <1>2, <1>3, <1>4, <1>5, <1>6, <1>7, <1>8, <1>9, <1>10, <1>11, <1>12, <1>13, <1>14, <1>15,
       <1>16, <1>17, <1>18, <1>19, <1>20, <1>21, <1>22, <1>23, <1>24, <1>25, <1>26, <1>27, <1>28,
       ProxySteps

\* A step of a thread leaves the queue and the batch alone, and the controls of the table.
Elsewhere == UNCHANGED <<queue, batch>> /\ \A h \in Handles : table'[h].control = table[h].control

\* Every step keeps the table and the queue empty where no datagram is carried.
LEMMA UncarriedStep ==
    ASSUME UseInv, [Next]_vars
    PROVE  UncarriedFits'
<1> SUFFICES ASSUME "datagram" \notin carried
             PROVE  (\A h \in Handles : table'[h].control = NoControl) /\ queue' = << >> /\ batch' = << >>
    BY SettingsKept DEF UncarriedFits
<1>0. /\ UseInv /\ CallInv /\ TypeOK /\ (\A a \in Agents : CallFits(a))
      /\ (\A t \in Threads : UseFits(t)) /\ (\A t \in Threads : t \in Agents /\ t # Worker)
      /\ (\A h \in Handles : table[h].control = NoControl) /\ queue = << >> /\ batch = << >>
      /\ call[Worker].pc = "serve"
    BY ProxyAgents DEF UseInv, KindInv, CallInv, WorkerFits, UncarriedFits
<1> DEFINE Kept == (\A h \in Handles : table'[h].control = NoControl) /\ queue' = << >> /\ batch' = << >>
<1>1. Elsewhere => Kept
    BY <1>0 DEF Elsewhere
<1>2. \A a \in Agents : call[a].pc \notin RelayPcs
    BY <1>0, ProxyAgents DEF UseFits, RelayPcs
<1>3. \A a \in Agents : ~Associate(a) /\ ~RelayAnswers(a) /\ ~KeepRelay(a) /\ ~Read(a)
    BY <1>2 DEF Associate, RelayAnswers, KeepRelay, Read, At, RelayPcs
<1>4. \A t \in Threads : ~FindPeer(t) /\ ~SendToRelay(t) /\ ~QueueReceive(t)
    BY <1>0, <1>2 DEF FindPeer, SendToRelay, QueueReceive, At, RelayPcs
<1>5. ~WorkerTakes /\ ~WorkerSelects /\ ~WorkerPutsBack /\ ~WorkerReceives
    BY <1>0 DEF WorkerTakes, WorkerSelects, WorkerPutsBack, WorkerReceives, At
<1>6. ASSUME NEW h \in Handles, NEW k \in Kinds, OpenSocket(h, k) PROVE Kept
    BY <1>1, <1>6 DEF OpenSocket, receives, Elsewhere
<1>7. ASSUME NEW t \in Threads, NEW op \in Ops, NEW h \in Handles, NEW p \in Targets \cup {NoPeer},
             Begin(t, op, h, p)
      PROVE  Kept
    BY <1>1, <1>7 DEF Begin, receives, Elsewhere
<1>8. ASSUME NEW t \in Threads, AskKind(t) PROVE Kept
    BY <1>1, <1>8 DEF AskKind, receives, Elsewhere
<1>9. ASSUME NEW t \in Threads, KeepKind(t) PROVE Kept
    BY <1>0, <1>1, <1>9, KeepKindSteps DEF receives, Elsewhere, EntrySays
<1>10. ASSUME NEW t \in Threads, Connect(t) PROVE Kept
    BY <1>0, <1>1, <1>10, ConnectSteps DEF receives, Elsewhere
<1>11. ASSUME NEW t \in Threads, ServerAnswers(t) PROVE Kept
    BY <1>0, <1>1, <1>11, ServerAnswersSteps DEF receives, Elsewhere
<1>12. ASSUME NEW t \in Threads, HostConnects(t) PROVE Kept
    BY <1>0, <1>1, <1>12, HostConnectsSteps DEF receives, Elsewhere
<1>13. ASSUME NEW t \in Threads, HostSends(t) PROVE Kept
    BY <1>0, <1>1, <1>13, HostSendsSteps DEF receives, Elsewhere
<1>14. ASSUME NEW t \in Threads, FindAssociation(t) PROVE Kept
    BY <1>0, <1>1, <1>14, FindAssociationSteps DEF receives, Elsewhere
<1>15. ASSUME NEW t \in Threads, KeepPeer(t) PROVE Kept
    BY <1>0, <1>1, <1>15, KeepPeerSteps DEF receives, Elsewhere, EntrySays
<1>16. ASSUME NEW t \in Threads, Unwrap(t) PROVE Kept
  <2>1. UNCHANGED table /\ \E result \in {"ok", "header", "failed"} : Returns(t, result)
    BY <1>0, <1>16, UnwrapSteps, TakenReturns DEF DatagramTaken
  <2>q. QED
    BY <1>0, <1>1, <2>1, ReturnFits DEF CallEnded, Elsewhere
<1>17. ASSUME NEW t \in Threads, HostReceives(t) PROVE Kept
  <2>1. UNCHANGED table /\ \E result \in {"ok", "header", "failed"} : Returns(t, result)
    BY <1>0, <1>17, HostReceivesSteps, TakenReturns DEF DatagramTaken
  <2>q. QED
    BY <1>0, <1>1, <2>1, ReturnFits DEF CallEnded, Elsewhere
<1>18. ASSUME NEW t \in Threads, ReleaseState(t) PROVE Kept
    BY <1>0, <1>18, ReleaseStateSteps DEF receives, EntrySays
<1>19. ASSUME NEW t \in Threads, CloseSocket(t) PROVE Kept
    BY <1>0, <1>1, <1>19, CloseSocketSteps DEF receives, Elsewhere
<1>20. ASSUME NEW r \in Receives, DeadlinePasses(r) PROVE Kept
    BY <1>1, <1>20 DEF DeadlinePasses, Elsewhere
<1>21. ASSUME NEW h \in Handles, DatagramArrives(h) PROVE Kept
    BY <1>1, <1>21 DEF DatagramArrives, receives, Elsewhere
<1>22. ASSUME UNCHANGED vars PROVE Kept
    BY <1>1, <1>22 DEF vars, receives, Elsewhere
<1>q. QED
    BY <1>3, <1>4, <1>5, <1>6, <1>7, <1>8, <1>9, <1>10, <1>11, <1>12, <1>13, <1>14, <1>15, <1>16, <1>17, <1>18, <1>19, <1>20, <1>21, <1>22,
       ProxySteps

Serves == {"associate", "asked", "keepRelay", "read"}

LEMMA ServesKept ==
    ASSUME ServesCurrent, UNCHANGED batch, of'[Current] = of[Current],
           \/ call'[Worker] = call[Worker]
           \/ call'[Worker].pc \notin Serves
           \/ call'[Worker].h = call[Worker].h /\ call[Worker].pc \in Serves
    PROVE  ServesCurrent'
    BY DEF ServesCurrent, Serves, Current

\* Every step keeps the worker at the socket of its receive.
LEMMA ServesStep ==
    ASSUME UseInv, [Next]_vars
    PROVE  ServesCurrent'
<1>0. /\ UseInv /\ CallInv /\ TypeOK /\ (\A a \in Agents : CallFits(a)) /\ ServesCurrent
      /\ (\A t \in Threads : t \in Agents /\ t # Worker)
    BY ProxyAgents DEF UseInv, KindInv, CallInv
<1>1. ASSUME NEW t \in Threads, OnlyCall(t), UNCHANGED <<of, batch>> PROVE ServesCurrent'
    BY <1>0, <1>1, ServesKept, ProxyAgents DEF OnlyCall
<1>2. ASSUME UNCHANGED <<call, of, batch>> PROVE ServesCurrent'
    BY <1>0, <1>2, ServesKept
<1>3. ASSUME OnlyCall(Worker), call'[Worker].pc \notin Serves PROVE ServesCurrent'
    BY <1>3 DEF ServesCurrent, Serves
<1>4. ASSUME NEW result, Returns(Worker, result) PROVE ServesCurrent'
    BY <1>0, <1>3, <1>4, ReturnFits, ProxyAgents DEF WorkEnded, Serves
<1>5. ASSUME NEW t \in Threads, NEW result, Returns(t, result) PROVE ServesCurrent'
    BY <1>0, <1>1, <1>5, ReturnFits DEF CallEnded
<1>6. ASSUME NEW a \in Agents, NEW result, Returns(a, result) PROVE ServesCurrent'
    BY <1>4, <1>5, <1>6, ProxyAgents
<1>7. ASSUME NEW a \in Agents, OnlyCall(a), SameCall(a), call[a].pc \in Serves, UNCHANGED receives
      PROVE  ServesCurrent'
    BY <1>0, <1>7, ServesKept, ProxyAgents DEF OnlyCall, SameCall, receives
<1>8. ASSUME NEW h \in Handles, NEW k \in Kinds, OpenSocket(h, k) PROVE ServesCurrent'
    BY <1>2, <1>8 DEF OpenSocket, receives
<1>9. ASSUME NEW t \in Threads, NEW op \in Ops, NEW h \in Handles, NEW p \in Targets \cup {NoPeer},
             Begin(t, op, h, p)
      PROVE  ServesCurrent'
  <2>1. UNCHANGED <<of, batch>> /\ call \in [Agents -> CallRecs]
    BY <1>0, <1>9, CallTypes DEF Begin, receives
  <2>q. QED
    BY <1>1, <1>9, <2>1, CallBegins
<1>10. ASSUME NEW t \in Threads, AskKind(t) PROVE ServesCurrent'
    BY <1>0, <1>1, <1>10, AskKindSteps DEF CallMoved, CallEnded, receives
<1>11. ASSUME NEW t \in Threads, KeepKind(t) PROVE ServesCurrent'
    BY <1>0, <1>1, <1>11, KeepKindSteps DEF CallMoved, CallEnded, receives
<1>12. ASSUME NEW t \in Threads, Connect(t) PROVE ServesCurrent'
    BY <1>0, <1>1, <1>12, ConnectSteps DEF CallMoved, CallEnded, receives
<1>13. ASSUME NEW t \in Threads, ServerAnswers(t) PROVE ServesCurrent'
    BY <1>0, <1>1, <1>13, ServerAnswersSteps DEF CallMoved, CallEnded, receives
<1>14. ASSUME NEW t \in Threads, KeepPeer(t) PROVE ServesCurrent'
    BY <1>0, <1>1, <1>14, KeepPeerSteps DEF CallMoved, CallEnded, receives
<1>15. ASSUME NEW t \in Threads, HostConnects(t) PROVE ServesCurrent'
    BY <1>0, <1>1, <1>15, HostConnectsSteps DEF CallMoved, CallEnded, receives
<1>16. ASSUME NEW t \in Threads, FindPeer(t) PROVE ServesCurrent'
    BY <1>0, <1>1, <1>16, FindPeerSteps DEF CallMoved, CallEnded, receives
<1>17. ASSUME NEW t \in Threads, SendToRelay(t) PROVE ServesCurrent'
    BY <1>0, <1>1, <1>17, SendToRelaySteps DEF CallMoved, CallEnded, receives
<1>18. ASSUME NEW t \in Threads, HostSends(t) PROVE ServesCurrent'
    BY <1>0, <1>1, <1>18, HostSendsSteps DEF CallMoved, CallEnded, receives
<1>19. ASSUME NEW t \in Threads, FindAssociation(t) PROVE ServesCurrent'
    BY <1>0, <1>1, <1>19, FindAssociationSteps DEF CallMoved, CallEnded, receives
<1>20. ASSUME NEW t \in Threads, ReleaseState(t) PROVE ServesCurrent'
    BY <1>0, <1>1, <1>20, ReleaseStateSteps DEF CallMoved, CallEnded, receives
<1>21. ASSUME NEW t \in Threads, CloseSocket(t) PROVE ServesCurrent'
    BY <1>0, <1>1, <1>21, CloseSocketSteps DEF CallMoved, CallEnded, receives
<1>22. ASSUME NEW a \in Agents, Associate(a) PROVE ServesCurrent'
    BY <1>0, <1>6, <1>7, <1>22, AssociateSteps DEF CallMoved, CallTook, Serves
<1>23. ASSUME NEW a \in Agents, RelayAnswers(a) PROVE ServesCurrent'
    BY <1>0, <1>6, <1>7, <1>23, RelayAnswersSteps DEF CallMoved, CallTook, Serves
<1>24. ASSUME NEW a \in Agents, KeepRelay(a) PROVE ServesCurrent'
    BY <1>0, <1>6, <1>7, <1>24, KeepRelaySteps DEF CallMoved, CallTook, Serves
<1>25. ASSUME NEW a \in Agents, Read(a) PROVE ServesCurrent'
    BY <1>0, <1>6, <1>25, ReadSteps, TakenReturns
<1>26. ASSUME NEW t \in Threads, Unwrap(t) PROVE ServesCurrent'
    BY <1>0, <1>6, <1>26, UnwrapSteps, TakenReturns
<1>27. ASSUME NEW t \in Threads, HostReceives(t) PROVE ServesCurrent'
    BY <1>0, <1>6, <1>27, HostReceivesSteps, TakenReturns
<1>28. ASSUME NEW t \in Threads, QueueReceive(t) PROVE ServesCurrent'
  <2>1. OnlyCall(t) /\ call'[Worker] = call[Worker] /\ UNCHANGED batch
    BY <1>0, <1>28, QueueReceiveSteps, ProxyAgents DEF OnlyCall
  <2>2. CASE call[Worker].pc \in Serves
    <3>1. Current \in Receives /\ status[Current] = "taken"
      BY <1>0, <2>2, BatchServed DEF ServesCurrent, Serves
    <3>2. of'[Current] = of[Current]
      BY <1>0, <1>28, <3>1, QueueReceiveSteps DEF TypeOK
    <3>q. QED
      BY <1>0, <2>1, <3>2, ServesKept
  <2>3. CASE call[Worker].pc \notin Serves
    BY <2>1, <2>3 DEF ServesCurrent, Serves
  <2>q. QED
    BY <2>2, <2>3
<1>29. ASSUME WorkerTakes PROVE ServesCurrent'
    BY <1>0, <1>3, <1>29, WorkerTakesSteps DEF CallMoved, Serves
<1>30. ASSUME WorkerSelects PROVE ServesCurrent'
    BY <1>0, <1>3, <1>30, WorkerSelectsSteps DEF CallMoved, Serves
<1>31. ASSUME WorkerPutsBack PROVE ServesCurrent'
    BY <1>31, WorkerPutsBackSteps DEF ServesCurrent
<1>32. ASSUME WorkerReceives PROVE ServesCurrent'
  <2>1. batch # << >> /\ UNCHANGED receives
    BY <1>32 DEF WorkerReceives
  <2>2. call'[Worker].h = of[Current]
    BY <1>0, <1>32, <2>1, CallTypes, BatchServed, WorkBegins
  <2>q. QED
    BY <2>1, <2>2 DEF ServesCurrent, receives, Current
<1>33. ASSUME NEW r \in Receives, DeadlinePasses(r) PROVE ServesCurrent'
    BY <1>2, <1>33 DEF DeadlinePasses
<1>34. ASSUME NEW h \in Handles, DatagramArrives(h) PROVE ServesCurrent'
    BY <1>2, <1>34 DEF DatagramArrives, receives
<1>35. ASSUME UNCHANGED vars PROVE ServesCurrent'
    BY <1>2, <1>35 DEF vars, receives
<1>q. QED
    BY <1>8, <1>9, <1>10, <1>11, <1>12, <1>13, <1>14, <1>15, <1>16, <1>17, <1>18, <1>19, <1>20, <1>21, <1>22, <1>23, <1>24, <1>25, <1>26, <1>27, <1>28, <1>29, <1>30, <1>31, <1>32, <1>33, <1>34, <1>35,
       ProxySteps

LEMMA UseNext ==
    ASSUME UseInv, Unwraps, [Next]_vars
    PROVE  UseInv' /\ Unwraps'
<1>1. HeldInv' /\ KindInv'
    BY CallNext, HeldStep, KindSafe DEF UseInv, HeldInv
<1>q. QED
    BY <1>1, UseStep, UncarriedStep, ServesStep, SettingsKept DEF UseInv, Unwraps

\* What the invariant gives a step.
LEMMA RelayMeans ==
    ASSUME RelayInv, Unwraps
    PROVE  /\ UseInv /\ HeldInv /\ KindInv /\ CallInv /\ TypeOK /\ HeldFits /\ KindFits /\ StackFits
           /\ "race" \notin habits /\ (\A a \in Agents : CallFits(a)) /\ WorkerFits
           /\ (\A t \in Threads : UseFits(t)) /\ AloneFits /\ UncarriedFits /\ ServesCurrent
           /\ (\A h \in Handles : RelayKnown(h)) /\ (\A c \in Controls : ClientKnown(c))
           /\ (\A t \in Threads : TakesFit(t) /\ t \in Agents /\ t # Worker)
    BY ProxyAgents DEF RelayInv, RelayFits, UseInv, HeldInv, KindInv, CallInv, Unwraps

\* A call which does not close its socket is alone with it as long as nobody closes it.
LEMMA NotClosing ==
    ASSUME RelayInv, Unwraps, NEW t \in Threads, call[t].op # "closesocket"
    PROVE  ~Closing(call[t].h)
<1>1. \A u \in Threads : call[u].pc = "closeSocket" => call[u].op = "closesocket"
    BY RelayMeans DEF CallFits
<1>q. QED
    BY <1>1, RelayMeans DEF Closing, KindFits

\* A socket without an association holds no datagram of a relay and was sent through none.
LEMMA NoRelay ==
    ASSUME RelayInv, Unwraps, NEW h \in Handles, table[h].control = NoControl, ~Closing(h)
    PROVE  /\ \A i \in 1 .. Len(inbox[h]) : inbox[h][i] = NoControl
           /\ \A c \in Controls : client[c] # h
    BY RelayMeans, ProxyAgents DEF RelayKnown, ClientKnown

\* A connection which a call opened has no client yet.
LEMMA FreshIsUnused ==
    ASSUME RelayInv, Unwraps, NEW a \in Agents, Opens(a), call[a].control \in Controls
    PROVE  client[call[a].control] = NoHandle
<1>1. SUFFICES ASSUME client[call[a].control] # NoHandle PROVE FALSE
    OBVIOUS
<1>2. client[call[a].control] \in Handles /\ table[client[call[a].control]].control = call[a].control
    BY <1>1, RelayMeans DEF ClientKnown, TypeOK
<1>q. QED
    BY <1>2, RelayMeans DEF HeldFits

\* The call of a thread which reads the socket away from the relay does not see one.
Quiet(t) == /\ call'[t].pc \notin {"sendRelay", "hostReceive"}
            /\ call'[t].result \in {call[t].result, "none", "direct"}

LEMMA QuietTakes ==
    ASSUME RelayInv, Unwraps, NEW t \in Threads, Quiet(t)
    PROVE  TakesFit(t)'
    BY RelayMeans DEF Quiet, TakesFit

LEMMA ReadsUnrelayed ==
    ASSUME RelayInv, Unwraps, NEW t \in Threads, call[t].op # "closesocket", call[t].h \in Handles,
           table[call[t].h].control = NoControl, SameCall(t), call'[t].result = call[t].result,
           call'[t].pc # "sendRelay", UNCHANGED <<inbox, client>>
    PROVE  TakesFit(t)'
<1>1. /\ \A i \in 1 .. Len(inbox[call[t].h]) : inbox[call[t].h][i] = NoControl
      /\ \A c \in Controls : client[c] # call[t].h
    BY NotClosing, NoRelay
<1>q. QED
    BY <1>1, RelayMeans DEF TakesFit, SameCall

\* Who closes a socket goes on to do so while another call moves.
LEMMA ClosingStays ==
    ASSUME NEW a \in Agents, OnlyCall(a) \/ UNCHANGED call, a \in Threads => call[a].pc # "closeSocket",
           NEW h, Closing(h)
    PROVE  Closing(h)'
<1>1. PICK t \in Threads : call[t].pc = "closeSocket" /\ call[t].h = h
    BY DEF Closing
<1>2. call'[t] = call[t]
    BY <1>1, ProxyAgents DEF OnlyCall
<1>q. QED
    BY <1>1, <1>2 DEF Closing

\* A step which changes no inbox, no client and no control of the table.
LEMMA RelayKept ==
    ASSUME RelayInv, Unwraps, UNCHANGED <<inbox, client>>,
           \A h \in Handles : table'[h].control = table[h].control,
           \A c \in Controls : client[c] # NoHandle /\ c \in open => c \in open',
           NEW a \in Agents,
           \/ UNCHANGED call
           \/ OnlyCall(a) /\ (a \in Threads => call[a].pc # "closeSocket" /\ TakesFit(a)')
    PROVE  RelayFits'
<1>0. (\A u \in Threads : CallFits(u)) /\ TypeOK
    BY RelayMeans
<1>1. \A h \in Handles : Closing(h) => Closing(h)'
    BY ClosingStays DEF Closing
<1>2. \A h \in Handles : RelayKnown(h)'
    BY <1>1, RelayMeans DEF RelayKnown
<1>3. ASSUME NEW c \in Controls PROVE ClientKnown(c)'
  <2> SUFFICES ASSUME client[c] # NoHandle PROVE c \in open' /\ table'[client[c]].control = c
    BY DEF ClientKnown
  <2>1. client[c] \in Handles /\ c \in open /\ table[client[c]].control = c
    BY <1>0, RelayMeans DEF ClientKnown, TypeOK
  <2>q. QED
    BY <2>1
<1>4. ASSUME NEW t \in Threads, call'[t] = call[t] PROVE TakesFit(t)'
    BY <1>0, <1>4, RelayMeans DEF TakesFit, CallFits
<1>q. QED
    BY <1>2, <1>3, <1>4, ProxyAgents DEF RelayFits, OnlyCall

\* A datagram which a call takes out of its socket.
LEMMA RelayTaken ==
    ASSUME RelayInv, Unwraps, NEW a \in Agents, call[a].h \in Handles, inbox[call[a].h] # << >>,
           inbox' = [inbox EXCEPT ![call[a].h] = Tail(@)], UNCHANGED <<client, open, table>>,
           OnlyCall(a), a \in Threads => call[a].pc # "closeSocket" /\ TakesFit(a)'
    PROVE  RelayFits'
<1> DEFINE h == call[a].h
<1>0. TypeOK /\ inbox[h] \in Seq(Controls \cup {NoControl})
    BY RelayMeans DEF TypeOK
<1>1. /\ inbox'[h] = Tail(inbox[h]) /\ \A g \in Handles : g # h => inbox'[g] = inbox[g]
      /\ Len(inbox'[h]) = Len(inbox[h]) - 1
      /\ \A i \in 1 .. Len(inbox'[h]) : i + 1 \in 1 .. Len(inbox[h]) /\ inbox'[h][i] = inbox[h][i + 1]
    BY <1>0 DEF TypeOK
<1>2. \A g \in Handles : Closing(g) => Closing(g)'
    BY ClosingStays
<1>3. ASSUME NEW g \in Handles PROVE RelayKnown(g)'
  <2>1. CASE g = h
    BY <1>1, <1>2, <2>1, RelayMeans DEF RelayKnown
  <2>2. CASE g # h
    BY <1>1, <1>2, <2>2, RelayMeans DEF RelayKnown
  <2>q. QED
    BY <2>1, <2>2
<1>4. \A c \in Controls : ClientKnown(c)'
    BY RelayMeans DEF ClientKnown
<1>5. ASSUME NEW t \in Threads, t # a PROVE TakesFit(t)'
  <2>1. call'[t] = call[t] /\ TakesFit(t)
    BY <1>5, RelayMeans DEF OnlyCall
  <2>2. CASE call[t].h = h
    BY <1>1, <2>1, <2>2 DEF TakesFit
  <2>3. CASE call[t].h # h
    <3>1. call[t].pc = "hostReceive" => inbox'[call[t].h] = inbox[call[t].h]
      BY <1>1, <2>3, RelayMeans DEF CallFits
    <3>q. QED
      BY <2>1, <3>1 DEF TakesFit
  <2>q. QED
    BY <2>2, <2>3
<1>q. QED
    BY <1>3, <1>4, <1>5 DEF RelayFits

\* What a read hands over: the header of a relay only to the worker, and only of a socket which
\* is being closed.
LEMMA ReadUnwraps ==
    ASSUME RelayInv, Unwraps, NEW a \in Agents, call[a].h \in Handles, inbox[call[a].h] # << >>,
           Head(inbox[call[a].h]) # NoControl, Head(inbox[call[a].h]) # table[call[a].h].control
    PROVE  Closing(call[a].h)
<1>1. 1 \in 1 .. Len(inbox[call[a].h]) /\ Head(inbox[call[a].h]) = inbox[call[a].h][1]
    BY RelayMeans DEF TypeOK
<1>q. QED
    BY <1>1, RelayMeans DEF RelayKnown

LEMMA RelayReads ==
    ASSUME RelayInv, Unwraps, NEW a \in Agents, call[a].pc \in {"read", "unwrap", "hostReceive"},
           call[a].h \in Handles, NEW unwraps, DatagramTaken(a, unwraps),
           a \in Threads => Head(inbox[call[a].h]) = NoControl \/ unwraps \/ inbox[call[a].h] = << >>
    PROVE  RelayFits'
<1>1. PICK result \in {"ok", "header", "failed"} :
        /\ Returns(a, result)
        /\ a \in Threads => result # "header"
        /\ \/ UNCHANGED inbox
           \/ inbox[call[a].h] # << >> /\ inbox' = [inbox EXCEPT ![call[a].h] = Tail(@)]
    BY DEF DatagramTaken
<1>2. OnlyCall(a) /\ UNCHANGED <<client, open, table>>
    BY <1>1, ReturnFits, RelayMeans DEF DatagramTaken, relays
<1>3. a \in Threads => call[a].pc # "closeSocket" /\ TakesFit(a)'
  <2> SUFFICES ASSUME a \in Threads PROVE TakesFit(a)'
    OBVIOUS
  <2>1. CallEnded(a) /\ call'[a].result = IF result \in Results THEN result ELSE "none"
    BY <1>1, CallSteps, RelayMeans
  <2>q. QED
    BY <1>1, <2>1 DEF TakesFit, CallEnded
<1>q. QED
    BY <1>1, <1>2, <1>3, RelayKept, RelayTaken

\* Every step keeps the datagrams of the relays where they are unwrapped.
LEMMA RelayStep ==
    ASSUME RelayInv, Unwraps, [Next]_vars
    PROVE  RelayFits'
<1>0. /\ UseInv /\ CallInv /\ TypeOK /\ HeldFits /\ KindFits /\ (\A a \in Agents : CallFits(a))
      /\ \A t \in Threads : t \in Agents /\ t # Worker
    BY RelayMeans
<1>a. ASSUME NEW t \in Threads, OnlyCall(t), Quiet(t), call[t].pc # "closeSocket",
             UNCHANGED <<inbox, client, open>>, \A h \in Handles : table'[h].control = table[h].control
      PROVE  RelayFits'
    BY <1>0, <1>a, QuietTakes, RelayKept
<1>b. ASSUME OnlyCall(Worker) \/ UNCHANGED call, UNCHANGED <<inbox, relays, table>> PROVE RelayFits'
    BY <1>b, RelayKept, ProxyAgents DEF relays
<1>1. ASSUME NEW h \in Handles, NEW k \in Kinds, OpenSocket(h, k) PROVE RelayFits'
    BY <1>b, <1>1 DEF OpenSocket
<1>2. ASSUME NEW t \in Threads, NEW op \in Ops, NEW h \in Handles, NEW p \in Targets \cup {NoPeer},
             Begin(t, op, h, p)
      PROVE  RelayFits'
  <2>1. /\ UNCHANGED <<inbox, client, open, table>> /\ call \in [Agents -> CallRecs] /\ call[t].pc = "idle"
        /\ Sensible(op, h)
    BY <1>0, <1>2, CallTypes DEF Begin, sockets, relays, At
  <2>2. /\ OnlyCall(t) /\ call'[t].pc = FirstStep(op) /\ call'[t].op = op /\ call'[t].h = h
        /\ call'[t].result = "none"
    BY <1>2, <2>1, CallBegins
  <2>3. TakesFit(t)'
    <3>1. CASE FirstStep(op) = "hostReceive"
      <4>1. "datagram" \notin carried
        BY <3>1, FirstSteps, SMT DEF Ops
      <4>2. ~Closing(h)
        BY <1>0, <2>1, SensibleMeans DEF Closing, Calling, CallFits
      <4>q. QED
        BY <2>1, <2>2, <3>1, <4>1, <4>2, NoRelay, RelayMeans DEF TakesFit, UncarriedFits
    <3>2. CASE FirstStep(op) # "hostReceive"
      BY <2>2, <3>2, BeginsFit DEF TakesFit
    <3>q. QED
      BY <3>1, <3>2
  <2>q. QED
    BY <1>0, <2>1, <2>2, <2>3, RelayKept
<1>c. ASSUME NEW t \in Threads, OnlyCall(t), SameCall(t), call[t].op \in KindOps, call[t].h \in Handles,
             call'[t].pc # "sendRelay", call'[t].result = call[t].result, call[t].pc # "closeSocket",
             UNCHANGED <<inbox, client, open>>, \A h \in Handles : table'[h].control = table[h].control
      PROVE  RelayFits'
  <2>1. CASE call'[t].pc = "hostReceive"
    <3>1. UNCHANGED carried /\ UseFits(t)'
      BY <1>0, SettingsKept, UseNext DEF UseInv
    <3>2. "datagram" \notin carried
      BY <1>c, <2>1, <3>1 DEF UseFits, SameCall, KindOps
    <3>3. table[call[t].h].control = NoControl
      BY <1>c, <3>2, RelayMeans DEF UncarriedFits
    <3>4. TakesFit(t)'
      BY <1>c, <3>3, ReadsUnrelayed DEF KindOps
    <3>q. QED
      BY <1>0, <1>c, <3>4, RelayKept
  <2>2. CASE call'[t].pc # "hostReceive"
    BY <1>a, <1>c, <2>2 DEF Quiet
  <2>q. QED
    BY <2>1, <2>2
<1>3. ASSUME NEW t \in Threads, AskKind(t) PROVE RelayFits'
  <2>1. /\ OnlyCall(t) /\ SameCall(t) /\ call[t].pc = "kind" /\ call[t].op \in KindOps /\ call[t].h \in Handles
        /\ call'[t].result = call[t].result /\ call'[t].pc # "sendRelay"
        /\ UNCHANGED <<inbox, client, open, table>>
    BY <1>0, <1>3, AskKindSteps, StepsFit DEF sockets, relays
  <2>q. QED
    BY <1>c, <2>1
<1>4. ASSUME NEW t \in Threads, KeepKind(t) PROVE RelayFits'
  <2>1. /\ OnlyCall(t) /\ SameCall(t) /\ call[t].pc = "keepKind" /\ call[t].op \in KindOps /\ call[t].h \in Handles
        /\ call'[t].result = call[t].result /\ call'[t].pc # "sendRelay"
        /\ UNCHANGED <<inbox, client, open>>
    BY <1>0, <1>4, KeepKindSteps, StepsFit DEF sockets, relays
  <2>2. \A h \in Handles : table'[h].control = table[h].control
    BY <1>0, <1>4, KeepKindSteps DEF EntrySays
  <2>q. QED
    BY <1>c, <2>1, <2>2
<1>5. ASSUME NEW t \in Threads, Connect(t) PROVE RelayFits'
  <2>1. OnlyCall(t) /\ UNCHANGED <<inbox, client, open, table>> /\ call[t].pc # "closeSocket"
    BY <1>0, <1>5, ConnectSteps DEF sockets, relays, CallMoved, CallEnded
  <2>2. Quiet(t)
    BY <1>0, <1>5, ConnectSteps DEF CallMoved, CallEnded, Quiet
  <2>q. QED
    BY <1>a, <2>1, <2>2
<1>6. ASSUME NEW t \in Threads, ServerAnswers(t) PROVE RelayFits'
  <2>1. OnlyCall(t) /\ UNCHANGED <<inbox, client, open, table>> /\ call[t].pc # "closeSocket"
    BY <1>0, <1>6, ServerAnswersSteps DEF sockets, relays, CallMoved, CallEnded
  <2>2. Quiet(t)
    BY <1>0, <1>6, ServerAnswersSteps DEF CallMoved, CallEnded, Quiet
  <2>q. QED
    BY <1>a, <2>1, <2>2
<1>8. ASSUME NEW t \in Threads, HostConnects(t) PROVE RelayFits'
  <2>1. OnlyCall(t) /\ UNCHANGED <<inbox, client, open, table>> /\ call[t].pc # "closeSocket"
    BY <1>0, <1>8, HostConnectsSteps DEF sockets, relays, CallMoved, CallEnded
  <2>2. Quiet(t)
    BY <1>0, <1>8, HostConnectsSteps DEF CallMoved, CallEnded, Quiet
  <2>q. QED
    BY <1>a, <2>1, <2>2
<1>12. ASSUME NEW t \in Threads, FindPeer(t) PROVE RelayFits'
  <2>1. OnlyCall(t) /\ UNCHANGED <<inbox, client, open, table>> /\ call[t].pc # "closeSocket"
    BY <1>0, <1>12, FindPeerSteps DEF sockets, relays, CallMoved, CallEnded
  <2>2. Quiet(t)
    BY <1>0, <1>12, FindPeerSteps DEF CallMoved, CallEnded, Quiet
  <2>q. QED
    BY <1>a, <2>1, <2>2
<1>14. ASSUME NEW t \in Threads, HostSends(t) PROVE RelayFits'
  <2>1. OnlyCall(t) /\ UNCHANGED <<inbox, client, open, table>> /\ call[t].pc # "closeSocket"
    BY <1>0, <1>14, HostSendsSteps DEF sockets, relays, CallMoved, CallEnded
  <2>2. Quiet(t)
    BY <1>0, <1>14, HostSendsSteps DEF CallMoved, CallEnded, Quiet
  <2>q. QED
    BY <1>a, <2>1, <2>2
<1>7. ASSUME NEW t \in Threads, KeepPeer(t) PROVE RelayFits'
  <2>1. OnlyCall(t) /\ UNCHANGED <<inbox, client, open>> /\ call[t].pc # "closeSocket"
    BY <1>0, <1>7, KeepPeerSteps DEF sockets, relays, CallEnded
  <2>2. Quiet(t) /\ \A h \in Handles : table'[h].control = table[h].control
    BY <1>0, <1>7, KeepPeerSteps DEF CallEnded, Quiet, EntrySays
  <2>q. QED
    BY <1>a, <2>1, <2>2
<1>d. ASSUME NEW a \in Agents, NEW result \in {"ok", "failed"}, Returns(a, result)
      PROVE  OnlyCall(a) /\ (a \in Threads => TakesFit(a)')
  <2>1. OnlyCall(a) /\ (a \in Threads => CallEnded(a))
    BY <1>0, <1>d, ReturnFits
  <2>2. a \in Threads => call'[a].result = IF result \in Results THEN result ELSE "none"
    BY <1>0, <1>d, CallSteps
  <2>q. QED
    BY <2>1, <2>2 DEF TakesFit, CallEnded
<1>e. \A a \in Agents, pc \in Pcs : \A c : CallTook(a, pc, c) /\ a \in Threads =>
         /\ call'[a].result # "header" /\ call'[a].h = call[a].h /\ call'[a].pc = pc /\ call'[a].control = c
    BY RelayMeans DEF CallTook, SameCall, TakesFit
<1>9. ASSUME NEW a \in Agents, Associate(a) PROVE RelayFits'
  <2>1. UNCHANGED <<inbox, client, table>> /\ call[a].pc = "associate" /\ call[a].h \in Handles
    BY <1>0, <1>9, AssociateSteps DEF sockets
  <2>2. \A c \in open : c \in open'
    BY <1>0, <1>9, AssociateSteps
  <2>3. OnlyCall(a) /\ (a \in Threads => TakesFit(a)')
    <3>1. CASE CallTook(a, IF call[a].op \in {"send", "sendto"} THEN "sendRelay" ELSE "read",
                        table[call[a].h].control)
      BY <1>e, <2>1, <3>1 DEF CallTook, TakesFit, Pcs
    <3>2. CASE \E c \in Controls \ open : CallTook(a, "asked", c)
      BY <1>e, <3>2 DEF CallTook, TakesFit, Pcs
    <3>3. CASE Returns(a, "failed")
      BY <1>d, <3>3
    <3>q. QED
      BY <1>0, <1>9, <3>1, <3>2, <3>3, AssociateSteps
  <2>q. QED
    BY <2>1, <2>2, <2>3, RelayKept
<1>10. ASSUME NEW a \in Agents, RelayAnswers(a) PROVE RelayFits'
  <2>1. /\ UNCHANGED <<inbox, client, table>> /\ call[a].pc = "asked" /\ call[a].control \in Controls
    BY <1>0, <1>10, RelayAnswersSteps DEF sockets
  <2>2. client[call[a].control] = NoHandle
    BY <2>1, FreshIsUnused DEF Opens
  <2>3. \A c \in Controls : client[c] # NoHandle /\ c \in open => c \in open'
    BY <1>0, <1>10, <2>2, RelayAnswersSteps
  <2>4. OnlyCall(a) /\ (a \in Threads => TakesFit(a)')
    <3>1. CASE CallMoved(a, "keepRelay")
      BY <3>1, RelayMeans DEF CallMoved, TakesFit
    <3>2. CASE Returns(a, "failed")
      BY <1>d, <3>2
    <3>q. QED
      BY <1>0, <1>10, <3>1, <3>2, RelayAnswersSteps
  <2>q. QED
    BY <2>1, <2>3, <2>4, RelayKept
<1>11. ASSUME NEW a \in Agents, KeepRelay(a) PROVE RelayFits'
  <2> DEFINE h == call[a].h
             c == call[a].control
             next == IF call[a].op \in {"send", "sendto"} THEN "sendRelay" ELSE "read"
  <2>1. UNCHANGED <<inbox, client>> /\ call[a].pc = "keepRelay" /\ h \in Handles /\ c \in Controls
    BY <1>0, <1>11, KeepRelaySteps DEF sockets
  <2>2. CASE /\ table[h].control = NoControl /\ EntrySays(h, table[h].kind, c, table[h].peer)
             /\ CallTook(a, next, c) /\ UNCHANGED open
    <3>1. \A g \in Handles : Closing(g) => Closing(g)'
      BY <2>1, <2>2, ClosingStays DEF CallTook
    <3>2. \A g \in Handles : RelayKnown(g)'
      BY <2>1, <2>2, <3>1, RelayMeans DEF RelayKnown, EntrySays
    <3>3. ASSUME NEW d \in Controls PROVE ClientKnown(d)'
      <4> SUFFICES ASSUME client[d] # NoHandle PROVE d \in open /\ table'[client[d]].control = d
        BY <2>1, <2>2 DEF ClientKnown
      <4>1. client[d] \in Handles /\ d \in open /\ table[client[d]].control = d
        BY <1>0, RelayMeans DEF ClientKnown, TypeOK
      <4>2. client[d] # h
        BY <2>2, <4>1, ProxyAgents
      <4>q. QED
        BY <2>2, <4>1, <4>2 DEF EntrySays
    <3>4. ASSUME NEW t \in Threads, t # a PROVE TakesFit(t)'
      <4>1. call'[t] = call[t] /\ TakesFit(t) /\ CallFits(t)
        BY <2>2, <3>4, RelayMeans DEF CallTook, OnlyCall
      <4>2. call[t].pc = "sendRelay" => call[t].h \in Handles /\ call[t].h # h
        BY <2>2, <4>1, ProxyAgents DEF TakesFit, CallFits
      <4>q. QED
        BY <2>1, <2>2, <4>1, <4>2 DEF TakesFit, EntrySays
    <3>5. a \in Threads => TakesFit(a)'
      BY <1>e, <2>2 DEF TakesFit, EntrySays, Pcs
    <3>q. QED
      BY <3>2, <3>3, <3>4, <3>5 DEF RelayFits
  <2>3. CASE CallTook(a, next, table[h].control) /\ open' = open \ {c} /\ UNCHANGED table
    <3>1. client[c] = NoHandle
      BY <2>1, FreshIsUnused DEF Opens
    <3>2. OnlyCall(a) /\ (a \in Threads => TakesFit(a)')
      BY <1>e, <2>3 DEF CallTook, TakesFit, Pcs
    <3>q. QED
      BY <2>1, <2>3, <3>1, <3>2, RelayKept
  <2>q. QED
    BY <1>0, <1>11, <2>2, <2>3, KeepRelaySteps
<1>13. ASSUME NEW t \in Threads, SendToRelay(t) PROVE RelayFits'
  <2> DEFINE h == call[t].h
             c == call[t].control
  <2>1. /\ call[t].pc = "sendRelay" /\ h \in Handles /\ c \in Controls /\ UNCHANGED <<inbox, open, table>>
        /\ CallEnded(t) /\ OnlyCall(t) /\ call'[t].result = "none"
        /\ client' = IF kind[h] = "datagram" THEN [client EXCEPT ![c] = h] ELSE client
    BY <1>0, <1>13, SendToRelaySteps DEF sockets, CallEnded
  <2>2. table[h].control = c /\ c \in open /\ call[t].op \in {"send", "sendto"} /\ "datagram" \in carried
    BY <2>1, ProxyAgents, RelayMeans DEF TakesFit, HeldFits, UseFits, RelayPcs
  <2>3. \A g \in Handles : RelayKnown(g)'
    BY <1>0, <2>1, ClosingStays, RelayMeans DEF RelayKnown
  <2>4. client' = client \/ (client'[c] = h /\ \A d \in Controls : d # c => client'[d] = client[d])
    BY <1>0, <2>1 DEF TypeOK
  <2>5. \A d \in Controls : ClientKnown(d)'
    BY <2>1, <2>2, <2>4, RelayMeans DEF ClientKnown
  <2>6. ASSUME NEW u \in Threads, u # t PROVE TakesFit(u)'
    <3>1. call'[u] = call[u] /\ TakesFit(u) /\ UseFits(u)
      BY <1>0, <2>1, <2>6, RelayMeans DEF OnlyCall
    <3>2. call[u].pc = "hostReceive" => call[u].h # h
      BY <2>2, <3>1, RelayMeans DEF UseFits, AloneFits, ReadsAlone
    <3>q. QED
      BY <2>1, <2>4, <3>1, <3>2 DEF TakesFit
  <2>7. TakesFit(t)'
    BY <2>1 DEF TakesFit, CallEnded
  <2>q. QED
    BY <2>3, <2>5, <2>6, <2>7 DEF RelayFits
<1>15. ASSUME NEW a \in Agents, Read(a) PROVE RelayFits'
  <2>1. /\ call[a].pc = "read" /\ call[a].h \in Handles
        /\ DatagramTaken(a, Head(inbox[call[a].h]) = table[call[a].h].control)
    BY <1>0, <1>15, ReadSteps
  <2>2. a \in Threads => ~Closing(call[a].h)
    BY <1>0, <2>1, NotClosing DEF CallFits
  <2>q. QED
    BY <2>1, <2>2, ReadUnwraps, RelayReads
<1>16. ASSUME NEW t \in Threads, FindAssociation(t) PROVE RelayFits'
  <2>1. /\ OnlyCall(t) /\ SameCall(t) /\ call[t].pc = "association" /\ call[t].h \in Handles
        /\ call'[t].result = call[t].result /\ call'[t].pc \in {"unwrap", "hostReceive"}
        /\ call'[t].pc = "hostReceive" => carried = {} \/ table[call[t].h].control = NoControl
        /\ UNCHANGED <<inbox, client, open, table>>
    BY <1>0, <1>16, FindAssociationSteps DEF CallMoved, sockets, relays
  <2>2. CASE call'[t].pc = "hostReceive"
    <3>1. table[call[t].h].control = NoControl /\ call[t].op # "closesocket"
      BY <1>0, <2>1, <2>2, RelayMeans DEF UncarriedFits, CallFits
    <3>2. TakesFit(t)'
      BY <2>1, <2>2, <3>1, ReadsUnrelayed
    <3>q. QED
      BY <1>0, <2>1, <3>2, RelayKept
  <2>3. CASE call'[t].pc = "unwrap"
    BY <1>a, <2>1, <2>3 DEF Quiet
  <2>q. QED
    BY <2>1, <2>2, <2>3
<1>17. ASSUME NEW t \in Threads, Unwrap(t) PROVE RelayFits'
  <2>1. /\ call[t].pc = "unwrap" /\ call[t].h \in Handles
        /\ DatagramTaken(t, Head(inbox[call[t].h]) = table[call[t].h].control)
    BY <1>0, <1>17, UnwrapSteps
  <2>2. ~Closing(call[t].h)
    BY <1>0, <2>1, NotClosing DEF CallFits
  <2>q. QED
    BY <1>0, <2>1, <2>2, ReadUnwraps, RelayReads
<1>18. ASSUME NEW t \in Threads, HostReceives(t) PROVE RelayFits'
  <2>1. call[t].pc = "hostReceive" /\ call[t].h \in Handles /\ DatagramTaken(t, FALSE)
    BY <1>0, <1>18, HostReceivesSteps
  <2>2. inbox[call[t].h] # << >> =>
          1 \in 1 .. Len(inbox[call[t].h]) /\ Head(inbox[call[t].h]) = inbox[call[t].h][1]
    BY <1>0, <2>1 DEF TypeOK
  <2>3. inbox[call[t].h] # << >> => Head(inbox[call[t].h]) = NoControl
    BY <2>1, <2>2, RelayMeans DEF TakesFit
  <2>q. QED
    BY <1>0, <2>1, <2>3, RelayReads
<1>19. ASSUME NEW t \in Threads, QueueReceive(t) PROVE RelayFits'
  <2>1. OnlyCall(t) /\ UNCHANGED <<inbox, client, open, table>> /\ call[t].pc # "closeSocket"
    BY <1>0, <1>19, QueueReceiveSteps DEF sockets, relays
  <2>2. Quiet(t)
    BY <1>0, <1>19, QueueReceiveSteps DEF Quiet
  <2>q. QED
    BY <1>a, <2>1, <2>2
<1>20. ASSUME NEW t \in Threads, ReleaseState(t) PROVE RelayFits'
  <2> DEFINE h == call[t].h
             c == table[h].control
  <2>1. /\ call[t].pc = "forget" /\ h \in Handles /\ UNCHANGED inbox /\ open' = open \ {c}
        /\ client' = [d \in Controls |-> IF d = c THEN NoHandle ELSE client[d]]
        /\ EntrySays(h, "unknown", NoControl, NoPeer) /\ CallMoved(t, "closeSocket")
    BY <1>0, <1>20, ReleaseStateSteps DEF sockets
  <2>2. \A g \in Handles : Closing(g) \/ g = h => Closing(g)'
    BY <1>0, <2>1, ClosingStays DEF Closing, CallMoved, SameCall
  <2>3. ASSUME NEW g \in Handles PROVE RelayKnown(g)'
    <3>1. CASE g = h
      BY <2>2, <3>1 DEF RelayKnown
    <3>2. CASE g # h
      <4>1. table'[g] = table[g] /\ inbox'[g] = inbox[g] /\ RelayKnown(g)
        BY <2>1, <3>2, RelayMeans DEF EntrySays
      <4>q. QED
        BY <2>2, <4>1 DEF RelayKnown
    <3>q. QED
      BY <3>1, <3>2
  <2>4. ASSUME NEW d \in Controls, client'[d] # NoHandle PROVE d \in open' /\ table'[client'[d]].control = d
    <3>1. d # c /\ client'[d] = client[d] /\ d \in open /\ client[d] \in Handles /\ table[client[d]].control = d
      BY <1>0, <2>1, <2>4, RelayMeans DEF ClientKnown, TypeOK
    <3>2. client[d] # h
      BY <3>1
    <3>q. QED
      BY <2>1, <3>1, <3>2 DEF EntrySays
  <2>5. ASSUME NEW u \in Threads, u # t PROVE TakesFit(u)'
    <3>1. call'[u] = call[u] /\ TakesFit(u) /\ CallFits(u)
      BY <1>0, <2>1, <2>5, RelayMeans DEF OnlyCall, CallMoved
    <3>2. call[u].h # h
      BY <1>0, <2>1, <2>5, RelayMeans DEF KindFits, CallFits
    <3>3. call[u].pc = "sendRelay" => table'[call[u].h] = table[call[u].h]
      BY <2>1, <3>1, <3>2 DEF CallFits, EntrySays
    <3>4. call[u].pc = "hostReceive" => \A d \in Controls : client'[d] # call[u].h
      BY <2>1, <3>1, ProxyAgents DEF TakesFit, CallFits
    <3>q. QED
      BY <2>1, <3>1, <3>3, <3>4 DEF TakesFit
  <2>6. TakesFit(t)'
    BY <2>1, RelayMeans DEF TakesFit, CallMoved
  <2>q. QED
    BY <2>3, <2>4, <2>5, <2>6 DEF RelayFits, ClientKnown
<1>21. ASSUME NEW t \in Threads, CloseSocket(t) PROVE RelayFits'
  <2> DEFINE h == call[t].h
  <2>1. /\ call[t].pc = "closeSocket" /\ h \in Handles /\ UNCHANGED <<open, table>>
        /\ inbox' = [inbox EXCEPT ![h] = << >>] /\ CallEnded(t) /\ OnlyCall(t) /\ call'[t].result = "none"
        /\ client' = [d \in Controls |-> IF client[d] = h THEN NoHandle ELSE client[d]]
    BY <1>0, <1>21, CloseSocketSteps DEF CallEnded
  <2>2. inbox'[h] = << >> /\ \A g \in Handles : g # h => inbox'[g] = inbox[g]
    BY <1>0, <2>1 DEF TypeOK
  <2>3. ASSUME NEW g \in Handles PROVE RelayKnown(g)'
    <3>1. CASE g = h
      BY <2>2, <3>1 DEF RelayKnown
    <3>2. CASE g # h
      <4>1. ASSUME Closing(g) PROVE Closing(g)'
        <5>1. PICK u \in Threads : call[u].pc = "closeSocket" /\ call[u].h = g
          BY <4>1 DEF Closing
        <5>2. call'[u] = call[u]
          BY <1>0, <2>1, <3>2, <5>1 DEF OnlyCall
        <5>q. QED
          BY <5>1, <5>2 DEF Closing
      <4>q. QED
        BY <2>1, <2>2, <3>2, <4>1, RelayMeans DEF RelayKnown
    <3>q. QED
      BY <3>1, <3>2
  <2>4. \A d \in Controls : ClientKnown(d)'
    BY <2>1, RelayMeans DEF ClientKnown
  <2>5. ASSUME NEW u \in Threads, u # t PROVE TakesFit(u)'
    <3>1. call'[u] = call[u] /\ TakesFit(u) /\ CallFits(u)
      BY <1>0, <2>1, <2>5, RelayMeans DEF OnlyCall
    <3>2. call[u].h # h
      BY <1>0, <2>1, <2>5, RelayMeans DEF KindFits, CallFits
    <3>3. call[u].pc = "hostReceive" => inbox'[call[u].h] = inbox[call[u].h]
      BY <2>2, <3>1, <3>2 DEF CallFits
    <3>4. call[u].pc = "hostReceive" => \A d \in Controls : client'[d] # call[u].h
      BY <2>1, <3>1, ProxyAgents DEF TakesFit, CallFits
    <3>q. QED
      BY <2>1, <3>1, <3>3, <3>4 DEF TakesFit
  <2>6. TakesFit(t)'
    BY <2>1 DEF TakesFit, CallEnded
  <2>q. QED
    BY <2>3, <2>4, <2>5, <2>6 DEF RelayFits
<1>22. ASSUME WorkerTakes PROVE RelayFits'
    BY <1>0, <1>b, <1>22, WorkerTakesSteps DEF CallMoved, sockets
<1>23. ASSUME WorkerSelects PROVE RelayFits'
    BY <1>0, <1>b, <1>23, WorkerSelectsSteps DEF CallMoved, sockets
<1>24. ASSUME WorkerPutsBack PROVE RelayFits'
    BY <1>b, <1>24, WorkerPutsBackSteps DEF sockets
<1>25. ASSUME WorkerReceives PROVE RelayFits'
  <2>1. batch # << >>
    BY <1>25 DEF WorkerReceives
  <2>2. OnlyCall(Worker) /\ UNCHANGED <<inbox, relays, table>>
    BY <1>0, <1>25, <2>1, CallTypes, BatchServed, WorkBegins DEF sockets
  <2>q. QED
    BY <1>b, <2>2
<1>26. ASSUME NEW r \in Receives, DeadlinePasses(r) PROVE RelayFits'
    BY <1>b, <1>26 DEF DeadlinePasses, sockets
<1>27. ASSUME NEW h \in Handles, DatagramArrives(h) PROVE RelayFits'
  <2>1. UNCHANGED <<client, open, table, call>>
    BY <1>27 DEF DatagramArrives, relays
  <2>2. PICK from \in {c \in open : client[c] = h} \cup {NoControl} : inbox' = [inbox EXCEPT ![h] = Append(@, from)]
    BY <1>27 DEF DatagramArrives
  <2>3. from = NoControl \/ (from \in Controls /\ client[from] = h /\ table[h].control = from)
    BY <1>0, ProxyAgents, RelayMeans DEF ClientKnown, TypeOK
  <2>4. /\ \A g \in Handles : g # h => inbox'[g] = inbox[g]
        /\ \A i \in 1 .. Len(inbox'[h]) : (i \in 1 .. Len(inbox[h]) /\ inbox'[h][i] = inbox[h][i]) \/ inbox'[h][i] = from
    <3>1. inbox'[h] = Append(inbox[h], from) /\ inbox[h] \in Seq(Controls \cup {NoControl})
      BY <1>0, <2>2 DEF TypeOK
    <3>2. from \in Controls \cup {NoControl}
      BY <2>3
    <3>3. \A i \in 1 .. Len(Append(inbox[h], from)) :
             \/ i \in 1 .. Len(inbox[h]) /\ Append(inbox[h], from)[i] = inbox[h][i]
             \/ Append(inbox[h], from)[i] = from
      BY <3>1, <3>2
    <3>q. QED
      BY <1>0, <2>2, <3>1, <3>3 DEF TypeOK
  <2>5. ASSUME NEW g \in Handles PROVE RelayKnown(g)'
    <3>1. Closing(g)' <=> Closing(g)
      BY <2>1 DEF Closing
    <3>q. QED
      BY <2>1, <2>3, <2>4, <3>1, RelayMeans DEF RelayKnown
  <2>6. \A c \in Controls : ClientKnown(c)'
    BY <2>1, RelayMeans DEF ClientKnown
  <2>7. ASSUME NEW t \in Threads PROVE TakesFit(t)'
    <3>1. TakesFit(t) /\ CallFits(t)
      BY <1>0, RelayMeans
    <3>2. CASE call[t].pc = "hostReceive" /\ call[t].h = h
      BY <2>1, <2>3, <2>4, <3>1, <3>2 DEF TakesFit
    <3>3. CASE call[t].pc = "hostReceive" /\ call[t].h # h
      <4>1. inbox'[call[t].h] = inbox[call[t].h]
        BY <2>4, <3>1, <3>3 DEF CallFits
      <4>q. QED
        BY <2>1, <3>1, <4>1 DEF TakesFit
    <3>4. CASE call[t].pc # "hostReceive"
      BY <2>1, <3>1, <3>4 DEF TakesFit
    <3>q. QED
      BY <3>2, <3>3, <3>4
  <2>q. QED
    BY <2>5, <2>6, <2>7 DEF RelayFits
<1>28. ASSUME UNCHANGED vars PROVE RelayFits'
    BY <1>b, <1>28 DEF vars, sockets
<1>q. QED
    BY <1>1, <1>2, <1>3, <1>4, <1>5, <1>6, <1>7, <1>8, <1>9, <1>10, <1>11, <1>12, <1>13, <1>14, <1>15,
       <1>16, <1>17, <1>18, <1>19, <1>20, <1>21, <1>22, <1>23, <1>24, <1>25, <1>26, <1>27, <1>28,
       ProxySteps

\* Only a read of the worker completes a receive with the header, and only while its socket is
\* being closed.
LEMMA HeaderReceived ==
    ASSUME RelayInv, Unwraps, [Next]_vars,
           NEW r \in Receives, status[r] # "header", status'[r] = "header"
    PROVE  \E t \in Calling(of[r]) : call[t].op = "closesocket"
<1>0. TypeOK /\ (\A a \in Agents : CallFits(a)) /\ \A t \in Threads : t \in Agents
    BY RelayMeans
<1>a. ~UNCHANGED status
    OBVIOUS
<1>b. ASSUME NEW a \in Agents, NEW result, Returns(a, result)
      PROVE  a = Worker /\ r = Current /\ result = "header"
  <2>1. (a \in Threads => CallEnded(a)) /\ (a = Worker => WorkEnded(result))
    BY <1>b, ReturnFits, RelayMeans
  <2>q. QED
    BY <1>a, <2>1, ProxyAgents DEF CallEnded, WorkEnded
<1>c. ASSUME NEW a \in Agents, NEW unwraps, DatagramTaken(a, unwraps), call[a].h \in Handles
      PROVE  /\ a = Worker /\ r = Current
             /\ inbox[call[a].h] # << >> /\ Head(inbox[call[a].h]) # NoControl /\ ~unwraps
    BY <1>b, <1>c DEF DatagramTaken
<1>1. ASSUME NEW h \in Handles, NEW k \in Kinds, OpenSocket(h, k) PROVE FALSE
    BY <1>a, <1>1 DEF OpenSocket, receives
<1>2. ASSUME NEW t \in Threads, NEW op \in Ops, NEW h \in Handles, NEW p \in Targets \cup {NoPeer},
             Begin(t, op, h, p)
      PROVE  FALSE
    BY <1>a, <1>2 DEF Begin, receives
<1>3. ASSUME NEW t \in Threads, AskKind(t) \/ KeepKind(t) \/ FindPeer(t) \/ FindAssociation(t)
      PROVE  FALSE
    BY <1>a, <1>3 DEF AskKind, KeepKind, FindPeer, FindAssociation, receives
<1>4. ASSUME NEW t \in Threads, Connect(t) \/ ServerAnswers(t) PROVE FALSE
  <2>1. UNCHANGED receives
    BY <1>0, <1>4, ConnectSteps, ServerAnswersSteps
  <2>q. QED
    BY <1>a, <2>1 DEF receives
<1>5. ASSUME NEW t \in Threads, KeepPeer(t) \/ HostConnects(t) \/ SendToRelay(t) \/ HostSends(t)
      PROVE  FALSE
  <2>1. UNCHANGED receives
    BY <1>0, <1>5, KeepPeerSteps, HostConnectsSteps, SendToRelaySteps, HostSendsSteps
  <2>q. QED
    BY <1>a, <2>1 DEF receives
<1>6. ASSUME NEW a \in Agents, Associate(a) \/ RelayAnswers(a) \/ KeepRelay(a) PROVE FALSE
  <2>1. UNCHANGED receives \/ Returns(a, "failed")
    BY <1>0, <1>6, AssociateSteps, RelayAnswersSteps, KeepRelaySteps
  <2>2. ~Returns(a, "failed")
    BY <1>b
  <2>q. QED
    BY <1>a, <2>1, <2>2 DEF receives
<1>7. ASSUME NEW a \in Agents, Read(a) PROVE \E t \in Calling(of[r]) : call[t].op = "closesocket"
  <2>1. /\ call[a].pc = "read" /\ call[a].h \in Handles
        /\ DatagramTaken(a, Head(inbox[call[a].h]) = table[call[a].h].control)
    BY <1>0, <1>7, ReadSteps
  <2>2. /\ a = Worker /\ r = Current
        /\ inbox[call[a].h] # << >> /\ Head(inbox[call[a].h]) # NoControl
        /\ Head(inbox[call[a].h]) # table[call[a].h].control
    BY <1>c, <2>1
  <2>3. Closing(call[a].h) /\ call[a].h = of[r]
    BY <2>1, <2>2, ReadUnwraps, RelayMeans DEF ServesCurrent
  <2>4. PICK t \in Threads : call[t].pc = "closeSocket" /\ call[t].h = of[r]
    BY <2>3 DEF Closing
  <2>q. QED
    BY <1>0, <2>4 DEF Calling, CallFits
<1>8. ASSUME NEW t \in Threads, Unwrap(t) \/ HostReceives(t) PROVE FALSE
    BY <1>0, <1>8, <1>c, UnwrapSteps, HostReceivesSteps, ProxyAgents
<1>9. ASSUME NEW t \in Threads, QueueReceive(t) PROVE FALSE
  <2>1. UNCHANGED status \/ \E q \in Receives : status' = [status EXCEPT ![q] = "queued"]
    BY <1>0, <1>9, QueueReceiveSteps
  <2>q. QED
    BY <1>0, <1>a, <2>1 DEF TypeOK
<1>10. ASSUME NEW t \in Threads, ReleaseState(t) \/ CloseSocket(t) PROVE FALSE
  <2>1. UNCHANGED receives
    BY <1>0, <1>10, ReleaseStateSteps, CloseSocketSteps
  <2>q. QED
    BY <1>a, <2>1 DEF receives
<1>11. ASSUME WorkerTakes \/ WorkerSelects PROVE FALSE
    BY <1>0, <1>a, <1>11, WorkerTakesSteps, WorkerSelectsSteps
<1>12. ASSUME WorkerPutsBack PROVE FALSE
  <2>1. \/ status' = [q \in Receives |-> IF q = Current THEN "failed" ELSE status[q]]
        \/ status' = [status EXCEPT ![Current] = "queued"]
    BY <1>12, WorkerPutsBackSteps
  <2>q. QED
    BY <1>0, <1>a, <2>1 DEF TypeOK
<1>13. ~WorkerReceives /\ (\A q \in Receives : ~DeadlinePasses(q)) /\ \A h \in Handles : ~DatagramArrives(h)
    BY <1>a DEF WorkerReceives, DeadlinePasses, DatagramArrives, receives
<1>14. ~UNCHANGED vars
    BY <1>a DEF vars, receives
<1>q. QED
    BY <1>1, <1>2, <1>3, <1>4, <1>5, <1>6, <1>7, <1>8, <1>9, <1>10, <1>11, <1>12, <1>13, <1>14, ProxySteps

\* Whichever call takes a datagram of a relay hands it over without the header, unless the socket
\* of an overlapped receive is being closed at that moment: for an application which neither
\* closes a socket beside a call of it nor sends through one which it reads as the host does.
THEOREM RelayUnwrapped ==
    ASSUME \A s \in Scenarios : {"race", "readFirst"} \cap s.habits = {}
    PROVE  Spec => RelayIsUnwrapped
<1> DEFINE I == RelayInv /\ Unwraps
           Keeps == /\ \A t \in Threads : call'[t].result # "header"
                    /\ \A r \in Receives : status[r] # "header" /\ status'[r] = "header" =>
                         \E t \in Calling(of[r]) : call[t].op = "closesocket"
<1>1. Init => I
  <2> SUFFICES ASSUME Init PROVE I
    OBVIOUS
  <2>1. Unwraps
    BY DEF Init, Unwraps
  <2>2. HeldInv /\ KindInv
    BY <2>1, HeldInit, KindSafe DEF Unwraps
  <2>3. /\ \A t \in Threads : call[t].pc = "idle" /\ call[t].op = "none" /\ call[t].result = "none"
        /\ call[Worker].pc = "serve"
    BY ProxyAgents DEF Init, Home
  <2>4. /\ queue = << >> /\ batch = << >> /\ \A h \in Handles : inbox[h] = << >>
        /\ \A h \in Handles : table[h].control = NoControl
        /\ \A c \in Controls : client[c] = NoHandle
    BY DEF Init, NoEntry
  <2>5. (\A t \in Threads : UseFits(t)) /\ AloneFits
    BY <2>3 DEF UseFits, AloneFits, ReadsAlone, RelayPcs, DatagramOps
  <2>6. UncarriedFits /\ ServesCurrent
    BY <2>3, <2>4 DEF UncarriedFits, ServesCurrent
  <2>7. RelayFits
    BY <2>3, <2>4 DEF RelayFits, RelayKnown, ClientKnown, TakesFit
  <2>q. QED
    BY <2>1, <2>2, <2>5, <2>6, <2>7 DEF RelayInv, UseInv
<1>2. I /\ [Next]_vars => I'
    BY UseNext, RelayStep DEF RelayInv
<1>3. I /\ I' /\ [Next]_vars => [Keeps]_vars
  <2> SUFFICES ASSUME I, I', [Next]_vars PROVE Keeps
    OBVIOUS
  <2>1. \A t \in Threads : call'[t].result # "header"
    BY DEF RelayInv, RelayFits, TakesFit
  <2>q. QED
    BY <2>1, HeaderReceived
<1>q. QED
    BY <1>1, <1>2, <1>3, PTL DEF Spec, RelayIsUnwrapped
=============================================================================
