-------------------------------- MODULE Proxy --------------------------------
(***************************************************************************)
(* The network isolation of a process (sandbox/network/Proxy.cpp and        *)
(* Completion.cpp behind the hooks of ws2_32): streams are connected through *)
(* a SOCKS5 server, datagrams are carried by one association per socket,     *)
(* and overlapped receives are answered by a worker.  The state of a socket  *)
(* is kept by the VALUE of its handle, which the stack uses again.           *)
(*                                                                          *)
(* An agent is a thread of the application or the worker.  The relay of an   *)
(* association is named by its control connection, and a datagram by the     *)
(* relay it came from.  Every address is one the hooks can parse: a connect  *)
(* or sendto with another one, which is none of IP, goes to the host at once *)
(* (EndpointFromSockaddr()), and is left out.                                *)
(***************************************************************************)
EXTENDS Naturals, Sequences, FiniteSets

CONSTANTS
    Threads,    \* the threads of the application
    Worker,     \* the thread which serves the overlapped receives
    Handles,    \* the values of the sockets of the application
    Controls,   \* the control connections which can be open at a time
    Peers,      \* the addresses the application talks to
    Server,     \* the address of the server of the proxy
    NoHandle, NoPeer, NoControl,
    Scenarios,  \* what the layers of a run name, and what its application does
    MaxReceives, \* bound: overlapped receives of a run
    MaxPending, \* kMaxPendingReceives
    MaxInbox    \* bound: datagrams which wait in a socket

\* "threads": several threads call at a time; "cancel": sockets are closed while an overlapped receive waits; "race": sockets are
\* closed while another thread calls with them; "wsaConnect": datagram sockets are
\* connected by WSAConnect; "readFirst": one thread reads a socket with recvfrom while
\* another sends its first datagram.
ProxyHabits == {"threads", "cancel", "race", "wsaConnect", "readFirst"}
Agents   == Threads \cup {Worker}
Receives == 1..MaxReceives
Targets  == Peers \cup {Server}
Kinds    == {"stream", "datagram"}

ASSUME ProxyAssumption ==
    /\ Worker \notin Threads
    /\ NoHandle \notin Handles /\ NoPeer \notin Targets /\ NoControl \notin Controls
    /\ Server \notin Peers
    /\ IsFiniteSet(Controls)
    /\ \A s \in Scenarios :
            /\ s.layers \in Seq([enabled : BOOLEAN, carries : SUBSET Kinds])
            /\ s.habits \subseteq ProxyHabits /\ s.blocking \subseteq Handles
            /\ s.receives \in 0..MaxReceives
    /\ {MaxReceives, MaxPending, MaxInbox} \subseteq Nat

VARIABLES
    kind,    \* the sockets of the stack, "none" of a value which is free
    stack,   \* what the stack connected a socket to
    inbox,   \* the datagrams which wait in a socket
    open,    \* the control connections which are open
    client,  \* the socket which sent through a relay
    carried, \* the kinds of sockets the proxy carries (Proxy::tcp_, Proxy::udp_)
    blocking, \* the handles whose sockets block
    habits,  \* what the application does, a subset of ProxyHabits
    table,   \* Proxy::sockets_
    call,    \* the call of every agent
    status,  \* the overlapped receives
    of,      \* the value of the socket of a receive
    late,    \* the receives whose deadline passed
    queue,   \* ReceiveQueue::items
    batch    \* what the worker took out of it, and whether select() found its socket readable

sockets  == <<kind, stack, inbox>>
relays   == <<open, client>>
settings == <<carried, blocking, habits>>
receives == <<status, of, late, queue, batch>>
vars     == <<sockets, relays, settings, table, call, receives>>

Unconnected == [via |-> "none", to |-> NoPeer]
NoEntry     == [kind |-> "unknown", control |-> NoControl, peer |-> NoPeer]
Entries     == [kind : Kinds \cup {"unknown"}, control : Controls \cup {NoControl},
                peer : Targets \cup {NoPeer}]

\* Where a call begins in its hook: the first check of each of them.
FirstStep(op) ==
    CASE op = "connect"                     -> IF carried # {} THEN "kind" ELSE "hostConnect"
      [] op = "WSAConnect"                  -> IF "stream" \in carried THEN "kind" ELSE "hostConnect"
      [] op = "ConnectEx"                   -> IF "stream" \in carried THEN "connect" ELSE "hostConnect"
      [] op \in {"send", "sendto"}          -> IF "datagram" \in carried THEN "kind" ELSE "hostSend"
      [] op \in {"recv", "WSARecv"}         -> IF "datagram" \in carried THEN "kind" ELSE "hostReceive"
      [] op = "recvfrom"                    -> "association"
      [] op = "closesocket"                 -> "forget"

\* How a hook goes on once it knows the kind of its socket.
StepForKind(op, k) ==
    CASE op = "connect" /\ k = "stream"     -> IF "stream" \in carried THEN "connect" ELSE "hostConnect"
      [] op = "connect" /\ k # "stream"     -> IF "datagram" \in carried THEN "keepPeer" ELSE "hostConnect"
      [] op = "WSAConnect"                  -> IF k = "stream" THEN "connect" ELSE "hostConnect"
      [] op = "send"                        -> IF k = "datagram" THEN "peer" ELSE "hostSend"
      [] op = "sendto"                      -> IF k = "datagram" THEN "associate" ELSE "hostSend"
      [] op = "recv"                        -> IF k = "datagram" THEN "associate" ELSE "hostReceive"
      [] op = "WSARecv"                     -> IF k = "datagram" THEN "queue" ELSE "hostReceive"

Ops == {"connect", "WSAConnect", "ConnectEx", "send", "sendto", "recv", "WSARecv", "recvfrom",
        "closesocket"}
Pcs == {"idle", "serve", "select", "kind", "keepKind", "peer", "connect", "handshake", "keepPeer",
        "associate", "asked", "keepRelay", "sendRelay", "read", "queue", "association", "unwrap",
        "hostConnect", "hostSend", "hostReceive", "forget", "closeSocket"}
Results == {"none", "direct", "header"}

\* An agent between two calls; `result` is what the last one did that it should not.
Home(a, result) ==
    [pc |-> IF a = Worker THEN "serve" ELSE "idle", op |-> "none", h |-> NoHandle, to |-> NoPeer,
     control |-> NoControl, seen |-> "unknown", result |-> result]

TypeOK ==
    /\ kind \in [Handles -> Kinds \cup {"none"}]
    /\ stack \in [Handles -> [via : {"none", "server", "tunnel", "host"}, to : Targets \cup {NoPeer}]]
    /\ inbox \in [Handles -> Seq(Controls \cup {NoControl})]
    /\ open \subseteq Controls
    /\ client \in [Controls -> Handles \cup {NoHandle}]
    /\ carried \subseteq Kinds
    /\ blocking \subseteq Handles /\ habits \subseteq ProxyHabits
    /\ table \in [Handles -> Entries]
    /\ call \in [Agents -> [pc : Pcs, op : Ops \cup {"none"}, h : Handles \cup {NoHandle},
                            to : Targets \cup {NoPeer}, control : Controls \cup {NoControl},
                            seen : Kinds \cup {"unknown"}, result : Results]]
    /\ status \in [Receives -> {"unused", "new", "queued", "taken", "ok", "failed", "header"}]
    /\ of \in [Receives -> Handles \cup {NoHandle}]
    /\ late \subseteq Receives
    /\ queue \in Seq(Receives)
    /\ batch \in Seq([receive : Receives, readable : BOOLEAN])

\* Isolation::Init(): the last layer which names a usable proxy configures it.
ConfiguredBy(layers) ==
    LET usable == {i \in DOMAIN layers : layers[i].enabled}
    IN  IF usable = {} THEN {}
        ELSE layers[CHOOSE i \in usable : \A j \in usable : j <= i].carries

Init ==
    /\ kind = [h \in Handles |-> "none"]
    /\ stack = [h \in Handles |-> Unconnected]
    /\ inbox = [h \in Handles |-> << >>]
    /\ open = {}
    /\ client = [c \in Controls |-> NoHandle]
    /\ \E s \in Scenarios :
            /\ carried = ConfiguredBy(s.layers)
            /\ blocking = s.blocking /\ habits = s.habits
            /\ status = [r \in Receives |-> IF r <= s.receives THEN "new" ELSE "unused"]
    /\ table = [h \in Handles |-> NoEntry]
    /\ call = [a \in Agents |-> Home(a, "none")]
    /\ of = [r \in Receives |-> NoHandle]
    /\ late = {}
    /\ queue = << >> /\ batch = << >>

At(a, pc) == call[a].pc = pc
Goes(a, pc) == call' = [call EXCEPT ![a].pc = pc]

\* The receive the worker looks at.
Current == Head(batch).receive

\* CompleteOverlapped().
Completes(rs, result) ==
    /\ status' = [r \in Receives |-> IF r \in rs THEN result ELSE status[r]]
    /\ of' = [r \in Receives |-> IF r \in rs THEN NoHandle ELSE of[r]]
    /\ late' = late \ rs

\* A call returns.  To the worker that is the completion of the receive it works on.
Returns(a, result) ==
    /\ call' = [call EXCEPT ![a] = Home(a, IF a # Worker /\ result \in Results THEN result ELSE "none")]
    /\ IF a = Worker
       THEN Completes({Current}, result) /\ batch' = Tail(batch)
       ELSE UNCHANGED <<status, of, late, batch>>
    /\ UNCHANGED queue
-----------------------------------------------------------------------------
(* The application: it opens a socket and begins a call.                   *)

OpenSocket(h, k) ==
    /\ kind[h] = "none"
    /\ kind' = [kind EXCEPT ![h] = k]
    /\ UNCHANGED <<stack, inbox, relays, settings, table, call, receives>>

Calling(h) == {t \in Threads : call[t].h = h}
Pending(h) == {r \in Receives : of[r] = h /\ status[r] \in {"queued", "taken"}}
ReadsAsHost(h) == {t \in Calling(h) : At(t, "association") \/ At(t, "hostReceive")}
Sends(h) == {t \in Calling(h) : call[t].op \in {"send", "sendto"}}
Connects(h) == {t \in Calling(h) : call[t].op \in {"connect", "WSAConnect", "ConnectEx"}}

\* What an application does with a socket, apart from its habits.
Sensible(op, h) ==
    /\ kind[h] # "none"
    /\ \A t \in Calling(h) : call[t].op # "closesocket"
    /\ CASE op = "ConnectEx" -> kind[h] = "stream" /\ Connects(h) = {}
         [] op = "connect" -> Connects(h) = {}
         [] op = "WSAConnect" ->
                /\ Connects(h) = {}
                /\ kind[h] = "stream" \/ "datagram" \notin carried \/ "wsaConnect" \in habits
         [] op = "send" -> kind[h] = "datagram" => ReadsAsHost(h) = {} \/ "readFirst" \in habits
         [] op = "sendto" -> kind[h] = "datagram" /\ (ReadsAsHost(h) = {} \/ "readFirst" \in habits)
         [] op = "recv" -> kind[h] = "datagram"
         [] op = "recvfrom" -> kind[h] = "datagram" /\ (Sends(h) = {} \/ "readFirst" \in habits)
         [] op = "WSARecv" -> kind[h] = "datagram" /\ \E r \in Receives : status[r] = "new"
         [] op = "closesocket" ->
                /\ Calling(h) = {} \/ "race" \in habits
                /\ Pending(h) = {} \/ "cancel" \in habits

\* The addresses a call names which decide what becomes of the socket.
Aims(op) == IF op \in {"connect", "WSAConnect", "ConnectEx"} THEN Targets ELSE {NoPeer}

Begin(t, op, h, p) ==
    /\ At(t, "idle")
    /\ "threads" \in habits \/ \A u \in Threads : At(u, "idle")
    /\ Sensible(op, h)
    /\ p \in Aims(op)
    /\ call' = [call EXCEPT ![t] =
                    [Home(t, "none") EXCEPT !.pc = FirstStep(op), !.op = op, !.h = h, !.to = p]]
    /\ UNCHANGED <<sockets, relays, settings, table, receives>>
-----------------------------------------------------------------------------
(* KindOf(): the table is asked, then the stack, and the answer is kept.    *)

AskKind(t) ==
    /\ At(t, "kind")
    /\ LET h == call[t].h
           known == table[h].kind
       IN  IF known = "unknown" /\ kind[h] # "none"
           THEN call' = [call EXCEPT ![t].pc = "keepKind", ![t].seen = kind[h]]
           ELSE Goes(t, StepForKind(call[t].op, known))
    /\ UNCHANGED <<sockets, relays, settings, table, receives>>

KeepKind(t) ==
    /\ At(t, "keepKind")
    /\ table' = [table EXCEPT ![call[t].h].kind = call[t].seen]
    /\ call' = [call EXCEPT ![t].pc = StepForKind(call[t].op, call[t].seen), ![t].seen = "unknown"]
    /\ UNCHANGED <<sockets, relays, settings, receives>>
-----------------------------------------------------------------------------
(* Connections: ConnectTcp(), ConnectDatagram() and the path of the host.   *)

\* Mutant: the address is kept before the server granted the connection.
ConnectKeepsPeer(t) ==
    /\ At(t, "connect")
    /\ table' = [table EXCEPT ![call[t].h].peer = call[t].to]
    /\ \/ /\ stack[call[t].h] = Unconnected
          /\ stack' = [stack EXCEPT ![call[t].h].via = "server"]
          /\ Goes(t, "handshake")
          /\ UNCHANGED receives
       \/ Returns(t, "failed") /\ UNCHANGED stack
    /\ UNCHANGED <<kind, inbox, relays, settings>>

\* The server is resolved and the socket connected to it.  A target which is the server
\* itself is connected directly, and a socket which does not block reports that as a failure.
Connect(t) ==
    /\ At(t, "connect")
    /\ LET h == call[t].h
       IN  \/ /\ stack[h] = Unconnected /\ kind[h] = "stream"
              /\ IF call[t].to = Server
                 THEN /\ stack' = [stack EXCEPT ![h] = [via |-> "host", to |-> Server]]
                      /\ IF h \in blocking
                         THEN Goes(t, "keepPeer") /\ UNCHANGED receives
                         ELSE Returns(t, "failed")
                 ELSE /\ stack' = [stack EXCEPT ![h].via = "server"]
                      /\ Goes(t, "handshake")
                      /\ UNCHANGED receives
           \/ Returns(t, "failed") /\ UNCHANGED stack
    /\ UNCHANGED <<kind, inbox, relays, settings, table>>

\* Handshake() of a stream: the server grants the connection or refuses it, or the socket
\* is no longer the one which was connected.
ServerAnswers(t) ==
    /\ At(t, "handshake")
    /\ \/ /\ stack[call[t].h].via = "server"
          /\ stack' = [stack EXCEPT ![call[t].h] = [via |-> "tunnel", to |-> call[t].to]]
          /\ Goes(t, "keepPeer")
          /\ UNCHANGED receives
       \/ Returns(t, "failed") /\ UNCHANGED stack
    /\ UNCHANGED <<kind, inbox, relays, settings, table>>

\* SetPeer().
KeepPeer(t) ==
    /\ At(t, "keepPeer")
    /\ table' = [table EXCEPT ![call[t].h].peer = call[t].to]
    /\ Returns(t, "ok")
    /\ UNCHANGED <<sockets, relays, settings>>

HostConnects(t) ==
    /\ At(t, "hostConnect")
    /\ \/ /\ stack[call[t].h] = Unconnected /\ kind[call[t].h] # "none"
          /\ stack' = [stack EXCEPT ![call[t].h] = [via |-> "host", to |-> call[t].to]]
       \/ UNCHANGED stack
    /\ Returns(t, "ok")
    /\ UNCHANGED <<kind, inbox, relays, settings, table>>
-----------------------------------------------------------------------------
(* Associations: OpenAssociation().                                        *)

\* The connections which are not open are alike, so one of them stands for all.
FreeControl == CHOOSE c \in Controls : c \notin open

\* The association of a socket is used again; otherwise a control connection is opened to
\* the server, unless that cannot be resolved or reached.
Associate(a) ==
    /\ At(a, "associate")
    /\ LET c == table[call[a].h].control
           next == IF call[a].op \in {"send", "sendto"} THEN "sendRelay" ELSE "read"
       IN  IF c # NoControl
           THEN /\ call' = [call EXCEPT ![a].pc = next, ![a].control = c]
                /\ UNCHANGED <<relays, receives>>
           ELSE \/ /\ Controls \ open # {}
                   /\ open' = open \cup {FreeControl}
                   /\ call' = [call EXCEPT ![a].pc = "asked", ![a].control = FreeControl]
                   /\ UNCHANGED <<client, receives>>
                \/ Returns(a, "failed") /\ UNCHANGED relays
    /\ UNCHANGED <<sockets, settings, table>>

\* Handshake() of a control connection, which is a socket that blocks.
RelayAnswers(a) ==
    /\ At(a, "asked")
    /\ \/ Goes(a, "keepRelay") /\ UNCHANGED <<open, receives>>
       \/ open' = open \ {call[a].control} /\ Returns(a, "failed")
    /\ UNCHANGED <<sockets, client, settings, table>>

\* Mutant: an association which somebody else opened meanwhile is replaced.
KeepRelayAlways(a) ==
    /\ At(a, "keepRelay")
    /\ table' = [table EXCEPT ![call[a].h].control = call[a].control]
    /\ Goes(a, IF call[a].op \in {"send", "sendto"} THEN "sendRelay" ELSE "read")
    /\ UNCHANGED <<sockets, relays, settings, receives>>

KeepRelay(a) ==
    /\ At(a, "keepRelay")
    /\ LET c == table[call[a].h].control
           next == IF call[a].op \in {"send", "sendto"} THEN "sendRelay" ELSE "read"
       IN  IF c = NoControl
           THEN /\ table' = [table EXCEPT ![call[a].h].control = call[a].control]
                /\ call' = [call EXCEPT ![a].pc = next]
                /\ UNCHANGED open
           ELSE /\ call' = [call EXCEPT ![a].pc = next, ![a].control = c]
                /\ open' = open \ {call[a].control}
                /\ UNCHANGED table
    /\ UNCHANGED <<sockets, client, settings, receives>>
-----------------------------------------------------------------------------
(* Datagrams which are sent.                                               *)

\* send() of a datagram socket names the address it was connected to.
FindPeer(t) ==
    /\ At(t, "peer")
    /\ Goes(t, IF table[call[t].h].peer = NoPeer THEN "hostSend" ELSE "associate")
    /\ UNCHANGED <<sockets, relays, settings, table, receives>>

\* The end of SendDatagram(): the datagram leaves through the relay.
SendToRelay(t) ==
    /\ At(t, "sendRelay")
    /\ client' = IF kind[call[t].h] = "datagram"
                 THEN [client EXCEPT ![call[t].control] = call[t].h] ELSE client
    /\ Returns(t, "ok")
    /\ UNCHANGED <<sockets, open, settings, table>>

\* The call of the system: a datagram leaves if it names a target or the stack knows one.
HostSends(t) ==
    /\ At(t, "hostSend")
    /\ LET h == call[t].h
       IN  Returns(t, IF kind[h] = "datagram" /\ (call[t].op = "sendto" \/ stack[h].via = "host")
                      THEN "direct" ELSE "ok")
    /\ UNCHANGED <<sockets, relays, settings, table>>
-----------------------------------------------------------------------------
(* Datagrams which are received.                                           *)

\* An agent takes the datagram which waits and hands it over, without the header of the
\* protocol where `unwraps` says so.
TakesDatagram(a, unwraps) ==
    LET h == call[a].h
    IN  /\ inbox[h] # << >>
        /\ inbox' = [inbox EXCEPT ![h] = Tail(@)]
        /\ Returns(a, IF Head(inbox[h]) # NoControl /\ ~unwraps THEN "header" ELSE "ok")

\* A read which cannot go on: the socket is gone, or no datagram waits.  One which does
\* not block gives up there, or once the deadline of `receive` passed.
CannotRead(a) ==
    \/ kind[call[a].h] # "datagram"
    \/ /\ inbox[call[a].h] = << >>
       /\ call[a].h \notin blocking
       /\ a = Worker => Current \in late

\* ReceiveDatagram() after the association is known: IsRelayOf() tells a datagram of the relay.
Read(a) ==
    /\ At(a, "read")
    /\ \/ TakesDatagram(a, Head(inbox[call[a].h]) = table[call[a].h].control)
       \/ CannotRead(a) /\ Returns(a, "failed") /\ UNCHANGED inbox
    /\ UNCHANGED <<kind, stack, relays, settings, table>>

\* Mutant: an association is taken for one which datagrams do not come from.
FindAssociationAsked(t) ==
    /\ At(t, "association")
    /\ Goes(t, IF carried # {} /\ table[call[t].h].kind = "datagram" /\ table[call[t].h].peer # NoPeer
               THEN "unwrap" ELSE "hostReceive")
    /\ UNCHANGED <<sockets, relays, settings, table, receives>>

\* HasAssociation() decides how Hook_recvfrom reads the socket.
FindAssociation(t) ==
    /\ At(t, "association")
    /\ Goes(t, IF carried # {} /\ table[call[t].h].control # NoControl THEN "unwrap" ELSE "hostReceive")
    /\ UNCHANGED <<sockets, relays, settings, table, receives>>

Unwrap(t) ==
    /\ At(t, "unwrap")
    /\ \/ TakesDatagram(t, Head(inbox[call[t].h]) = table[call[t].h].control)
       \/ CannotRead(t) /\ Returns(t, "failed") /\ UNCHANGED inbox
    /\ UNCHANGED <<kind, stack, relays, settings, table>>

HostReceives(t) ==
    /\ At(t, "hostReceive")
    /\ \/ TakesDatagram(t, FALSE)
       \/ CannotRead(t) /\ Returns(t, "failed") /\ UNCHANGED inbox
    /\ UNCHANGED <<kind, stack, relays, settings, table>>
-----------------------------------------------------------------------------
(* Overlapped receives: QueueDatagramReceive() and RunWorker().            *)

\* A queue which is full fails the call with WSAENOBUFS.
QueueReceive(t) ==
    /\ At(t, "queue")
    /\ \E r \in Receives :
        /\ status[r] = "new" /\ \A q \in 1..(r - 1) : status[q] # "new"
        /\ IF Len(queue) >= MaxPending
           THEN UNCHANGED <<status, of, queue>>
           ELSE /\ status' = [status EXCEPT ![r] = "queued"]
                /\ of' = [of EXCEPT ![r] = call[t].h]
                /\ queue' = Append(queue, r)
    /\ call' = [call EXCEPT ![t] = Home(t, "none")]
    /\ UNCHANGED <<sockets, relays, settings, table, late, batch>>

WorkerTakes ==
    /\ At(Worker, "serve")
    /\ batch = << >> /\ queue # << >>
    /\ batch' = [i \in DOMAIN queue |-> [receive |-> queue[i], readable |-> FALSE]]
    /\ queue' = << >>
    /\ status' = [r \in Receives |-> IF status[r] = "queued" THEN "taken" ELSE status[r]]
    /\ Goes(Worker, "select")
    /\ UNCHANGED <<sockets, relays, settings, table, of, late>>

Batched == {batch[i].receive : i \in DOMAIN batch}

\* One select() looks at the sockets of the batch: a value which is no socket fails it, and
\* with it every receive of the batch.
WorkerSelects ==
    /\ At(Worker, "select")
    /\ Goes(Worker, "serve")
    /\ IF \E r \in Batched : kind[of[r]] = "none"
       THEN Completes(Batched, "failed") /\ batch' = << >>
       ELSE /\ batch' = [i \in DOMAIN batch |->
                            [batch[i] EXCEPT !.readable = inbox[of[batch[i].receive]] # << >>]]
            /\ UNCHANGED <<status, of, late>>
    /\ UNCHANGED <<sockets, relays, settings, table, queue>>

\* Mutant: a receive which waits is taken out of the batch and put nowhere.
WorkerDrops ==
    /\ At(Worker, "serve")
    /\ batch # << >> /\ ~Head(batch).readable
    /\ batch' = Tail(batch)
    /\ IF Current \in late THEN Completes({Current}, "failed") ELSE UNCHANGED <<status, of, late>>
    /\ UNCHANGED <<sockets, relays, settings, table, call, queue>>

\* A receive whose socket is not readable fails at its deadline, or goes back into the queue.
WorkerPutsBack ==
    /\ At(Worker, "serve")
    /\ batch # << >> /\ ~Head(batch).readable
    /\ batch' = Tail(batch)
    /\ IF Current \in late
       THEN Completes({Current}, "failed") /\ UNCHANGED queue
       ELSE /\ status' = [status EXCEPT ![Current] = "queued"]
            /\ queue' = Append(queue, Current)
            /\ UNCHANGED <<of, late>>
    /\ UNCHANGED <<sockets, relays, settings, table, call>>

WorkerReceives ==
    /\ At(Worker, "serve")
    /\ batch # << >> /\ Head(batch).readable
    /\ call' = [call EXCEPT ![Worker].pc = "associate", ![Worker].op = "recv",
                            ![Worker].h = of[Current]]
    /\ UNCHANGED <<sockets, relays, settings, table, receives>>

DeadlinePasses(r) ==
    /\ status[r] \in {"queued", "taken"} /\ r \notin late
    /\ late' = late \cup {r}
    /\ UNCHANGED <<sockets, relays, settings, table, call, status, of, queue, batch>>
-----------------------------------------------------------------------------
(* closesocket: the state of the socket is released before the socket.     *)

\* Mutant: the entry of the socket stays.
ReleaseControl(t) ==
    /\ At(t, "forget")
    /\ LET c == table[call[t].h].control
       IN  /\ open' = open \ {c}
           /\ client' = [d \in Controls |-> IF d = c THEN NoHandle ELSE client[d]]
    /\ table' = [table EXCEPT ![call[t].h].control = NoControl]
    /\ Goes(t, "closeSocket")
    /\ UNCHANGED <<sockets, settings, receives>>

\* Proxy::Close().
ReleaseState(t) ==
    /\ At(t, "forget")
    /\ LET c == table[call[t].h].control
       IN  /\ open' = open \ {c}
           /\ client' = [d \in Controls |-> IF d = c THEN NoHandle ELSE client[d]]
    /\ table' = [table EXCEPT ![call[t].h] = NoEntry]
    /\ Goes(t, "closeSocket")
    /\ UNCHANGED <<sockets, settings, receives>>

\* The value of the handle is free from here on.
CloseSocket(t) ==
    /\ At(t, "closeSocket")
    /\ LET h == call[t].h
       IN  /\ kind' = [kind EXCEPT ![h] = "none"]
           /\ stack' = [stack EXCEPT ![h] = Unconnected]
           /\ inbox' = [inbox EXCEPT ![h] = << >>]
           /\ client' = [c \in Controls |-> IF client[c] = h THEN NoHandle ELSE client[c]]
    /\ Returns(t, "ok")
    /\ UNCHANGED <<open, settings, table>>
-----------------------------------------------------------------------------
\* A relay answers the socket which sent through it; any host may send to a socket.
DatagramArrives(h) ==
    /\ kind[h] = "datagram"
    /\ Len(inbox[h]) < MaxInbox
    /\ \E from \in {c \in open : client[c] = h} \cup {NoControl} :
            inbox' = [inbox EXCEPT ![h] = Append(@, from)]
    /\ UNCHANGED <<kind, stack, relays, settings, table, call, receives>>

Hook(t) ==
    \/ AskKind(t) \/ KeepKind(t)
    \/ Connect(t) \/ ServerAnswers(t) \/ KeepPeer(t) \/ HostConnects(t)
    \/ Associate(t) \/ RelayAnswers(t) \/ KeepRelay(t)
    \/ FindPeer(t) \/ SendToRelay(t) \/ HostSends(t)
    \/ Read(t) \/ FindAssociation(t) \/ Unwrap(t) \/ HostReceives(t)
    \/ QueueReceive(t)
    \/ ReleaseState(t) \/ CloseSocket(t)

Application ==
    \/ \E h \in Handles, k \in Kinds : OpenSocket(h, k)
    \/ \E t \in Threads, op \in Ops, h \in Handles, p \in Targets \cup {NoPeer} : Begin(t, op, h, p)
    \/ \E t \in Threads : Hook(t)

\* RunWorker(), but for the answers it waits for.
WorkerStep ==
    \/ WorkerTakes \/ WorkerSelects \/ WorkerPutsBack \/ WorkerReceives
    \/ Associate(Worker) \/ KeepRelay(Worker) \/ Read(Worker)

\* At most MaxReceives deadlines pass, so one fairness condition does for all of them.
Time == \E r \in Receives : DeadlinePasses(r)

Next ==
    \/ Application
    \/ WorkerStep
    \/ RelayAnswers(Worker)
    \/ Time
    \/ \E h \in Handles : DatagramArrives(h)

Spec == Init /\ [][Next]_vars

\* The worker is scheduled and time passes; nothing makes a server answer.
FairSpec == Spec /\ WF_vars(WorkerStep) /\ WF_vars(Time)

\* The server answers the control connections which the worker opens.
AnsweringSpec == Spec /\ WF_vars(WorkerStep \/ RelayAnswers(Worker)) /\ WF_vars(Time)
-----------------------------------------------------------------------------
\* "A socket the proxy carries never reaches the host directly" (docs/NetworkIsolation.md):
\* no stream is connected but to the server, and no datagram leaves but through a relay,
\* although the kind of a socket is remembered by a value the stack uses again.
CarriedNeverDirect ==
    /\ \A h \in Handles : kind[h] \in carried /\ stack[h].via = "host" => stack[h].to = Server
    /\ "datagram" \in carried => \A t \in Threads : call[t].result # "direct"

\* The peer a stream reports is the one its connection reaches (Hook_getpeername): an
\* application never believes in a connection the server did not grant.
PeerIsReached ==
    \A h \in Handles : kind[h] = "stream" /\ table[h].peer # NoPeer =>
        /\ stack[h].to = table[h].peer
        /\ stack[h].via \in {"tunnel", "host"}

\* Every control connection is held once, by an entry or by the call which opened it, and
\* every association has one: several threads send the first datagram of one socket
\* (OpenAssociation(), Close()).
ControlsAreHeld ==
    /\ \A h \in Handles : table[h].control \in open \cup {NoControl}
    /\ \A c \in open :
        Cardinality({h \in Handles : table[h].control = c}
            \cup {a \in Agents : call[a].control = c /\ call[a].pc \in {"asked", "keepRelay"}}) = 1

\* A datagram of the relay is handed over without the header of the protocol, by whichever
\* call takes it (ReceiveDatagram(), Hook_recvfrom, RunWorker()).  Only a receive whose socket
\* the application closes at that moment may get it as it came.
RelayIsUnwrapped ==
    [][/\ \A t \in Threads : call'[t].result # "header"
       /\ \A r \in Receives : status[r] # "header" /\ status'[r] = "header" =>
            \E t \in Calling(of[r]) : call[t].op = "closesocket"]_vars

Completed(r) == status[r] \in {"ok", "failed", "header"}

\* "The completion is always delivered" (docs/NetworkIsolation.md): under AnsweringSpec, every
\* receive which was queued is completed, with a datagram or by its deadline, although it is
\* put back many times and its socket may be closed; under FairSpec the worker waits for the
\* server of the proxy, whose control connections block.
EveryReceiveCompletes ==
    \A r \in Receives : status[r] = "queued" ~> Completed(r)

\* "The state of the socket is released with the socket" (closesocket).
StateIsReleased == \A h \in Handles : kind[h] = "none" => table[h] = NoEntry

\* A receive does not fail for the sake of a socket which is not its own.
FailsForItsOwn ==
    [][\A r \in Batched : At(Worker, "select") /\ status'[r] = "failed" => kind[of[r]] = "none"]_vars

\* The receives of one socket are answered in the order of their calls.
ReceivesInOrder ==
    [][\A r \in Receives : status[r] # "ok" /\ status'[r] = "ok" =>
          \A q \in 1..(r - 1) : of[q] = of[r] => status[q] \notin {"queued", "taken"}]_vars
=============================================================================
