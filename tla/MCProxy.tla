------------------------------- MODULE MCProxy --------------------------------
(* Two threads and one value of a handle for TLC.                             *)
EXTENDS Proxy

\* The package names a proxy, and the last patch which names one decides what it carries.
Layer(on, kinds) == [enabled |-> on, carries |-> kinds]
Both        == <<Layer(TRUE, {"stream"}), Layer(TRUE, Kinds), Layer(FALSE, {})>>
Datagrams   == <<Layer(TRUE, {"datagram"})>>
Streams     == <<Layer(FALSE, Kinds), Layer(TRUE, {"stream"})>>

Scenario(named, block, does, count) ==
    [layers |-> named, blocking |-> block, habits |-> does, receives |-> count]

\* Two threads which share a socket that blocks, one thread which receives twice, and the
\* other proxies.
MCScenarios ==
    {Scenario(Both, Handles, {"threads"}, 0), Scenario(Both, {}, {"cancel"}, 2),
     Scenario(Datagrams, {}, {"cancel"}, 1), Scenario(Streams, {}, {}, 1), Scenario(<< >>, {}, {}, 0)}

\* What an application does where the code does not keep a property.
ReadsFirst  == {Scenario(Both, {}, {"threads", "readFirst"}, 0)}
WsaConnects == {Scenario(Both, {}, {"wsaConnect"}, 0)}
Cancels     == {Scenario(Both, {}, {"cancel"}, 2)}
Waits       == {Scenario(Both, Handles, {}, 2)}
Races       == {Scenario(Both, {}, {"threads", "race"}, 0)}
=============================================================================
