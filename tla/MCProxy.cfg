SPECIFICATION AnsweringSpec
CONSTANTS
    Threads = {t1, t2}
    Worker = Worker
    Handles = {h1}
    Controls = {c1, c2}
    Peers = {p1}
    Server = Server
    NoHandle = NoHandle
    NoPeer = NoPeer
    NoControl = NoControl
    Scenarios <- MCScenarios
    MaxReceives = 2
    MaxPending = 1
    MaxInbox = 1
INVARIANTS
    CarriedNeverDirect
    PeerIsReached
    ControlsAreHeld
PROPERTIES
    RelayIsUnwrapped
    EveryReceiveCompletes
CHECK_DEADLOCK FALSE
