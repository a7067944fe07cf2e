SPECIFICATION Spec
CONSTANTS
    Callers = {c1}
    Requests = {r1}
    MaxInbound = 1
    Faults = {"stray", "leave", "timeout", "large"}
INVARIANTS
    WireIsFramed
    DrainIsComplete
    ClosedOnce
PROPERTIES
    CallsAreKept
CHECK_DEADLOCK FALSE
