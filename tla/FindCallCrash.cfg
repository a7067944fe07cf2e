SPECIFICATION Spec
CONSTANTS
    Callers = {c1}
    Requests = {}
    MaxInbound = 1
    Faults = {"leave", "large"}
INVARIANTS
    CallsNeverCrash
CHECK_DEADLOCK FALSE
