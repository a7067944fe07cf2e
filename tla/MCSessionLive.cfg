SPECIFICATION FairSpec
CONSTANTS
    Callers = {}
    Requests = {r1}
    MaxInbound = 1
    Faults = {"flood", "junk", "leave", "twice", "unsent"}
PROPERTIES
    StopReturns
    AnswersLeave
CHECK_DEADLOCK FALSE
