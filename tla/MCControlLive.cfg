SPECIFICATION FairSpec
CONSTANTS
    init = init
    r1 = r1
    r2 = r2
    Jobs <- MCLiveJobs
    OwnerOf <- MCLiveOwnerOf
    Owners = {init, r1}
    Initial = init
    Requests = {r1}
    AcceptThread = AcceptThread
    Wakers = {r1, AcceptThread}
    Handles = {h1, h2, h3, h4}
    NoHandle = NoHandle
    NoRequest = NoRequest
    MaxQueue = 1
    Failing <- MCFailing
    Faults = {"post", "accept", "slow", "prepare"}
PROPERTIES
    RunEnds
    EveryRequestAnswered
CHECK_DEADLOCK FALSE
