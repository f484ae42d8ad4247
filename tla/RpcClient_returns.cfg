SPECIFICATION FairSpec
CONSTANTS
    NumServers = 2
    Chunks = {"k1"}
    Timeouts <- MCTimeouts
    Second = 2
    Kinds = {"query", "async", "collect", "write"}
    MaxCalls = 1
    MayRefuse = TRUE
    MayDie = TRUE
PROPERTIES
    CallReturns
CHECK_DEADLOCK FALSE
