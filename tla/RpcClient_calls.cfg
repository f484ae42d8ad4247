SPECIFICATION Spec
CONSTANTS
    NumServers = 1
    Chunks = {"k1", "k2"}
    Timeouts = {1}
    Second = 2
    Kinds = {"query", "async", "collect", "lists", "write"}
    MaxCalls = 2
    MayRefuse = FALSE
    MayDie = FALSE
INVARIANTS
    NothingLeftOver
    NothingLost
    OwnAnswers
    WaitAllWaits
