SPECIFICATION Spec
CONSTANTS
    NumServers = 2
    Chunks = {"k1"}
    Timeouts = {2}
    Second = 2
    Kinds = {"query"}
    MaxCalls = 1
    MayRefuse = FALSE
    MayDie = FALSE
INVARIANTS
    TimeoutHolds
