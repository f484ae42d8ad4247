SPECIFICATION FairSpec
CONSTANTS
    NumStreams = 2
    BeamsPerStream = 2
    CounterNames = {"first", "last"}
    Counters <- MCCounters
    Toy = FALSE
    L1b = TRUE
    MayFail = TRUE
CONSTRAINT ChildrenExitLate
INVARIANTS
    RpcSeesWholeStream
    AllThreadsJoined
    DevicesOutliveStreams
PROPERTIES
    RpcReadsFrozenMap
    ServerExits
    RpcServersComeUp
