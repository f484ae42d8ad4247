SPECIFICATION FairSpec
CONSTANTS
    NumStreams = 1
    BeamsPerStream = 2
    CounterNames = {"last"}
    Counters <- MCCounters
    Toy = TRUE
    L1b = TRUE
    MayFail = FALSE
PROPERTIES
    ServerExits
