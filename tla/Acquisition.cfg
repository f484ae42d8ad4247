SPECIFICATION Spec
CONSTANTS
    NumStreams = 2
    Beams = {1, 2, 3}
    BeamsOf <- MCBeamsOf
    Acqs = {"a", "b"}
    BeamLists = {{}, {1}, {2, 3}}
    MaxRequests = 2
    MkdirMayFail = TRUE
INVARIANTS
    NothingOverwritten
    ChunksHavePlace
    RefusedForCause
