SPECIFICATION Spec
CONSTANTS
    c1 = c1
    c2 = c2
    Clients = {c1, c2}
    NoClient = NoClient
    Chunks = {"k1", "k2"}
    Patterns = {"each", "away"}
    Files = {"f1", "f2", "far"}
    FileName <- MCFileName
    NumDevices = 2
    DeviceOf <- MCDeviceOf2
    MaxRequests = 2
    TestChunks = {}
    RecvMayFail = TRUE
CONSTRAINT AtMostTwoWrites
SYMMETRY Symmetry
INVARIANTS
    ReplyAtMostOnce
    StatusAfterReply
    DevicesDrained
    ReplyAfterList
    ReplyTruthful
    ReplyNotLost
    StatusSettled
