SPECIFICATION FairSpec
CONSTANTS
    c1 = c1
    c2 = c2
    Clients = {c1}
    NoClient = NoClient
    Chunks = {"k1", "k2"}
    Patterns = {"each", "same"}
    Files = {"f1", "f2"}
    FileName <- MCFileName
    NumDevices = 2
    DeviceOf <- MCDeviceOf2
    MaxRequests = 1
    TestChunks = {"k1"}
    RecvMayFail = FALSE
PROPERTIES
    ImplementsService
    AcceptedIsAnswered
    ShutdownCompletes
