SPECIFICATION FairSpec
CONSTANTS
    Files <- MCFiles
    Nodes <- MCNodes
    NFreq = 8
    PacketSize <- MCPacketSize
    MaxPacketSize = 40
    MaxChunks = 4
    MaxSends = 4
    RingSize = 1
INVARIANTS
    PacketsFit
    EosIsLast
    EndedHaveAll
PROPERTIES
    EverythingEnds
