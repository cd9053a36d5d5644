CONSTANTS
    Cids = {2, 3, 6}
    ProtocolControl = 2
    Types = {1, 9}
    StreamIds = {0, 1}
    Words <- MCWords
    SizeIn <- MCSizeIn
    Lengths = {0, 1, 2, 3}
    TimeBound = 0
    MinChunkSize = 1
    WordAsTime = 6
    SetChunkSize = 1
    Ext = 4
    TMod = 8
    FirstChunkSize = 1
    C0Size = 3
    C3Size = 1
    ExtSize = 1
    MaxFmt0 = 4
    MaxFmt3 = 2
    CacheMax = 9
    IovsMax = 4
    IovLimit = 3
    MsgPool <- MCMsgPool
    PktPool <- MCPktPool
    StreamId = 1
    MaxBatch = 3
    MaxQueued = 1
    MaxSends = 3
    ShortWrites = FALSE
    WireBound = 4
SPECIFICATION Spec
INVARIANTS Understood GatheredIntact WrittenInOrder
PROPERTIES ChannelSpec EveryMessageArrives
CHECK_DEADLOCK FALSE
