CONSTANTS
    Cids = {2, 3, 4}
    ProtocolControl = 2
    Types = {1, 9}
    SetChunkSize = 1
    StreamIds = {0, 1}
    Words <- MCWords
    SizeIn <- MCSizeIn
    Lengths = {0, 1, 2, 3}
    Ext = 4
    TMod = 8
    TimeBound = 3
    FirstChunkSize = 1
    MinChunkSize = 1
    Pool <- MCZeroPool
    MaxMessages = 3
    WireBound = 3
    ExtStyles = {FALSE}
    WordAsTime = 6
SPECIFICATION Spec
INVARIANT InStep
CHECK_DEADLOCK FALSE
