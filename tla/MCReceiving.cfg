\* Buffer: requests may exceed the first buffer and even the largest one, as a
\* chunk size above 131072 makes them. Chunks: two types, so that a chunk may
\* change the type of its message. Records: every class, cut anywhere.
CONSTANTS
    DefaultSize = 4
    MaxSize = 6
    BasicSizes = {1}
    HeaderSizes = {3}
    PayloadSizes = {1, 4, 7}
    Undo = 2
    Resizes = {3, 5, 9}
    TotalBytes = 11
    Cids = {2, 3}
    ProtocolControl = 2
    Types = {1, 9}
    SetChunkSize = 1
    StreamIds = {0}
    Words = {0, 1, 2}
    SizeIn <- MCSizeIn
    Lengths = {0, 2}
    Ext = 2
    TMod = 2
    TimeBound = 1
    FirstChunkSize = 1
    MinChunkSize = 1
    Items <- MCItems
SPECIFICATION ReceivingSpec
INVARIANTS BytesIntact RequestsAreMet ChunksFit WholeMessages EncodesExactly NoUncheckedRead NothingInvented
PROPERTY PartialsGrow
CHECK_DEADLOCK FALSE
