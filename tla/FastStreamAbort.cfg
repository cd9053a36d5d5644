\* Requests may exceed the first buffer and even the largest one, as a chunk
\* size above 131072 makes them; skip(-Undo) and set_buffer are used.
CONSTANTS
    DefaultSize = 4
    MaxSize = 6
    BasicSizes = {1}
    HeaderSizes = {3}
    PayloadSizes = {1, 4, 7}
    Undo = 2
    Resizes = {3, 5, 9}
    TotalBytes = 11
SPECIFICATION BufferSpec
INVARIANT NoAbort
CHECK_DEADLOCK FALSE
