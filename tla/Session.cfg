CONSTANTS
    StreamId = 1
    Purposes = {"play", "fast", "publish", "flash"}
    MaxMedia = 2
    MaxServed = 3
    MaxAhead = 1
SPECIFICATION Spec
INVARIANTS NoUnknownResponse AnsweredInOrder StartsAsAsked MediaIntact
PROPERTIES SessionsGoOn
CHECK_DEADLOCK FALSE
