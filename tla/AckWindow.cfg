CONSTANTS
    Handshake = 1
    Mod = 32
    ResetLimit = 10
    Sizes = {1, 3}
    Windows = {6}
    ControlSize = 1
    Autos = {TRUE, FALSE}
    MaxBytes = 14
    MaxInbox = 3
    MaxPings = 1
SPECIFICATION Spec
INVARIANTS AcksNearlyTrue PingsInOrder
PROPERTIES PeerGoesOn
CHECK_DEADLOCK FALSE
