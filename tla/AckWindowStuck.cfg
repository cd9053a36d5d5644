CONSTANTS
    Handshake = 1
    Mod = 64
    ResetLimit = 60
    Sizes = {1, 4}
    Windows = {4}
    ControlSize = 1
    Autos = {TRUE}
    MaxBytes = 10
    MaxInbox = 3
    MaxPings = 2
SPECIFICATION Spec
PROPERTIES PeerGoesOn
CHECK_DEADLOCK FALSE
