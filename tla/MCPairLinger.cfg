CONSTANTS
    Half = 8
    InitialRto = 1
    MaxPayloadSize = 1
    MaxRetxAttempts = 2
    MaxWindow = 100
    Bytes <- OneAndNone
    RecvCapacity = 2
    SendCapacity = 2
    Isn <- WrappingIsn
    Ticks = {5}
    Mishaps = {"lose"}
    MaxInFlight = 2
    MaxFaults = 1
SPECIFICATION Spec
PROPERTY PeerKnowsBeforeClose
CHECK_DEADLOCK FALSE
