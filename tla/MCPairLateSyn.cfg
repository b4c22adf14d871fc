CONSTANTS
    Half = 8
    InitialRto = 1
    MaxPayloadSize = 1
    MaxRetxAttempts = 2
    MaxWindow = 100
    Bytes <- OneAndNone
    RecvCapacity = 2
    SendCapacity = 2
    Isn <- WrappingIsn
    Ticks = {5}
    Mishaps = {"reorder", "late SYN", "delay"}
    MaxInFlight = 3
    MaxFaults = 2
SPECIFICATION Spec
INVARIANT StreamsAreFaithful
CHECK_DEADLOCK FALSE
