CONSTANTS
    Half = 8
    InitialRto = 1
    MaxPayloadSize = 1
    MaxRetxAttempts = 2
    MaxWindow = 100
    Bytes <- TwoAndNone
    RecvCapacity = 2
    SendCapacity = 2
    Isn <- WrappingIsn
    Ticks = {5}
    Mishaps = {"lose", "duplicate", "delay", "reorder", "abort"}
    MaxInFlight = 2
    MaxFaults = 1
SPECIFICATION Spec
INVARIANTS StreamsAreFaithful AckedIsReceived CleanCloseIsComplete
\* both connections may be over
CHECK_DEADLOCK FALSE
