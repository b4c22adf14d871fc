CONSTANTS
    Half = 8
    InitialRto = 1
    MaxPayloadSize = 1
    MaxRetxAttempts = 2
    MaxWindow = 100
    Bytes <- ThreeAndNone
    RecvCapacity = 2
    SendCapacity = 2
    Isn <- WrappingIsn
    Ticks = {5}
    Mishaps = {"lossy", "abort", "quit"}
    MaxInFlight = 6
    MaxFaults = 1
    PipeSize = 1
    BufferSize = 1
SPECIFICATION SocketFairSpec
INVARIANTS ResetsHaveACause CopiedFaithfully NothingThrows
PROPERTIES StatesMoveForward ProgramEnds
\* the program may have ended
CHECK_DEADLOCK FALSE
