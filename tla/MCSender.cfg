CONSTANTS
    Half = 8
    InitialRto = 2
    MaxPayloadSize = 2
    Capacity = 3
    Isn = 13
    ClientMay = {}
    Windows = {0, 1, 4}
    Ticks = {1, 2}
    MaxBytes = 4
    MaxRetx = 2
SPECIFICATION FairSpec
INVARIANTS QueueIsInFlight SegmentsCarryStream NothingIsSkipped
PROPERTIES WindowRespected OnlyTimeoutResends EverythingIsAcked
