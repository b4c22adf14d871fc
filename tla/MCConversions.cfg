CONSTANTS
    Half = 4
    Segments <- SomeSegments
    ClientSocket <- Client
    ServerSocket <- Server
    Deltas <- ByteDeltas
    Resizes <- LengthDeltas
    MaxFrames = 3
SPECIFICATION ConversionsSpec
INVARIANTS
    UnwrapIsNearest
    RoundTrip
    SentIsRead
    HarmedIsNotMistaken
    SettlesOnTheSender
CHECK_DEADLOCK FALSE
