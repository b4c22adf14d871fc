CONSTANTS
    Capacity = 3
    MaxWrite = 4
    MaxBytes = 6
    MaxChunks = 4
    ClientMay = {"write when full", "write after end", "read too much"}
SPECIFICATION Spec
INVARIANT PeekIsPrefix
PROPERTY ImplementsByteStream
\* after an exception the client makes no further call
CHECK_DEADLOCK FALSE
