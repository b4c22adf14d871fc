CONSTANTS
    Capacity = 4
    StreamLength = 10
SPECIFICATION Spec
INVARIANTS InOrder ListWellFormed EndsAtEnd TwiceTheCapacity
PROPERTY AcceptedIsKept
