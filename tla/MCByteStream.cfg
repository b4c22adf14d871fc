CONSTANTS
    Capacity = 4
    MaxWrite = 5
    MaxBytes = 8
    ClientMay = {}
SPECIFICATION Spec
INVARIANT FifoOrder
PROPERTY EofIsFinal
