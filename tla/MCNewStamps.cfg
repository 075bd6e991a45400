CONSTANTS
    Settings <- OddHalves
    MaxStations = 1
    MaxDipoles = 2
    K = 3
    Word = 64
    MaxLost = 0
    MaxObjects = 1
SPECIFICATION Spec
INVARIANT Aligned
CHECK_DEADLOCK FALSE
