CONSTANTS
    Settings <- FarApart
    MaxStations = 1
    MaxDipoles = 2
    K = 3
    Word = 16
    MaxLost = 0
    MaxObjects = 1
SPECIFICATION Spec
INVARIANT FrontDiscarded
CHECK_DEADLOCK FALSE
