CONSTANTS
    Settings <- RepairedSettings
    MaxStations = 1
    MaxDipoles = 2
    K = 3
    Word = 64
    MaxLost = 1
    MaxObjects = 2
SPECIFICATION Spec
INVARIANTS TypeOK Aligned Complete TablesSound
CHECK_DEADLOCK FALSE
