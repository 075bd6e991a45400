CONSTANTS
    CalcThreads = {t1, t2}
    NrSubbands = 2
    MaxBlocks = 3
SPECIFICATION CalcFairSpec
INVARIANTS CalcTypeOK BlocksInOrder CalculatedOnce SomeThreadLeft
PROPERTIES EveryBlockCalculated StopEnds
