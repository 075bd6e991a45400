CONSTANTS
    CalcThreads = {t1, t2}
    NrSubbands = 2
    MaxBlocks = 4
    Patience = 1
    InitialBuffers = 2
    FlagSet = TRUE
SPECIFICATION Spec
INVARIANT InputIntact
