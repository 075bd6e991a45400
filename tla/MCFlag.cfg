CONSTANTS
    CalcThreads = {t1, t2}
    NrSubbands = 1
    MaxBlocks = 3
    Patience = 1
    InitialBuffers = 2
    FlagSet = FALSE
SPECIFICATION Spec
INVARIANTS ReadToTheEnd OutputIntact
