CONSTANTS
    CalcThreads = {t1, t2}
    NrSubbands = 1
    MaxBlocks = 3
    Patience = 1
    InitialBuffers = 1
    FlagSet = TRUE
SPECIFICATION FairSpec
PROPERTIES UsesCalculator Ends
