CONSTANTS
    CalcThreads = {t1, t2}
    NrSubbands = 2
    MaxBlocks = 2
    Patience = 1
    InitialBuffers = 1
    FlagSet = TRUE
SPECIFICATION Spec
INVARIANTS TypeOK TablesLevel
SYMMETRY ThreadSymmetry
