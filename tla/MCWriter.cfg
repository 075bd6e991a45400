CONSTANTS
    NrSubbands = 2
    MaxBlocks = 4
    Patience = 2
SPECIFICATION WriterFairSpec
INVARIANTS WriterTypeOK RowsAligned
PROPERTY BroughtIsWritten
