CONSTANTS
  Handles = {h1, h2}
  Flags <- Created
  Shapes <- Line
  Chunkings <- NoChunks
  Slabs <- Rows
  Values = {1}
  MaxSize = 4
  MaxChunk = 8
  HSize = 64
  MaxObjects = 1
  MaxSlabs = 3
SPECIFICATION Spec
PROPERTY BlockAccepted
CHECK_DEADLOCK FALSE
