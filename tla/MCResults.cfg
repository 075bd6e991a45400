CONSTANTS
  Handles = {h1, h2}
  Flags <- Created
  Shapes <- Line
  Chunkings <- NoChunks
  Slabs <- AddingCounted
  Values = {1}
  MaxSize = 4
  MaxChunk = 8
  HSize = 64
  MaxObjects = 1
  MaxSlabs = 3
SPECIFICATION Spec
PROPERTIES OkMeansMoved ReadMoves NothingRefused
CHECK_DEADLOCK FALSE
