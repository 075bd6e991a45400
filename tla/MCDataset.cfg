CONSTANTS
  Handles = {h1, h2}
  Flags <- AllFlags
  Shapes <- Planes
  Chunkings <- SomeChunks
  Slabs <- BothSlabs
  Values = {1}
  MaxSize = 4
  MaxChunk = 2
  HSize = 64
  MaxObjects = 2
  MaxSlabs = 3
SYMMETRY Symmetry
SPECIFICATION Spec
INVARIANTS TypeOK KnowsLess
PROPERTIES ImplementsArray WritesLand
CHECK_DEADLOCK FALSE
