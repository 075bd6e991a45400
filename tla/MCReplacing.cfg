CONSTANTS
  Pointings = {1}
  Beams = {1, 2}
  Stokes = {1}
  Log = 99
  Identifiers = {1, 2, 3, 4, 5, 6, 7, 8}
  Flags <- Replacing
  FileFlags <- OfFile
SPECIFICATION Spec
PROPERTIES Kept
