CONSTANTS
  Files = {1}
  Contents <- OneFile
  SysLog = 99
  Dipoles <- MCDipoles
  Names <- MCNames
  Time <- OneSecond
  Sample <- MCSample
  Length <- MCLength
  Frequency <- MCFrequency
  PerSecond = 4
  Ulps = 4
  Unreadable <- MCUnreadable
  UInt = 64
  Flags <- ReadOnly
  Starts <- MCStarts
  Counts = {2}
SPECIFICATION Spec
PROPERTIES OffsetsFromReference OnlyRequested LengthCanBeRead SamplesInPlace
