CONSTANTS
  Files = {1, 2, 3}
  Contents <- AllFiles
  SysLog = 99
  Dipoles <- MCDipoles
  Names <- MCNames
  Time <- OneSecond
  Sample <- MCSample
  Length <- MCLength
  Frequency <- MCFrequency
  PerSecond = 4
  Ulps = 4
  Unreadable <- MCUnreadable
  UInt = 64
  Flags <- MCFlags
  Starts <- MCStarts
  Counts = {2}
SPECIFICATION Spec
INVARIANTS StationsOfFile SysLogApart
