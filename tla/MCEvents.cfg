CONSTANTS
    Ports = {p1, p2}
    BufSize = 3
    MaxFrames = 3
    MaxEvents = 2
    StartSlices = 0
    StayConnected = FALSE
    WaitForAllPorts = FALSE
    IdlePolls = 1
    OpenMayFail = FALSE
SPECIFICATION FairSpec
INVARIANTS IInv ProcessedInOrder NothingLeftBehind NoRunningCounts
PROPERTIES SignalEnds EventCloses
