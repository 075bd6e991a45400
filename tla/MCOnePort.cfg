CONSTANTS
    Ports = {p1}
    BufSize = 3
    MaxFrames = 4
    MaxEvents = 1
    StartSlices = 1
    StayConnected = FALSE
    WaitForAllPorts = FALSE
    IdlePolls = 1
    OpenMayFail = FALSE
SPECIFICATION Spec
INVARIANT SignalQuitsCleanly
PROPERTY ProcessedSlotStable
