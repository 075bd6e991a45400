CONSTANTS
    Ports = {p1}
    BufSize = 3
    MaxFrames = 2
    MaxEvents = 2
    StartSlices = 1
    StayConnected = FALSE
    WaitForAllPorts = FALSE
    IdlePolls = 1
    OpenMayFail = TRUE
SPECIFICATION Spec
INVARIANT EventsSeparate
