CONSTANTS
    Ports = {p1}
    BufSize = 3
    MaxFrames = 2
    MaxEvents = 1
    StartSlices = 0
    StayConnected = TRUE
    Stations = {s1}
    MaxTime = 0
    MaxGap = 1
    IdlePolls = 1
    OpenMayFail = FALSE
SPECIFICATION Spec
INVARIANT FilesClosed
