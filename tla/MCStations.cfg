CONSTANTS
    Ports = {p1}
    BufSize = 3
    MaxFrames = 3
    MaxEvents = 1
    StartSlices = 0
    StayConnected = TRUE
    Stations = {s1, s2}
    MaxTime = 1
    MaxGap = 0
    IdlePolls = 1
    OpenMayFail = TRUE
SPECIFICATION FairSpec
INVARIANTS TypeOK OneEventPerFile AllHandled
PROPERTY EndsWhenTold
