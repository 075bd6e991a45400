CONSTANTS
    Ports = {p1, p2}
    BufSize = 3
    MaxFrames = 4
    MaxEvents = 1
    StartSlices = 1
    StayConnected = FALSE
    WaitForAllPorts = FALSE
    IdlePolls = 1
    OpenMayFail = TRUE
SPECIFICATION Spec
INVARIANTS TypeOK FramesAccounted ProcessedInOrder
PROPERTY ImplementsBuffer
SYMMETRY PortSymmetry
