SPECIFICATION Spec
CONSTANTS
    Urls = {u1, u2}
    StartModes = {"event"}
    Modes = {"always"}
    Target = 2
    PreBuffer = 3
    RingPackets = 3
    MaxEvent = 3
    MinEvent = 2
    FlushEvery = 2
    ShortFile = 2
    Batched = FALSE
    MaxPkts = 5
    MaxPars = 1
    MaxEvents = 1
    MaxFaults = 1
SYMMETRY UrlSymmetry
INVARIANTS
    PacketsOwnedOnce
    FilesHaveNoHoles
    StatusCoversRecording
    ClosedFilesReported
CHECK_DEADLOCK FALSE
