SPECIFICATION Spec
CONSTANTS
    Urls = {u1}
    StartModes = {"event"}
    Modes = {"always"}
    Target = 2
    PreBuffer = 2
    RingPackets = 3
    MaxEvent = 3
    MinEvent = 2
    FlushEvery = 2
    ShortFile = 2
    Batched = FALSE
    MaxPkts = 4
    MaxPars = 2
    MaxEvents = 1
    MaxFaults = 0
INVARIANTS
    OneCodecPerFile
CHECK_DEADLOCK FALSE
