SPECIFICATION MCSpec
CONSTANTS
    Urls = {"a", "b"}
    VideoPars <- MCPars
    Requests = {r1}
    ChanSize = 1
    MaxSent = 3
    MaxRemoved = 1
    Callers = {a, b, c}
    Kinds = {"strict", "failsafe", "default"}
    Options <- AllOptions
    SegDuration = 2
    FragDuration = 2
    MaxTS = 3
    PktDurations = {1}
    Readers = {r}
    Parts <- SomeParts
    MaxPkts = 4
    MaxUpdates = 1
INVARIANTS
    MasterListsOpenMuxers
    PacketsReleased
    DoneClosedOnce
    NothingRunsAfterRelease
    ClosedMeansReleased
PROPERTIES
    ManifestIsRebuilt
    CloseReturns
    IndexReturns
CHECK_DEADLOCK FALSE
