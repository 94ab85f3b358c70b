SPECIFICATION Spec
CONSTANTS
    Options <- AllOptions
    SegDuration = 2
    FragDuration = 2
    MaxTS = 3
    PktDurations = {1}
    Readers = {r}
    Parts <- SomeParts
    MaxPkts = 4
    MaxUpdates = 1
INVARIANTS CloseIsSafeForReaders
CHECK_DEADLOCK FALSE
