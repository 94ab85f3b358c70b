SPECIFICATION NoLapFairSpec
CONSTANTS
    Producer = prod
    Consumers = {c1}
    SlotCount = 4
    Cap = 4
    Sizes = {1, 2, 3}
    MaxTail = 5
PROPERTIES
    ImplementsSharedRegions
    ReleaseReturns
CHECK_DEADLOCK FALSE
