SPECIFICATION Spec
CONSTANTS
    Producer = prod
    Consumers = {c1}
    SlotCount = 4
    Cap = 4
    Sizes = {1, 2, 3}
    MaxTail = 6
INVARIANT LiveRegionsDisjoint
CHECK_DEADLOCK FALSE
