SPECIFICATION Spec
CONSTANTS
    Producer = prod
    Consumers = {c1, c2}
    SlotCount = 3
    Cap = 3
    Sizes = {1, 2}
    MaxTail = 6
SYMMETRY ConsumerSymmetry
INVARIANTS
    RefsCountOwners
    LiveRegionsDisjointUnlessLapped
    NoLostAdvance
PROPERTIES
    HeadSkipsOnlyDoneSlots
CHECK_DEADLOCK FALSE
