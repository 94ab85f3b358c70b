SPECIFICATION Spec
CONSTANTS
    Urls = {u1, u2}
    Peers = {p1}
    Types = {h264, h265}
    Sizes = {1}
    TargetDuration = 1
    HardCap = 2
    Lookback = 1
    Eager = FALSE
    MaxPkts = 4
    MaxPars = 1
    MaxChanges = 0
    MaxRemoved = 1
SYMMETRY Symmetry
INVARIANTS
    TracksMatchCodec
CHECK_DEADLOCK FALSE
