SPECIFICATION Spec
CONSTANTS
    Urls = {u1, u2}
    Peers = {p1}
    Types = {h264, h265}
    Sizes = {1}
    TargetDuration = 1
    HardCap = 2
    Lookback = 1
    Eager = FALSE
    MaxPkts = 4
    MaxPars = 2
    MaxChanges = 1
    MaxRemoved = 2
SYMMETRY Symmetry
INVARIANTS
    FeedIsDecodable
    PeersInOnePlace
    PacketsReleasedOnce
    ClosedPeersAreDrained
CHECK_DEADLOCK FALSE
