SPECIFICATION MCSpec
CONSTANTS
    Roles = {"demuxer", "writer"}
    Schemes = {"digest"}
    MaxTries = 3
    Tls = TRUE
    Offers <- MCOffers
    Skipped = {}
    Slashed <- MCSlashed
    Streams <- MCStreams
    MaxFrames = 2
    MaxMade = 2
    QuietLimit = 1
    Sources = {"a", "b"}
    MaxPackets = 2
    MaxCommands = 2
    ChanSize = 2
INVARIANTS
    FramesInOrder
    PacketsOwnedOnce
    PublisherSound
PROPERTIES
    ReadReturns
CHECK_DEADLOCK FALSE
