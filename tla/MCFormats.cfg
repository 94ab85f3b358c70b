SPECIFICATION MCSpec
CONSTANTS
    Options <- AllOptions
    SegDuration = 2
    FragDuration = 2
    MaxTS = 4
    PktDurations = {1, 2}
    Readers = {}
    Parts <- SomeParts
    MaxPkts = 6
    MaxUpdates = 1
    Formats = {"hls", "rtp", "mp4", "fmp4", "ring", "raw"}
    Mtu = 5
    Codecs = {"h264", "h265", "mjpeg", "audio"}
    WrapperFrames = FALSE
    MaxUnits = 3
    MaxFaults = 2
    Layouts <- MCLayouts
    MaxPackets = 4
    MaxDuration = 2
    Gaps <- MCGaps
    Foreign <- MCForeign
    Pairs <- MCPairs
    Second = 4
    TimeScale <- MCTimeScale
    PacketTimes = {1, 3}
    MaxInt16 = 2
    MaxWritten = 4
    InitSize = 10
    Meg = 20
    Windows = {0, 1, 10}
    Requests = {0, 5, 50, 700}
    Slots = 2
    MaxAllocs = 4
    Coders = {"video", "audio", "encoder"}
    CodecPars = {p, q, none_such}
    Unsupported = {none_such}
    InSize = 1
    OutSize = 1
    SourceGaps = {3, 20}
    PacketDur = 3
    FrameDur = 2
    MaxDrift = 8
    Stamps = {TRUE}
    MaxSent = 3
    MaxRates = 2
INVARIANTS
    IndependentTagHonest
    SegmentsWithinTarget
    EvictionKeepsPlaylist
    ListedInitKnown
    FramesIntact
    FileReadsBack
    FramesDecodable
    EncodedFollowSource
    OwnedOnce
PROPERTIES
    PlaylistOnlyShrinksAtFront
CHECK_DEADLOCK FALSE
