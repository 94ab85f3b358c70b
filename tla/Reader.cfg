SPECIFICATION FairSpec
CONSTANTS
    Urls = {u}
    Tracks = {"video", "audio"}
    ChanSize = 1
    Round = 2
    Wrap = 2
    RawTimes = {0, 3}
    Durations = {1}
    Elapsed = {4}
    MaxAdds = 2
    MaxPkts = 3
INVARIANTS
    OneOwnerUntilReleased
    StopsAreSound
    TimestampsRise
PROPERTIES
    StoppedSourcesEnd
CHECK_DEADLOCK FALSE
