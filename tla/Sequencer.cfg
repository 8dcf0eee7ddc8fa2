\* Songs of one and two tracks, played once, twice and for ever.
SPECIFICATION Spec
CONSTANTS
    stackDepthMax = 7
    m_postSongWaitDelay = 2
    Songs <- SomeSongs
    PlayCounts <- OnceTwiceForever
    SeekTimes = {0, 1, 3, 20}
    Second = 2
    HalfGrain = 1
    FreezeLimit = 6
    Horizon = 10
    MaxCalls = 2
INVARIANTS HeardAsScored
PROPERTIES TickReturns
CHECK_DEADLOCK FALSE
