SPECIFICATION FairSpec
CONSTANTS
    rsi = rsi
    ema = ema
    RunnerSeq <- MCRunnerSeq
    Window = 3
    BarsKept = 3
    HubSize = 2
    MaxCandle = 4
    MaxBoots = 2
INVARIANTS
    SeriesInOrder
    NothingLost
    OncePublished
PROPERTIES
    CatchesUp
CHECK_DEADLOCK FALSE
