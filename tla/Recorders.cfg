SPECIFICATION AllSpec
CONSTANTS
    Rotate = 2
    Grace = 2
    RetainFor = 4
    MaxSegs = 2
    MaxRows = 3
    SegmentsClock = 6
    Prices = {40, 61}
    MaxSize = 2
    WindowLength = 2
    MaxClock = 4
    MaxInFlight = 2
    Early = 1
    PollWindow = 5
    NearHandoff = 1
    Overrun = 1
    Pages = 2
    RediscoverNear = 2
    RediscoverFar = 4
    PollClock = 13
    MaxQueue = 1
    MaxBuffer = 1
    MinGap = 1
    UnitsPerSecond = 2
    MaxPerSecond = 2
    AggTrade = TRUE
    CollectorClock = 2
    Markets = {1, 2}
    Length = 3
    Lead = 1
    SettleAfter = 2
    CycleLength = 3
    DeadlineGrace = 1
    MaxMarkets = 1
    AvgWindow = 1
    Tolerance = 1
    MinAvg = 2
    MaxAge = 1
    MarketClock = 6
    BackOff = 1
    Late = 1
    PageCap = 2
    SeenCap = 2
    Chunk = 2
    MaxTrades = 3
    TradeClock = 3
    SettledMarkets = {1}
    MaxLabels = 5
    LabelsClock = 1
INVARIANTS NothingIsLost BookWasTrue CyclesAreTimely JoinedPointInTime
PROPERTY RepairsLast
CHECK_DEADLOCK FALSE
