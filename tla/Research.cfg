SPECIFICATION Spec
CONSTANTS
    FeeRate = 7
    MinLock = 2
    HardLock = 5
    RideMin = 3
    MinDepth = 1
    AllowPartialLock = TRUE
    MinSell = 2
    HardSell = 5
    ExitBelow = 0
    LockBelow = 1
    AllowPartialExit = FALSE
    PolicyOn = TRUE
    Required = {"trained", "plain", "calibrated", "backtest"}
    MinNet = 2
    MinRaw = 3
    Buffer = 1
    PriceCap = 95
    MaxSpread = 10
    MinTopDepth = 1
    MinSecs = 5
    MaxSecs = 900
    MinWindows = 60
    Tickers = {"m1", "m2"}
    LastRows = 3
    Size = 2
    LockMinSecs = 3
    MaxEntries = 2
    MaxFills = 2
    Day = 2
    MaxRows = 3
    MaxStep = 1
    Top = 3
    MaxSize = 2
    MinuteLength = 2
    Close = 5
    Improve = 1
    Miners = {"a", "b"}
    Spaces = {"binary", "maker"}
    NoTape = {21}
    MaxWindow = 21
    Embargo = 2
    MinPanel = 20
    Offsets = {0, 10}
    MaxTrials = 1
    MaxRuns = 2
    LastWindow = 9
    Late = 2
    Embargoes = {0, 1, 2}
    MinTrain = 5
    MinCalibration = 6
    WalkSplits = 2
    Groups = 3
    TestGroups = 2
    EdgeMinRaw = 5
    MinFinal = 2
    MinProfit = 2
    FixedBuffer = 3
    MaxDisagreement = 10
    MinBucketRows = 30
    MaxWidth = 12
    StaleBuffer = 1
    SourceBuffer = 2
    RegimeBuffer = 2
    ThinBuffer = 2
    MinBookDepth = 1
    MaxBookAge = 10
    FeedMaxAge = 50
    MaxUnderlying = 50
    AllowFallback = TRUE
    RequirePrimary = FALSE
    Chances = {41, 60, 69}
    MaxSettled = 3
    FarBps = 2
    ShockBps = 5
    StudyDepth = 1
    StudyMinSecs = 4
    StudyMaxSecs = 14
    StudyBuffer = 3
    StudyMinEdge = 0
    DedupeTime = 4
    DedupePrice = 3
    WindowClose = 16
    Gap = {2, 5}
    MaxRecorded = 3
    CycleWindow = 12
    FlowPercent = 40
    CycleTolerance = 5
    MoveDetect = 2
    CycleClose = 150
    CycleGap = {3, 12}
    MaxCycleRows = 3
INVARIANTS LockKeepsItsPromise CandidatesAreSupported ReplaysAreReal
           VaultHolds StudiesHold
PROPERTY LockFillsReload
CHECK_DEADLOCK FALSE
