SPECIFICATION PartSpec
CONSTANTS
    Operators = {p1, p2}
    Series = {"BTC", "ETH"}
    Families = {"logistic", "boosted"}
    Candidates = {"identity"}
    OncePerSecond = TRUE
    MayLoseBackups = FALSE
    FirstStaged <- TwoFamilies
    Stageable <- OneFamilyLater
    MaxStaged = 5
    MaxCopies = 4
    MaxTime = 3
    Require = {"model", "calibrator"}
    MaxLiveSize = 10
    MaxLiveNotional = 500
    Cents = {1, 2, 55, 99}
    Quantities = {0, 5, 10, 20}
    MaxOrder = 20
    MaxPosition = 20
    MaxOpenRisk = 15000
    MaxPerHour = 2
    Hour = 2
    MaxQuoteAge = 1
    Contracts = {"a", "b"}
    Orders <- SomeOrders
    MaxSession = 4
    MaxTrades = 4
    Targets = {1, 2}
    Interval = 1
    MaxCall = 1
    BookMaxAge = 1
    FeedMaxAge = 2
    FeedRowMaxAge = 2
    AllowFallback = TRUE
    RequirePrimary = FALSE
    MaxFaults = 2
    MaxClock = 4
    Rows <- OneMarket
    Hot <- TwoMarkets
INVARIANTS ServedPairVetted SwapsCanBeUndone NothingGoesLive RowsReadHistory
PROPERTY PromotionKept
CHECK_DEADLOCK FALSE
