SPECIFICATION Spec
CONSTANTS
    Tickers = {"early"}
    CloseAt <- EarlyAndLate
    Kinds <- GoodAndStale
    Duration = 4
    MinToClose = 1
    MaxToClose = 3
    RowMaxAge = 1
    MaxPerWindow = 1
    MaxDaily = 1
    Cooldown = 1
    Limit = 1
    Lines = 1
    MaxTime = 2
    MaxRows = 1
    MaxRejections = 1
    MaxExperiments = 1
INVARIANT StoppedStaysAborted
CHECK_DEADLOCK FALSE
