SPECIFICATION AllSpec
CONSTANTS
    Tickers = {"early", "late"}
    CloseAt <- EarlyAndLate
    Kinds <- AllKinds
    Duration = 4
    MinToClose = 1
    MaxToClose = 3
    RowMaxAge = 1
    MaxPerWindow = 2
    MaxDaily = 2
    Cooldown = 1
    Limit = 2
    Lines = 3
    MaxTime = 4
    MaxRows = 3
    MaxRejections = 1
    MaxExperiments = 2
INVARIANTS RateCapsHold DecidedOnce DecidedInTime LedgerFaithful CompletedIsSound
           LiveStopsEverything ShadowIsHarmless
CHECK_DEADLOCK FALSE
PROPERTY RunsEnd
