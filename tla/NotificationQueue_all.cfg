SPECIFICATION FairSpec
CONSTANTS
    watch = watch
    rejected = rejected
    paper = paper
    other = other
    NoNote = NoNote
    Event <- MCEvent
    Offers <- MCOffers
    MaxSize = 2
    DropLow = TRUE
    CoalesceLow = TRUE
    MaxOffers = 4
INVARIANTS NoAcceptedNoteLost HealthBalances FoldedOnce LaneOrder CloseDrains
PROPERTIES FlushTrueMeansReported ImplementsOutbox ImportantDelivered
CHECK_DEADLOCK FALSE
