SPECIFICATION Spec
CONSTANTS
    watch = watch
    rejected = rejected
    paper = paper
    other = other
    NoNote = NoNote
    Event <- MCEvent
    Offers <- MCOffers
    MaxSize = 2
    DropLow = TRUE
    CoalesceLow = TRUE
    MaxOffers = 4
INVARIANT NoFoldedCountStranded
CHECK_DEADLOCK FALSE
