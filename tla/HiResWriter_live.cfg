SPECIFICATION FairSpec
CONSTANTS
    Keys <- Two
    Priority <- TwoPriorities
    MaxSize = 1
    Policies = {"block", "drop_low_priority", "drop_oldest_low_priority"}
    BatchSize = 2
    IoErrors = TRUE
    MaxRows = 3
    MaxSegments = 3
CHECK_DEADLOCK FALSE
INVARIANTS DropPolicyHolds RowsAccounted StreamOrder CleanStop CompressedOnce
PROPERTIES ClosedIsFinal RotatedIsCompressed RowSettles
