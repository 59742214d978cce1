SPECIFICATION Spec
CONSTANTS
    Keys <- Two
    Priority <- TwoPriorities
    MaxSize = 1
    Policies = {"drop_low_priority"}
    BatchSize = 1
    IoErrors = FALSE
    MaxRows = 2
    MaxSegments = 2
CHECK_DEADLOCK FALSE
INVARIANTS BacklogFinished
