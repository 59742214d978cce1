SPECIFICATION Spec
CONSTANTS
    Miners = {"a"}
    Spaces = {"binary"}
    NoTape = {}
    FirstWindows = {1, 2, 3, 4, 5, 6, 7, 8, 9, 10, 11, 12, 13, 14, 15, 16, 17, 18, 19, 20}
    MaxWindow = 24
    Embargo = 2
    MinWindows = 20
    Offsets = {10}
    MaxTrials = 1
    MaxRuns = 2
INVARIANT SealStaysClosed
CHECK_DEADLOCK FALSE
