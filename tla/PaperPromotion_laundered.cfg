SPECIFICATION Spec
CONSTANTS
    Operators = {p1}
    Series = {"BTC"}
    Families = {"logistic"}
    Candidates = {"identity"}
    OncePerSecond = TRUE
    MayLoseBackups = FALSE
    FirstStaged <- Nothing
    Stageable <- OneFamilyLater
    MaxStaged = 3
    MaxCopies = 4
    MaxTime = 3
INVARIANT ServedWasFit
CHECK_DEADLOCK FALSE
