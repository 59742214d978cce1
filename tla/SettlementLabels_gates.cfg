SPECIFICATION Spec
CONSTANTS
    Markets = {1}
    MaxRows = 5
    MaxClock = 1
INVARIANT GatesAgree
CHECK_DEADLOCK FALSE
