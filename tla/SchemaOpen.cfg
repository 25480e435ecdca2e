SPECIFICATION SchemaSpec
CONSTANTS
    p1 = p1
    p2 = p2
    Openers = {p1, p2}
    Starts = {0, 1, 2, 3, 4, 5}
    MaxAttempts = 2
INVARIANTS OpenHasSchema OpenersSucceed
PROPERTY OpenersFinish
CHECK_DEADLOCK FALSE
