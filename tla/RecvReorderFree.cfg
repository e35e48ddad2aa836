CONSTANTS
    Space = 20
    WSize = 4
    First = 18
    MaxFrame = 20
    MaxAddBa = 1
    MaxJoin = 0
    MaxBar = 0
    Ends = TRUE
SPECIFICATION Spec
INVARIANT NoTimerAfterFree
CHECK_DEADLOCK FALSE
