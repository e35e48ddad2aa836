CONSTANTS
    Space = 14
    WSize = 3
    First = 13
    MaxFrame = 18
    MaxAddBa = 2
    MaxJoin = 1
    MaxBar = 1
    Ends = TRUE
SPECIFICATION Spec
INVARIANTS
    TypeOK
    BufferInWindow
    TimerCovers
PROPERTY InOrder
CHECK_DEADLOCK FALSE
