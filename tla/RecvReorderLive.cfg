CONSTANTS
    Space = 18
    WSize = 4
    First = 16
    MaxFrame = 19
    MaxAddBa = 1
    MaxJoin = 0
    MaxBar = 1
    Ends = FALSE
SPECIFICATION FairSpec
PROPERTY BufferedGoesUp
CHECK_DEADLOCK FALSE
