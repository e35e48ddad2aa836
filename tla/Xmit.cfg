SPECIFICATION FairSpec
CONSTANTS
  NFrames = 4
  Stas = {s1}
  NQueues = 2
  NBufs = 2
  StopAt = 2
  MaxEvents = 1
  None = None
INVARIANTS
  TypeOK
  
  BufsConserved
  ListsAgree
  PendingIsCovered
  StoppedWillWake
  
PROPERTIES
  EverythingGoesOut
CHECK_DEADLOCK FALSE
