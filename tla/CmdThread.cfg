SPECIFICATION FairSpec
CONSTANTS
  Cmds = {c1, c2}
  NoCmd = NoCmd
  NoIo = {c2}
  ChanPlan = {c1}
  Sync = {c1}
  MaxSema = 1
  MaxStops = 1
INVARIANTS
  TypeOK
  
  SctxInFrame
  
  AnswerIsTrue
  QueueIsFifo
  NoLostWakeup
  AliveOnlyForWork
PROPERTIES
  CallerReturns
  StopCompletes
  
