SPECIFICATION FairSpec
CONSTANTS
  Tasks = {"cmd", "btc"}
  PsCtx = {"p1"}
  RetryCnt = 1
  MaxStops = 1
INVARIANTS
  TypeOK
  AliveKeepsAwake
  ActiveIsRequested
PROPERTY RaisesCpwm
