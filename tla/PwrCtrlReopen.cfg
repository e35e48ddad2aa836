SPECIFICATION FairSpec
CONSTANTS
  Tasks = {"cmd"}
  PsCtx = {"p1"}
  RetryCnt = 0
  MaxStops = 1
PROPERTY RaisesCpwmAlways
