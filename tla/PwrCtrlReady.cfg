SPECIFICATION Spec
CONSTANTS
  Tasks = {"cmd", "btc"}
  PsCtx = {"p1", "p2"}
  RetryCnt = 3
  MaxStops = 0
INVARIANT ReadyMeansAwake
