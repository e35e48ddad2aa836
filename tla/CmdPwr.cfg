SPECIFICATION Spec
CONSTANTS
  Cmds = {c1}
  NoCmd = NoCmd
  NoIo = {}
  ChanPlan = {}
  Sync = {}
  MaxSema = 2
  MaxStops = 0
  Tasks = {"cmd"}
  PsCtx = {"p1"}
  RetryCnt = 0
  CmdTask = "cmd"
  Removable = FALSE
INVARIANTS
  HandlerKeepsChipOn
PROPERTIES
  ImplementsBoth
