SPECIFICATION Spec
CONSTANTS
  Cmds = {c1, c2}
  NoCmd = NoCmd
  NoIo = {c2}
  ChanPlan = {}
  Sync = {}
  MaxSema = 2
  MaxStops = 2
  Tasks = {"cmd", "btc"}
  PsCtx = {}
  RetryCnt = 1
  CmdTask = "cmd"
  Removable = TRUE
PROPERTIES
  ImplementsBoth
