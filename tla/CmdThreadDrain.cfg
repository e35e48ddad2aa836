SPECIFICATION Spec
CONSTANTS
  Cmds = {c1}
  NoCmd = NoCmd
  NoIo = {}
  ChanPlan = {}
  Sync = {}
  MaxSema = 1
  MaxStops = 1
INVARIANT NoCmdAfterDrain
