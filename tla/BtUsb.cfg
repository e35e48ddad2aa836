SPECIFICATION FairSpec
CONSTANTS
  Frames = {f1, f2}
  MaxFaults = 1
  MaxLeak = 1
INVARIANTS
  TypeOK
  TxAccounting
  AutosuspendQuiet
  RxSteady
  SleepsWithoutRx
  UsageBalanced
  FreedIsQuiet

  
  
