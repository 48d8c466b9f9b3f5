SPECIFICATION InteractiveSpec
CONSTANTS
  p1 = p1
  p2 = p2
  p3 = p3
  Pid <- TwoPids
  Shell = Shell
  NULL = NULL
  MaxJobs = 3
  MaxPipeline = 2
  Typed = {"fg", "kill"}
  Outside = {"die", "stop"}
INVARIANTS
  GroupWhole
  LaunchedGroupExists
  WaitCanEnd
PROPERTIES
  ZombiesReaped
  ForegroundReturns
  
