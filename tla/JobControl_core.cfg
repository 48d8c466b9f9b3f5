SPECIFICATION Spec
CONSTANTS
  p1 = p1
  p2 = p2
  p3 = p3
  Pid <- TwoPids
  Shell = Shell
  NULL = NULL
  MaxJobs = 3
  MaxPipeline = 2
  Typed = {"bg", "fg", "kill", "stop"}
  Outside = {"die", "stop", "cont", "exhaust"}
SYMMETRY TwoSymmetric
INVARIANTS
  TypeOK
  
  CurrentJobListed
  NoLostWakeup
  SigchldMask
  TerminalHolder
  
