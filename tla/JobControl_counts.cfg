SPECIFICATION Spec
CONSTANTS
  p1 = p1
  p2 = p2
  p3 = p3
  Pid <- ThreePids
  Shell = Shell
  NULL = NULL
  MaxJobs = 3
  MaxPipeline = 3
  Typed = {"fg", "stop"}
  Outside = {"stop"}
SYMMETRY ThreeSymmetric
INVARIANTS
  ReportHasJob
  AliveIsExact
  StopRecorded
PROPERTIES
  ImplementsJobs
