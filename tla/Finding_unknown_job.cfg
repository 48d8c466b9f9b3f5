SPECIFICATION Spec
CONSTANTS
  p1 = p1
  p2 = p2
  p3 = p3
  Pid <- TwoPids
  Shell = Shell
  NULL = NULL
  MaxJobs = 3
  MaxPipeline = 1
  Typed = {"kill"}
  Outside = {}
SYMMETRY TwoSymmetric
PROPERTIES
  UnknownJobHarmless
