SPECIFICATION Spec
CONSTANTS
  Pipelines <- Typed
  Items <- TwoItems
  MaxFd = 7
  MaxProcs = 5
  Capacity = 1
CHECK_DEADLOCK FALSE
INVARIANTS
  TypeOK
  StreamsRight
  ConsoleBack
  
PROPERTIES
  PipelineEnds
