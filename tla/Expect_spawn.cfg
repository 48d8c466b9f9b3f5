SPECIFICATION Spec
CONSTANTS
  Script <- Output
  Searchers <- AllSearchers
  Ops <- AllOps
  Timeouts = {"finite", "None"}
  Drains = {TRUE, FALSE}
  Commands <- Lines
  Installed <- Path
  MaxRead = 2
  MaxCalls = 2
CHECK_DEADLOCK FALSE
INVARIANTS
  TypeOK
  StreamKept
  NoMissedMatch
  StatusTrue
  ClosedIsClean
  EofMeansExited
  ReaperIsAlone
PROPERTIES
  CallsReturn
  ReadsStream
