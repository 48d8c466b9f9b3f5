SPECIFICATION Spec
CONSTANTS
  Script <- Output
  Searchers <- OnlyReadAll
  Ops = {"expect"}
  Timeouts = {"None"}
  Drains = {TRUE}
  Commands <- Lines
  Installed <- Path
  MaxRead = 2
  MaxCalls = 1
CHECK_DEADLOCK FALSE
INVARIANTS
  AllOutputRead
