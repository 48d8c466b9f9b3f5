SPECIFICATION Spec
CONSTANTS
  Rows = 3
  Cols = 2
  MaxNumber = 5
  MaxMemory = 3
  MaxRows = 4
  MaxWritten = 12
  Text = {"x"}
  Input = {"ESC", "CR", "LF", "BS", "NUL", "(", ")", "=", "#", "[", "?", "SEMI", "0", "1", "2", "5", "7", "8", "A", "B", "C", "D", "H", "J", "K", "M", "h", "l", "m", "r"}
CHECK_DEADLOCK FALSE
INVARIANTS
  TypeOK
  ErrorsExplained
PROPERTIES
  StackBalanced
  RowsKept
  OutsideKept
  EraseKeeps
