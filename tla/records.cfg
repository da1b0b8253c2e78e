SPECIFICATION Spec
CONSTANTS
  Version = "v0_1_0"
  Tables <- NestedTables
  Values = {1, 2}
  Texts = {"s"}
  Doubles = {"1.0"}
  Strict = TRUE
  MaxNodes = 6
  MaxRecords = 3
  Max32 = 4
  Max64 = 8
  Freed = Freed
  Obj = Obj
INVARIANTS RoundTrip ColumnsAligned InStep LevelsFit
CHECK_DEADLOCK FALSE
