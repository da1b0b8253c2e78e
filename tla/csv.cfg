SPECIFICATION CSVSpec
CONSTANTS
  Version = "v0_1_0"
  Tables <- CSVTables
  Values = {2}
  Texts = {"s"}
  Doubles = {"2.0"}
  Strict = TRUE
  MaxNodes = 4
  MaxRecords = 2
  Max32 = 4
  Max64 = 8
  Freed = Freed
  Obj = Obj
  Cells <- SomeCells
  Raises = Raises
  NoImport = NoImport
INVARIANTS RowsReadBack ColumnsAligned InStep
CHECK_DEADLOCK FALSE
