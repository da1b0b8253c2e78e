SPECIFICATION Spec
CONSTANTS
  Version = "v0_2_0"
  Tables <- PlainTable
  Values = {1, 2}
  Texts = {"s", "t"}
  Doubles = {"1.0", "2.0"}
  Strict = TRUE
  MaxNodes = 2
  MaxRecords = 3
  Max32 = 4
  Max64 = 8
  Freed = Freed
  Obj = Obj
INVARIANT RoundTrip
CHECK_DEADLOCK FALSE
