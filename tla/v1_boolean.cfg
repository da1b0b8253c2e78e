SPECIFICATION Spec
CONSTANTS
  BlockSize = 2
  Max32 = 2
  Max64 = 4
  Group = 2
  Capacity = 24
  Values = {1, 2}
  SignedValues <- Signs
  CopyTo <- OtherIntegers
  MaxCopies = 0
  MaxVals = 1
  MaxRows = 0
  MaxCommits = 2
  Schemas <- PackedBoolean
  Readers = {r1}
  Garbage = Garbage
  NoHeader = NoHeader
  NoReader = NoReader
  Corrupt = Corrupt
INVARIANT TypedReadsBack
CHECK_DEADLOCK FALSE
