SPECIFICATION Spec
CONSTANTS
  BlockSize = 2
  Max32 = 2
  Max64 = 4
  Group = 2
  Capacity = 24
  Values = {1, 2}
  SignedValues <- Signs
  CopyTo <- OtherIntegers
  MaxCopies = 3
  MaxVals = 3
  MaxRows = 1
  MaxCommits = 2
  Schemas <- AllEncodings
  Readers = {r1}
  Garbage = Garbage
  NoHeader = NoHeader
  NoReader = NoReader
  Corrupt = Corrupt
INVARIANTS TypeOK ReadsBack PeekAgrees TypedReadsBack CopiesFaithfully
PROPERTIES CommitIsRepeatable
CHECK_DEADLOCK FALSE
