SPECIFICATION Spec
CONSTANTS
  kSectorSize = 1
  HeaderSize = 1
  Capacity = 10
  kPageSize = 2
  kIndexPageSize = 1
  kIndexPageOverhead = 1
  IndexSizes = {0}
  MaxColumns = 2
  MaxBuffered = 1
  Values = {1}
  MaxRows = 0
  MaxCommits = 1
  Schemas <- TwoColumns
  Readers = {r1}
  NoHeader = NoHeader
  NoMetaBlock = NoMetaBlock
  NoIndex = NoIndex
  NoPage = NoPage
  NoTable = NoTable
INVARIANT KeysTellStreams
