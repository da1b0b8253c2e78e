SPECIFICATION Spec
CONSTANTS
  kSectorSize = 1
  HeaderSize = 1
  Capacity = 10
  kPageSize = 2
  kIndexPageSize = 1
  kIndexPageOverhead = 1
  IndexSizes = {0}
  MaxColumns = 1
  MaxBuffered = 4
  Values = {1}
  MaxRows = 1
  MaxCommits = 3
  Schemas <- OneStream
  Readers = {r1}
  NoHeader = NoHeader
  NoMetaBlock = NoMetaBlock
  NoIndex = NoIndex
  NoPage = NoPage
  NoTable = NoTable
INVARIANT DataFitsPage
