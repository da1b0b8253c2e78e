SPECIFICATION Spec
CONSTANTS
  kSectorSize = 1
  HeaderSize = 1
  Capacity = 7
  kPageSize = 1
  kIndexPageSize = 1
  kIndexPageOverhead = 1
  IndexSizes = {0}
  MaxColumns = 2
  MaxBuffered = 2
  Values = {1}
  MaxRows = 0
  MaxCommits = 2
  Schemas <- TwoStreams
  Readers = {r1}
  NoHeader = NoHeader
  NoMetaBlock = NoMetaBlock
  NoIndex = NoIndex
  NoPage = NoPage
  NoTable = NoTable
INVARIANTS PagesDisjoint ValuesHaveLevels
PROPERTIES PublishesEveryStream
