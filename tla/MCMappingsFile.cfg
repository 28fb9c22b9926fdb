SPECIFICATION LiveSpec
CONSTANTS
  NULL = NULL
  Nodes <- MCNodes
  Cells <- MCCells
  NestingLimit = 7
  IntMax = 100000
  Lower <- MCLower
  Length <- MCLength
  Hash <- MCHash
  InitialBuckets = 2
  Threshold = 2
  HeaderLength = 21
  InitialSize = 64
  MaxFailures = 1
  MaxCommands = 3
  Files <- MCFiles
  ReloadFiles <- MCReloadFiles
  AddRequests <- MCAddRequests
  DeleteKeys <- MCDeleteKeys
INVARIANTS TypeOK InText DepthIsNesting OutputFits ListsLinked ParsesItsDocument
  DeclaredIsFound NodesOwned RecordsOwned TableSound IterAlive ListInBuffer
PROPERTIES ImplementsOrderedMap LoadEnds
