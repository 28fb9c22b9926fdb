SPECIFICATION Spec
CONSTANTS
  NULL = NULL
  Nodes <- MCNodes
  Cells <- MCCells
  NestingLimit = 7
  IntMax = 100000
  Lower <- MCLower
  Length <- MCLength
  Hash <- MCHash
  InitialBuckets = 2
  Threshold = 2
  HeaderLength = 21
  InitialSize = 64
  MaxFailures = 0
  MaxCommands = 0
  Files <- MCDocumentedFiles
  ReloadFiles = {}
  AddRequests = {}
  DeleteKeys = {}
INVARIANT SupportedIsServed
