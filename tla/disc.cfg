CONSTANTS
  Blocks = {b1, b2, b3}
  Queues = {0, 1}
  Null = Null
  Names <- MCNames
  Lower <- MCLower
  NameLength <- MCLength
  Unshort = {"long"}
  Tables <- MCTables
  NoTable = NoTable
  PathLists <- MCPathLists
  Paths <- MCPaths
  MaxFiles = 2
  FileSizes = {0, 2}
  ReadArgs <- MCReadArgs
  U32 = 8
SPECIFICATION Spec
INVARIANTS PathsMeanEntries ReadsInside
PROPERTIES QueuesAreLines
