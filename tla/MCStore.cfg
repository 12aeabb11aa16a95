SPECIFICATION FairSpec
CONSTANTS
  Formats = {TRUE, FALSE}
  InitialCapacity = 2
  Parts <- MCParts
  MaxPartitions = 3
  Styles <- OneStyle
  AnyLength = FALSE
INVARIANTS TypeOK WriterLayout SealedLayout LoadedLayout PointersInPlace EOFExact
PROPERTIES ImplementsStream ScanCompletes
