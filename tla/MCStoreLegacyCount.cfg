SPECIFICATION Spec
CONSTANTS
  Formats = {TRUE}
  InitialCapacity = 2
  Parts <- MCPartsFew
  MaxPartitions = 3
  Styles <- OneStyle
  AnyLength = TRUE
INVARIANT MetadataPointerPastHeader
