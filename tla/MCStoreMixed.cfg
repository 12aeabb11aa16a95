SPECIFICATION FairSpec
CONSTANTS
  Formats = {FALSE}
  InitialCapacity = 2
  Parts <- MCPartsFew
  MaxPartitions = 3
  Styles <- BothStyles
  AnyLength = FALSE
PROPERTY IndexPointerPutBack
