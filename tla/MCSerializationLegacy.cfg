SPECIFICATION Spec
CONSTANTS
  Shorts = 4
  Words = 64
  Parts <- MCParts
INVARIANTS LegacyKeepsBinValues
CHECK_DEADLOCK FALSE
