SPECIFICATION Spec
CONSTANTS
  Shorts = 4
  Words = 64
  Parts <- MCParts
INVARIANTS StreamFits ReadsBack
CHECK_DEADLOCK FALSE
