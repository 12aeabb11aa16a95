CONSTANTS
  Sign = 4
  Lows = 2
  BatchSize = 8
  WordBits = 4
  RidBits = 8
  ByteBits = 2
  WordBytes = 2
  Tables <- MCTables
  Intervals <- MCIntervals
  Garbage <- MCGarbage
SPECIFICATION Spec
CHECK_DEADLOCK FALSE
INVARIANTS
  InLockstep
  RowsMatch
  TotalCount
