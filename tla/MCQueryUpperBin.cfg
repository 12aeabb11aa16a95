SPECIFICATION Spec
CONSTANTS
  Sign = 4
  Lows = 2
  Stores <- MCStoreWithoutZeros
INVARIANTS IndexOnlyLeavesOutUpperBin
