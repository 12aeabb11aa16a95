SPECIFICATION FairSpec
CONSTANTS
  Data <- MCData
  Sign = 2
  High <- MCHigh
  Low <- MCLow
  Rejoin <- MCRejoin
  ElementBits = 3
  SigBits = 2
  WordBits = 5
  ByteBits = 2
  MaxLength = 4
INVARIANTS TypeOK TableChangesInPlace LayoutMatchesInput BinsListTheirRows
INVARIANTS CompressionIndexSuffices RoundTrip
PROPERTIES Finishes
CHECK_DEADLOCK FALSE
