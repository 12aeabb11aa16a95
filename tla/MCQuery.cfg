SPECIFICATION FairSpec
CONSTANTS
  Sign = 4
  Lows = 2
  Stores <- MCStores
INVARIANTS TypeOK NothingLost OnlyZeroBinsLeak IndexOnlyMeetsInterval
INVARIANTS ValuesMatchRows CacheHoldsOwnMetadata
PROPERTIES QueryEnds
