CONSTANTS
  BatchSize = 8
  WordBits = 4
  RidBits = 8
  ByteBits = 2
  WordBytes = 2
  Partitions <- MCPartitions
  Offsets <- MCOffsets
  MaxTranslations = 2
  Boxes <- MCBoxes
SPECIFICATION Spec
CHECK_DEADLOCK FALSE
INVARIANTS
  TypeOK
  CapacitySuffices
  InvertedKeepsRids
  RidAnswers
  BitmapAnswers
  DeltaAnswers
  SelectionBoxAnswers
