SPECIFICATION FairSpec
CONSTANTS
  EOF_DATA_ENTRIES = 2
  NumExtents = 2
  BlockSize = 2
  Offset = 1
  ChunkSize = 3
  BigFile = 1
  MaxBlocks = 5
  CatalogFragments = 2
  Faults = TRUE
  Inputs <- MCInputs
INVARIANTS
  TypeOK
  AnswerRight
  CopyFaithful
  RestoredIsWhole
  ShortOnlyWithoutOverflow
PROPERTIES
  Termination
  CopiesInOrder
CHECK_DEADLOCK FALSE
