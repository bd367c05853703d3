SPECIFICATION Spec
CONSTANTS
  NumExtents = 2
  Modulus = 8
  BlockSize = 2
  FsSize = 5
  MaxBlocks = 4
  Sizes = {0, 1, 2, 3, 4, 5, 7, 9}
  Databases <- MCDatabases
INVARIANTS
  TypeOK
  ValidExtents
  RightBelowWrap
  OthersUnharmed
CHECK_DEADLOCK FALSE
