SPECIFICATION FairSpec
CONSTANTS
  BlockSize = 6
  Modulus = 6
  Header = 3
  Skip = 2
  CharSize = 1
  Starts <- MCStarts
  Blocks <- MCBlocks
  LogBound = 6
INVARIANTS
  TypeOK
  NoEntryLost
  FoundInOrder
PROPERTY
  Termination
CHECK_DEADLOCK FALSE
