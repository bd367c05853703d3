SPECIFICATION FairSpec
CONSTANTS
  BlockSize = 6
  Modulus = 4
  Header = 3
  Skip = 2
  CharSize = 1
  Starts <- MCStarts
  Blocks <- MCBlocks
  LogBound = 6
PROPERTY
  Termination
CHECK_DEADLOCK FALSE
