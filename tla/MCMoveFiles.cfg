SPECIFICATION FairSpec
CONSTANTS
  Words <- MCWords
  Tables <- MCTables
  FileSets <- MCFileSets
  MaxDepth = 3
  MaxRepeats = 1
INVARIANTS
  TypeOK
  FoldersPlaced
  FilesPlaced
PROPERTIES
  NothingLost
  Termination
CHECK_DEADLOCK FALSE
