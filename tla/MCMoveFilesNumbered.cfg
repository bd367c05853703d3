SPECIFICATION Spec
CONSTANTS
  Words <- MCWords
  Tables <- MCTables
  FileSets <- MCFileSets
  MaxDepth = 3
  MaxRepeats = 1
INVARIANT
  FilesInCorrectDirectory
CHECK_DEADLOCK FALSE
