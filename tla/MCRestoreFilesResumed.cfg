SPECIFICATION Spec
CONSTANTS
  Databases <- MCDatabases
  Lists <- MCLists
  NoList = NoList
  Now = 3
  MaxNames = 3
  MaxInterrupts = 1
  MCOutcomes = {"whole"}
  MaxFiles = 3
INVARIANT
  LatestKept
CHECK_DEADLOCK FALSE
