SPECIFICATION Spec
CONSTANTS
  Databases <- MCDatabases
  Lists <- MCLists
  NoList = NoList
  Now = 3
  MaxNames = 3
  MaxInterrupts = 1
  MCOutcomes = {"whole", "refused"}
  MaxFiles = 3
INVARIANTS
  TypeOK
  RightVersions
PROPERTY
  VersionsKept
CHECK_DEADLOCK FALSE
