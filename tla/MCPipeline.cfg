SPECIFICATION Spec
CONSTANTS
  Good = Good
  Damaged = Damaged
  Bare = Bare
  Volumes = {Good, Damaged, Bare}
  Files <- MCFiles
  Header <- MCHeader
  OneFiles = {2}
  MaxCommands = 6
  MaxInterrupts = 1
INVARIANTS
  TypeOK
  CarefulRunRestores
PROPERTY
  NothingRepaired
CHECK_DEADLOCK FALSE
