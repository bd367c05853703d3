SPECIFICATION FairSpec
CONSTANTS
  Contents = {file, odd, cut}
  Entries = {e1, e2}
  Dates = {1, 5, 6, 7}
  BadNames = {odd}
  Cut = {cut}
  MaxRecords = 3
  MaxInterrupts = 1
  Modulus = 8
  Epoch = 2
  Now = 3
  Tolerance = 1
INVARIANTS
  TypeOK
  OneEntryOfEach
PROPERTY
  Termination
CHECK_DEADLOCK FALSE
