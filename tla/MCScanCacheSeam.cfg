SPECIFICATION Spec
CONSTANTS
  BlockSize = 2
  Window = 6
  Offset = 1
  DeviceSize = 16
  BadSets <- MCBadSets
INVARIANT
  EveryBlockScanned
CHECK_DEADLOCK FALSE
