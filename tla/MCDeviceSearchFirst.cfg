SPECIFICATION SearchSpec
CONSTANTS
  BufferSize = 4
  EofBlockSize = 3
  Modulus = 32
  Cells = {"a", "b", "x", "H", "F"}
  Needle <- MCNeedle
  Devices <- MCDevices
  Offsets = {0, 1}
  BadCellSets <- MCBadCellSets
  Junk <- MCJunk
  Sizes = {3, 9}
INVARIANT
  FirstFromTheEnd
CHECK_DEADLOCK FALSE
