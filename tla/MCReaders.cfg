SPECIFICATION FairReaders
CONSTANTS
  BlockSize = 2
  Window = 6
  Offset = 1
  DeviceSize = 16
  BadSets <- MCBadSets
  BufferSize = 4
  EofBlockSize = 3
  Modulus = 32
  Cells = {"a", "b", "x", "H", "F"}
  Needle <- MCNeedle
  Devices <- MCDevices
  Offsets = {0, 1}
  BadCellSets <- MCBadCellSets
  Junk <- MCJunk
  Sizes = {3, 9}
  Bytes <- MCBytes
  CacheSize = 4
  HeadSize = 3
  BufferMax = 9
  Marker <- MCMarker
  NoByte = "00"
  Streams <- MCStreams
  Forks <- MCForks
  MaxItems = 3
INVARIANTS
  TypeOK
  OnlySeamsWrong
  SearchTypeOK
  ReportsRight
  HitsReported
  UnpackTypeOK
  NothingSkipped
  SoundChunksWritten
PROPERTIES
  Termination
  SearchEnds
  UnpackEnds
CHECK_DEADLOCK FALSE
