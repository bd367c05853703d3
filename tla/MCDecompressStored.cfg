SPECIFICATION UnpackSpec
CONSTANTS
  Bytes <- MCBytes
  CacheSize = 4
  HeadSize = 3
  BufferMax = 9
  Marker <- MCMarker
  NoByte = "00"
  Streams <- MCStreams
  Forks <- MCForks
  MaxItems = 3
INVARIANT
  StoredChunksToo
CHECK_DEADLOCK FALSE
