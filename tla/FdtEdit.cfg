SPECIFICATION Spec
CONSTANTS
  FDT_TAGSIZE = 4
  HEADER_SIZE = 40
  NodeLength <- MCNodeLength
  BaseName <- MCBaseName
  Tails <- MCTails
  BUF_SIZE = 240
  Blobs <- MCBlobs
  CpuIds = {0, 1}
  Values <- MCValues
  BadOffsets <- MCBadOffsets
  Addresses = {0}
  Sizes = {0, 1}
  MAX_CALLS = 3
INVARIANTS
  BlobIsSound
  BlobIsWhole
PROPERTIES
  EditsTheTree
  OffsetsKept
  FailureIsFree
CHECK_DEADLOCK FALSE
