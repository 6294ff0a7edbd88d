SPECIFICATION Spec
CONSTANTS
  FDT_TAGSIZE = 4
  HEADER_SIZE = 40
  NodeLength <- MCNodeLength
  BaseName <- MCBaseName
  Tails <- MCTails
  BUF_SIZE = 240
  Blobs <- MCBlobs
  CpuIds = {0, 1}
  Values <- FewValues
  BadOffsets <- NotFoundOffset
  Addresses = {0}
  Sizes = {}
  MAX_CALLS = 1
PROPERTY
  BadParentIsRefused
CHECK_DEADLOCK FALSE
