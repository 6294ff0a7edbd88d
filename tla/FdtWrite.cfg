SPECIFICATION Spec
CONSTANTS
  FDT_TAGSIZE = 4
  HEADER_SIZE = 40
  NodeLength <- MCNodeLength
  BaseName <- MCBaseName
  Tails <- MCTails
  BUF_SIZE = 480
  CpuIds = {0}
  PathOf <- MCPathOf
  Blobs <- MCBlobs
  WriteNames = {"", "n", "m@1"}
  WriteProps = {"p", "qp"}
  WriteValues <- FewValues
  Values <- MCValues
  Addresses = {0}
  Sizes = {1}
  BufSizes = {39, 44, 80, 115}
  BufLens = {1, 2, 3, 4, 7, 9}
  AliasPaths <- MCAliasPaths
  Phandles <- MCPhandles
  Compatibles <- MCCompatibles
INVARIANTS
  BlocksApart
  ReadersAgree
PROPERTIES
  WritesTheTree
  NoSpaceIsDue
CHECK_DEADLOCK FALSE
