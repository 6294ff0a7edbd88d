SPECIFICATION Spec
CONSTANTS
  PAGE = 64
  WORD = 16384
  HEAPSIZE = 120
  Clients <- MCClients
INVARIANTS
  HeapWhole
  Accounted
PROPERTIES
  GivesBlocks
  FailsForCause
CHECK_DEADLOCK FALSE
