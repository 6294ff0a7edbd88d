SPECIFICATION Spec
CONSTANTS
  W32 = 12
  W64 = 24
  TZ_RES_MEM_START = 3
  TZ_RES_MEM_SIZE = 3
  Starts = {0, 2, 3, 4, 5}
  Lens = {1, 3, 5, 12}
  MaxRegs = 3
  Dtbs <- CarvableDtbs
INVARIANTS
  CarveExact
PROPERTIES
  Reserves
