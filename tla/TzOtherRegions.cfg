SPECIFICATION Spec
CONSTANTS
  W32 = 12
  W64 = 144
  TZ_RES_MEM_START = 3
  TZ_RES_MEM_SIZE = 3
  Starts = {0, 3, 8}
  Lens = {3}
  MaxRegs = 2
  Dtbs <- PlainDtbs
INVARIANT
  OnlyReservedGoes
