SPECIFICATION Spec
CONSTANTS
  W32 = 12
  W64 = 144
  TZ_RES_MEM_START = 3
  TZ_RES_MEM_SIZE = 3
  Starts = {0, 3, 4, 5, 8}
  Lens = {1, 3, 6, 143}
  MaxRegs = 3
  Dtbs <- MCDtbs
INVARIANTS
  TypeOK
  AvailSound
  RefusedOnlyIfMissing
  SecureMemHidden
  InBounds
PROPERTIES
  PassesMakeProgress
  Termination
  GoodTreeBoots
