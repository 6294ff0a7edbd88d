SPECIFICATION Spec
CONSTANTS
  FDT_TAGSIZE = 4
  HEADER_SIZE = 40
  NodeLength <- MCNodeLength
  BaseName <- MCBaseName
  Tails <- MCTails
  BUF_SIZE = 480
  CpuIds = {0}
  Dtbs <- MCDtbs
  Carved <- MCCarved
  UART1_BASE <- MCUart1
  PL011 <- MCPL011
  OPTEE_TZ <- MCOpteeTz
  SMC <- MCSmc
  COMMAND_LINE <- MCCommandLine
  ROOTFS_START <- MCRootfsStart
  ROOTFS_END <- MCRootfsEnd
INVARIANTS
  HeldOffsets
  KernelTree
  HangsForCause
PROPERTY
  WalkAdvances
