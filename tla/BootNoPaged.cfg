SPECIFICATION Spec
CONSTANTS
  W32 = 4194304
  PAGE_SIZE = 4
  DRAM_START = 2097152
  BIOS_RAM_START = 2098176
  TZ_RES_MEM_START = 3111936
  TZ_RES_MEM_SIZE = 33792
  DTB_MAX_SIZE = 64
  UART0_BASE = 459328
  KERNEL_OFFSET = 32768
  DTB_GAP = 98304
  HEADER_SIZE = 1
  Inputs <- MCInputs
INVARIANT
  PagedArgument
