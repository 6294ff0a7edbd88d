------------------------------- MODULE MCBoot -------------------------------
(***************************************************************************)
(* Boot on the vexpress memory map of platform_config.h, in KiB: an        *)
(* address of 32 bits is below 4194304, and the header takes 1.            *)
(***************************************************************************)
EXTENDS Boot

Good == [bios |-> 64, bss |-> 20, secure |-> 301, kernel |-> 5003, dtb |-> 0,
         rootfs |-> 2050, magic |-> TRUE, load_addr_hi |-> 0,
         init_size |-> 200, load_addr |-> TZ_RES_MEM_START,
         uart_shared |-> FALSE,
         memory |-> Zone, faults |-> {}]

(* Images of any size up to all of the flash.                              *)
FlashLeft == UART0_BASE - 64 - 20

Sizes ==
  {[Good EXCEPT !.kernel = k, !.dtb = d, !.rootfs = r, !.secure = s,
                !.init_size = n] :
     k \in {1, 4096, FlashLeft - 301}, d \in {0, 64, 65},
     r \in {0, 1, 2051}, s \in {0, 1, 301, TZ_RES_MEM_SIZE + 1},
     n \in {0, 200, 301}}

(* Headers of an image that was not built right.                           *)
Headers ==
  {[Good EXCEPT !.magic = m, !.load_addr_hi = h, !.init_size = n,
                !.load_addr = a] :
     m \in BOOLEAN, h \in {0, 1}, n \in {0, 300, 400},
     a \in {0, BIOS_RAM_START, DRAM_START + KERNEL_OFFSET - 1,
            TZ_RES_MEM_START, TZ_RES_MEM_END - 300, TZ_RES_MEM_END - 1}}

Faults ==
  {[Good EXCEPT !.faults = {e}, !.uart_shared = s] :
     e \in Edit, s \in BOOLEAN}

Memories == {[Good EXCEPT !.memory = z] : z \in SUBSET Zone}

MCInputs == Sizes \cup Headers \cup Faults \cup Memories
=============================================================================
