-------------------------------- MODULE Boot --------------------------------
(***************************************************************************)
(* The boot from reset to the first instruction of the kernel: reset of    *)
(* bios/entry.S, main_init_sec and main_init_ns of bios/main.c, and what   *)
(* they call, on the memory map of platform_config.h.                      *)
(*                                                                         *)
(* What lies in RAM is kept as extents: at[o] is where object o is, or     *)
(* Nowhere when it has not been written or has been written over.  A       *)
(* device tree is the set of the edits made to it.  tz_res_mem is one step *)
(* here, the one SecureReservation promises; TzResMem has its loops.       *)
(***************************************************************************)
EXTENDS Integers, FiniteSets

CONSTANTS
  W32,              \* number of values of an address, 2^32 in the code
  PAGE_SIZE,
  DRAM_START,
  BIOS_RAM_START,
  TZ_RES_MEM_START,
  TZ_RES_MEM_SIZE,
  DTB_MAX_SIZE,
  UART0_BASE,       \* the first address above the flash that is taken
  KERNEL_OFFSET,    \* 32 MiB: from the beginning of RAM to the kernel
  DTB_GAP,          \* 96 MiB: from the end of the kernel to its tree
  HEADER_SIZE,      \* sizeof(struct optee_header)
  Inputs            \* the flash images and trees the machine may start with

TZ_RES_MEM_END == TZ_RES_MEM_START + TZ_RES_MEM_SIZE

DTB_START == DRAM_START

(***************************************************************************)
(* The memory a tree describes, as tz_res_mem sees it: what is kept for    *)
(* the secure world and what is below and above.                           *)
(***************************************************************************)
Zone == {"below", "secure", "above"}

(* What the BIOS does to a tree, and the accesses of libfdt it CHECKs.     *)
Edit == {"open", "reg", "uart1", "optee", "pack", "copy", "reopen",
         "initrd-start", "initrd-end", "bootargs", "repack"}

(***************************************************************************)
(* bios .. rootfs: sizes of what the linker puts into the image one after  *)
(* the other (bios: .text to .data, bss: .bss with the stack; secure: the  *)
(* header, the init part and the paged part; dtb: 0 when there is none and *)
(* QEMU's is used).  magic .. load_addr: the header.  memory: what /memory *)
(* of the tree stands for; faults: the calls of libfdt that return an      *)
(* error for this tree (no such node, no space, a node that exists).       *)
(* uart_shared: built with TZ_UART_SHARED, uart1 is left to both worlds.   *)
(***************************************************************************)
Input == [bios : Nat, bss : Nat, secure : Nat, kernel : Nat, dtb : Nat,
          rootfs : Nat, magic : BOOLEAN, load_addr_hi : Nat,
          init_size : Nat, load_addr : Nat, uart_shared : BOOLEAN,
          memory : SUBSET Zone, faults : SUBSET Edit]

ASSUME LayoutAssumption ==
  /\ W32 \in Nat /\ PAGE_SIZE \in Nat \ {0} /\ UART0_BASE \in Nat
  /\ DRAM_START \in Nat \ {0} /\ BIOS_RAM_START \in Nat
  /\ DTB_MAX_SIZE \in Nat /\ KERNEL_OFFSET \in Nat /\ DTB_GAP \in Nat
  /\ TZ_RES_MEM_START \in Nat /\ TZ_RES_MEM_SIZE \in Nat
  /\ HEADER_SIZE \in Nat
  /\ DTB_START + DTB_MAX_SIZE <= BIOS_RAM_START
  /\ BIOS_RAM_START <= DRAM_START + KERNEL_OFFSET
  /\ DRAM_START + KERNEL_OFFSET + UART0_BASE + DTB_GAP + 2 * DTB_MAX_SIZE
       + 2 * PAGE_SIZE <= TZ_RES_MEM_START
  /\ TZ_RES_MEM_END < W32

ASSUME InputsAssumption ==
  Inputs \subseteq Input

VARIABLES
  input,        \* never assigned
  pc,
  world,        \* "secure" until the secure world returns to the BIOS
  at,           \* where each object is
  memory,       \* the zones the tree at DTB_START calls memory
  outcome,      \* of tz_res_mem
  tree,         \* the edits made to the tree at DTB_START
  ktree,        \* the edits made to the tree the kernel gets
  initrd,       \* linux,initrd-start and linux,initrd-end of that tree
  kernel_entry, dtb_addr, rootfs_start, rootfs_end,  \* the globals
  arg           \* struct sec_entry_arg

globals == <<kernel_entry, dtb_addr, rootfs_start, rootfs_end>>

trees == <<tree, ktree, initrd>>

reservation == <<memory, outcome>>

vars == <<input, pc, world, at, reservation, trees, globals, arg>>

Reservation == INSTANCE SecureReservation
                 WITH Address <- Zone, Secure <- {"secure"}

-----------------------------------------------------------------------------
(* Memory.                                                                 *)

Objects == {"bios", "bss", "dtb", "paged", "init", "kernel", "kernel_dtb",
            "rootfs"}

Extent(lo, size) == [lo |-> lo, hi |-> lo + size]

Nowhere == [lo |-> 0, hi |-> 0]

Overlap(e, f) == e.lo < f.hi /\ f.lo < e.hi /\ e.lo < e.hi /\ f.lo < f.hi

Inside(e, f) == f.lo <= e.lo /\ e.hi <= f.hi

Secure == Extent(TZ_RES_MEM_START, TZ_RES_MEM_SIZE)

(* What is left of the other objects when e is written.                    *)
Spared(e) == [o \in Objects |-> IF Overlap(at[o], e) THEN Nowhere ELSE at[o]]

(* The BIOS runs from "bios" and keeps its stack and its globals in "bss": *)
(* a write that hits them, or runs past the last address, is the end.      *)
Fatal(e) ==
  \/ Overlap(e, at["bios"])
  \/ Overlap(e, at["bss"])
  \/ e.hi > W32

Write(o, e, next) ==
  /\ at' = [Spared(e) EXCEPT ![o] = e]
  /\ pc' = IF Fatal(e) THEN "lost" ELSE next

(* memcpy from the flash, which only the secure world can read.            *)
CopyImage(o, e, next) ==
  /\ at' = [Spared(e) EXCEPT ![o] = IF world = "secure" THEN e ELSE Nowhere]
  /\ pc' = IF Fatal(e) THEN "lost" ELSE next

(* ROUNDUP(v, PAGE_SIZE).                                                  *)
RoundUp(v) == v + ((-v) % PAGE_SIZE)

-----------------------------------------------------------------------------
Init ==
  /\ input \in Inputs
  /\ pc = "reset"
  /\ world = "secure"
  /\ at = [o \in Objects |-> Nowhere]
  /\ memory = input.memory
  /\ outcome = "pending"
  /\ tree = {}
  /\ ktree = {}
  /\ initrd = Nowhere
  /\ kernel_entry = 0
  /\ dtb_addr = 0
  /\ rootfs_start = 0
  /\ rootfs_end = 0
  /\ arg = [entry |-> 0, paged_part |-> 0, fdt |-> 0]

(* copy_blob of .text to .data to where the image is linked.               *)
Relocate ==
  /\ pc = "reset"
  /\ CopyImage("bios", Extent(BIOS_RAM_START, input.bios), "relocated")
  /\ UNCHANGED <<input, world, reservation, trees, globals, arg>>

(* zero_mem of .bss, and the stack in front of it.                         *)
ZeroBss ==
  /\ pc = "relocated"
  /\ at' = [at EXCEPT
              !["bss"] = Extent(BIOS_RAM_START + input.bios, input.bss)]
  /\ pc' = "open"
  /\ UNCHANGED <<input, world, reservation, trees, globals, arg>>

(* A call of libfdt, then CHECK(r < 0).                                    *)
Succeeds(e) == e \notin input.faults

Edited(edits, e) == IF Succeeds(e) THEN edits \cup {e} ELSE edits

HangUnless(ok, next) == pc' = IF ok THEN next ELSE "hang"

(* Mutant: CHECK((size_t)(end - start) >= DTB_MAX_SIZE).                   *)
OpenFdtFull ==
  /\ pc = "open"
  /\ IF input.dtb >= DTB_MAX_SIZE \/ ~Succeeds("open")
       THEN pc' = "hang" /\ UNCHANGED at
       ELSE Write("dtb", Extent(DTB_START, DTB_MAX_SIZE), "tz_res_mem")
  /\ UNCHANGED <<input, world, reservation, trees, globals, arg>>

(* open_fdt: the tree of the image or the one QEMU left at DTB_START.      *)
OpenFdt ==
  /\ pc = "open"
  /\ IF input.dtb > DTB_MAX_SIZE \/ ~Succeeds("open")
       THEN pc' = "hang" /\ UNCHANGED at
       ELSE Write("dtb", Extent(DTB_START, DTB_MAX_SIZE), "tz_res_mem")
  /\ UNCHANGED <<input, world, reservation, trees, globals, arg>>

(* tz_res_mem, as SecureReservation has it.                                *)
TzResMem ==
  /\ pc = "tz_res_mem"
  /\ IF Succeeds("reg") THEN Reservation!Reserve \/ Reservation!Refuse
                        ELSE Reservation!Halt
  /\ HangUnless(outcome' = "reserved", "tz_res_uart")
  /\ UNCHANGED <<input, world, at, trees, globals, arg>>

TzResUart ==
  /\ pc = "tz_res_uart"
  /\ \/ /\ input.uart_shared
        /\ pc' = "tz_add_optee_node"
        /\ UNCHANGED tree
     \/ /\ ~input.uart_shared
        /\ HangUnless(Succeeds("uart1"), "tz_add_optee_node")
        /\ tree' = Edited(tree, "uart1")
  /\ UNCHANGED <<input, world, at, reservation, ktree, initrd, globals, arg>>

TzAddOpteeNode ==
  /\ pc = "tz_add_optee_node"
  /\ HangUnless(Succeeds("optee"), "pack")
  /\ tree' = Edited(tree, "optee")
  /\ UNCHANGED <<input, world, at, reservation, ktree, initrd, globals, arg>>

PackFdt ==
  /\ pc = "pack"
  /\ HangUnless(Succeeds("pack"), "header")
  /\ UNCHANGED <<input, world, at, reservation, trees, globals, arg>>

(* The secure blob is long enough for a header, and it is one.             *)
CheckHeader ==
  /\ pc = "header"
  /\ HangUnless(/\ input.secure >= HEADER_SIZE
                /\ input.magic
                /\ input.load_addr_hi = 0, "paged")
  /\ UNCHANGED <<input, world, at, reservation, trees, globals, arg>>

(* uint32_t arithmetic: an init_size larger than the blob wraps around.    *)
PagedSize == (input.secure - HEADER_SIZE - input.init_size) % W32

(* Mutant: the paged part goes to the beginning of the secure memory.      *)
PagedDstLow == TZ_RES_MEM_START

PagedDst == (TZ_RES_MEM_END - PagedSize) % W32

CopyPaged ==
  /\ pc = "paged"
  /\ CopyImage("paged", Extent(PagedDst, PagedSize), "init")
  /\ arg' = [arg EXCEPT !.paged_part = PagedDst, !.entry = input.load_addr]
  /\ UNCHANGED <<input, world, reservation, trees, globals>>

(* What is left of the blob is the init part.                              *)
CopySecure ==
  /\ pc = "init"
  /\ CopyImage("init", Extent(input.load_addr, input.init_size), "kernel")
  /\ UNCHANGED <<input, world, reservation, trees, globals, arg>>

-----------------------------------------------------------------------------
(* copy_ns_images.                                                         *)

(* Mutant: the kernel goes to the beginning of RAM.                        *)
CopyKernelLow ==
  /\ pc = "kernel"
  /\ kernel_entry' = DRAM_START
  /\ CopyImage("kernel", Extent(kernel_entry', input.kernel), "copy")
  /\ dtb_addr' = RoundUp(kernel_entry' + input.kernel) + DTB_GAP
  /\ UNCHANGED <<input, world, reservation, trees, rootfs_start, rootfs_end,
                 arg>>

(* Mutant: the tree goes to a fixed place.                                 *)
CopyKernelFixedDtb ==
  /\ pc = "kernel"
  /\ kernel_entry' = DRAM_START + KERNEL_OFFSET
  /\ CopyImage("kernel", Extent(kernel_entry', input.kernel), "copy")
  /\ dtb_addr' = kernel_entry' + DTB_GAP
  /\ UNCHANGED <<input, world, reservation, trees, rootfs_start, rootfs_end,
                 arg>>

CopyKernel ==
  /\ pc = "kernel"
  /\ kernel_entry' = DRAM_START + KERNEL_OFFSET
  /\ CopyImage("kernel", Extent(kernel_entry', input.kernel), "copy")
  /\ dtb_addr' = RoundUp(kernel_entry' + input.kernel) + DTB_GAP
  /\ UNCHANGED <<input, world, reservation, trees, rootfs_start, rootfs_end,
                 arg>>

(* Mutant: the kernel's tree is copied from the one QEMU left.             *)
CopyDtbUnedited ==
  /\ pc = "copy"
  /\ IF ~Succeeds("copy")
       THEN pc' = "hang" /\ UNCHANGED at
       ELSE Write("kernel_dtb", Extent(dtb_addr, DTB_MAX_SIZE), "rootfs")
  /\ UNCHANGED <<input, world, reservation, trees, globals, arg>>

(* copy_dtb: fdt_open_into from DTB_START.                                 *)
CopyDtb ==
  /\ pc = "copy"
  /\ IF ~Succeeds("copy")
       THEN pc' = "hang" /\ UNCHANGED <<at, ktree>>
       ELSE /\ Write("kernel_dtb", Extent(dtb_addr, DTB_MAX_SIZE), "rootfs")
            /\ ktree' = tree
  /\ UNCHANGED <<input, world, reservation, tree, initrd, globals, arg>>

(* Mutant: dst is not moved past the tree.                                 *)
CopyRootfsOnDtb ==
  /\ pc = "rootfs"
  /\ rootfs_start' = RoundUp(dtb_addr)
  /\ rootfs_end' = rootfs_start' + input.rootfs
  /\ CopyImage("rootfs", Extent(rootfs_start', input.rootfs), "tee")
  /\ arg' = [arg EXCEPT !.fdt = dtb_addr]
  /\ UNCHANGED <<input, world, reservation, trees, kernel_entry, dtb_addr>>

(* dst is already past the tree when DTB_MAX_SIZE is added once more.      *)
CopyRootfs ==
  /\ pc = "rootfs"
  /\ rootfs_start' = RoundUp(dtb_addr + DTB_MAX_SIZE + DTB_MAX_SIZE)
  /\ rootfs_end' = rootfs_start' + input.rootfs
  /\ CopyImage("rootfs", Extent(rootfs_start', input.rootfs), "tee")
  /\ arg' = [arg EXCEPT !.fdt = dtb_addr]
  /\ UNCHANGED <<input, world, reservation, trees, kernel_entry, dtb_addr>>

-----------------------------------------------------------------------------
(* The secure world: entered at arg.entry with its blob in place, it takes *)
(* the memory kept for it and comes back to new_loc in the normal world.   *)
SecureWorld ==
  /\ pc = "tee"
  /\ at' = Spared(Secure)
  /\ world' = "normal"
  /\ pc' = IF \/ at["init"].lo # arg.entry
              \/ Fatal(Secure)
             THEN "lost" ELSE "reopen"
  /\ UNCHANGED <<input, reservation, trees, globals, arg>>

-----------------------------------------------------------------------------
(* main_init_ns and call_kernel.                                           *)

ReopenFdt ==
  /\ pc = "reopen"
  /\ HangUnless(Succeeds("reopen"), "initrd-start")
  /\ UNCHANGED <<input, world, at, reservation, trees, globals, arg>>

SetInitrdStart ==
  /\ pc = "initrd-start"
  /\ HangUnless(Succeeds("initrd-start"), "initrd-end")
  /\ initrd' = [initrd EXCEPT !.lo = rootfs_start]
  /\ ktree' = Edited(ktree, "initrd-start")
  /\ UNCHANGED <<input, world, at, reservation, tree, globals, arg>>

SetInitrdEnd ==
  /\ pc = "initrd-end"
  /\ HangUnless(Succeeds("initrd-end"), "bootargs")
  /\ initrd' = [initrd EXCEPT !.hi = rootfs_end]
  /\ ktree' = Edited(ktree, "initrd-end")
  /\ UNCHANGED <<input, world, at, reservation, tree, globals, arg>>

SetBootargs ==
  /\ pc = "bootargs"
  /\ HangUnless(Succeeds("bootargs"), "repack")
  /\ ktree' = Edited(ktree, "bootargs")
  /\ UNCHANGED <<input, world, at, reservation, tree, initrd, globals, arg>>

(* fdt_pack, then the jump to the kernel.                                  *)
EnterKernel ==
  /\ pc = "repack"
  /\ HangUnless(Succeeds("repack"), "entered")
  /\ UNCHANGED <<input, world, at, reservation, trees, globals, arg>>

Stopped == pc \in {"hang", "lost", "entered"} /\ UNCHANGED vars

Next ==
  \/ Relocate \/ ZeroBss
  \/ OpenFdt \/ TzResMem \/ TzResUart \/ TzAddOpteeNode \/ PackFdt
  \/ CheckHeader \/ CopyPaged \/ CopySecure
  \/ CopyKernel \/ CopyDtb \/ CopyRootfs
  \/ SecureWorld
  \/ ReopenFdt \/ SetInitrdStart \/ SetInitrdEnd \/ SetBootargs \/ EnterKernel
  \/ Stopped

(* One processor, every interrupt masked; the secure world returns.        *)
Spec == Init /\ [][Next]_vars /\ WF_vars(Next)
-----------------------------------------------------------------------------
PcValues ==
  {"reset", "relocated", "open", "tz_res_mem", "tz_res_uart",
   "tz_add_optee_node", "pack", "header", "paged", "init", "kernel", "copy",
   "rootfs", "tee", "reopen", "initrd-start", "initrd-end", "bootargs",
   "repack", "hang", "lost", "entered"}

Extents == [lo : Nat, hi : Nat]

(* The types of the variables.                                             *)
TypeOK ==
  /\ input \in Inputs
  /\ pc \in PcValues
  /\ world \in {"secure", "normal"}
  /\ at \in [Objects -> Extents]
  /\ memory \in SUBSET Zone
  /\ outcome \in {"pending", "reserved", "refused", "halted"}
  /\ tree \in SUBSET Edit
  /\ ktree \in SUBSET Edit
  /\ initrd \in Extents
  /\ kernel_entry \in Nat /\ dtb_addr \in Nat
  /\ rootfs_start \in Nat /\ rootfs_end \in Nat
  /\ arg \in [entry : Nat, paged_part : Nat, fdt : Nat]

(* What the build and the secure world's header have to get right.         *)

(* The image ends below the UART, the next thing on the address map.       *)
FitsFlash ==
  input.bios + input.bss + input.secure + input.kernel + input.dtb
    + input.rootfs <= UART0_BASE

(* The BIOS ends below where it puts the kernel.                           *)
BiosFits ==
  BIOS_RAM_START + input.bios + input.bss <= DRAM_START + KERNEL_OFFSET

(* The header's init part is in the blob, and loads into the secure memory *)
(* below where the paged part goes.                                        *)
HeaderFits ==
  /\ HEADER_SIZE + input.init_size <= input.secure
  /\ TZ_RES_MEM_START <= input.load_addr
  /\ input.load_addr + input.secure - HEADER_SIZE <= TZ_RES_MEM_END

WellFormed == FitsFlash /\ BiosFits /\ HeaderFits

(* No copy of a well-formed image lands on the code, the stack or the      *)
(* globals of the BIOS that makes it, nor does the secure world.           *)
NeverLost == WellFormed => pc # "lost"

(* At its entry the secure world finds the init part where its header said *)
(* and the paged part where r0 says, both whole, apart, and in the memory  *)
(* kept for it, and r2 has the tree the kernel will get.                   *)
SecureHandOver ==
  pc = "tee" /\ WellFormed =>
    /\ at["init"] = Extent(arg.entry, input.init_size)
    /\ at["paged"] = Extent(arg.paged_part,
                            input.secure - HEADER_SIZE - input.init_size)
    /\ Inside(at["init"], Secure) /\ Inside(at["paged"], Secure)
    /\ at["kernel_dtb"].lo = arg.fdt

(* The comment in reset says what r0 is for the secure world: "address of  *)
(* pagable part if != 0", so it is 0 when the blob has no paged part.      *)
PagedArgument ==
  pc = "tee" /\ WellFormed /\ arg.paged_part # 0 =>
    at["paged"].lo < at["paged"].hi

(* At its entry the kernel finds itself, its tree and the root file system *)
(* whole where the registers and the tree say, although the secure world   *)
(* has run in between and the flash can no longer be read.                 *)
KernelHandOver ==
  pc = "entered" /\ WellFormed =>
    /\ at["kernel"] = Extent(kernel_entry, input.kernel)
    /\ at["kernel_dtb"] = Extent(dtb_addr, DTB_MAX_SIZE)
    /\ at["rootfs"] = Extent(rootfs_start, input.rootfs)
    /\ initrd = at["rootfs"]

(* The tree the kernel gets has every edit, those made before it was       *)
(* copied and those made after, and no secure memory.                      *)
KernelTreeComplete ==
  pc = "entered" =>
    /\ {"optee", "initrd-start", "initrd-end", "bootargs"} \subseteq ktree
    /\ input.uart_shared \/ "uart1" \in ktree
    /\ "secure" \notin memory

(* Nothing that was put in place is written over before its reader has run *)
(* (the parts of the secure world are its own once it is entered).         *)
NothingOverwritten ==
  [][WellFormed =>
       \A o \in Objects :
         at[o] # Nowhere /\ at'[o] # at[o] =>
           pc = "tee" /\ o \in {"init", "paged"}]_vars

(* A good image on a good tree boots.                                      *)
GoodInput ==
  /\ WellFormed
  /\ input.magic /\ input.load_addr_hi = 0
  /\ input.dtb <= DTB_MAX_SIZE
  /\ input.faults = {}
  /\ "secure" \in input.memory

GoodInputBoots == GoodInput ~> pc = "entered"

-----------------------------------------------------------------------------
(* What makes the safety properties inductive: every object is where the   *)
(* sizes of the image put it, or nowhere.                                  *)

KernelAt == DRAM_START + KERNEL_OFFSET

DtbAt == RoundUp(KernelAt + input.kernel) + DTB_GAP

RootfsAt == RoundUp(DtbAt + DTB_MAX_SIZE + DTB_MAX_SIZE)

Home(o) ==
  IF o = "bios" THEN Extent(BIOS_RAM_START, input.bios)
  ELSE IF o = "bss" THEN Extent(BIOS_RAM_START + input.bios, input.bss)
  ELSE IF o = "dtb" THEN Extent(DTB_START, DTB_MAX_SIZE)
  ELSE IF o = "paged" THEN Extent(PagedDst, PagedSize)
  ELSE IF o = "init" THEN Extent(input.load_addr, input.init_size)
  ELSE IF o = "kernel" THEN Extent(KernelAt, input.kernel)
  ELSE IF o = "kernel_dtb" THEN Extent(DtbAt, DTB_MAX_SIZE)
  ELSE Extent(RootfsAt, input.rootfs)

Halted == {"hang", "lost"}

(* Where the boot is once an object is in place.                           *)
NsPcs == {"reopen", "initrd-start", "initrd-end", "bootargs", "repack",
          "entered"}

AfterDtb == {"tee"} \cup NsPcs

AfterSecure == {"kernel", "copy", "rootfs", "tee"}

AtHome ==
  /\ \A o \in Objects : at[o] \in {Nowhere, Home(o)}
  /\ pc = "reset" => at["bios"] = Nowhere
  /\ pc \in {"copy", "rootfs"} \cup AfterDtb => at["kernel"] = Home("kernel")
  /\ pc \in {"rootfs"} \cup AfterDtb => at["kernel_dtb"] = Home("kernel_dtb")
  /\ pc \in AfterDtb => at["rootfs"] = Home("rootfs")
  /\ pc \in {"init"} \cup AfterSecure => at["paged"] = Home("paged")
  /\ pc \in AfterSecure => at["init"] = Home("init")

Registers ==
  /\ pc \in {"copy", "rootfs"} \cup AfterDtb =>
       kernel_entry = KernelAt /\ dtb_addr = DtbAt
  /\ pc \in AfterDtb =>
       /\ rootfs_start = RootfsAt
       /\ rootfs_end = RootfsAt + input.rootfs
       /\ arg.fdt = DtbAt
  /\ pc \in {"init"} \cup AfterSecure =>
       arg.entry = input.load_addr /\ arg.paged_part = PagedDst
  /\ pc \in {"initrd-end", "bootargs", "repack", "entered"} =>
       initrd.lo = RootfsAt
  /\ pc \in {"bootargs", "repack", "entered"} =>
       initrd.hi = RootfsAt + input.rootfs

(* The flash can be read as long as something is copied from it.           *)
FlashReadable == pc \notin NsPcs \cup Halted => world = "secure"

Placement ==
  WellFormed => AtHome /\ Registers /\ pc # "lost"

(* The edits made so far, and the memory left.                             *)
EditsSoFar ==
  /\ pc \in {"tz_add_optee_node", "pack", "header", "paged", "init", "kernel",
             "copy"} => input.uart_shared \/ "uart1" \in tree
  /\ pc \in {"pack", "header", "paged", "init", "kernel", "copy"} =>
       "optee" \in tree
  /\ pc \in {"rootfs"} \cup AfterDtb =>
       "optee" \in ktree /\ (input.uart_shared \/ "uart1" \in ktree)
  /\ pc \in {"initrd-end", "bootargs", "repack", "entered"} =>
       "initrd-start" \in ktree
  /\ pc \in {"bootargs", "repack", "entered"} => "initrd-end" \in ktree
  /\ pc \in {"repack", "entered"} => "bootargs" \in ktree
  /\ pc \notin {"reset", "relocated", "open", "tz_res_mem"} \cup Halted =>
       "secure" \notin memory

IInv == TypeOK /\ FlashReadable /\ Placement /\ EditsSoFar
=============================================================================
