------------------------------- MODULE BiosFdt -------------------------------
(***************************************************************************)
(* What bios/main.c does to the device tree, on the blob: open_fdt, the    *)
(* fdt_setprop of tz_res_mem, tz_res_uart, tz_add_optee_node, copy_dtb and *)
(* call_kernel.  Boot has the order of these and the memory around them;   *)
(* here are the offsets the BIOS holds from one call to the next, while    *)
(* each call moves the rest of the blob.                                   *)
(*                                                                         *)
(* A string is the sequence of its bytes, the last of which is 0.          *)
(***************************************************************************)
EXTENDS FdtRw

CONSTANTS
  Dtbs,          \* the blobs the BIOS may be started with
  Carved,        \* what tz_res_mem_carve may make of a "reg"
  UART1_BASE,    \* the four bytes of the address of uart1
  PL011,         \* "arm,pl011"
  OPTEE_TZ,      \* "linaro,optee-tz"
  SMC,           \* "smc"
  COMMAND_LINE,
  ROOTFS_START, ROOTFS_END  \* the four bytes of each

(* The blobs are as dtc and QEMU make them, and what the BIOS writes into  *)
(* them has names and lengths.                                             *)
ASSUME DtbsAssumption ==
  \A b \in Dtbs :
    /\ Sound(b) /\ Whole(b, Contents(b)) /\ b.boot_cpuid_phys \in CpuIds
    /\ Struct(b, 0)[2] = "BEGIN_NODE" /\ NodeName(b, 0) = ""

ASSUME WrittenAssumption ==
  /\ {"firmware", "optee"} \subseteq NodeNames
  /\ {"reg", "compatible", "method", "linux,initrd-start",
      "linux,initrd-end", "bootargs"} \subseteq PropNames
  /\ \A val \in Carved : Len(val) \in Nat
  /\ Len(OPTEE_TZ) \in Nat /\ Len(SMC) \in Nat /\ Len(COMMAND_LINE) \in Nat
  /\ Len(ROOTFS_START) \in Nat /\ Len(ROOTFS_END) \in Nat

VARIABLES
  dtb,           \* history: the blob in the beginning, and what it says
  carved,        \* history: the "reg" that tz_res_mem wrote
  pc,
  fdt,           \* the blob the BIOS works on
  view,          \* what it says
  offs           \* the variable of this name in tz_res_uart and
                 \* tz_add_optee_node

vars == <<dtb, carved, pc, fdt, view, offs>>

-----------------------------------------------------------------------------
(* fdt_open_into takes the tree of the image, or the one QEMU left in the  *)
(* buffer itself.                                                          *)
Init ==
  /\ dtb \in {[blob |-> b, view |-> Contents(b)] : b \in Dtbs}
  /\ fdt = dtb.blob
  /\ view = dtb.view
  /\ carved = <<>>
  /\ pc = "open"
  /\ offs = 0

(* The call returned r: CHECK(r < 0), then next.                           *)
Call(r, next) ==
  /\ fdt' = r.fdt
  /\ view' = Contents(r.fdt)
  /\ pc' = IF r.ret < 0 THEN "hang" ELSE next

(* Mutant: a tree that QEMU left is used as it is.                         *)
OpenFdtAsIs ==
  /\ pc = "open"
  /\ Call(Result(fdt, 0), "memory")
  /\ UNCHANGED <<dtb, carved, offs>>

Opens(next) == \E r \in fdt_open_into(fdt, BUF_SIZE) : Call(r, next)

OpenFdt ==
  /\ pc = "open"
  /\ Opens("memory") \/ Call(fdt_open_copy(fdt, BUF_SIZE), "memory")
  /\ UNCHANGED <<dtb, carved, offs>>

-----------------------------------------------------------------------------
(* get_cells_size, and CHECK of the length and of the value.               *)
CellsOf(b, name) ==
  LET prop == GetProperty(b, 0, name)
  IN  IF prop >= 0 /\ PropVal(b, prop) = <<0, 0, 0, 1>> THEN 1
      ELSE IF prop >= 0 /\ PropVal(b, prop) = <<0, 0, 0, 2>> THEN 2
      ELSE 0

(* tz_res_mem, of which TzResMem has the rest.                             *)
TzResMem ==
  LET node == SubnodeOffset(fdt, 0, "memory")
      ok   == /\ node >= 0
              /\ GetProperty(fdt, node, "reg") >= 0
              /\ CellsOf(fdt, "#address-cells") # 0
              /\ CellsOf(fdt, "#size-cells") # 0
  IN  /\ pc = "memory"
      /\ \/ ~ok /\ pc' = "hang" /\ UNCHANGED <<carved, fdt, view>>
         \/ /\ ok
            /\ \E val \in Carved :
                 /\ Call(Checked(fdt, fdt_setprop(fdt, node, "reg", val)),
                         "uart")
                 /\ carved' = val
      /\ UNCHANGED <<dtb, offs>>

-----------------------------------------------------------------------------
(* tz_res_uart.                                                            *)

(* PL011 is one of the strings in val.                                     *)
ListsPL011(val) ==
  \E i \in 1 .. Len(val) - Len(PL011) + 1 :
    /\ i = 1 \/ val[i - 1] = 0
    /\ SubSeq(val, i, i + Len(PL011) - 1) = PL011

NodeIsCompatible(b, node) ==
  LET prop == GetProperty(b, node, "compatible")
  IN  prop >= 0 /\ ListsPL011(PropVal(b, prop))

(* Mutant: addresses have one cell.                                        *)
HasRegBaseOneCell(b, node, addr_size) ==
  LET prop == GetProperty(b, node, "reg")
  IN  /\ prop >= 0
      /\ \A i \in 1 .. FDT_TAGSIZE :
           Struct(b, prop + PropHeader + i - 1) = <<"byte", UART1_BASE[i]>>

(* get_val does not look at the length of the property, and of two cells   *)
(* uintptr_t keeps the second.                                             *)
HasRegBase(b, node, addr_size) ==
  LET prop == GetProperty(b, node, "reg")
      low  == prop + PropHeader + (addr_size - 1) * FDT_TAGSIZE
  IN  /\ prop >= 0
      /\ \A i \in 1 .. FDT_TAGSIZE :
           Struct(b, low + i - 1) = <<"byte", UART1_BASE[i]>>

IsUart1(b, node) ==
  /\ NodeIsCompatible(b, node)
  /\ HasRegBase(b, node, CellsOf(b, "#address-cells"))

(* One iteration of the loop: offs, which the last one left, is advanced,  *)
(* and the node there is passed by, or deleted and the loop left.          *)
NextUart(found) ==
  /\ pc = "uart"
  /\ offs' = NextNodeFlat(fdt, offs)
  /\ found = (offs' >= 0 /\ IsUart1(fdt, offs'))
  /\ UNCHANGED <<dtb, carved>>

PassNode ==
  /\ NextUart(FALSE)
  /\ offs' >= 0
  /\ UNCHANGED <<pc, fdt, view>>

(* Mutant: the walk goes on, with an offset into what has moved.           *)
DeleteUart1GoesOn ==
  /\ NextUart(TRUE)
  /\ Call(Checked(fdt, fdt_del_node(fdt, offs')), "uart")

DeleteUart1 ==
  /\ NextUart(TRUE)
  /\ Call(Checked(fdt, fdt_del_node(fdt, offs')), "firmware")

NoMoreNodes ==
  /\ NextUart(FALSE)
  /\ offs' < 0
  /\ pc' = "firmware"
  /\ UNCHANGED <<fdt, view>>

-----------------------------------------------------------------------------
(* tz_add_optee_node.                                                      *)

AddsSubnode(parent, name, next) ==
  LET r == Checked(fdt, fdt_add_subnode(fdt, parent, name))
  IN  Call(r, next) /\ offs' = r.ret

(* fdt_path_offset(fdt, "/") is 0.                                         *)
AddFirmware ==
  /\ pc = "firmware"
  /\ AddsSubnode(0, "firmware", "optee")
  /\ UNCHANGED <<dtb, carved>>

(* Mutant: offs stays that of the parent.                                  *)
AddOpteeLost ==
  /\ pc = "optee"
  /\ Call(Checked(fdt, fdt_add_subnode(fdt, offs, "optee")), "compatible")
  /\ UNCHANGED <<dtb, carved, offs>>

AddOptee ==
  /\ pc = "optee"
  /\ AddsSubnode(offs, "optee", "compatible")
  /\ UNCHANGED <<dtb, carved>>

SetsProp(node, name, val, next) ==
  /\ Call(Checked(fdt, fdt_setprop(fdt, node, name, val)), next)
  /\ UNCHANGED <<dtb, carved, offs>>

SetCompatible ==
  pc = "compatible" /\ SetsProp(offs, "compatible", OPTEE_TZ, "method")

SetMethod == pc = "method" /\ SetsProp(offs, "method", SMC, "pack")

Packs(next) ==
  /\ Call(Checked(fdt, fdt_pack(fdt)), next)
  /\ UNCHANGED <<dtb, carved, offs>>

Pack == pc = "pack" /\ Packs("copy")

-----------------------------------------------------------------------------
(* copy_dtb and call_kernel.                                               *)

CopyDtb ==
  /\ pc = "copy"
  /\ Call(fdt_open_copy(fdt, BUF_SIZE), "reopen")
  /\ UNCHANGED <<dtb, carved, offs>>

ReopenFdt ==
  /\ pc = "reopen"
  /\ Opens("initrd-start")
  /\ UNCHANGED <<dtb, carved, offs>>

(* setprop_cell and setprop_string look the node up each time.             *)
SetsChosen(name, val, next) ==
  /\ \E node \in {SubnodeOffset(fdt, 0, "chosen")} :
       IF node < 0 THEN pc' = "hang" /\ UNCHANGED <<fdt, view>>
       ELSE Call(Checked(fdt, fdt_setprop(fdt, node, name, val)), next)
  /\ UNCHANGED <<dtb, carved, offs>>

SetInitrdStart ==
  /\ pc = "initrd-start"
  /\ SetsChosen("linux,initrd-start", ROOTFS_START, "initrd-end")

SetInitrdEnd ==
  /\ pc = "initrd-end"
  /\ SetsChosen("linux,initrd-end", ROOTFS_END, "bootargs")

SetBootargs ==
  /\ pc = "bootargs"
  /\ SetsChosen("bootargs", COMMAND_LINE, "repack")

EnterKernel == pc = "repack" /\ Packs("entered")

Stopped == pc \in {"hang", "entered"} /\ UNCHANGED vars

Next ==
  \/ OpenFdt \/ TzResMem
  \/ PassNode \/ DeleteUart1 \/ NoMoreNodes
  \/ AddFirmware \/ AddOptee \/ SetCompatible \/ SetMethod \/ Pack
  \/ CopyDtb \/ ReopenFdt
  \/ SetInitrdStart \/ SetInitrdEnd \/ SetBootargs \/ EnterKernel
  \/ Stopped

Spec == Init /\ [][Next]_vars
-----------------------------------------------------------------------------
PcValues ==
  {"open", "memory", "uart", "firmware", "optee", "compatible", "method",
   "pack", "copy", "reopen", "initrd-start", "initrd-end", "bootargs",
   "repack", "hang", "entered"}

(* The blob stays in its buffer and whole, and an offset that is held      *)
(* while it is edited is that of the node it was: tz_res_uart's of the     *)
(* node it has come to, tz_add_optee_node's of what it has added.          *)
HeldOffsets ==
  /\ pc \in PcValues
  /\ Fits(fdt)
  /\ Whole(fdt, view)
  /\ pc = "uart" => At(view, offs) # Nowhere
  /\ pc = "optee" => At(view, offs) = <<"", "firmware">>
  /\ pc \in {"compatible", "method"} =>
       At(view, offs) = <<"", "firmware", "optee">>

(* The tree before the BIOS, and the nodes in it that are uart1.           *)
Before == dtb.view.tree

HasCells(name) ==
  /\ name \in DOMAIN Before[<<"">>]
  /\ Before[<<"">>][name] \in {<<0, 0, 0, 1>>, <<0, 0, 0, 2>>}

(* UART1_BASE is the last of the cells that an address has.                *)
AtUart1(reg) ==
  \E size \in {FDT_TAGSIZE * Before[<<"">>]["#address-cells"][FDT_TAGSIZE]} :
    /\ size <= Len(reg)
    /\ SubSeq(reg, size - FDT_TAGSIZE + 1, size) = UART1_BASE

IsUart1Node(props) ==
  /\ {"compatible", "reg"} \subseteq DOMAIN props
  /\ ListsPL011(props["compatible"]) /\ AtUart1(props["reg"])

Uart1Offsets ==
  {o \in DOMAIN dtb.view.at \ {0} : IsUart1Node(Before[At(dtb.view, o)])}

(* The paths of the first of them and of what is in it.                    *)
Removed ==
  LET first == CHOOSE o \in Uart1Offsets : \A p \in Uart1Offsets : o <= p
  IN  IF Uart1Offsets = {} THEN {}
      ELSE {path \in DOMAIN Before : IsPrefix(At(dtb.view, first), path)}

Named(name) == {path \in DOMAIN Before :
                  Len(path) = 2 /\ NodeNameEq(path[2], name)}

Memory == Named("memory")

Firmware == <<"", "firmware">>

Optee == <<"", "firmware", "optee">>

(* The tree the kernel should get.                                         *)
After ==
  LET old(path) == IF path \in DOMAIN Before THEN Before[path] ELSE <<>>
      new(path) ==
        IF path \in Memory THEN "reg" :> carved
        ELSE IF path = Optee THEN "compatible" :> OPTEE_TZ @@ "method" :> SMC
        ELSE IF path \in Named("chosen")
          THEN "linux,initrd-start" :> ROOTFS_START
                 @@ "linux,initrd-end" :> ROOTFS_END
                 @@ "bootargs" :> COMMAND_LINE
        ELSE <<>>
  IN  [path \in (DOMAIN Before \ Removed) \cup {Firmware, Optee} |->
         new(path) @@ old(path)]

(* The kernel gets the tree there was with the secure memory out of /memory *)
(* and uart1 gone, /firmware/optee and the three properties of /chosen,    *)
(* every other node and property as it was, in a blob with no space left.  *)
KernelTree ==
  pc = "entered" =>
    /\ view.tree = After
    /\ fdt.totalsize = DataSize(fdt)

(* What the BIOS adds to a blob at most.                                   *)
SpaceFor(name, val) ==
  PropHeader + TagAlign(Len(val)) + Len(Tails[name])

SpaceForNode(name) == 2 * FDT_TAGSIZE + Len(NameCells(name))

SpaceNeeded ==
  SpaceFor("reg", carved) + SpaceForNode("firmware") + SpaceForNode("optee")
    + SpaceFor("compatible", OPTEE_TZ) + SpaceFor("method", SMC)
    + SpaceFor("linux,initrd-start", ROOTFS_START)
    + SpaceFor("linux,initrd-end", ROOTFS_END)
    + SpaceFor("bootargs", COMMAND_LINE)

(* A tree the BIOS can work with.                                          *)
Usable ==
  /\ \E path \in Memory : "reg" \in DOMAIN Before[path]
  /\ HasCells("#address-cells") /\ HasCells("#size-cells")
  /\ Named("chosen") # {}
  /\ Named("firmware") = {}

(* The BIOS hangs only on a tree that lacks something or has no space, for *)
(* what is added or to put the blocks in order in the first place.         *)
HangsForCause ==
  LET misordered == Misordered(dtb.blob, MapSize(dtb.blob))
      used == IF misordered THEN PackedSize(dtb.blob)
                             ELSE DataSize(dtb.blob)
  IN  pc = "hang" =>
        \/ ~Usable
        \/ used + SpaceNeeded > BUF_SIZE
        \/ misordered /\ dtb.blob.totalsize + used > BUF_SIZE

(* The walk of tz_res_uart advances over a blob that is not edited, so it  *)
(* comes to the end of it, and no other step goes back: the BIOS does not  *)
(* work on the tree for ever.                                              *)
WalkAdvances ==
  [][pc' = pc => pc = "uart" /\ offs < offs' /\ fdt' = fdt]_vars
=============================================================================
