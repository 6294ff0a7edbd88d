----------------------------- MODULE BootProofs -----------------------------
(***************************************************************************)
(* Proofs about Boot, for every memory map with the distances of           *)
(* LayoutAssumption and every set of images.                               *)
(***************************************************************************)
EXTENDS Boot, TLAPS

-----------------------------------------------------------------------------
(* Arithmetic.                                                             *)

LEMMA Numbers ==
  /\ W32 \in Nat /\ W32 > 0
  /\ PAGE_SIZE \in Nat /\ PAGE_SIZE > 0
  /\ UART0_BASE \in Nat /\ DRAM_START \in Nat /\ BIOS_RAM_START \in Nat
  /\ DTB_MAX_SIZE \in Nat /\ KERNEL_OFFSET \in Nat /\ DTB_GAP \in Nat
  /\ TZ_RES_MEM_START \in Nat /\ TZ_RES_MEM_SIZE \in Nat
  /\ TZ_RES_MEM_END \in Nat
  /\ HEADER_SIZE \in Nat
BY LayoutAssumption DEF TZ_RES_MEM_END

LEMMA ModType ==
  ASSUME NEW v \in Int, NEW n \in Nat, n > 0
  PROVE  v % n \in 0 .. n - 1
BY SMT

LEMMA ModSmall ==
  ASSUME NEW n \in Nat, NEW v \in 0 .. n - 1
  PROVE  v % n = v
BY SMT

(* ROUNDUP goes up, by less than a page.                                   *)
LEMMA RoundUpBounds ==
  ASSUME NEW v \in Nat
  PROVE  /\ RoundUp(v) \in Nat
         /\ v <= RoundUp(v) /\ RoundUp(v) < v + PAGE_SIZE
<1>1. (-v) % PAGE_SIZE \in 0 .. PAGE_SIZE - 1
  BY Numbers, ModType
<1>. QED  BY <1>1, Numbers DEF RoundUp

LEMMA InputFields ==
  ASSUME input \in Inputs
  PROVE  /\ input.bios \in Nat /\ input.bss \in Nat /\ input.secure \in Nat
         /\ input.kernel \in Nat /\ input.dtb \in Nat
         /\ input.rootfs \in Nat /\ input.init_size \in Nat
         /\ input.load_addr \in Nat
         /\ input.memory \in SUBSET Zone
BY InputsAssumption DEF Input

LEMMA HomeTypes ==
  ASSUME input \in Inputs
  PROVE  /\ PagedSize \in Nat /\ PagedDst \in Nat
         /\ KernelAt \in Nat /\ DtbAt \in Nat /\ RootfsAt \in Nat
         /\ \A o \in Objects : Home(o) \in Extents
<1>1. PagedSize \in Nat
  BY InputFields, Numbers, ModType DEF PagedSize
<1>2. PagedDst \in Nat
  BY <1>1, Numbers, ModType DEF PagedDst
<1>3. KernelAt \in Nat
  BY Numbers DEF KernelAt
<1>4. DtbAt \in Nat
  <2>1. RoundUp(KernelAt + input.kernel) \in Nat
    BY <1>3, InputFields, RoundUpBounds
  <2>. QED  BY <2>1, Numbers DEF DtbAt
<1>5. RootfsAt \in Nat
  BY <1>4, Numbers, RoundUpBounds DEF RootfsAt
<1>6. ASSUME NEW o \in Objects  PROVE Home(o) \in Extents
  BY <1>1, <1>2, <1>3, <1>4, <1>5, InputFields, Numbers
     DEF Home, Extent, Extents, DTB_START, Objects
<1>. QED  BY <1>1, <1>2, <1>3, <1>4, <1>5, <1>6

(* The memory map, from low to high addresses.                             *)
LEMMA Layout ==
  ASSUME input \in Inputs, WellFormed
  PROVE  /\ DTB_START + DTB_MAX_SIZE <= BIOS_RAM_START
         /\ BIOS_RAM_START + input.bios + input.bss <= KernelAt
         /\ KernelAt + input.kernel <= DtbAt
         /\ DtbAt + DTB_MAX_SIZE <= RootfsAt
         /\ RootfsAt + input.rootfs <= TZ_RES_MEM_START
         /\ TZ_RES_MEM_START <= input.load_addr
         /\ input.load_addr + input.init_size <= PagedDst
         /\ PagedDst + PagedSize = TZ_RES_MEM_END
         /\ TZ_RES_MEM_END < W32
         /\ PagedSize = input.secure - HEADER_SIZE - input.init_size
<1>. USE InputFields, Numbers, HomeTypes
<1>1. PagedSize = input.secure - HEADER_SIZE - input.init_size
  <2>1. input.secure - HEADER_SIZE - input.init_size \in 0 .. W32 - 1
    BY LayoutAssumption DEF WellFormed, HeaderFits
  <2>. QED  BY <2>1, ModSmall DEF PagedSize
<1>2. PagedDst = TZ_RES_MEM_END - PagedSize
  <2>1. TZ_RES_MEM_END - PagedSize \in 0 .. W32 - 1
    BY <1>1, LayoutAssumption DEF WellFormed, HeaderFits
  <2>. QED  BY <2>1, ModSmall DEF PagedDst
<1>3. /\ KernelAt + input.kernel <= DtbAt
      /\ DtbAt < KernelAt + input.kernel + PAGE_SIZE + DTB_GAP
  BY RoundUpBounds DEF DtbAt
<1>4. /\ DtbAt + DTB_MAX_SIZE + DTB_MAX_SIZE <= RootfsAt
      /\ RootfsAt < DtbAt + DTB_MAX_SIZE + DTB_MAX_SIZE + PAGE_SIZE
  BY RoundUpBounds DEF RootfsAt
<1>5. RootfsAt + input.rootfs <= TZ_RES_MEM_START
  BY <1>3, <1>4, LayoutAssumption DEF WellFormed, FitsFlash, KernelAt
<1>. QED
  BY <1>1, <1>2, <1>3, <1>4, <1>5, LayoutAssumption
     DEF WellFormed, HeaderFits, BiosFits, KernelAt

(* No object's place overlaps another's, or runs past the last address.    *)
LEMMA HomesApart ==
  ASSUME input \in Inputs, WellFormed, NEW o \in Objects, NEW p \in Objects
  PROVE  /\ o # p => ~Overlap(Home(o), Home(p))
         /\ Home(o).hi <= W32
<1>. USE Layout, InputFields, Numbers, HomeTypes
<1>1. Home(o).hi <= W32
  BY DEF Home, Extent, Objects, DTB_START
<1>2. o # p => Home(o).hi <= Home(p).lo \/ Home(p).hi <= Home(o).lo
  BY DEF Home, Extent, Objects, DTB_START
<1>3. /\ Home(o).lo \in Nat /\ Home(o).hi \in Nat
      /\ Home(p).lo \in Nat /\ Home(p).hi \in Nat
  BY DEF Extents
<1>. QED  BY <1>1, <1>2, <1>3 DEF Overlap

LEMMA SecureApart ==
  ASSUME input \in Inputs, WellFormed, NEW o \in Objects
  PROVE  /\ o \notin {"init", "paged"} => ~Overlap(Home(o), Secure)
         /\ o \in {"init", "paged"} => Inside(Home(o), Secure)
         /\ Secure.hi <= W32
<1>. USE Layout, InputFields, Numbers, HomeTypes
<1>1. Secure = [lo |-> TZ_RES_MEM_START, hi |-> TZ_RES_MEM_END]
  BY DEF Secure, Extent, TZ_RES_MEM_END
<1>2. o \notin {"init", "paged"} => Home(o).hi <= TZ_RES_MEM_START
  BY DEF Home, Extent, Objects, DTB_START
<1>3. o \in {"init", "paged"} =>
        TZ_RES_MEM_START <= Home(o).lo /\ Home(o).hi <= TZ_RES_MEM_END
  BY DEF Home, Extent, Objects
<1>4. Home(o).lo \in Nat /\ Home(o).hi \in Nat
  BY DEF Extents
<1>. QED  BY <1>1, <1>2, <1>3, <1>4 DEF Overlap, Inside

(* What a write of an object where it belongs does to the others.          *)
LEMMA WriteAtHome ==
  ASSUME TypeOK, WellFormed, AtHome, NEW o \in Objects
  PROVE  /\ \A p \in Objects \ {o} : Spared(Home(o))[p] = at[p]
         /\ ~Fatal(Home(o)) \/ o \in {"bios", "bss"}
<1>1. \A p \in Objects : at[p] \in {Nowhere, Home(p)}
  BY DEF AtHome
<1>2. \A p \in Objects \ {o} : ~Overlap(at[p], Home(o))
  <2>. TAKE p \in Objects \ {o}
  <2>1. CASE at[p] = Nowhere
    BY <2>1 DEF Nowhere, Overlap
  <2>2. CASE at[p] = Home(p)
    BY <2>2, HomesApart DEF TypeOK
  <2>. QED  BY <1>1, <2>1, <2>2
<1>3. \A p \in Objects \ {o} : Spared(Home(o))[p] = at[p]
  BY <1>2 DEF Spared
<1>4. o \notin {"bios", "bss"} => ~Fatal(Home(o))
  <2>1. \A p \in Objects \ {o} : ~Overlap(Home(o), at[p])
    BY <1>2 DEF Overlap
  <2>2. Home(o).hi <= W32 /\ Home(o).hi \in Nat
    BY HomesApart, HomeTypes DEF TypeOK, Extents
  <2>. QED  BY <2>1, <2>2, Numbers DEF Fatal, Objects
<1>. QED  BY <1>3, <1>4

LEMMA SameInput ==
  ASSUME input' = input
  PROVE  /\ WellFormed' <=> WellFormed
         /\ KernelAt' = KernelAt /\ DtbAt' = DtbAt /\ RootfsAt' = RootfsAt
         /\ PagedDst' = PagedDst /\ PagedSize' = PagedSize
         /\ \A o \in Objects : Home(o)' = Home(o)
<1>1. /\ WellFormed' <=> WellFormed
      /\ KernelAt' = KernelAt /\ DtbAt' = DtbAt /\ RootfsAt' = RootfsAt
      /\ PagedDst' = PagedDst /\ PagedSize' = PagedSize
  BY DEF WellFormed, FitsFlash, BiosFits, HeaderFits, KernelAt, DtbAt,
         RootfsAt, PagedDst, PagedSize
<1>2. \A o \in Objects : Home(o)' = Home(o)
  BY <1>1 DEF Home
<1>. QED  BY <1>1, <1>2

-----------------------------------------------------------------------------
(* The inductive invariant, part by part and action by action.             *)

LEMMA InitIInv == Init => IInv
<1>. SUFFICES ASSUME Init  PROVE IInv
  OBVIOUS
<1>. USE DEF Init
<1>1. TypeOK
  BY InputFields, Numbers
     DEF TypeOK, PcValues, Nowhere, Extents, Objects
<1>2. FlashReadable
  BY DEF FlashReadable
<1>3. Placement
  BY DEF Placement, AtHome, Registers, AfterDtb, AfterSecure, NsPcs, Objects
<1>4. EditsSoFar
  BY DEF EditsSoFar, AfterDtb, NsPcs
<1>. QED  BY <1>1, <1>2, <1>3, <1>4 DEF IInv

(* A write keeps the type of at.                                           *)
LEMMA SparedType ==
  ASSUME TypeOK, NEW e
  PROVE  Spared(e) \in [Objects -> Extents]
BY DEF TypeOK, Spared, Nowhere, Extents

LEMMA NextTypeOK == TypeOK /\ [Next]_vars => TypeOK'
<1>. SUFFICES ASSUME TypeOK, [Next]_vars  PROVE TypeOK'
  OBVIOUS
<1>0. /\ at \in [Objects -> Extents] /\ input \in Inputs
      /\ \A e : Spared(e) \in [Objects -> Extents]
      /\ Nowhere \in Extents
  BY SparedType DEF TypeOK, Nowhere, Extents
<1>. USE DEF TypeOK, PcValues
<1>1. CASE Relocate
  <2>1. Extent(BIOS_RAM_START, input.bios) \in Extents
    BY <1>0, InputFields, Numbers DEF Extent, Extents
  <2>. QED  BY <1>0, <1>1, <2>1 DEF Relocate, CopyImage, reservation, trees, globals
<1>2. CASE ZeroBss
  <2>1. Extent(BIOS_RAM_START + input.bios, input.bss) \in Extents
    BY <1>0, InputFields, Numbers DEF Extent, Extents
  <2>. QED  BY <1>0, <1>2, <2>1 DEF ZeroBss, reservation, trees, globals
<1>3. CASE OpenFdt
  <2>1. Extent(DTB_START, DTB_MAX_SIZE) \in Extents
    BY Numbers DEF Extent, Extents, DTB_START
  <2>. QED
    BY <1>0, <1>3, <2>1
       DEF OpenFdt, Write, reservation, trees, globals
<1>4. CASE TzResMem
  BY <1>4 DEF TzResMem, HangUnless, Reservation!Reserve, Reservation!Refuse,
              Reservation!Halt, trees, globals
<1>5. CASE TzResUart \/ TzAddOpteeNode
  BY <1>5 DEF TzResUart, TzAddOpteeNode, HangUnless, Edited, Edit,
              reservation, globals
<1>6. CASE PackFdt \/ CheckHeader \/ ReopenFdt \/ EnterKernel
  BY <1>6 DEF PackFdt, CheckHeader, ReopenFdt, EnterKernel, HangUnless,
              reservation, trees, globals
<1>7. CASE CopyPaged
  <2>1. Extent(PagedDst, PagedSize) \in Extents
    BY <1>0, HomeTypes DEF Extent, Extents
  <2>. QED
    BY <1>0, <1>7, <2>1, HomeTypes, InputFields
       DEF CopyPaged, CopyImage, reservation, trees, globals
<1>8. CASE CopySecure
  <2>1. Extent(input.load_addr, input.init_size) \in Extents
    BY <1>0, InputFields DEF Extent, Extents
  <2>. QED
    BY <1>0, <1>8, <2>1 DEF CopySecure, CopyImage, reservation, trees, globals
<1>9. CASE CopyKernel
  <2>1. kernel_entry' = KernelAt /\ dtb_addr' = DtbAt
    BY <1>9 DEF CopyKernel, KernelAt, DtbAt
  <2>2. Extent(KernelAt, input.kernel) \in Extents
    BY <1>0, HomeTypes, InputFields DEF Extent, Extents
  <2>. QED
    BY <1>0, <1>9, <2>1, <2>2, HomeTypes
       DEF CopyKernel, CopyImage, reservation, trees
<1>10. CASE CopyDtb
  <2>1. Extent(dtb_addr, DTB_MAX_SIZE) \in Extents
    BY Numbers DEF Extent, Extents
  <2>. QED
    BY <1>0, <1>10, <2>1 DEF CopyDtb, Write, reservation, globals
<1>11. CASE CopyRootfs
  <2>1. rootfs_start' \in Nat /\ rootfs_end' \in Nat
    BY <1>0, <1>11, RoundUpBounds, Numbers, InputFields DEF CopyRootfs
  <2>2. Extent(rootfs_start', input.rootfs) \in Extents
    BY <1>0, <2>1, InputFields DEF Extent, Extents
  <2>. QED
    BY <1>0, <1>11, <2>1, <2>2
       DEF CopyRootfs, CopyImage, reservation, trees
<1>12. CASE SecureWorld
  BY <1>0, <1>12 DEF SecureWorld, reservation, trees, globals
<1>13. CASE SetInitrdStart \/ SetInitrdEnd \/ SetBootargs
  BY <1>13 DEF SetInitrdStart, SetInitrdEnd, SetBootargs, HangUnless, Edited,
               Edit, Extents, reservation, globals
<1>14. CASE UNCHANGED vars
  BY <1>14 DEF vars, reservation, trees, globals
<1>. QED
  BY <1>1, <1>2, <1>3, <1>4, <1>5, <1>6, <1>7, <1>8, <1>9, <1>10, <1>11,
     <1>12, <1>13, <1>14 DEF Next, Stopped

LEMMA NextFlashReadable == FlashReadable /\ [Next]_vars => FlashReadable'
<1>. SUFFICES ASSUME FlashReadable, [Next]_vars  PROVE FlashReadable'
  OBVIOUS
<1>. USE DEF FlashReadable, NsPcs, Halted
<1>1. CASE SecureWorld
  BY <1>1 DEF SecureWorld
<1>2. CASE UNCHANGED vars
  BY <1>2 DEF vars
<1>3. CASE ReopenFdt \/ SetInitrdStart \/ SetInitrdEnd \/ SetBootargs
             \/ EnterKernel
  BY <1>3 DEF ReopenFdt, SetInitrdStart, SetInitrdEnd, SetBootargs,
              EnterKernel, HangUnless
<1>4. CASE \/ Relocate \/ ZeroBss \/ OpenFdt \/ TzResMem \/ TzResUart
           \/ TzAddOpteeNode \/ PackFdt \/ CheckHeader
           \/ CopyPaged \/ CopySecure \/ CopyKernel \/ CopyDtb \/ CopyRootfs
  BY <1>4 DEF Relocate, ZeroBss, OpenFdt, TzResMem, TzResUart, TzAddOpteeNode,
              PackFdt, CheckHeader, CopyPaged, CopySecure, CopyKernel,
              CopyDtb, CopyRootfs, HangUnless
<1>. QED  BY <1>1, <1>2, <1>3, <1>4 DEF Next, Stopped

LEMMA NextEditsSoFar ==
  TypeOK /\ EditsSoFar /\ [Next]_vars => EditsSoFar'
<1>. SUFFICES ASSUME TypeOK, EditsSoFar, [Next]_vars  PROVE EditsSoFar'
  OBVIOUS
<1>. USE DEF EditsSoFar, AfterDtb, NsPcs, Halted
<1>1. CASE UNCHANGED vars
  BY <1>1 DEF vars, trees, reservation
<1>2. CASE \/ Relocate \/ ZeroBss \/ OpenFdt
  BY <1>2 DEF Relocate, ZeroBss, OpenFdt, CopyImage, Write, trees, reservation
<1>3. CASE TzResMem
  BY <1>3 DEF TzResMem, HangUnless, Reservation!Reserve, Reservation!Refuse,
              Reservation!Halt, trees
<1>4. CASE TzResUart \/ TzAddOpteeNode
  BY <1>4 DEF TzResUart, TzAddOpteeNode, HangUnless, Edited, reservation
<1>5. CASE PackFdt \/ CheckHeader \/ ReopenFdt \/ EnterKernel
  BY <1>5 DEF PackFdt, CheckHeader, ReopenFdt, EnterKernel, HangUnless, trees,
              reservation
<1>6. CASE CopyPaged \/ CopySecure \/ CopyKernel \/ CopyRootfs
  BY <1>6 DEF CopyPaged, CopySecure, CopyKernel, CopyRootfs, CopyImage,
              trees, reservation
<1>7. CASE CopyDtb
  BY <1>7 DEF CopyDtb, Write, reservation
<1>8. CASE SecureWorld
  BY <1>8 DEF SecureWorld, trees, reservation
<1>9. CASE SetInitrdStart \/ SetInitrdEnd \/ SetBootargs
  BY <1>9 DEF SetInitrdStart, SetInitrdEnd, SetBootargs, HangUnless, Edited,
              reservation
<1>. QED
  BY <1>1, <1>2, <1>3, <1>4, <1>5, <1>6, <1>7, <1>8, <1>9 DEF Next, Stopped

(* A copy to where the object belongs, in the secure world.                *)
LEMMA CopyAtHome ==
  ASSUME TypeOK, WellFormed, AtHome, NEW o \in Objects,
         o \notin {"bios", "bss"}, NEW next,
         \/ Write(o, Home(o), next)
         \/ CopyImage(o, Home(o), next) /\ world = "secure"
  PROVE  /\ at'[o] = Home(o)
         /\ \A p \in Objects \ {o} : at'[p] = at[p]
         /\ pc' = next
<1>1. at' = [Spared(Home(o)) EXCEPT ![o] = Home(o)]
  BY DEF Write, CopyImage
<1>2. pc' = next
  BY WriteAtHome DEF Write, CopyImage
<1>3. at'[o] = Home(o) /\ \A p \in Objects \ {o} : at'[p] = Spared(Home(o))[p]
  BY <1>1 DEF Spared
<1>. QED  BY <1>2, <1>3, WriteAtHome

LEMMA NextPlacement == IInv /\ [Next]_vars => Placement'
<1>. SUFFICES ASSUME IInv, [Next]_vars, WellFormed'
              PROVE  AtHome' /\ Registers' /\ pc' # "lost"
  BY DEF Placement
<1>0. /\ input' = input /\ WellFormed
      /\ TypeOK /\ AtHome /\ Registers /\ pc # "lost"
  <2>1. input' = input
    BY DEF Next, Relocate, ZeroBss, OpenFdt, TzResMem, TzResUart,
           TzAddOpteeNode, PackFdt, CheckHeader, CopyPaged, CopySecure,
           CopyKernel, CopyDtb, CopyRootfs, SecureWorld, ReopenFdt,
           SetInitrdStart, SetInitrdEnd, SetBootargs, EnterKernel, Stopped,
           vars
  <2>. QED  BY <2>1, SameInput DEF IInv, Placement
<1>. USE <1>0, SameInput
<1>b. \A o \in Objects : Home(o)' = Home(o)
  OBVIOUS
<1>a. world = "secure" \/ pc \in NsPcs \cup Halted
  BY DEF IInv, FlashReadable
<1>1. CASE Relocate
  <2>. USE <1>1 DEF Relocate
  <2>1. /\ CopyImage("bios", Home("bios"), "relocated") /\ world = "secure"
        /\ "bios" \in Objects
    BY <1>a DEF Home, Objects, NsPcs, Halted
  <2>2. at' = [Spared(Home("bios")) EXCEPT !["bios"] = Home("bios")]
    BY <2>1 DEF CopyImage
  <2>3. /\ at'["bios"] = Home("bios")
        /\ \A p \in Objects \ {"bios"} : at'[p] = at[p]
    BY <2>1, <2>2, WriteAtHome DEF Spared
  <2>4. ~Fatal(Home("bios"))
    <3>1. ~Overlap(Home("bios"), at["bios"])
      BY DEF AtHome, Nowhere, Overlap
    <3>2. ~Overlap(Home("bios"), at["bss"])
      <4>1. at["bss"] \in {Nowhere, Home("bss")}
        BY DEF AtHome, Objects
      <4>2. ~Overlap(Home("bios"), Home("bss"))
        BY HomesApart DEF Objects, TypeOK
      <4>3. ~Overlap(Home("bios"), Nowhere)
        BY DEF Overlap, Nowhere
      <4>. QED  BY <4>1, <4>2, <4>3
    <3>3. Home("bios").hi <= W32 /\ Home("bios").hi \in Nat
      BY <2>1, HomesApart, HomeTypes DEF TypeOK, Extents
    <3>. QED  BY <3>1, <3>2, <3>3, Numbers DEF Fatal
  <2>5. pc' = "relocated"
    BY <2>1, <2>4 DEF CopyImage
  <2>. QED
    BY <2>3, <2>5 DEF AtHome, Registers, AfterDtb, AfterSecure, NsPcs
<1>2. CASE ZeroBss
  <2>1. Home("bss") = Extent(BIOS_RAM_START + input.bios, input.bss)
    BY DEF Home
  <2>2. at' = [at EXCEPT !["bss"] = Home("bss")] /\ pc' = "open"
    BY <1>2, <2>1 DEF ZeroBss
  <2>. QED
    BY <2>2 DEF AtHome, Registers, AfterDtb, AfterSecure, NsPcs, TypeOK
<1>3. CASE OpenFdt
  <2>1. CASE pc' = "hang" /\ UNCHANGED at
    BY <2>1 DEF AtHome, Registers, AfterDtb, AfterSecure, NsPcs
  <2>2. CASE Write("dtb", Extent(DTB_START, DTB_MAX_SIZE), "tz_res_mem")
    <3>1. Write("dtb", Home("dtb"), "tz_res_mem") /\ "dtb" \in Objects
      BY <2>2 DEF Home, Objects
    <3>2. /\ at'["dtb"] = Home("dtb") /\ pc' = "tz_res_mem"
          /\ \A p \in Objects \ {"dtb"} : at'[p] = at[p]
      BY <3>1, CopyAtHome
    <3>. QED
      BY <3>2 DEF AtHome, Registers, AfterDtb, AfterSecure, NsPcs
  <2>. QED  BY <1>3, <2>1, <2>2 DEF OpenFdt
<1>4. CASE /\ TzResMem \/ TzResUart \/ TzAddOpteeNode \/ PackFdt \/ CheckHeader
  BY <1>4 DEF TzResMem, TzResUart, TzAddOpteeNode, PackFdt, CheckHeader,
              HangUnless, AtHome, Registers, AfterDtb, AfterSecure, NsPcs
<1>5. CASE CopyPaged
  <2>. USE <1>5 DEF CopyPaged
  <2>1. /\ CopyImage("paged", Home("paged"), "init") /\ world = "secure"
        /\ "paged" \in Objects
    BY <1>a DEF Home, Objects, NsPcs, Halted
  <2>2. /\ at'["paged"] = Home("paged") /\ pc' = "init"
        /\ \A p \in Objects \ {"paged"} : at'[p] = at[p]
    BY <2>1, CopyAtHome
  <2>3. arg'.paged_part = PagedDst /\ arg'.entry = input.load_addr
    BY DEF TypeOK
  <2>. QED
    BY <2>2, <2>3 DEF AtHome, Registers, AfterDtb, AfterSecure, NsPcs, Objects
<1>6. CASE CopySecure
  <2>. USE <1>6 DEF CopySecure
  <2>1. /\ CopyImage("init", Home("init"), "kernel") /\ world = "secure"
        /\ "init" \in Objects
    BY <1>a DEF Home, Objects, NsPcs, Halted
  <2>2. /\ at'["init"] = Home("init") /\ pc' = "kernel"
        /\ \A p \in Objects \ {"init"} : at'[p] = at[p]
    BY <2>1, CopyAtHome
  <2>. QED
    BY <2>2 DEF AtHome, Registers, AfterDtb, AfterSecure, NsPcs, Objects
<1>7. CASE CopyKernel
  <2>. USE <1>7 DEF CopyKernel
  <2>1. kernel_entry' = KernelAt /\ dtb_addr' = DtbAt
    BY DEF KernelAt, DtbAt
  <2>2. /\ CopyImage("kernel", Home("kernel"), "copy") /\ world = "secure"
        /\ "kernel" \in Objects
    BY <1>a, <2>1 DEF Home, Objects, NsPcs, Halted
  <2>3. /\ at'["kernel"] = Home("kernel") /\ pc' = "copy"
        /\ \A p \in Objects \ {"kernel"} : at'[p] = at[p]
    BY <2>2, CopyAtHome
  <2>. QED
    BY <2>1, <2>3 DEF AtHome, Registers, AfterDtb, AfterSecure, NsPcs, Objects
<1>8. CASE CopyDtb
  <2>. USE <1>8 DEF CopyDtb
  <2>1. CASE pc' = "hang" /\ UNCHANGED at
    BY <2>1 DEF AtHome, Registers, AfterDtb, AfterSecure, NsPcs
  <2>2. CASE Write("kernel_dtb", Extent(dtb_addr, DTB_MAX_SIZE), "rootfs")
    <3>1. /\ Write("kernel_dtb", Home("kernel_dtb"), "rootfs")
          /\ "kernel_dtb" \in Objects
      BY <2>2 DEF Home, Objects, Registers
    <3>2. /\ at'["kernel_dtb"] = Home("kernel_dtb") /\ pc' = "rootfs"
          /\ \A p \in Objects \ {"kernel_dtb"} : at'[p] = at[p]
      BY <3>1, CopyAtHome
    <3>. QED
      BY <3>2
         DEF AtHome, Registers, AfterDtb, AfterSecure, NsPcs, Objects, globals
  <2>. QED  BY <2>1, <2>2
<1>9. CASE CopyRootfs
  <2>. USE <1>9 DEF CopyRootfs
  <2>1. rootfs_start' = RootfsAt /\ rootfs_end' = RootfsAt + input.rootfs
    BY DEF Registers, RootfsAt
  <2>2. /\ CopyImage("rootfs", Home("rootfs"), "tee") /\ world = "secure"
        /\ "rootfs" \in Objects
    BY <1>a, <2>1 DEF Home, Objects, NsPcs, Halted
  <2>3. /\ at'["rootfs"] = Home("rootfs") /\ pc' = "tee"
        /\ \A p \in Objects \ {"rootfs"} : at'[p] = at[p]
    BY <2>2, CopyAtHome
  <2>4. /\ arg'.fdt = dtb_addr /\ arg'.entry = arg.entry
        /\ arg'.paged_part = arg.paged_part
    BY DEF TypeOK
  <2>. QED
    BY <2>1, <2>3, <2>4
       DEF AtHome, Registers, AfterDtb, AfterSecure, NsPcs, Objects
<1>10. CASE SecureWorld
  <2>. USE <1>10 DEF SecureWorld
  <2>1. \A p \in Objects \ {"init", "paged"} : at'[p] = at[p]
    <3>. TAKE p \in Objects \ {"init", "paged"}
    <3>1. at[p] \in {Nowhere, Home(p)}
      BY DEF AtHome
    <3>2. ~Overlap(Home(p), Secure) /\ ~Overlap(Nowhere, Secure)
      BY SecureApart DEF TypeOK, Overlap, Nowhere
    <3>. QED  BY <3>1, <3>2 DEF Spared
  <2>2. \A p \in Objects : at'[p] \in {Nowhere, at[p]}
    BY DEF Spared
  <2>3. at["init"].lo = arg.entry
    BY DEF AtHome, Registers, AfterSecure, Home, Extent
  <2>4. ~Fatal(Secure)
    <3>1. at["bios"] \in {Nowhere, Home("bios")} /\ at["bss"] \in {Nowhere, Home("bss")}
      BY DEF AtHome, Objects
    <3>2. /\ ~Overlap(Home("bios"), Secure) /\ ~Overlap(Home("bss"), Secure)
          /\ Secure.hi <= W32
      BY SecureApart DEF TypeOK, Objects
    <3>3. Secure.hi \in Nat
      BY Numbers DEF Secure, Extent
    <3>. QED  BY <3>1, <3>2, <3>3, Numbers DEF Fatal, Overlap, Nowhere
  <2>5. pc' = "reopen"
    BY <2>3, <2>4
  <2>. QED
    BY <2>1, <2>2, <2>5
       DEF AtHome, Registers, AfterDtb, AfterSecure, NsPcs, Objects, globals
<1>11. CASE ReopenFdt \/ SetBootargs \/ EnterKernel
  <2>1. /\ at' = at /\ UNCHANGED <<globals, arg, initrd>> /\ pc # "tee"
        /\ \/ pc = "reopen" /\ pc' = "initrd-start"
           \/ pc = "bootargs" /\ pc' = "repack"
           \/ pc = "repack" /\ pc' = "entered"
           \/ pc' = "hang"
    BY <1>11 DEF ReopenFdt, SetBootargs, EnterKernel, HangUnless, trees
  <2>2. AtHome'
    BY <1>b, <2>1 DEF AtHome, AfterDtb, AfterSecure, NsPcs, Objects
  <2>3. Registers'
    BY <2>1 DEF Registers, AfterDtb, AfterSecure, NsPcs, globals
  <2>. QED  BY <2>1, <2>2, <2>3
<1>12. CASE SetInitrdStart \/ SetInitrdEnd
  <2>1. /\ at' = at /\ UNCHANGED <<globals, arg>>
        /\ \/ /\ pc = "initrd-start" /\ pc' = "initrd-end"
              /\ initrd'.lo = rootfs_start
           \/ /\ pc = "initrd-end" /\ pc' = "bootargs"
              /\ initrd'.lo = initrd.lo /\ initrd'.hi = rootfs_end
           \/ pc' = "hang"
    BY <1>12 DEF SetInitrdStart, SetInitrdEnd, HangUnless, TypeOK, Extents
  <2>2. AtHome'
    BY <1>b, <2>1 DEF AtHome, AfterDtb, AfterSecure, NsPcs, Objects
  <2>3. Registers'
    BY <2>1 DEF Registers, AfterDtb, AfterSecure, NsPcs, globals
  <2>. QED  BY <2>1, <2>2, <2>3
<1>13. CASE UNCHANGED vars
  <2>1. /\ at' = at /\ UNCHANGED <<globals, arg, initrd, pc>>
    BY <1>13 DEF vars, trees
  <2>2. AtHome'
    BY <1>b, <2>1 DEF AtHome, Objects
  <2>3. Registers'
    BY <2>1 DEF Registers, globals
  <2>. QED  BY <2>1, <2>2, <2>3
<1>. QED
  BY <1>1, <1>2, <1>3, <1>4, <1>5, <1>6, <1>7, <1>8, <1>9, <1>10, <1>11,
     <1>12, <1>13 DEF Next, Stopped

LEMMA NextIInv == IInv /\ [Next]_vars => IInv'
<1>. SUFFICES ASSUME IInv, [Next]_vars  PROVE IInv'
  OBVIOUS
<1>1. TypeOK'
  BY NextTypeOK DEF IInv
<1>2. FlashReadable'
  BY NextFlashReadable DEF IInv
<1>3. Placement'
  BY NextPlacement
<1>4. EditsSoFar'
  BY NextEditsSoFar DEF IInv
<1>. QED  BY <1>1, <1>2, <1>3, <1>4 DEF IInv

(* Every object is where the sizes of the image put it, in every state.    *)
THEOREM Invariance == Spec => []IInv
BY InitIInv, NextIInv, PTL DEF Spec

(* Type correctness of the boot, whatever the images and the memory map.   *)
THEOREM TypeCorrect == Spec => []TypeOK
<1>1. IInv => TypeOK
  BY DEF IInv
<1>. QED  BY <1>1, Invariance, PTL

(* A well-formed image never makes the BIOS write over itself.             *)
THEOREM BiosSurvives == Spec => []NeverLost
<1>1. IInv => NeverLost
  BY DEF IInv, Placement, NeverLost
<1>. QED  BY <1>1, Invariance, PTL

(* The secure world is entered with its two parts whole, apart and inside  *)
(* the memory kept for it, and with the registers that say so.             *)
THEOREM SecureWorldIsHandedOver == Spec => []SecureHandOver
<1>1. IInv => SecureHandOver
  <2>. SUFFICES ASSUME IInv, pc = "tee", WellFormed
                PROVE  /\ at["init"] = Extent(arg.entry, input.init_size)
                       /\ at["paged"] = Extent(arg.paged_part,
                            input.secure - HEADER_SIZE - input.init_size)
                       /\ Inside(at["init"], Secure)
                       /\ Inside(at["paged"], Secure)
                       /\ at["kernel_dtb"].lo = arg.fdt
    BY DEF SecureHandOver
  <2>1. input \in Inputs /\ AtHome /\ Registers
    BY DEF IInv, TypeOK, Placement
  <2>2. /\ at["init"] = Home("init") /\ at["paged"] = Home("paged")
        /\ at["kernel_dtb"] = Home("kernel_dtb")
        /\ arg.entry = input.load_addr /\ arg.paged_part = PagedDst
        /\ arg.fdt = DtbAt
    BY <2>1 DEF AtHome, Registers, AfterDtb, AfterSecure
  <2>3. Inside(Home("init"), Secure) /\ Inside(Home("paged"), Secure)
    BY <2>1, SecureApart DEF Objects
  <2>4. PagedSize = input.secure - HEADER_SIZE - input.init_size
    BY <2>1, Layout
  <2>. QED  BY <2>2, <2>3, <2>4 DEF Home, Extent
<1>. QED  BY <1>1, Invariance, PTL

(* The kernel is entered with itself, its tree and its root file system    *)
(* whole where the registers and the tree say.                             *)
THEOREM KernelIsHandedOver == Spec => []KernelHandOver
<1>1. IInv => KernelHandOver
  <2>. SUFFICES ASSUME IInv, pc = "entered", WellFormed
                PROVE  /\ at["kernel"] = Extent(kernel_entry, input.kernel)
                       /\ at["kernel_dtb"] = Extent(dtb_addr, DTB_MAX_SIZE)
                       /\ at["rootfs"] = Extent(rootfs_start, input.rootfs)
                       /\ initrd = at["rootfs"]
    BY DEF KernelHandOver
  <2>1. AtHome /\ Registers /\ initrd \in Extents
    BY DEF IInv, TypeOK, Placement
  <2>2. /\ at["kernel"] = Home("kernel")
        /\ at["kernel_dtb"] = Home("kernel_dtb")
        /\ at["rootfs"] = Home("rootfs")
        /\ kernel_entry = KernelAt /\ dtb_addr = DtbAt
        /\ rootfs_start = RootfsAt
        /\ initrd.lo = RootfsAt /\ initrd.hi = RootfsAt + input.rootfs
    BY <2>1 DEF AtHome, Registers, AfterDtb, NsPcs
  <2>3. initrd = Extent(RootfsAt, input.rootfs)
    BY <2>1, <2>2 DEF Extents, Extent
  <2>. QED  BY <2>2, <2>3 DEF Home
<1>. QED  BY <1>1, Invariance, PTL

(* The kernel's tree has every edit and no secure memory.                  *)
THEOREM KernelTreeIsComplete == Spec => []KernelTreeComplete
<1>1. IInv => KernelTreeComplete
  BY DEF IInv, EditsSoFar, KernelTreeComplete, AfterDtb, NsPcs, Halted
<1>. QED  BY <1>1, Invariance, PTL

(* Nothing in place is written over, but for the secure world's own parts  *)
(* once it runs.                                                           *)
THEOREM PlacesAreKept == Spec => NothingOverwritten
<1>. DEFINE A == WellFormed =>
                   \A o \in Objects :
                     at[o] # Nowhere /\ at'[o] # at[o] =>
                       pc = "tee" /\ o \in {"init", "paged"}
<1>1. IInv /\ IInv' /\ [Next]_vars => [A]_vars
  <2>. SUFFICES ASSUME IInv, IInv', [Next]_vars, WellFormed,
                       NEW o \in Objects, at[o] # Nowhere, at'[o] # at[o]
                PROVE  pc = "tee" /\ o \in {"init", "paged"}
    OBVIOUS
  <2>1. TypeOK /\ AtHome /\ Registers /\ at[o] = Home(o)
    BY DEF IInv, Placement, AtHome
  <2>2. ASSUME at'[o] = Home(o)  PROVE FALSE
    BY <2>1, <2>2
  <2>3. ASSUME NEW p \in Objects, at' = [Spared(Home(p)) EXCEPT ![p] = Home(p)]
        PROVE  FALSE
    <3>1. at'[o] = Home(o)
      BY <2>1, <2>3, WriteAtHome DEF Spared
    <3>. QED  BY <2>2, <3>1
  <2>a. world = "secure" \/ pc \in NsPcs \cup Halted
    BY DEF IInv, FlashReadable
  <2>4. CASE Relocate
    BY <2>4, <2>a, <2>3 DEF Relocate, CopyImage, Home, Objects, NsPcs, Halted
  <2>5. CASE ZeroBss
    <3>1. at' = [at EXCEPT !["bss"] = Home("bss")]
      BY <2>5 DEF ZeroBss, Home
    <3>. QED  BY <2>1, <2>2, <3>1 DEF TypeOK
  <2>6. CASE OpenFdt
    BY <2>6, <2>3 DEF OpenFdt, Write, Home, Objects
  <2>7. CASE CopyPaged
    BY <2>7, <2>a, <2>3 DEF CopyPaged, CopyImage, Home, Objects, NsPcs, Halted
  <2>8. CASE CopySecure
    BY <2>8, <2>a, <2>3 DEF CopySecure, CopyImage, Home, Objects, NsPcs, Halted
  <2>9. CASE CopyKernel
    <3>1. kernel_entry' = KernelAt
      BY <2>9 DEF CopyKernel, KernelAt
    <3>. QED
      BY <2>9, <2>a, <2>3, <3>1
         DEF CopyKernel, CopyImage, Home, Objects, NsPcs, Halted
  <2>10. CASE CopyDtb
    <3>1. dtb_addr = DtbAt
      BY <2>1, <2>10 DEF CopyDtb, Registers
    <3>. QED  BY <2>10, <2>3, <3>1 DEF CopyDtb, Write, Home, Objects
  <2>11. CASE CopyRootfs
    <3>1. rootfs_start' = RootfsAt
      BY <2>1, <2>11 DEF CopyRootfs, Registers, RootfsAt
    <3>. QED
      BY <2>11, <2>a, <2>3, <3>1
         DEF CopyRootfs, CopyImage, Home, Objects, NsPcs, Halted
  <2>12. CASE SecureWorld
    <3>1. Overlap(Home(o), Secure)
      BY <2>1, <2>12 DEF SecureWorld, Spared
    <3>2. o \in {"init", "paged"}
      BY <2>1, <3>1, SecureApart DEF TypeOK
    <3>. QED  BY <2>12, <3>2 DEF SecureWorld
  <2>13. CASE UNCHANGED at
    BY <2>13
  <2>. QED
    BY <2>4, <2>5, <2>6, <2>7, <2>8, <2>9, <2>10, <2>11, <2>12, <2>13
       DEF Next, TzResMem, TzResUart, TzAddOpteeNode, PackFdt, CheckHeader,
           ReopenFdt, SetInitrdStart, SetInitrdEnd, SetBootargs, EnterKernel,
           Stopped, vars
<1>. QED  BY <1>1, Invariance, PTL DEF Spec, NothingOverwritten
=============================================================================
