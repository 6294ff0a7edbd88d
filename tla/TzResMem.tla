------------------------------ MODULE TzResMem ------------------------------
(***************************************************************************)
(* tz_res_mem() of bios/main.c: before the kernel sees the device tree,    *)
(* the BIOS looks up the "reg" property of /memory, checks that the memory *)
(* it wants to keep for the secure world lies in it                        *)
(* (tz_res_mem_check_avail), carves that range out (tz_res_mem_carve) and  *)
(* writes the property back (fdt_setprop).                                 *)
(*                                                                         *)
(* A property is a sequence of regions.  An address or a length is a       *)
(* number; its width on the tree is one or two 32-bit cells, and sums are  *)
(* computed in 64 bits.  A CHECK that fails ends in `while (true);`, the   *)
(* pc value "hang"; the CHECK(1) of tz_res_mem_check_avail ends in the     *)
(* same loop but has its own value, "refused".                             *)
(***************************************************************************)
EXTENDS Integers, Sequences

CONSTANTS
  W32,              \* number of values of one cell, 2^32 in the code
  W64,              \* number of values of two cells, 2^64 in the code
  TZ_RES_MEM_START, \* first address kept for the secure world
  TZ_RES_MEM_SIZE,  \* how many addresses are kept
  Dtbs              \* the device trees the BIOS may be started with

TZ_RES_MEM_END == TZ_RES_MEM_START + TZ_RES_MEM_SIZE

Region == [start : 0 .. W64 - 1, len : 0 .. W64 - 1]

(***************************************************************************)
(* What tz_res_mem reads of a device tree.  memory: there is a subnode     *)
(* named "memory"; has_reg, regs: its "reg" property; address_cells,       *)
(* size_cells: the properties of the root (0: absent or not one cell       *)
(* long); room: how many regions the property can grow by before the blob  *)
(* is larger than DTB_MAX_SIZE.                                            *)
(***************************************************************************)
Dtb == [memory : BOOLEAN, has_reg : BOOLEAN, regs : Seq(Region),
        address_cells : Nat, size_cells : Nat, room : Nat]

ASSUME LayoutAssumption ==
  /\ W32 \in Nat
  /\ W64 \in Nat
  /\ W32 <= W64
  /\ TZ_RES_MEM_START \in Nat
  /\ TZ_RES_MEM_SIZE \in Nat \ {0}
  /\ TZ_RES_MEM_END < W32

(* What get_val returns is as wide as its cells.                           *)
FitsCells(d) ==
  \A i \in 1 .. Len(d.regs) :
    /\ d.address_cells = 1 => d.regs[i].start < W32
    /\ d.size_cells = 1 => d.regs[i].len < W32

ASSUME DtbsAssumption ==
  /\ Dtbs \subseteq Dtb
  /\ \A d \in Dtbs : FitsCells(d)

VARIABLES
  dtb,            \* the tree as it was found, never assigned
  reg,            \* the value of /memory's "reg" in the tree
  pc,
  res_start,      \* what tz_res_mem_check_avail has not found yet is
  res_end,        \*   res_start .. res_end - 1
  last_res_start, \* the same at the beginning of the current pass
  last_res_end,
  offs,           \* regions of reg read by the current loop
  data            \* the regions tz_res_mem_carve has put so far

vars == <<dtb, reg, pc, res_start, res_end, last_res_start, last_res_end,
          offs, data>>

search == <<res_start, res_end, last_res_start, last_res_end>>

-----------------------------------------------------------------------------
(* uint64_t end = start + len, which may wrap around.                      *)
RegionEnd(r) == IF r.start + r.len < W64 THEN r.start + r.len
                                         ELSE r.start + r.len - W64

(* a is one of the addresses the half-open range of r stands for.          *)
InRegion(a, r) == r.start <= a /\ a < RegionEnd(r)

Covered(a, rs) == \E i \in 1 .. Len(rs) : InRegion(a, rs[i])

Reserved == TZ_RES_MEM_START .. TZ_RES_MEM_END - 1

(* put_val casts to uint32_t for one cell and for two.                     *)
PutVal(val) == val % W32

Put(start, len) == [start |-> PutVal(start), len |-> PutVal(len)]

Least(a, b) == IF a < b THEN a ELSE b

Greatest(a, b) == IF a > b THEN a ELSE b

-----------------------------------------------------------------------------
Init ==
  /\ dtb \in Dtbs
  /\ reg = dtb.regs
  /\ pc = "find"
  /\ res_start = TZ_RES_MEM_START
  /\ res_end = TZ_RES_MEM_END
  /\ last_res_start = TZ_RES_MEM_START
  /\ last_res_end = TZ_RES_MEM_END
  /\ offs = 0
  /\ data = <<>>

(* fdt_subnode_offset, fdt_getprop and both get_cells_size, each CHECKed.  *)
TreeIsUsable ==
  /\ dtb.memory
  /\ dtb.has_reg
  /\ dtb.address_cells \in {1, 2}
  /\ dtb.size_cells \in {1, 2}

FindMemory ==
  /\ pc = "find"
  /\ pc' = IF TreeIsUsable THEN "pass" ELSE "hang"
  /\ UNCHANGED <<dtb, reg, search, offs, data>>

-----------------------------------------------------------------------------
(* tz_res_mem_check_avail.                                                 *)

(* Mutant: the range is not remembered at the beginning of a pass.         *)
BeginPassNotSaved ==
  /\ pc = "pass"
  /\ offs' = 0
  /\ pc' = "scan"
  /\ UNCHANGED <<dtb, reg, search, data>>

(* do { last_res_start = res_start; last_res_end = res_end; offs = 0;      *)
BeginPass ==
  /\ pc = "pass"
  /\ last_res_start' = res_start
  /\ last_res_end' = res_end
  /\ offs' = 0
  /\ pc' = "scan"
  /\ UNCHANGED <<dtb, reg, res_start, res_end, data>>

Scanning == pc = "scan" /\ offs < Len(reg) /\ res_start # res_end

Current == reg[offs + 1]

CoversAll(r) == r.start <= res_start /\ RegionEnd(r) >= res_end

(* Mutant: a region counts wherever it starts.                             *)
CoversStartAnyStart(r) == RegionEnd(r) > res_start

CoversStart(r) == r.start <= res_start /\ RegionEnd(r) > res_start

(* Mutant: a region above what is looked for counts.                       *)
CoversEndAnyStart(r) == RegionEnd(r) >= res_end

CoversEnd(r) == RegionEnd(r) >= res_end /\ r.start < res_end

FoundAll ==
  /\ Scanning
  /\ CoversAll(Current)
  /\ pc' = "avail"
  /\ UNCHANGED <<dtb, reg, search, offs, data>>

FoundStart ==
  /\ Scanning
  /\ ~CoversAll(Current)
  /\ CoversStart(Current)
  /\ res_start' = Least(RegionEnd(Current), res_end)
  /\ offs' = offs + 1
  /\ UNCHANGED <<dtb, reg, pc, res_end, last_res_start, last_res_end, data>>

FoundEnd ==
  /\ Scanning
  /\ ~CoversAll(Current)
  /\ ~CoversStart(Current)
  /\ CoversEnd(Current)
  /\ res_end' = Greatest(Current.start, res_start)
  /\ offs' = offs + 1
  /\ UNCHANGED <<dtb, reg, pc, res_start, last_res_start, last_res_end, data>>

(* Mutant: an entry too many is skipped.                                   *)
FoundNothingSkipsTwo ==
  /\ Scanning
  /\ ~CoversAll(Current)
  /\ ~CoversStart(Current)
  /\ ~CoversEnd(Current)
  /\ offs' = offs + 2
  /\ UNCHANGED <<dtb, reg, pc, search, data>>

FoundNothing ==
  /\ Scanning
  /\ ~CoversAll(Current)
  /\ ~CoversStart(Current)
  /\ ~CoversEnd(Current)
  /\ offs' = offs + 1
  /\ UNCHANGED <<dtb, reg, pc, search, data>>

(* Mutant: one pass and no more.                                           *)
EndPassOnce ==
  /\ pc = "scan"
  /\ ~Scanning
  /\ pc' = IF res_start = res_end THEN "avail" ELSE "refused"
  /\ UNCHANGED <<dtb, reg, search, offs, data>>

(* The end of the while loop: goto mem_avail, the condition of the do loop *)
(* and CHECK(1).                                                           *)
EndPass ==
  /\ pc = "scan"
  /\ ~Scanning
  /\ \/ /\ res_start = res_end
        /\ pc' = "avail"
     \/ /\ res_start # res_end
        /\ last_res_start # res_start \/ last_res_end # res_end
        /\ pc' = "pass"
     \/ /\ res_start # res_end
        /\ last_res_start = res_start /\ last_res_end = res_end
        /\ pc' = "refused"
  /\ UNCHANGED <<dtb, reg, search, offs, data>>

-----------------------------------------------------------------------------
(* tz_res_mem_carve.                                                       *)

(* Mutant: no slack for a region that splits.                              *)
CapacityNoSlack == Len(reg)

(* dlen: the array on the stack holds one region more than the property.   *)
Capacity == Len(reg) + 1

(* Mutant: the branch that chops off a beginning keeps the region's start. *)
KeptTailWhole(r) ==
  LET end == RegionEnd(r)
  IN  IF TZ_RES_MEM_START > r.start /\ TZ_RES_MEM_START < end
        THEN <<Put(r.start, TZ_RES_MEM_START - r.start)>>
      ELSE IF TZ_RES_MEM_END < end
        THEN <<Put(r.start, end - TZ_RES_MEM_END)>>
      ELSE <<>>

(* Mutant: chopping off an end is tried before splitting.                  *)
KeptChopFirst(r) ==
  LET end == RegionEnd(r)
  IN  IF TZ_RES_MEM_START > r.start /\ TZ_RES_MEM_START < end
        THEN <<Put(r.start, TZ_RES_MEM_START - r.start)>>
      ELSE IF TZ_RES_MEM_END < end
        THEN <<Put(TZ_RES_MEM_END, end - TZ_RES_MEM_END)>>
      ELSE <<>>

(* What the branch taken for a region puts into data.                      *)
Kept(r) ==
  LET end  == RegionEnd(r)
      head == Put(r.start, TZ_RES_MEM_START - r.start)
      tail == Put(TZ_RES_MEM_END, end - TZ_RES_MEM_END)
  IN  IF TZ_RES_MEM_START = r.start /\ TZ_RES_MEM_SIZE = r.len
        THEN <<>>                              \* remove a region
      ELSE IF TZ_RES_MEM_START > r.start /\ TZ_RES_MEM_END < end
        THEN <<head, tail>>                    \* split a region
      ELSE IF TZ_RES_MEM_START > r.start /\ TZ_RES_MEM_START < end
        THEN <<head>>                          \* chop off its end
      ELSE IF TZ_RES_MEM_END < end
        THEN <<tail>>                          \* chop off its beginning
      ELSE <<>>

BeginCarve ==
  /\ pc = "avail"
  /\ offs' = 0
  /\ pc' = "carve"
  /\ UNCHANGED <<dtb, reg, search, data>>

CarveRegion ==
  /\ pc = "carve"
  /\ offs < Len(reg)
  /\ data' = data \o Kept(Current)
  /\ offs' = offs + 1
  /\ UNCHANGED <<dtb, reg, pc, search>>

(* Mutant: CHECK(doffs >= *dlen).                                          *)
EndCarveFull ==
  /\ pc = "carve"
  /\ offs = Len(reg)
  /\ pc' = IF Len(data) >= Capacity THEN "hang" ELSE "set"
  /\ UNCHANGED <<dtb, reg, search, offs, data>>

(* CHECK(doffs > *dlen), after everything has been written.                *)
EndCarve ==
  /\ pc = "carve"
  /\ offs = Len(reg)
  /\ pc' = IF Len(data) > Capacity THEN "hang" ELSE "set"
  /\ UNCHANGED <<dtb, reg, search, offs, data>>

(* Mutant: the property is written although the blob has no room for it.   *)
SetRegPartly ==
  /\ pc = "set"
  /\ reg' = data
  /\ pc' = IF Len(data) > Len(reg) + dtb.room THEN "hang" ELSE "done"
  /\ UNCHANGED <<dtb, search, offs, data>>

(* fdt_setprop: -FDT_ERR_NOSPACE when the property grows past the blob,    *)
(* which leaves the property as it was.                                    *)
SetReg ==
  /\ pc = "set"
  /\ IF Len(data) > Len(reg) + dtb.room
       THEN pc' = "hang" /\ reg' = reg
       ELSE pc' = "done" /\ reg' = data
  /\ UNCHANGED <<dtb, search, offs, data>>

-----------------------------------------------------------------------------
(* check() loops for ever; after "done" main_init_sec goes on.             *)
Stopped == pc \in {"hang", "refused", "done"} /\ UNCHANGED vars

Next ==
  \/ FindMemory
  \/ BeginPass
  \/ FoundAll
  \/ FoundStart
  \/ FoundEnd
  \/ FoundNothing
  \/ EndPass
  \/ BeginCarve
  \/ CarveRegion
  \/ EndCarve
  \/ SetReg
  \/ Stopped

(* One processor runs the BIOS with every interrupt masked: it never stops *)
(* between two statements.                                                 *)
Spec == Init /\ [][Next]_vars /\ WF_vars(Next)

-----------------------------------------------------------------------------
PcValues == {"find", "pass", "scan", "avail", "carve", "set", "done",
             "refused", "hang"}

(* The types of the variables, with the bounds on the range still looked   *)
(* for that make res_end - res_start a number of addresses.                *)
TypeOK ==
  /\ dtb \in Dtbs
  /\ reg \in Seq(Region)
  /\ pc \in PcValues
  /\ res_start \in Nat
  /\ res_end \in Nat
  /\ last_res_start \in Nat
  /\ last_res_end \in Nat
  /\ offs \in 0 .. Len(dtb.regs)
  /\ data \in Seq(Region)

Checked == pc \in {"avail", "carve", "set", "done"}

(* main.c says "Secure memory is available" only of a tree whose regions,  *)
(* in any order, overlapping or not, hold every address of the reserved    *)
(* range.                                                                  *)
AvailSound == Checked => \A a \in Reserved : Covered(a, dtb.regs)

(* "Can't find secure memory" and the halt that follows come only when     *)
(* some reserved address is in no region: the passes over the regions,     *)
(* which shrink the range from both ends, are enough to find all of it.    *)
RefusedOnlyIfMissing ==
  pc = "refused" => \E a \in Reserved : ~Covered(a, dtb.regs)

(* No region tz_res_mem_carve puts, hence none the kernel finds in the     *)
(* tree, has an address of the reserved range, whatever the regions were   *)
(* and whatever put_val lost.                                              *)
SecureMemHidden ==
  /\ \A a \in Reserved : ~Covered(a, data)
  /\ pc = "done" => \A a \in Reserved : ~Covered(a, reg)

(* The regions the branches of tz_res_mem_carve are written for: they have *)
(* an address in the reserved range, end where start + len does, and leave *)
(* nothing above the range that one cell cannot say the length of.         *)
Carvable(r) ==
  /\ \E a \in Reserved : InRegion(a, r)
  /\ RegionEnd(r) = r.start + r.len
  /\ RegionEnd(r) - TZ_RES_MEM_END < W32

AllCarvable == \A i \in 1 .. Len(dtb.regs) : Carvable(dtb.regs[i])

Addresses == 0 .. W64 - 1

(* A tree whose regions are all carvable reaches the kernel with exactly   *)
(* the addresses it had, less the reserved ones: no branch of              *)
(* tz_res_mem_carve loses or adds memory.                                  *)
CarveExact ==
  pc = "done" /\ AllCarvable =>
    \A a \in Addresses :
      Covered(a, reg) <=> Covered(a, dtb.regs) /\ a \notin Reserved

Disjoint(rs) ==
  \A i, j \in 1 .. Len(rs) :
    i # j => \A a \in Addresses : ~(InRegion(a, rs[i]) /\ InRegion(a, rs[j]))

(* Regions that do not overlap never fill the array of tz_res_mem past its *)
(* end: CHECK(doffs > *dlen) looks only after the writes, so the one       *)
(* region of slack has to be enough for them all.                          *)
InBounds == Disjoint(dtb.regs) => Len(data) <= Capacity

(* A further pass over the regions is made only when the last one found    *)
(* some of the range, and no step gives an address back that was found:    *)
(* this is what makes the do-while loop end.                               *)
PassesMakeProgress ==
  [][/\ res_start <= res_start' /\ res_end' <= res_end
     /\ pc = "scan" /\ pc' = "pass" =>
          res_end - res_start < last_res_end - last_res_start]_vars

(* tz_res_mem returns or halts, whatever the tree.                         *)
Termination == <>(pc \in {"done", "refused", "hang"})

(* A tree with all it needs is not turned down: when the reserved range is *)
(* in its disjoint regions and the blob has room, the BIOS goes on.        *)
Acceptable ==
  /\ TreeIsUsable
  /\ dtb.room > 0
  /\ Disjoint(dtb.regs)
  /\ \A a \in Reserved : Covered(a, dtb.regs)

GoodTreeBoots == Acceptable ~> pc = "done"
-----------------------------------------------------------------------------
(* What the BIOS says of it, for any tree.                                 *)

(* "Carved out TZ memory from DTB memory": the reserved addresses go, no   *)
(* other goes, and none comes.                                             *)
OnlyReservedGoes ==
  pc = "done" =>
    \A a \in Addresses :
      Covered(a, reg) <=> Covered(a, dtb.regs) /\ a \notin Reserved

-----------------------------------------------------------------------------
(* What makes the safety properties inductive.                             *)

SearchOrder ==
  /\ TZ_RES_MEM_START <= last_res_start
  /\ last_res_start <= res_start
  /\ res_start <= res_end
  /\ res_end <= last_res_end
  /\ last_res_end <= TZ_RES_MEM_END

RegUntouched == pc # "done" => reg = dtb.regs

FoundIsCovered ==
  \A a \in Reserved : a < res_start \/ res_end <= a => Covered(a, dtb.regs)

(* As long as a pass has found nothing, no region it has read holds the    *)
(* first address still looked for.                                         *)
NotInPass ==
  pc = "scan" /\ last_res_start = res_start /\ last_res_end = res_end =>
    \A j \in 1 .. offs : ~InRegion(res_start, dtb.regs[j])

IInv ==
  /\ TypeOK
  /\ SearchOrder
  /\ RegUntouched
  /\ FoundIsCovered
  /\ NotInPass
  /\ AvailSound
  /\ RefusedOnlyIfMissing
  /\ SecureMemHidden

(* What CarveExact needs of the states before: data holds what is left of  *)
(* the regions read so far.                                                *)
CarvedSoFar ==
  /\ pc \in {"find", "pass", "scan", "avail"} => data = <<>>
  /\ pc = "carve" /\ AllCarvable =>
       \A a \in Addresses :
         Covered(a, data) <=>
           /\ \E j \in 1 .. offs : InRegion(a, dtb.regs[j])
           /\ a \notin Reserved
  /\ pc = "set" /\ AllCarvable =>
       \A a \in Addresses :
         Covered(a, data) <=> Covered(a, dtb.regs) /\ a \notin Reserved

(* The region is split: it has an address below the reserved range and one *)
(* above it.                                                               *)
Splits(r) == r.start < TZ_RES_MEM_START /\ TZ_RES_MEM_END < RegionEnd(r)

(* What InBounds needs of the states before: no more has been put than has *)
(* been read, but for one region that split.                               *)
OneSplits ==
  Disjoint(dtb.regs) =>
    /\ pc \in {"find", "pass", "scan", "avail"} => data = <<>>
    /\ pc = "carve" =>
         \/ Len(data) <= offs
         \/ /\ Len(data) = offs + 1
            /\ \E j \in 1 .. offs : Splits(dtb.regs[j])
    /\ pc \in {"set", "done", "hang", "refused"} => Len(data) <= Capacity

-----------------------------------------------------------------------------
(* The abstract view: the set of addresses "reg" stands for.               *)
usable == {a \in Addresses : Covered(a, reg)}

outcome ==
  IF pc = "done" THEN "reserved"
  ELSE IF pc = "refused" THEN "refused"
  ELSE IF pc = "hang" THEN "halted"
  ELSE "pending"

Reservation == INSTANCE SecureReservation
                 WITH Address <- Addresses, Secure <- Reserved,
                      memory <- usable, outcome <- outcome

(* On trees whose regions are all carvable, the passes, the branches and   *)
(* fdt_setprop together take out exactly the reserved range or stop with   *)
(* the tree as it was found.                                               *)
Reserves == Reservation!Spec
=============================================================================
