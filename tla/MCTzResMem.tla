----------------------------- MODULE MCTzResMem -----------------------------
(***************************************************************************)
(* Instances of TzResMem for TLC.  One cell has 12 values and two cells    *)
(* 144; the reserved range is 3 .. 5, as in the code not at an end of what *)
(* one cell addresses.                                                     *)
(***************************************************************************)
EXTENDS TzResMem

CONSTANTS
  Starts,   \* the starts and the lengths of the regions
  Lens,
  MaxRegs   \* the largest number of regions in a property

Regions == [start : Starts, len : Lens]

RegLists == UNION {[1 .. n -> Regions] : n \in 0 .. MaxRegs}

(* A tree with all the properties, its cells the narrowest that fit.       *)
Tree(rs, room) ==
  LET Cells(f) == IF \A i \in DOMAIN rs : rs[i][f] < W32 THEN 1 ELSE 2
  IN  [memory |-> TRUE, has_reg |-> TRUE, regs |-> rs,
       address_cells |-> Cells("start"), size_cells |-> Cells("len"),
       room |-> room]

GoodTrees == {Tree(rs, room) : rs \in RegLists, room \in {0, 1}}

OneRegion == Tree(<<[start |-> 0, len |-> 9]>>, 1)

(* Each thing a tree can lack, one at a time.                              *)
BadTrees ==
  {[OneRegion EXCEPT !.memory = FALSE],
   [OneRegion EXCEPT !.has_reg = FALSE],
   [OneRegion EXCEPT !.address_cells = 0],
   [OneRegion EXCEPT !.size_cells = 3]}

MCDtbs == GoodTrees \cup BadTrees

CarvableDtbs ==
  BadTrees \cup
  {d \in GoodTrees : \A i \in DOMAIN d.regs : Carvable(d.regs[i])}

(* Trees with one thing that Carvable excludes, nothing of which wraps.    *)
PlainDtbs ==
  {d \in GoodTrees : \A i \in DOMAIN d.regs : RegionEnd(d.regs[i]) < W32}
=============================================================================
