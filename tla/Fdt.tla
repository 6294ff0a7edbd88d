--------------------------------- MODULE Fdt ---------------------------------
(***************************************************************************)
(* A caller of the functions that edit a blob: it holds offsets into the   *)
(* structure block and calls one function after the other.  An action is   *)
(* one call, with an offset that may be wrong.                             *)
(***************************************************************************)
EXTENDS FdtRw

CONSTANTS
  Blobs,       \* what was in it before the first call
  Values,      \* property values: sequences of bytes
  BadOffsets,  \* offsets a caller may use although no node is there
  Addresses, Sizes,  \* of reservations
  MAX_CALLS

(* What the caller has: a blob that is sound and whole, in a buffer of     *)
(* BUF_SIZE.                                                               *)
ASSUME CallerAssumption ==
  /\ \A b \in Blobs :
       Sound(b) /\ Whole(b, Contents(b)) /\ b.boot_cpuid_phys \in CpuIds
  /\ \A val \in Values : Len(val) \in Nat
  /\ BadOffsets \subseteq Int

(* In its tree no node has two subnodes of one name, and values are bytes. *)
ASSUME TreeAssumption ==
  /\ \A b \in Blobs :
       LET at == Contents(b).at
       IN  \A o, u \in DOMAIN at : at[o] = at[u] => o = u
  /\ \A val \in Values : val \in Seq(0 .. 255)

VARIABLES
  fdt,         \* the blob
  view,        \* what it says, as one who walks over all of it reads it
  call,        \* the last call: function, arguments, what it returned
  given,       \* the offset it was given, for call has the path of the node
  calls        \* how many there were

vars == <<fdt, view, call, given, calls>>

PathAt(offset) == At(view, offset)

-----------------------------------------------------------------------------
(* One action per function.                                                *)

Init ==
  /\ fdt \in Blobs
  /\ view = Contents(fdt)
  /\ call = <<"none">>
  /\ given = 0
  /\ calls = 0

Offsets == DOMAIN view.at \cup BadOffsets

Returns(c, r) ==
  /\ calls < MAX_CALLS
  /\ calls' = calls + 1
  /\ fdt' = r.fdt
  /\ view' = Contents(r.fdt)
  /\ call' = Append(c, r.ret)

SetProp ==
  \E node \in Offsets, name \in PropNames, val \in Values :
    /\ Returns(<<"setprop", PathAt(node), name, val>>,
               Checked(fdt, fdt_setprop(fdt, node, name, val)))
    /\ given' = node

AppendProp ==
  \E node \in Offsets, name \in PropNames, val \in Values :
    /\ Returns(<<"appendprop", PathAt(node), name, val>>,
               Checked(fdt, fdt_appendprop(fdt, node, name, val)))
    /\ given' = node

DelProp ==
  \E node \in Offsets, name \in PropNames :
    /\ Returns(<<"delprop", PathAt(node), name>>,
               Checked(fdt, fdt_delprop(fdt, node, name)))
    /\ given' = node

(* "results are undefined" if a sibling has the name (libfdt.h).           *)
Unique(node, name) ==
  LET path == PathAt(node)
  IN  path # Nowhere =>
        [path EXCEPT ![Len(path)] = name] \notin DOMAIN view.tree

SetName ==
  \E node \in Offsets, name \in NodeNames :
    /\ Unique(node, name)
    /\ Returns(<<"set_name", PathAt(node), name>>,
               Checked(fdt, fdt_set_name(fdt, node, name)))
    /\ given' = node

AddSubnode ==
  \E node \in Offsets, name \in NodeNames :
    LET r == Checked(fdt, fdt_add_subnode(fdt, node, name))
    IN  /\ Returns(<<"add_subnode", PathAt(node), name,
                     At(Contents(r.fdt), r.ret)>>,
                   [r EXCEPT !.ret = IF @ >= 0 THEN 0 ELSE @])
        /\ given' = node

DelNode ==
  \E node \in Offsets :
    /\ Returns(<<"del_node", PathAt(node)>>,
               Checked(fdt, fdt_del_node(fdt, node)))
    /\ given' = node

SetPropInplace ==
  \E node \in Offsets, name \in PropNames, val \in Values :
    /\ Returns(<<"setprop_inplace", PathAt(node), name, val>>,
               fdt_setprop_inplace(fdt, node, name, val))
    /\ given' = node

NopProperty ==
  \E node \in Offsets, name \in PropNames :
    /\ Returns(<<"nop_property", PathAt(node), name>>,
               fdt_nop_property(fdt, node, name))
    /\ given' = node

NopNode ==
  \E node \in Offsets :
    /\ Returns(<<"nop_node", PathAt(node)>>, fdt_nop_node(fdt, node))
    /\ given' = node

AddMemRsv ==
  \E address \in Addresses, size \in Sizes :
    /\ Returns(<<"add_mem_rsv", address, size>>,
               Checked(fdt, fdt_add_mem_rsv(fdt, address, size)))
    /\ UNCHANGED given

DelMemRsv ==
  \E n \in 0 .. NumMemRsv(fdt) :
    /\ Returns(<<"del_mem_rsv", n>>, Checked(fdt, fdt_del_mem_rsv(fdt, n)))
    /\ UNCHANGED given

Pack == Returns(<<"pack">>, Checked(fdt, fdt_pack(fdt))) /\ UNCHANGED given

OpenInto ==
  /\ \E r \in fdt_open_into(fdt, BUF_SIZE) : Returns(<<"open_into">>, r)
  /\ UNCHANGED given

Next ==
  \/ SetProp \/ AppendProp \/ DelProp
  \/ SetName \/ AddSubnode \/ DelNode
  \/ SetPropInplace \/ NopProperty \/ NopNode
  \/ AddMemRsv \/ DelMemRsv
  \/ Pack \/ OpenInto

Spec == Init /\ [][Next]_vars
-----------------------------------------------------------------------------
(* After every call, failed ones included, the blocks are apart and in the *)
(* buffer, from each tag of the structure block the next one is where the  *)
(* lengths say and no tag in between, and each property has its name in    *)
(* the strings block.                                                      *)
BlobIsSound == Sound(fdt) /\ fdt.boot_cpuid_phys \in CpuIds

(* The blob stays in its buffer, and one that a reader can walk over to    *)
(* its end.                                                                *)
BlobIsWhole ==
  /\ Fits(fdt)
  /\ fdt.boot_cpuid_phys \in CpuIds
  /\ Whole(fdt, view)

(* A caller goes on to use an offset after an edit (the BIOS that of the   *)
(* node it adds properties to): every offset up to that of the node edited *)
(* still is the same node's.                                               *)
OffsetsKept ==
  [][call'[1] \in {"setprop", "appendprop", "delprop", "add_subnode"}
       /\ call'[2] # Nowhere =>
       \E node \in DOMAIN view.at :
         /\ PathAt(node) = call'[2]
         /\ \A o \in DOMAIN view.at :
              o <= node => PathAt(o)' = PathAt(o)]_vars

(* A call that failed and is made again fails again and does nothing, the  *)
(* name it may have added the first time included: no call that fails over *)
(* and over fills the blob.                                                *)
RetryIsFree ==
  [][call' = call /\ given' = given /\ call[Len(call)] < 0 =>
       fdt' = fdt]_vars

(* Nothing that a reader sees is left of a call that failed, though a name *)
(* may be in the strings block that was not there: nodes and properties    *)
(* are what they were, each node is where it was, and so are the           *)
(* reservations.                                                           *)
FailuresUndone ==
  [][Last(call') < 0 => view' = view /\ RsvMap(fdt') = RsvMap(fdt)]_vars

(* A failed call costs nothing that is read, and only once.                *)
FailureIsFree == FailuresUndone /\ RetryIsFree

(* The tree the blob stands for.                                           *)
Tree == INSTANCE FdtTree
          WITH Fits <- NodeNameEq, tree <- view.tree, rsv <- RsvMap(fdt),
               ordered <- ~Misordered(fdt, RsvSize)

(* Every function has its whole effect on the tree and no other, or        *)
(* returns an error that is due and leaves the tree as it was.             *)
EditsTheTree == Tree!Spec

-----------------------------------------------------------------------------
(* "-FDT_ERR_BADOFFSET, if parentoffset did not point to an FDT_BEGIN_NODE *)
(* tag", which libfdt.h says and the code does not do: the blob is not     *)
(* touched then.                                                           *)
BadParentIsRefused ==
  [][call'[1] = "add_subnode" /\ call'[2] = Nowhere =>
       Last(call') = BADOFFSET /\ fdt' = fdt]_vars
=============================================================================
