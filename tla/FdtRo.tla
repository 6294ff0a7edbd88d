-------------------------------- MODULE FdtRo --------------------------------
(***************************************************************************)
(* The functions that only read a blob: fdt_first_subnode and the like of  *)
(* libfdt/fdt.c, and what of libfdt/fdt_ro.c is not in FdtBlob.            *)
(*                                                                         *)
(* A path is a sequence of names, in front of which there may be that of   *)
(* an alias; how it is cut at its slashes is left out.  A string in a      *)
(* value is the sequence of its bytes, the last of which is 0.             *)
(***************************************************************************)
EXTENDS FdtBlob

CONSTANT PathOf  \* the names in the path a property of /aliases may have

INTERNAL == -13
BADPATH == -5
BADPHANDLE == -6

-----------------------------------------------------------------------------
(* fdt.c.                                                                  *)
fdt_first_subnode(b, offset) ==
  LET n == NextNode(b, offset, 0)
  IN  IF n.at < 0 \/ n.depth # 1 THEN NOTFOUND ELSE n.at

fdt_next_subnode(b, offset) ==
  LET Search[o \in Nat, d \in Nat] ==
        LET n == NextNode(b, o, d)
        IN  IF n.at < 0 \/ n.depth < 1 THEN NOTFOUND
            ELSE IF n.depth > 1 THEN Search[n.at, n.depth]
            ELSE n.at
  IN  Search[offset, 1]

-----------------------------------------------------------------------------
(* Properties.                                                             *)

CheckPropOffset(b, offset) == CheckOffset(b, offset, "PROP")

(* _nextprop.                                                              *)
NextProp(b, offset) ==
  LET Skip[o \in Nat] ==
        LET t == NextTag(b, o)
        IN  IF t.tag = "END"
              THEN IF t.next >= 0 THEN BADSTRUCTURE ELSE t.next
            ELSE IF t.tag = "PROP" THEN o
            ELSE IF t.tag = "NOP" THEN Skip[t.next]
            ELSE NOTFOUND
  IN  Skip[offset]

fdt_first_property_offset(b, node) ==
  LET next == CheckNodeOffset(b, node)
  IN  IF next < 0 THEN next ELSE NextProp(b, next)

fdt_next_property_offset(b, prop) ==
  LET next == CheckPropOffset(b, prop)
  IN  IF next < 0 THEN next ELSE NextProp(b, next)

(* fdt_getprop_by_offset: what it returns and what it stores.              *)
fdt_getprop_by_offset(b, prop) ==
  LET next == CheckPropOffset(b, prop)
  IN  IF next < 0 THEN [len |-> next]
      ELSE [len |-> PropLen(b, prop), name |-> String(b, NameOff(b, prop)),
            val |-> PropVal(b, prop)]

(* fdt_getprop: the length, or an error, and the value.                    *)
fdt_getprop(b, node, name) ==
  LET Search[o \in Int] ==
        IF o < 0 THEN [len |-> o]
        ELSE LET p == fdt_getprop_by_offset(b, o)
             IN  IF p.len < 0 THEN [len |-> INTERNAL]
                 ELSE IF p.name = name THEN [len |-> p.len, val |-> p.val]
                 ELSE Search[fdt_next_property_offset(b, o)]
  IN  Search[fdt_first_property_offset(b, node)]

NoPhandle == [i \in 1 .. FDT_TAGSIZE |-> 0]

AllOnes == [i \in 1 .. FDT_TAGSIZE |-> 255]

PhandleIn(new, old) ==
  IF new.len = FDT_TAGSIZE THEN new.val
  ELSE IF old.len = FDT_TAGSIZE THEN old.val
  ELSE NoPhandle

fdt_get_phandle(b, node) ==
  PhandleIn(fdt_getprop(b, node, "phandle"),
            fdt_getprop(b, node, "linux,phandle"))

-----------------------------------------------------------------------------
(* Paths.                                                                  *)
Descend(b, from, names) ==
  LET Down[i \in Nat] ==
        IF i = 0 THEN from
        ELSE LET o == Down[i - 1]
             IN  IF o < 0 THEN o ELSE SubnodeOffset(b, o, names[i])
  IN  Down[Len(names)]

AliasIn(b, aliases, name) ==
  IF aliases < 0 THEN [len |-> aliases] ELSE fdt_getprop(b, aliases, name)

fdt_get_alias(b, name) == AliasIn(b, Descend(b, 0, <<"aliases">>), name)

(* The path of an alias is a full one.                                     *)
AliasStart(b, p) ==
  IF p.len < 0 THEN BADPATH ELSE Descend(b, 0, PathOf[p.val])

fdt_path_offset(b, alias, names) ==
  Descend(b, IF alias = "" THEN 0 ELSE AliasStart(b, fdt_get_alias(b, alias)),
          names)

(* How much of the buffer the names up to the i-th take, a slash behind    *)
(* each.                                                                   *)
Taken(names) ==
  LET Upto[i \in Nat] ==
        IF i = 0 THEN 0 ELSE Upto[i - 1] + NodeLength[names[i]] + 1
  IN  Upto[Len(names)]

(* The errors of a walk from the root to an offset.                        *)
WalkError(err) ==
  IF err = NOTFOUND \/ err >= 0 THEN BADOFFSET
  ELSE IF err = BADOFFSET THEN BADSTRUCTURE ELSE err

(* Mutant: a name is not taken back when its node ends.                    *)
fdt_get_path_kept(b, node, buflen) ==
  LET Walk[o \in Int, depth \in Int, names \in Seq(NodeNames)] ==
        LET fits == Taken(names) + NodeLength[NodeName(b, o)] + 1 <= buflen
            now  == IF Len(names) >= depth /\ fits
                      THEN Append(names, NodeName(b, o)) ELSE names
            n    == NextNode(b, o, depth)
        IN  IF o < 0 \/ o > node THEN [ret |-> WalkError(o)]
            ELSE IF o # node THEN Walk[n.at, n.depth, now]
            ELSE IF Len(now) < depth + 1 THEN [ret |-> NOSPACE]
            ELSE [ret |-> 0, path |-> now]
  IN  IF buflen < 2 THEN [ret |-> NOSPACE] ELSE Walk[0, 0, <<>>]

(* names: those in the buffer.  The ones that are no longer above the node *)
(* are taken back; a name for which there is no space is left out, and so  *)
(* are those below it.                                                     *)
fdt_get_path(b, node, buflen) ==
  LET Walk[o \in Int, depth \in Int, names \in Seq(NodeNames)] ==
        LET up   == IF Len(names) > depth THEN SubSeq(names, 1, depth) ELSE names
            fits == Taken(up) + NodeLength[NodeName(b, o)] + 1 <= buflen
            now  == IF Len(up) >= depth /\ fits
                      THEN Append(up, NodeName(b, o)) ELSE up
            n    == NextNode(b, o, depth)
        IN  IF o < 0 \/ o > node THEN [ret |-> WalkError(o)]
            ELSE IF o # node THEN Walk[n.at, n.depth, now]
            ELSE IF Len(now) < depth + 1 THEN [ret |-> NOSPACE]
            ELSE [ret |-> 0, path |-> now]
  IN  IF buflen < 2 THEN [ret |-> NOSPACE] ELSE Walk[0, 0, <<>>]

(* What it returns and the depth it stores, if it finds the node.          *)
fdt_supernode_atdepth_offset(b, node, wanted) ==
  LET Walk[o \in Int, depth \in Int, super \in Int] ==
        LET now == IF depth = wanted THEN o ELSE super
            n   == NextNode(b, o, depth)
        IN  IF o < 0 \/ o > node THEN [ret |-> WalkError(o)]
            ELSE IF o # node THEN Walk[n.at, n.depth, now]
            ELSE [ret |-> IF wanted > depth THEN NOTFOUND ELSE now,
                  depth |-> depth]
  IN  IF wanted < 0 THEN [ret |-> NOTFOUND] ELSE Walk[0, 0, INTERNAL]

DepthOr(r) ==
  IF r.ret < 0 THEN r.ret ELSE IF r.ret > 0 THEN INTERNAL ELSE r.depth

fdt_node_depth(b, node) == DepthOr(fdt_supernode_atdepth_offset(b, node, 0))

AboveDepth(b, node, depth) ==
  IF depth < 0 THEN depth
  ELSE fdt_supernode_atdepth_offset(b, node, depth - 1).ret

fdt_parent_offset(b, node) == AboveDepth(b, node, fdt_node_depth(b, node))

-----------------------------------------------------------------------------
(* Searches through all nodes behind an offset, from the first on if it is *)
(* negative.                                                               *)
fdt_node_offset_by_prop_value(b, start, name, val) ==
  LET Search[o \in Int] ==
        IF o < 0 THEN o
        ELSE LET p == fdt_getprop(b, o, name)
             IN  IF p.len = Len(val) /\ p.val = val THEN o
                 ELSE Search[NextNodeFlat(b, o)]
  IN  Search[NextNodeFlat(b, start)]

fdt_node_offset_by_phandle(b, phandle) ==
  LET Search[o \in Int] ==
        IF o < 0 \/ fdt_get_phandle(b, o) = phandle THEN o
        ELSE Search[NextNodeFlat(b, o)]
  IN  IF phandle \in {NoPhandle, AllOnes} THEN BADPHANDLE
      ELSE Search[NextNodeFlat(b, -1)]

(* str ends with its 0.  If the list does not, the byte behind it may be   *)
(* compared, which is 0: that of the padding or the first of the next tag. *)
fdt_stringlist_contains(list, str) ==
  LET From[i \in Nat] ==
        LET zero == SelectInSubSeq(list, i, Len(list), LAMBDA c : c = 0)
        IN  IF Len(list) - i + 1 < Len(str) - 1 THEN FALSE
            ELSE IF SubSeq(list \o <<0>>, i, i + Len(str) - 1) = str THEN TRUE
            ELSE IF zero = 0 THEN FALSE
            ELSE From[zero + 1]
  IN  From[1]

fdt_node_check_compatible(b, node, str) ==
  LET p == fdt_getprop(b, node, "compatible")
  IN  IF p.len < 0 THEN p.len
      ELSE IF fdt_stringlist_contains(p.val, str) THEN 0 ELSE 1

fdt_node_offset_by_compatible(b, start, str) ==
  LET Search[o \in Int] ==
        IF o < 0 THEN o
        ELSE LET err == fdt_node_check_compatible(b, o, str)
             IN  IF err < 0 /\ err # NOTFOUND THEN err
                 ELSE IF err = 0 THEN o
                 ELSE Search[NextNodeFlat(b, o)]
  IN  Search[NextNodeFlat(b, start)]
=============================================================================
