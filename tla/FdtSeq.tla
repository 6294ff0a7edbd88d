------------------------------- MODULE FdtSeq -------------------------------
(***************************************************************************)
(* A caller that writes a blob with the functions of FdtSw, in the order   *)
(* they are made for, and looks at it with those of FdtRo all the time.    *)
(* An action is one call; the caller goes on after one that failed, to try *)
(* it again or to end its tree with what it has.                           *)
(***************************************************************************)
EXTENDS FdtSw, FdtRo, FiniteSets

CONSTANTS
  Blobs,       \* blobs of dtc, for those who only read
  WriteNames, WriteProps, WriteValues,  \* of what is written
  Addresses, Sizes,  \* of reservations
  BufSizes,    \* of the buffers
  BufLens,     \* of what fdt_get_path gets
  AliasPaths, Values, Phandles, Compatibles  \* searched for

(* The names of a device tree have at most 31 characters; an entry of size *)
(* 0 is for fdt_finish_reservemap.                                         *)
ASSUME WriteAssumption ==
  /\ WriteNames \cup {""} \subseteq NodeNames /\ WriteProps \subseteq PropNames
  /\ \A name \in WriteProps : Len(Tails[name]) <= FirstReservation + RsvSize
  /\ WriteValues \subseteq Seq(Nat)
  /\ 0 \notin Sizes /\ BufSizes \subseteq Nat

(* What is in a name from one of its characters on is a name as long as    *)
(* what is left.                                                           *)
ASSUME TailsAssumption ==
  \A s \in PropNames : \A i \in 1 .. Len(Tails[s]) :
    Tails[s][i] \in PropNames => Len(Tails[Tails[s][i]]) = Len(Tails[s]) - i + 1

(* The structure and the strings lie in the blob, and apart.               *)
BlocksInside(b) ==
  /\ DataSize(b) <= b.totalsize /\ StructTop(b) <= b.totalsize
  /\ StructTop(b) <= b.off_dt_strings \/ DataSize(b) <= b.off_dt_struct

Finished(b) ==
  [f \in DOMAIN b \cup {"magic"} |-> IF f = "magic" THEN "FDT" ELSE b[f]]

(* The entries of the map of reservations.                                 *)
Entries(b) ==
  [i \in 1 .. (b.off_dt_struct - b.off_mem_rsvmap) \div RsvSize |->
     LET at == b.off_mem_rsvmap + (i - 1) * RsvSize
     IN  <<b.mem[at][2], b.mem[at + 2 * FDT_TAGSIZE][2]>>]

Mapped(b) == \E i \in 1 .. Len(Entries(b)) : Entries(b)[i][2] = 0

(* Blobs as dtc makes them.                                                *)
ASSUME BlobsAssumption ==
  \A b \in Blobs :
    /\ DOMAIN b = {"mem", "totalsize", "off_mem_rsvmap", "off_dt_struct",
                   "size_dt_struct", "off_dt_strings", "size_dt_strings",
                   "boot_cpuid_phys"}
    /\ {b.totalsize, b.off_mem_rsvmap, b.off_dt_struct, b.size_dt_struct,
        b.off_dt_strings, b.size_dt_strings} \subseteq Nat
    /\ 0 .. b.totalsize - 1 \subseteq DOMAIN b.mem
    /\ BlocksInside(b)
    /\ StructIsSound(b) /\ Mapped(b) /\ Whole(Finished(b), Contents(Finished(b)))

VARIABLES
  fdt,   \* the blob
  view,  \* what it says
  call   \* the last call, and what it returned

vars == <<fdt, view, call>>

NoBlob == [magic |-> "none", mem |-> <<>>, size_dt_struct |-> 0, off_mem_rsvmap |-> 0,
           off_dt_struct |-> 0]

Init ==
  /\ fdt \in {NoBlob} \cup {Finished(b) : b \in Blobs}
  /\ view = Contents(fdt)
  /\ call = <<"none">>

Returns(c, r) ==
  /\ fdt' = r.fdt
  /\ view' = Contents(r.fdt)
  /\ call' = Append(c, r.ret)

Reserved(b) ==
  LET end == SelectInSeq(Entries(b), LAMBDA e : e[2] = 0)
  IN  IF end = 0 THEN Entries(b) ELSE SubSeq(Entries(b), 1, end - 1)

-----------------------------------------------------------------------------
(* One action per function.  After fdt_finish each is refused.             *)

(* The caller's order, as long as it may write.                            *)
InOrder(condition) ==
  \/ fdt.magic = "FDT"
  \/ fdt.magic = "SW" /\ Mapped(fdt) /\ condition

Create ==
  \E size \in BufSizes :
    fdt.magic = "none" /\ Returns(<<"create", size>>, fdt_create(fdt, size))

CreateEmptyTree ==
  \E size \in BufSizes :
    /\ fdt.magic = "none"
    /\ \E r \in fdt_create_empty_tree(fdt, size) :
         Returns(<<"create_empty_tree", size>>,
                 IF r.ret = 0 THEN r ELSE Result(NoBlob, r.ret))

AddReservemapEntry ==
  \E address \in Addresses, size \in Sizes :
    /\ fdt.magic # "none"
    /\ Returns(<<"add_reservemap_entry", address, size>>,
               fdt_add_reservemap_entry(fdt, address, size))

FinishReservemap ==
  /\ fdt.magic # "none"
  /\ Returns(<<"finish_reservemap">>, fdt_finish_reservemap(fdt))

(* One root, and no two siblings of one name.                              *)
MayBegin(name) ==
  IF view.tree = <<>> THEN name = ""
  ELSE /\ name # "" /\ view.path # Nowhere
       /\ Append(view.path, name) \notin DOMAIN view.tree

BeginNode ==
  \E name \in WriteNames :
    /\ InOrder(MayBegin(name))
    /\ Returns(<<"begin_node", name>>, fdt_begin_node(fdt, name))

EndNode ==
  /\ InOrder(view.path # Nowhere)
  /\ Returns(<<"end_node">>, fdt_end_node(fdt))

(* Properties come before subnodes, and once.                              *)
MayHave(name) ==
  /\ view.path # Nowhere /\ view.last = "BEGIN_NODE"
  /\ name \notin DOMAIN view.tree[view.path]

Property ==
  \E name \in WriteProps, val \in WriteValues :
    /\ InOrder(MayHave(name))
    /\ Returns(<<"property", name, val>>, fdt_property(fdt, name, val))

Finish ==
  /\ InOrder(view.path = Nowhere /\ view.tree # <<>>)
  /\ Returns(<<"finish">>, fdt_finish(fdt))

Move ==
  \E size \in BufSizes :
    fdt.magic # "none" /\ Returns(<<"move", size>>, fdt_move(fdt, size))

Next ==
  \/ Create \/ CreateEmptyTree
  \/ AddReservemapEntry \/ FinishReservemap
  \/ BeginNode \/ EndNode \/ Property
  \/ Finish \/ Move

Spec == Init /\ [][Next]_vars
-----------------------------------------------------------------------------
(* Nothing has been written into the blob.                                 *)
Unwritten(b) ==
  /\ b.off_dt_struct = b.off_mem_rsvmap
  /\ b.size_dt_struct = 0 /\ b.size_dt_strings = 0

(* The structure and the strings, which grow towards each other in one     *)
(* buffer, never meet, neither while they are written nor when fdt_finish  *)
(* has moved the strings, and they lie in the blob and the blob in its     *)
(* buffer.  fdt_create accepts a buffer in which not even the map of       *)
(* reservations could begin; nothing is ever written into that.            *)
BlocksApart ==
  /\ fdt.magic # "none" => 0 .. fdt.totalsize - 1 \subseteq DOMAIN fdt.mem
  /\ fdt.magic = "SW" => Room(fdt) >= 0 \/ Unwritten(fdt)
  /\ fdt.magic = "FDT" => BlocksInside(fdt)

(* What a blob is to its caller.                                           *)
State(b) ==
  CASE b.magic = "none" -> "none"
    [] b.magic = "SW" -> "writing"
    [] b.magic = "FDT" -> "done"

(* The tree that is written.                                               *)
Writer == INSTANCE FdtWriter
            WITH NodeNames <- WriteNames, PropNames <- WriteProps,
                 Values <- WriteValues,
                 state <- State(fdt),
                 rsv <- Reserved(fdt), mapped <- Mapped(fdt),
                 tree <- view.tree, open <- view.path,
                 children <- view.last = "END_NODE"

(* The calls write the tree that one who reads them would draw, and one    *)
(* that fails changes nothing of it.                                       *)
WritesTheTree == Writer!Spec

(* What a call c needs: its property and, if no string of the table ends   *)
(* with it, the name too.                                                  *)
Need(c) ==
  CASE c[1] = "property" ->
         PropHeader + TagAlign(Len(c[3]))
           + IF \E a \in fdt.totalsize - fdt.size_dt_strings
                           .. fdt.totalsize - 1 :
                  fdt.mem[a] = <<"string", c[2]>>
               THEN 0 ELSE Len(Tails[c[2]])
    [] c[1] = "begin_node" -> FDT_TAGSIZE + TagAlign(NodeLength[c[2]] + 1)
    [] c[1] \in {"end_node", "finish"} -> FDT_TAGSIZE
    [] c[1] \in {"add_reservemap_entry", "finish_reservemap"} -> RsvSize

(* No call fails for lack of space when there is enough, the space that    *)
(* earlier failures took included; made again at once it changes nothing   *)
(* more.                                                                   *)
NoSpaceIsDue ==
  [][/\ Last(call') = NOSPACE /\ fdt.magic = "SW" /\ call'[1] # "move" =>
         Room(fdt) < Need(call')
     /\ Last(call') < 0 /\ call' = call => fdt' = fdt]_vars

-----------------------------------------------------------------------------
(* What the readers should say, by the tree.                               *)

Nodes == DOMAIN view.at

PathAt(o) == view.at[o]

Name(o) == Last(PathAt(o))

First(offsets) == IF offsets = {} THEN NOTFOUND ELSE Min(offsets)

Behind(o, offsets) == {p \in offsets : p > o}

Kids(o) ==
  {c \in Nodes : PathAt(c) # Nowhere /\ Front(PathAt(c)) = PathAt(o)}

Brothers(o) == {c \in Nodes : Front(PathAt(c)) = Front(PathAt(o))}

(* A property belongs to the node that begins last before it.              *)
PropOffsets(o, tags) ==
  {p \in Range(tags) : /\ Struct(fdt, p) = <<"tag", "PROP">>
                       /\ o = Max({n \in Nodes : n < p} \cup {-1})}

Open(o) == fdt.magic = "SW" /\ IsPrefix(PathAt(o), view.path)

(* What is not there in a node that is open may be to come.                *)
NoKid(o) == IF Open(o) THEN TRUNCATED ELSE NOTFOUND

NoProp(o) ==
  IF fdt.magic = "SW" /\ view.path = PathAt(o) /\ view.last = "BEGIN_NODE"
    THEN TRUNCATED ELSE NOTFOUND

Has(o, name) == name \in DOMAIN view.tree[PathAt(o)]

Value(o, name) == view.tree[PathAt(o)][name]

(* The nodes and properties come one after the other, each once.           *)
Enumerates ==
  \A tags \in {TagOffsets(fdt)} : \A o \in Nodes :
    LET props == PropOffsets(o, tags)
        Next1(later) == IF later = {} THEN NoProp(o) ELSE Min(later)
    IN  /\ fdt_first_subnode(fdt, o) = First(Kids(o))
        /\ fdt_next_subnode(fdt, o) = First(Behind(o, Brothers(o)))
        /\ fdt_first_property_offset(fdt, o) = Next1(props)
        /\ \A p \in props :
             /\ fdt_next_property_offset(fdt, p) = Next1(Behind(p, props))
             /\ LET r == fdt_getprop_by_offset(fdt, p)
                IN  Has(o, r.name) /\ r.val = Value(o, r.name)
        /\ Cardinality(props) = Cardinality(DOMAIN view.tree[PathAt(o)])
        /\ \A name \in PropNames :
             fdt_getprop(fdt, o, name) =
               IF Has(o, name) THEN [len |-> Len(Value(o, name)),
                                     val |-> Value(o, name)]
                               ELSE [len |-> NoProp(o)]

(* From a node by a name to the first of its subnodes the name fits.       *)
Step(o, name) ==
  LET fit == {c \in Kids(o) : NodeNameEq(Name(c), name)}
  IN  IF o < 0 THEN o ELSE IF fit = {} THEN NoKid(o) ELSE Min(fit)

PathLength(path) ==
  Max({1, SumFunction([i \in 2 .. Len(path) |-> NodeLength[path[i]] + 1])})

(* Offsets become paths, paths offsets, and the nodes above are found.     *)
KnowsTheWay ==
  \A o \in Nodes :
    LET path == PathAt(o)
    IN  /\ \A n \in BufLens :
             fdt_get_path(fdt, o, n) =
               IF n > PathLength(path) THEN [ret |-> 0, path |-> path]
                                       ELSE [ret |-> NOSPACE]
        /\ \A name \in NodeNames \ {""} :
             SubnodeOffset(fdt, o, name) = Step(o, name)
        /\ fdt_node_depth(fdt, o) = Len(path) - 1
        /\ \A d \in -1 .. Len(path) :
             fdt_supernode_atdepth_offset(fdt, o, d).ret =
               IF d \notin 0 .. Len(path) - 1 THEN NOTFOUND
               ELSE CHOOSE s \in Nodes : PathAt(s) = SubSeq(path, 1, d + 1)
        /\ fdt_parent_offset(fdt, o) =
             IF path = <<"">> THEN NOTFOUND
             ELSE CHOOSE s \in Nodes : PathAt(s) = Front(path)

(* The node an alias and names lead to, or an error.                       *)
Way(o, names) ==
  CASE Len(names) = 0 -> o
    [] Len(names) = 1 -> Step(o, names[1])
    [] Len(names) = 2 -> Step(Step(o, names[1]), names[2])

Aliased(alias, names) ==
  LET aliases == {o \in Nodes : PathAt(o) = <<"", "aliases">>}
  IN  IF alias = "" THEN Way(0, names)
      ELSE IF \E o \in aliases : Has(o, alias)
        THEN Way(Way(0, PathOf[Value(Max(aliases), alias)]), names)
      ELSE BADPATH

Phandle(o) ==
  LET given == {n \in {"phandle", "linux,phandle"} :
                  Has(o, n) /\ Len(Value(o, n)) = FDT_TAGSIZE}
  IN  IF given = {} THEN NoPhandle
      ELSE Value(o, IF "phandle" \in given THEN "phandle" ELSE "linux,phandle")

(* str is one of the strings in list.                                      *)
Lists(list, str) ==
  \E i \in 1 .. Len(list) - Len(str) + 1 :
    /\ i = 1 \/ list[i - 1] = 0
    /\ SubSeq(list, i, i + Len(str) - 1) = str

(* A node that may get the property yet ends this search.                  *)
Fits1(o, str) ==
  IF Has(o, "compatible") THEN Lists(Value(o, "compatible"), str)
                          ELSE NoProp(o) = TRUNCATED

(* Nodes are found by path, alias, property, phandle and compatible: the   *)
(* first that fits behind the one the search starts from.                  *)
Finds ==
  /\ \A alias \in WriteProps \cup {""} : \A path \in AliasPaths :
       fdt_path_offset(fdt, alias, path) = Aliased(alias, path)
  /\ \A phandle \in Phandles :
       fdt_node_offset_by_phandle(fdt, phandle) =
         IF phandle \in {NoPhandle, AllOnes} THEN BADPHANDLE
         ELSE First({o \in Nodes : Phandle(o) = phandle})
  /\ \A start \in Nodes \cup {-1} :
       /\ \A name \in WriteProps, val \in Values :
            fdt_node_offset_by_prop_value(fdt, start, name, val) =
              First({o \in Behind(start, Nodes) :
                       Has(o, name) /\ Value(o, name) = val})
       /\ \A str \in Compatibles :
            fdt_node_offset_by_compatible(fdt, start, str) =
              LET first == First({o \in Behind(start, Nodes) : Fits1(o, str)})
              IN  IF first >= 0 /\ ~Has(first, "compatible") THEN TRUNCATED
                                                             ELSE first

(* What is no node is not taken for one.                                   *)
RefusesOthers ==
  LET After(o) == view.path # Nowhere /\ \A n \in Nodes : n < o
  IN  \A o \in {-1, 2} \cup (Range(TagOffsets(fdt)) \ Nodes) :
        /\ CheckNodeOffset(fdt, o) = BADOFFSET
        /\ fdt_first_property_offset(fdt, o) = BADOFFSET
        /\ fdt_getprop(fdt, o, "p").len = BADOFFSET
        /\ fdt_first_subnode(fdt, o) = IF o < 0 THEN 0 ELSE NOTFOUND
        /\ fdt_next_property_offset(fdt, o) >= 0 => CheckPropOffset(fdt, o) >= 0
        /\ {fdt_get_path(fdt, o, Max(BufLens)).ret, fdt_parent_offset(fdt, o)}
             = {IF After(o) THEN TRUNCATED ELSE BADOFFSET}

(* A reader can walk over what is written and, once it is finished, to its *)
(* end.                                                                    *)
IsReadable ==
  /\ fdt.magic = "SW" => view.ok
  /\ fdt.magic = "FDT" => Whole(fdt, view)

(* Every blob can be read, and the readers agree with the tree on each one *)
(* that fdt_check_header accepts, one that is still being written among    *)
(* them, when the last call did something.                                 *)
ReadersAgree ==
  /\ IsReadable
  /\ fdt_check_header(fdt) = 0 /\ (call = <<"none">> \/ Last(call) = 0) =>
       Enumerates /\ KnowsTheWay /\ Finds /\ RefusesOthers
=============================================================================
