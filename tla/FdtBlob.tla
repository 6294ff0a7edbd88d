------------------------------- MODULE FdtBlob -------------------------------
(***************************************************************************)
(* The flattened device tree and the walks over it: libfdt/fdt.c and the   *)
(* part of libfdt/fdt_ro.c that the other functions are built on.          *)
(*                                                                         *)
(* A blob is a buffer of cells, mem, with the fields of struct fdt_header  *)
(* that say where its blocks are.  One address is one byte of a value or   *)
(* of a string; what takes more (a 32-bit word, a name, a reservation) has *)
(* its first cell say what it is and Rest in the others.  FDT_TAGSIZE is a *)
(* parameter because the alignment of what is no multiple of it matters    *)
(* and its value does not.  A blob has version 17, as dtc and QEMU make.   *)
(***************************************************************************)
EXTENDS Integers, SequencesExt

CONSTANTS
  FDT_TAGSIZE,
  HEADER_SIZE,  \* FDT_ALIGN(sizeof(struct fdt_header), 8)
  BUF_SIZE,     \* of the buffer a blob lies in
  NodeLength,   \* the length of each node name, "" among them
  BaseName,     \* of each node name, what is in front of its '@'
  Tails         \* of each property name, the strings that are in it from
                \*   its first character on, from its second, ... and ""

NodeNames == DOMAIN NodeLength

PropNames == DOMAIN Tails

ASSUME SizesAssumption ==
  FDT_TAGSIZE \in Nat \ {0} /\ HEADER_SIZE \in Nat /\ BUF_SIZE \in Nat

ASSUME NamesAssumption ==
  /\ \A n \in NodeNames : NodeLength[n] \in Nat
  /\ \A s \in PropNames : Len(Tails[s]) \in Nat \ {0} /\ Tails[s][1] = s

(* The error codes of libfdt.h.                                            *)
NOTFOUND == -1
EXISTS == -2
NOSPACE == -3
BADOFFSET == -4
TRUNCATED == -8
BADSTRUCTURE == -11
BADLAYOUT == -12

-----------------------------------------------------------------------------
(* Cells.                                                                  *)

Rest == <<"rest", 0>>

Junk == <<"junk", 0>>

(* FDT_TAGALIGN.                                                           *)
TagAlign(n) == n + ((-n) % FDT_TAGSIZE)

(* What cell c describes takes n addresses.                                *)
Cells(c, n) == [i \in 1 .. n |-> IF i = 1 THEN c ELSE Rest]

Word(kind, v) == Cells(<<kind, v>>, FDT_TAGSIZE)

Tag(t) == Word("tag", t)

RsvSize == 4 * FDT_TAGSIZE

Reservation(address, size) ==
  Cells(<<"address", address>>, 2 * FDT_TAGSIZE)
    \o Cells(<<"size", size>>, 2 * FDT_TAGSIZE)

NameCells(name) ==
  Cells(<<"name", name>>, TagAlign(NodeLength[name] + 1))

Bytes(val) == [i \in 1 .. Len(val) |-> <<"byte", val[i]>>]

(* Every address of a string is the beginning of a string.                 *)
StringCells(s) == 
  [i \in 1 .. Len(Tails[s]) |-> <<"string", Tails[s][i]>>]

StructTop(b) == b.off_dt_struct + b.size_dt_struct

DataSize(b) == b.off_dt_strings + b.size_dt_strings

-----------------------------------------------------------------------------
(* _fdt_offset_ptr, and what is found there.                               *)
Struct(b, offset) == b.mem[b.off_dt_struct + offset]

NodeName(b, offset) == Struct(b, offset + FDT_TAGSIZE)[2]

PropHeader == 3 * FDT_TAGSIZE

PropLen(b, offset) == Struct(b, offset + FDT_TAGSIZE)[2]

NameOff(b, offset) == Struct(b, offset + 2 * FDT_TAGSIZE)[2]

String(b, stroffset) == b.mem[b.off_dt_strings + stroffset][2]

PropVal(b, offset) ==
  [i \in 1 .. PropLen(b, offset) |-> Struct(b, offset + PropHeader + i - 1)[2]]

(* How many addresses the tag and what belongs to it take.                 *)
TagLength(b, offset, tag) ==
  IF tag = "BEGIN_NODE"
    THEN FDT_TAGSIZE + NodeLength[NodeName(b, offset)] + 1
  ELSE IF tag = "PROP" THEN PropHeader + PropLen(b, offset)
  ELSE FDT_TAGSIZE

(* fdt_offset_ptr compares without sign: a negative offset is too large.   *)
NextTag(b, offset) ==
  LET cell == Struct(b, offset)
      end  == offset + TagLength(b, offset, cell[2])
  IN  IF offset < 0 \/ offset + FDT_TAGSIZE > b.size_dt_struct
        THEN [tag |-> "END", next |-> TRUNCATED]
      ELSE IF cell[1] # "tag" \/ end > b.size_dt_struct
        THEN [tag |-> "END", next |-> BADSTRUCTURE]
      ELSE [tag |-> cell[2], next |-> TagAlign(end)]

CheckOffset(b, offset, tag) ==
  IF offset < 0 \/ offset % FDT_TAGSIZE # 0 \/ NextTag(b, offset).tag # tag
    THEN BADOFFSET ELSE NextTag(b, offset).next

CheckNodeOffset(b, offset) == CheckOffset(b, offset, "BEGIN_NODE")

(* Where a walk from tag to tag comes by: multiples of FDT_TAGSIZE, or     *)
(* errors.                                                                 *)
WalkOffsets == {o \in Int : o >= 0 => o % FDT_TAGSIZE = 0}

(* The offset of the next node, or an error, and the depth it is at.       *)
NextNode(b, offset, depth) ==
  LET Walk[n \in [at : WalkOffsets, depth : Int]] ==
        LET t == NextTag(b, n.at)
        IN  IF t.tag = "BEGIN_NODE" THEN [n EXCEPT !.depth = @ + 1]
            ELSE IF t.tag = "END_NODE" /\ n.depth = 0
              THEN [at |-> t.next, depth |-> -1]
            ELSE IF t.tag = "END_NODE"
              THEN Walk[[at |-> t.next, depth |-> n.depth - 1]]
            ELSE IF t.tag # "END" THEN Walk[[n EXCEPT !.at = t.next]]
            ELSE [n EXCEPT !.at = IF t.next >= 0 THEN NOTFOUND ELSE t.next]
      start == IF offset >= 0 THEN CheckNodeOffset(b, offset) ELSE 0
      from  == [at |-> start, depth |-> depth]
  IN  IF start < 0 THEN from ELSE Walk[from]

(* The same when the caller does not ask for the depth.                    *)
NextNodeFlat(b, offset) ==
  LET Walk[o \in WalkOffsets] ==
        LET t == NextTag(b, o)
        IN  IF t.tag = "BEGIN_NODE" THEN o
            ELSE IF t.tag # "END" THEN Walk[t.next]
            ELSE IF t.next >= 0 \/ t.next = TRUNCATED THEN NOTFOUND
            ELSE t.next
      start == IF offset >= 0 THEN CheckNodeOffset(b, offset) ELSE 0
  IN  IF start < 0 THEN start ELSE Walk[start]

-----------------------------------------------------------------------------
(* fdt_ro.c.                                                               *)

(* _fdt_nodename_eq: a name without unit address fits one with any.        *)
NodeNameEq(found, name) ==
  \/ found = name
  \/ BaseName[name] = name /\ BaseName[found] = name

SubnodeOffset(b, parent, name) ==
  LET Search[n \in [at : Int, depth : Int]] ==
        LET next == NextNode(b, n.at, n.depth)
        IN  IF n.at < 0 THEN n.at
            ELSE IF n.depth = 1 /\ NodeNameEq(NodeName(b, n.at), name)
              THEN n.at
            ELSE IF next.depth < 0 THEN NOTFOUND
            ELSE Search[next]
  IN  Search[[at |-> parent, depth |-> 0]]

(* fdt_get_property: _nextprop and the comparison of the name.             *)
GetProperty(b, node, name) ==
  LET Search[o \in WalkOffsets] ==
        LET t == NextTag(b, o)
        IN  IF t.tag = "PROP" /\ String(b, NameOff(b, o)) = name THEN o
            ELSE IF t.tag \in {"PROP", "NOP"} THEN Search[t.next]
            ELSE IF t.tag = "END"
              THEN IF t.next >= 0 THEN BADSTRUCTURE ELSE t.next
            ELSE NOTFOUND
      start == CheckNodeOffset(b, node)
  IN  IF start < 0 THEN start ELSE Search[start]

(* _fdt_node_end_offset, of fdt_wip.c.                                     *)
NodeEndOffset(b, node) ==
  LET Search[n \in [at : Int, depth : Int]] ==
        IF n.at < 0 \/ n.depth < 0 THEN n.at
        ELSE Search[NextNode(b, n.at, n.depth)]
  IN  Search[[at |-> node, depth |-> 0]]

RsvSizeAt(b, n) ==
  b.mem[b.off_mem_rsvmap + n * RsvSize + 2 * FDT_TAGSIZE][2]

(* The entry with size 0 ends the map.                                     *)
NumMemRsv(b) ==
  LET Count[n \in Nat] ==
        IF RsvSizeAt(b, n) = 0 THEN n ELSE Count[n + 1]
  IN  Count[0]

(* Every suffix of a string in the table is a string too.                  *)
FindString(b, s) ==
  LET places == {o \in 0 .. b.size_dt_strings - Len(Tails[s]) :
                   b.mem[b.off_dt_strings + o] = <<"string", s>>}
  IN  IF places = {} THEN NOTFOUND
                     ELSE CHOOSE o \in places : \A p \in places : o <= p
-----------------------------------------------------------------------------
(* What the structure block says.                                          *)

Nowhere == <<>>

(* The offsets of the tags, in order, up to the end.                       *)
TagOffsets(b) ==
  LET From[o \in WalkOffsets] ==
        LET t == NextTag(b, o)
        IN  IF t.tag = "END" THEN <<>> ELSE <<o>> \o From[t.next]
  IN  From[0]

(* Function f, with value v at k.                                          *)
Put(f, k, v) == [x \in DOMAIN f \cup {k} |-> IF x = k THEN v ELSE f[x]]

(* c is what the tags before the one at offset o say.                      *)
Read(b, c, o) ==
  LET tag  == NextTag(b, o).tag
      path == Append(c.path, NodeName(b, o))
      name == String(b, NameOff(b, o))
  IN  IF tag = "BEGIN_NODE"
        THEN [c EXCEPT !.path = path, !.last = tag,
                       !.at = Put(@, o, path),
                       !.tree = Put(@, path, << >>)]
      ELSE IF tag = "END_NODE"
        THEN [c EXCEPT !.path = Front(@), !.last = tag,
                       !.ok = @ /\ c.path # Nowhere]
      ELSE IF tag = "PROP"
        THEN [c EXCEPT !.tree[c.path] = Put(@, name, PropVal(b, o)),
                       !.ok = @ /\ c.last = "BEGIN_NODE"
                                /\ name \notin DOMAIN c.tree[c.path]]
      ELSE c

(* at: the path of the node that begins at an offset; tree: its            *)
(* properties; path: of the node that is open; ok: properties come before  *)
(* subnodes and only once, tags match.                                     *)
Contents(b) ==
  LET tags == TagOffsets(b)
      Upto[i \in 0 .. Len(tags)] ==
        IF i = 0 THEN [path |-> Nowhere, last |-> "", at |-> << >>,
                       tree |-> << >>, ok |-> TRUE]
        ELSE LET before == Upto[i - 1] IN Read(b, before, tags[i])
  IN  Upto[Len(tags)]

At(v, offset) == IF offset \in DOMAIN v.at THEN v.at[offset] ELSE Nowhere

RsvMap(b) ==
  [i \in 1 .. NumMemRsv(b) |->
     <<b.mem[b.off_mem_rsvmap + (i - 1) * RsvSize][2], RsvSizeAt(b, i - 1)>>]

MapSize(b) == (NumMemRsv(b) + 1) * RsvSize

(* Where tags are, and where what belongs to one has ended.                *)
Tags(b) ==
  {o \in 0 .. b.size_dt_struct - 1 :
     o % FDT_TAGSIZE = 0 /\ Struct(b, o)[1] = "tag"}

Following(b, o) == TagAlign(o + TagLength(b, o, Struct(b, o)[2]))

(* The tag is one there is, a property has a name in the strings block,    *)
(* and there is no tag up to where the next one is, or the block ends.     *)
TagIsSound(b, o) ==
  LET tag == Struct(b, o)[2]
  IN  /\ tag \in {"BEGIN_NODE", "END_NODE", "PROP", "NOP", "END"}
      /\ tag = "BEGIN_NODE" => NodeName(b, o) \in NodeNames
      /\ tag = "PROP" => /\ PropLen(b, o) \in Nat
                         /\ NameOff(b, o) \in 0 .. b.size_dt_strings - 1
      /\ IF tag = "END" THEN Following(b, o) = b.size_dt_struct
                        ELSE Following(b, o) \in Tags(b)
      /\ Tags(b) \cap (o + 1 .. Following(b, o) - 1) = {}

StructIsSound(b) ==
  /\ b.size_dt_struct % FDT_TAGSIZE = 0
  /\ 0 \in Tags(b)
  /\ \A o \in Tags(b) : TagIsSound(b, o)

(* The tags fill the structure block up to its end and match, properties   *)
(* come before subnodes and none twice, and the map of reservations ends   *)
(* in front of the next block.                                             *)
Whole(b, v) ==
  LET tags == TagOffsets(b)
      end  == IF tags = <<>> THEN 0 ELSE NextTag(b, Last(tags)).next
  IN  /\ NextTag(b, end) = [tag |-> "END", next |-> b.size_dt_struct]
      /\ v.ok /\ v.path = Nowhere
      /\ b.off_mem_rsvmap + MapSize(b) <= b.off_dt_struct

(* The blocks end where the blob does at the latest, and the blob where    *)
(* its buffer does.                                                        *)
Fits(b) ==
  /\ DOMAIN b.mem = 0 .. BUF_SIZE - 1
  /\ b.totalsize <= BUF_SIZE
  /\ DataSize(b) <= b.totalsize
  /\ StructTop(b) <= b.totalsize

(* The blocks are apart, the map of reservations in front and with an end. *)
BlocksAreApart(b) ==
  /\ HEADER_SIZE <= b.off_mem_rsvmap
  /\ NumMemRsv(b) \in Nat /\ RsvSizeAt(b, NumMemRsv(b)) = 0
  /\ b.off_mem_rsvmap + MapSize(b) <= b.off_dt_struct
  /\ b.off_mem_rsvmap + MapSize(b) <= b.off_dt_strings
  /\ StructTop(b) <= b.off_dt_strings \/ DataSize(b) <= b.off_dt_struct

(* The fields there are use for, in struct fdt_header and behind it.       *)
Fields ==
  {"mem", "totalsize", "off_mem_rsvmap", "off_dt_struct", "size_dt_struct",
   "off_dt_strings", "size_dt_strings", "boot_cpuid_phys"}

(* What the functions that edit a blob rely on, and keep.                  *)
Sound(b) ==
  /\ Fields \subseteq DOMAIN b
  /\ {b.totalsize, b.off_mem_rsvmap, b.off_dt_struct, b.size_dt_struct,
      b.off_dt_strings, b.size_dt_strings} \subseteq Nat
  /\ Fits(b) /\ BlocksAreApart(b) /\ StructIsSound(b)
=============================================================================
