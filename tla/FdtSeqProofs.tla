----------------------------- MODULE FdtSeqProofs -----------------------------
(***************************************************************************)
(* The sequential functions never let the structure and the strings meet,  *)
(* whatever the sizes of buffers, tags, names and values; and what they    *)
(* write can be read, and is the tree of FdtWriter.                        *)
(***************************************************************************)
EXTENDS FdtSeq, FdtRwProofs

Covered(b) == 0 .. b.totalsize - 1 \subseteq DOMAIN b.mem

(* What is behind the map is written only when there is a map, so that     *)
(* there are strings only when there is a structure.                       *)
WrittenOk(b) ==
  /\ b.magic = "SW" /\ IsBlob(b) /\ Covered(b)
  /\ b.off_mem_rsvmap = FirstReservation
  /\ Room(b) >= 0 \/ Unwritten(b)
  /\ b.off_dt_struct = b.off_mem_rsvmap
       \/ b.off_dt_struct >= b.off_mem_rsvmap + RsvSize
  /\ b.size_dt_struct = 0 => b.size_dt_strings = 0

FinishedOk(b) ==
  b.magic = "FDT" /\ IsBlob(b) /\ Covered(b) /\ BlocksInside(b)

BlobOk(b) == b = NoBlob \/ WrittenOk(b) \/ FinishedOk(b)

IInv == view = Contents(fdt) /\ BlobOk(fdt)

-----------------------------------------------------------------------------
(* Sizes.                                                                  *)

(* Where the map of reservations begins.                                   *)
LEMMA FirstReservationIs == FirstReservation \in Nat
<1> DEFINE n == HEADER_SIZE + RsvSize - 1
           q == n \div RsvSize
<1>1. n \in Nat
  BY RsvSizeIs, SizesAssumption
<1> HIDE DEF n
<1>2. q \in Nat
  BY <1>1, RsvSizeIs
<1> HIDE DEF q
<1>3. RsvSize * q \in Nat
  BY <1>2, RsvSizeIs
<1>. QED
  BY <1>3 DEF FirstReservation, q, n

(* A blob with a map of reservations has room for its first entry.         *)
LEMMA MappedIs ==
  ASSUME NEW b, WrittenOk(b), Mapped(b)
  PROVE  b.off_dt_struct >= b.off_mem_rsvmap + RsvSize /\ Room(b) >= 0
<1> DEFINE d == b.off_dt_struct - b.off_mem_rsvmap
<1>1. b.off_dt_struct \in Nat /\ b.off_mem_rsvmap \in Nat
  BY DEF WrittenOk, IsBlob
<1>2. ASSUME b.off_dt_struct = b.off_mem_rsvmap  PROVE FALSE
  <2>1. d = 0
    BY <1>1, <1>2
  <2>2. 0 \div RsvSize = 0
    BY RsvSizeIs
  <2>3. Len(Entries(b)) = 0
    <3>1. Entries(b) = <<>>
      BY <2>1, <2>2 DEF Entries
    <3>. QED
      BY <3>1
  <2>. QED
    BY <2>3 DEF Mapped
<1>3. b.off_dt_struct >= b.off_mem_rsvmap + RsvSize
  BY <1>2 DEF WrittenOk
<1>4. ~Unwritten(b)
  BY <1>2 DEF Unwritten
<1>. QED
  BY <1>3, <1>4 DEF WrittenOk

-----------------------------------------------------------------------------
(* The steps the functions are made of.                                    *)

(* _fdt_grab_space fails and does nothing, or writes behind the structure  *)
(* and leaves no less than nothing between it and the strings.             *)
LEMMA GrabSpaceIs ==
  ASSUME NEW b, IsBlob(b), Room(b) >= 0, NEW cells, Len(cells) \in Nat,
         NEW r, r = GrabSpace(b, cells)
  PROVE  /\ IsBlob(r.fdt) /\ Room(r.fdt) >= 0
         /\ r.ret \in {0, NOSPACE}
         /\ r.ret # 0 => r.fdt = b
         /\ r.ret = 0 => r.fdt.size_dt_struct = b.size_dt_struct + Len(cells)
         /\ \A f \in BlobFields \ {"mem", "size_dt_struct"} : r.fdt[f] = b[f]
         /\ DOMAIN b.mem \subseteq DOMAIN r.fdt.mem
         /\ \A a \in Int : a \in DOMAIN b.mem /\ a < StructTop(b) =>
              r.fdt.mem[a] = b.mem[a]
<1> DEFINE p == Poke(b, StructTop(b), cells)
           q == [p EXCEPT !.size_dt_struct = @ + Len(cells)]
<1>1. CASE Below(SpaceLeft(b), b.size_dt_struct + Len(cells))
  BY <1>1 DEF GrabSpace, Result, IsBlob, NOSPACE
<1>2. CASE ~Below(SpaceLeft(b), b.size_dt_struct + Len(cells))
  <2>1. r = [fdt |-> q, ret |-> 0]
    BY <1>2 DEF GrabSpace, Result
  <2> HIDE DEF p
  <2>2. /\ DOMAIN p = BlobFields
        /\ \A f \in BlobFields \ {"mem"} : p[f] = b[f]
        /\ DOMAIN p.mem = Span(StructTop(b), Len(cells)) \cup DOMAIN b.mem
        /\ \A a \in DOMAIN b.mem \ Span(StructTop(b), Len(cells)) :
             p.mem[a] = b.mem[a]
    BY PokeIs DEF IsBlob, p
  <2>3. /\ DOMAIN q = BlobFields /\ q.mem = p.mem
        /\ q.size_dt_struct = b.size_dt_struct + Len(cells)
        /\ \A f \in BlobFields \ {"mem", "size_dt_struct"} : q[f] = b[f]
    BY <2>2 DEF BlobFields
  <2> HIDE DEF q
  <2>4. IsBlob(q) /\ Room(q) >= 0
    <3> DEFINE n == Len(cells)
               total == b.totalsize
               off == b.off_dt_struct
               size == b.size_dt_struct
               names == b.size_dt_strings
    <3>1. {n, total, off, size, names} \subseteq Nat
      BY DEF IsBlob
    <3>2. ~(total - off - names >= 0 /\ total - off - names < size + n)
      BY <1>2 DEF Below, SpaceLeft
    <3>3. total - names - (off + size) >= 0
      BY DEF Room, StructTop
    <3>4. /\ q.totalsize = total /\ q.off_dt_struct = off
          /\ q.size_dt_struct = size + n /\ q.size_dt_strings = names
      BY <2>3 DEF BlobFields
    <3>5. IsBlob(q)
      <4> HIDE DEF n
      <4>1. b.size_dt_struct + n \in Nat
        BY <3>1
      <4>. QED
        BY <2>3, <4>1 DEF IsBlob, BlobFields, n
    <3> HIDE DEF n, total, off, size, names
    <3>6. total - names - (off + (size + n)) >= 0
      BY <3>1, <3>2, <3>3
    <3>. QED
      BY <3>4, <3>5, <3>6 DEF Room, StructTop
  <2>5. ASSUME NEW a \in Int, a \in DOMAIN b.mem, a < StructTop(b)
        PROVE  q.mem[a] = b.mem[a]
    <3>1. StructTop(b) \in Int
      BY DEF StructTop, IsBlob
    <3>2. a \notin Span(StructTop(b), Len(cells))
      BY <2>5, <3>1 DEF Span
    <3>. QED
      BY <2>2, <2>3, <2>5, <3>2
  <2>. QED
    BY <2>1, <2>2, <2>3, <2>4, <2>5 DEF BlobFields
<1>. QED
  BY <1>1, <1>2

(* What is written when a name is added, found or not.                     *)
LEMMA SwFindAddStringIs ==
  ASSUME NEW b, IsBlob(b), Room(b) >= 0, NEW s, Len(Tails[s]) \in Nat,
         Len(Tails[s]) <= StructTop(b),
         NEW r, r = SwFindAddString(b, s)
  PROVE  /\ IsBlob(r.fdt) /\ Room(r.fdt) >= 0
         /\ \A f \in BlobFields \ {"mem", "size_dt_strings"} : r.fdt[f] = b[f]
         /\ DOMAIN b.mem \subseteq DOMAIN r.fdt.mem
<1> DEFINE c == [b EXCEPT !.off_dt_strings = b.totalsize - b.size_dt_strings]
           found == FindString(c, s)
           offset == -b.size_dt_strings - Len(Tails[s])
           p == Poke(b, b.totalsize + offset, StringCells(s))
           q == [p EXCEPT !.size_dt_strings = -offset]
<1>0. /\ b.size_dt_strings \in Nat /\ b.totalsize \in Nat
      /\ b.off_dt_struct \in Nat /\ b.size_dt_struct \in Nat
  BY DEF IsBlob
<1> HIDE DEF found
<1>1. r = IF found >= 0 THEN Result(b, found - b.size_dt_strings)
          ELSE IF Below(b.totalsize + offset, StructTop(b)) THEN Result(b, 0)
          ELSE Result(q, offset)
  BY DEF SwFindAddString, found
<1>2. CASE r.fdt = b
  BY <1>2
<1>3. CASE r.fdt = q /\ ~Below(b.totalsize + offset, StructTop(b))
  <2> HIDE DEF p
  <2>1. /\ DOMAIN p = BlobFields
        /\ \A f \in BlobFields \ {"mem"} : p[f] = b[f]
        /\ DOMAIN b.mem \subseteq DOMAIN p.mem
    BY PokeIs DEF IsBlob, p
  <2>2. /\ DOMAIN q = BlobFields /\ q.mem = p.mem
        /\ q.size_dt_strings = -offset
        /\ \A f \in BlobFields \ {"mem", "size_dt_strings"} : q[f] = b[f]
    BY <2>1 DEF BlobFields
  <2> HIDE DEF q
  <2>3. -offset = b.size_dt_strings + Len(Tails[s])
    BY <1>0
  <2>4. b.totalsize + offset >= 0
    BY <1>0 DEF Room, StructTop
  <2>5. b.totalsize + offset >= StructTop(b)
    BY <2>4, <1>3, <1>0 DEF Below, StructTop
  <2>6. Room(q) >= 0
    <3>1. /\ q.totalsize = b.totalsize /\ q.off_dt_struct = b.off_dt_struct
          /\ q.size_dt_struct = b.size_dt_struct
      BY <2>2 DEF BlobFields
    <3>. QED
      BY <3>1, <2>2, <2>3, <2>5, <1>0 DEF Room, StructTop
  <2>7. IsBlob(q)
    BY <2>2, <2>3, <1>0 DEF IsBlob, BlobFields
  <2>. QED
    BY <1>3, <2>1, <2>2, <2>6, <2>7
<1>. QED
  BY <1>1, <1>2, <1>3 DEF Result

-----------------------------------------------------------------------------
(* The functions.                                                          *)

(* fdt_create gives a blob of the size of the buffer with nothing in it.   *)
LEMMA CreateIs ==
  ASSUME NEW old, NEW bufsize \in Nat,
         NEW r, r = fdt_create(old, bufsize), r.ret = 0
  PROVE  WrittenOk(r.fdt) /\ Unwritten(r.fdt) /\ r.fdt.totalsize = bufsize
<1>1. bufsize >= HEADER_SIZE
  BY SizesAssumption DEF fdt_create, Result, NOSPACE
<1>2. r.fdt = [magic |-> "SW",
               mem |-> [a \in 0 .. bufsize - 1 |-> Zero],
               totalsize |-> bufsize,
               off_mem_rsvmap |-> FirstReservation,
               off_dt_struct |-> FirstReservation,
               size_dt_struct |-> 0,
               off_dt_strings |-> bufsize,
               size_dt_strings |-> 0,
               boot_cpuid_phys |-> 0]
  BY <1>1, SizesAssumption DEF fdt_create, Result
<1>. QED
  BY <1>2, FirstReservationIs
  DEF WrittenOk, IsBlob, BlobFields, Covered, Unwritten

(* fdt_add_reservemap_entry writes one entry, while there is neither       *)
(* structure nor string.                                                   *)
LEMMA AddReservemapEntryIs ==
  ASSUME NEW b, WrittenOk(b), NEW address, NEW size,
         NEW r, r = fdt_add_reservemap_entry(b, address, size)
  PROVE  /\ WrittenOk(r.fdt)
         /\ r.fdt.totalsize = b.totalsize
         /\ r.ret = 0 =>
              /\ r.fdt.off_dt_struct = b.off_dt_struct + RsvSize
              /\ r.fdt.size_dt_strings = 0 /\ Room(r.fdt) >= 0
              /\ DOMAIN b.mem \subseteq DOMAIN r.fdt.mem
              /\ r.fdt.mem[b.off_dt_struct + 2 * FDT_TAGSIZE][2] = size
<1> DEFINE entry == Reservation(address, size)
           p == Poke(b, b.off_dt_struct, entry)
           q == [p EXCEPT !.off_dt_struct = @ + RsvSize]
<1>1. CASE r.fdt = b /\ r.ret # 0
  BY <1>1
<1>2. CASE /\ r = Result(q, 0) /\ b.size_dt_struct = 0
           /\ ~(b.off_dt_struct + RsvSize > b.totalsize)
  <2>1. Len(entry) = RsvSize /\ entry[2 * FDT_TAGSIZE + 1] = <<"size", size>>
    BY ReservationIs
  <2> HIDE DEF entry
  <2>2. /\ DOMAIN p = BlobFields
        /\ \A f \in BlobFields \ {"mem"} : p[f] = b[f]
        /\ DOMAIN p.mem = Span(b.off_dt_struct, RsvSize) \cup DOMAIN b.mem
        /\ \A a \in Span(b.off_dt_struct, RsvSize) :
             p.mem[a] = entry[a - b.off_dt_struct + 1]
    BY PokeIs, <2>1 DEF WrittenOk, IsBlob
  <2> HIDE DEF p
  <2>3. /\ DOMAIN q = BlobFields /\ q.mem = p.mem
        /\ q.off_dt_struct = b.off_dt_struct + RsvSize
        /\ \A f \in BlobFields \ {"mem", "off_dt_struct"} : q[f] = b[f]
    BY <2>2 DEF BlobFields
  <2> HIDE DEF q
  <2>4. /\ {b.off_dt_struct, b.off_mem_rsvmap, b.totalsize} \subseteq Nat
        /\ b.off_dt_struct >= b.off_mem_rsvmap
    BY RsvSizeIs DEF WrittenOk, IsBlob
  <2>5. /\ q.size_dt_struct = 0 /\ q.size_dt_strings = 0
        /\ q.totalsize = b.totalsize /\ q.magic = "SW"
        /\ q.off_mem_rsvmap = b.off_mem_rsvmap
    BY <2>3, <1>2 DEF BlobFields, WrittenOk
  <2>6. Room(q) >= 0
    BY <2>3, <2>4, <2>5, <1>2, RsvSizeIs DEF Room, StructTop
  <2>7. IsBlob(q)
    BY <2>3, <2>4, RsvSizeIs DEF WrittenOk, IsBlob, BlobFields
  <2>8. WrittenOk(q)
    BY <2>2, <2>3, <2>4, <2>5, <2>6, <2>7, RsvSizeIs DEF WrittenOk, Covered
  <2>9. q.mem[b.off_dt_struct + 2 * FDT_TAGSIZE][2] = size
    <3> DEFINE a == b.off_dt_struct + 2 * FDT_TAGSIZE
    <3>1. /\ a \in Span(b.off_dt_struct, RsvSize)
          /\ a - b.off_dt_struct + 1 = 2 * FDT_TAGSIZE + 1
      BY <2>4, SizesAssumption DEF Span, RsvSize
    <3>. QED
      BY <3>1, <2>1, <2>2, <2>3
  <2>. QED
    BY <1>2, <2>2, <2>3, <2>5, <2>6, <2>8, <2>9 DEF Result
<1>3. (r.fdt = b /\ r.ret # 0)
        \/ /\ r = Result(q, 0) /\ b.size_dt_struct = 0
           /\ ~(b.off_dt_struct + RsvSize > b.totalsize)
  BY DEF fdt_add_reservemap_entry, SwChecked, Result, WrittenOk, BADSTATE,
         NOSPACE
<1>. QED
  BY <1>1, <1>2, <1>3

(* Each function that takes space behind the structure.                    *)
LEMMA GrabsIs ==
  ASSUME NEW b, WrittenOk(b), Room(b) >= 0,
         b.off_dt_struct >= b.off_mem_rsvmap + RsvSize,
         NEW cells, Len(cells) \in Nat \ {0},
         NEW r, r = GrabSpace(b, cells)
  PROVE  /\ WrittenOk(r.fdt) /\ Room(r.fdt) >= 0
         /\ r.fdt.off_dt_struct = b.off_dt_struct
         /\ r.fdt.off_mem_rsvmap = b.off_mem_rsvmap
<1>1. /\ IsBlob(r.fdt) /\ Room(r.fdt) >= 0
      /\ r.ret \in {0, NOSPACE}
      /\ r.ret # 0 => r.fdt = b
      /\ r.ret = 0 => r.fdt.size_dt_struct = b.size_dt_struct + Len(cells)
      /\ \A f \in BlobFields \ {"mem", "size_dt_struct"} : r.fdt[f] = b[f]
      /\ DOMAIN b.mem \subseteq DOMAIN r.fdt.mem
  BY GrabSpaceIs DEF WrittenOk
<1>2. CASE r.ret # 0
  BY <1>1, <1>2
<1>3. CASE r.ret = 0
  <2>1. r.fdt.size_dt_struct # 0
    BY <1>1, <1>3 DEF WrittenOk, IsBlob
  <2>2. /\ r.fdt.magic = b.magic /\ r.fdt.totalsize = b.totalsize
        /\ r.fdt.off_mem_rsvmap = b.off_mem_rsvmap
        /\ r.fdt.off_dt_struct = b.off_dt_struct
    BY <1>1 DEF BlobFields
  <2>. QED
    BY <1>1, <2>1, <2>2 DEF WrittenOk, Covered
<1>. QED
  BY <1>2, <1>3

(* The beginning of a node takes space.                                    *)
LEMMA NodeCellsAre ==
  ASSUME NEW name \in NodeNames
  PROVE  Len(Tag("BEGIN_NODE") \o NameCells(name)) \in Nat \ {0}
<1>1. IsSequence(NameCells(name)) /\ Len(NameCells(name)) \in Nat
  BY NameCellsAre
<1>2. IsSequence(Tag("BEGIN_NODE")) /\ Len(Tag("BEGIN_NODE")) = FDT_TAGSIZE
  BY WordIs DEF Tag
<1>. QED
  BY <1>1, <1>2, Joined, SizesAssumption

(* So does a property, padding included.                                   *)
LEMMA PropertyCellsAre ==
  ASSUME NEW val, Len(val) \in Nat, NEW nameoff
  PROVE  LET pad == Cells(Zero, TagAlign(Len(val)) - Len(val))
         IN  Len(Tag("PROP") \o Word("len", Len(val))
                   \o Word("nameoff", nameoff) \o Bytes(val) \o pad)
               \in Nat \ {0}
<1> DEFINE n == TagAlign(Len(val)) - Len(val)
           tag == Tag("PROP")
           len == Word("len", Len(val))
           off == Word("nameoff", nameoff)
           bytes == Bytes(val)
           pad == Cells(Zero, n)
<1>1. n \in Nat
  BY Aligned
<1> HIDE DEF n
<1>2. IsSequence(pad) /\ Len(pad) \in Nat
  BY <1>1, CellsAre
<1>3. IsSequence(bytes) /\ Len(bytes) \in Nat
  BY BytesAre
<1>4. /\ IsSequence(tag) /\ Len(tag) = FDT_TAGSIZE
      /\ IsSequence(len) /\ Len(len) = FDT_TAGSIZE
      /\ IsSequence(off) /\ Len(off) = FDT_TAGSIZE
  BY WordIs DEF Tag
<1> HIDE DEF tag, len, off, bytes, pad
<1>5. IsSequence(tag \o len) /\ Len(tag \o len) = FDT_TAGSIZE + FDT_TAGSIZE
  BY <1>4, Joined
<1>6. /\ IsSequence(tag \o len \o off)
      /\ Len(tag \o len \o off) = FDT_TAGSIZE + FDT_TAGSIZE + FDT_TAGSIZE
  BY <1>4, <1>5, Joined
<1>7. /\ IsSequence(tag \o len \o off \o bytes)
      /\ Len(tag \o len \o off \o bytes) \in Nat \ {0}
  BY <1>3, <1>6, Joined, SizesAssumption
<1>8. Len(tag \o len \o off \o bytes \o pad) \in Nat \ {0}
  BY <1>2, <1>7, Joined
<1>. QED
  BY <1>8 DEF tag, len, off, bytes, pad, n

(* So does a tag alone.                                                    *)
LEMMA TagIs ==
  ASSUME NEW t
  PROVE  Len(Tag(t)) \in Nat \ {0}
BY WordIs, SizesAssumption DEF Tag

(* A call in the caller's order, while the blob is being written.          *)
InUse(b) ==
  /\ WrittenOk(b) /\ Room(b) >= 0
  /\ b.off_dt_struct >= b.off_mem_rsvmap + RsvSize

(* fdt_begin_node.                                                         *)
LEMMA BeginNodeIs ==
  ASSUME NEW b, InUse(b), NEW name \in NodeNames
  PROVE  InUse(fdt_begin_node(b, name).fdt)
<1> DEFINE cells == Tag("BEGIN_NODE") \o NameCells(name)
<1>1. Len(cells) \in Nat \ {0}
  BY NodeCellsAre
<1>2. fdt_begin_node(b, name) = GrabSpace(b, cells)
  BY DEF fdt_begin_node, SwChecked, InUse, WrittenOk
<1> HIDE DEF cells
<1>. QED
  BY <1>1, <1>2, GrabsIs DEF InUse

(* fdt_end_node.                                                           *)
LEMMA EndNodeIs ==
  ASSUME NEW b, InUse(b)
  PROVE  InUse(fdt_end_node(b).fdt)
<1>1. fdt_end_node(b) = GrabSpace(b, Tag("END_NODE"))
  BY DEF fdt_end_node, SwChecked, InUse, WrittenOk
<1>. QED
  BY <1>1, GrabsIs, TagIs DEF InUse

(* The names of properties.                                                *)
LEMMA WritePropsAre ==
  ASSUME NEW name \in WriteProps
  PROVE  name \in PropNames /\ Len(Tails[name]) <= FirstReservation + RsvSize
BY WriteAssumption, Zenon

(* And their values, which have a length.                                  *)
LEMMA WriteValuesAre ==
  ASSUME NEW val \in WriteValues
  PROVE  val \in Seq(Nat) /\ Len(val) \in Nat
<1>1. val \in Seq(Nat)
  BY WriteAssumption, Zenon
<1>. QED
  BY <1>1

(* The name of a property is short enough to be compared without sign.     *)
LEMMA SwPropertyIs ==
  ASSUME NEW b, InUse(b), b.size_dt_struct # 0,
         NEW name \in WriteProps, NEW val \in WriteValues
  PROVE  InUse(fdt_property(b, name, val).fdt)
<1> DEFINE s     == SwFindAddString(b, name)
           pad   == Cells(Zero, TagAlign(Len(val)) - Len(val))
           cells == Tag("PROP") \o Word("len", Len(val))
                      \o Word("nameoff", s.ret) \o Bytes(val) \o pad
<1>1. Len(Tails[name]) \in Nat /\ Len(Tails[name]) <= StructTop(b)
  <2>1. Len(Tails[name]) \in Nat
    BY WritePropsAre, NamesAssumption
  <2>2. Len(Tails[name]) <= FirstReservation + RsvSize
    BY WritePropsAre
  <2>3. StructTop(b) >= FirstReservation + RsvSize
    BY FirstReservationIs, RsvSizeIs
    DEF InUse, WrittenOk, IsBlob, StructTop
  <2>4. StructTop(b) \in Int /\ FirstReservation + RsvSize \in Int
    BY FirstReservationIs, RsvSizeIs DEF InUse, WrittenOk, IsBlob, StructTop
  <2>. QED
    BY <2>1, <2>2, <2>3, <2>4
<1>2. Len(cells) \in Nat \ {0}
  BY PropertyCellsAre, WriteValuesAre
<1>3. fdt_property(b, name, val) =
        IF s.ret = 0 THEN Result(b, NOSPACE) ELSE GrabSpace(s.fdt, cells)
  BY DEF fdt_property, SwChecked, InUse, WrittenOk
<1> HIDE DEF s, cells
<1>4. /\ IsBlob(s.fdt) /\ Room(s.fdt) >= 0
      /\ \A f \in BlobFields \ {"mem", "size_dt_strings"} : s.fdt[f] = b[f]
      /\ DOMAIN b.mem \subseteq DOMAIN s.fdt.mem
  BY <1>1, SwFindAddStringIs DEF InUse, WrittenOk, s
<1>5. InUse(s.fdt)
  <2>1. /\ s.fdt.magic = b.magic /\ s.fdt.totalsize = b.totalsize
        /\ s.fdt.off_mem_rsvmap = b.off_mem_rsvmap
        /\ s.fdt.off_dt_struct = b.off_dt_struct
        /\ s.fdt.size_dt_struct = b.size_dt_struct
    BY <1>4 DEF BlobFields
  <2>. QED
    BY <1>4, <2>1 DEF InUse, WrittenOk, Covered
<1>6. InUse(GrabSpace(s.fdt, cells).fdt)
  BY <1>2, <1>5, GrabsIs DEF InUse
<1>. QED
  BY <1>3, <1>6 DEF Result

(* fdt_finish, whatever the walk that corrects the offsets of names finds. *)
LEMMA FinishIs ==
  ASSUME NEW b, InUse(b), NEW r, r = fdt_finish(b)
  PROVE  \/ InUse(r.fdt)
         \/ /\ FinishedOk(r.fdt)
            /\ r.fdt.off_mem_rsvmap = b.off_mem_rsvmap
            /\ r.fdt.size_dt_strings = b.size_dt_strings
            /\ DOMAIN b.mem \subseteq DOMAIN r.fdt.mem
<1> DEFINE g     == GrabSpace(b, Tag("END"))
           moved == MoveStrings(g.fdt)
           tags  == TagOffsets(moved)
           named == CorrectNames(moved, tags)
           stop  == IF tags = <<>> THEN 0 ELSE NextTag(moved, Last(tags)).next
           next  == NextTag(moved, stop).next
           done  == [named EXCEPT !.totalsize = DataSize(named),
                                  !.magic = "FDT"]
<1>1. r = IF g.ret # 0 THEN g
          ELSE IF next < 0 THEN Result(named, next) ELSE Result(done, 0)
  BY DEF fdt_finish, SwChecked, InUse, WrittenOk
<1> HIDE DEF g
<1>2. /\ InUse(g.fdt)
      /\ \A f \in BlobFields \ {"mem", "size_dt_struct"} : g.fdt[f] = b[f]
      /\ DOMAIN b.mem \subseteq DOMAIN g.fdt.mem
  <2>1. InUse(g.fdt)
    BY GrabsIs, TagIs DEF InUse, g
  <2>2. IsBlob(b) /\ Room(b) >= 0 /\ Len(Tag("END")) \in Nat
    BY TagIs DEF InUse, WrittenOk
  <2>. QED
    BY <2>1, <2>2, GrabSpaceIs DEF g
<1>3. /\ DOMAIN moved = BlobFields
      /\ \A f \in BlobFields \ {"mem", "off_dt_strings"} : moved[f] = g.fdt[f]
      /\ moved.off_dt_strings = StructTop(g.fdt)
      /\ DOMAIN g.fdt.mem \subseteq DOMAIN moved.mem
  <2>1. DOMAIN g.fdt = BlobFields
    BY <1>2 DEF InUse, WrittenOk, IsBlob
  <2> DEFINE m == Memmove(g.fdt.mem, StructTop(g.fdt),
                          g.fdt.totalsize - g.fdt.size_dt_strings,
                          g.fdt.size_dt_strings)
  <2>2. moved = [g.fdt EXCEPT !.mem = m, !.off_dt_strings = StructTop(g.fdt)]
    BY DEF MoveStrings
  <2>3. DOMAIN g.fdt.mem \subseteq DOMAIN m
    BY DEF Memmove
  <2> HIDE DEF m, moved
  <2>. QED
    BY <2>1, <2>2, <2>3 DEF BlobFields
<1> HIDE DEF moved, tags
<1>4. /\ DOMAIN named = BlobFields
      /\ \A f \in BlobFields \ {"mem"} : named[f] = moved[f]
      /\ DOMAIN named.mem = DOMAIN moved.mem
  BY <1>3 DEF CorrectNames, BlobFields
<1> HIDE DEF named, next
<1>5. /\ named.magic = "SW" /\ named.totalsize = g.fdt.totalsize
      /\ named.off_mem_rsvmap = g.fdt.off_mem_rsvmap
      /\ named.off_dt_struct = g.fdt.off_dt_struct
      /\ named.size_dt_struct = g.fdt.size_dt_struct
      /\ named.size_dt_strings = g.fdt.size_dt_strings
      /\ named.off_dt_strings = StructTop(g.fdt)
      /\ DOMAIN g.fdt.mem \subseteq DOMAIN named.mem
  BY <1>2, <1>3, <1>4 DEF BlobFields, InUse, WrittenOk
<1>6. {g.fdt.totalsize, g.fdt.off_mem_rsvmap, g.fdt.off_dt_struct,
       g.fdt.size_dt_struct, g.fdt.size_dt_strings} \subseteq Nat
  BY <1>2 DEF InUse, WrittenOk, IsBlob
<1>7. IsBlob(named)
  BY <1>4, <1>5, <1>6 DEF IsBlob, StructTop
<1>8. InUse(named)
  BY <1>2, <1>5, <1>7 DEF InUse, WrittenOk, Covered, Room, StructTop
<1>9. /\ DOMAIN done = BlobFields /\ done.mem = named.mem
      /\ done.totalsize = DataSize(named) /\ done.magic = "FDT"
      /\ \A f \in BlobFields \ {"magic", "totalsize"} : done[f] = named[f]
  BY <1>4 DEF BlobFields
<1> HIDE DEF done
<1>10. FinishedOk(done)
  <2>1. /\ done.off_mem_rsvmap = named.off_mem_rsvmap
        /\ done.off_dt_struct = named.off_dt_struct
        /\ done.size_dt_struct = named.size_dt_struct
        /\ done.size_dt_strings = named.size_dt_strings
        /\ done.off_dt_strings = named.off_dt_strings
    BY <1>9 DEF BlobFields
  <2>2. done.totalsize \in Nat /\ done.totalsize <= named.totalsize
    BY <1>5, <1>6, <1>8, <1>9 DEF InUse, Room, DataSize, StructTop
  <2>3. IsBlob(done)
    BY <1>7, <1>9, <2>1, <2>2 DEF IsBlob
  <2>4. Covered(done)
    BY <1>6, <1>5, <1>8, <1>9, <2>2 DEF InUse, WrittenOk, Covered
  <2>5. BlocksInside(done)
    BY <1>5, <1>6, <1>9, <2>1 DEF BlocksInside, DataSize, StructTop
  <2>. QED
    BY <1>9, <2>3, <2>4, <2>5 DEF FinishedOk
<1>11. /\ done.off_mem_rsvmap = b.off_mem_rsvmap
       /\ done.size_dt_strings = b.size_dt_strings
       /\ DOMAIN b.mem \subseteq DOMAIN done.mem
  BY <1>2, <1>5, <1>9 DEF BlobFields
<1>. QED
  BY <1>1, <1>2, <1>8, <1>10, <1>11 DEF Result

(* fdt_move takes a blob as it is to another buffer, or fails.             *)
LEMMA MoveIs ==
  ASSUME NEW b, WrittenOk(b) \/ FinishedOk(b), NEW bufsize \in Nat,
         NEW r, r = fdt_move(b, bufsize)
  PROVE  WrittenOk(r.fdt) \/ FinishedOk(r.fdt)
<1> DEFINE Moved(a) == IF a < b.totalsize THEN b.mem[a] ELSE Junk
           q == [b EXCEPT !.mem = [a \in 0 .. bufsize - 1 |-> Moved(a)]]
<1>1. CASE r.fdt = b
  BY <1>1
<1>2. CASE r.fdt = q /\ ~(b.totalsize > bufsize)
  <2>1. b.totalsize \in Nat /\ DOMAIN b = BlobFields
    BY DEF WrittenOk, FinishedOk, IsBlob
  <2>2. /\ DOMAIN q = BlobFields /\ DOMAIN q.mem = 0 .. bufsize - 1
        /\ \A f \in BlobFields \ {"mem"} : q[f] = b[f]
    BY <2>1 DEF BlobFields
  <2> HIDE DEF q
  <2>3. /\ q.totalsize = b.totalsize /\ q.magic = b.magic
        /\ q.off_mem_rsvmap = b.off_mem_rsvmap
        /\ q.off_dt_struct = b.off_dt_struct
        /\ q.size_dt_struct = b.size_dt_struct
        /\ q.size_dt_strings = b.size_dt_strings
        /\ q.off_dt_strings = b.off_dt_strings
    BY <2>2 DEF BlobFields
  <2>4. Covered(q)
    BY <1>2, <2>1, <2>2, <2>3 DEF Covered
  <2>. QED
    BY <1>2, <2>2, <2>3, <2>4
    DEF WrittenOk, FinishedOk, IsBlob, Room, Unwritten, BlocksInside,
        StructTop, DataSize
<1>. QED
  BY <1>1, <1>2 DEF fdt_move, Result

-----------------------------------------------------------------------------
(* fdt_create_empty_tree: the calls of a caller in order.                  *)

(* The blob between them: it has the one entry that ends the map.          *)
EmptyMapped(b) ==
  /\ InUse(b) /\ b.size_dt_strings = 0
  /\ b.mem[FirstReservation + 2 * FDT_TAGSIZE][2] = 0
  /\ b.off_dt_struct = FirstReservation + RsvSize

(* In the calls of fdt_create_empty_tree the blob keeps its map and its    *)
(* size.                                                                   *)
LEMMA EmptyGrabs ==
  ASSUME NEW b, EmptyMapped(b), NEW cells, Len(cells) \in Nat \ {0},
         NEW r, r = GrabSpace(b, cells)
  PROVE  EmptyMapped(r.fdt) /\ r.fdt.totalsize = b.totalsize
<1> DEFINE a == FirstReservation + 2 * FDT_TAGSIZE
<1>1. /\ IsBlob(b) /\ Room(b) >= 0 /\ Covered(b)
      /\ b.off_dt_struct = FirstReservation + RsvSize
  BY DEF EmptyMapped, InUse, WrittenOk
<1>2. /\ \A f \in BlobFields \ {"mem", "size_dt_struct"} : r.fdt[f] = b[f]
      /\ \A x \in Int : x \in DOMAIN b.mem /\ x < StructTop(b) =>
           r.fdt.mem[x] = b.mem[x]
  BY <1>1, GrabSpaceIs
<1>3. a \in Int /\ a < StructTop(b) /\ a \in 0 .. b.totalsize - 1
  <2>1. FDT_TAGSIZE \in Nat \ {0} /\ FirstReservation \in Nat
    BY FirstReservationIs, SizesAssumption
  <2>2. /\ b.size_dt_struct \in Nat /\ b.totalsize \in Nat
        /\ b.size_dt_strings \in Nat
    BY <1>1 DEF IsBlob
  <2>. QED
    BY <1>1, <2>1, <2>2 DEF Room, StructTop, RsvSize
<1>4. r.fdt.mem[a] = b.mem[a]
  BY <1>1, <1>2, <1>3 DEF Covered
<1>5. InUse(r.fdt) /\ r.fdt.off_dt_struct = b.off_dt_struct
  BY GrabsIs DEF EmptyMapped, InUse
<1>6. /\ r.fdt.size_dt_strings = b.size_dt_strings
      /\ r.fdt.totalsize = b.totalsize
  BY <1>2 DEF BlobFields
<1>. QED
  BY <1>4, <1>5, <1>6 DEF EmptyMapped

(* There is no name whose offset is corrected by more than 0.              *)
LEMMA EmptyFinish ==
  ASSUME NEW b, EmptyMapped(b), NEW r, r = fdt_finish(b), r.ret = 0
  PROVE  FinishedOk(r.fdt) /\ MapSize(r.fdt) \in Nat
           /\ DOMAIN b.mem \subseteq DOMAIN r.fdt.mem
<1> DEFINE g     == GrabSpace(b, Tag("END"))
           moved == MoveStrings(g.fdt)
           tags  == TagOffsets(moved)
           named == CorrectNames(moved, tags)
           stop  == IF tags = <<>> THEN 0 ELSE NextTag(moved, Last(tags)).next
           next  == NextTag(moved, stop).next
           done  == [named EXCEPT !.totalsize = DataSize(named),
                                  !.magic = "FDT"]
           a     == FirstReservation + 2 * FDT_TAGSIZE
<1>1. r = IF g.ret # 0 THEN g
          ELSE IF next < 0 THEN Result(named, next) ELSE Result(done, 0)
  BY DEF fdt_finish, SwChecked, EmptyMapped, InUse, WrittenOk
<1> HIDE DEF g
<1>2. EmptyMapped(g.fdt)
  BY EmptyGrabs, TagIs DEF g
<1>3. /\ DOMAIN g.fdt = BlobFields /\ a \in DOMAIN g.fdt.mem
      /\ g.fdt.mem[a][2] = 0 /\ g.fdt.size_dt_strings = 0
      /\ StructTop(g.fdt) \in Int
  <2>1. /\ a \in 0 .. g.fdt.totalsize - 1 /\ StructTop(g.fdt) \in Int
    <3>1. FDT_TAGSIZE \in Nat \ {0} /\ FirstReservation \in Nat
      BY FirstReservationIs, SizesAssumption
    <3>2. /\ g.fdt.size_dt_struct \in Nat /\ g.fdt.totalsize \in Nat
          /\ g.fdt.size_dt_strings \in Nat /\ Room(g.fdt) >= 0
          /\ g.fdt.off_dt_struct = FirstReservation + RsvSize
      BY <1>2 DEF EmptyMapped, InUse, WrittenOk, IsBlob
    <3>. QED
      BY <3>1, <3>2 DEF Room, StructTop, RsvSize
  <2>. QED
    BY <1>2, <2>1 DEF EmptyMapped, InUse, WrittenOk, IsBlob, Covered
<1>4. /\ DOMAIN moved = BlobFields /\ a \in DOMAIN moved.mem
      /\ moved.mem[a][2] = 0 /\ moved.size_dt_strings = 0
  <2> DEFINE m == Memmove(g.fdt.mem, StructTop(g.fdt),
                          g.fdt.totalsize - g.fdt.size_dt_strings,
                          g.fdt.size_dt_strings)
  <2>1. moved = [g.fdt EXCEPT !.mem = m, !.off_dt_strings = StructTop(g.fdt)]
    BY DEF MoveStrings
  <2>2. Span(StructTop(g.fdt), g.fdt.size_dt_strings) = {}
    BY <1>3 DEF Span
  <2>3. a \in DOMAIN m /\ m[a] = g.fdt.mem[a]
    BY <1>3, <2>2 DEF Memmove
  <2> HIDE DEF m, moved, a
  <2>. QED
    BY <1>3, <2>1, <2>3 DEF BlobFields
<1> HIDE DEF moved, tags
<1>5. DOMAIN named = BlobFields /\ named.mem[a][2] = 0
  <2> DEFINE props == {o \in Range(tags) : NextTag(moved, o).tag = "PROP"}
             names == {moved.off_dt_struct + o + 2 * FDT_TAGSIZE : o \in props}
             mem   == [x \in DOMAIN moved.mem |->
                         IF x \in names
                           THEN <<"nameoff",
                                  moved.mem[x][2] + moved.size_dt_strings>>
                         ELSE moved.mem[x]]
  <2>1. named = [moved EXCEPT !.mem = mem]
    BY DEF CorrectNames
  <2> HIDE DEF names
  <2>2. mem[a] = <<"nameoff", 0 + 0>> \/ mem[a] = moved.mem[a]
    BY <1>4
  <2> HIDE DEF mem, named, a
  <2>3. DOMAIN named = BlobFields /\ named.mem = mem
    BY <1>4, <2>1 DEF BlobFields
  <2>. QED
    BY <1>4, <2>2, <2>3
<1> HIDE DEF named, next
<1>6. done.mem = named.mem
  BY <1>5 DEF BlobFields
<1>7. \/ InUse(r.fdt)
      \/ /\ FinishedOk(r.fdt)
         /\ r.fdt.off_mem_rsvmap = b.off_mem_rsvmap
         /\ DOMAIN b.mem \subseteq DOMAIN r.fdt.mem
  BY FinishIs DEF EmptyMapped
<1>8. CASE InUse(r.fdt)
  <2>1. r.fdt.magic = "SW"
    BY <1>8 DEF InUse, WrittenOk
  <2>2. done.magic = "FDT"
    BY <1>5 DEF BlobFields
  <2>. QED
    BY <1>1, <2>1, <2>2 DEF Result
<1>9. CASE FinishedOk(r.fdt) /\ r.fdt.off_mem_rsvmap = b.off_mem_rsvmap
  <2>1. r.fdt = done
    <3>1. named.magic # "FDT" /\ g.fdt.magic # "FDT"
      <4>1. g.fdt.magic = "SW"
        BY <1>2 DEF EmptyMapped, InUse, WrittenOk
      <4>2. moved.magic = "SW"
        BY <1>3, <4>1 DEF moved, MoveStrings, BlobFields
      <4>. QED
        BY <1>4, <4>1, <4>2 DEF named, CorrectNames, BlobFields
    <3>. QED
      BY <1>1, <1>9, <3>1 DEF FinishedOk, Result
  <2>2. r.fdt.off_mem_rsvmap = FirstReservation
    BY <1>9 DEF EmptyMapped, InUse, WrittenOk
  <2>3. RsvSizeAt(r.fdt, 0) = 0
    <3>1. FirstReservation + 0 * RsvSize + 2 * FDT_TAGSIZE = a
      BY FirstReservationIs, RsvSizeIs, SizesAssumption
    <3>. QED
      BY <1>5, <1>6, <2>1, <2>2, <3>1 DEF RsvSizeAt
  <2>4. NumMemRsv(r.fdt) = 0
    BY <2>3, CountsReservations
  <2>5. MapSize(r.fdt) \in Nat
    BY <2>4, RsvSizeIs DEF MapSize
  <2>. QED
    BY <1>7, <1>9, <2>5 DEF FinishedOk, InUse, WrittenOk
<1>. QED
  BY <1>7, <1>8, <1>9

(* fdt_open_into leaves a blob that is finished.                           *)
LEMMA OpenIntoIs ==
  ASSUME NEW b, FinishedOk(b), MapSize(b) \in Nat,
         NEW bufsize \in Nat, 0 .. bufsize - 1 \subseteq DOMAIN b.mem,
         NEW r \in fdt_open_into(b, bufsize), r.ret = 0
  PROVE  FinishedOk(r.fdt)
<1>1. /\ IsBlob(b) /\ b.magic = "FDT" /\ BlocksInside(b)
      /\ {b.totalsize, b.off_mem_rsvmap, b.off_dt_struct, b.size_dt_struct,
          b.off_dt_strings, b.size_dt_strings} \subseteq Nat
  BY DEF FinishedOk, IsBlob
<1>2. CASE ~Misordered(b, MapSize(b))
  <2> DEFINE q == [b EXCEPT !.totalsize = bufsize]
  <2>1. r.fdt = q /\ b.totalsize <= bufsize
    BY <1>1, <1>2 DEF fdt_open_into, Result, NOSPACE
  <2>2. /\ DOMAIN q = BlobFields /\ q.totalsize = bufsize
        /\ \A f \in BlobFields \ {"totalsize"} : q[f] = b[f]
    BY <1>1 DEF IsBlob, BlobFields
  <2> HIDE DEF q
  <2>3. /\ q.magic = b.magic /\ q.mem = b.mem
        /\ q.off_mem_rsvmap = b.off_mem_rsvmap
        /\ q.off_dt_struct = b.off_dt_struct
        /\ q.size_dt_struct = b.size_dt_struct
        /\ q.size_dt_strings = b.size_dt_strings
        /\ q.off_dt_strings = b.off_dt_strings
    BY <2>2 DEF BlobFields
  <2>. QED
    BY <1>1, <2>1, <2>2, <2>3
    DEF FinishedOk, IsBlob, Covered, BlocksInside, StructTop, DataSize
<1>3. CASE Misordered(b, MapSize(b))
  <2> DEFINE packed == PackBlocks(b, b.totalsize)
             mem    == Memmove(packed.mem, 0, b.totalsize, PackedSize(b))
             Q(id)  == [packed EXCEPT !.mem = mem, !.totalsize = bufsize,
                                      !.boot_cpuid_phys = id]
  <2>1. /\ PackedSize(b) \in Nat /\ b.totalsize + PackedSize(b) <= bufsize
        /\ \E id \in CpuIds : r.fdt = Q(id)
    <3>1. PackedSize(b) \in Nat
      BY <1>1, SizesAssumption DEF PackedSize
    <3>2. fdt_open_into(b, bufsize) =
            IF b.totalsize + PackedSize(b) > bufsize
              THEN {Result(b, NOSPACE)}
            ELSE {Result(Q(id), 0) : id \in CpuIds}
      BY <1>3 DEF fdt_open_into
    <3> HIDE DEF Q
    <3>3. Result(b, NOSPACE).ret # 0
      BY DEF Result, NOSPACE
    <3>4. ~(b.totalsize + PackedSize(b) > bufsize)
      BY <3>2, <3>3
    <3>5. PICK id \in CpuIds : r = Result(Q(id), 0)
      BY <3>2, <3>4
    <3>6. r.fdt = Q(id)
      BY <3>5 DEF Result
    <3>. QED
      BY <1>1, <3>1, <3>4, <3>6
  <2>2. PICK id \in CpuIds : r.fdt = Q(id)
    BY <2>1
  <2>3. /\ DOMAIN packed = BlobFields
        /\ packed.off_mem_rsvmap = HEADER_SIZE
        /\ packed.off_dt_struct = HEADER_SIZE + MapSize(b)
        /\ packed.off_dt_strings = HEADER_SIZE + MapSize(b) + b.size_dt_struct
        /\ packed.size_dt_struct = b.size_dt_struct
        /\ packed.size_dt_strings = b.size_dt_strings
        /\ packed.magic = b.magic
        /\ DOMAIN b.mem \subseteq DOMAIN packed.mem
    BY <1>1, PackBlocksIs DEF IsBlob
  <2> HIDE DEF packed
  <2>4. DOMAIN packed.mem \subseteq DOMAIN mem
    BY DEF Memmove
  <2> HIDE DEF mem
  <2>5. /\ DOMAIN r.fdt = BlobFields /\ r.fdt.mem = mem
        /\ r.fdt.totalsize = bufsize /\ r.fdt.magic = packed.magic
        /\ r.fdt.off_mem_rsvmap = packed.off_mem_rsvmap
        /\ r.fdt.off_dt_struct = packed.off_dt_struct
        /\ r.fdt.off_dt_strings = packed.off_dt_strings
        /\ r.fdt.size_dt_struct = packed.size_dt_struct
        /\ r.fdt.size_dt_strings = packed.size_dt_strings
    BY <2>2, <2>3 DEF BlobFields
  <2>6. IsBlob(r.fdt)
    BY <1>1, <2>3, <2>5, SizesAssumption DEF IsBlob
  <2>7. BlocksInside(r.fdt)
    BY <1>1, <2>1, <2>3, <2>5, SizesAssumption
    DEF BlocksInside, StructTop, DataSize, PackedSize
  <2>. QED
    BY <1>1, <2>3, <2>4, <2>5, <2>6, <2>7 DEF FinishedOk, Covered
<1>. QED
  BY <1>2, <1>3

(* fdt_finish_reservemap ends the map with an entry of size 0.             *)
LEMMA FinishReservemapIs ==
  ASSUME NEW b, WrittenOk(b), NEW r, r = fdt_finish_reservemap(b)
  PROVE  /\ WrittenOk(r.fdt)
         /\ r.fdt.totalsize = b.totalsize
         /\ r.ret = 0 =>
              /\ r.fdt.off_dt_struct = b.off_dt_struct + RsvSize
              /\ r.fdt.size_dt_strings = 0 /\ Room(r.fdt) >= 0
              /\ r.fdt.mem[b.off_dt_struct + 2 * FDT_TAGSIZE][2] = 0
BY AddReservemapEntryIs DEF fdt_finish_reservemap

(* One call after the other.                                               *)
LEMMA CreateEmptyTreeIs ==
  ASSUME NEW old, NEW bufsize \in Nat,
         NEW r \in fdt_create_empty_tree(old, bufsize), r.ret = 0
  PROVE  FinishedOk(r.fdt)
<1> DEFINE Ok(q) == EmptyMapped(q.fdt) /\ q.fdt.totalsize = bufsize
           created == fdt_create(old, bufsize)
           mapped == Then({created}, LAMBDA b : {fdt_finish_reservemap(b)})
           begun  == Then(mapped, LAMBDA b : {fdt_begin_node(b, "")})
           ended  == Then(begun, LAMBDA b : {fdt_end_node(b)})
           done   == Then(ended, LAMBDA b : {fdt_finish(b)})
<1>1. ASSUME NEW q \in mapped, q.ret = 0  PROVE Ok(q)
  <2>1. created.ret = 0 /\ q = fdt_finish_reservemap(created.fdt)
    BY <1>1 DEF Then
  <2> DEFINE b == created.fdt
  <2>2. WrittenOk(b) /\ Unwritten(b) /\ b.totalsize = bufsize
    BY <2>1, CreateIs
  <2>3. /\ b.off_dt_struct = FirstReservation
        /\ b.off_mem_rsvmap = FirstReservation
    BY <2>2 DEF WrittenOk, Unwritten
  <2> HIDE DEF created, mapped
  <2>5. /\ WrittenOk(q.fdt) /\ q.fdt.totalsize = b.totalsize
        /\ q.fdt.off_dt_struct = b.off_dt_struct + RsvSize
        /\ q.fdt.size_dt_strings = 0 /\ Room(q.fdt) >= 0
        /\ q.fdt.mem[b.off_dt_struct + 2 * FDT_TAGSIZE][2] = 0
    BY <1>1, <2>1, <2>2, FinishReservemapIs
  <2>6. q.fdt.off_mem_rsvmap = FirstReservation
    BY <2>5 DEF WrittenOk
  <2>7. q.fdt.off_dt_struct >= q.fdt.off_mem_rsvmap + RsvSize
    BY <2>3, <2>5, <2>6, FirstReservationIs, RsvSizeIs
  <2>. QED
    BY <2>2, <2>3, <2>5, <2>7 DEF EmptyMapped, InUse
<1> HIDE DEF mapped
<1>2. ASSUME NEW q \in begun, q.ret = 0  PROVE Ok(q)
  <2>1. PICK p \in mapped : p.ret = 0 /\ q = fdt_begin_node(p.fdt, "")
    BY <1>2 DEF Then
  <2> DEFINE cells == Tag("BEGIN_NODE") \o NameCells("")
  <2>2. Len(cells) \in Nat \ {0}
    BY NodeCellsAre, WriteAssumption
  <2>3. Ok(p)
    BY <1>1, <2>1
  <2>4. q = GrabSpace(p.fdt, cells)
    BY <2>1, <2>3
    DEF fdt_begin_node, SwChecked, EmptyMapped, InUse, WrittenOk
  <2> HIDE DEF cells
  <2>. QED
    BY <2>2, <2>3, <2>4, EmptyGrabs
<1> HIDE DEF begun
<1>3. ASSUME NEW q \in ended, q.ret = 0  PROVE Ok(q)
  <2>1. PICK p \in begun : p.ret = 0 /\ q = fdt_end_node(p.fdt)
    BY <1>3 DEF Then
  <2>2. Ok(p)
    BY <1>2, <2>1
  <2>3. q = GrabSpace(p.fdt, Tag("END_NODE"))
    BY <2>1, <2>2
    DEF fdt_end_node, SwChecked, EmptyMapped, InUse, WrittenOk
  <2>. QED
    BY <2>2, <2>3, EmptyGrabs, TagIs
<1> HIDE DEF ended
<1>4. ASSUME NEW q \in done, q.ret = 0
      PROVE  /\ FinishedOk(q.fdt) /\ MapSize(q.fdt) \in Nat
             /\ 0 .. bufsize - 1 \subseteq DOMAIN q.fdt.mem
  <2>1. PICK p \in ended : p.ret = 0 /\ q = fdt_finish(p.fdt)
    BY <1>4 DEF Then
  <2>2. Ok(p)
    BY <1>3, <2>1
  <2>3. 0 .. bufsize - 1 \subseteq DOMAIN p.fdt.mem
    BY <2>2 DEF EmptyMapped, InUse, WrittenOk, Covered
  <2>. QED
    BY <1>4, <2>1, <2>2, <2>3, EmptyFinish
<1> HIDE DEF done
<1>5. fdt_create_empty_tree(old, bufsize)
        = Then(done, LAMBDA b : fdt_open_into(b, bufsize))
  BY DEF fdt_create_empty_tree, EmptyTree, done, ended, begun, mapped
<1>6. PICK p \in done : p.ret = 0 /\ r \in fdt_open_into(p.fdt, bufsize)
  BY <1>5 DEF Then
<1>. QED
  BY <1>4, <1>6, OpenIntoIs

-----------------------------------------------------------------------------
(* A blob without a structure says nothing: no node is open.               *)
LEMMA NothingIsOpen ==
  ASSUME NEW b, b.size_dt_struct = 0
  PROVE  Contents(b).path = Nowhere
<1> DEFINE Body(f) == [o \in WalkOffsets |->
                         LET t == NextTag(b, o)
                         IN  IF t.tag = "END" THEN <<>>
                             ELSE <<o>> \o f[t.next]]
           From == CHOOSE f : f = Body(f)
           none == [o \in WalkOffsets |-> <<>>]
<1>1. \A o \in WalkOffsets : NextTag(b, o).tag = "END"
  BY SizesAssumption DEF NextTag, WalkOffsets
<1>2. \A f : Body(f) = none
  BY <1>1
<1>3. From = none
  <2>1. none = Body(none)
    BY <1>2
  <2>2. From = Body(From)
    BY <2>1
  <2>. QED
    BY <2>2, <1>2
<1>4. TagOffsets(b) = From[0]
  BY DEF TagOffsets
<1>5. TagOffsets(b) = <<>>
  <2>1. 0 \in WalkOffsets
    BY SizesAssumption DEF WalkOffsets
  <2>. QED
    BY <1>3, <1>4, <2>1
<1>6. Len(TagOffsets(b)) = 0
  BY <1>5
<1> DEFINE tags == TagOffsets(b)
           start == [path |-> Nowhere, last |-> "", at |-> << >>,
                     tree |-> << >>, ok |-> TRUE]
           Steps(f) == [i \in 0 .. Len(tags) |->
                         IF i = 0 THEN start
                         ELSE LET before == f[i - 1]
                              IN  Read(b, before, tags[i])]
           Upto == CHOOSE f : f = Steps(f)
<1>7. Contents(b) = Upto[Len(tags)]
  BY DEF Contents
<1> HIDE DEF tags, start
<1>8. \A f : Steps(f) = [i \in {0} |-> start]
  BY <1>6 DEF tags
<1>9. Upto = [i \in {0} |-> start]
  <2> DEFINE only == [i \in {0} |-> start]
  <2>1. only = Steps(only)
    BY <1>8
  <2>2. Upto = Steps(Upto)
    BY <2>1
  <2>. QED
    BY <2>2, <1>8
<1>10. Contents(b) = start
  BY <1>6, <1>7, <1>9 DEF tags
<1>11. start.path = Nowhere
  BY DEF start
<1>. QED
  BY <1>10, <1>11

-----------------------------------------------------------------------------
(* The specification.                                                      *)

(* The magic number tells in which state the blob is.                      *)
LEMMA MagicIs ==
  ASSUME NEW b, BlobOk(b)
  PROVE  /\ b.magic = "none" => b = NoBlob
         /\ b.magic = "SW" => WrittenOk(b)
         /\ b.magic = "FDT" => FinishedOk(b)
         /\ b.magic \in {"none", "SW", "FDT"}
BY DEF BlobOk, NoBlob, WrittenOk, FinishedOk

(* There is no blob in the beginning.                                      *)
LEMMA InitIInv == Init => IInv
<1> SUFFICES ASSUME Init PROVE IInv
  OBVIOUS
<1>1. CASE fdt = NoBlob
  BY <1>1 DEF Init, IInv, BlobOk
<1>2. ASSUME NEW b \in Blobs, fdt = Finished(b)  PROVE IInv
  <2>1. /\ DOMAIN b = BlobFields \ {"magic"}
        /\ {b.totalsize, b.off_mem_rsvmap, b.off_dt_struct, b.size_dt_struct,
            b.off_dt_strings, b.size_dt_strings} \subseteq Nat
        /\ 0 .. b.totalsize - 1 \subseteq DOMAIN b.mem
        /\ BlocksInside(b)
    BY BlobsAssumption DEF BlobFields
  <2>2. /\ DOMAIN fdt = BlobFields /\ fdt.magic = "FDT"
        /\ \A f \in BlobFields \ {"magic"} : fdt[f] = b[f]
    BY <1>2, <2>1 DEF Finished, BlobFields
  <2>3. /\ fdt.mem = b.mem /\ fdt.totalsize = b.totalsize
        /\ fdt.off_mem_rsvmap = b.off_mem_rsvmap
        /\ fdt.off_dt_struct = b.off_dt_struct
        /\ fdt.size_dt_struct = b.size_dt_struct
        /\ fdt.size_dt_strings = b.size_dt_strings
        /\ fdt.off_dt_strings = b.off_dt_strings
    BY <2>2 DEF BlobFields
  <2>4. FinishedOk(fdt)
    BY <2>1, <2>2, <2>3
    DEF FinishedOk, IsBlob, Covered, BlocksInside, StructTop, DataSize
  <2>. QED
    BY <2>4 DEF Init, IInv, BlobOk
<1>. QED
  BY <1>1, <1>2 DEF Init

(* A call in order is one on a finished blob, or on one that is in use.    *)
LEMMA InOrderIs ==
  ASSUME IInv, NEW condition, InOrder(condition)
  PROVE  \/ FinishedOk(fdt)
         \/ InUse(fdt) /\ fdt.magic = "SW" /\ condition
BY MagicIs, MappedIs DEF IInv, InOrder, InUse

(* Each call leaves a blob in one of the three states.                     *)
LEMMA NextIInv == IInv /\ [Next]_vars => IInv'
<1> SUFFICES ASSUME IInv, [Next]_vars PROVE IInv'
  OBVIOUS
<1>1. ASSUME NEW c, NEW r, Returns(c, r), BlobOk(r.fdt)  PROVE IInv'
  BY <1>1 DEF Returns, IInv, BlobOk, NoBlob, WrittenOk, FinishedOk
<1>2. BlobOk(fdt) /\ view = Contents(fdt)
  BY DEF IInv
<1>3. CASE Create
  <2>1. PICK size \in BufSizes :
          fdt.magic = "none" /\ Returns(<<"create", size>>, fdt_create(fdt, size))
    BY <1>3 DEF Create
  <2>2. CASE fdt_create(fdt, size).ret = 0
    BY <1>1, <2>1, <2>2, CreateIs, WriteAssumption DEF BlobOk
  <2>3. CASE fdt_create(fdt, size).ret # 0
    <3>1. fdt_create(fdt, size).fdt = fdt
      BY <2>3 DEF fdt_create, Result
    <3>. QED
      BY <1>1, <1>2, <2>1, <3>1
  <2>. QED
    BY <2>2, <2>3
<1>4. CASE CreateEmptyTree
  <2>0. PICK size \in BufSizes :
        \E r \in fdt_create_empty_tree(fdt, size) :
          Returns(<<"create_empty_tree", size>>,
                  IF r.ret = 0 THEN r ELSE Result(NoBlob, r.ret))
    BY <1>4 DEF CreateEmptyTree
  <2>1. PICK r \in fdt_create_empty_tree(fdt, size) :
          Returns(<<"create_empty_tree", size>>,
                  IF r.ret = 0 THEN r ELSE Result(NoBlob, r.ret))
    BY <2>0
  <2>2. CASE r.ret = 0
    BY <1>1, <2>1, <2>2, CreateEmptyTreeIs, WriteAssumption DEF BlobOk
  <2>3. CASE r.ret # 0
    BY <1>1, <2>1, <2>3 DEF BlobOk, Result
  <2>. QED
    BY <2>2, <2>3
<1>5. CASE AddReservemapEntry
  <2>1. PICK address \in Addresses, size \in Sizes :
          /\ fdt.magic # "none"
          /\ Returns(<<"add_reservemap_entry", address, size>>,
                     fdt_add_reservemap_entry(fdt, address, size))
    BY <1>5 DEF AddReservemapEntry
  <2>2. BlobOk(fdt_add_reservemap_entry(fdt, address, size).fdt)
    <3>1. CASE WrittenOk(fdt)
      BY <3>1, AddReservemapEntryIs DEF BlobOk
    <3>2. CASE FinishedOk(fdt)
      BY <3>2 DEF BlobOk, FinishedOk, fdt_add_reservemap_entry, SwChecked,
                  Result
    <3>. QED
      BY <1>2, <2>1, <3>1, <3>2, MagicIs
  <2>. QED
    BY <1>1, <2>1, <2>2
<1>6. CASE FinishReservemap
  <2>1. BlobOk(fdt_finish_reservemap(fdt).fdt)
    <3>1. CASE WrittenOk(fdt)
      BY <3>1, FinishReservemapIs DEF BlobOk
    <3>2. CASE FinishedOk(fdt)
      BY <3>2 DEF BlobOk, FinishedOk, fdt_finish_reservemap,
                  fdt_add_reservemap_entry, SwChecked, Result
    <3>. QED
      BY <1>2, <1>6, <3>1, <3>2, MagicIs DEF FinishReservemap
  <2>. QED
    BY <1>1, <1>6, <2>1 DEF FinishReservemap
<1>7. CASE BeginNode
  <2>1. PICK name \in WriteNames :
          /\ InOrder(MayBegin(name))
          /\ Returns(<<"begin_node", name>>, fdt_begin_node(fdt, name))
    BY <1>7 DEF BeginNode
  <2>2. CASE InUse(fdt)
    BY <1>1, <2>1, <2>2, BeginNodeIs, WriteAssumption DEF BlobOk, InUse
  <2>3. CASE FinishedOk(fdt)
    BY <1>1, <1>2, <2>1, <2>3
    DEF FinishedOk, fdt_begin_node, SwChecked, Result
  <2>. QED
    BY <2>1, <2>2, <2>3, InOrderIs
<1>8. CASE EndNode
  <2>1. /\ InOrder(view.path # Nowhere)
        /\ Returns(<<"end_node">>, fdt_end_node(fdt))
    BY <1>8 DEF EndNode
  <2>2. CASE InUse(fdt)
    BY <1>1, <2>1, <2>2, EndNodeIs DEF BlobOk, InUse
  <2>3. CASE FinishedOk(fdt)
    BY <1>1, <1>2, <2>1, <2>3
    DEF FinishedOk, fdt_end_node, SwChecked, Result
  <2>. QED
    BY <2>1, <2>2, <2>3, InOrderIs
<1>9. CASE Property
  <2>1. PICK name \in WriteProps, val \in WriteValues :
          /\ InOrder(MayHave(name))
          /\ Returns(<<"property", name, val>>, fdt_property(fdt, name, val))
    BY <1>9 DEF Property
  <2>2. CASE InUse(fdt) /\ MayHave(name)
    <3>1. fdt.size_dt_struct # 0
      BY <1>2, <2>2, NothingIsOpen DEF MayHave
    <3>. QED
      BY <1>1, <2>1, <2>2, <3>1, SwPropertyIs DEF BlobOk, InUse
  <2>3. CASE FinishedOk(fdt)
    BY <1>1, <1>2, <2>1, <2>3
    DEF FinishedOk, fdt_property, SwChecked, Result
  <2>. QED
    BY <2>1, <2>2, <2>3, InOrderIs
<1>10. CASE Finish
  <2>1. /\ InOrder(view.path = Nowhere /\ view.tree # <<>>)
        /\ Returns(<<"finish">>, fdt_finish(fdt))
    BY <1>10 DEF Finish
  <2>2. CASE InUse(fdt)
    BY <1>1, <2>1, <2>2, FinishIs DEF BlobOk, InUse
  <2>3. CASE FinishedOk(fdt)
    BY <1>1, <1>2, <2>1, <2>3
    DEF FinishedOk, fdt_finish, SwChecked, Result
  <2>. QED
    BY <2>1, <2>2, <2>3, InOrderIs
<1>11. CASE Move
  <2>1. PICK size \in BufSizes :
          fdt.magic # "none" /\ Returns(<<"move", size>>, fdt_move(fdt, size))
    BY <1>11 DEF Move
  <2>2. WrittenOk(fdt) \/ FinishedOk(fdt)
    BY <1>2, <2>1, MagicIs
  <2>. QED
    BY <1>1, <2>1, <2>2, MoveIs, WriteAssumption DEF BlobOk
<1>12. CASE UNCHANGED vars
  BY <1>12 DEF vars, IInv, BlobOk, NoBlob, WrittenOk, FinishedOk
<1>. QED
  BY <1>3, <1>4, <1>5, <1>6, <1>7, <1>8, <1>9, <1>10, <1>11, <1>12 DEF Next

(* The structure and the strings of a blob that is written never meet,     *)
(* and lie in the blob and its buffer, also when they are moved.           *)
THEOREM BlocksStayApart == Spec => []BlocksApart
<1>1. IInv => BlocksApart
  BY MagicIs DEF IInv, BlocksApart, WrittenOk, FinishedOk, Covered
<1>. QED
  BY InitIInv, NextIInv, <1>1, PTL DEF Spec
-----------------------------------------------------------------------------
(* Walks over blobs that may still be written.                             *)

(* A tag, and what belongs to it in the block.                             *)
TagFits(b, o) ==
  /\ o \in Tags(b) /\ TagOf(b, o) \in {"BEGIN_NODE", "END_NODE", "PROP", "NOP"}
  /\ TagOf(b, o) = "BEGIN_NODE" => NodeName(b, o) \in NodeNames
  /\ TagOf(b, o) = "PROP" => PropLen(b, o) \in Nat
  /\ Following(b, o) <= b.size_dt_struct

(* Where nothing more is written yet, or the tag is that ends the block.   *)
AtEnd(b, o) ==
  \/ o = b.size_dt_struct
  \/ o \in Tags(b) /\ TagOf(b, o) = "END" /\ o + FDT_TAGSIZE = b.size_dt_struct

(* From p[0] to p[n] the tags come one behind the other, and there are no  *)
(* others.                                                                 *)
IsWalk(b, n, p) ==
  /\ n \in Nat /\ p[0] = 0
  /\ b.size_dt_struct \in Nat /\ IsMultiple(b.size_dt_struct)
  /\ \A i \in 0 .. n - 1 : TagFits(b, p[i]) /\ p[i + 1] = Following(b, p[i])
  /\ AtEnd(b, p[n])
  /\ \A t \in Tags(b) : \E i \in 0 .. n : t = p[i]

(* In front of each a reader knows what is in g.                           *)
IsRead(b, n, p, g) ==
  g[0] = Blank /\ \A i \in 0 .. n - 1 : g[i + 1] = Read(b, g[i], p[i])

IsScribe(b, n, p, g) == IsWalk(b, n, p) /\ IsRead(b, n, p, g)

(* The next tag.                                                           *)
LEMMA TagFitsIs ==
  ASSUME NEW b, b.size_dt_struct \in Nat, NEW o, TagFits(b, o)
  PROVE  /\ o \in Nat /\ IsMultiple(o) /\ o < Following(b, o)
         /\ Following(b, o) \in Nat /\ IsMultiple(Following(b, o))
         /\ Following(b, o) <= b.size_dt_struct
         /\ LengthAt(b, o) \in Nat /\ LengthAt(b, o) >= FDT_TAGSIZE
         /\ o + LengthAt(b, o) <= Following(b, o)
         /\ NextTag(b, o) = [tag |-> TagOf(b, o), next |-> Following(b, o)]
<1> DEFINE len == LengthAt(b, o)
           next == Following(b, o)
           size == b.size_dt_struct
<1>1. o \in Nat /\ IsMultiple(o) /\ Struct(b, o)[1] = "tag"
  BY DEF TagFits, Tags, IsMultiple
<1>2. len \in Nat /\ len >= FDT_TAGSIZE
  BY TagLengthIs DEF TagFits
<1>3. next = TagAlign(o + len) /\ next <= size
  BY DEF TagFits, Following, LengthAt, TagOf
<1> HIDE DEF len
<1>4. o + len \in Nat /\ o + len \in Int
  BY <1>1, <1>2
<1>5. IsMultiple(next) /\ o + len <= next /\ next \in Int
  BY <1>3, <1>4, AlignIs DEF IsMultiple
<1>6. /\ ~(o < 0) /\ ~(o + FDT_TAGSIZE > size) /\ ~(o + len > size)
      /\ next \in Nat /\ o < next
  <2> HIDE DEF next, size
  <2>1. size \in Nat
    BY DEF size
  <2>. QED
    BY <1>1, <1>2, <1>3, <1>4, <1>5, <2>1, TagSizeIs
<1>7. o + TagLength(b, o, Struct(b, o)[2]) = o + len
  BY DEF len, LengthAt, TagOf
<1>8. NextTag(b, o) = [tag |-> TagOf(b, o), next |-> next]
  <2>1. ~(o < 0 \/ o + FDT_TAGSIZE > b.size_dt_struct)
    BY <1>6
  <2>2. ~(Struct(b, o)[1] # "tag"
            \/ o + TagLength(b, o, Struct(b, o)[2]) > b.size_dt_struct)
    BY <1>1, <1>6, <1>7
  <2>3. next = TagAlign(o + TagLength(b, o, Struct(b, o)[2]))
    BY DEF Following
  <2>. QED
    BY <2>1, <2>2, <2>3 DEF NextTag, TagOf
<1>. QED
  BY <1>1, <1>2, <1>3, <1>5, <1>6, <1>8 DEF len

(* The end of a walk.                                                      *)
LEMMA WalkEnds ==
  ASSUME NEW b, NEW n, NEW p, IsWalk(b, n, p)
  PROVE  /\ p[n] \in WalkOffsets /\ NextTag(b, p[n]).tag = "END"
         /\ p[n] \in Nat /\ IsMultiple(p[n]) /\ p[n] <= b.size_dt_struct
         /\ p[n] # b.size_dt_struct =>
              NextTag(b, p[n]) = [tag |-> "END", next |-> b.size_dt_struct]
<1> DEFINE o == p[n]
<1>1. b.size_dt_struct \in Nat /\ IsMultiple(b.size_dt_struct)
  BY DEF IsWalk
<1>2. CASE o = b.size_dt_struct
  <2>1. o = b.size_dt_struct
    BY <1>2
  <2>2. o + FDT_TAGSIZE > b.size_dt_struct
    BY <1>1, <2>1, TagSizeIs
  <2>3. NextTag(b, o) = [tag |-> "END", next |-> TRUNCATED]
    BY <2>2 DEF NextTag
  <2>. QED
    BY <1>1, <1>2, <2>1, <2>3 DEF WalkOffsets, IsMultiple
<1>3. CASE o # b.size_dt_struct
  <2>1. /\ o \in Tags(b) /\ TagOf(b, o) = "END"
        /\ o + FDT_TAGSIZE = b.size_dt_struct
    BY <1>3 DEF IsWalk, AtEnd
  <2> HIDE DEF o
  <2>2. o \in Nat /\ IsMultiple(o) /\ Struct(b, o)[1] = "tag"
    BY <1>1, <2>1 DEF Tags, IsMultiple
  <2>3. TagLength(b, o, Struct(b, o)[2]) = FDT_TAGSIZE
    BY <2>1 DEF TagLength, TagOf
  <2>4. /\ ~(o < 0) /\ ~(o + FDT_TAGSIZE > b.size_dt_struct)
        /\ o <= b.size_dt_struct
    BY <1>1, <2>1, <2>2, TagSizeIs
  <2>5. TagAlign(o + FDT_TAGSIZE) = b.size_dt_struct
    BY <1>1, <2>1, AlignedStays
  <2>6. NextTag(b, o) = [tag |-> "END", next |-> b.size_dt_struct]
    BY <2>1, <2>2, <2>3, <2>4, <2>5 DEF NextTag, TagOf
  <2>. QED
    BY <1>3, <2>2, <2>4, <2>6 DEF WalkOffsets, IsMultiple, o
<1>. QED
  BY <1>2, <1>3

(* A walk goes on at a tag, or is at the end.                              *)
LEMMA WalkAhead ==
  ASSUME NEW b, NEW n, NEW p, IsWalk(b, n, p), NEW Stop,
         Stop = {o \in WalkOffsets : NextTag(b, o).tag = "END"}
  PROVE  /\ \A i \in 0 .. n - 1 : p[i] \in WalkOffsets \ Stop
         /\ \A i \in 0 .. n - 1 : NextOffset(b)[p[i]] = p[i + 1]
         /\ p[n] \in Stop /\ p[n] \in WalkOffsets
         /\ \E m : /\ b.size_dt_struct \in Nat
                   /\ Ahead(WalkOffsets, Stop, NextOffset(b), b.size_dt_struct, m)
<1> DEFINE size == b.size_dt_struct
           next == NextOffset(b)
           m == [o \in WalkOffsets |-> IF o \in 0 .. size THEN size - o ELSE 0]
<1>1. n \in Nat /\ size \in Nat
  BY DEF IsWalk
<1>2. p[n] \in WalkOffsets /\ p[n] \in Stop
  BY WalkEnds
<1>3. ASSUME NEW i \in 0 .. n - 1
      PROVE  /\ p[i] \in WalkOffsets \ Stop /\ next[p[i]] = p[i + 1]
             /\ p[i] \in Nat /\ p[i + 1] \in Nat /\ p[i] < p[i + 1]
             /\ p[i + 1] <= size /\ IsMultiple(p[i + 1])
  <2>1. TagFits(b, p[i]) /\ p[i + 1] = Following(b, p[i])
    BY DEF IsWalk
  <2>2. /\ p[i] \in Nat /\ IsMultiple(p[i]) /\ p[i] < Following(b, p[i])
        /\ Following(b, p[i]) \in Nat /\ IsMultiple(Following(b, p[i]))
        /\ Following(b, p[i]) <= size
        /\ NextTag(b, p[i]) = [tag |-> TagOf(b, p[i]), next |-> Following(b, p[i])]
    BY <1>1, <2>1, TagFitsIs
  <2>3. p[i] \in WalkOffsets
    BY <2>2 DEF WalkOffsets, IsMultiple
  <2>4. TagOf(b, p[i]) # "END"
    BY <2>1 DEF TagFits
  <2>5. NextTag(b, p[i]).tag # "END" /\ next[p[i]] = Following(b, p[i])
    BY <2>2, <2>3, <2>4 DEF NextOffset
  <2>. QED
    BY <2>1, <2>2, <2>3, <2>5
<1>4. ASSUME NEW o \in WalkOffsets \ Stop  PROVE \E i \in 0 .. n - 1 : o = p[i]
  <2>1. NextTag(b, o).tag # "END"
    OBVIOUS
  <2>2. ~(o < 0) /\ ~(o + FDT_TAGSIZE > size) /\ Struct(b, o)[1] = "tag"
    BY <2>1 DEF NextTag
  <2>3. o \in Int /\ o % FDT_TAGSIZE = 0
    BY <2>2 DEF WalkOffsets
  <2>4. o \in 0 .. size - 1
    <3> HIDE DEF size
    <3>. QED
      BY <1>1, <2>2, <2>3, TagSizeIs
  <2>5. o \in Tags(b)
    BY <2>2, <2>3, <2>4 DEF Tags
  <2>6. PICK i \in 0 .. n : o = p[i]
    BY <2>5 DEF IsWalk
  <2>7. i # n
    BY <1>2, <2>6
  <2>8. i \in 0 .. n - 1
    BY <1>1, <2>7
  <2>. QED
    BY <2>6, <2>8
<1>5. ASSUME NEW o \in WalkOffsets
      PROVE  /\ m[o] \in 0 .. size
             /\ o \notin Stop => next[o] \in WalkOffsets /\ m[next[o]] < m[o]
  <2>1. m[o] \in 0 .. size
    <3> HIDE DEF size
    <3>. QED
      BY <1>1
  <2>2. ASSUME o \notin Stop  PROVE next[o] \in WalkOffsets /\ m[next[o]] < m[o]
    <3>1. PICK i \in 0 .. n - 1 : o = p[i]
      BY <1>4, <2>2
    <3>2. /\ next[o] = p[i + 1] /\ o \in Nat /\ p[i + 1] \in Nat /\ o < p[i + 1]
          /\ p[i + 1] <= size /\ IsMultiple(p[i + 1])
      BY <1>3, <3>1
    <3>3. next[o] \in WalkOffsets
      BY <3>2 DEF WalkOffsets, IsMultiple
    <3> DEFINE q == p[i + 1]
    <3>4. q \in 0 .. size /\ o \in 0 .. size /\ size - q < size - o
      <4> HIDE DEF size, q
      <4>1. q \in Nat /\ o \in Nat /\ o < q /\ q <= size
        BY <3>2 DEF q
      <4>. QED
        BY <1>1, <4>1
    <3>5. m[next[o]] = size - q /\ m[o] = size - o
      BY <3>2, <3>3, <3>4
    <3>. QED
      BY <3>3, <3>4, <3>5
  <2>. QED
    BY <2>1, <2>2
<1>6. Ahead(WalkOffsets, Stop, next, size, m)
  <2> HIDE DEF m, next
  <2>. QED
    BY <1>5 DEF Ahead
<1>. QED
  BY <1>1, <1>2, <1>3, <1>6

(* What the walk comes by is what is listed.                               *)
LEMMA WalkIsListed ==
  ASSUME NEW b, NEW n, NEW p, IsWalk(b, n, p), NEW tags, tags = TagOffsets(b)
  PROVE  /\ Len(tags) = n /\ \A i \in 1 .. n : tags[i] = p[i - 1]
         /\ tags \in Seq(WalkOffsets)
<1> DEFINE Stop == {o \in WalkOffsets : NextTag(b, o).tag = "END"}
           next == NextOffset(b)
           Body(f) ==
             [o \in WalkOffsets |->
                LET t == NextTag(b, o)
                IN  IF t.tag = "END" THEN <<>> ELSE <<o>> \o f[t.next]]
           From == CHOOSE f : f = Body(f)
           size == b.size_dt_struct
<1>0. 0 \in WalkOffsets
  BY SizesAssumption DEF WalkOffsets
<1>1. tags = From[0]
  BY DEF TagOffsets
<1>2. ASSUME NEW f
      PROVE  Enlists(f, WalkOffsets, Stop, next) <=> f = Body(f)
  <2> DEFINE Walked == [o \in WalkOffsets |->
                          IF o \in Stop THEN <<>> ELSE <<o>> \o f[next[o]]]
  <2>1. ASSUME NEW o \in WalkOffsets  PROVE Walked[o] = Body(f)[o]
    BY DEF NextOffset
  <2>2. Walked = Body(f)
    BY <2>1
  <2>. QED
    BY <2>2 DEF Enlists
<1>3. /\ \A i \in 0 .. n - 1 : p[i] \in WalkOffsets \ Stop
      /\ \A i \in 0 .. n - 1 : next[p[i]] = p[i + 1]
      /\ p[n] \in Stop /\ p[n] \in WalkOffsets
      /\ \E m : size \in Nat /\ Ahead(WalkOffsets, Stop, next, size, m)
  BY WalkAhead
<1>4. n \in Nat /\ p[0] = 0
  BY DEF IsWalk
<1> HIDE DEF Stop, From, Body, next
<1>5. PICK m : size \in Nat /\ Ahead(WalkOffsets, Stop, next, size, m)
  BY <1>3
<1>6. \E f : f = Body(f)
  BY <1>2, <1>5, ListIsDefined
<1>7. Enlists(From, WalkOffsets, Stop, next)
  BY <1>2, <1>6 DEF From
<1>8. IsListFrom(tags, 0, WalkOffsets, Stop, next)
  BY <1>0, <1>1, <1>5, <1>7, ListIs
<1>9. /\ tags \in Seq(WalkOffsets \ Stop) /\ Len(tags) \in Nat
      /\ tags = <<>> => 0 \in Stop
      /\ tags # <<>> => tags[1] = 0 /\ next[tags[Len(tags)]] \in Stop
      /\ \A i \in 1 .. Len(tags) - 1 : tags[i + 1] = next[tags[i]]
  BY <1>8 DEF IsListFrom
<1> DEFINE k == Len(tags)
           T == {i \in 0 .. n : i < k => tags[i + 1] = p[i]}
<1>10. \A i \in 1 .. k : tags[i] \in WalkOffsets \ Stop
  BY <1>9
<1>11. (k = 0) <=> (tags = <<>>)
  BY <1>9
<1> HIDE DEF k
<1>12. k \in Nat
  BY <1>9 DEF k
<1>13. 0 \in T
  <2>1. 0 < k => tags[0 + 1] = 0
    BY <1>9, <1>11
  <2>. QED
    BY <1>4, <2>1
<1>14. ASSUME NEW i \in 0 .. n - 1, i \in T  PROVE i + 1 \in T
  <2>1. i + 1 \in 0 .. n
    BY <1>4
  <2>2. ASSUME i + 1 < k  PROVE tags[(i + 1) + 1] = p[i + 1]
    <3>1. i < k /\ i + 1 \in 1 .. k - 1
      BY <1>4, <1>12, <2>2
    <3>2. tags[i + 1] = p[i]
      BY <1>14, <3>1
    <3>3. tags[(i + 1) + 1] = next[tags[i + 1]]
      BY <1>9, <3>1 DEF k
    <3>. QED
      BY <1>3, <3>2, <3>3
  <2>. QED
    BY <2>1, <2>2
<1>15. \A i \in 0 .. n : i < k => tags[i + 1] = p[i]
  <2> HIDE DEF T
  <2>1. 0 .. n \subseteq T
    BY <1>4, <1>13, <1>14, UpTo
  <2>. QED
    BY <2>1 DEF T
<1>16. ~(n < k)
  <2> SUFFICES ASSUME n < k PROVE FALSE
    OBVIOUS
  <2>1. n \in 0 .. n /\ n + 1 \in 1 .. k
    BY <1>4, <1>12
  <2>2. tags[n + 1] = p[n]
    BY <1>15, <2>1
  <2>. QED
    BY <1>3, <1>10, <2>1, <2>2
<1>17. ~(k < n)
  <2> SUFFICES ASSUME k < n PROVE FALSE
    OBVIOUS
  <2>1. CASE k = 0
    <3>1. 0 \in 0 .. n - 1
      BY <1>4, <1>12, <2>1
    <3>2. p[0] \notin Stop
      BY <1>3, <3>1
    <3>. QED
      BY <1>4, <1>9, <1>11, <2>1, <3>2
  <2>2. CASE k # 0
    <3>1. k - 1 \in 0 .. n - 1 /\ k - 1 < k /\ (k - 1) + 1 = k /\ k \in 0 .. n - 1
          /\ k - 1 \in 0 .. n
      BY <1>4, <1>12, <2>2
    <3>2. tags[(k - 1) + 1] = p[k - 1]
      BY <1>15, <3>1
    <3>3. tags[k] = p[k - 1]
      BY <3>1, <3>2
    <3>4. next[p[k - 1]] = p[(k - 1) + 1]
      BY <1>3, <3>1
    <3>5. next[tags[k]] = p[k]
      BY <3>1, <3>3, <3>4
    <3>6. next[tags[k]] \in Stop
      BY <1>9, <1>11, <2>2 DEF k
    <3>7. p[k] \notin Stop
      BY <1>3, <3>1
    <3>. QED
      BY <3>5, <3>6, <3>7
  <2>. QED
    BY <2>1, <2>2
<1>18. k = n
  BY <1>4, <1>12, <1>16, <1>17
<1>19. ASSUME NEW i \in 1 .. n  PROVE tags[i] = p[i - 1]
  <2>1. i - 1 \in 0 .. n /\ i - 1 < k /\ (i - 1) + 1 = i
    BY <1>4, <1>18
  <2>2. tags[(i - 1) + 1] = p[i - 1]
    BY <1>15, <2>1
  <2>. QED
    BY <2>1, <2>2
<1>20. tags \in Seq(WalkOffsets)
  BY <1>9, <1>10 DEF k
<1>. QED
  BY <1>18, <1>19, <1>20 DEF k

(* What a reader knows at the end is what the blob says.                   *)
LEMMA ScribeIs ==
  ASSUME NEW b, NEW n, NEW p, NEW g, IsScribe(b, n, p, g)
  PROVE  Contents(b) = g[n]
<1> DEFINE tags == TagOffsets(b)
           Body(f) == [i \in 0 .. Len(tags) |->
                         IF i = 0 THEN Blank
                         ELSE LET before == f[i - 1]
                              IN  Read(b, before, tags[i])]
           Upto == CHOOSE f : f = Body(f)
           h == [i \in 0 .. n |-> g[i]]
<1>1. /\ Len(tags) = n /\ n \in Nat
      /\ \A i \in 1 .. n : tags[i] = p[i - 1]
  <2>1. IsWalk(b, n, p) /\ tags = TagOffsets(b)
    BY DEF IsScribe
  <2> HIDE DEF tags
  <2>2. n \in Nat
    BY <2>1 DEF IsWalk
  <2>. QED
    BY <2>1, <2>2, WalkIsListed
<1>2. Contents(b) = Upto[Len(tags)]
  BY DEF Contents, Blank
<1> HIDE DEF tags
<1>3. g[0] = Blank /\ \A i \in 0 .. n - 1 : g[i + 1] = Read(b, g[i], p[i])
  BY DEF IsScribe, IsRead
<1>4. h = Body(h)
  <2>1. ASSUME NEW i \in 0 .. n  PROVE h[i] = Body(h)[i]
    <3>1. CASE i = 0
      BY <1>1, <1>3, <3>1
    <3>2. CASE i # 0
      <4>1. i - 1 \in 0 .. n - 1 /\ i - 1 \in 0 .. n /\ (i - 1) + 1 = i /\ i \in 1 .. n
        BY <1>1, <3>2
      <4>2. g[(i - 1) + 1] = Read(b, g[i - 1], p[i - 1])
        BY <1>3, <4>1
      <4>3. Body(h)[i] = Read(b, h[i - 1], tags[i]) /\ h[i - 1] = g[i - 1]
        BY <1>1, <3>2, <4>1
      <4>4. tags[i] = p[i - 1] /\ h[i] = g[i]
        BY <1>1, <4>1
      <4>. QED
        BY <4>1, <4>2, <4>3, <4>4
    <3>. QED
      BY <3>1, <3>2
  <2>2. Body(h) = [i \in 0 .. n |-> Body(h)[i]]
    BY <1>1
  <2>. QED
    BY <2>1, <2>2
<1>5. Upto = Body(Upto)
  BY <1>4
<1> HIDE DEF Upto, h
<1> DEFINE T == {i \in 0 .. n : Upto[i] = g[i]}
<1>6. 0 \in T
  <2>1. 0 \in 0 .. n /\ Body(Upto)[0] = Blank
    BY <1>1
  <2>. QED
    BY <1>3, <1>5, <2>1
<1>7. ASSUME NEW i \in 0 .. n - 1, i \in T  PROVE i + 1 \in T
  <2>1. i + 1 \in 0 .. n /\ i + 1 # 0 /\ (i + 1) - 1 = i /\ i + 1 \in 1 .. n
    BY <1>1
  <2>2. Body(Upto)[i + 1] = Read(b, Upto[i], tags[i + 1])
    BY <1>1, <2>1
  <2>3. tags[i + 1] = p[i]
    BY <1>1, <2>1
  <2>4. Upto[i] = g[i] /\ Upto[i + 1] = Body(Upto)[i + 1]
    BY <1>5, <1>7
  <2>5. g[i + 1] = Read(b, g[i], p[i])
    BY <1>3
  <2>. QED
    BY <2>1, <2>2, <2>3, <2>4, <2>5
<1>8. Upto[n] = g[n]
  <2> HIDE DEF T
  <2>1. 0 .. n \subseteq T
    BY <1>1, <1>6, <1>7, UpTo
  <2>2. n \in T
    BY <1>1, <2>1
  <2>. QED
    BY <2>2 DEF T
<1>. QED
  BY <1>1, <1>2, <1>8

(* The tag at o says the same in both blobs.                               *)
Repeats(b, c, o) ==
  /\ Struct(c, o)[1] = "tag" /\ TagOf(c, o) = TagOf(b, o)
  /\ TagOf(b, o) = "BEGIN_NODE" => NodeName(c, o) = NodeName(b, o)
  /\ TagOf(b, o) = "PROP" =>
       /\ PropLen(c, o) = PropLen(b, o) /\ PropName(c, o) = PropName(b, o)
       /\ PropVal(c, o) = PropVal(b, o)

(* It has as much behind it, and is read the same.                         *)
LEMMA RepeatsIs ==
  ASSUME NEW b, b.size_dt_struct \in Nat, NEW o, TagFits(b, o),
         NEW c, c.size_dt_struct \in Nat, b.size_dt_struct <= c.size_dt_struct,
         Repeats(b, c, o)
  PROVE  /\ TagFits(c, o) /\ Following(c, o) = Following(b, o)
         /\ \A x : Read(c, x, o) = Read(b, x, o)
<1> DEFINE tag == TagOf(b, o)
           next == Following(b, o)
<1>1. /\ tag \in {"BEGIN_NODE", "END_NODE", "PROP", "NOP"} /\ TagOf(c, o) = tag
      /\ o \in Tags(b)
      /\ tag = "BEGIN_NODE" => NodeName(b, o) \in NodeNames
      /\ tag = "PROP" => PropLen(b, o) \in Nat
      /\ next <= b.size_dt_struct
  BY DEF TagFits, Repeats
<1>2. /\ o \in Nat /\ IsMultiple(o) /\ o < next /\ next \in Nat
      /\ NextTag(b, o) = [tag |-> tag, next |-> next]
  BY TagFitsIs
<1>3. TagLength(c, o, tag) = TagLength(b, o, tag)
  BY <1>1 DEF Repeats, TagLength
<1>4. Following(c, o) = next
  BY <1>1, <1>3 DEF Following, TagOf
<1>5. TagFits(c, o)
  <2>1. o \in 0 .. c.size_dt_struct - 1 /\ next <= c.size_dt_struct
    <3> HIDE DEF next
    <3> DEFINE s == b.size_dt_struct
               z == c.size_dt_struct
    <3>1. s \in Nat /\ z \in Nat /\ s <= z /\ next <= s /\ o < next /\ o \in Nat /\ next \in Nat
      BY <1>1, <1>2
    <3> HIDE DEF s, z
    <3>2. o \in 0 .. z - 1 /\ next <= z
      BY <3>1
    <3>. QED
      BY <3>2 DEF z
  <2>2. o \in Tags(c)
    BY <1>2, <2>1 DEF Tags, IsMultiple, Repeats
  <2>. QED
    BY <1>1, <1>4, <2>1, <2>2 DEF TagFits, Repeats
<1>6. NextTag(c, o) = [tag |-> tag, next |-> next]
  BY <1>1, <1>4, <1>5, TagFitsIs
<1>7. ASSUME NEW x  PROVE Read(c, x, o) = Read(b, x, o)
  <2> HIDE DEF tag, next
  <2>1. NextTag(c, o).tag = tag /\ NextTag(b, o).tag = tag
    BY <1>2, <1>6
  <2>2. CASE tag = "BEGIN_NODE"
    <3>1. NodeName(c, o) = NodeName(b, o)
      BY <2>2 DEF Repeats, tag
    <3>. QED
      BY <2>1, <2>2, <3>1 DEF Read
  <2>3. CASE tag = "END_NODE"
    BY <2>1, <2>3 DEF Read
  <2>4. CASE tag = "PROP"
    <3>1. /\ String(c, NameOff(c, o)) = String(b, NameOff(b, o))
          /\ PropVal(c, o) = PropVal(b, o)
      BY <2>4 DEF Repeats, tag, PropName
    <3>. QED
      BY <2>1, <2>4, <3>1 DEF Read
  <2>5. CASE tag = "NOP"
    BY <2>1, <2>5 DEF Read
  <2>. QED
    BY <1>1, <2>2, <2>3, <2>4, <2>5
<1>. QED
  BY <1>4, <1>5, <1>7

(* One who has walked up to o knows v there.                               *)
Says(b, o, v) == \E n, p, g : IsScribe(b, n, p, g) /\ p[n] = o /\ g[n] = v

(* What the blob says then, and what its tags are.                         *)
LEMMA SaysIs ==
  ASSUME NEW b, NEW o, NEW v, Says(b, o, v)
  PROVE  /\ Contents(b) = v
         /\ b.size_dt_struct \in Nat /\ IsMultiple(b.size_dt_struct)
         /\ o \in Nat /\ IsMultiple(o) /\ o <= b.size_dt_struct /\ AtEnd(b, o)
         /\ \A t \in Tags(b) : t # o => TagFits(b, t)
<1>1. PICK n, p, g : IsScribe(b, n, p, g) /\ p[n] = o /\ g[n] = v
  BY DEF Says
<1>2. IsWalk(b, n, p)
  BY <1>1 DEF IsScribe
<1>3. Contents(b) = v
  BY <1>1, ScribeIs
<1>4. /\ o \in Nat /\ IsMultiple(o) /\ o <= b.size_dt_struct
      /\ b.size_dt_struct \in Nat /\ IsMultiple(b.size_dt_struct) /\ AtEnd(b, o)
  BY <1>1, <1>2, WalkEnds DEF IsWalk
<1>5. ASSUME NEW t \in Tags(b), t # o  PROVE TagFits(b, t)
  <2>1. PICK i \in 0 .. n : t = p[i]
    BY <1>2 DEF IsWalk
  <2>2. i \in 0 .. n - 1
    BY <1>1, <1>2, <1>5, <2>1 DEF IsWalk
  <2>. QED
    BY <1>2, <2>1, <2>2 DEF IsWalk
<1>. QED
  BY <1>3, <1>4, <1>5

(* The tags in front of the end, and that it is not one of them.           *)
LEMMA EndIsLast ==
  ASSUME NEW b, NEW n, NEW p, IsWalk(b, n, p), NEW i \in 0 .. n - 1
  PROVE  p[i] \in Tags(b) /\ p[i] # p[n] /\ TagFits(b, p[i])
<1>1. TagFits(b, p[i]) /\ AtEnd(b, p[n]) /\ b.size_dt_struct \in Nat
  BY DEF IsWalk
<1>2. p[i] \in Tags(b) /\ TagOf(b, p[i]) # "END"
  BY <1>1 DEF TagFits
<1>3. p[i] # b.size_dt_struct
  BY <1>1, <1>2 DEF Tags
<1>. QED
  BY <1>1, <1>2, <1>3 DEF AtEnd

(* c repeats all tags of b and has no others than perhaps one at o.        *)
Repeated(b, c, o) ==
  /\ c.size_dt_struct \in Nat /\ IsMultiple(c.size_dt_struct)
  /\ b.size_dt_struct <= c.size_dt_struct
  /\ \A t \in Tags(b) : t # o => Repeats(b, c, t)
  /\ \A t \in Tags(c) : t = o \/ t \in Tags(b)

(* The same walk.                                                          *)
LEMMA SaysRepeated ==
  ASSUME NEW b, NEW o, NEW v, Says(b, o, v), NEW c, Repeated(b, c, o), AtEnd(c, o)
  PROVE  Says(c, o, v)
<1>1. PICK n, p, g : IsScribe(b, n, p, g) /\ p[n] = o /\ g[n] = v
  BY DEF Says
<1>2. /\ IsWalk(b, n, p) /\ n \in Nat /\ p[0] = 0 /\ b.size_dt_struct \in Nat
      /\ IsRead(b, n, p, g)
  BY <1>1 DEF IsScribe, IsWalk
<1>3. ASSUME NEW i \in 0 .. n - 1
      PROVE  /\ TagFits(c, p[i]) /\ p[i + 1] = Following(c, p[i])
             /\ g[i + 1] = Read(c, g[i], p[i])
  <2>1. p[i] \in Tags(b) /\ p[i] # o /\ TagFits(b, p[i])
    BY <1>1, <1>2, EndIsLast
  <2>2. Repeats(b, c, p[i]) /\ c.size_dt_struct \in Nat
        /\ b.size_dt_struct <= c.size_dt_struct
    BY <2>1 DEF Repeated
  <2>3. /\ TagFits(c, p[i]) /\ Following(c, p[i]) = Following(b, p[i])
        /\ Read(c, g[i], p[i]) = Read(b, g[i], p[i])
    BY <1>2, <2>1, <2>2, RepeatsIs
  <2>. QED
    BY <1>2, <2>3 DEF IsWalk, IsRead
<1>4. \A t \in Tags(c) : \E i \in 0 .. n : t = p[i]
  <2>1. n \in 0 .. n /\ \A t \in Tags(b) : \E i \in 0 .. n : t = p[i]
    BY <1>2 DEF IsWalk
  <2>. QED
    BY <1>1, <2>1 DEF Repeated
<1>5. IsWalk(c, n, p)
  BY <1>1, <1>2, <1>3, <1>4 DEF IsWalk, Repeated
<1>6. IsRead(c, n, p, g)
  BY <1>2, <1>3 DEF IsRead
<1>. QED
  BY <1>1, <1>5, <1>6 DEF Says, IsScribe

(* A walk that goes on by one tag.                                         *)
LEMMA SaysExtended ==
  ASSUME NEW b, NEW o, NEW v, Says(b, o, v), NEW c, Repeated(b, c, o),
         TagFits(c, o), Following(c, o) = c.size_dt_struct
  PROVE  Says(c, c.size_dt_struct, Read(c, v, o))
<1>1. PICK n, p, g : IsScribe(b, n, p, g) /\ p[n] = o /\ g[n] = v
  BY DEF Says
<1>2. /\ IsWalk(b, n, p) /\ n \in Nat /\ p[0] = 0 /\ b.size_dt_struct \in Nat
      /\ IsRead(b, n, p, g)
  BY <1>1 DEF IsScribe, IsWalk
<1> DEFINE z == c.size_dt_struct
           q == [i \in 0 .. n + 1 |-> IF i = n + 1 THEN z ELSE p[i]]
           h == [i \in 0 .. n + 1 |-> IF i = n + 1 THEN Read(c, v, o) ELSE g[i]]
<1>3. ASSUME NEW i \in 0 .. n - 1
      PROVE  /\ TagFits(c, p[i]) /\ p[i + 1] = Following(c, p[i])
             /\ g[i + 1] = Read(c, g[i], p[i])
  <2>1. p[i] \in Tags(b) /\ p[i] # o /\ TagFits(b, p[i])
    BY <1>1, <1>2, EndIsLast
  <2>2. Repeats(b, c, p[i]) /\ c.size_dt_struct \in Nat
        /\ b.size_dt_struct <= c.size_dt_struct
    BY <2>1 DEF Repeated
  <2>3. /\ TagFits(c, p[i]) /\ Following(c, p[i]) = Following(b, p[i])
        /\ Read(c, g[i], p[i]) = Read(b, g[i], p[i])
    BY <1>2, <2>1, <2>2, RepeatsIs
  <2>. QED
    BY <1>2, <2>3 DEF IsWalk, IsRead
<1>4. /\ q[n + 1] = z /\ h[n + 1] = Read(c, v, o)
      /\ \A i \in 0 .. n : q[i] = p[i] /\ h[i] = g[i]
  BY <1>2
<1> HIDE DEF q, h, z
<1>5. ASSUME NEW i \in 0 .. n
      PROVE  /\ TagFits(c, q[i]) /\ q[i + 1] = Following(c, q[i])
             /\ h[i + 1] = Read(c, h[i], q[i])
  <2>1. CASE i = n
    <3>1. q[i] = o /\ h[i] = v /\ q[i + 1] = z /\ h[i + 1] = Read(c, v, o)
      BY <1>1, <1>2, <1>4, <2>1
    <3>. QED
      BY <3>1 DEF z
  <2>2. CASE i # n
    <3>1. i \in 0 .. n - 1 /\ i + 1 \in 0 .. n
      BY <1>2, <2>2
    <3>. QED
      BY <1>3, <1>4, <3>1
  <2>. QED
    BY <2>1, <2>2
<1>6. ASSUME NEW t \in Tags(c)  PROVE \E i \in 0 .. n + 1 : t = q[i]
  <2>1. PICK i \in 0 .. n : t = p[i]
    <3>1. n \in 0 .. n
      BY <1>2
    <3>. QED
      BY <1>1, <1>2, <3>1 DEF Repeated, IsWalk
  <2>2. t = q[i] /\ i \in 0 .. n + 1
    BY <1>2, <1>4, <2>1
  <2>. QED
    BY <2>2
<1> DEFINE m == n + 1
<1>7. m \in Nat /\ 0 .. m - 1 = 0 .. n /\ 0 \in 0 .. n /\ m = n + 1
  BY <1>2
<1> HIDE DEF m
<1>8. IsWalk(c, m, q)
  <2>1. q[0] = 0 /\ q[m] = z
    BY <1>2, <1>4, <1>7
  <2>2. AtEnd(c, q[m])
    BY <2>1 DEF AtEnd, z
  <2>3. \A t \in Tags(c) : \E i \in 0 .. m : t = q[i]
    BY <1>6, <1>7
  <2>4. \A i \in 0 .. m - 1 : TagFits(c, q[i]) /\ q[i + 1] = Following(c, q[i])
    BY <1>5, <1>7
  <2>. QED
    BY <1>7, <2>1, <2>2, <2>3, <2>4 DEF IsWalk, Repeated
<1>9. IsRead(c, m, q, h)
  <2>1. h[0] = Blank
    BY <1>2, <1>4, <1>7 DEF IsRead
  <2>. QED
    BY <1>5, <1>7, <2>1 DEF IsRead
<1>10. q[m] = z /\ h[m] = Read(c, v, o)
  BY <1>4, <1>7
<1>. QED
  BY <1>8, <1>9, <1>10 DEF Says, IsScribe, z

(* A tag is repeated where its cells are the same and its name is.         *)
LEMMA CellsRepeat ==
  ASSUME NEW b, b.size_dt_struct \in Nat, NEW t, TagFits(b, t), NEW c,
         \A i \in 0 .. b.size_dt_struct - 1 : Struct(c, i) = Struct(b, i),
         TagOf(b, t) = "PROP" =>
           String(c, NameOff(b, t)) = String(b, NameOff(b, t))
  PROVE  /\ Repeats(b, c, t)
         /\ TagOf(b, t) = "PROP" => NameOff(c, t) = NameOff(b, t)
<1> DEFINE T == FDT_TAGSIZE
           z == b.size_dt_struct
           len == LengthAt(b, t)
           L == PropLen(b, t)
<1>1. /\ t \in Nat /\ len \in Nat /\ len >= T /\ t + len <= z /\ z \in Nat
      /\ T \in Nat /\ T > 0
  <2>1. /\ t \in Nat /\ len \in Nat /\ len >= T /\ t + len <= Following(b, t)
        /\ Following(b, t) <= z /\ Following(b, t) \in Nat
    BY TagFitsIs
  <2> DEFINE y == Following(b, t)
  <2> HIDE DEF len, z, T, y
  <2>2. z \in Nat /\ T \in Nat /\ T > 0
    BY TagSizeIs DEF z, T
  <2>3. t \in Nat /\ len \in Nat /\ len >= T /\ t + len <= y /\ y <= z /\ y \in Nat
    BY <2>1 DEF y
  <2>. QED
    BY <2>2, <2>3
<1>2. Struct(b, t)[1] = "tag"
  BY DEF TagFits, Tags
<1>3. \A i \in 0 .. z - 1 : Struct(c, i) = Struct(b, i)
  OBVIOUS
<1>4. t \in 0 .. z - 1
  <2> HIDE DEF z, len, T
  <2>. QED
    BY <1>1
<1>5. Struct(c, t) = Struct(b, t) /\ TagOf(c, t) = TagOf(b, t)
  BY <1>3, <1>4 DEF TagOf
<1>6. ASSUME TagOf(b, t) = "BEGIN_NODE"  PROVE NodeName(c, t) = NodeName(b, t)
  <2>1. len = T + NodeLength[NodeName(b, t)] + 1
    BY <1>6 DEF LengthAt, TagLength
  <2>2. NodeLength[NodeName(b, t)] \in Nat
    BY <1>6, NamesAssumption DEF TagFits
  <2> DEFINE n == NodeLength[NodeName(b, t)]
  <2>3. t + T \in 0 .. z - 1
    <3>1. n \in Nat /\ len = T + n + 1
      BY <2>1, <2>2
    <3> HIDE DEF n, len, z, T
    <3>. QED
      BY <1>1, <3>1
  <2>. QED
    BY <1>3, <2>3 DEF NodeName
<1>7. ASSUME TagOf(b, t) = "PROP"
      PROVE  /\ PropLen(c, t) = L /\ PropVal(c, t) = PropVal(b, t)
             /\ NameOff(c, t) = NameOff(b, t) /\ PropName(c, t) = PropName(b, t)
  <2>1. L \in Nat /\ len = PropHeader + L
    BY <1>7 DEF LengthAt, TagLength, TagFits
  <2>2. PropHeader = 3 * T
    BY DEF PropHeader
  <2>3. /\ t + T \in 0 .. z - 1 /\ t + 2 * T \in 0 .. z - 1
        /\ \A i \in 1 .. L : t + PropHeader + i - 1 \in 0 .. z - 1
    <3> DEFINE H == PropHeader
    <3>1. H = 3 * T /\ len = H + L /\ L \in Nat
      BY <2>1, <2>2
    <3> HIDE DEF H, z, T, len, L
    <3>2. /\ t + T \in 0 .. z - 1 /\ t + 2 * T \in 0 .. z - 1
          /\ \A i \in 1 .. L : t + H + i - 1 \in 0 .. z - 1
      BY <1>1, <3>1
    <3>. QED
      BY <3>2 DEF H
  <2>4. PropLen(c, t) = L /\ NameOff(c, t) = NameOff(b, t)
    BY <1>3, <2>3 DEF PropLen, NameOff
  <2>5. \A i \in 1 .. L : Struct(c, t + PropHeader + i - 1)
                            = Struct(b, t + PropHeader + i - 1)
    BY <1>3, <2>3
  <2>6. PropVal(c, t) = PropVal(b, t)
    <3> HIDE DEF L
    <3>1. PropLen(c, t) = L /\ PropLen(b, t) = L
      BY <2>4 DEF L
    <3>. QED
      BY <2>5, <3>1, Zenon DEF PropVal
  <2>7. PropName(c, t) = PropName(b, t)
    BY <1>7, <2>4 DEF PropName
  <2>. QED
    BY <2>4, <2>6, <2>7
<1>. QED
  BY <1>2, <1>5, <1>6, <1>7 DEF Repeats

(* What is written behind the structure, and what stays.                   *)
Grabbed(b, c, cells) ==
  /\ IsBlob(c)
  /\ \A f \in BlobFields \ {"mem", "size_dt_struct"} : c[f] = b[f]
  /\ c.size_dt_struct = b.size_dt_struct + Len(cells)
  /\ StructTop(b) + Len(cells) <= b.totalsize - b.size_dt_strings
  /\ \A i \in 1 .. Len(cells) : c.mem[StructTop(b) + (i - 1)] = cells[i]
  /\ \A a \in 0 .. b.totalsize - 1 :
       a < StructTop(b) \/ a >= StructTop(b) + Len(cells) => c.mem[a] = b.mem[a]

LEMMA GrabbedIs ==
  ASSUME NEW b, IsBlob(b), Room(b) >= 0, Covered(b), NEW cells, Len(cells) \in Nat,
         NEW r, r = GrabSpace(b, cells)
  PROVE  /\ r.ret = 0 => Grabbed(b, r.fdt, cells)
         /\ r.ret # 0 => /\ r.ret = NOSPACE /\ r.fdt = b
                         /\ Room(b) < Len(cells)
<1> DEFINE n == Len(cells)
           top == StructTop(b)
           total == b.totalsize
           names == b.size_dt_strings
           p == Poke(b, top, cells)
           q == [p EXCEPT !.size_dt_struct = @ + n]
<1>1. /\ IsBlob(r.fdt) /\ Room(r.fdt) >= 0 /\ r.ret \in {0, NOSPACE}
      /\ r.ret # 0 => r.fdt = b
      /\ r.ret = 0 => r.fdt.size_dt_struct = b.size_dt_struct + n
      /\ \A f \in BlobFields \ {"mem", "size_dt_struct"} : r.fdt[f] = b[f]
  BY GrabSpaceIs
<1>2. /\ n \in Nat /\ total \in Nat /\ names \in Nat /\ b.off_dt_struct \in Nat
      /\ b.size_dt_struct \in Nat /\ top = b.off_dt_struct + b.size_dt_struct
      /\ top \in Nat
  BY DEF IsBlob, StructTop
<1>3. CASE Below(SpaceLeft(b), b.size_dt_struct + n)
  <2>1. r = [fdt |-> b, ret |-> NOSPACE]
    BY <1>3 DEF GrabSpace, Result
  <2>2. Room(b) < n
    <3>1. total - b.off_dt_struct - names < b.size_dt_struct + n
      BY <1>3 DEF Below, SpaceLeft
    <3>2. Room(b) = total - names - top
      BY DEF Room
    <3> HIDE DEF n, total, names, top
    <3>. QED
      BY <1>2, <3>1, <3>2
  <2>. QED
    BY <2>1, <2>2 DEF NOSPACE
<1>4. CASE ~Below(SpaceLeft(b), b.size_dt_struct + n)
  <2>1. r = [fdt |-> q, ret |-> 0]
    BY <1>4 DEF GrabSpace, Result
  <2>2. /\ DOMAIN p = BlobFields
        /\ \A a \in Span(top, n) : p.mem[a] = cells[a - top + 1]
        /\ \A a \in DOMAIN b.mem \ Span(top, n) : p.mem[a] = b.mem[a]
    BY PokeIs DEF IsBlob
  <2> HIDE DEF p, n
  <2>3. r.fdt.mem = p.mem
    <3>1. DOMAIN p = BlobFields
      BY <2>2
    <3>2. q.mem = p.mem
      BY <3>1 DEF BlobFields
    <3>3. r.fdt = q
      BY <2>1
    <3> HIDE DEF q
    <3>. QED
      BY <3>2, <3>3
  <2>4. ASSUME NEW i \in 1 .. n  PROVE r.fdt.mem[top + (i - 1)] = cells[i]
    <3> HIDE DEF top
    <3>1. top \in Nat /\ n \in Nat
      BY <1>2
    <3>2. top + (i - 1) \in top .. top + n - 1 /\ (top + (i - 1)) - top + 1 = i
      BY <3>1
    <3>3. top + (i - 1) \in Span(top, n)
      BY <3>2 DEF Span
    <3>. QED
      BY <2>2, <2>3, <3>2, <3>3
  <2>5. ASSUME NEW a \in 0 .. total - 1, a < top \/ a >= top + n
        PROVE  r.fdt.mem[a] = b.mem[a]
    <3> HIDE DEF top
    <3>1. a \notin Span(top, n)
      BY <1>2, <2>5 DEF Span
    <3>2. a \in DOMAIN b.mem
      BY DEF Covered
    <3>. QED
      BY <2>2, <2>3, <3>1, <3>2
  <2>6. top + n <= total - names
    <3>1. /\ r.fdt.totalsize = total /\ r.fdt.size_dt_strings = names
          /\ r.fdt.off_dt_struct = b.off_dt_struct
      BY <1>1 DEF BlobFields
    <3>2. r.fdt.size_dt_struct = b.size_dt_struct + n
      BY <1>1, <2>1
    <3>3. total - names - (b.off_dt_struct + (b.size_dt_struct + n)) >= 0
      BY <1>1, <3>1, <3>2 DEF Room, StructTop
    <3> HIDE DEF top, total, names
    <3>. QED
      BY <1>2, <3>3
  <2>. QED
    BY <1>1, <2>1, <2>4, <2>5, <2>6 DEF Grabbed, n
<1>. QED
  BY <1>3, <1>4

(* While the blob is written the offset of a name is from its end.         *)
NameSpan(b) == -b.size_dt_strings .. -1

Named(b) ==
  \A t \in Tags(b) : TagOf(b, t) = "PROP" => NameOff(b, t) \in NameSpan(b)

(* Each string is there to its end.                                        *)
Strung(b) ==
  \A a \in b.totalsize - b.size_dt_strings .. b.totalsize - 1 :
    \A s \in PropNames :
      b.mem[a] = <<"string", s>> => a + Len(Tails[s]) <= b.totalsize

(* A blob that is being written and says v.                                *)
Writing(b, v) ==
  /\ WrittenOk(b) /\ b.off_dt_strings = b.totalsize
  /\ Says(b, b.size_dt_struct, v) /\ Named(b) /\ Strung(b)
  /\ \E k \in Nat : b.off_dt_struct = b.off_mem_rsvmap + k * RsvSize
  /\ Known \subseteq DOMAIN v /\ v.ok = TRUE
  /\ b.size_dt_struct = 0 => v = Blank
  /\ b.size_dt_struct # 0 => DOMAIN v.tree # {}

(* Where things are in it, as numbers.                                     *)
LEMMA WritingIs ==
  ASSUME NEW b, NEW v, Writing(b, v), Room(b) >= 0
  PROVE  /\ b.off_dt_struct \in Nat /\ b.size_dt_struct \in Nat
         /\ b.totalsize \in Nat /\ b.size_dt_strings \in Nat
         /\ StructTop(b) = b.off_dt_struct + b.size_dt_struct
         /\ StructTop(b) \in Nat
         /\ StructTop(b) <= b.totalsize - b.size_dt_strings
         /\ b.off_dt_strings = b.totalsize
<1> DEFINE off == b.off_dt_struct
           z == b.size_dt_struct
           total == b.totalsize
           names == b.size_dt_strings
<1>1. off \in Nat /\ z \in Nat /\ total \in Nat /\ names \in Nat
  BY DEF Writing, WrittenOk, IsBlob
<1>2. total - names - (off + z) >= 0
  BY DEF Room, StructTop
<1>3. StructTop(b) = off + z /\ b.off_dt_strings = total
  BY DEF StructTop, Writing
<1> HIDE DEF off, z, total, names
<1>4. off + z \in Nat /\ off + z <= total - names
  BY <1>1, <1>2
<1>. QED
  BY <1>1, <1>3, <1>4 DEF off, z, total, names

(* Where the cells are and what stays, by offsets.                         *)
LEMMA GrabbedStruct ==
  ASSUME NEW b, NEW v, Writing(b, v), Room(b) >= 0,
         NEW cells, Len(cells) \in Nat, NEW c, Grabbed(b, c, cells)
  PROVE  /\ c.size_dt_struct = b.size_dt_struct + Len(cells)
         /\ c.off_dt_struct = b.off_dt_struct /\ c.totalsize = b.totalsize
         /\ c.size_dt_strings = b.size_dt_strings
         /\ c.off_dt_strings = b.off_dt_strings
         /\ \A i \in 0 .. b.size_dt_struct - 1 : Struct(c, i) = Struct(b, i)
         /\ \A i \in 1 .. Len(cells) :
              Struct(c, b.size_dt_struct + (i - 1)) = cells[i]
         /\ \A a \in b.totalsize - b.size_dt_strings .. b.totalsize - 1 :
              c.mem[a] = b.mem[a]
         /\ \A o \in NameSpan(b) : String(c, o) = String(b, o)
<1> DEFINE off == b.off_dt_struct
           z == b.size_dt_struct
           total == b.totalsize
           names == b.size_dt_strings
           top == StructTop(b)
           n == Len(cells)
<1>1. /\ off \in Nat /\ z \in Nat /\ total \in Nat /\ names \in Nat
      /\ top = off + z /\ top \in Nat /\ top <= total - names
      /\ b.off_dt_strings = total /\ n \in Nat
  BY WritingIs
<1>2. /\ c.off_dt_struct = off /\ c.totalsize = total
      /\ c.size_dt_strings = names /\ c.off_dt_strings = total
      /\ c.size_dt_struct = z + n
  BY <1>1 DEF Grabbed, BlobFields
<1>3. /\ top + n <= total - names
      /\ \A i \in 1 .. n : c.mem[top + (i - 1)] = cells[i]
      /\ \A a \in 0 .. total - 1 : a < top \/ a >= top + n => c.mem[a] = b.mem[a]
  BY DEF Grabbed
<1> HIDE DEF off, z, total, names, top, n
<1>4. ASSUME NEW i \in 0 .. z - 1  PROVE c.mem[off + i] = b.mem[off + i]
  <2>1. off + i \in 0 .. total - 1 /\ off + i < top
    BY <1>1
  <2>. QED
    BY <1>3, <2>1
<1>5. ASSUME NEW i \in 1 .. n  PROVE c.mem[off + (z + (i - 1))] = cells[i]
  <2>1. off + (z + (i - 1)) = top + (i - 1)
    BY <1>1
  <2>. QED
    BY <1>3, <2>1
<1>6. ASSUME NEW a \in total - names .. total - 1  PROVE c.mem[a] = b.mem[a]
  <2>1. a \in 0 .. total - 1 /\ a >= top + n
    BY <1>1, <1>3
  <2>. QED
    BY <1>3, <2>1
<1>7. ASSUME NEW o \in -names .. -1  PROVE c.mem[total + o] = b.mem[total + o]
  <2>1. total + o \in total - names .. total - 1
    BY <1>1
  <2>. QED
    BY <1>6, <2>1
<1>8. \A i \in 0 .. z - 1 : Struct(c, i) = Struct(b, i)
  BY <1>2, <1>4 DEF Struct, off
<1>9. \A i \in 1 .. n : Struct(c, z + (i - 1)) = cells[i]
  BY <1>2, <1>5 DEF Struct, off
<1>10. \A o \in NameSpan(b) : String(c, o) = String(b, o)
  BY <1>1, <1>2, <1>7 DEF String, NameSpan, names
<1>. QED
  BY <1>1, <1>2, <1>6, <1>8, <1>9, <1>10 DEF off, z, total, names, n

(* A tag of a block of size z.                                             *)
LEMMA TagsAre ==
  ASSUME NEW b, NEW z, b.size_dt_struct = z
  PROVE  \A t : t \in Tags(b) <=>
           t \in 0 .. z - 1 /\ t % FDT_TAGSIZE = 0 /\ Struct(b, t)[1] = "tag"
BY DEF Tags

(* What is written behind the structure is one tag with what belongs to    *)
(* it: one who reads it knows that too.                                    *)
LEMMA AppendedIs ==
  ASSUME NEW b, NEW v, Writing(b, v), Room(b) >= 0,
         NEW cells, Len(cells) \in Nat, NEW c, Grabbed(b, c, cells),
         TagFits(c, b.size_dt_struct),
         Following(c, b.size_dt_struct) = c.size_dt_struct,
         TagOf(c, b.size_dt_struct) = "PROP" =>
           NameOff(c, b.size_dt_struct) \in NameSpan(b),
         \A i \in 2 .. Len(cells) : cells[i][1] # "tag"
  PROVE  /\ Says(c, c.size_dt_struct, Read(c, v, b.size_dt_struct))
         /\ Named(c) /\ Strung(c)
<1> DEFINE z == b.size_dt_struct
           n == Len(cells)
<1>1. /\ c.size_dt_struct = z + n
      /\ c.size_dt_strings = b.size_dt_strings /\ c.totalsize = b.totalsize
      /\ \A i \in 0 .. z - 1 : Struct(c, i) = Struct(b, i)
      /\ \A i \in 1 .. n : Struct(c, z + (i - 1)) = cells[i]
      /\ \A a \in b.totalsize - b.size_dt_strings .. b.totalsize - 1 :
           c.mem[a] = b.mem[a]
      /\ \A o \in NameSpan(b) : String(c, o) = String(b, o)
  BY GrabbedStruct
<1>2. /\ Says(b, z, v) /\ z \in Nat /\ IsMultiple(z)
      /\ \A t \in Tags(b) : t # z => TagFits(b, t)
  BY SaysIs DEF Writing
<1>3. n \in Nat /\ z + n \in Nat /\ z <= z + n
  <2> HIDE DEF z
  <2>. QED
    BY <1>2
<1>4. IsMultiple(c.size_dt_struct) /\ c.size_dt_struct \in Nat
  BY <1>1, <1>3, TagFitsIs
<1>5. ASSUME NEW t \in Tags(b)
      PROVE  /\ t # z /\ Repeats(b, c, t)
             /\ TagOf(c, t) = "PROP" => NameOff(c, t) \in NameSpan(b)
  <2>1. t # z
    BY <1>2 DEF Tags
  <2>2. TagFits(b, t)
    BY <1>2, <2>1
  <2>3. TagOf(b, t) = "PROP" =>
          /\ NameOff(b, t) \in NameSpan(b)
          /\ String(c, NameOff(b, t)) = String(b, NameOff(b, t))
    BY <1>1 DEF Writing, Named
  <2>4. /\ Repeats(b, c, t)
        /\ TagOf(b, t) = "PROP" => NameOff(c, t) = NameOff(b, t)
    <3>1. /\ b.size_dt_struct \in Nat
          /\ \A i \in 0 .. b.size_dt_struct - 1 : Struct(c, i) = Struct(b, i)
      BY <1>1, <1>2
    <3>2. TagOf(b, t) = "PROP" => String(c, NameOff(b, t)) = String(b, NameOff(b, t))
      BY <2>3
    <3>. QED
      BY <2>2, <3>1, <3>2, CellsRepeat
  <2>5. TagOf(c, t) = TagOf(b, t)
    BY <2>4 DEF Repeats
  <2>. QED
    BY <2>1, <2>3, <2>4, <2>5
<1>6. ASSUME NEW t \in Tags(c)  PROVE t = z \/ t \in Tags(b)
  <2>0. c.size_dt_struct = z + n
    BY <1>1
  <2>1. PICK e : /\ e = z + n
                 /\ t \in 0 .. e - 1 /\ t % FDT_TAGSIZE = 0
                 /\ Struct(c, t)[1] = "tag"
    <3> DEFINE y == c.size_dt_struct
    <3>1. t \in 0 .. y - 1 /\ t % FDT_TAGSIZE = 0 /\ Struct(c, t)[1] = "tag"
      BY DEF Tags
    <3>2. y = z + n
      BY <2>0
    <3> HIDE DEF y, z, n
    <3>. QED
      BY <3>1, <3>2, Zenon
  <2>2. CASE t < z
    <3>1. t \in 0 .. z - 1
      BY <1>2, <2>1, <2>2
    <3>2. Struct(b, t) = Struct(c, t)
      BY <1>1, <3>1
    <3>. QED
      BY <2>1, <3>1, <3>2 DEF Tags
  <2>3. ASSUME t > z  PROVE FALSE
    <3> DEFINE i == t - z + 1
    <3>1. i \in 2 .. n /\ i \in 1 .. n /\ z + (i - 1) = t
      <4> HIDE DEF z, n
      <4>. QED
        BY <1>2, <1>3, <2>1, <2>3
    <3> HIDE DEF i
    <3>2. Struct(c, t) = cells[i]
      BY <1>1, <3>1
    <3>. QED
      BY <2>1, <3>1, <3>2
  <2>. QED
    BY <1>2, <2>1, <2>2, <2>3
<1>7. Repeated(b, c, z)
  BY <1>1, <1>3, <1>4, <1>5, <1>6 DEF Repeated
<1>8. Says(c, c.size_dt_struct, Read(c, v, z))
  BY <1>2, <1>7, SaysExtended
<1>9. Named(c)
  <2>1. NameSpan(c) = NameSpan(b)
    BY <1>1 DEF NameSpan
  <2>. QED
    BY <1>5, <1>6, <2>1 DEF Named
<1>10. Strung(c)
  BY <1>1 DEF Strung, Writing
<1>. QED
  BY <1>8, <1>9, <1>10

(* The map of reservations is where it was, and as it was.                 *)
KeepsMap(b, c) ==
  /\ c.off_mem_rsvmap = b.off_mem_rsvmap /\ c.off_dt_struct = b.off_dt_struct
  /\ \A a \in b.off_mem_rsvmap .. b.off_dt_struct - 1 : c.mem[a] = b.mem[a]

(* What is written behind the structure is no reservation.                 *)
LEMMA GrabbedKeepsMap ==
  ASSUME NEW b, NEW v, Writing(b, v), Room(b) >= 0,
         NEW cells, Len(cells) \in Nat, NEW c, Grabbed(b, c, cells)
  PROVE  KeepsMap(b, c)
<1> DEFINE off == b.off_dt_struct
           map == b.off_mem_rsvmap
           z == b.size_dt_struct
           names == b.size_dt_strings
           total == b.totalsize
<1>1. /\ off \in Nat /\ z \in Nat /\ total \in Nat /\ names \in Nat
      /\ StructTop(b) = off + z /\ off + z <= total - names
  BY WritingIs
<1>2. c.off_dt_struct = off /\ c.off_mem_rsvmap = map
  BY DEF Grabbed, BlobFields
<1>3. map \in Nat
  BY DEF Writing, WrittenOk, IsBlob
<1>4. \A a \in 0 .. total - 1 : a < off => c.mem[a] = b.mem[a]
  <2>1. ASSUME NEW a \in 0 .. total - 1, a < off
        PROVE  a < StructTop(b)
    <3> HIDE DEF off, z, total, names
    <3>. QED
      BY <1>1, <2>1
  <2>. QED
    BY <2>1 DEF Grabbed
<1>5. ASSUME NEW a \in map .. off - 1
      PROVE  c.mem[a] = b.mem[a]
  <2>1. a \in 0 .. total - 1 /\ a < off
    <3> HIDE DEF off, z, total, names, map
    <3>. QED
      BY <1>1, <1>3
  <2>. QED
    BY <1>4, <2>1
<1>. QED
  BY <1>2, <1>5 DEF KeepsMap

(* A tag and what belongs to it are written behind the structure.          *)
LEMMA WritingGoesOn ==
  ASSUME NEW b, NEW v, Writing(b, v), InUse(b),
         NEW cells, Len(cells) \in Nat \ {0}, NEW c, NEW r,
         r = GrabSpace(b, cells), r.ret = 0, c = r.fdt,
         TagFits(c, b.size_dt_struct),
         Following(c, b.size_dt_struct) = c.size_dt_struct,
         TagOf(c, b.size_dt_struct) = "PROP" =>
           NameOff(c, b.size_dt_struct) \in NameSpan(b),
         \A i \in 2 .. Len(cells) : cells[i][1] # "tag",
         NEW w, w = Read(c, v, b.size_dt_struct), w.ok = TRUE, DOMAIN w.tree # {}
  PROVE  Writing(c, w) /\ InUse(c) /\ KeepsMap(b, c)
<1>1. Len(cells) \in Nat /\ Len(cells) # 0
  OBVIOUS
<1>2. IsBlob(b) /\ Covered(b) /\ Room(b) >= 0 /\ WrittenOk(b)
  BY DEF InUse, WrittenOk
<1>3. Grabbed(b, c, cells)
  BY <1>1, <1>2, GrabbedIs
<1>4. InUse(c) /\ c.off_dt_struct = b.off_dt_struct
      /\ c.off_mem_rsvmap = b.off_mem_rsvmap
  <2>1. b.off_dt_struct >= b.off_mem_rsvmap + RsvSize
    BY DEF InUse
  <2>2. WrittenOk(c) /\ Room(c) >= 0
        /\ c.off_dt_struct = b.off_dt_struct
        /\ c.off_mem_rsvmap = b.off_mem_rsvmap
    BY <1>2, <2>1, GrabsIs
  <2>. QED
    BY <2>1, <2>2 DEF InUse
<1>5. KeepsMap(b, c)
  BY <1>1, <1>2, <1>3, GrabbedKeepsMap
<1>6. Says(c, c.size_dt_struct, w) /\ Named(c) /\ Strung(c)
  BY <1>1, <1>2, <1>3, AppendedIs
<1>7. Known \subseteq DOMAIN w
  <2>1. Known \subseteq DOMAIN v
    BY DEF Writing
  <2>2. Reads(c, v, b.size_dt_struct, w)
    BY <2>1, ReadIs
  <2>. QED
    BY <2>2 DEF Reads
<1>8. c.off_dt_strings = c.totalsize
  <2>1. c.off_dt_strings = b.off_dt_strings /\ c.totalsize = b.totalsize
    BY <1>1, <1>2, <1>3, GrabbedStruct
  <2>2. b.off_dt_strings = b.totalsize
    BY DEF Writing
  <2>. QED
    BY <2>1, <2>2
<1>9. c.size_dt_struct # 0
  <2> DEFINE z == b.size_dt_struct
             n == Len(cells)
  <2>1. z \in Nat /\ c.size_dt_struct = z + n
    BY <1>1, <1>2, <1>3, GrabbedStruct, WritingIs
  <2> HIDE DEF z, n
  <2>2. z + n # 0
    BY <1>1, <2>1 DEF n
  <2>. QED
    BY <2>1, <2>2
<1>10. \E k \in Nat : c.off_dt_struct = c.off_mem_rsvmap + k * RsvSize
  BY <1>4 DEF Writing
<1>. QED
  BY <1>4, <1>5, <1>6, <1>7, <1>8, <1>9, <1>10 DEF Writing, InUse

(* No cell behind the first may be taken for a tag.                        *)
OneTag(cells) == \A i \in 2 .. Len(cells) : cells[i][1] # "tag"

NoTag(cells) == \A i \in 1 .. Len(cells) : cells[i][1] # "tag"

(* A word is no more than one.                                             *)
LEMMA WordIsOneTag ==
  ASSUME NEW kind, NEW v
  PROVE  OneTag(Word(kind, v)) /\ (kind # "tag" => NoTag(Word(kind, v)))
<1> DEFINE w == Word(kind, v)
           c == <<kind, v>>
<1>1. Len(w) = FDT_TAGSIZE
  BY WordIs
<1>2. \A i \in 1 .. FDT_TAGSIZE : w[i] = IF i = 1 THEN c ELSE Rest
  BY DEF Word, Cells
<1>3. c[1] = kind /\ Rest[1] # "tag" /\ FDT_TAGSIZE \in Nat
  BY TagSizeIs DEF Rest
<1>. HIDE DEF c, w
<1>4. ASSUME NEW i \in 1 .. FDT_TAGSIZE, i = 1 => kind # "tag"
      PROVE  w[i][1] # "tag"
  <2>1. CASE i = 1
    BY <1>2, <1>3, <1>4, <2>1
  <2>2. CASE i # 1
    BY <1>2, <1>3, <2>2
  <2>. QED
    BY <2>1, <2>2
<1>5. \A i \in 2 .. FDT_TAGSIZE : i \in 1 .. FDT_TAGSIZE /\ i # 1
  BY <1>3
<1>6. \A i \in 2 .. FDT_TAGSIZE : w[i][1] # "tag"
  BY <1>4, <1>5
<1>7. kind # "tag" => \A i \in 1 .. FDT_TAGSIZE : w[i][1] # "tag"
  BY <1>4
<1>. QED
  BY <1>1, <1>6, <1>7 DEF OneTag, NoTag, w

(* What has no tag in it may be put behind.                                *)
LEMMA JoinIsOneTag ==
  ASSUME NEW s, NEW t, NEW both, Joins(s, t, both), NoTag(t)
  PROVE  /\ OneTag(s) => OneTag(both)
         /\ NoTag(s) => NoTag(both)
<1>1. /\ Len(s) \in Nat /\ Len(t) \in Nat /\ Len(both) = Len(s) + Len(t)
      /\ \A i \in 1 .. Len(s) : both[i] = s[i]
      /\ \A i \in 1 .. Len(t) : both[Len(s) + i] = t[i]
  BY DEF Joins
<1>2. ASSUME NEW i \in 1 .. Len(both)
      PROVE  \/ i \in 1 .. Len(s) /\ both[i] = s[i]
             \/ both[i][1] # "tag"
  <2>1. CASE i <= Len(s)
    BY <1>1, <2>1
  <2>2. CASE i > Len(s)
    <3> DEFINE k == i - Len(s)
    <3>1. k \in 1 .. Len(t) /\ Len(s) + k = i
      BY <1>1, <2>2
    <3>. HIDE DEF k
    <3>2. both[i] = t[k] /\ t[k][1] # "tag"
      BY <1>1, <3>1 DEF NoTag
    <3>. QED
      BY <3>2
  <2>. QED
    BY <1>1, <2>1, <2>2
<1>3. \A i \in 2 .. Len(both) : i \in 1 .. Len(both) /\ (i <= Len(s) => i \in 2 .. Len(s))
  BY <1>1
<1>. QED
  BY <1>1, <1>2, <1>3 DEF OneTag, NoTag

(* The cells of the beginning of a node.                                   *)
NodeCells(cells, name) ==
  /\ Len(cells) = FDT_TAGSIZE + TagAlign(NodeLength[name] + 1)
  /\ cells[1] = <<"tag", "BEGIN_NODE">>
  /\ cells[FDT_TAGSIZE + 1] = <<"name", name>>
  /\ OneTag(cells)

LEMMA NodeCellsIs ==
  ASSUME NEW name \in NodeNames, NEW cells,
         cells = Tag("BEGIN_NODE") \o NameCells(name)
  PROVE  NodeCells(cells, name)
<1> DEFINE s == Tag("BEGIN_NODE")
           t == NameCells(name)
           n == Len(t)
<1>1. /\ IsSequence(s) /\ Len(s) = FDT_TAGSIZE /\ s[1] = <<"tag", "BEGIN_NODE">>
      /\ OneTag(s)
  BY WordIs, WordCells, WordIsOneTag DEF Tag
<1>2. NameIs(t, name)
  BY NameCellsIs
<1>3. FDT_TAGSIZE \in Nat /\ FDT_TAGSIZE > 0
  BY TagSizeIs
<1> HIDE DEF s, t
<1>4. /\ IsSequence(t) /\ n \in Nat /\ n > 0
      /\ n = TagAlign(NodeLength[name] + 1)
      /\ t[1] = <<"name", name>> /\ NoTag(t)
  BY <1>2 DEF NameIs, NoTag
<1>5. Joins(s, t, cells)
  BY <1>1, <1>4, JoinIs DEF s, t
<1>6. /\ Len(cells) = FDT_TAGSIZE + n
      /\ \A i \in 1 .. FDT_TAGSIZE : cells[i] = s[i]
      /\ \A i \in 1 .. n : cells[FDT_TAGSIZE + i] = t[i]
  BY <1>1, <1>5 DEF Joins
<1>7. 1 \in 1 .. FDT_TAGSIZE /\ 1 \in 1 .. n
  BY <1>3, <1>4
<1>8. cells[1] = s[1] /\ cells[FDT_TAGSIZE + 1] = t[1]
  BY <1>6, <1>7
<1>9. OneTag(cells)
  BY <1>1, <1>4, <1>5, JoinIsOneTag
<1>. QED
  BY <1>1, <1>4, <1>6, <1>8, <1>9 DEF NodeCells

(* A first cell of that kind is a tag where the block has ended.           *)
LEMMA WrittenTag ==
  ASSUME NEW b, NEW v, Writing(b, v), Room(b) >= 0,
         NEW cells, Len(cells) \in Nat \ {0}, NEW c, Grabbed(b, c, cells),
         NEW t, cells[1] = <<"tag", t>>
  PROVE  /\ b.size_dt_struct \in Tags(c) /\ TagOf(c, b.size_dt_struct) = t
         /\ IsMultiple(b.size_dt_struct) /\ b.size_dt_struct \in Nat
         /\ c.size_dt_struct = b.size_dt_struct + Len(cells)
         /\ \A i \in 1 .. Len(cells) :
              Struct(c, b.size_dt_struct + (i - 1)) = cells[i]
<1> DEFINE z == b.size_dt_struct
           n == Len(cells)
<1>1. n \in Nat /\ n # 0 /\ Len(cells) \in Nat
  OBVIOUS
<1>2. /\ c.size_dt_struct = z + n
      /\ \A i \in 1 .. n : Struct(c, z + (i - 1)) = cells[i]
  BY <1>1, GrabbedStruct
<1>3. z \in Nat /\ IsMultiple(z)
  BY SaysIs DEF Writing
<1> HIDE DEF z, n
<1>4. 1 \in 1 .. n /\ z + (1 - 1) = z /\ z \in 0 .. (z + n) - 1
  BY <1>1, <1>3
<1>5. Struct(c, z) = cells[1]
  BY <1>2, <1>4
<1>6. Struct(c, z)[1] = "tag" /\ Struct(c, z)[2] = t
  BY <1>5
<1>7. z \in Tags(c)
  BY <1>2, <1>3, <1>4, <1>6 DEF Tags, IsMultiple
<1>. QED
  BY <1>2, <1>3, <1>6, <1>7 DEF TagOf, z, n

(* What follows in the caller's view.                                      *)
Begun(v, w, name) ==
  /\ w.path = Append(v.path, name) /\ w.last = "BEGIN_NODE"
  /\ w.tree = Put(v.tree, w.path, << >>)

Ended(v, w) ==
  w.path = Front(v.path) /\ w.last = "END_NODE" /\ w.tree = v.tree

Given(v, w, name, val) ==
  /\ w.path = v.path /\ w.last = v.last
  /\ w.tree = [v.tree EXCEPT ![v.path] = Put(@, name, val)]

(* A call has no effect for lack of space.                                 *)
Refused(b, r, need) == r.ret = NOSPACE /\ r.fdt = b /\ Room(b) < need

(* fdt_begin_node.                                                         *)
LEMMA BeginNodeWrites ==
  ASSUME NEW b, NEW v, Writing(b, v), InUse(b), NEW name \in NodeNames,
         NEW r, r = fdt_begin_node(b, name)
  PROVE  \/ Refused(b, r, FDT_TAGSIZE + TagAlign(NodeLength[name] + 1))
         \/ /\ r.ret = 0 /\ InUse(r.fdt) /\ KeepsMap(b, r.fdt)
            /\ \E w : Writing(r.fdt, w) /\ Begun(v, w, name)
<1> DEFINE cells == Tag("BEGIN_NODE") \o NameCells(name)
           n == Len(cells)
           z == b.size_dt_struct
           c == r.fdt
           w == Read(c, v, z)
           size == TagAlign(NodeLength[name] + 1)
           T == FDT_TAGSIZE
<1>1. NodeCells(cells, name) /\ n \in Nat \ {0}
  BY NodeCellsIs, NodeCellsAre
<1>2. IsBlob(b) /\ Covered(b) /\ Room(b) >= 0 /\ WrittenOk(b) /\ b.magic = "SW"
  BY DEF InUse, WrittenOk
<1>3. r = GrabSpace(b, cells)
  BY <1>2 DEF fdt_begin_node, SwChecked
<1> HIDE DEF cells
<1>4. n = T + size
  BY <1>1 DEF NodeCells
<1>5. \/ Refused(b, r, n)
      \/ r.ret = 0 /\ Grabbed(b, c, cells)
  <2>1. n \in Nat
    BY <1>1
  <2>. QED
    BY <1>2, <1>3, <2>1, GrabbedIs DEF Refused
<1>6. CASE Refused(b, r, n)
  BY <1>4, <1>6
<1>7. CASE r.ret = 0 /\ Grabbed(b, c, cells)
  <2>1. cells[1] = <<"tag", "BEGIN_NODE">> /\ cells[T + 1] = <<"name", name>>
        /\ OneTag(cells)
    BY <1>1 DEF NodeCells
  <2>2. /\ z \in Tags(c) /\ TagOf(c, z) = "BEGIN_NODE"
        /\ IsMultiple(z) /\ z \in Nat /\ c.size_dt_struct = z + n
        /\ \A i \in 1 .. n : Struct(c, z + (i - 1)) = cells[i]
    BY <1>1, <1>2, <1>7, <2>1, WrittenTag
  <2>3. NodeName(c, z) = name
    <3>1. T \in Nat /\ T > 0 /\ size \in Nat /\ size > 0
      <4>1. NodeLength[name] + 1 \in Nat /\ NodeLength[name] + 1 > 0
        BY NamesAssumption
      <4>. QED
        BY <4>1, Aligned, TagSizeIs
    <3> HIDE DEF T, size, n, z, c
    <3>2. T + 1 \in 1 .. n /\ z + ((T + 1) - 1) = z + T
      BY <1>4, <2>2, <3>1
    <3>3. Struct(c, z + T) = <<"name", name>>
      BY <2>1, <2>2, <3>2
    <3>. QED
      BY <3>3 DEF NodeName, T
  <2>4. Following(c, z) = c.size_dt_struct
    <3>1. Following(c, z) = z + T + size
      BY <2>2, <2>3, NodeIs
    <3>2. z + T + size = z + (T + size)
      <4>1. T \in Nat /\ size \in Nat
        <5>1. NodeLength[name] + 1 \in Nat
          BY NamesAssumption
        <5>. QED
          BY <5>1, Aligned, TagSizeIs
      <4> HIDE DEF T, size, z
      <4>. QED
        BY <2>2, <4>1
    <3> HIDE DEF T, size, z, c, n
    <3>. QED
      BY <1>4, <2>2, <3>1, <3>2
  <2>5. TagFits(c, z)
    <3>1. c.size_dt_struct \in Nat /\ c.size_dt_struct <= c.size_dt_struct
      <4>1. IsBlob(c)
        BY <1>7 DEF Grabbed
      <4>. QED
        BY <4>1 DEF IsBlob
    <3>. QED
      BY <2>2, <2>3, <2>4, <3>1 DEF TagFits
  <2>6. NextTag(c, z).tag = "BEGIN_NODE"
    <3>1. c.size_dt_struct \in Nat
      BY <1>7 DEF Grabbed, IsBlob
    <3>2. NextTag(c, z) = [tag |-> TagOf(c, z), next |-> Following(c, z)]
      BY <2>5, <3>1, TagFitsIs
    <3>. QED
      BY <2>2, <3>2
  <2>7. Known \subseteq DOMAIN v /\ v.ok = TRUE
    BY DEF Writing
  <2>8. Begun(v, w, name) /\ w.ok = TRUE
    <3>1. Reads(c, v, z, w)
      BY <2>7, ReadIs
    <3> HIDE DEF w, c, z
    <3>. QED
      BY <2>3, <2>6, <2>7, <3>1 DEF Reads, Begun
  <2>9. DOMAIN w.tree # {}
    BY <2>8 DEF Begun, Put
  <2>10. Writing(c, w) /\ InUse(c) /\ KeepsMap(b, c)
    <3>1. \A i \in 2 .. Len(cells) : cells[i][1] # "tag"
      BY <2>1 DEF OneTag
    <3>2. TagOf(c, z) # "PROP"
      BY <2>2
    <3> HIDE DEF w
    <3>3. w = Read(c, v, b.size_dt_struct)
      BY DEF w
    <3>. QED
      BY <1>1, <1>3, <1>7, <2>4, <2>5, <2>8, <2>9, <3>1, <3>2, <3>3, WritingGoesOn
  <2>. QED
    BY <1>7, <2>8, <2>10
<1>. QED
  BY <1>5, <1>6, <1>7

(* A node is open only when one has begun.                                 *)
LEMMA OpenHasTree ==
  ASSUME NEW b, NEW v, Writing(b, v), v.path # Nowhere
  PROVE  b.size_dt_struct # 0 /\ DOMAIN v.tree # {}
<1>1. b.size_dt_struct # 0
  <2>1. b.size_dt_struct = 0 => v = Blank
    BY DEF Writing
  <2>2. Blank.path = Nowhere
    BY DEF Blank
  <2>. QED
    BY <2>1, <2>2
<1>. QED
  BY <1>1 DEF Writing

(* fdt_end_node.                                                           *)
LEMMA EndNodeWrites ==
  ASSUME NEW b, NEW v, Writing(b, v), InUse(b), v.path # Nowhere,
         NEW r, r = fdt_end_node(b)
  PROVE  \/ Refused(b, r, FDT_TAGSIZE)
         \/ /\ r.ret = 0 /\ InUse(r.fdt) /\ KeepsMap(b, r.fdt)
            /\ \E w : Writing(r.fdt, w) /\ Ended(v, w)
<1> DEFINE cells == Tag("END_NODE")
           n == Len(cells)
           z == b.size_dt_struct
           c == r.fdt
           w == Read(c, v, z)
           T == FDT_TAGSIZE
<1>1. n = T /\ n \in Nat \ {0} /\ cells[1] = <<"tag", "END_NODE">> /\ OneTag(cells)
  BY WordCells, WordIsOneTag, TagSizeIs DEF Tag
<1>2. IsBlob(b) /\ Covered(b) /\ Room(b) >= 0 /\ WrittenOk(b) /\ b.magic = "SW"
  BY DEF InUse, WrittenOk
<1>3. r = GrabSpace(b, cells)
  BY <1>2 DEF fdt_end_node, SwChecked
<1> HIDE DEF cells
<1>5. \/ Refused(b, r, n)
      \/ r.ret = 0 /\ Grabbed(b, c, cells)
  <2>1. n \in Nat
    BY <1>1
  <2>. QED
    BY <1>2, <1>3, <2>1, GrabbedIs DEF Refused
<1>6. CASE Refused(b, r, n)
  BY <1>1, <1>6
<1>7. CASE r.ret = 0 /\ Grabbed(b, c, cells)
  <2>2. /\ z \in Tags(c) /\ TagOf(c, z) = "END_NODE"
        /\ IsMultiple(z) /\ z \in Nat /\ c.size_dt_struct = z + n
    BY <1>1, <1>2, <1>7, WrittenTag
  <2>4. Following(c, z) = c.size_dt_struct
    <3>1. Following(c, z) = TagAlign(z + T)
      BY <2>2 DEF Following, TagLength, TagOf
    <3>2. IsMultiple(z + T)
      BY <2>2, Multiples
    <3>. QED
      BY <1>1, <2>2, <3>1, <3>2, AlignedStays
  <2>5. TagFits(c, z)
    <3>1. c.size_dt_struct \in Nat /\ c.size_dt_struct <= c.size_dt_struct
      <4>1. IsBlob(c)
        BY <1>7 DEF Grabbed
      <4>. QED
        BY <4>1 DEF IsBlob
    <3>. QED
      BY <2>2, <2>4, <3>1 DEF TagFits
  <2>6. NextTag(c, z).tag = "END_NODE"
    <3>1. c.size_dt_struct \in Nat
      BY <1>7 DEF Grabbed, IsBlob
    <3>2. NextTag(c, z) = [tag |-> TagOf(c, z), next |-> Following(c, z)]
      BY <2>5, <3>1, TagFitsIs
    <3>. QED
      BY <2>2, <3>2
  <2>7. Known \subseteq DOMAIN v /\ v.ok = TRUE
    BY DEF Writing
  <2>8. Ended(v, w) /\ w.ok = TRUE
    <3>1. Reads(c, v, z, w)
      BY <2>7, ReadIs
    <3> HIDE DEF w, c, z
    <3>. QED
      BY <2>6, <2>7, <3>1 DEF Reads, Ended
  <2>9. DOMAIN w.tree # {}
    BY <2>8, OpenHasTree DEF Ended
  <2>10. Writing(c, w) /\ InUse(c) /\ KeepsMap(b, c)
    <3>1. \A i \in 2 .. Len(cells) : cells[i][1] # "tag"
      BY <1>1 DEF OneTag
    <3>2. TagOf(c, z) # "PROP"
      BY <2>2
    <3> HIDE DEF w
    <3>3. w = Read(c, v, b.size_dt_struct)
      BY DEF w
    <3>. QED
      BY <1>1, <1>3, <1>7, <2>4, <2>5, <2>8, <2>9, <3>1, <3>2, <3>3, WritingGoesOn
  <2>. QED
    BY <1>7, <2>8, <2>10
<1>. QED
  BY <1>5, <1>6, <1>7

(* The cells of a property.                                                *)
PropertyCells(cells, val, nameoff) ==
  /\ Len(cells) = PropHeader + TagAlign(Len(val))
  /\ cells[1] = <<"tag", "PROP">>
  /\ cells[FDT_TAGSIZE + 1] = <<"len", Len(val)>>
  /\ cells[2 * FDT_TAGSIZE + 1] = <<"nameoff", nameoff>>
  /\ \A i \in 1 .. Len(val) : cells[PropHeader + i][2] = val[i]
  /\ OneTag(cells)

(* The padding.                                                            *)
LEMMA PadIs ==
  ASSUME NEW n \in Nat, NEW pad, pad = Cells(Zero, n)
  PROVE  IsSequence(pad) /\ Len(pad) = n /\ NoTag(pad)
<1>1. IsSequence(pad) /\ Len(pad) = n
  BY CellsAre
<1>2. \A i \in 1 .. n : pad[i] = IF i = 1 THEN Zero ELSE Rest
  BY DEF Cells
<1>3. Zero[1] # "tag" /\ Rest[1] # "tag"
  BY DEF Zero, Rest
<1>. QED
  BY <1>1, <1>2, <1>3 DEF NoTag

(* The three words of a property are one tag.                              *)
LEMMA HeadIsOneTag ==
  ASSUME NEW len, NEW nameoff, NEW head,
         head = Tag("PROP") \o Word("len", len) \o Word("nameoff", nameoff)
  PROVE  IsSequence(head) /\ OneTag(head)
<1> DEFINE x == Tag("PROP")
           y == Word("len", len)
           z == Word("nameoff", nameoff)
           xy == x \o y
<1>1. /\ IsSequence(x) /\ OneTag(x) /\ IsSequence(y) /\ NoTag(y)
      /\ IsSequence(z) /\ NoTag(z)
  BY WordIs, WordIsOneTag DEF Tag
<1>2. head = xy \o z
  OBVIOUS
<1> HIDE DEF x, y, z
<1>3. Joins(x, y, xy)
  BY <1>1, JoinIs
<1>4. OneTag(xy) /\ IsSequence(xy)
  <2>1. OneTag(xy)
    BY <1>1, <1>3, JoinIsOneTag
  <2>2. IsSequence(xy)
    BY <1>3 DEF Joins
  <2>. QED
    BY <2>1, <2>2
<1> HIDE DEF xy
<1>5. Joins(xy, z, head)
  BY <1>1, <1>2, <1>4, JoinIs
<1>6. OneTag(head)
  BY <1>1, <1>4, <1>5, JoinIsOneTag
<1>. QED
  BY <1>5, <1>6 DEF Joins

LEMMA PropertyCellsIs ==
  ASSUME NEW val, Len(val) \in Nat, NEW nameoff, NEW cells,
         cells = Tag("PROP") \o Word("len", Len(val)) \o Word("nameoff", nameoff)
                   \o Bytes(val) \o Cells(Zero, TagAlign(Len(val)) - Len(val))
  PROVE  PropertyCells(cells, val, nameoff)
<1> DEFINE n == Len(val)
           head == Tag("PROP") \o Word("len", n) \o Word("nameoff", nameoff)
           bytes == Bytes(val)
           m == TagAlign(n) - n
           pad == Cells(Zero, m)
           most == head \o bytes
           T == FDT_TAGSIZE
           H == PropHeader
<1>1. n \in Nat /\ m \in Nat /\ n + m = TagAlign(n) /\ T \in Nat /\ T > 0 /\ H = 3 * T
  <2>1. n \in Nat /\ TagAlign(n) \in Nat /\ TagAlign(n) >= n
    BY Aligned
  <2>. QED
    BY <2>1, TagSizeIs DEF PropHeader
<1>2. cells = most \o pad
  OBVIOUS
<1>3. IsHead(head, n, nameoff) /\ IsSequence(head) /\ OneTag(head)
  BY HeadIs, HeadIsOneTag
<1>4. /\ IsSequence(bytes) /\ Len(bytes) = n
      /\ \A i \in 1 .. n : bytes[i][2] = val[i] /\ bytes[i][1] = "byte"
  BY <1>1, BytesAre DEF Bytes
<1>5. IsSequence(pad) /\ Len(pad) = m /\ NoTag(pad)
  BY <1>1, PadIs
<1>6. Len(head) = H /\ head[1] = <<"tag", "PROP">>
      /\ head[T + 1] = <<"len", n>> /\ head[2 * T + 1] = <<"nameoff", nameoff>>
  BY <1>3 DEF IsHead
<1> HIDE DEF head, bytes, pad
<1>7. Joins(head, bytes, most)
  BY <1>3, <1>4, JoinIs
<1>8. NoTag(bytes)
  BY <1>4 DEF NoTag
<1>9. IsSequence(most) /\ OneTag(most) /\ Len(most) = H + n
  <2>1. OneTag(most)
    BY <1>3, <1>7, <1>8, JoinIsOneTag
  <2>2. IsSequence(most) /\ Len(most) = H + n
    BY <1>4, <1>6, <1>7 DEF Joins
  <2>. QED
    BY <2>1, <2>2
<1> HIDE DEF most
<1>10. Joins(most, pad, cells)
  BY <1>2, <1>5, <1>9, JoinIs
<1>11. OneTag(cells)
  BY <1>5, <1>9, <1>10, JoinIsOneTag
<1>12. /\ \A i \in 1 .. H : most[i] = head[i]
       /\ \A i \in 1 .. n : most[H + i] = bytes[i]
  BY <1>4, <1>6, <1>7 DEF Joins
<1>13. /\ \A i \in 1 .. H + n : cells[i] = most[i]
       /\ Len(cells) = (H + n) + m
  BY <1>5, <1>9, <1>10 DEF Joins
<1> HIDE DEF n, m, T, H
<1>14. /\ 1 \in 1 .. H /\ T + 1 \in 1 .. H /\ 2 * T + 1 \in 1 .. H
       /\ \A i \in 1 .. H : i \in 1 .. H + n
       /\ \A i \in 1 .. n : H + i \in 1 .. H + n
  BY <1>1
<1>15. /\ cells[1] = <<"tag", "PROP">> /\ cells[T + 1] = <<"len", n>>
       /\ cells[2 * T + 1] = <<"nameoff", nameoff>>
  <2>1. ASSUME NEW i \in 1 .. H  PROVE cells[i] = head[i]
    BY <1>12, <1>13, <1>14
  <2>. QED
    BY <1>6, <1>14, <2>1
<1>16. ASSUME NEW i \in 1 .. n
       PROVE  cells[H + i][2] = val[i]
  <2>1. cells[H + i] = most[H + i] /\ most[H + i] = bytes[i]
    BY <1>12, <1>13, <1>14
  <2>. QED
    BY <1>4, <2>1
<1>17. Len(cells) = H + TagAlign(n)
  BY <1>1, <1>13
<1>. QED
  BY <1>11, <1>15, <1>16, <1>17 DEF PropertyCells, n, T, H

(* One of the strings is s, or ends with it.                               *)
HasString(b, s) ==
  \E a \in b.totalsize - b.size_dt_strings .. b.totalsize - 1 :
    b.mem[a] = <<"string", s>>

(* It is found then.                                                       *)
LEMMA StringIsFound ==
  ASSUME NEW b, IsBlob(b), Strung(b), NEW s \in PropNames,
         NEW found, found = FindString([b EXCEPT !.off_dt_strings =
                                          b.totalsize - b.size_dt_strings], s)
  PROVE  \/ found = NOTFOUND /\ ~HasString(b, s)
         \/ /\ found \in 0 .. b.size_dt_strings - Len(Tails[s]) /\ HasString(b, s)
            /\ b.mem[(b.totalsize - b.size_dt_strings) + found] = <<"string", s>>
<1> DEFINE total == b.totalsize
           names == b.size_dt_strings
           n == Len(Tails[s])
           e == [b EXCEPT !.off_dt_strings = total - names]
           str == <<"string", s>>
           places == {o \in 0 .. names - n : b.mem[(total - names) + o] = str}
<1>1. total \in Nat /\ names \in Nat /\ n \in Nat /\ n > 0
  BY NamesAssumption DEF IsBlob
<1>2. e.mem = b.mem /\ e.size_dt_strings = names /\ e.off_dt_strings = total - names
  <2>1. DOMAIN b = BlobFields
    BY DEF IsBlob
  <2>. QED
    BY <2>1 DEF BlobFields
<1>3. found = FindString(e, s)
  OBVIOUS
<1> HIDE DEF e
<1>4. found = IF places = {} THEN NOTFOUND
              ELSE CHOOSE o \in places : \A p \in places : o <= p
  BY <1>2, <1>3 DEF FindString
<1>5. ASSUME NEW a \in total - names .. total - 1, b.mem[a] = str
      PROVE  a - (total - names) \in places
  <2>1. a + n <= total
    BY <1>5 DEF Strung
  <2> DEFINE o == a - (total - names)
  <2> HIDE DEF total, names, n, str, places
  <2>2. o \in 0 .. names - n /\ (total - names) + o = a
    BY <1>1, <2>1
  <2> HIDE DEF o
  <2>3. o \in places
    BY <1>5, <2>2 DEF places
  <2>. QED
    BY <2>3 DEF o
<1>6. ASSUME NEW o \in places  PROVE HasString(b, s)
  <2>1. o \in 0 .. names - n /\ b.mem[(total - names) + o] = str
    OBVIOUS
  <2> DEFINE a == (total - names) + o
  <2>2. a \in total - names .. total - 1
    <3> HIDE DEF total, names, n, str, places
    <3>. QED
      BY <1>1, <2>1
  <2>3. b.mem[a] = str
    BY <2>1
  <2> HIDE DEF a
  <2>. QED
    BY <2>2, <2>3 DEF HasString
<1>7. CASE places = {}
  <2>1. found = NOTFOUND
    BY <1>4, <1>7
  <2>2. ~HasString(b, s)
    <3> HIDE DEF places
    <3>. QED
      BY <1>5, <1>7 DEF HasString
  <2>. QED
    BY <2>1, <2>2
<1>8. CASE places # {}
  <2>1. places \subseteq Nat
    <3> HIDE DEF total, names, n
    <3>. QED
      BY <1>1
  <2> HIDE DEF places
  <2>2. \E o \in places : \A p \in places : o <= p
    BY <1>8, <2>1, LeastNumber
  <2>3. found \in places
    BY <1>4, <1>8, <2>2
  <2>. QED
    BY <1>6, <2>3 DEF places
<1>. QED
  BY <1>7, <1>8

(* c is b with s added to the strings.                                     *)
Lengthened(b, c, s) ==
  /\ IsBlob(c)
  /\ \A f \in BlobFields \ {"mem", "size_dt_strings"} : c[f] = b[f]
  /\ c.size_dt_strings = b.size_dt_strings + Len(Tails[s])
  /\ StructTop(b) <= b.totalsize - b.size_dt_strings - Len(Tails[s])
  /\ \A i \in 1 .. Len(Tails[s]) :
       c.mem[b.totalsize - b.size_dt_strings - Len(Tails[s]) + (i - 1)]
         = <<"string", Tails[s][i]>>
  /\ \A a \in 0 .. b.totalsize - 1 :
       \/ a < b.totalsize - b.size_dt_strings - Len(Tails[s])
       \/ a >= b.totalsize - b.size_dt_strings
       => c.mem[a] = b.mem[a]

(* _fdt_find_add_string finds it, has no space for it, or adds it.         *)
LEMMA AddStringIs ==
  ASSUME NEW b, IsBlob(b), Room(b) >= 0, Covered(b), Strung(b),
         b.off_dt_strings = b.totalsize,
         NEW s \in PropNames, Len(Tails[s]) <= StructTop(b),
         NEW r, r = SwFindAddString(b, s)
  PROVE  \/ /\ r.ret = 0 /\ r.fdt = b /\ ~HasString(b, s)
            /\ Room(b) < Len(Tails[s])
         \/ /\ r.ret \in NameSpan(b) /\ r.fdt = b /\ HasString(b, s)
            /\ String(b, r.ret) = s
         \/ /\ r.ret = -b.size_dt_strings - Len(Tails[s])
            /\ Lengthened(b, r.fdt, s) /\ ~HasString(b, s)
<1> DEFINE total == b.totalsize
           names == b.size_dt_strings
           n == Len(Tails[s])
           top == StructTop(b)
           c == [b EXCEPT !.off_dt_strings = total - names]
           found == FindString(c, s)
           offset == -names - n
           p == Poke(b, total + offset, StringCells(s))
           q == [p EXCEPT !.size_dt_strings = -offset]
           str == <<"string", s>>
<1>0. /\ total \in Nat /\ names \in Nat /\ n \in Nat /\ n > 0 /\ top \in Nat
      /\ n <= top /\ total - names - top >= 0
  BY NamesAssumption DEF IsBlob, Room, StructTop
<1>1. \/ found = NOTFOUND /\ ~HasString(b, s)
      \/ /\ found \in 0 .. names - n /\ HasString(b, s)
         /\ b.mem[(total - names) + found] = str
  BY StringIsFound
<1>2. r = IF found >= 0 THEN Result(b, found - names)
          ELSE IF Below(total + offset, top) THEN Result(b, 0)
          ELSE Result(q, offset)
  BY DEF SwFindAddString
<1> HIDE DEF found
<1>3. CASE /\ found \in 0 .. names - n /\ HasString(b, s)
           /\ b.mem[(total - names) + found] = str
  <2>1. found >= 0 /\ found - names \in -names .. -1
        /\ total + (found - names) = (total - names) + found
    <3> HIDE DEF total, names, n
    <3>. QED
      BY <1>0, <1>3
  <2>2. r.fdt = b /\ r.ret = found - names
    BY <1>2, <2>1 DEF Result
  <2>3. String(b, r.ret) = s
    <3>1. b.mem[total + (found - names)] = str
      BY <1>3, <2>1
    <3>2. b.mem[b.off_dt_strings + r.ret] = str
      BY <2>2, <3>1
    <3>. QED
      BY <3>2 DEF String
  <2>. QED
    BY <1>3, <2>1, <2>2, <2>3 DEF NameSpan
<1>4. CASE found = NOTFOUND /\ ~HasString(b, s)
  <2>1. ~(found >= 0)
    BY <1>4 DEF NOTFOUND
  <2>2. CASE Below(total + offset, top)
    <3>1. r.ret = 0 /\ r.fdt = b
      BY <1>2, <2>1, <2>2 DEF Result
    <3>2. total + offset < top
      BY <2>2 DEF Below
    <3>3. Room(b) = total - names - top
      BY DEF Room
    <3>4. total - names - top < n
      <4> HIDE DEF total, names, n, top
      <4>. QED
        BY <1>0, <3>2
    <3>. QED
      BY <1>4, <3>1, <3>3, <3>4
  <2>3. CASE ~Below(total + offset, top)
    <3>1. r.ret = offset /\ r.fdt = q
      BY <1>2, <2>1, <2>3 DEF Result
    <3>2. total + offset >= top /\ total + offset = total - names - n
          /\ -offset = names + n
      <4>1. ~(total + offset >= 0 /\ total + offset < top)
        BY <2>3 DEF Below
      <4> HIDE DEF total, names, n, top
      <4>. QED
        BY <1>0, <4>1
    <3> DEFINE at == total - names - n
               cells == StringCells(s)
    <3>3. Len(cells) = n /\ \A i \in 1 .. n : cells[i] = <<"string", Tails[s][i]>>
      BY <1>0 DEF StringCells
    <3>4. p = Poke(b, at, cells)
      BY <3>2
    <3> HIDE DEF p, cells, n
    <3>5. /\ DOMAIN p = BlobFields
          /\ \A f \in BlobFields \ {"mem"} : p[f] = b[f]
          /\ \A a \in Span(at, n) : p.mem[a] = cells[a - at + 1]
          /\ \A a \in DOMAIN b.mem \ Span(at, n) : p.mem[a] = b.mem[a]
      <4> DEFINE from == at
      <4>1. DOMAIN b = BlobFields /\ p = Poke(b, from, cells)
        BY <3>4 DEF IsBlob
      <4>2. /\ DOMAIN p = BlobFields
            /\ \A f \in BlobFields \ {"mem"} : p[f] = b[f]
            /\ \A a \in Span(from, Len(cells)) : p.mem[a] = cells[a - from + 1]
            /\ \A a \in DOMAIN b.mem \ Span(from, Len(cells)) : p.mem[a] = b.mem[a]
        <5> HIDE DEF from
        <5>. QED
          BY <4>1, PokeIs
      <4>. QED
        BY <3>3, <4>2
    <3>6. /\ q.mem = p.mem /\ q.size_dt_strings = names + n
          /\ \A f \in BlobFields \ {"mem", "size_dt_strings"} : q[f] = b[f]
      <4>1. q.mem = p.mem /\ q.size_dt_strings = -offset
            /\ \A f \in BlobFields \ {"mem", "size_dt_strings"} : q[f] = b[f]
        BY <3>5 DEF BlobFields
      <4>. QED
        BY <3>2, <4>1
    <3>7. IsBlob(q)
      <4>1. n \in Nat /\ n <= top
        BY <1>0
      <4>2. IsBlob(r.fdt)
        BY <4>1, SwFindAddStringIs DEF n
      <4>. QED
        BY <3>1, <4>2
    <3> HIDE DEF q
    <3>8. ASSUME NEW i \in 1 .. n  PROVE q.mem[at + (i - 1)] = cells[i]
      <4>1. at + (i - 1) \in at .. at + n - 1 /\ (at + (i - 1)) - at + 1 = i
        <5> HIDE DEF total, names, top
        <5>. QED
          BY <1>0
      <4>2. at + (i - 1) \in Span(at, n)
        BY <4>1 DEF Span
      <4>. QED
        BY <3>5, <3>6, <4>1, <4>2
    <3>9. ASSUME NEW a \in 0 .. total - 1, a < at \/ a >= total - names
          PROVE  q.mem[a] = b.mem[a]
      <4>1. a \notin at .. at + n - 1
        <5> HIDE DEF total, names, top
        <5>. QED
          BY <1>0, <3>9
      <4>2. a \in DOMAIN b.mem
        BY DEF Covered
      <4>. QED
        BY <3>5, <3>6, <4>1, <4>2 DEF Span
    <3>10. Lengthened(b, q, s)
      BY <3>2, <3>3, <3>6, <3>7, <3>8, <3>9 DEF Lengthened, n
    <3>. QED
      BY <1>4, <3>1, <3>10 DEF n
  <2>. QED
    BY <2>2, <2>3
<1>. QED
  BY <1>1, <1>3, <1>4

(* The same cells with the same names say the same.                        *)
LEMMA StructStays ==
  ASSUME NEW b, NEW o, NEW v, Says(b, o, v), NEW c,
         c.size_dt_struct = b.size_dt_struct,
         \A i \in 0 .. b.size_dt_struct - 1 : Struct(c, i) = Struct(b, i),
         \A t \in Tags(b) : TagOf(b, t) = "PROP" =>
           String(c, NameOff(b, t)) = String(b, NameOff(b, t))
  PROVE  /\ Says(c, o, v)
         /\ \A t \in Tags(c) :
              /\ t \in Tags(b) /\ TagOf(c, t) = TagOf(b, t)
              /\ TagOf(c, t) = "PROP" => NameOff(c, t) = NameOff(b, t)
<1>1. /\ b.size_dt_struct \in Nat /\ IsMultiple(b.size_dt_struct) /\ AtEnd(b, o)
      /\ \A t \in Tags(b) : t # o => TagFits(b, t)
  BY SaysIs
<1>2. ASSUME NEW t \in Tags(c)
      PROVE  t \in Tags(b) /\ TagOf(c, t) = TagOf(b, t)
  BY DEF Tags, TagOf
<1>3. ASSUME NEW t \in Tags(b)
      PROVE  t \in Tags(c) /\ TagOf(c, t) = TagOf(b, t)
  BY DEF Tags, TagOf
<1>4. ASSUME NEW t \in Tags(b), t # o
      PROVE  /\ Repeats(b, c, t)
             /\ TagOf(b, t) = "PROP" => NameOff(c, t) = NameOff(b, t)
  <2>1. TagFits(b, t)
    BY <1>1, <1>4
  <2>. QED
    BY <1>1, <2>1, CellsRepeat
<1>5. b.size_dt_struct <= c.size_dt_struct
  <2> DEFINE z == b.size_dt_struct
  <2>1. z \in Nat /\ c.size_dt_struct = z
    BY <1>1
  <2> HIDE DEF z
  <2>2. z <= c.size_dt_struct
    BY <2>1
  <2>. QED
    BY <2>2 DEF z
<1>6. Repeated(b, c, o)
  BY <1>1, <1>2, <1>4, <1>5 DEF Repeated
<1>7. AtEnd(c, o)
  <2>1. CASE o = b.size_dt_struct
    BY <2>1 DEF AtEnd
  <2>2. CASE /\ o \in Tags(b) /\ TagOf(b, o) = "END"
             /\ o + FDT_TAGSIZE = b.size_dt_struct
    BY <1>3, <2>2 DEF AtEnd
  <2>. QED
    BY <1>1, <2>1, <2>2 DEF AtEnd
<1>8. ASSUME NEW t \in Tags(c), TagOf(c, t) = "PROP"
      PROVE  NameOff(c, t) = NameOff(b, t)
  <2>1. t \in Tags(b) /\ TagOf(b, t) = "PROP"
    BY <1>2, <1>8
  <2>2. t # o
    <3>1. o \notin Tags(b) \/ TagOf(b, o) = "END"
      BY <1>1 DEF AtEnd, Tags
    <3>. QED
      BY <2>1, <3>1
  <2>. QED
    BY <1>4, <2>1, <2>2
<1>. QED
  BY <1>2, <1>6, <1>7, <1>8, SaysRepeated

(* A string more changes nothing of what is said.                          *)
LEMMA LengthenedWrites ==
  ASSUME NEW b, NEW v, Writing(b, v), InUse(b), b.size_dt_struct # 0,
         NEW s \in PropNames, NEW c, Lengthened(b, c, s), Covered(c)
  PROVE  /\ Writing(c, v) /\ InUse(c) /\ KeepsMap(b, c) /\ HasString(c, s)
         /\ Room(c) = Room(b) - Len(Tails[s])
         /\ c.size_dt_struct = b.size_dt_struct
         /\ -b.size_dt_strings - Len(Tails[s]) \in NameSpan(c)
         /\ String(c, -b.size_dt_strings - Len(Tails[s])) = s
<1> DEFINE off == b.off_dt_struct
           map == b.off_mem_rsvmap
           z == b.size_dt_struct
           total == b.totalsize
           names == b.size_dt_strings
           top == StructTop(b)
           n == Len(Tails[s])
<1>1. /\ off \in Nat /\ z \in Nat /\ total \in Nat /\ names \in Nat
      /\ top = off + z /\ b.off_dt_strings = total /\ n \in Nat /\ n > 0
      /\ map \in Nat /\ Tails[s][1] = s
  <2>1. /\ off \in Nat /\ z \in Nat /\ total \in Nat /\ names \in Nat
        /\ top = off + z /\ b.off_dt_strings = total
    BY WritingIs DEF InUse
  <2>2. n \in Nat /\ n > 0 /\ Tails[s][1] = s
    BY NamesAssumption
  <2>3. map \in Nat
    BY DEF InUse, WrittenOk, IsBlob
  <2>. QED
    BY <2>1, <2>2, <2>3
<1>2. /\ c.magic = b.magic /\ c.totalsize = total /\ c.off_dt_struct = off
      /\ c.size_dt_struct = z /\ c.off_mem_rsvmap = map
      /\ c.off_dt_strings = total
  BY <1>1 DEF Lengthened, BlobFields
<1>3. /\ IsBlob(c) /\ c.size_dt_strings = names + n /\ top <= total - names - n
      /\ \A i \in 1 .. n :
           c.mem[total - names - n + (i - 1)] = <<"string", Tails[s][i]>>
      /\ \A a \in 0 .. total - 1 :
           a < total - names - n \/ a >= total - names => c.mem[a] = b.mem[a]
  BY DEF Lengthened
<1>4. StructTop(c) = top /\ Room(c) = total - (names + n) - top
  BY <1>1, <1>2, <1>3 DEF StructTop, Room
<1>5. Room(b) = total - names - top
  BY DEF Room
<1> HIDE DEF off, z, total, names, top, n, map
<1>6. Room(c) = Room(b) - n /\ Room(c) >= 0
  BY <1>1, <1>3, <1>4, <1>5
<1>7. ASSUME NEW a \in Int, a < top, a >= 0
      PROVE  c.mem[a] = b.mem[a]
  <2>1. a \in 0 .. total - 1 /\ a < total - names - n
    BY <1>1, <1>3, <1>7
  <2>. QED
    BY <1>3, <2>1
<1>8. ASSUME NEW i \in 0 .. z - 1  PROVE Struct(c, i) = Struct(b, i)
  <2>1. off + i \in Int /\ off + i < top /\ off + i >= 0
    BY <1>1
  <2>2. c.mem[off + i] = b.mem[off + i]
    BY <1>7, <2>1
  <2>. QED
    BY <1>2, <2>2 DEF Struct, off
<1>9. ASSUME NEW o \in -names .. -1  PROVE String(c, o) = String(b, o)
  <2>1. total + o \in 0 .. total - 1 /\ total + o >= total - names
    BY <1>1, <1>3
  <2>2. c.mem[total + o] = b.mem[total + o]
    BY <1>3, <2>1
  <2>. QED
    BY <1>1, <1>2, <2>2 DEF String
<1>10. KeepsMap(b, c)
  <2>1. ASSUME NEW a \in map .. off - 1  PROVE c.mem[a] = b.mem[a]
    <3>1. a \in Int /\ a < top /\ a >= 0
      BY <1>1
    <3>. QED
      BY <1>7, <3>1
  <2>. QED
    BY <1>2, <2>1 DEF KeepsMap, off, map
<1>11. HasString(c, s)
  <2> DEFINE a == total - names - n + (1 - 1)
  <2>1. 1 \in 1 .. n /\ a \in total - (names + n) .. total - 1
    BY <1>1
  <2>2. c.mem[a] = <<"string", s>>
    BY <1>1, <1>3, <2>1
  <2> HIDE DEF a
  <2>. QED
    BY <1>2, <1>3, <2>1, <2>2 DEF HasString
<1>12. -names - n \in NameSpan(c) /\ String(c, -names - n) = s
  <2> DEFINE a == total - names - n + (1 - 1)
  <2>1. 1 \in 1 .. n /\ -names - n \in -(names + n) .. -1 /\ total + (-names - n) = a
    BY <1>1
  <2>2. c.mem[a] = <<"string", s>>
    BY <1>1, <1>3, <2>1
  <2>3. c.mem[c.off_dt_strings + (-names - n)] = <<"string", s>>
    BY <1>2, <2>1, <2>2
  <2>. QED
    BY <1>3, <2>1, <2>3 DEF NameSpan, String
<1>13. InUse(c)
  <2>1. WrittenOk(b) /\ b.off_dt_struct >= b.off_mem_rsvmap + RsvSize
    BY DEF InUse
  <2>2. WrittenOk(c)
    BY <1>2, <1>3, <1>6, <2>1 DEF WrittenOk, off, map, z
  <2>. QED
    BY <1>2, <1>6, <2>1, <2>2 DEF InUse, off, map
<1>14. Says(c, z, v) /\ Named(c)
  <2>1. Says(b, z, v) /\ \A t \in Tags(b) : TagOf(b, t) = "PROP" =>
          NameOff(b, t) \in -names .. -1
    BY DEF Writing, Named, NameSpan, z, names
  <2>2. /\ Says(c, z, v)
        /\ \A t \in Tags(c) :
             /\ t \in Tags(b) /\ TagOf(c, t) = TagOf(b, t)
             /\ TagOf(c, t) = "PROP" => NameOff(c, t) = NameOff(b, t)
    <3>1. c.size_dt_struct = b.size_dt_struct
      BY <1>2 DEF z
    <3>2. \A i \in 0 .. b.size_dt_struct - 1 : Struct(c, i) = Struct(b, i)
      BY <1>8 DEF z
    <3>3. \A t \in Tags(b) : TagOf(b, t) = "PROP" =>
            String(c, NameOff(b, t)) = String(b, NameOff(b, t))
      BY <1>9, <2>1
    <3>. QED
      BY <2>1, <3>1, <3>2, <3>3, StructStays
  <2>3. \A o \in -names .. -1 : o \in -(names + n) .. -1
    BY <1>1
  <2>. QED
    BY <1>3, <2>1, <2>2, <2>3 DEF Named, NameSpan
<1>15. Strung(c)
  <2> SUFFICES ASSUME NEW a \in total - (names + n) .. total - 1, NEW u \in PropNames,
                      c.mem[a] = <<"string", u>>
               PROVE  a + Len(Tails[u]) <= total
    BY <1>2, <1>3 DEF Strung
  <2>1. CASE a >= total - names
    <3>1. a \in total - names .. total - 1 /\ a \in 0 .. total - 1
      BY <1>1, <1>3, <2>1
    <3>2. c.mem[a] = b.mem[a]
      BY <1>3, <2>1, <3>1
    <3>. QED
      BY <3>1, <3>2 DEF Writing, Strung, total, names
  <2>2. CASE a < total - names
    <3> DEFINE i == a - (total - names - n) + 1
    <3>1. i \in 1 .. n /\ total - names - n + (i - 1) = a
      BY <1>1, <2>2
    <3> HIDE DEF i
    <3>2. c.mem[a] = <<"string", Tails[s][i]>>
      BY <1>3, <3>1
    <3>3. Tails[s][i] = u
      BY <3>2
    <3>4. Len(Tails[u]) = n - i + 1
      BY <3>1, <3>3, TailsAssumption DEF n
    <3>. QED
      BY <1>1, <3>1, <3>4
  <2>. QED
    BY <1>1, <2>1, <2>2
<1>16. \E k \in Nat : c.off_dt_struct = c.off_mem_rsvmap + k * RsvSize
  BY <1>2 DEF Writing, off, map
<1>17. Writing(c, v)
  <2>1. /\ Known \subseteq DOMAIN v /\ v.ok = TRUE /\ DOMAIN v.tree # {}
        /\ c.size_dt_struct # 0
    BY <1>2 DEF Writing, z
  <2>. QED
    BY <1>2, <1>13, <1>14, <1>15, <1>16, <2>1 DEF Writing, InUse
<1>. QED
  BY <1>2, <1>6, <1>10, <1>11, <1>12, <1>13, <1>17 DEF n, names, z

LEMMA KeepsMapOn ==
  ASSUME NEW b, NEW c, NEW d, KeepsMap(b, c), KeepsMap(c, d)
  PROVE  KeepsMap(b, d)
BY DEF KeepsMap

(* A property whose name is among the strings.                             *)
LEMMA GivenWrites ==
  ASSUME NEW b, NEW v, Writing(b, v), InUse(b), v.path # Nowhere,
         v.last = "BEGIN_NODE", NEW name, name \notin DOMAIN v.tree[v.path],
         NEW val \in Seq(Nat), NEW nameoff \in NameSpan(b), String(b, nameoff) = name,
         NEW cells, PropertyCells(cells, val, nameoff),
         NEW r, r = GrabSpace(b, cells)
  PROVE  \/ Refused(b, r, PropHeader + TagAlign(Len(val)))
         \/ /\ r.ret = 0 /\ InUse(r.fdt) /\ KeepsMap(b, r.fdt)
            /\ \E w : Writing(r.fdt, w) /\ Given(v, w, name, val)
<1> DEFINE n == Len(cells)
           m == Len(val)
           z == b.size_dt_struct
           c == r.fdt
           w == Read(c, v, z)
           size == TagAlign(m)
           T == FDT_TAGSIZE
           H == PropHeader
<1>1. /\ n = H + size /\ cells[1] = <<"tag", "PROP">>
      /\ cells[T + 1] = <<"len", m>> /\ cells[2 * T + 1] = <<"nameoff", nameoff>>
      /\ \A i \in 1 .. m : cells[H + i][2] = val[i]
      /\ OneTag(cells)
  BY DEF PropertyCells
<1>2. IsBlob(b) /\ Covered(b) /\ Room(b) >= 0 /\ WrittenOk(b)
  BY DEF InUse, WrittenOk
<1>3. /\ T \in Nat /\ T > 0 /\ H = 3 * T /\ m \in Nat /\ size \in Nat /\ size >= m
  <2>1. m \in Nat
    OBVIOUS
  <2>. QED
    BY <2>1, Aligned, TagSizeIs DEF PropHeader
<1>4. n \in Nat \ {0}
  <2> HIDE DEF T, H, m, size, n
  <2>. QED
    BY <1>1, <1>3
<1>5. \/ Refused(b, r, n)
      \/ r.ret = 0 /\ Grabbed(b, c, cells)
  BY <1>2, <1>4, GrabbedIs DEF Refused
<1>6. CASE Refused(b, r, n)
  BY <1>1, <1>6
<1>7. CASE r.ret = 0 /\ Grabbed(b, c, cells)
  <2>1. /\ z \in Tags(c) /\ TagOf(c, z) = "PROP"
        /\ IsMultiple(z) /\ z \in Nat /\ c.size_dt_struct = z + n
        /\ \A i \in 1 .. n : Struct(c, z + (i - 1)) = cells[i]
    BY <1>1, <1>2, <1>4, <1>7, WrittenTag
  <2>2. \A o \in NameSpan(b) : String(c, o) = String(b, o)
    BY <1>2, <1>4, <1>7, GrabbedStruct
  <2>3. PropLen(c, z) = m /\ NameOff(c, z) = nameoff
    <3> HIDE DEF T, H, m, size, n, z, c
    <3>1. /\ T + 1 \in 1 .. n /\ z + ((T + 1) - 1) = z + T
          /\ 2 * T + 1 \in 1 .. n /\ z + ((2 * T + 1) - 1) = z + 2 * T
      BY <1>1, <1>3, <2>1
    <3>2. Struct(c, z + T) = <<"len", m>> /\ Struct(c, z + 2 * T) = <<"nameoff", nameoff>>
      BY <1>1, <2>1, <3>1
    <3>. QED
      BY <3>2 DEF PropLen, NameOff, T
  <2>4. PropVal(c, z) = val
    <3>1. ASSUME NEW i \in 1 .. m
          PROVE  Struct(c, z + H + i - 1)[2] = val[i]
      <4> HIDE DEF T, H, m, size, n, z, c
      <4>1. H + i \in 1 .. n /\ z + ((H + i) - 1) = z + H + i - 1
        BY <1>1, <1>3, <2>1
      <4>2. Struct(c, z + H + i - 1) = cells[H + i]
        BY <2>1, <4>1
      <4>. QED
        BY <1>1, <4>2
    <3>2. PropVal(c, z) = [i \in 1 .. m |-> val[i]]
      BY <2>3, <3>1 DEF PropVal
    <3>3. val = [i \in 1 .. m |-> val[i]]
      OBVIOUS
    <3>. QED
      BY <3>2, <3>3
  <2>5. Following(c, z) = c.size_dt_struct
    <3>1. Following(c, z) = z + H + size
      BY <1>3, <2>1, <2>3, PropertyIs
    <3>2. z + H + size = z + (H + size)
      <4> HIDE DEF T, H, size, z
      <4>. QED
        BY <1>3, <2>1
    <3> HIDE DEF T, H, size, z, c, n
    <3>. QED
      BY <1>1, <2>1, <3>1, <3>2
  <2>6. TagFits(c, z)
    <3>1. c.size_dt_struct \in Nat /\ c.size_dt_struct <= c.size_dt_struct
      <4>1. IsBlob(c)
        BY <1>7 DEF Grabbed
      <4>. QED
        BY <4>1 DEF IsBlob
    <3>. QED
      BY <1>3, <2>1, <2>3, <2>5, <3>1 DEF TagFits
  <2>7. NextTag(c, z).tag = "PROP"
    <3>1. c.size_dt_struct \in Nat
      BY <1>7 DEF Grabbed, IsBlob
    <3>2. NextTag(c, z) = [tag |-> TagOf(c, z), next |-> Following(c, z)]
      BY <2>6, <3>1, TagFitsIs
    <3>. QED
      BY <2>1, <3>2
  <2>8. Known \subseteq DOMAIN v /\ v.ok = TRUE
    BY DEF Writing
  <2>9. PropName(c, z) = name
    BY <2>2, <2>3 DEF PropName
  <2>10. Given(v, w, name, val) /\ w.ok = TRUE
    <3>1. Reads(c, v, z, w)
      BY <2>8, ReadIs
    <3> HIDE DEF w, c, z
    <3>2. /\ w.path = v.path /\ w.last = v.last
          /\ w.tree = [v.tree EXCEPT ![v.path] = Put(@, PropName(c, z), PropVal(c, z))]
          /\ w.ok = (v.ok /\ v.last = "BEGIN_NODE"
                       /\ PropName(c, z) \notin DOMAIN v.tree[v.path])
      BY <2>7, <3>1 DEF Reads
    <3>3. w.tree = [v.tree EXCEPT ![v.path] = Put(@, name, val)]
      BY <2>4, <2>9, <3>2
    <3>4. w.ok = TRUE
      BY <2>8, <2>9, <3>2
    <3>. QED
      BY <3>2, <3>3, <3>4 DEF Given
  <2>11. DOMAIN w.tree # {}
    <3>1. DOMAIN v.tree # {}
      BY OpenHasTree
    <3> HIDE DEF w
    <3>. QED
      BY <2>10, <3>1 DEF Given
  <2>12. Writing(c, w) /\ InUse(c) /\ KeepsMap(b, c)
    <3>1. \A i \in 2 .. Len(cells) : cells[i][1] # "tag"
      BY <1>1 DEF OneTag
    <3>2. NameOff(c, z) \in NameSpan(b)
      BY <2>3
    <3> HIDE DEF w
    <3>3. w = Read(c, v, b.size_dt_struct)
      BY DEF w
    <3>. QED
      BY <1>4, <1>7, <2>5, <2>6, <2>10, <2>11, <3>1, <3>2, <3>3, WritingGoesOn
  <2>. QED
    BY <1>7, <2>10, <2>12
<1>. QED
  BY <1>5, <1>6, <1>7

(* The space fdt_property needs.                                           *)
PropertyNeed(b, name, val) ==
  PropHeader + TagAlign(Len(val)) + IF HasString(b, name) THEN 0 ELSE Len(Tails[name])

(* fdt_property without the check of the header.                           *)
LEMMA SwPropertySteps ==
  ASSUME NEW b, b.magic = "SW", NEW name, NEW val \in Seq(Nat),
         NEW s, s = SwFindAddString(b, name)
  PROVE  \E cells :
           /\ PropertyCells(cells, val, s.ret)
           /\ fdt_property(b, name, val) =
                IF s.ret = 0 THEN Result(b, NOSPACE) ELSE GrabSpace(s.fdt, cells)
<1> DEFINE pad == Cells(Zero, TagAlign(Len(val)) - Len(val))
           cells == Tag("PROP") \o Word("len", Len(val))
                      \o Word("nameoff", s.ret) \o Bytes(val) \o pad
<1>1. Len(val) \in Nat
  OBVIOUS
<1>2. PropertyCells(cells, val, s.ret)
  BY <1>1, PropertyCellsIs
<1>3. fdt_property(b, name, val) =
        IF s.ret = 0 THEN Result(b, NOSPACE) ELSE GrabSpace(s.fdt, cells)
  BY DEF fdt_property, SwChecked
<1> HIDE DEF cells
<1>. QED
  BY <1>2, <1>3

(* fdt_property.  When there is no space for it, there is none again.      *)
LEMMA PropertyWrites ==
  ASSUME NEW b, NEW v, Writing(b, v), InUse(b), v.path # Nowhere,
         v.last = "BEGIN_NODE", NEW name \in WriteProps,
         name \notin DOMAIN v.tree[v.path],
         NEW val \in Seq(Nat), NEW r, r = fdt_property(b, name, val)
  PROVE  \/ /\ r.ret = NOSPACE /\ InUse(r.fdt) /\ KeepsMap(b, r.fdt)
            /\ Writing(r.fdt, v) /\ Room(b) < PropertyNeed(b, name, val)
            /\ fdt_property(r.fdt, name, val).fdt = r.fdt
         \/ /\ r.ret = 0 /\ InUse(r.fdt) /\ KeepsMap(b, r.fdt)
            /\ \E w : Writing(r.fdt, w) /\ Given(v, w, name, val)
<1> DEFINE s == SwFindAddString(b, name)
           n == Len(Tails[name])
           size == PropHeader + TagAlign(Len(val))
<1>1. /\ IsBlob(b) /\ Room(b) >= 0 /\ Covered(b) /\ Strung(b) /\ b.magic = "SW"
      /\ b.off_dt_strings = b.totalsize
  BY DEF InUse, WrittenOk, Writing
<1>2. n \in Nat /\ n > 0 /\ n <= StructTop(b) /\ name \in PropNames
  <2>1. n \in Nat /\ n > 0 /\ name \in PropNames
    <3>1. name \in PropNames
      BY WritePropsAre
    <3>. QED
      BY <3>1, NamesAssumption
  <2>2. n <= FirstReservation + RsvSize
    BY WritePropsAre
  <2>3. StructTop(b) >= FirstReservation + RsvSize
    BY FirstReservationIs, RsvSizeIs DEF InUse, WrittenOk, IsBlob, StructTop
  <2>4. StructTop(b) \in Int /\ FirstReservation + RsvSize \in Int
    BY FirstReservationIs, RsvSizeIs DEF InUse, WrittenOk, IsBlob, StructTop
  <2>. QED
    BY <2>1, <2>2, <2>3, <2>4
<1>3. size \in Nat
  <2>1. Len(val) \in Nat
    OBVIOUS
  <2>. QED
    BY <2>1, Aligned, TagSizeIs DEF PropHeader
<1>4. Room(b) \in Int
  BY <1>1 DEF Room, StructTop, IsBlob
<1>5. b.size_dt_struct # 0
  BY OpenHasTree
<1>6. KeepsMap(b, b)
  BY DEF KeepsMap
<1>7. \/ /\ s.ret = 0 /\ s.fdt = b /\ ~HasString(b, name) /\ Room(b) < n
      \/ /\ s.ret \in NameSpan(b) /\ s.fdt = b /\ HasString(b, name)
         /\ String(b, s.ret) = name
      \/ /\ s.ret = -b.size_dt_strings - n
         /\ Lengthened(b, s.fdt, name) /\ ~HasString(b, name)
  BY <1>1, <1>2, AddStringIs
<1> HIDE DEF s
<1>8. PICK cells :
        /\ PropertyCells(cells, val, s.ret)
        /\ r = IF s.ret = 0 THEN Result(b, NOSPACE) ELSE GrabSpace(s.fdt, cells)
  BY <1>1, SwPropertySteps DEF s
<1>9. CASE s.ret = 0 /\ s.fdt = b /\ ~HasString(b, name) /\ Room(b) < n
  <2>1. r.fdt = b /\ r.ret = NOSPACE
    BY <1>8, <1>9 DEF Result
  <2>2. Room(b) < PropertyNeed(b, name, val)
    <3>1. PropertyNeed(b, name, val) = size + n
      BY <1>9 DEF PropertyNeed
    <3> HIDE DEF size, n
    <3>2. Room(b) < size + n
      BY <1>2, <1>3, <1>4, <1>9
    <3>. QED
      BY <3>1, <3>2
  <2>3. fdt_property(r.fdt, name, val).fdt = r.fdt
    BY <2>1
  <2>. QED
    BY <1>6, <2>1, <2>2, <2>3
<1>10. CASE /\ s.ret \in NameSpan(b) /\ s.fdt = b /\ HasString(b, name)
            /\ String(b, s.ret) = name
  <2>1. s.ret # 0
    BY <1>1, <1>10 DEF NameSpan, IsBlob
  <2>2. r = GrabSpace(b, cells)
    BY <1>8, <1>10, <2>1
  <2>3. \/ Refused(b, r, size)
        \/ /\ r.ret = 0 /\ InUse(r.fdt) /\ KeepsMap(b, r.fdt)
           /\ \E w : Writing(r.fdt, w) /\ Given(v, w, name, val)
    BY <1>8, <1>10, <2>2, GivenWrites
  <2>4. CASE Refused(b, r, size)
    <3>1. r.fdt = b /\ r.ret = NOSPACE /\ Room(b) < size
      BY <2>4 DEF Refused
    <3>2. Room(b) < PropertyNeed(b, name, val)
      <4>1. PropertyNeed(b, name, val) = size + 0
        BY <1>10 DEF PropertyNeed
      <4> HIDE DEF size
      <4>2. size + 0 = size
        BY <1>3
      <4>. QED
        BY <3>1, <4>1, <4>2
    <3>3. fdt_property(r.fdt, name, val).fdt = r.fdt
      BY <3>1
    <3>. QED
      BY <1>6, <3>1, <3>2, <3>3
  <2>. QED
    BY <2>3, <2>4
<1>11. CASE /\ s.ret = -b.size_dt_strings - n
            /\ Lengthened(b, s.fdt, name) /\ ~HasString(b, name)
  <2> DEFINE c == s.fdt
  <2>1. s.ret # 0
    <3>1. b.size_dt_strings \in Nat
      BY <1>1 DEF IsBlob
    <3> HIDE DEF n
    <3>. QED
      BY <1>2, <1>11, <3>1
  <2>2. r = GrabSpace(c, cells)
    BY <1>8, <2>1
  <2>3. Covered(c)
    <3>1. IsBlob(b) /\ DOMAIN b.mem \subseteq DOMAIN c.mem
      BY <1>1, <1>2, SwFindAddStringIs DEF s
    <3>2. c.totalsize = b.totalsize
      BY <1>11 DEF Lengthened, BlobFields
    <3>. QED
      BY <1>1, <3>1, <3>2 DEF Covered
  <2>4. /\ Writing(c, v) /\ InUse(c) /\ KeepsMap(b, c) /\ HasString(c, name)
        /\ Room(c) = Room(b) - n /\ c.size_dt_struct = b.size_dt_struct
        /\ s.ret \in NameSpan(c) /\ String(c, s.ret) = name
    BY <1>2, <1>5, <1>11, <2>3, LengthenedWrites
  <2>5. \/ Refused(c, r, size)
        \/ /\ r.ret = 0 /\ InUse(r.fdt) /\ KeepsMap(c, r.fdt)
           /\ \E w : Writing(r.fdt, w) /\ Given(v, w, name, val)
    <3>1. /\ Writing(c, v) /\ InUse(c)
          /\ s.ret \in NameSpan(c) /\ String(c, s.ret) = name
      BY <2>4
    <3>2. PropertyCells(cells, val, s.ret) /\ r = GrabSpace(c, cells)
      BY <1>8, <2>2
    <3> HIDE DEF c, n
    <3>. QED
      BY <3>1, <3>2, GivenWrites
  <2>6. CASE Refused(c, r, size)
    <3>1. r.fdt = c /\ r.ret = NOSPACE /\ Room(c) < size
      BY <2>6 DEF Refused
    <3>2. Room(b) < PropertyNeed(b, name, val)
      <4>1. PropertyNeed(b, name, val) = size + n
        BY <1>11 DEF PropertyNeed
      <4> HIDE DEF size, n
      <4>2. Room(b) < size + n
        BY <1>2, <1>3, <1>4, <2>4, <3>1
      <4>. QED
        BY <4>1, <4>2
    <3>3. fdt_property(c, name, val).fdt = c
      <4> DEFINE s2 == SwFindAddString(c, name)
      <4>1. /\ IsBlob(c) /\ Room(c) >= 0 /\ Covered(c) /\ Strung(c)
            /\ c.off_dt_strings = c.totalsize /\ c.magic = "SW"
        BY <2>4 DEF InUse, WrittenOk, Writing
      <4>2. n <= StructTop(c)
        <5>1. StructTop(c) = StructTop(b)
          BY <2>4 DEF StructTop, KeepsMap
        <5>. QED
          BY <1>2, <5>1
      <4>3. s2.ret \in NameSpan(c) /\ s2.fdt = c
        BY <1>2, <2>4, <4>1, <4>2, AddStringIs
      <4> HIDE DEF s2
      <4>4. s2.ret # 0
        BY <4>1, <4>3 DEF NameSpan, IsBlob
      <4>5. PICK again :
              /\ PropertyCells(again, val, s2.ret)
              /\ fdt_property(c, name, val) =
                   IF s2.ret = 0 THEN Result(c, NOSPACE) ELSE GrabSpace(s2.fdt, again)
        BY <4>1, SwPropertySteps DEF s2
      <4>6. fdt_property(c, name, val) = GrabSpace(c, again)
        BY <4>3, <4>4, <4>5
      <4>7. Len(again) = size /\ Len(cells) = size
        BY <1>8, <4>5 DEF PropertyCells
      <4>8. Below(SpaceLeft(c), c.size_dt_struct + Len(cells))
        <5>1. r.ret # 0
          BY <3>1 DEF NOSPACE
        <5>2. GrabSpace(c, cells).ret # 0
          BY <2>2, <5>1
        <5> HIDE DEF c
        <5>. QED
          BY <5>2 DEF GrabSpace, Result
      <4>9. Below(SpaceLeft(c), c.size_dt_struct + Len(again))
        BY <4>7, <4>8
      <4> HIDE DEF c
      <4>. QED
        BY <4>6, <4>9 DEF GrabSpace, Result
    <3>. QED
      BY <2>4, <3>1, <3>2, <3>3
  <2>7. CASE /\ r.ret = 0 /\ InUse(r.fdt) /\ KeepsMap(c, r.fdt)
             /\ \E w : Writing(r.fdt, w) /\ Given(v, w, name, val)
    <3>1. KeepsMap(b, r.fdt)
      BY <2>4, <2>7, KeepsMapOn
    <3>. QED
      BY <2>7, <3>1
  <2>. QED
    BY <2>5, <2>6, <2>7
<1>. QED
  BY <1>7, <1>9, <1>10, <1>11

-----------------------------------------------------------------------------
(* The map of reservations while it is written.                            *)

(* How many entries there is room for in front of the structure.           *)
NumEntries(b) == (b.off_dt_struct - b.off_mem_rsvmap) \div RsvSize

(* They lie there.                                                         *)
LEMMA EntryPlaces ==
  ASSUME NEW off \in Nat, NEW map \in Nat, map <= off,
         NEW n, n = (off - map) \div RsvSize
  PROVE  /\ n \in Nat /\ n * RsvSize <= off - map
         /\ off - map < n * RsvSize + RsvSize
         /\ \A i \in 1 .. n :
              /\ map + (i - 1) * RsvSize \in map .. off - 1
              /\ map + (i - 1) * RsvSize + 2 * FDT_TAGSIZE \in map .. off - 1
<1> DEFINE R == RsvSize
           d == off - map
           T == FDT_TAGSIZE
<1>1. R \in Nat /\ R > 2 * T /\ T \in Nat /\ d \in Nat
  BY RsvSizeIs
<1>2. n = d \div R
  OBVIOUS
<1> HIDE DEF R, d, T
<1>3. n \in Int /\ d = R * n + (d % R) /\ d % R \in 0 .. R - 1
  BY <1>1, <1>2
<1>4. n >= 0
  <2>1. ASSUME n < 0  PROVE FALSE
    <3>1. -n - 1 \in Nat
      BY <1>3, <2>1
    <3>2. R * (-n - 1) >= 0
      BY <1>1, <3>1
    <3>3. R * (-n - 1) = -(R * n) - R
      BY <1>1, <1>3
    <3>. QED
      BY <1>1, <1>3, <3>2, <3>3
  <2>. QED
    BY <1>3, <2>1
<1>5. n \in Nat
  BY <1>3, <1>4
<1>6. n * R \in Nat /\ (n + 1) * R = n * R + R
  BY <1>5, EntriesAre DEF R
<1>7. n * R = R * n
  BY <1>1, <1>5
<1>8. n * R <= d /\ d < n * R + R
  <2> DEFINE x == n * R
             rest == d % R
  <2>1. x \in Nat /\ d = x + rest /\ rest \in 0 .. R - 1
    BY <1>3, <1>6, <1>7
  <2> HIDE DEF x, rest
  <2>2. x <= d /\ d < x + R
    BY <1>1, <2>1
  <2>. QED
    BY <2>2 DEF x
<1>9. ASSUME NEW i \in 1 .. n
      PROVE  /\ map + (i - 1) * R \in map .. off - 1
             /\ map + (i - 1) * R + 2 * T \in map .. off - 1
  <2> DEFINE j == i - 1
  <2>1. j \in Nat /\ j + 1 \in 0 .. n
    BY <1>5
  <2> HIDE DEF j
  <2>2. j * R \in Nat /\ (j + 1) * R = j * R + R
    BY <2>1, EntriesAre DEF R
  <2>3. (j + 1) * R <= n * R
    BY <1>5, <2>1, EntriesAre DEF R
  <2>4. off = map + d
    BY <1>1 DEF d
  <2> DEFINE x == j * R
             y == n * R
  <2>5. x \in Nat /\ y \in Nat /\ x + R <= y /\ y <= d
    BY <1>6, <1>8, <2>2, <2>3
  <2> HIDE DEF x, y
  <2>6. map + x \in map .. off - 1 /\ map + x + 2 * T \in map .. off - 1
    BY <1>1, <2>4, <2>5
  <2>. QED
    BY <2>6 DEF x, j
<1>. QED
  BY <1>5, <1>8, <1>9 DEF R, d, T

(* There are two cells in each that matter.                                *)
EntryAt(b, i) ==
  <<b.mem[b.off_mem_rsvmap + (i - 1) * RsvSize][2],
    b.mem[b.off_mem_rsvmap + (i - 1) * RsvSize + 2 * FDT_TAGSIZE][2]>>

LEMMA EntriesListed ==
  ASSUME NEW b, NEW n \in Nat, NumEntries(b) = n
  PROVE  /\ Entries(b) = [i \in 1 .. n |-> EntryAt(b, i)]
         /\ Len(Entries(b)) = n
         /\ \A i \in 1 .. n : Entries(b)[i] = EntryAt(b, i)
         /\ Entries(b) \in Seq({EntryAt(b, i) : i \in 1 .. n})
<1> DEFINE S == {EntryAt(b, i) : i \in 1 .. n}
<1>1. Entries(b) = [i \in 1 .. NumEntries(b) |-> EntryAt(b, i)]
  BY Zenon DEF Entries, NumEntries, EntryAt
<1>2. Entries(b) = [i \in 1 .. n |-> EntryAt(b, i)]
  BY <1>1
<1>3. \A i \in 1 .. n : EntryAt(b, i) \in S
  OBVIOUS
<1> HIDE DEF S
<1>4. [i \in 1 .. n |-> EntryAt(b, i)] \in Seq(S)
  BY <1>3
<1>5. Len([i \in 1 .. n |-> EntryAt(b, i)]) = n
  OBVIOUS
<1>. QED
  BY <1>2, <1>4, <1>5 DEF S

(* They stay with the map.                                                 *)
LEMMA EntriesStay ==
  ASSUME NEW b, IsBlob(b), b.off_mem_rsvmap <= b.off_dt_struct,
         NEW c, KeepsMap(b, c)
  PROVE  Entries(c) = Entries(b)
<1> DEFINE n == NumEntries(b)
<1>1. /\ b.off_dt_struct \in Nat /\ b.off_mem_rsvmap \in Nat
      /\ c.off_dt_struct = b.off_dt_struct /\ c.off_mem_rsvmap = b.off_mem_rsvmap
      /\ \A a \in b.off_mem_rsvmap .. b.off_dt_struct - 1 : c.mem[a] = b.mem[a]
  BY DEF IsBlob, KeepsMap
<1>2. n \in Nat /\ NumEntries(c) = n
      /\ \A i \in 1 .. n :
           LET at == b.off_mem_rsvmap + (i - 1) * RsvSize
           IN  /\ at \in b.off_mem_rsvmap .. b.off_dt_struct - 1
               /\ at + 2 * FDT_TAGSIZE \in b.off_mem_rsvmap .. b.off_dt_struct - 1
  BY <1>1, EntryPlaces DEF NumEntries
<1>3. ASSUME NEW i \in 1 .. n  PROVE EntryAt(c, i) = EntryAt(b, i)
  BY <1>1, <1>2 DEF EntryAt
<1>4. Entries(b) = [i \in 1 .. n |-> EntryAt(b, i)]
      /\ Entries(c) = [i \in 1 .. n |-> EntryAt(c, i)]
  BY <1>2, EntriesListed
<1>. QED
  BY <1>3, <1>4

(* One more at the end.                                                    *)
LEMMA EntryAdded ==
  ASSUME NEW b, IsBlob(b), NEW k \in Nat,
         b.off_dt_struct = b.off_mem_rsvmap + k * RsvSize,
         NEW c, c.off_mem_rsvmap = b.off_mem_rsvmap,
         c.off_dt_struct = b.off_dt_struct + RsvSize,
         \A a \in b.off_mem_rsvmap .. b.off_dt_struct - 1 : c.mem[a] = b.mem[a],
         NEW address, NEW size,
         c.mem[b.off_dt_struct][2] = address,
         c.mem[b.off_dt_struct + 2 * FDT_TAGSIZE][2] = size
  PROVE  /\ Entries(c) = Append(Entries(b), <<address, size>>)
         /\ NumEntries(b) = k /\ NumEntries(c) = k + 1
         /\ \A i \in 1 .. k : EntryAt(c, i) = EntryAt(b, i)
         /\ EntryAt(c, k + 1) = <<address, size>>
<1> DEFINE map == b.off_mem_rsvmap
           off == b.off_dt_struct
           R == RsvSize
           T == FDT_TAGSIZE
           x == <<address, size>>
<1>1. map \in Nat /\ off \in Nat /\ R \in Nat /\ R > 2 * T /\ T \in Nat
  BY RsvSizeIs DEF IsBlob
<1>2. k * R \in Nat /\ (k + 1) * R = k * R + R
  BY EntriesAre
<1> HIDE DEF map, R, off, T
<1>3. (k * R) \div R = k /\ (k * R + R) \div R = k + 1
  <2>1. \A j \in Nat : (j * R) \div R = j
    <3> SUFFICES ASSUME NEW j \in Nat PROVE (j * R) \div R = j
      OBVIOUS
    <3> DEFINE d == j * R
               q == d \div R
               r == d % R
    <3>1. R \in Nat /\ R > 0 /\ d \in Nat
      BY <1>1, EntriesAre DEF R
    <3>2. q \in Int /\ r \in 0 .. R - 1 /\ d = R * q + r
      <4> HIDE DEF d
      <4>. QED
        BY <3>1
    <3>3. d = R * j + 0 /\ 0 \in 0 .. R - 1
      BY <1>1, <3>1
    <3> HIDE DEF d, q, r
    <3> DEFINE zero == 0
    <3>4. d = R * j + zero /\ zero \in 0 .. R - 1
      BY <3>3
    <3> HIDE DEF zero
    <3>5. R * q + r = R * j + zero
      BY <3>2, <3>4
    <3>6. q = j
      BY <3>1, <3>2, <3>4, <3>5, OneRemainder
    <3>. QED
      BY <3>6 DEF q, d
  <2>2. (k * R) \div R = k
    BY <2>1
  <2>3. ((k + 1) * R) \div R = k + 1
    BY <2>1
  <2>. QED
    BY <1>2, <2>2, <2>3
<1>4. NumEntries(b) = k /\ NumEntries(c) = k + 1
  <2>1. off = map + k * R
    BY DEF off, map, R
  <2> DEFINE y == k * R
  <2>2. y \in Nat /\ off = map + y
    BY <1>2, <2>1
  <2> HIDE DEF y
  <2>3. off - map = y /\ (off + R) - map = y + R
    BY <1>1, <2>2
  <2>4. NumEntries(b) = (off - map) \div R /\ NumEntries(c) = ((off + R) - map) \div R
    BY DEF NumEntries, off, map, R
  <2>. QED
    BY <1>3, <2>3, <2>4 DEF y
<1>5. ASSUME NEW i \in 1 .. k  PROVE EntryAt(c, i) = EntryAt(b, i)
  <2>1. map <= off /\ k = (off - map) \div R
    <3>1. off = map + k * R
      BY DEF off, map, R
    <3> DEFINE y == k * R
    <3>2. y \in Nat /\ off = map + y
      BY <1>2, <3>1
    <3> HIDE DEF y
    <3>3. map <= off /\ off - map = y
      BY <1>1, <3>2
    <3>. QED
      BY <1>3, <3>3 DEF y
  <2>2. /\ map + (i - 1) * R \in map .. off - 1
        /\ map + (i - 1) * R + 2 * T \in map .. off - 1
    BY <1>1, <2>1, EntryPlaces DEF R, T
  <2>. QED
    BY <2>2 DEF EntryAt, map, off, R, T
<1>6. EntryAt(c, k + 1) = x
  <2>1. map + ((k + 1) - 1) * R = off
    BY DEF map, off, R
  <2>. QED
    BY <2>1 DEF EntryAt, map, off, R, T
<1> HIDE DEF x
<1>7. /\ Entries(b) = [i \in 1 .. k |-> EntryAt(b, i)] /\ Len(Entries(b)) = k
      /\ Entries(c) = [i \in 1 .. k + 1 |-> EntryAt(c, i)]
      /\ Entries(b) \in Seq({EntryAt(b, i) : i \in 1 .. k})
  <2> DEFINE m == k + 1
  <2>1. m \in Nat /\ NumEntries(c) = m
    BY <1>4
  <2> HIDE DEF m
  <2>2. Entries(b) = [i \in 1 .. k |-> EntryAt(b, i)] /\ Len(Entries(b)) = k
        /\ Entries(b) \in Seq({EntryAt(b, i) : i \in 1 .. k})
    BY <1>4, EntriesListed
  <2>3. Entries(c) = [i \in 1 .. m |-> EntryAt(c, i)]
    BY <2>1, EntriesListed
  <2>. QED
    BY <2>2, <2>3 DEF m
<1>8. Append(Entries(b), x) = [i \in 1 .. k + 1 |-> IF i <= k THEN Entries(b)[i] ELSE x]
  <2> DEFINE s == Entries(b)
             S == {EntryAt(b, i) : i \in 1 .. k}
  <2>1. s \in Seq(S) /\ Len(s) = k
    BY <1>7
  <2> HIDE DEF s, S
  <2>2. s \in Seq(S \cup {x}) /\ x \in S \cup {x}
    BY <2>1
  <2>3. /\ Append(s, x) \in Seq(S \cup {x}) /\ Len(Append(s, x)) = k + 1
        /\ \A i \in 1 .. k + 1 : Append(s, x)[i] = IF i <= k THEN s[i] ELSE x
    <3>1. Append(s, x) \in Seq(S \cup {x}) /\ Len(Append(s, x)) = Len(s) + 1
      BY <2>2
    <3>2. ASSUME NEW i \in 1 .. k + 1
          PROVE  Append(s, x)[i] = IF i <= k THEN s[i] ELSE x
      BY <2>1, <2>2
    <3>. QED
      BY <2>1, <3>1, <3>2
  <2>4. Append(s, x) = [i \in 1 .. k + 1 |-> Append(s, x)[i]]
    <3>1. \A q \in Seq(S \cup {x}) : q = [i \in 1 .. Len(q) |-> q[i]]
      OBVIOUS
    <3> DEFINE q == Append(s, x)
    <3>2. q \in Seq(S \cup {x}) /\ Len(q) = k + 1
      BY <2>3
    <3> HIDE DEF q
    <3>3. q = [i \in 1 .. k + 1 |-> q[i]]
      BY <3>1, <3>2
    <3>. QED
      BY <3>3 DEF q
  <2>5. Append(s, x) = [i \in 1 .. k + 1 |-> IF i <= k THEN s[i] ELSE x]
    BY <2>3, <2>4
  <2>. QED
    BY <2>5 DEF s
<1>9. ASSUME NEW i \in 1 .. k + 1
      PROVE  EntryAt(c, i) = IF i <= k THEN Entries(b)[i] ELSE x
  <2>1. CASE i <= k
    <3>1. i \in 1 .. k
      BY <2>1
    <3>. QED
      BY <1>5, <1>7, <2>1, <3>1
  <2>2. CASE ~(i <= k)
    <3>1. i = k + 1
      BY <2>2
    <3>. QED
      BY <1>6, <2>2, <3>1
  <2>. QED
    BY <2>1, <2>2
<1>10. Entries(c) = Append(Entries(b), x)
  BY <1>7, <1>8, <1>9
<1>. QED
  BY <1>4, <1>5, <1>6, <1>10 DEF x

(* The first entry of size 0 ends the list.                                *)
LEMMA ReservedIs ==
  ASSUME NEW b, NumEntries(b) \in Nat
  PROVE  /\ ~Mapped(b) => Reserved(b) = Entries(b)
         /\ \A e \in 1 .. NumEntries(b) :
              /\ EntryAt(b, e)[2] = 0
              /\ \A i \in 1 .. e - 1 : EntryAt(b, i)[2] # 0
              => Mapped(b) /\ Reserved(b) = SubSeq(Entries(b), 1, e - 1)
<1> DEFINE n == NumEntries(b)
           ends == {i \in 1 .. Len(Entries(b)) : Entries(b)[i][2] = 0}
           end == IF ends # {} THEN Min(ends) ELSE 0
<1>1. Len(Entries(b)) = n /\ \A i \in 1 .. n : Entries(b)[i] = EntryAt(b, i)
  BY EntriesListed
<1>2. Reserved(b) = IF end = 0 THEN Entries(b) ELSE SubSeq(Entries(b), 1, end - 1)
  BY Zenon DEF Reserved, SelectInSeq
<1>3. Mapped(b) <=> ends # {}
  BY DEF Mapped
<1>4. CASE ~Mapped(b)
  <2>1. end = 0
    BY <1>3, <1>4
  <2>2. Reserved(b) = Entries(b)
    BY <1>2, <2>1
  <2>3. ASSUME NEW e \in 1 .. n, EntryAt(b, e)[2] = 0  PROVE FALSE
    BY <1>1, <1>3, <1>4, <2>3
  <2>. QED
    BY <2>2, <2>3
<1>5. ASSUME NEW e \in 1 .. n, EntryAt(b, e)[2] = 0,
             \A i \in 1 .. e - 1 : EntryAt(b, i)[2] # 0
      PROVE  Mapped(b) /\ Reserved(b) = SubSeq(Entries(b), 1, e - 1)
  <2>1. e \in ends
    BY <1>1, <1>5
  <2>2. \A i \in ends : e <= i
    <3> SUFFICES ASSUME NEW i \in ends, i < e  PROVE FALSE
      BY <1>1
    <3>1. i \in 1 .. n /\ EntryAt(b, i)[2] = 0
      BY <1>1
    <3>2. i \in 1 .. e - 1
      BY <3>1
    <3>. QED
      BY <1>5, <3>1, <3>2
  <2>3. Min(ends) = e
    <3> HIDE DEF ends
    <3>1. \A y \in ends : y \in Int
      BY <1>1 DEF ends
    <3>2. ASSUME NEW y \in ends, \A i \in ends : y <= i  PROVE y = e
      <4>1. y <= e /\ e <= y /\ y \in Int /\ e \in Int
        BY <2>1, <2>2, <3>1, <3>2
      <4>. QED
        BY <4>1
    <3>3. Min(ends) = CHOOSE y \in ends : \A i \in ends : y <= i
      BY DEF Min
    <3>. QED
      BY <2>1, <2>2, <3>2, <3>3
  <2>4. end = e /\ e # 0
    BY <2>1, <2>3
  <2> HIDE DEF end, ends
  <2>. QED
    BY <1>2, <1>3, <2>1, <2>4
<1>. QED
  BY <1>3, <1>4, <1>5


(* What the entries behind the end of the list say does not count.         *)
LEMMA EntryCounts ==
  ASSUME NEW b, NEW c, NEW k \in Nat, NumEntries(b) = k, NumEntries(c) = k + 1,
         NEW address, NEW size,
         Entries(c) = Append(Entries(b), <<address, size>>),
         \A i \in 1 .. k : EntryAt(c, i) = EntryAt(b, i),
         EntryAt(c, k + 1) = <<address, size>>
  PROVE  /\ Mapped(b) => Mapped(c) /\ Reserved(c) = Reserved(b)
         /\ ~Mapped(b) /\ size # 0 =>
              ~Mapped(c) /\ Reserved(c) = Append(Reserved(b), <<address, size>>)
         /\ ~Mapped(b) /\ size = 0 => Mapped(c) /\ Reserved(c) = Reserved(b)
<1> DEFINE x == <<address, size>>
           m == k + 1
           s == Entries(b)
           t == Entries(c)
<1>1. m \in Nat /\ m = k + 1 /\ NumEntries(c) = m /\ x[2] = size
  OBVIOUS
<1>2. t = Append(s, x) /\ EntryAt(c, m) = x
  OBVIOUS
<1> HIDE DEF x, m, s, t
<1>3. s = [i \in 1 .. k |-> EntryAt(b, i)] /\ Len(s) = k
      /\ \A i \in 1 .. k : s[i] = EntryAt(b, i)
  BY EntriesListed DEF s
<1>4. t = [i \in 1 .. m |-> EntryAt(c, i)] /\ Len(t) = m
      /\ \A i \in 1 .. m : t[i] = EntryAt(c, i)
  BY <1>1, EntriesListed DEF t
<1>5. /\ ~Mapped(b) => Reserved(b) = s
      /\ \A e \in 1 .. k : EntryAt(b, e)[2] = 0
                            /\ (\A i \in 1 .. e - 1 : EntryAt(b, i)[2] # 0)
                            => Mapped(b) /\ Reserved(b) = SubSeq(s, 1, e - 1)
  BY ReservedIs DEF s
<1>6. /\ ~Mapped(c) => Reserved(c) = t
      /\ \A e \in 1 .. m : EntryAt(c, e)[2] = 0
                            /\ (\A i \in 1 .. e - 1 : EntryAt(c, i)[2] # 0)
                            => Mapped(c) /\ Reserved(c) = SubSeq(t, 1, e - 1)
  BY <1>1, ReservedIs DEF t
<1>7. Mapped(b) <=> \E i \in 1 .. k : EntryAt(b, i)[2] = 0
  BY <1>3 DEF Mapped, s
<1>8. Mapped(c) <=> \E i \in 1 .. m : EntryAt(c, i)[2] = 0
  BY <1>4 DEF Mapped, t
<1>9. ASSUME NEW n \in 0 .. k
      PROVE  /\ SubSeq(s, 1, n) = [i \in 1 .. n |-> EntryAt(b, i)]
             /\ SubSeq(t, 1, n) = [i \in 1 .. n |-> EntryAt(c, i)]
  <2>1. SubSeq(s, 1, n) = [i \in 1 .. n |-> EntryAt(b, i)]
    <3> DEFINE S == {EntryAt(b, i) : i \in 1 .. k}
    <3>1. \A i \in 1 .. k : EntryAt(b, i) \in S
      OBVIOUS
    <3> HIDE DEF S
    <3>2. s \in Seq(S)
      BY <1>3, <3>1
    <3>3. SubSeq(s, 1, n) = [i \in 1 .. n |-> s[i]]
      BY <1>3, <3>2
    <3>4. \A i \in 1 .. n : s[i] = EntryAt(b, i)
      BY <1>3
    <3>. QED
      BY <3>3, <3>4
  <2>2. SubSeq(t, 1, n) = [i \in 1 .. n |-> EntryAt(c, i)]
    <3> DEFINE S == {EntryAt(c, i) : i \in 1 .. m}
    <3>1. \A i \in 1 .. m : EntryAt(c, i) \in S
      OBVIOUS
    <3> HIDE DEF S
    <3>2. t \in Seq(S)
      BY <1>1, <1>4, <3>1
    <3>3. SubSeq(t, 1, n) = [i \in 1 .. n |-> t[i]]
      BY <1>1, <1>4, <3>2
    <3>4. \A i \in 1 .. n : t[i] = EntryAt(c, i)
      BY <1>1, <1>4
    <3>. QED
      BY <3>3, <3>4
  <2>. QED
    BY <2>1, <2>2
<1>10. \A i \in 1 .. k : EntryAt(c, i) = EntryAt(b, i)
  OBVIOUS
<1>11. ASSUME Mapped(b)  PROVE Mapped(c) /\ Reserved(c) = Reserved(b)
  <2> DEFINE Z == {i \in 1 .. k : EntryAt(b, i)[2] = 0}
  <2>1. Z \subseteq Nat /\ Z # {}
    BY <1>7, <1>11
  <2>2. PICK e \in Z : \A i \in Z : e <= i
    <3> HIDE DEF Z
    <3>. QED
      BY <2>1, LeastNumber
  <2>3. e \in 1 .. k /\ EntryAt(b, e)[2] = 0
        /\ \A i \in 1 .. e - 1 : EntryAt(b, i)[2] # 0
    BY <2>2
  <2>4. Reserved(b) = SubSeq(s, 1, e - 1)
    BY <1>5, <2>3
  <2>5. e \in 1 .. m /\ EntryAt(c, e)[2] = 0
        /\ \A i \in 1 .. e - 1 : EntryAt(c, i)[2] # 0
    BY <1>1, <1>10, <2>3
  <2>6. Mapped(c) /\ Reserved(c) = SubSeq(t, 1, e - 1)
    BY <1>6, <2>5
  <2> DEFINE n == e - 1
  <2>7. n \in 0 .. k
    BY <2>3
  <2> HIDE DEF n
  <2>8. SubSeq(s, 1, n) = [i \in 1 .. n |-> EntryAt(b, i)]
        /\ SubSeq(t, 1, n) = [i \in 1 .. n |-> EntryAt(c, i)]
    BY <1>9, <2>7
  <2>9. \A i \in 1 .. n : EntryAt(c, i) = EntryAt(b, i)
    BY <1>10, <2>7
  <2>10. SubSeq(s, 1, n) = SubSeq(t, 1, n)
    BY <2>8, <2>9
  <2>. QED
    BY <2>4, <2>6, <2>10 DEF n
<1>12. ASSUME ~Mapped(b), size # 0
       PROVE  ~Mapped(c) /\ Reserved(c) = Append(Reserved(b), x)
  <2>1. \A i \in 1 .. m : EntryAt(c, i)[2] # 0
    <3> SUFFICES ASSUME NEW i \in 1 .. m  PROVE EntryAt(c, i)[2] # 0
      OBVIOUS
    <3>1. CASE i \in 1 .. k
      BY <1>7, <1>10, <1>12, <3>1
    <3>2. CASE i = m
      BY <1>1, <1>2, <1>12, <3>2
    <3>. QED
      BY <1>1, <3>1, <3>2
  <2>2. ~Mapped(c)
    BY <1>8, <2>1
  <2>. QED
    BY <1>2, <1>5, <1>6, <1>12, <2>2
<1>13. ASSUME ~Mapped(b), size = 0  PROVE Mapped(c) /\ Reserved(c) = Reserved(b)
  <2>1. m \in 1 .. m /\ m - 1 = k /\ k \in 0 .. k
    BY <1>1
  <2>2. EntryAt(c, m)[2] = 0
    BY <1>1, <1>2, <1>13
  <2>3. \A i \in 1 .. m - 1 : EntryAt(c, i)[2] # 0
    BY <1>7, <1>10, <1>13, <2>1
  <2>4. Mapped(c) /\ Reserved(c) = SubSeq(t, 1, m - 1)
    BY <1>6, <2>1, <2>2, <2>3
  <2>5. SubSeq(t, 1, k) = [i \in 1 .. k |-> EntryAt(c, i)]
    BY <1>9, <2>1
  <2>6. SubSeq(t, 1, k) = s
    BY <1>3, <1>10, <2>5
  <2>. QED
    BY <1>5, <1>13, <2>1, <2>4, <2>6
<1>. QED
  BY <1>11, <1>12, <1>13 DEF x

(* Where there is no structure yet nothing is said.                        *)
LEMMA EmptySays ==
  ASSUME NEW b, b.size_dt_struct = 0
  PROVE  /\ Says(b, b.size_dt_struct, Blank) /\ Named(b)
         /\ Known \subseteq DOMAIN Blank /\ Blank.ok = TRUE
<1> DEFINE p == [i \in {0} |-> 0]
           g == [i \in {0} |-> Blank]
           n == 0
<1>1. Tags(b) = {}
  <2>1. \A t \in Tags(b) : t \in 0 .. 0 - 1
    BY TagsAre
  <2>. QED
    BY <2>1
<1>2. n \in Nat /\ p[0] = 0 /\ g[0] = Blank /\ 0 .. n - 1 = {}
      /\ p[n] = 0 /\ g[n] = Blank
  OBVIOUS
<1>3. b.size_dt_struct \in Nat /\ IsMultiple(b.size_dt_struct)
  BY SizesAssumption DEF IsMultiple
<1> HIDE DEF n, p, g
<1>4. IsWalk(b, n, p)
  <2>1. AtEnd(b, p[n])
    BY <1>2 DEF AtEnd
  <2>. QED
    BY <1>1, <1>2, <1>3, <2>1 DEF IsWalk
<1>5. IsRead(b, n, p, g)
  BY <1>2 DEF IsRead
<1>6. Says(b, b.size_dt_struct, Blank)
  BY <1>2, <1>4, <1>5 DEF Says, IsScribe
<1>7. Named(b)
  BY <1>1 DEF Named
<1>8. Known \subseteq DOMAIN Blank /\ Blank.ok = TRUE
  BY DEF Known, Blank
<1>. QED
  BY <1>6, <1>7, <1>8

(* What a new entry does to the reservations.                              *)
Listed(b, c, address, size) ==
  /\ Mapped(b) => Mapped(c) /\ Reserved(c) = Reserved(b)
  /\ ~Mapped(b) /\ size # 0 =>
       ~Mapped(c) /\ Reserved(c) = Append(Reserved(b), <<address, size>>)
  /\ ~Mapped(b) /\ size = 0 => Mapped(c) /\ Reserved(c) = Reserved(b)

(* fdt_add_reservemap_entry.                                               *)
LEMMA ReservationWrites ==
  ASSUME NEW b, NEW v, Writing(b, v), NEW address, NEW size,
         NEW r, r = fdt_add_reservemap_entry(b, address, size)
  PROVE  \/ r.ret = BADSTATE /\ r.fdt = b /\ b.size_dt_struct # 0
         \/ Refused(b, r, RsvSize) /\ b.size_dt_struct = 0
         \/ /\ r.ret = 0 /\ b.size_dt_struct = 0
            /\ Writing(r.fdt, v) /\ InUse(r.fdt)
            /\ Listed(b, r.fdt, address, size)
<1> DEFINE entry == Reservation(address, size)
           p == Poke(b, b.off_dt_struct, entry)
           q == [p EXCEPT !.off_dt_struct = @ + RsvSize]
           off == b.off_dt_struct
           map == b.off_mem_rsvmap
           T == FDT_TAGSIZE
           R == RsvSize
<1>1. WrittenOk(b) /\ IsBlob(b) /\ Covered(b) /\ b.magic = "SW"
      /\ (b.size_dt_struct = 0 => b.size_dt_strings = 0)
      /\ b.off_dt_strings = b.totalsize
  BY DEF Writing, WrittenOk
<1>2. CASE b.size_dt_struct # 0
  <2>1. r = Result(b, BADSTATE)
    BY <1>1, <1>2 DEF fdt_add_reservemap_entry, SwChecked
  <2>. QED
    BY <1>2, <2>1 DEF Result
<1>3. CASE b.size_dt_struct = 0 /\ off + R > b.totalsize
  <2>1. r = Result(b, NOSPACE)
    BY <1>1, <1>3 DEF fdt_add_reservemap_entry, SwChecked
  <2>2. Room(b) < R
    <3>1. off \in Nat /\ b.totalsize \in Nat /\ R \in Nat
      BY <1>1, RsvSizeIs DEF IsBlob
    <3>2. Room(b) = b.totalsize - 0 - (off + 0)
      BY <1>1, <1>3 DEF Room, StructTop
    <3>. QED
      BY <1>3, <3>1, <3>2
  <2>. QED
    BY <1>3, <2>1, <2>2 DEF Result, Refused
<1>4. CASE b.size_dt_struct = 0 /\ ~(off + R > b.totalsize)
  <2>1. r = Result(q, 0)
    BY <1>1, <1>4 DEF fdt_add_reservemap_entry, SwChecked
  <2>2. r.fdt = q /\ r.ret = 0
    BY <2>1 DEF Result
  <2>3. Len(entry) = R /\ entry[2 * T + 1] = <<"size", size>>
        /\ entry[1] = <<"address", address>>
    BY ReservationIs, ReservationBegins
  <2> HIDE DEF entry
  <2>4. /\ DOMAIN p = BlobFields
        /\ \A f \in BlobFields \ {"mem"} : p[f] = b[f]
        /\ \A a \in Span(off, R) : p.mem[a] = entry[a - off + 1]
        /\ \A a \in DOMAIN b.mem \ Span(off, R) : p.mem[a] = b.mem[a]
    BY <1>1, <2>3, PokeIs DEF IsBlob
  <2> HIDE DEF p
  <2>5. /\ DOMAIN q = BlobFields /\ q.mem = p.mem
        /\ q.off_dt_struct = off + R
        /\ \A f \in BlobFields \ {"mem", "off_dt_struct"} : q[f] = b[f]
    BY <2>4 DEF BlobFields
  <2> HIDE DEF q
  <2>6. /\ q.size_dt_struct = 0 /\ q.size_dt_strings = 0
        /\ q.totalsize = b.totalsize /\ q.off_mem_rsvmap = map
        /\ q.off_dt_strings = b.off_dt_strings
    BY <1>1, <1>4, <2>5 DEF BlobFields
  <2>7. off \in Nat /\ map \in Nat /\ map <= off /\ b.totalsize \in Nat
        /\ R \in Nat /\ T \in Nat /\ R > 2 * T /\ off + R <= b.totalsize
    <3>1. off \in Nat /\ map \in Nat /\ b.totalsize \in Nat
      BY <1>1 DEF IsBlob
    <3>2. R \in Nat /\ T \in Nat /\ R > 2 * T
      BY RsvSizeIs
    <3>3. off = map \/ off >= map + R
      BY <1>1 DEF WrittenOk
    <3>. QED
      BY <1>4, <3>1, <3>2, <3>3
  <2>8. WrittenOk(q) /\ Room(q) >= 0
    BY <1>1, <2>2, AddReservemapEntryIs
  <2>9. InUse(q)
    BY <2>5, <2>6, <2>7, <2>8 DEF InUse
  <2>10. PICK k \in Nat : off = map + k * R
    BY DEF Writing
  <2>11. Writing(q, v)
    <3>1. v = Blank
      BY <1>4 DEF Writing
    <3>2. Says(q, q.size_dt_struct, Blank) /\ Named(q)
          /\ Known \subseteq DOMAIN Blank /\ Blank.ok = TRUE
      BY <2>6, EmptySays
    <3>3. Strung(q)
      <4>1. q.totalsize - q.size_dt_strings .. q.totalsize - 1 = {}
        BY <2>6, <2>7
      <4>. QED
        BY <4>1 DEF Strung
    <3>4. \E j \in Nat : q.off_dt_struct = q.off_mem_rsvmap + j * RsvSize
      <4>1. k + 1 \in Nat /\ (k + 1) * R = k * R + R /\ k * R \in Nat
        BY EntriesAre
      <4> DEFINE x == k * R
                 y == (k + 1) * R
      <4>2. x \in Nat /\ y = x + R /\ off = map + x
        BY <2>10, <4>1
      <4> HIDE DEF x, y
      <4>3. off + R = map + y
        BY <2>7, <4>2
      <4>. QED
        BY <2>5, <2>6, <4>1, <4>3 DEF y
    <3>5. q.off_dt_strings = q.totalsize
      BY <1>1, <2>6
    <3>. QED
      BY <2>6, <2>8, <3>1, <3>2, <3>3, <3>4, <3>5 DEF Writing
  <2>12. \A a \in map .. off - 1 : q.mem[a] = b.mem[a]
    <3> SUFFICES ASSUME NEW a \in map .. off - 1  PROVE q.mem[a] = b.mem[a]
      OBVIOUS
    <3>1. a \in 0 .. b.totalsize - 1 /\ a \notin Span(off, R)
      BY <2>7 DEF Span
    <3>2. a \in DOMAIN b.mem
      BY <1>1, <3>1 DEF Covered
    <3>. QED
      BY <2>4, <2>5, <3>1, <3>2
  <2>13. q.mem[off][2] = address
    <3>1. off \in Span(off, R) /\ off - off + 1 = 1
      BY <2>7 DEF Span
    <3>2. q.mem[off] = entry[1]
      BY <2>4, <2>5, <3>1
    <3>. QED
      BY <2>3, <3>2
  <2>14. q.mem[off + 2 * T][2] = size
    <3>1. off + 2 * T \in Span(off, R) /\ (off + 2 * T) - off + 1 = 2 * T + 1
      BY <2>7 DEF Span
    <3>2. q.mem[off + 2 * T] = entry[2 * T + 1]
      BY <2>4, <2>5, <3>1
    <3>. QED
      BY <2>3, <3>2
  <2>15. /\ Entries(q) = Append(Entries(b), <<address, size>>)
         /\ NumEntries(b) = k /\ NumEntries(q) = k + 1
         /\ \A i \in 1 .. k : EntryAt(q, i) = EntryAt(b, i)
         /\ EntryAt(q, k + 1) = <<address, size>>
    BY <1>1, <2>5, <2>6, <2>10, <2>12, <2>13, <2>14, EntryAdded
  <2>16. Listed(b, q, address, size)
    BY <2>15, EntryCounts DEF Listed
  <2>. QED
    BY <1>4, <2>2, <2>9, <2>11, <2>16
<1>. QED
  BY <1>2, <1>3, <1>4

(* b on another buffer, which is long enough.                              *)
Copied(b, c) ==
  /\ DOMAIN c = BlobFields /\ \A f \in BlobFields \ {"mem"} : c[f] = b[f]
  /\ \A a \in 0 .. b.totalsize - 1 : c.mem[a] = b.mem[a]

(* fdt_move.                                                               *)
LEMMA MoveSteps ==
  ASSUME NEW b, b.totalsize \in Nat, DOMAIN b = BlobFields,
         b.magic \in {"SW", "FDT"}, NEW bufsize \in Nat,
         NEW r, r = fdt_move(b, bufsize)
  PROVE  \/ r.ret = NOSPACE /\ r.fdt = b
         \/ r.ret = BADSTATE /\ r.fdt = b /\ b.magic = "SW" /\ b.size_dt_struct = 0
         \/ /\ r.ret = 0 /\ Copied(b, r.fdt)
            /\ b.magic = "SW" => b.size_dt_struct # 0
<1> DEFINE Moved(a) == IF a < b.totalsize THEN b.mem[a] ELSE Junk
           mem == [a \in 0 .. bufsize - 1 |-> Moved(a)]
           q == [b EXCEPT !.mem = mem]
           err == fdt_check_header(b)
<1>1. /\ b.magic = "SW" /\ b.size_dt_struct = 0 => err = BADSTATE
      /\ b.magic = "SW" /\ b.size_dt_struct # 0 => err = 0
      /\ b.magic = "FDT" => err = 0
  BY DEF fdt_check_header
<1>2. r = IF err # 0 THEN Result(b, err)
          ELSE IF b.totalsize > bufsize THEN Result(b, NOSPACE) ELSE Result(q, 0)
  BY DEF fdt_move
<1> HIDE DEF err
<1>3. CASE err # 0
  <2>1. b.magic = "SW" /\ b.size_dt_struct = 0 /\ err = BADSTATE
    BY <1>1, <1>3
  <2>. QED
    BY <1>2, <1>3, <2>1 DEF Result
<1>4. CASE err = 0 /\ b.totalsize > bufsize
  BY <1>2, <1>4 DEF Result
<1>5. CASE err = 0 /\ ~(b.totalsize > bufsize)
  <2>1. r.fdt = q /\ r.ret = 0
    BY <1>2, <1>5 DEF Result
  <2>2. \A a \in 0 .. b.totalsize - 1 : mem[a] = b.mem[a]
    <3> SUFFICES ASSUME NEW a \in 0 .. b.totalsize - 1  PROVE mem[a] = b.mem[a]
      OBVIOUS
    <3>1. a \in 0 .. bufsize - 1 /\ a < b.totalsize
      BY <1>5
    <3>. QED
      BY <3>1
  <2> HIDE DEF mem
  <2>3. /\ DOMAIN q = BlobFields /\ q.mem = mem
        /\ \A f \in BlobFields \ {"mem"} : q[f] = b[f]
    BY DEF BlobFields
  <2> HIDE DEF q
  <2>4. Copied(b, q)
    BY <2>2, <2>3 DEF Copied
  <2>5. b.magic = "SW" => b.size_dt_struct # 0
    BY <1>1, <1>5 DEF BADSTATE
  <2>. QED
    BY <2>1, <2>4, <2>5
<1>. QED
  BY <1>3, <1>4, <1>5

(* A copy has the same fields, structure and map.                          *)
LEMMA CopiedIs ==
  ASSUME NEW b, IsBlob(b), StructTop(b) <= b.totalsize, NEW c, Copied(b, c)
  PROVE  /\ c.size_dt_struct = b.size_dt_struct /\ c.off_dt_struct = b.off_dt_struct
         /\ c.off_dt_strings = b.off_dt_strings /\ c.totalsize = b.totalsize
         /\ c.size_dt_strings = b.size_dt_strings /\ c.magic = b.magic
         /\ c.off_mem_rsvmap = b.off_mem_rsvmap
         /\ \A i \in 0 .. b.size_dt_struct - 1 : Struct(c, i) = Struct(b, i)
         /\ KeepsMap(b, c)
<1>1. /\ c.size_dt_struct = b.size_dt_struct /\ c.off_dt_struct = b.off_dt_struct
      /\ c.off_dt_strings = b.off_dt_strings /\ c.totalsize = b.totalsize
      /\ c.size_dt_strings = b.size_dt_strings /\ c.magic = b.magic
      /\ c.off_mem_rsvmap = b.off_mem_rsvmap
  BY DEF Copied, BlobFields
<1> DEFINE off == b.off_dt_struct
           map == b.off_mem_rsvmap
           z == b.size_dt_struct
           total == b.totalsize
<1>2. off \in Nat /\ map \in Nat /\ z \in Nat /\ total \in Nat /\ off + z <= total
  BY DEF IsBlob, StructTop
<1>3. \A a \in 0 .. total - 1 : c.mem[a] = b.mem[a]
  BY DEF Copied
<1>4. \A i \in 0 .. z - 1 : off + i \in 0 .. total - 1
  <2> HIDE DEF off, z, total
  <2>. QED
    BY <1>2
<1>5. \A i \in 0 .. z - 1 : Struct(c, i) = Struct(b, i)
  BY <1>1, <1>3, <1>4 DEF Struct
<1>6. \A a \in map .. off - 1 : a \in 0 .. total - 1
  <2> HIDE DEF map, off, total
  <2>. QED
    BY <1>2
<1>7. KeepsMap(b, c)
  BY <1>1, <1>3, <1>6 DEF KeepsMap
<1>. QED
  BY <1>1, <1>5, <1>7

(* A blob that is being written, elsewhere.                                *)
LEMMA CopiedWrites ==
  ASSUME NEW b, NEW v, Writing(b, v), b.size_dt_struct # 0,
         NEW c, Copied(b, c), WrittenOk(c)
  PROVE  Writing(c, v) /\ KeepsMap(b, c)
<1>1. WrittenOk(b) /\ IsBlob(b) /\ Room(b) >= 0 /\ b.off_dt_strings = b.totalsize
  BY DEF Writing, WrittenOk, Unwritten
<1> DEFINE total == b.totalsize
           names == b.size_dt_strings
           top == StructTop(b)
<1>2. /\ total \in Nat /\ names \in Nat /\ top \in Nat /\ top <= total - names
      /\ b.off_dt_strings = total
  BY <1>1, WritingIs
<1>3. top <= total /\ \A a \in total - names .. total - 1 : a \in 0 .. total - 1
  <2> HIDE DEF top, total, names
  <2>. QED
    BY <1>2
<1>4. /\ c.size_dt_struct = b.size_dt_struct /\ c.off_dt_struct = b.off_dt_struct
      /\ c.off_dt_strings = total /\ c.totalsize = total
      /\ c.size_dt_strings = names
      /\ c.off_mem_rsvmap = b.off_mem_rsvmap
      /\ \A i \in 0 .. b.size_dt_struct - 1 : Struct(c, i) = Struct(b, i)
      /\ KeepsMap(b, c)
  BY <1>1, <1>3, CopiedIs
<1>5. \A a \in total - names .. total - 1 : c.mem[a] = b.mem[a]
  BY <1>3 DEF Copied
<1>6. \A o \in NameSpan(b) : String(c, o) = String(b, o)
  <2> SUFFICES ASSUME NEW o \in NameSpan(b)  PROVE String(c, o) = String(b, o)
    OBVIOUS
  <2>1. total + o \in total - names .. total - 1
    <3>1. o \in -names .. -1
      BY DEF NameSpan
    <3> HIDE DEF total, names
    <3>. QED
      BY <1>2, <3>1
  <2>. QED
    BY <1>2, <1>4, <1>5, <2>1 DEF String
<1>7. Says(b, b.size_dt_struct, v) /\ Named(b) /\ Strung(b)
  BY DEF Writing
<1>8. \A t \in Tags(b) : TagOf(b, t) = "PROP" =>
        String(c, NameOff(b, t)) = String(b, NameOff(b, t))
  BY <1>6, <1>7 DEF Named
<1>9. /\ Says(c, b.size_dt_struct, v)
      /\ \A t \in Tags(c) :
           /\ t \in Tags(b) /\ TagOf(c, t) = TagOf(b, t)
           /\ TagOf(c, t) = "PROP" => NameOff(c, t) = NameOff(b, t)
  BY <1>4, <1>7, <1>8, StructStays
<1>10. Named(c)
  <2>1. NameSpan(c) = NameSpan(b)
    BY <1>4 DEF NameSpan
  <2>. QED
    BY <1>7, <1>9, <2>1 DEF Named
<1>11. Strung(c)
  BY <1>4, <1>5, <1>7 DEF Strung
<1>12. Says(c, c.size_dt_struct, v)
  BY <1>4, <1>9
<1>13. c.off_dt_strings = c.totalsize
  BY <1>4
<1>14. \E k \in Nat : c.off_dt_struct = c.off_mem_rsvmap + k * RsvSize
  BY <1>4 DEF Writing
<1>15. /\ Known \subseteq DOMAIN v /\ v.ok = TRUE /\ DOMAIN v.tree # {}
       /\ c.size_dt_struct # 0
  BY <1>4 DEF Writing
<1>. QED
  BY <1>4, <1>10, <1>11, <1>12, <1>13, <1>14, <1>15 DEF Writing

(* A blob that is finished and says v.                                     *)
Closed(b, v) ==
  /\ FinishedOk(b) /\ Says(b, b.size_dt_struct - FDT_TAGSIZE, v)
  /\ \A t \in Tags(b) : TagOf(b, t) = "PROP" =>
       NameOff(b, t) \in 0 .. b.size_dt_strings - 1
  /\ v.ok /\ v.path = Nowhere
  /\ b.off_mem_rsvmap <= b.off_dt_struct /\ Mapped(b)

(* So is its copy.                                                         *)
LEMMA CopiedCloses ==
  ASSUME NEW b, NEW v, Closed(b, v), NEW c, Copied(b, c), FinishedOk(c)
  PROVE  Closed(c, v) /\ Entries(c) = Entries(b)
<1>1. IsBlob(b) /\ BlocksInside(b) /\ b.off_mem_rsvmap <= b.off_dt_struct
  BY DEF Closed, FinishedOk
<1> DEFINE total == b.totalsize
           names == b.size_dt_strings
           strings == b.off_dt_strings
<1>2. /\ total \in Nat /\ names \in Nat /\ strings \in Nat
      /\ strings + names <= total /\ StructTop(b) <= total
  BY <1>1 DEF IsBlob, BlocksInside, DataSize
<1>3. /\ c.size_dt_struct = b.size_dt_struct /\ c.off_dt_struct = b.off_dt_struct
      /\ c.off_dt_strings = strings /\ c.totalsize = total
      /\ c.size_dt_strings = names
      /\ c.off_mem_rsvmap = b.off_mem_rsvmap
      /\ \A i \in 0 .. b.size_dt_struct - 1 : Struct(c, i) = Struct(b, i)
      /\ KeepsMap(b, c)
  BY <1>1, <1>2, CopiedIs
<1>4. \A o \in 0 .. names - 1 : String(c, o) = String(b, o)
  <2> SUFFICES ASSUME NEW o \in 0 .. names - 1  PROVE String(c, o) = String(b, o)
    OBVIOUS
  <2>1. strings + o \in 0 .. total - 1
    <3> HIDE DEF total, names, strings
    <3>. QED
      BY <1>2
  <2>2. c.mem[strings + o] = b.mem[strings + o]
    BY <2>1 DEF Copied
  <2>. QED
    BY <1>3, <2>2 DEF String
<1>5. /\ Says(b, b.size_dt_struct - FDT_TAGSIZE, v)
      /\ \A t \in Tags(b) : TagOf(b, t) = "PROP" => NameOff(b, t) \in 0 .. names - 1
  BY DEF Closed
<1>6. \A t \in Tags(b) : TagOf(b, t) = "PROP" =>
        String(c, NameOff(b, t)) = String(b, NameOff(b, t))
  BY <1>4, <1>5
<1>7. /\ Says(c, b.size_dt_struct - FDT_TAGSIZE, v)
      /\ \A t \in Tags(c) :
           /\ t \in Tags(b) /\ TagOf(c, t) = TagOf(b, t)
           /\ TagOf(c, t) = "PROP" => NameOff(c, t) = NameOff(b, t)
  BY <1>3, <1>5, <1>6, StructStays
<1>8. Entries(c) = Entries(b)
  BY <1>1, <1>3, EntriesStay
<1>9. Mapped(c)
  BY <1>8 DEF Mapped, Closed
<1>10. \A t \in Tags(c) : TagOf(c, t) = "PROP" =>
         NameOff(c, t) \in 0 .. c.size_dt_strings - 1
  BY <1>3, <1>5, <1>7
<1>11. Says(c, c.size_dt_struct - FDT_TAGSIZE, v)
  BY <1>3, <1>7
<1>12. c.off_mem_rsvmap <= c.off_dt_struct
  BY <1>1, <1>3
<1>. QED
  BY <1>8, <1>9, <1>10, <1>11, <1>12 DEF Closed

(* The map that ends in front of the structure.                            *)
LEMMA MapHasRoom ==
  ASSUME NEW b, b.off_dt_struct \in Nat, b.off_mem_rsvmap \in Nat,
         b.off_mem_rsvmap <= b.off_dt_struct, Mapped(b)
  PROVE  MapSize(b) \in Nat /\ b.off_mem_rsvmap + MapSize(b) <= b.off_dt_struct
<1> DEFINE off == b.off_dt_struct
           map == b.off_mem_rsvmap
           n == NumEntries(b)
           R == RsvSize
           Z == {i \in 1 .. n : EntryAt(b, i)[2] = 0}
<1>1. n \in Nat /\ n * R <= off - map
  BY EntryPlaces DEF NumEntries
<1>2. Len(Entries(b)) = n /\ \A i \in 1 .. n : Entries(b)[i] = EntryAt(b, i)
  <2> HIDE DEF n
  <2>1. n \in Nat /\ NumEntries(b) = n
    BY <1>1 DEF n
  <2>. QED
    BY <2>1, EntriesListed
<1>3. Z # {}
  BY <1>2 DEF Mapped
<1> HIDE DEF n
<1>4. PICK e \in Z : \A i \in Z : e <= i
  <2>1. Z \subseteq Nat
    OBVIOUS
  <2> HIDE DEF Z
  <2>. QED
    BY <1>3, <2>1, LeastNumber
<1>5. e \in 1 .. n /\ EntryAt(b, e)[2] = 0
      /\ \A i \in 1 .. e - 1 : EntryAt(b, i)[2] # 0
  BY <1>1, <1>4
<1> DEFINE k == e - 1
<1>6. k \in Nat /\ k + 1 = e /\ e \in Nat /\ e <= n
  BY <1>1, <1>5
<1>7. \A i \in 1 .. n : RsvSizeAt(b, i - 1) = EntryAt(b, i)[2]
  BY DEF RsvSizeAt, EntryAt
<1>8. RsvSizeAt(b, k) = 0
  BY <1>5, <1>7
<1>9. ASSUME NEW m \in 0 .. k - 1  PROVE RsvSizeAt(b, m) # 0
  <2>1. m + 1 \in 1 .. e - 1 /\ m + 1 \in 1 .. n /\ (m + 1) - 1 = m
    BY <1>1, <1>6
  <2>2. RsvSizeAt(b, (m + 1) - 1) = EntryAt(b, m + 1)[2]
    BY <1>7, <2>1
  <2>. QED
    BY <1>5, <2>1, <2>2
<1> HIDE DEF k
<1>10. NumMemRsv(b) = k
  BY <1>6, <1>8, <1>9, CountsReservations
<1>11. MapSize(b) = e * R
  BY <1>6, <1>10 DEF MapSize
<1>12. e * R \in Nat /\ e * R <= n * R /\ n * R \in Nat
  BY <1>1, <1>6, EntriesAre
<1> DEFINE x == e * R
           y == n * R
<1>13. x \in Nat /\ y \in Nat /\ x <= y /\ y <= off - map /\ MapSize(b) = x
  BY <1>1, <1>11, <1>12
<1> HIDE DEF x, y
<1>14. map + x <= off
  BY <1>13
<1>. QED
  BY <1>13, <1>14

(* Where the listed tags end.                                              *)
LEMMA ListEnds ==
  ASSUME NEW b, NEW n, NEW p, IsWalk(b, n, p), NEW tags, tags = TagOffsets(b)
  PROVE  p[n] = IF tags = << >> THEN 0 ELSE NextTag(b, Last(tags)).next
<1>1. /\ Len(tags) = n /\ n \in Nat /\ tags \in Seq(WalkOffsets)
      /\ \A i \in 1 .. n : tags[i] = p[i - 1]
  <2>1. n \in Nat
    BY DEF IsWalk
  <2>. QED
    BY <2>1, WalkIsListed
<1>2. CASE n = 0
  <2>1. tags = << >>
    BY <1>1, <1>2
  <2>. QED
    BY <1>2, <2>1 DEF IsWalk
<1>3. CASE n # 0
  <2> DEFINE i == n - 1
  <2>1. i \in 0 .. n - 1 /\ i + 1 = n /\ n \in 1 .. n
    BY <1>1, <1>3
  <2>2. tags # << >> /\ Last(tags) = p[i]
    BY <1>1, <1>3, <2>1 DEF Last
  <2> HIDE DEF i
  <2>3. b.size_dt_struct \in Nat /\ TagFits(b, p[i]) /\ p[i + 1] = Following(b, p[i])
    BY <2>1 DEF IsWalk
  <2>4. NextTag(b, p[i]).next = Following(b, p[i])
    BY <2>3, TagFitsIs
  <2>. QED
    BY <2>1, <2>2, <2>3, <2>4
<1>. QED
  BY <1>2, <1>3

(* What is closed can be read to its end.                                  *)
LEMMA ClosedIsWhole ==
  ASSUME NEW b, NEW v, Closed(b, v)
  PROVE  Whole(b, v) /\ Contents(b) = v
<1> DEFINE o == b.size_dt_struct - FDT_TAGSIZE
           tags == TagOffsets(b)
           end == IF tags = << >> THEN 0 ELSE NextTag(b, Last(tags)).next
<1>1. Says(b, o, v) /\ v.ok /\ v.path = Nowhere
  BY DEF Closed
<1>2. PICK n, p, g : IsScribe(b, n, p, g) /\ p[n] = o /\ g[n] = v
  BY <1>1 DEF Says
<1>3. IsWalk(b, n, p)
  BY <1>2 DEF IsScribe
<1>4. o # b.size_dt_struct
  <2>1. b.size_dt_struct \in Nat
    BY <1>3 DEF IsWalk
  <2>. QED
    BY <2>1, TagSizeIs
<1>5. p[n] = end
  BY <1>3, ListEnds
<1>6. NextTag(b, end) = [tag |-> "END", next |-> b.size_dt_struct]
  BY <1>2, <1>3, <1>4, <1>5, WalkEnds
<1>7. b.off_mem_rsvmap + MapSize(b) <= b.off_dt_struct
  <2>1. b.off_dt_struct \in Nat /\ b.off_mem_rsvmap \in Nat
        /\ b.off_mem_rsvmap <= b.off_dt_struct /\ Mapped(b)
    BY DEF Closed, FinishedOk, IsBlob
  <2>. QED
    BY <2>1, MapHasRoom
<1>8. Whole(b, v)
  BY <1>1, <1>6, <1>7 DEF Whole
<1>9. Contents(b) = v
  BY <1>1, SaysIs
<1>. QED
  BY <1>8, <1>9

(* The offsets of a walk rise, each by what its tag takes.                 *)
LEMMA WalkRises ==
  ASSUME NEW b, NEW n, NEW p, IsWalk(b, n, p), NEW i \in 0 .. n - 1
  PROVE  \A j \in i + 1 .. n : p[j] \in Nat /\ p[i + 1] <= p[j]
<1>1. n \in Nat /\ b.size_dt_struct \in Nat
      /\ \A k \in 0 .. n - 1 : TagFits(b, p[k]) /\ p[k + 1] = Following(b, p[k])
  BY DEF IsWalk
<1>2. ASSUME NEW k \in 0 .. n - 1
      PROVE  p[k] \in Nat /\ p[k + 1] \in Nat /\ p[k] < p[k + 1]
  <2>1. TagFits(b, p[k]) /\ p[k + 1] = Following(b, p[k])
    BY <1>1
  <2>2. p[k] \in Nat /\ p[k] < Following(b, p[k]) /\ Following(b, p[k]) \in Nat
    BY <1>1, <2>1, TagFitsIs
  <2>. QED
    BY <2>1, <2>2
<1> DEFINE Z == {j \in i + 1 .. n : ~(p[j] \in Nat /\ p[i + 1] <= p[j])}
<1>3. ASSUME Z # {}  PROVE FALSE
  <2>1. Z \subseteq Nat
    BY <1>1
  <2>2. PICK j \in Z : \A m \in Z : j <= m
    <3> HIDE DEF Z
    <3>. QED
      BY <1>3, <2>1, LeastNumber
  <2>3. j \in i + 1 .. n /\ ~(p[j] \in Nat /\ p[i + 1] <= p[j])
    BY <2>2
  <2>4. p[i + 1] \in Nat /\ p[i + 1] <= p[i + 1]
    BY <1>2
  <2>5. j # i + 1
    BY <2>3, <2>4
  <2> DEFINE k == j - 1
  <2>6. k \in i + 1 .. n /\ k \in 0 .. n - 1 /\ k + 1 = j /\ ~(j <= k)
    BY <1>1, <2>3, <2>5
  <2>7. k \notin Z
    BY <2>2, <2>6
  <2>8. p[k] \in Nat /\ p[i + 1] <= p[k]
    BY <2>6, <2>7
  <2> HIDE DEF k
  <2>9. p[k + 1] \in Nat /\ p[k] < p[k + 1]
    BY <1>2, <2>6
  <2>10. p[j] \in Nat /\ p[i + 1] <= p[j]
    BY <2>4, <2>6, <2>8, <2>9
  <2>. QED
    BY <2>3, <2>10
<1>. QED
  BY <1>3

(* What belongs to a tag belongs to no other, and is no end.               *)
LEMMA TagsAreApart ==
  ASSUME NEW b, NEW o, NEW v, Says(b, o, v), NEW t \in Tags(b), t # o
  PROVE  /\ Following(b, t) <= o
         /\ \A s \in Tags(b) : s # t => s <= t \/ Following(b, t) <= s
<1>1. PICK n, p, g : IsScribe(b, n, p, g) /\ p[n] = o /\ g[n] = v
  BY DEF Says
<1>2. IsWalk(b, n, p) /\ n \in Nat /\ \A s \in Tags(b) : \E i \in 0 .. n : s = p[i]
  BY <1>1 DEF IsScribe, IsWalk
<1>3. PICK i \in 0 .. n : t = p[i]
  BY <1>2
<1>4. i \in 0 .. n - 1
  <2>1. i # n
    BY <1>1, <1>3
  <2>. QED
    BY <1>2, <2>1
<1>5. p[i + 1] = Following(b, t)
  <2>1. p[i + 1] = Following(b, p[i])
    BY <1>2, <1>4 DEF IsWalk
  <2>. QED
    BY <1>3, <2>1
<1>6. \A j \in i + 1 .. n : Following(b, t) <= p[j]
  <2>1. \A j \in i + 1 .. n : p[j] \in Nat /\ p[i + 1] <= p[j]
    BY <1>2, <1>4, WalkRises
  <2>. QED
    BY <1>5, <2>1
<1>7. Following(b, t) <= o
  <2>1. n \in i + 1 .. n
    BY <1>2, <1>4
  <2>. QED
    BY <1>1, <1>6, <2>1
<1>8. ASSUME NEW s \in Tags(b), s # t  PROVE s <= t \/ Following(b, t) <= s
  <2>1. PICK j \in 0 .. n : s = p[j]
    BY <1>2
  <2>2. CASE j \in i + 1 .. n
    BY <1>6, <2>1, <2>2
  <2>3. CASE j < i
    <3>1. j \in 0 .. n - 1 /\ i \in j + 1 .. n
      BY <1>2, <1>3, <2>1, <2>3
    <3>2. p[j + 1] <= p[i] /\ p[i] \in Nat
      BY <1>2, <3>1, WalkRises
    <3>3. TagFits(b, p[j]) /\ p[j + 1] = Following(b, p[j]) /\ b.size_dt_struct \in Nat
      BY <1>2, <3>1 DEF IsWalk
    <3>4. p[j] \in Nat /\ p[j + 1] \in Nat /\ p[j] < p[j + 1]
      BY <3>3, TagFitsIs
    <3>5. s <= t
      BY <1>3, <2>1, <3>2, <3>4
    <3>. QED
      BY <3>5
  <2>4. j # i
    BY <1>3, <1>8, <2>1
  <2>. QED
    BY <1>2, <1>3, <2>1, <2>2, <2>3, <2>4
<1>. QED
  BY <1>7, <1>8

-----------------------------------------------------------------------------
(* fdt_finish.                                                             *)

(* The same cells are the same walk, whatever the names are.               *)
LEMMA StructFits ==
  ASSUME NEW b, b.size_dt_struct \in Nat, NEW t, TagFits(b, t), NEW c,
         c.size_dt_struct = b.size_dt_struct,
         \A i \in 0 .. b.size_dt_struct - 1 : Struct(c, i) = Struct(b, i)
  PROVE  TagFits(c, t) /\ Following(c, t) = Following(b, t)
<1> DEFINE T == FDT_TAGSIZE
           z == b.size_dt_struct
           len == LengthAt(b, t)
           y == Following(b, t)
<1>1. /\ t \in Nat /\ len \in Nat /\ len >= T /\ t + len <= y /\ y <= z /\ y \in Nat
      /\ z \in Nat /\ T \in Nat /\ T > 0
  <2>1. /\ t \in Nat /\ len \in Nat /\ len >= T /\ t + len <= y
        /\ y <= z /\ y \in Nat
    BY TagFitsIs
  <2>2. z \in Nat /\ T \in Nat /\ T > 0
    BY TagSizeIs
  <2>. QED
    BY <2>1, <2>2
<1>2. \A i \in 0 .. z - 1 : Struct(c, i) = Struct(b, i)
  OBVIOUS
<1>3. t \in 0 .. z - 1
  <2> HIDE DEF z, len, T, y
  <2>. QED
    BY <1>1
<1>4. Struct(c, t) = Struct(b, t) /\ TagOf(c, t) = TagOf(b, t)
  BY <1>2, <1>3 DEF TagOf
<1>5. ASSUME TagOf(b, t) = "BEGIN_NODE"  PROVE NodeName(c, t) = NodeName(b, t)
  <2> DEFINE n == NodeLength[NodeName(b, t)]
  <2>1. n \in Nat /\ len = T + n + 1
    BY <1>5, NamesAssumption DEF TagFits, LengthAt, TagLength
  <2>2. t + T \in 0 .. z - 1
    <3> HIDE DEF n, len, z, T, y
    <3>. QED
      BY <1>1, <2>1
  <2>. QED
    BY <1>2, <2>2 DEF NodeName
<1>6. ASSUME TagOf(b, t) = "PROP"  PROVE PropLen(c, t) = PropLen(b, t)
  <2> DEFINE L == PropLen(b, t)
  <2>1. L \in Nat /\ len = 3 * T + L
    BY <1>6 DEF LengthAt, TagLength, TagFits, PropHeader
  <2>2. t + T \in 0 .. z - 1
    <3> HIDE DEF L, len, z, T, y
    <3>. QED
      BY <1>1, <2>1
  <2>. QED
    BY <1>2, <2>2 DEF PropLen
<1>7. LengthAt(c, t) = len
  BY <1>4, <1>5, <1>6 DEF LengthAt, TagLength
<1>8. Following(c, t) = y
  BY <1>7 DEF Following, LengthAt, TagOf
<1>9. t \in Tags(c)
  BY <1>4 DEF TagFits, Tags
<1>. QED
  BY <1>4, <1>5, <1>6, <1>8, <1>9 DEF TagFits

LEMMA StructWalks ==
  ASSUME NEW b, NEW n, NEW p, IsWalk(b, n, p), NEW c,
         c.size_dt_struct = b.size_dt_struct,
         \A i \in 0 .. b.size_dt_struct - 1 : Struct(c, i) = Struct(b, i)
  PROVE  /\ IsWalk(c, n, p) /\ Tags(c) = Tags(b)
         /\ \A t \in Tags(b) : TagOf(c, t) = TagOf(b, t)
<1>1. /\ n \in Nat /\ p[0] = 0
      /\ b.size_dt_struct \in Nat /\ IsMultiple(b.size_dt_struct)
      /\ \A i \in 0 .. n - 1 : TagFits(b, p[i]) /\ p[i + 1] = Following(b, p[i])
      /\ AtEnd(b, p[n])
      /\ \A t \in Tags(b) : \E i \in 0 .. n : t = p[i]
  BY DEF IsWalk
<1>2. /\ Tags(c) = Tags(b)
      /\ \A t \in Tags(b) : TagOf(c, t) = TagOf(b, t)
  <2>1. \A t : t \in Tags(c) <=> t \in Tags(b)
    BY DEF Tags
  <2>2. \A t \in Tags(b) : TagOf(c, t) = TagOf(b, t)
    BY DEF Tags, TagOf
  <2>. QED
    BY <2>1, <2>2
<1>3. \A i \in 0 .. n - 1 : TagFits(c, p[i]) /\ p[i + 1] = Following(c, p[i])
  BY <1>1, StructFits
<1>4. AtEnd(c, p[n])
  BY <1>1, <1>2 DEF AtEnd
<1>. QED
  BY <1>1, <1>2, <1>3, <1>4 DEF IsWalk

(* c is e with the offsets of names counted from the beginning of the      *)
(* strings.                                                                *)
Corrected(e, c) ==
  /\ c.size_dt_struct = e.size_dt_struct
  /\ \A s \in Tags(e) : TagOf(e, s) = "PROP" =>
       Struct(c, s + 2 * FDT_TAGSIZE)
         = <<"nameoff", NameOff(e, s) + e.size_dt_strings>>
  /\ \A i \in 0 .. e.size_dt_struct - 1 :
       (\A s \in Tags(e) : TagOf(e, s) = "PROP" => i # s + 2 * FDT_TAGSIZE)
       => Struct(c, i) = Struct(e, i)
  /\ \A o \in NameSpan(e) : String(c, o + e.size_dt_strings) = String(e, o)

(* The offset of a name, and nothing else, is in that cell.                *)
LEMMA NameCellIs ==
  ASSUME NEW e, NEW o, NEW v, Says(e, o, v),
         NEW s \in Tags(e), TagOf(e, s) = "PROP"
  PROVE  /\ s \in Nat /\ s + 2 * FDT_TAGSIZE < Following(e, s)
         /\ Following(e, s) <= o /\ s # o /\ TagFits(e, s)
         /\ o \in Nat /\ Following(e, s) \in Nat
<1> DEFINE T == FDT_TAGSIZE
           y == Following(e, s)
           L == PropLen(e, s)
           len == LengthAt(e, s)
<1>1. /\ e.size_dt_struct \in Nat /\ AtEnd(e, o) /\ o \in Nat
      /\ \A t \in Tags(e) : t # o => TagFits(e, t)
  BY SaysIs
<1>2. s # o
  <2>1. o \notin Tags(e) \/ TagOf(e, o) = "END"
    BY <1>1 DEF AtEnd, Tags
  <2>. QED
    BY <2>1
<1>3. TagFits(e, s)
  BY <1>1, <1>2
<1>4. s \in Nat /\ s + len <= y /\ y \in Nat
  BY <1>1, <1>3, TagFitsIs
<1>5. L \in Nat /\ len = 3 * T + L
  BY <1>3 DEF LengthAt, TagLength, TagFits, PropHeader
<1>6. s + 2 * T < y
  <2>1. T \in Nat /\ T > 0
    BY TagSizeIs
  <2> HIDE DEF T, y, L, len
  <2>. QED
    BY <1>4, <1>5, <2>1
<1>7. y <= o
  BY <1>2, TagsAreApart
<1>. QED
  BY <1>1, <1>2, <1>3, <1>4, <1>6, <1>7

LEMMA NameCellsApart ==
  ASSUME NEW e, NEW o, NEW v, Says(e, o, v),
         NEW s \in Tags(e), TagOf(e, s) = "PROP",
         NEW t \in Tags(e), t # o, t # s, NEW x \in Nat,
         t <= x, x < Following(e, t)
  PROVE  x # s + 2 * FDT_TAGSIZE
<1> DEFINE n == s + 2 * FDT_TAGSIZE
           y == Following(e, s)
           w == Following(e, t)
<1>1. s \in Nat /\ n < y /\ y \in Nat /\ s # o
  BY NameCellIs
<1>2. n \in Nat /\ s <= n
  BY <1>1, TagSizeIs
<1>3. t \in Nat /\ w \in Nat
  <2>1. e.size_dt_struct \in Nat /\ \A r \in Tags(e) : r # o => TagFits(e, r)
    BY SaysIs
  <2>2. TagFits(e, t)
    BY <2>1
  <2>. QED
    BY <2>1, <2>2, TagFitsIs
<1>4. s <= t \/ w <= s
  BY TagsAreApart
<1>5. t <= s \/ y <= t
  BY <1>1, TagsAreApart
<1>6. t <= x /\ x < w
  OBVIOUS
<1> HIDE DEF n, y, w
<1>7. x # n
  BY <1>1, <1>2, <1>3, <1>4, <1>5, <1>6
<1>. QED
  BY <1>7 DEF n

(* What fdt_finish makes of the offsets names the same names.              *)
LEMMA CorrectedSays ==
  ASSUME NEW e, NEW o, NEW v, Says(e, o, v), e.size_dt_strings \in Nat,
         \A s \in Tags(e) : TagOf(e, s) = "PROP" => NameOff(e, s) \in NameSpan(e),
         NEW c, Corrected(e, c)
  PROVE  /\ Says(c, o, v)
         /\ \A s \in Tags(c) : TagOf(c, s) = "PROP" =>
              NameOff(c, s) \in 0 .. e.size_dt_strings - 1
<1> DEFINE T == FDT_TAGSIZE
           z == e.size_dt_struct
           names == e.size_dt_strings
<1>1. /\ z \in Nat /\ IsMultiple(z) /\ AtEnd(e, o) /\ o \in Nat
      /\ \A t \in Tags(e) : t # o => TagFits(e, t)
  BY SaysIs
<1>2. /\ c.size_dt_struct = z
      /\ \A s \in Tags(e) : TagOf(e, s) = "PROP" =>
           Struct(c, s + 2 * T) = <<"nameoff", NameOff(e, s) + names>>
      /\ \A i \in 0 .. z - 1 :
           (\A s \in Tags(e) : TagOf(e, s) = "PROP" => i # s + 2 * T)
           => Struct(c, i) = Struct(e, i)
      /\ \A i \in NameSpan(e) : String(c, i + names) = String(e, i)
  BY DEF Corrected
<1>3. ASSUME NEW t \in Tags(e), t # o, NEW x \in Nat, t <= x, x < Following(e, t),
             TagOf(e, t) = "PROP" => x # t + 2 * T
      PROVE  Struct(c, x) = Struct(e, x)
  <2>1. \A s \in Tags(e) : TagOf(e, s) = "PROP" => x # s + 2 * T
    <3> SUFFICES ASSUME NEW s \in Tags(e), TagOf(e, s) = "PROP"
                 PROVE  x # s + 2 * T
      OBVIOUS
    <3>1. CASE s = t
      BY <1>3, <3>1
    <3>2. CASE s # t
      BY <1>3, <3>2, NameCellsApart
    <3>. QED
      BY <3>1, <3>2
  <2>2. x \in 0 .. z - 1
    <3>1. TagFits(e, t)
      BY <1>1, <1>3
    <3>2. Following(e, t) <= z /\ Following(e, t) \in Nat
      BY <1>1, <3>1, TagFitsIs
    <3> DEFINE y == Following(e, t)
    <3>3. y <= z /\ y \in Nat /\ x < y
      BY <1>3, <3>2
    <3> HIDE DEF y, z
    <3>. QED
      BY <1>1, <3>3
  <2>. QED
    BY <1>2, <2>1, <2>2
<1>4. ASSUME NEW t \in Tags(e), t # o
      PROVE  /\ Repeats(e, c, t)
             /\ TagOf(e, t) = "PROP" => NameOff(c, t) \in 0 .. names - 1
  <2> DEFINE y == Following(e, t)
             len == LengthAt(e, t)
  <2>1. TagFits(e, t)
    BY <1>1, <1>4
  <2>2. t \in Nat /\ len \in Nat /\ len >= T /\ t + len <= y /\ y \in Nat
        /\ T \in Nat /\ T > 0
    <3>1. t \in Nat /\ len \in Nat /\ len >= T /\ t + len <= y /\ y \in Nat
      BY <1>1, <2>1, TagFitsIs
    <3>. QED
      BY <3>1, TagSizeIs
  <2>3. Struct(e, t)[1] = "tag"
    BY DEF Tags
  <2>4. Struct(c, t) = Struct(e, t) /\ TagOf(c, t) = TagOf(e, t)
    <3>1. t < y /\ t <= t /\ t # t + 2 * T
      <4> HIDE DEF y, len, T
      <4>. QED
        BY <2>2
    <3>2. Struct(c, t) = Struct(e, t)
      BY <1>3, <1>4, <2>2, <3>1
    <3>. QED
      BY <3>2 DEF TagOf
  <2>5. ASSUME TagOf(e, t) = "BEGIN_NODE"  PROVE NodeName(c, t) = NodeName(e, t)
    <3> DEFINE n == NodeLength[NodeName(e, t)]
    <3>1. n \in Nat /\ len = T + n + 1
      BY <2>1, <2>5, NamesAssumption DEF TagFits, LengthAt, TagLength
    <3>2. t + T \in Nat /\ t <= t + T /\ t + T < y
      <4> HIDE DEF n, len, T, y
      <4>. QED
        BY <2>2, <3>1
    <3>3. Struct(c, t + T) = Struct(e, t + T)
      BY <1>3, <1>4, <2>5, <3>2
    <3>. QED
      BY <3>3 DEF NodeName
  <2>6. ASSUME TagOf(e, t) = "PROP"
        PROVE  /\ PropLen(c, t) = PropLen(e, t) /\ PropName(c, t) = PropName(e, t)
               /\ PropVal(c, t) = PropVal(e, t)
               /\ NameOff(c, t) \in 0 .. names - 1
    <3> DEFINE L == PropLen(e, t)
               H == PropHeader
    <3>1. L \in Nat /\ len = H + L /\ H = 3 * T
      BY <2>1, <2>6 DEF LengthAt, TagLength, TagFits, PropHeader
    <3>2. t + T \in Nat /\ t <= t + T /\ t + T < y /\ t + T # t + 2 * T
      <4> HIDE DEF L, H, len, T, y
      <4>. QED
        BY <2>2, <3>1
    <3>3. PropLen(c, t) = L
      <4>1. Struct(c, t + T) = Struct(e, t + T)
        BY <1>3, <1>4, <3>2
      <4>. QED
        BY <4>1 DEF PropLen
    <3>4. ASSUME NEW i \in 1 .. L
          PROVE  Struct(c, t + H + i - 1) = Struct(e, t + H + i - 1)
      <4> DEFINE x == t + H + i - 1
      <4>1. x \in Nat /\ t <= x /\ x < y /\ x # t + 2 * T
        <5> HIDE DEF L, H, len, T, y
        <5>. QED
          BY <2>2, <3>1
      <4> HIDE DEF x
      <4>2. Struct(c, x) = Struct(e, x)
        BY <1>3, <1>4, <4>1
      <4>. QED
        BY <4>2 DEF x
    <3>5. PropVal(c, t) = PropVal(e, t)
      <4> HIDE DEF L
      <4>1. PropLen(c, t) = L /\ PropLen(e, t) = L
        BY <3>3 DEF L
      <4>. QED
        BY <3>4, <4>1, Zenon DEF PropVal
    <3>6. NameOff(c, t) = NameOff(e, t) + names
      <4>1. Struct(c, t + 2 * T) = <<"nameoff", NameOff(e, t) + names>>
        BY <1>2, <2>6
      <4>. QED
        BY <4>1 DEF NameOff
    <3>7. NameOff(e, t) \in NameSpan(e)
      BY <2>6
    <3>8. PropName(c, t) = PropName(e, t)
      BY <1>2, <3>6, <3>7 DEF PropName
    <3>9. NameOff(c, t) \in 0 .. names - 1
      <4> DEFINE f == NameOff(e, t)
      <4>1. f \in -names .. -1 /\ names \in Nat
        BY <3>7 DEF NameSpan
      <4> HIDE DEF f, names
      <4>2. f + names \in 0 .. names - 1
        BY <4>1
      <4>. QED
        BY <3>6, <4>2 DEF f
    <3>. QED
      BY <3>3, <3>5, <3>8, <3>9
  <2>. QED
    BY <2>3, <2>4, <2>5, <2>6 DEF Repeats
<1>5. ASSUME NEW t \in Tags(c)  PROVE t \in Tags(e) /\ Struct(c, t) = Struct(e, t)
  <2>1. t \in 0 .. z - 1 /\ t % FDT_TAGSIZE = 0 /\ Struct(c, t)[1] = "tag"
    BY <1>2 DEF Tags
  <2>2. \A s \in Tags(e) : TagOf(e, s) = "PROP" => t # s + 2 * T
    BY <1>2, <2>1
  <2>3. Struct(c, t) = Struct(e, t)
    BY <1>2, <2>1, <2>2
  <2>. QED
    BY <2>1, <2>3 DEF Tags
<1>6. Repeated(e, c, o)
  <2>1. z <= z
    BY <1>1
  <2>. QED
    BY <1>1, <1>2, <1>4, <1>5, <2>1 DEF Repeated
<1>7. AtEnd(c, o)
  <2>1. CASE o = z
    BY <1>2, <2>1 DEF AtEnd
  <2>2. CASE o \in Tags(e) /\ TagOf(e, o) = "END" /\ o + FDT_TAGSIZE = z
    <3>1. ASSUME NEW s \in Tags(e), TagOf(e, s) = "PROP"  PROVE o # s + 2 * T
      <4> DEFINE y == Following(e, s)
                 n == s + 2 * T
      <4>1. n < y /\ y <= o /\ y \in Nat /\ s \in Nat
        BY <3>1, NameCellIs
      <4>2. n \in Nat
        BY <4>1, TagSizeIs
      <4> HIDE DEF y, n
      <4>3. o # n
        BY <1>1, <4>1, <4>2
      <4>. QED
        BY <4>3 DEF n
    <3>2. o \in 0 .. z - 1 /\ o % FDT_TAGSIZE = 0 /\ Struct(e, o)[1] = "tag"
      BY <2>2 DEF Tags
    <3>3. Struct(c, o) = Struct(e, o)
      BY <1>2, <3>1, <3>2
    <3>4. o \in Tags(c) /\ TagOf(c, o) = "END"
      BY <1>2, <2>2, <3>2, <3>3 DEF Tags, TagOf
    <3>. QED
      BY <1>2, <2>2, <3>4 DEF AtEnd
  <2>. QED
    BY <1>1, <2>1, <2>2 DEF AtEnd
<1>8. Says(c, o, v)
  BY <1>6, <1>7, SaysRepeated
<1>9. ASSUME NEW s \in Tags(c), TagOf(c, s) = "PROP"
      PROVE  NameOff(c, s) \in 0 .. names - 1
  <2>1. s \in Tags(e) /\ TagOf(e, s) = "PROP"
    BY <1>5, <1>9 DEF TagOf
  <2>2. s # o
    BY <2>1, NameCellIs
  <2>. QED
    BY <1>4, <2>1, <2>2
<1>. QED
  BY <1>8, <1>9

(* The tag that ends the structure.                                        *)
LEMMA EndIsWritten ==
  ASSUME NEW b, NEW v, Writing(b, v), InUse(b), NEW r,
         r = GrabSpace(b, Tag("END")), r.ret = 0, NEW e, e = r.fdt
  PROVE  /\ Grabbed(b, e, Tag("END")) /\ Says(e, b.size_dt_struct, v)
         /\ e.size_dt_struct = b.size_dt_struct + FDT_TAGSIZE
         /\ \A t \in Tags(e) : TagOf(e, t) = "PROP" => NameOff(e, t) \in NameSpan(e)
         /\ KeepsMap(b, e)
<1> DEFINE cells == Tag("END")
           z == b.size_dt_struct
           T == FDT_TAGSIZE
<1>1. Len(cells) = T /\ Len(cells) \in Nat \ {0} /\ cells[1] = <<"tag", "END">>
      /\ OneTag(cells)
  <2>1. Len(cells) = T
    BY WordIs DEF Tag
  <2>2. cells[1] = <<"tag", "END">>
    BY SizesAssumption DEF Tag, Word, Cells
  <2>3. OneTag(cells)
    BY WordIsOneTag DEF Tag
  <2>. QED
    BY <2>1, <2>2, <2>3, SizesAssumption
<1> HIDE DEF cells
<1>2. Room(b) >= 0 /\ IsBlob(b) /\ Covered(b)
  BY DEF InUse, WrittenOk
<1>3. Grabbed(b, e, cells)
  BY <1>1, <1>2, GrabbedIs DEF cells
<1>4. KeepsMap(b, e)
  BY <1>1, <1>2, <1>3, GrabbedKeepsMap
<1>5. /\ e.size_dt_struct = z + Len(cells)
      /\ e.size_dt_strings = b.size_dt_strings
      /\ \A i \in 0 .. z - 1 : Struct(e, i) = Struct(b, i)
      /\ \A i \in 1 .. Len(cells) : Struct(e, z + (i - 1)) = cells[i]
      /\ \A o \in NameSpan(b) : String(e, o) = String(b, o)
  BY <1>1, <1>2, <1>3, GrabbedStruct
<1>6. /\ z \in Tags(e) /\ TagOf(e, z) = "END" /\ z \in Nat
  BY <1>1, <1>2, <1>3, WrittenTag
<1>7. /\ Says(b, z, v) /\ z \in Nat /\ IsMultiple(z)
      /\ \A t \in Tags(b) : t # z => TagFits(b, t)
  BY SaysIs DEF Writing
<1>8. e.size_dt_struct \in Nat /\ IsMultiple(e.size_dt_struct) /\ z <= e.size_dt_struct
      /\ e.size_dt_struct = z + T
  <2>1. IsMultiple(T)
    BY Multiples
  <2>2. IsMultiple(z + T)
    BY <1>7, <2>1, Multiples
  <2>. QED
    BY <1>1, <1>5, <1>7, <2>2, SizesAssumption
<1>9. ASSUME NEW t \in Tags(b)
      PROVE  /\ t # z /\ Repeats(b, e, t)
             /\ TagOf(e, t) = "PROP" => NameOff(e, t) \in NameSpan(b)
  <2>1. t # z
    BY <1>7 DEF Tags
  <2>2. TagFits(b, t)
    BY <1>7, <2>1
  <2>3. TagOf(b, t) = "PROP" =>
          /\ NameOff(b, t) \in NameSpan(b)
          /\ String(e, NameOff(b, t)) = String(b, NameOff(b, t))
    BY <1>5 DEF Writing, Named
  <2>4. /\ Repeats(b, e, t)
        /\ TagOf(b, t) = "PROP" => NameOff(e, t) = NameOff(b, t)
    <3>1. /\ b.size_dt_struct \in Nat
          /\ \A i \in 0 .. b.size_dt_struct - 1 : Struct(e, i) = Struct(b, i)
      BY <1>5, <1>7
    <3>2. TagOf(b, t) = "PROP" => String(e, NameOff(b, t)) = String(b, NameOff(b, t))
      BY <2>3
    <3>. QED
      BY <2>2, <3>1, <3>2, CellsRepeat
  <2>5. TagOf(e, t) = TagOf(b, t)
    BY <2>4 DEF Repeats
  <2>. QED
    BY <2>1, <2>3, <2>4, <2>5
<1>10. ASSUME NEW t \in Tags(e)  PROVE t = z \/ t \in Tags(b)
  <2> DEFINE y == e.size_dt_struct
  <2>1. t \in 0 .. y - 1 /\ t % FDT_TAGSIZE = 0 /\ Struct(e, t)[1] = "tag"
    BY DEF Tags
  <2>2. y = z + Len(cells) /\ y \in Nat
    BY <1>5, <1>8
  <2> HIDE DEF y
  <2>3. CASE t < z
    <3>1. t \in 0 .. z - 1
      BY <1>7, <2>1, <2>2, <2>3
    <3>2. Struct(b, t) = Struct(e, t)
      BY <1>5, <3>1
    <3>. QED
      BY <2>1, <3>1, <3>2 DEF Tags
  <2>4. ASSUME t > z  PROVE FALSE
    <3> DEFINE i == t - z + 1
               n == Len(cells)
    <3>1. i \in 2 .. n /\ i \in 1 .. n /\ z + (i - 1) = t
      <4>1. n \in Nat /\ z \in Nat /\ y = z + n
        BY <1>1, <1>7, <2>2
      <4> HIDE DEF z, n
      <4>. QED
        BY <2>1, <2>2, <2>4, <4>1
    <3> HIDE DEF i
    <3>2. Struct(e, t) = cells[i]
      BY <1>5, <3>1
    <3>. QED
      BY <1>1, <2>1, <3>1, <3>2 DEF OneTag
  <2>. QED
    BY <1>7, <2>1, <2>2, <2>3, <2>4
<1>11. Repeated(b, e, z)
  BY <1>8, <1>9, <1>10 DEF Repeated
<1>12. AtEnd(e, z)
  BY <1>6, <1>8 DEF AtEnd
<1>13. Says(e, z, v)
  BY <1>7, <1>11, <1>12, SaysRepeated
<1>14. \A t \in Tags(e) : TagOf(e, t) = "PROP" => NameOff(e, t) \in NameSpan(e)
  <2>1. NameSpan(e) = NameSpan(b)
    BY <1>5 DEF NameSpan
  <2>2. TagOf(e, z) # "PROP"
    BY <1>6
  <2>. QED
    BY <1>9, <1>10, <2>1, <2>2
<1>. QED
  BY <1>3, <1>4, <1>8, <1>13, <1>14 DEF cells

(* The strings are behind the structure then.                              *)
LEMMA MoveStringsIs ==
  ASSUME NEW e, IsBlob(e), Covered(e), StructTop(e) <= e.totalsize - e.size_dt_strings,
         NEW m, m = MoveStrings(e)
  PROVE  /\ DOMAIN m = BlobFields /\ m.off_dt_strings = StructTop(e)
         /\ \A f \in BlobFields \ {"mem", "off_dt_strings"} : m[f] = e[f]
         /\ \A a \in 0 .. StructTop(e) - 1 : a \in DOMAIN m.mem /\ m.mem[a] = e.mem[a]
         /\ \A i \in 0 .. e.size_dt_strings - 1 :
              /\ StructTop(e) + i \in DOMAIN m.mem
              /\ m.mem[StructTop(e) + i]
                   = e.mem[e.totalsize - e.size_dt_strings + i]
<1> DEFINE top == StructTop(e)
           names == e.size_dt_strings
           total == e.totalsize
           old == total - names
           mem == Memmove(e.mem, top, old, names)
<1>1. top \in Nat /\ names \in Nat /\ total \in Nat /\ top <= total - names
  BY DEF IsBlob, StructTop
<1>2. m = [e EXCEPT !.mem = mem, !.off_dt_strings = top]
  BY DEF MoveStrings
<1>3. /\ DOMAIN mem = Span(top, names) \cup DOMAIN e.mem
      /\ \A a \in Span(top, names) : mem[a] = e.mem[a - top + old]
      /\ \A a \in DOMAIN e.mem \ Span(top, names) : mem[a] = e.mem[a]
  BY DEF Memmove
<1> HIDE DEF mem
<1>4. /\ DOMAIN m = BlobFields /\ m.off_dt_strings = top /\ m.mem = mem
      /\ \A f \in BlobFields \ {"mem", "off_dt_strings"} : m[f] = e[f]
  BY <1>2 DEF IsBlob, BlobFields
<1>5. ASSUME NEW a \in 0 .. top - 1  PROVE a \in DOMAIN mem /\ mem[a] = e.mem[a]
  <2>1. a \in 0 .. total - 1 /\ a \notin Span(top, names)
    <3> HIDE DEF top, names, total
    <3>. QED
      BY <1>1 DEF Span
  <2>2. a \in DOMAIN e.mem
    BY <2>1 DEF Covered
  <2>. QED
    BY <1>3, <2>1, <2>2
<1>6. ASSUME NEW i \in 0 .. names - 1
      PROVE  top + i \in DOMAIN mem /\ mem[top + i] = e.mem[old + i]
  <2>1. top + i \in Span(top, names) /\ (top + i) - top + old = old + i
    <3>1. old \in Int
      BY <1>1
    <3> HIDE DEF top, names, total, old
    <3>. QED
      BY <1>1, <3>1 DEF Span
  <2>. QED
    BY <1>3, <2>1
<1>. QED
  BY <1>4, <1>5, <1>6

(* The strings are behind the structure, and nothing behind them.          *)
InPlace(b) == b.off_dt_strings = StructTop(b) /\ b.totalsize = DataSize(b)

(* fdt_finish, when there is space for its tag.                            *)
LEMMA FinishCorrects ==
  ASSUME NEW b, NEW v, Writing(b, v), InUse(b), NEW g,
         g = GrabSpace(b, Tag("END")), g.ret = 0, NEW e, e = g.fdt,
         NEW r, r = fdt_finish(b)
  PROVE  /\ r.ret = 0 /\ Corrected(e, r.fdt) /\ KeepsMap(b, r.fdt)
         /\ r.fdt.size_dt_strings = e.size_dt_strings /\ InPlace(r.fdt)
<1> DEFINE moved == MoveStrings(e)
           tags  == TagOffsets(moved)
           props == {o \in Range(tags) : NextTag(moved, o).tag = "PROP"}
           addresses == {moved.off_dt_struct + o + 2 * FDT_TAGSIZE : o \in props}
           named == CorrectNames(moved, tags)
           stop  == IF tags = <<>> THEN 0 ELSE NextTag(moved, Last(tags)).next
           next  == NextTag(moved, stop).next
           done  == [named EXCEPT !.totalsize = DataSize(named),
                                  !.magic = "FDT"]
           T == FDT_TAGSIZE
           off == e.off_dt_struct
           z == e.size_dt_struct
           total == e.totalsize
           names == e.size_dt_strings
           top == StructTop(e)
           o == b.size_dt_struct
<1>1. r = IF g.ret # 0 THEN g
          ELSE IF next < 0 THEN Result(named, next) ELSE Result(done, 0)
  BY DEF fdt_finish, SwChecked, InUse, WrittenOk
<1>2. /\ Grabbed(b, e, Tag("END")) /\ Says(e, o, v) /\ KeepsMap(b, e)
      /\ \A t \in Tags(e) : TagOf(e, t) = "PROP" => NameOff(e, t) \in NameSpan(e)
      /\ z = o + T
  BY EndIsWritten
<1>3. InUse(e) /\ e.off_dt_strings = total
  <2>1. InUse(e)
    BY GrabsIs, TagIs DEF InUse
  <2>2. e.off_dt_strings = b.off_dt_strings /\ e.totalsize = b.totalsize
    BY <1>2 DEF Grabbed, BlobFields
  <2>3. b.off_dt_strings = b.totalsize
    BY DEF Writing
  <2>. QED
    BY <2>1, <2>2, <2>3
<1>4. /\ off \in Nat /\ z \in Nat /\ total \in Nat /\ names \in Nat
      /\ top = off + z /\ top \in Nat /\ top <= total - names
      /\ IsBlob(e) /\ Covered(e)
  BY <1>3 DEF InUse, WrittenOk, IsBlob, Room, StructTop
<1>5. /\ DOMAIN moved = BlobFields /\ moved.off_dt_strings = top
      /\ \A f \in BlobFields \ {"mem", "off_dt_strings"} : moved[f] = e[f]
      /\ \A a \in 0 .. top - 1 : a \in DOMAIN moved.mem /\ moved.mem[a] = e.mem[a]
      /\ \A i \in 0 .. names - 1 :
           /\ top + i \in DOMAIN moved.mem
           /\ moved.mem[top + i] = e.mem[total - names + i]
  BY <1>4, MoveStringsIs
<1>6. /\ moved.off_dt_struct = off /\ moved.size_dt_struct = z
      /\ moved.size_dt_strings = names
  BY <1>5 DEF BlobFields
<1> HIDE DEF moved
<1>7. \A i \in 0 .. z - 1 : off + i \in 0 .. top - 1
  <2> HIDE DEF off, z, top
  <2>. QED
    BY <1>4
<1>8. \A i \in 0 .. z - 1 : Struct(moved, i) = Struct(e, i)
  BY <1>5, <1>6, <1>7 DEF Struct
<1>9. PICK n, p, k : IsScribe(e, n, p, k) /\ p[n] = o /\ k[n] = v
  BY <1>2 DEF Says
<1>10. IsWalk(e, n, p)
  BY <1>9 DEF IsScribe
<1>11. /\ IsWalk(moved, n, p) /\ Tags(moved) = Tags(e)
       /\ \A t \in Tags(e) : TagOf(moved, t) = TagOf(e, t)
  BY <1>6, <1>8, <1>10, StructWalks
<1>12. next = z
  <2>1. stop = o
    BY <1>9, <1>11, ListEnds
  <2>2. o # z
    <3>1. o \in Nat
      BY <1>2, SaysIs
    <3> HIDE DEF o, z
    <3>. QED
      BY <1>2, <3>1, TagSizeIs
  <2>3. NextTag(moved, p[n]) = [tag |-> "END", next |-> moved.size_dt_struct]
    <3>1. p[n] # moved.size_dt_struct
      BY <1>6, <1>9, <2>2
    <3>. QED
      BY <1>11, <3>1, WalkEnds
  <2>. QED
    BY <1>6, <1>9, <2>1, <2>3
<1>13. r.ret = 0 /\ r.fdt = done
  <2>1. ~(next < 0)
    BY <1>4, <1>12
  <2>2. r = Result(done, 0)
    BY <1>1, <2>1
  <2>. QED
    BY <2>2 DEF Result
<1>14. props = {s \in Tags(e) : TagOf(e, s) = "PROP"}
  <2>1. /\ Len(tags) = n /\ n \in Nat /\ tags \in Seq(WalkOffsets)
        /\ \A i \in 1 .. n : tags[i] = p[i - 1]
    <3>1. n \in Nat
      BY <1>10 DEF IsWalk
    <3>. QED
      BY <1>11, <3>1, WalkIsListed
  <2> HIDE DEF tags
  <2>2. \A s : s \in Range(tags) <=> \E i \in 1 .. n : s = p[i - 1]
    <3>1. DOMAIN tags = 1 .. n
      BY <2>1
    <3>2. \A s : s \in Range(tags) <=> \E i \in 1 .. n : s = tags[i]
      BY <3>1 DEF Range
    <3>3. \A i \in 1 .. n : tags[i] = p[i - 1]
      BY <2>1
    <3>4. ASSUME NEW s, NEW i \in 1 .. n
          PROVE  s = tags[i] <=> s = p[i - 1]
      BY <3>3
    <3>. QED
      BY <3>2, <3>4
  <2>3. ASSUME NEW s, \E i \in 1 .. n : s = p[i - 1]
        PROVE  s \in Tags(e) /\ NextTag(moved, s).tag = TagOf(e, s)
    <3>1. PICK i \in 1 .. n : s = p[i - 1]
      BY <2>3
    <3> DEFINE j == i - 1
    <3>2. j \in 0 .. n - 1 /\ s = p[j]
      BY <2>1, <3>1
    <3> HIDE DEF j
    <3>3. s \in Tags(moved) /\ TagFits(moved, s)
      BY <1>11, <3>2, EndIsLast
    <3>4. NextTag(moved, s).tag = TagOf(moved, s)
      BY <1>4, <1>6, <3>3, TagFitsIs
    <3>. QED
      BY <1>11, <3>3, <3>4
  <2>4. ASSUME NEW s \in Tags(e), TagOf(e, s) = "PROP"
        PROVE  \E i \in 1 .. n : s = p[i - 1]
    <3>1. PICK j \in 0 .. n : s = p[j]
      BY <1>10 DEF IsWalk
    <3>2. s # o
      BY <1>2, <2>4, NameCellIs
    <3>3. j # n
      BY <1>9, <3>1, <3>2
    <3>4. j + 1 \in 1 .. n /\ (j + 1) - 1 = j
      BY <2>1, <3>3
    <3>. QED
      BY <3>1, <3>4
  <2>5. \A s : s \in props <=> s \in Tags(e) /\ TagOf(e, s) = "PROP"
    BY <2>2, <2>3, <2>4
  <2> HIDE DEF props
  <2>. QED
    BY <2>5
<1>15. /\ DOMAIN named = BlobFields
       /\ \A f \in BlobFields \ {"mem"} : named[f] = moved[f]
       /\ named.mem = [a \in DOMAIN moved.mem |->
                         IF a \in addresses
                           THEN <<"nameoff", moved.mem[a][2] + moved.size_dt_strings>>
                           ELSE moved.mem[a]]
  BY <1>5 DEF CorrectNames, BlobFields
<1> HIDE DEF named, tags, next, stop
<1>16. /\ DOMAIN done = BlobFields /\ done.mem = named.mem
       /\ done.totalsize = DataSize(named)
       /\ \A f \in BlobFields \ {"mem", "totalsize", "magic"} : done[f] = moved[f]
  BY <1>15 DEF BlobFields
<1> HIDE DEF done
<1>17. /\ done.off_dt_struct = off /\ done.size_dt_struct = z
       /\ done.off_dt_strings = top /\ done.size_dt_strings = names
       /\ done.off_mem_rsvmap = e.off_mem_rsvmap
  BY <1>5, <1>6, <1>16 DEF BlobFields
<1>18. ASSUME NEW s \in Tags(e), TagOf(e, s) = "PROP"
       PROVE  /\ s \in Nat /\ s + 2 * T \in 0 .. z - 1
              /\ off + s + 2 * T \in 0 .. top - 1 /\ off + s + 2 * T >= off
              /\ off + s + 2 * T = off + (s + 2 * T)
  <2> DEFINE y == Following(e, s)
             x == s + 2 * T
  <2>1. s \in Nat /\ x < y /\ y <= o /\ o \in Nat /\ y \in Nat
    BY <1>2, <1>18, NameCellIs
  <2>2. x \in Nat /\ T \in Nat
    BY <2>1, TagSizeIs
  <2>3. off + s + 2 * T = off + x
    BY <1>4, <2>1, <2>2
  <2> HIDE DEF x, y, o, z, off, top
  <2>4. x \in 0 .. z - 1 /\ off + x \in 0 .. top - 1 /\ off + x >= off
    BY <1>2, <1>4, <2>1, <2>2
  <2>. QED
    BY <2>1, <2>3, <2>4 DEF x
<1>19. \A a : a \in addresses <=>
         \E s \in Tags(e) : TagOf(e, s) = "PROP" /\ a = off + s + 2 * T
  <2>1. \A a : a \in addresses <=> \E s \in props : a = off + s + 2 * T
    BY <1>6
  <2> HIDE DEF addresses, props
  <2>. QED
    BY <1>14, <2>1
<1> HIDE DEF addresses, props
<1>20. \A a \in addresses : a \in 0 .. top - 1 /\ a >= off
  BY <1>18, <1>19
<1>21. ASSUME NEW s \in Tags(e), TagOf(e, s) = "PROP"
       PROVE  Struct(done, s + 2 * T) = <<"nameoff", NameOff(e, s) + names>>
  <2> DEFINE a == off + s + 2 * T
  <2>1. a \in addresses /\ a \in 0 .. top - 1 /\ a = off + (s + 2 * T)
    BY <1>18, <1>19, <1>21
  <2> HIDE DEF a
  <2>2. a \in DOMAIN moved.mem /\ moved.mem[a] = e.mem[a]
    BY <1>5, <2>1
  <2>3. done.mem[a] = <<"nameoff", e.mem[a][2] + names>>
    BY <1>6, <1>15, <1>16, <2>1, <2>2
  <2>. QED
    BY <1>17, <2>1, <2>3 DEF Struct, NameOff
<1>22. ASSUME NEW a \in 0 .. top - 1, a \notin addresses
       PROVE  done.mem[a] = e.mem[a]
  BY <1>5, <1>15, <1>16, <1>22
<1>23. ASSUME NEW i \in 0 .. z - 1,
              \A s \in Tags(e) : TagOf(e, s) = "PROP" => i # s + 2 * T
       PROVE  Struct(done, i) = Struct(e, i)
  <2>1. off + i \in 0 .. top - 1
    BY <1>7
  <2>2. off + i \notin addresses
    <3> SUFFICES ASSUME NEW s \in Tags(e), TagOf(e, s) = "PROP",
                        off + i = off + s + 2 * T
                 PROVE  FALSE
      BY <1>19
    <3>1. s + 2 * T \in Nat /\ off + i = off + (s + 2 * T)
      BY <1>18
    <3>2. i = s + 2 * T
      <4> DEFINE x == s + 2 * T
      <4>1. x \in Nat /\ off + i = off + x
        BY <3>1
      <4> HIDE DEF x, off, z
      <4>2. i = x
        BY <1>4, <4>1
      <4>. QED
        BY <4>2 DEF x
    <3>. QED
      BY <1>23, <3>2
  <2>3. done.mem[off + i] = e.mem[off + i]
    BY <1>22, <2>1, <2>2
  <2>. QED
    BY <1>17, <2>3 DEF Struct
<1>24. ASSUME NEW i \in NameSpan(e)  PROVE String(done, i + names) = String(e, i)
  <2> DEFINE j == i + names
  <2>1. j \in 0 .. names - 1 /\ top + j \notin addresses
        /\ total - names + j = total + i
    <3>1. i \in -names .. -1
      BY DEF NameSpan
    <3>2. ~(top + j \in 0 .. top - 1) /\ j \in 0 .. names - 1
          /\ total - names + j = total + i
      <4> HIDE DEF names, top, total
      <4>. QED
        BY <1>4, <3>1
    <3>. QED
      BY <1>20, <3>2
  <2> HIDE DEF j
  <2>2. top + j \in DOMAIN moved.mem /\ moved.mem[top + j] = e.mem[total + i]
    BY <1>5, <2>1
  <2>3. done.mem[top + j] = e.mem[total + i]
    BY <1>15, <1>16, <2>1, <2>2
  <2>4. String(done, j) = String(e, i)
    BY <1>3, <1>17, <2>3 DEF String
  <2>. QED
    BY <2>4 DEF j
<1>25. Corrected(e, done)
  BY <1>17, <1>21, <1>23, <1>24 DEF Corrected
<1>26. KeepsMap(b, done)
  <2>1. /\ e.off_mem_rsvmap = b.off_mem_rsvmap /\ off = b.off_dt_struct
        /\ \A a \in b.off_mem_rsvmap .. off - 1 : e.mem[a] = b.mem[a]
    BY <1>2 DEF KeepsMap
  <2>2. b.off_mem_rsvmap \in Nat
    BY DEF Writing, WrittenOk, IsBlob
  <2>3. ASSUME NEW a \in b.off_mem_rsvmap .. off - 1  PROVE done.mem[a] = b.mem[a]
    <3> DEFINE map == b.off_mem_rsvmap
    <3>1. map \in Nat /\ a \in map .. off - 1
      BY <2>2
    <3> HIDE DEF map, off, top, z
    <3>2. a \in 0 .. top - 1 /\ ~(a >= off)
      BY <1>4, <3>1
    <3>3. a \notin addresses
      BY <1>20, <3>2
    <3>. QED
      BY <1>22, <2>1, <3>2, <3>3
  <2>. QED
    BY <1>17, <2>1, <2>3 DEF KeepsMap
<1>27. InPlace(done)
  <2>1. /\ named.off_dt_strings = done.off_dt_strings
        /\ named.size_dt_strings = done.size_dt_strings
    BY <1>15, <1>16 DEF BlobFields
  <2>2. done.totalsize = DataSize(done)
    BY <1>16, <2>1 DEF DataSize
  <2>3. done.off_dt_strings = StructTop(done)
    BY <1>4, <1>17 DEF StructTop
  <2>. QED
    BY <2>2, <2>3 DEF InPlace
<1>. QED
  BY <1>13, <1>17, <1>25, <1>26, <1>27

(* fdt_finish.                                                             *)
LEMMA FinishWrites ==
  ASSUME NEW b, NEW v, Writing(b, v), InUse(b), v.path = Nowhere, Mapped(b),
         NEW r, r = fdt_finish(b)
  PROVE  \/ Refused(b, r, FDT_TAGSIZE)
         \/ /\ r.ret = 0 /\ Closed(r.fdt, v) /\ InPlace(r.fdt)
            /\ Entries(r.fdt) = Entries(b)
            /\ r.fdt.off_mem_rsvmap = b.off_mem_rsvmap
<1> DEFINE g == GrabSpace(b, Tag("END"))
           e == g.fdt
           c == r.fdt
<1>1. IsBlob(b) /\ Room(b) >= 0 /\ Covered(b) /\ b.magic = "SW"
      /\ b.off_mem_rsvmap <= b.off_dt_struct
  <2>1. IsBlob(b) /\ Room(b) >= 0 /\ Covered(b) /\ b.magic = "SW"
    BY DEF InUse, WrittenOk
  <2>2. b.off_mem_rsvmap <= b.off_dt_struct
    <3>1. /\ b.off_mem_rsvmap \in Nat /\ b.off_dt_struct \in Nat
          /\ b.off_dt_struct >= b.off_mem_rsvmap + RsvSize
      BY <2>1 DEF InUse, IsBlob
    <3>. QED
      BY <3>1, RsvSizeIs
  <2>. QED
    BY <2>1, <2>2
<1>2. Len(Tag("END")) = FDT_TAGSIZE /\ FDT_TAGSIZE \in Nat
  BY WordIs, SizesAssumption DEF Tag
<1>3. CASE g.ret # 0
  <2>1. g.ret = NOSPACE /\ g.fdt = b /\ Room(b) < FDT_TAGSIZE
    BY <1>1, <1>2, <1>3, GrabbedIs
  <2>2. r = g
    BY <1>1, <1>3 DEF fdt_finish, SwChecked
  <2>. QED
    BY <2>1, <2>2 DEF Refused
<1>4. CASE g.ret = 0
  <2>1. /\ r.ret = 0 /\ Corrected(e, c) /\ KeepsMap(b, c)
        /\ c.size_dt_strings = e.size_dt_strings /\ InPlace(c)
    BY <1>4, FinishCorrects
  <2>2. /\ Says(e, b.size_dt_struct, v)
        /\ e.size_dt_struct = b.size_dt_struct + FDT_TAGSIZE
        /\ \A t \in Tags(e) : TagOf(e, t) = "PROP" => NameOff(e, t) \in NameSpan(e)
    BY <1>4, EndIsWritten
  <2>3. e.size_dt_strings \in Nat
    <3>1. Grabbed(b, e, Tag("END"))
      BY <1>4, EndIsWritten
    <3>. QED
      BY <3>1 DEF Grabbed, IsBlob
  <2> HIDE DEF e, c
  <2>4. /\ Says(c, b.size_dt_struct, v)
        /\ \A s \in Tags(c) : TagOf(c, s) = "PROP" =>
             NameOff(c, s) \in 0 .. e.size_dt_strings - 1
    BY <2>1, <2>2, <2>3, CorrectedSays
  <2>5. c.size_dt_struct - FDT_TAGSIZE = b.size_dt_struct
    <3>1. c.size_dt_struct = e.size_dt_struct /\ b.size_dt_struct \in Nat
      BY <1>1, <2>1 DEF Corrected, IsBlob
    <3>. QED
      BY <1>2, <2>2, <3>1
  <2>6. Entries(c) = Entries(b)
    BY <1>1, <2>1, EntriesStay
  <2>7. Mapped(c)
    BY <2>6 DEF Mapped
  <2>8. c.off_mem_rsvmap <= c.off_dt_struct
    BY <1>1, <2>1 DEF KeepsMap
  <2>9. FinishedOk(c)
    <3>1. InUse(c) \/ FinishedOk(c)
      BY FinishIs DEF c
    <3>2. c.magic = "FDT"
      BY <1>1, <1>4, <2>1 DEF fdt_finish, SwChecked, Result, c
    <3>. QED
      BY <3>1, <3>2 DEF InUse, WrittenOk
  <2>10. v.ok
    BY DEF Writing
  <2>11. Closed(c, v)
    BY <2>1, <2>4, <2>5, <2>7, <2>8, <2>9, <2>10 DEF Closed
  <2>12. c.off_mem_rsvmap = b.off_mem_rsvmap
    BY <2>1 DEF KeepsMap
  <2>. QED
    BY <2>1, <2>6, <2>11, <2>12 DEF c
<1>. QED
  BY <1>3, <1>4
(* fdt_create gives a blob in which nothing is written and no map begun.   *)
LEMMA CreateWrites ==
  ASSUME NEW old, NEW bufsize \in Nat, NEW r, r = fdt_create(old, bufsize)
  PROVE  \/ r.ret = NOSPACE /\ r.fdt = old
         \/ /\ r.ret = 0 /\ Writing(r.fdt, Blank)
            /\ ~Mapped(r.fdt) /\ Reserved(r.fdt) = << >>
<1> DEFINE b == r.fdt
<1>1. CASE bufsize < HEADER_SIZE
  BY <1>1 DEF fdt_create, Result
<1>2. CASE ~(bufsize < HEADER_SIZE)
  <2>1. /\ r.ret = 0 /\ b.off_mem_rsvmap = FirstReservation
        /\ b.off_dt_struct = FirstReservation /\ b.size_dt_struct = 0
        /\ b.off_dt_strings = bufsize /\ b.totalsize = bufsize
        /\ b.size_dt_strings = 0
    BY <1>2 DEF fdt_create, Result
  <2>2. WrittenOk(b)
    BY <2>1, CreateIs
  <2> HIDE DEF b
  <2>3. Says(b, b.size_dt_struct, Blank) /\ Named(b)
        /\ Known \subseteq DOMAIN Blank /\ Blank.ok = TRUE
    BY <2>1, EmptySays
  <2>4. Strung(b)
    <3>1. b.totalsize - b.size_dt_strings .. b.totalsize - 1 = {}
      BY <2>1
    <3>. QED
      BY <3>1 DEF Strung
  <2> DEFINE zero == 0
  <2>5. zero \in Nat /\ b.off_dt_struct = b.off_mem_rsvmap + zero * RsvSize
    BY <2>1, FirstReservationIs, RsvSizeIs
  <2>6. Writing(b, Blank)
    BY <2>1, <2>2, <2>3, <2>4, <2>5 DEF Writing
  <2>7. NumEntries(b) = zero
    <3>1. b.off_dt_struct - b.off_mem_rsvmap = 0
      BY <2>1, FirstReservationIs
    <3>2. RsvSize \in Nat /\ RsvSize > 0
      BY RsvSizeIs
    <3>3. 0 \div RsvSize = 0
      <4> HIDE DEF RsvSize
      <4>. QED
        BY <3>2
    <3>. QED
      BY <3>1, <3>3 DEF NumEntries
  <2>8. zero \in Nat /\ 1 .. zero = {}
    OBVIOUS
  <2> HIDE DEF zero
  <2>9. Entries(b) = [i \in 1 .. zero |-> EntryAt(b, i)] /\ Len(Entries(b)) = zero
    BY <2>7, <2>8, EntriesListed
  <2>10. ~Mapped(b)
    BY <2>8, <2>9 DEF Mapped
  <2>11. Reserved(b) = Entries(b)
    BY <2>7, <2>8, <2>10, ReservedIs
  <2>12. Entries(b) = << >>
    BY <2>8, <2>9
  <2>. QED
    BY <2>1, <2>6, <2>10, <2>11, <2>12 DEF b
<1>. QED
  BY <1>1, <1>2

(* What is reserved stays with the map.                                    *)
LEMMA MapStays ==
  ASSUME NEW b, NEW c, Entries(c) = Entries(b)
  PROVE  Mapped(c) = Mapped(b) /\ Reserved(c) = Reserved(b)
BY DEF Mapped, Reserved

LEMMA UsedMapStays ==
  ASSUME NEW b, InUse(b), NEW c, KeepsMap(b, c)
  PROVE  Mapped(c) = Mapped(b) /\ Reserved(c) = Reserved(b)
<1>1. /\ b.off_mem_rsvmap \in Nat /\ b.off_dt_struct \in Nat
      /\ b.off_dt_struct >= b.off_mem_rsvmap + RsvSize /\ IsBlob(b)
  BY DEF InUse, WrittenOk, IsBlob
<1>2. b.off_mem_rsvmap <= b.off_dt_struct
  BY <1>1, RsvSizeIs
<1>3. Entries(c) = Entries(b)
  BY <1>1, <1>2, EntriesStay
<1>. QED
  BY <1>3, MapStays

(* fdt_open_into, of a blob that is in place, changes only its size.       *)
LEMMA OpenIntoWrites ==
  ASSUME NEW b, NEW v, Closed(b, v), InPlace(b),
         b.off_mem_rsvmap = FirstReservation,
         NEW bufsize \in Nat, NEW r \in fdt_open_into(b, bufsize)
  PROVE  \/ r.ret = NOSPACE
         \/ /\ r.ret = 0
            /\ FinishedOk(r.fdt) => Closed(r.fdt, v) /\ Entries(r.fdt) = Entries(b)
<1> DEFINE q == [b EXCEPT !.totalsize = bufsize]
<1>1. FinishedOk(b) /\ IsBlob(b) /\ b.off_mem_rsvmap <= b.off_dt_struct /\ Mapped(b)
  BY DEF Closed, FinishedOk
<1>2. ~Misordered(b, MapSize(b))
  <2>1. /\ b.off_dt_struct \in Nat /\ b.off_mem_rsvmap \in Nat
        /\ StructTop(b) \in Nat /\ b.totalsize \in Nat /\ DataSize(b) \in Nat
    BY <1>1 DEF IsBlob, StructTop, DataSize
  <2>2. MapSize(b) \in Nat /\ b.off_mem_rsvmap + MapSize(b) <= b.off_dt_struct
    BY <1>1, <2>1, MapHasRoom
  <2>3. ~(b.off_dt_struct < b.off_mem_rsvmap + MapSize(b))
    BY <2>1, <2>2
  <2>4. FirstReservation \in Nat /\ ~(FirstReservation < HEADER_SIZE)
    <3> DEFINE R == RsvSize
               H == HEADER_SIZE
               n == (H + R - 1) \div R
    <3>1. R \in Nat /\ R > 0 /\ H \in Nat
      BY RsvSizeIs, SizesAssumption
    <3>2. FirstReservation = R * n /\ FirstReservation \in Nat
      BY FirstReservationIs DEF FirstReservation
    <3> HIDE DEF R, H
    <3>3. H + R - 1 \in Nat /\ n \in Nat
      BY <3>1
    <3>4. H + R - 1 < R * n + R
      BY <3>1, <3>3
    <3> HIDE DEF n
    <3>. QED
      BY <3>1, <3>2, <3>3, <3>4 DEF H
  <2>. QED
    BY <2>1, <2>3, <2>4 DEF Misordered, InPlace
<1>3. r = Result(b, NOSPACE) \/ r = Result(q, 0)
  BY <1>2 DEF fdt_open_into
<1>4. CASE r = Result(b, NOSPACE)
  BY <1>4 DEF Result
<1>5. CASE r = Result(q, 0)
  <2>1. r.ret = 0 /\ r.fdt = q
    BY <1>5 DEF Result
  <2>2. /\ DOMAIN q = BlobFields
        /\ \A f \in BlobFields \ {"totalsize"} : q[f] = b[f]
    BY <1>1 DEF IsBlob, BlobFields
  <2> HIDE DEF q
  <2>3. /\ q.mem = b.mem /\ q.off_mem_rsvmap = b.off_mem_rsvmap
        /\ q.off_dt_struct = b.off_dt_struct
        /\ q.size_dt_struct = b.size_dt_struct
        /\ q.size_dt_strings = b.size_dt_strings
        /\ q.off_dt_strings = b.off_dt_strings
    BY <2>2 DEF BlobFields
  <2>4. Entries(q) = Entries(b)
    BY <2>3 DEF Entries
  <2>5. Mapped(q)
    BY <1>1, <2>4, MapStays
  <2>6. /\ \A i \in 0 .. b.size_dt_struct - 1 : Struct(q, i) = Struct(b, i)
        /\ \A o : String(q, o) = String(b, o)
    BY <2>3 DEF Struct, String
  <2> DEFINE o == b.size_dt_struct - FDT_TAGSIZE
  <2>7. Says(b, o, v)
    BY DEF Closed
  <2> HIDE DEF o
  <2>8. /\ Says(q, o, v)
        /\ \A t \in Tags(q) :
             /\ t \in Tags(b) /\ TagOf(q, t) = TagOf(b, t)
             /\ TagOf(q, t) = "PROP" => NameOff(q, t) = NameOff(b, t)
    BY <2>3, <2>6, <2>7, StructStays
  <2>9. \A t \in Tags(q) : TagOf(q, t) = "PROP" =>
          NameOff(q, t) \in 0 .. q.size_dt_strings - 1
    BY <2>3, <2>8 DEF Closed
  <2>10. FinishedOk(q) => Closed(q, v)
    BY <1>1, <2>3, <2>5, <2>8, <2>9 DEF Closed, o
  <2>. QED
    BY <2>1, <2>4, <2>10
<1>. QED
  BY <1>3, <1>4, <1>5

(* A path of one name.                                                     *)
LEMMA ShortPath ==
  ASSUME NEW x, NEW s \in Seq({x}), Len(s) = 0
  PROVE  Append(s, x) = <<x>> /\ Front(<<x>>) = s /\ <<x>> # s
<1> DEFINE one == <<x>>
<1>1. /\ one \in Seq({x}) /\ Len(one) = 1 /\ one[1] = x
      /\ Append(s, x) \in Seq({x}) /\ Len(Append(s, x)) = 1
      /\ Append(s, x)[1] = x
  OBVIOUS
<1> HIDE DEF one
<1>2. Append(s, x) = one
  BY <1>1
<1>3. SubSeq(one, 1, 1 - 1) = s
  BY <1>1
<1>4. Front(one) = s
  BY <1>1, <1>3 DEF Front
<1>. QED
  BY <1>1, <1>2, <1>4 DEF one

(* What the caller's view is after fdt_create_empty_tree.                  *)
RootOnly(v) ==
  v.path = Nowhere /\ v.last = "END_NODE" /\ v.tree = Put(<< >>, <<"">>, << >>)

(* fdt_create_empty_tree: a root, and a map without reservations, or an    *)
(* error.                                                                  *)
LEMMA EmptyTreeWrites ==
  ASSUME NEW old, NEW bufsize \in Nat,
         NEW r \in fdt_create_empty_tree(old, bufsize)
  PROVE  \/ r.ret = NOSPACE
         \/ /\ r.ret = 0 /\ Mapped(r.fdt) /\ Reserved(r.fdt) = << >>
            /\ \E v : Closed(r.fdt, v) /\ RootOnly(v)
<1> DEFINE created == fdt_create(old, bufsize)
           mapped == Then({created}, LAMBDA b : {fdt_finish_reservemap(b)})
           begun  == Then(mapped, LAMBDA b : {fdt_begin_node(b, "")})
           ended  == Then(begun, LAMBDA b : {fdt_end_node(b)})
           done   == Then(ended, LAMBDA b : {fdt_finish(b)})
           root == ""
           Map(b) == Mapped(b) /\ Reserved(b) = << >>
<1>0. root \in NodeNames /\ NOSPACE # 0
  <2>1. WriteNames \cup {""} \subseteq NodeNames
    BY WriteAssumption, Zenon
  <2>2. root \in NodeNames
    BY <2>1, Zenon
  <2>3. NOSPACE # 0
    BY DEF NOSPACE
  <2>. QED
    BY <2>2, <2>3
<1>1. ASSUME NEW q \in mapped
      PROVE  \/ q.ret = NOSPACE
             \/ q.ret = 0 /\ Writing(q.fdt, Blank) /\ InUse(q.fdt) /\ Map(q.fdt)
  <2> DEFINE b == created.fdt
             zero == 0
  <2>1. \/ created.ret # 0 /\ q = created
        \/ created.ret = 0 /\ q = fdt_finish_reservemap(b)
    BY <1>1 DEF Then
  <2>2. \/ created.ret = NOSPACE
        \/ /\ created.ret = 0 /\ Writing(b, Blank)
           /\ ~Mapped(b) /\ Reserved(b) = << >>
    BY CreateWrites
  <2>3. b.size_dt_struct = 0 \/ created.ret # 0
    <3>1. CASE created.ret = 0
      <4>1. Unwritten(b)
        BY <3>1, CreateIs
      <4>. QED
        BY <4>1 DEF Unwritten
    <3>. QED
      BY <3>1
  <2>4. fdt_finish_reservemap(b) = fdt_add_reservemap_entry(b, zero, zero)
    BY DEF fdt_finish_reservemap
  <2> HIDE DEF created, mapped
  <2>5. CASE created.ret # 0
    BY <2>1, <2>2, <2>5
  <2>6. CASE created.ret = 0
    <3>1. Writing(b, Blank) /\ ~Mapped(b) /\ Reserved(b) = << >>
          /\ b.size_dt_struct = 0 /\ q = fdt_add_reservemap_entry(b, zero, zero)
      BY <1>0, <2>1, <2>2, <2>3, <2>4, <2>6
    <3> HIDE DEF b, zero
    <3>2. \/ q.ret = BADSTATE /\ q.fdt = b /\ b.size_dt_struct # 0
          \/ Refused(b, q, RsvSize) /\ b.size_dt_struct = 0
          \/ /\ q.ret = 0 /\ b.size_dt_struct = 0
             /\ Writing(q.fdt, Blank) /\ InUse(q.fdt)
             /\ Listed(b, q.fdt, zero, zero)
      BY <3>1, ReservationWrites
    <3>. QED
      BY <3>1, <3>2 DEF Refused, Listed, zero
  <2>. QED
    BY <2>5, <2>6
<1> HIDE DEF mapped
<1>2. ASSUME NEW q \in begun
      PROVE  \/ q.ret = NOSPACE
             \/ /\ q.ret = 0 /\ InUse(q.fdt) /\ Map(q.fdt)
                /\ \E w : Writing(q.fdt, w) /\ Begun(Blank, w, root)
  <2>1. PICK p \in mapped : \/ p.ret # 0 /\ q = p
                            \/ p.ret = 0 /\ q = fdt_begin_node(p.fdt, "")
    BY <1>2 DEF Then
  <2>2. q = fdt_begin_node(p.fdt, root) \/ p.ret # 0
    BY <2>1
  <2> HIDE DEF root
  <2>3. CASE p.ret # 0
    BY <1>1, <2>1, <2>3
  <2>4. CASE p.ret = 0
    <3>1. Writing(p.fdt, Blank) /\ InUse(p.fdt) /\ Map(p.fdt)
          /\ q = fdt_begin_node(p.fdt, root)
      BY <1>0, <1>1, <2>2, <2>4
    <3>2. \/ Refused(p.fdt, q, FDT_TAGSIZE + TagAlign(NodeLength[root] + 1))
          \/ /\ q.ret = 0 /\ InUse(q.fdt) /\ KeepsMap(p.fdt, q.fdt)
             /\ \E w : Writing(q.fdt, w) /\ Begun(Blank, w, root)
      BY <1>0, <3>1, BeginNodeWrites
    <3>3. KeepsMap(p.fdt, q.fdt) => Map(q.fdt)
      BY <3>1, UsedMapStays
    <3>. QED
      BY <3>2, <3>3 DEF Refused
  <2>. QED
    BY <2>3, <2>4
<1> HIDE DEF begun
<1> HIDE DEF root
<1>5. Append(<< >>, root) = <<root>> /\ Front(<<root>>) = << >> /\ <<root>> # << >>
  <2>1. << >> \in Seq({root}) /\ Len(<< >>) = 0
    OBVIOUS
  <2>. QED
    BY <2>1, ShortPath
<1>3. ASSUME NEW q \in ended
      PROVE  \/ q.ret = NOSPACE
             \/ /\ q.ret = 0 /\ InUse(q.fdt) /\ Map(q.fdt)
                /\ \E w : Writing(q.fdt, w) /\ RootOnly(w)
  <2>1. PICK p \in begun : \/ p.ret # 0 /\ q = p
                           \/ p.ret = 0 /\ q = fdt_end_node(p.fdt)
    BY <1>3 DEF Then
  <2>3. CASE p.ret # 0
    BY <1>2, <2>1, <2>3
  <2>4. CASE p.ret = 0
    <3>1. InUse(p.fdt) /\ Map(p.fdt) /\ q = fdt_end_node(p.fdt)
          /\ \E u : Writing(p.fdt, u) /\ Begun(Blank, u, root)
      BY <1>0, <1>2, <2>1, <2>4
    <3>2. PICK u : Writing(p.fdt, u) /\ Begun(Blank, u, root)
      BY <3>1
    <3>3. u.path = <<root>> /\ u.tree = Put(<< >>, <<root>>, << >>)
      <4>1. Blank.path = << >> /\ Blank.tree = << >>
        BY DEF Blank, Nowhere
      <4>. QED
        BY <1>5, <3>2, <4>1 DEF Begun
    <3>4. u.path # Nowhere
      BY <1>5, <3>3 DEF Nowhere
    <3>5. \/ Refused(p.fdt, q, FDT_TAGSIZE)
          \/ /\ q.ret = 0 /\ InUse(q.fdt) /\ KeepsMap(p.fdt, q.fdt)
             /\ \E w : Writing(q.fdt, w) /\ Ended(u, w)
      BY <3>1, <3>2, <3>4, EndNodeWrites
    <3>6. KeepsMap(p.fdt, q.fdt) => Map(q.fdt)
      BY <3>1, UsedMapStays
    <3>7. ASSUME NEW w, Ended(u, w)  PROVE RootOnly(w)
      <4>1. Front(u.path) = << >>
        BY <1>5, <3>3
      <4>2. /\ w.path = Nowhere /\ w.last = "END_NODE"
            /\ w.tree = Put(<< >>, <<root>>, << >>)
        BY <3>3, <3>7, <4>1, Zenon DEF Ended, Nowhere
      <4>. QED
        BY <4>2, Zenon DEF RootOnly, root
    <3>. QED
      BY <3>5, <3>6, <3>7 DEF Refused
  <2>. QED
    BY <2>3, <2>4
<1> HIDE DEF ended
<1>4. ASSUME NEW q \in done
      PROVE  \/ q.ret = NOSPACE
             \/ /\ q.ret = 0 /\ Map(q.fdt) /\ InPlace(q.fdt)
                /\ q.fdt.off_mem_rsvmap = FirstReservation
                /\ \E w : Closed(q.fdt, w) /\ RootOnly(w)
  <2>1. PICK p \in ended : \/ p.ret # 0 /\ q = p
                           \/ p.ret = 0 /\ q = fdt_finish(p.fdt)
    BY <1>4 DEF Then
  <2>3. CASE p.ret # 0
    BY <1>3, <2>1, <2>3
  <2>4. CASE p.ret = 0
    <3>1. InUse(p.fdt) /\ Map(p.fdt) /\ q = fdt_finish(p.fdt)
          /\ \E w : Writing(p.fdt, w) /\ RootOnly(w)
      BY <1>0, <1>3, <2>1, <2>4
    <3>2. PICK w : Writing(p.fdt, w) /\ RootOnly(w)
      BY <3>1
    <3>3. w.path = Nowhere
      BY <3>2 DEF RootOnly
    <3>4. \/ Refused(p.fdt, q, FDT_TAGSIZE)
          \/ /\ q.ret = 0 /\ Closed(q.fdt, w) /\ InPlace(q.fdt)
             /\ Entries(q.fdt) = Entries(p.fdt)
             /\ q.fdt.off_mem_rsvmap = p.fdt.off_mem_rsvmap
      BY <3>1, <3>2, <3>3, FinishWrites
    <3>5. p.fdt.off_mem_rsvmap = FirstReservation
      BY <3>1 DEF InUse, WrittenOk
    <3>6. Entries(q.fdt) = Entries(p.fdt) => Map(q.fdt)
      BY <3>1, MapStays
    <3>. QED
      BY <3>2, <3>4, <3>5, <3>6 DEF Refused
  <2>. QED
    BY <2>3, <2>4
<1> HIDE DEF done
<1>9. fdt_create_empty_tree(old, bufsize)
        = Then(done, LAMBDA b : fdt_open_into(b, bufsize))
  BY DEF fdt_create_empty_tree, EmptyTree, done, ended, begun, mapped
<1>6. PICK p \in done : \/ p.ret # 0 /\ r = p
                        \/ p.ret = 0 /\ r \in fdt_open_into(p.fdt, bufsize)
  BY <1>9 DEF Then
<1>7. CASE p.ret # 0
  BY <1>4, <1>6, <1>7
<1>8. CASE p.ret = 0
  <2>1. /\ Map(p.fdt) /\ InPlace(p.fdt)
        /\ p.fdt.off_mem_rsvmap = FirstReservation
        /\ \E w : Closed(p.fdt, w) /\ RootOnly(w)
        /\ r \in fdt_open_into(p.fdt, bufsize)
    BY <1>0, <1>4, <1>6, <1>8
  <2>2. PICK w : Closed(p.fdt, w) /\ RootOnly(w)
    BY <2>1
  <2>3. \/ r.ret = NOSPACE
        \/ /\ r.ret = 0
           /\ FinishedOk(r.fdt) => Closed(r.fdt, w) /\ Entries(r.fdt) = Entries(p.fdt)
    BY <2>1, <2>2, OpenIntoWrites
  <2>4. r.ret = 0 => FinishedOk(r.fdt)
    BY CreateEmptyTreeIs
  <2>5. Entries(r.fdt) = Entries(p.fdt) => Map(r.fdt)
    BY <2>1, MapStays
  <2>. QED
    BY <2>2, <2>3, <2>4, <2>5
<1>. QED
  BY <1>7, <1>8

(* A map with an end has entries.                                          *)
LEMMA MappedHasRoom ==
  ASSUME NEW b, b.off_dt_struct \in Nat, b.off_mem_rsvmap \in Nat, Mapped(b)
  PROVE  b.off_mem_rsvmap <= b.off_dt_struct
<1> SUFFICES ASSUME b.off_dt_struct < b.off_mem_rsvmap  PROVE FALSE
  OBVIOUS
<1> DEFINE off == b.off_dt_struct
           map == b.off_mem_rsvmap
           R == RsvSize
           num == (off - map) \div R
<1>1. num \in Int /\ num <= 0
  <2>1. off \in Nat /\ map \in Nat /\ off < map /\ R \in Nat /\ R > 0
    BY RsvSizeIs
  <2> HIDE DEF off, map, R
  <2>. QED
    BY <2>1
<1>2. 1 .. num = {}
  BY <1>1
<1>3. Entries(b) = [i \in 1 .. num |-> EntryAt(b, i)]
  BY DEF Entries, EntryAt
<1> HIDE DEF num
<1>4. Entries(b) = << >>
  BY <1>2, <1>3
<1>5. Len(Entries(b)) = 0
  BY <1>4
<1>. QED
  BY <1>5 DEF Mapped

(* The blobs there are in the beginning.                                   *)
LEMMA BlobsAreClosed ==
  ASSUME NEW b \in Blobs
  PROVE  Closed(Finished(b), Contents(Finished(b)))
<1> DEFINE c == Finished(b)
           v == Contents(c)
           z == c.size_dt_struct
<1>1. /\ DOMAIN b = BlobFields \ {"magic"}
      /\ {b.totalsize, b.off_mem_rsvmap, b.off_dt_struct, b.size_dt_struct,
          b.off_dt_strings, b.size_dt_strings} \subseteq Nat
      /\ 0 .. b.totalsize - 1 \subseteq DOMAIN b.mem
      /\ BlocksInside(b)
  BY BlobsAssumption DEF BlobFields
<1>2. StructIsSound(b) /\ Mapped(b) /\ Whole(c, v)
  BY BlobsAssumption
<1>3. /\ DOMAIN c = BlobFields /\ c.magic = "FDT"
      /\ \A f \in BlobFields \ {"magic"} : c[f] = b[f]
  BY <1>1 DEF Finished, BlobFields
<1> HIDE DEF c
<1>4. /\ c.mem = b.mem /\ c.totalsize = b.totalsize
      /\ c.off_mem_rsvmap = b.off_mem_rsvmap
      /\ c.off_dt_struct = b.off_dt_struct
      /\ z = b.size_dt_struct
      /\ c.size_dt_strings = b.size_dt_strings
      /\ c.off_dt_strings = b.off_dt_strings
  BY <1>3 DEF BlobFields
<1>5. FinishedOk(c)
  BY <1>1, <1>3, <1>4
  DEF FinishedOk, IsBlob, Covered, BlocksInside, StructTop, DataSize
<1>6. Entries(c) = Entries(b)
  BY <1>4 DEF Entries
<1>7. Mapped(c)
  BY <1>2, <1>6 DEF Mapped
<1>8. c.off_mem_rsvmap <= c.off_dt_struct
  BY <1>5, <1>7, MappedHasRoom DEF FinishedOk, IsBlob
<1>9. \A o : /\ Struct(c, o) = Struct(b, o) /\ NodeName(c, o) = NodeName(b, o)
             /\ PropLen(c, o) = PropLen(b, o) /\ NameOff(c, o) = NameOff(b, o)
  BY <1>4 DEF Struct, NodeName, PropLen, NameOff
<1>10. Tags(c) = Tags(b) /\ \A o : Following(c, o) = Following(b, o)
  BY <1>4, <1>9 DEF Tags, Following, TagLength
<1>11. \A o : TagIsSound(b, o) => TagIsSound(c, o)
  BY <1>4, <1>9, <1>10 DEF TagIsSound
<1>12. StructIsSound(c)
  BY <1>2, <1>4, <1>10, <1>11 DEF StructIsSound
<1>13. HasStruct(c) /\ z \in Nat /\ IsMultiple(z)
  BY <1>5, <1>12 DEF HasStruct, FinishedOk, IsBlob, StructIsSound, IsMultiple
<1>14. PICK n, p, g : IsReader(c, n, p, g) /\ v = g[n]
  BY <1>13, ContentsAreRead
<1>15. /\ \A t \in Tags(c) : \E i \in 0 .. n : p[i] = t
  BY <1>13, <1>14, EachIsRead
<1>16. /\ n \in Nat /\ p[0] = 0 /\ g[0] = Blank /\ TagOf(c, p[n]) = "END"
       /\ \A i \in 0 .. n : p[i] \in Tags(c)
       /\ \A i \in 0 .. n - 1 : /\ TagOf(c, p[i]) # "END"
                                /\ p[i + 1] = Following(c, p[i])
                                /\ g[i + 1] = Read(c, g[i], p[i])
  BY <1>14 DEF IsReader
<1>17. \A o \in Tags(c) : TagIsSound(c, o)
  BY <1>12 DEF StructIsSound
<1>18. ASSUME NEW o \in Tags(c), TagOf(c, o) # "END"  PROVE TagFits(c, o)
  <2>1. /\ TagOf(c, o) \in {"BEGIN_NODE", "END_NODE", "PROP", "NOP"}
        /\ TagOf(c, o) = "BEGIN_NODE" => NodeName(c, o) \in NodeNames
        /\ TagOf(c, o) = "PROP" => PropLen(c, o) \in Nat
        /\ Following(c, o) \in Tags(c)
    BY <1>17, <1>18 DEF TagIsSound, TagOf
  <2>2. Following(c, o) <= c.size_dt_struct
    <3>1. Following(c, o) \in 0 .. z - 1
      BY <2>1 DEF Tags
    <3>. QED
      BY <1>13, <3>1
  <2>. QED
    BY <2>1, <2>2 DEF TagFits
<1>19. p[n] + FDT_TAGSIZE = z /\ p[n] \in Tags(c)
  <2>1. p[n] \in Tags(c)
    BY <1>16
  <2>2. Following(c, p[n]) = z
    BY <1>16, <1>17, <2>1 DEF TagIsSound, TagOf
  <2>3. Following(c, p[n]) = TagAlign(p[n] + FDT_TAGSIZE)
    BY <1>16 DEF Following, TagLength, TagOf
  <2>4. p[n] \in Nat /\ IsMultiple(p[n])
    BY <2>1 DEF Tags, IsMultiple
  <2>5. TagAlign(p[n] + FDT_TAGSIZE) = p[n] + FDT_TAGSIZE
    BY <2>4, Multiples, AlignedStays
  <2>. QED
    BY <2>1, <2>2, <2>3, <2>5
<1>20. IsWalk(c, n, p)
  <2>1. AtEnd(c, p[n])
    BY <1>16, <1>19 DEF AtEnd
  <2>2. ASSUME NEW i \in 0 .. n - 1
        PROVE  TagFits(c, p[i]) /\ p[i + 1] = Following(c, p[i])
    <3>1. i \in 0 .. n
      BY <1>16
    <3>. QED
      BY <1>16, <1>18, <3>1
  <2>3. \A t \in Tags(c) : \E i \in 0 .. n : t = p[i]
    BY <1>15
  <2>. QED
    BY <1>13, <1>16, <2>1, <2>2, <2>3 DEF IsWalk
<1>21. IsRead(c, n, p, g)
  BY <1>16 DEF IsRead
<1>22. p[n] = c.size_dt_struct - FDT_TAGSIZE
  <2>1. p[n] \in Nat /\ FDT_TAGSIZE \in Nat
    BY <1>19, TagSizeIs DEF Tags
  <2>. QED
    BY <1>13, <1>19, <2>1
<1>23. Says(c, c.size_dt_struct - FDT_TAGSIZE, v)
  BY <1>14, <1>20, <1>21, <1>22 DEF Says, IsScribe
<1>24. \A t \in Tags(c) : TagOf(c, t) = "PROP" =>
         NameOff(c, t) \in 0 .. c.size_dt_strings - 1
  BY <1>17 DEF TagIsSound, TagOf
<1>25. v.ok /\ v.path = Nowhere
  BY <1>2 DEF Whole
<1> HIDE DEF v
<1>26. Closed(c, v)
  BY <1>5, <1>7, <1>8, <1>23, <1>24, <1>25 DEF Closed
<1>. QED
  BY <1>26 DEF c, v

-----------------------------------------------------------------------------
(* What each call does.                                                    *)

(* A property that was refused is refused again, and adds no string more.  *)
Settled ==
  \A name, val, err :
    fdt.magic = "SW" /\ call = <<"property", name, val, err>> /\ err < 0 =>
      fdt_property(fdt, name, val).fdt = fdt

Tracks ==
  /\ fdt.magic = "SW" => Writing(fdt, view)
  /\ fdt.magic = "FDT" => Closed(fdt, view)
  /\ Settled

(* An error, and nothing else.                                             *)
Failed(c, err) == fdt' = fdt /\ view' = view /\ call' = Append(c, err)

Succeeded(c) == call' = Append(c, 0)

SameMap == Mapped(fdt') = Mapped(fdt) /\ Reserved(fdt') = Reserved(fdt)

(* What is known of the blob before a call.                                *)
LEMMA BlobIs ==
  ASSUME IInv, Tracks
  PROVE  /\ view = Contents(fdt) /\ fdt.magic \in {"none", "SW", "FDT"}
         /\ fdt.magic = "none" => fdt = NoBlob
         /\ fdt.magic = "SW" => Writing(fdt, view) /\ WrittenOk(fdt)
         /\ fdt.magic = "FDT" => Closed(fdt, view) /\ FinishedOk(fdt)
<1>1. BlobOk(fdt) /\ view = Contents(fdt)
  BY DEF IInv
<1>2. /\ fdt.magic = "none" => fdt = NoBlob
      /\ fdt.magic = "SW" => WrittenOk(fdt)
      /\ fdt.magic = "FDT" => FinishedOk(fdt)
      /\ fdt.magic \in {"none", "SW", "FDT"}
  BY <1>1, MagicIs
<1>. QED
  BY <1>1, <1>2 DEF Tracks

(* A call that returns what it got, with an error.                         *)
LEMMA RefusedFails ==
  ASSUME IInv, NEW c, NEW r, Returns(c, r), r.fdt = fdt
  PROVE  Failed(c, r.ret)
BY DEF IInv, Returns, Failed

(* The view shows what the new blob says.                                  *)
LEMMA ViewIs ==
  ASSUME NEW c, NEW r, Returns(c, r)
  PROVE  /\ fdt' = r.fdt /\ call' = Append(c, r.ret)
         /\ \A w : Writing(r.fdt, w) => view' = w
         /\ \A w : Closed(r.fdt, w) => view' = w
<1>1. fdt' = r.fdt /\ call' = Append(c, r.ret) /\ view' = Contents(r.fdt)
  BY DEF Returns
<1>2. ASSUME NEW w, Writing(r.fdt, w)  PROVE view' = w
  <2>1. Says(r.fdt, r.fdt.size_dt_struct, w)
    BY <1>2 DEF Writing
  <2>2. Contents(r.fdt) = w
    BY <2>1, SaysIs
  <2>. QED
    BY <1>1, <2>2
<1>3. ASSUME NEW w, Closed(r.fdt, w)  PROVE view' = w
  <2>1. Contents(r.fdt) = w
    BY <1>3, ClosedIsWhole
  <2>. QED
    BY <1>1, <2>1
<1>. QED
  BY <1>1, <1>2, <1>3

(* A call in order.                                                        *)
LEMMA OrderIs ==
  ASSUME IInv, Tracks, NEW condition, InOrder(condition)
  PROVE  \/ fdt.magic = "FDT"
         \/ /\ fdt.magic = "SW" /\ condition /\ Mapped(fdt)
            /\ Writing(fdt, view) /\ InUse(fdt)
<1>1. CASE fdt.magic = "SW" /\ Mapped(fdt) /\ condition
  <2>1. WrittenOk(fdt) /\ Writing(fdt, view)
    BY <1>1, BlobIs
  <2>2. fdt.off_dt_struct >= fdt.off_mem_rsvmap + RsvSize /\ Room(fdt) >= 0
    BY <1>1, <2>1, MappedIs
  <2>. QED
    BY <1>1, <2>1, <2>2 DEF InUse
<1>. QED
  BY <1>1 DEF InOrder

LEMMA BeginNodeDoes ==
  ASSUME IInv, Tracks, NEW name \in WriteNames, InOrder(MayBegin(name)),
         NEW c, Returns(c, fdt_begin_node(fdt, name))
  PROVE  \/ fdt.magic = "FDT" /\ Failed(c, BADMAGIC)
         \/ /\ fdt.magic = "SW" /\ Failed(c, NOSPACE)
            /\ Room(fdt) < FDT_TAGSIZE + TagAlign(NodeLength[name] + 1)
         \/ /\ fdt.magic = "SW" /\ Succeeded(c) /\ SameMap
            /\ Writing(fdt', view') /\ Begun(view, view', name)
<1> DEFINE r == fdt_begin_node(fdt, name)
<1>1. CASE fdt.magic = "FDT"
  <2>1. r.fdt = fdt /\ r.ret = BADMAGIC
    BY <1>1 DEF fdt_begin_node, SwChecked, Result
  <2> HIDE DEF r
  <2>2. Failed(c, r.ret)
    BY <2>1, RefusedFails DEF r
  <2>. QED
    BY <1>1, <2>1, <2>2
<1>2. CASE /\ fdt.magic = "SW" /\ MayBegin(name)
           /\ Writing(fdt, view) /\ InUse(fdt)
  <2>1. name \in NodeNames
    BY WriteAssumption, Zenon
  <2> HIDE DEF r
  <2>2. \/ Refused(fdt, r, FDT_TAGSIZE + TagAlign(NodeLength[name] + 1))
        \/ /\ r.ret = 0 /\ InUse(r.fdt) /\ KeepsMap(fdt, r.fdt)
           /\ \E w : Writing(r.fdt, w) /\ Begun(view, w, name)
    BY <1>2, <2>1, BeginNodeWrites DEF r
  <2>3. CASE Refused(fdt, r, FDT_TAGSIZE + TagAlign(NodeLength[name] + 1))
    <3>1. r.fdt = fdt /\ r.ret = NOSPACE
          /\ Room(fdt) < FDT_TAGSIZE + TagAlign(NodeLength[name] + 1)
      BY <2>3 DEF Refused
    <3>2. Failed(c, r.ret)
      BY <3>1, RefusedFails DEF r
    <3>. QED
      BY <1>2, <3>1, <3>2
  <2>4. CASE /\ r.ret = 0 /\ InUse(r.fdt) /\ KeepsMap(fdt, r.fdt)
             /\ \E w : Writing(r.fdt, w) /\ Begun(view, w, name)
    <3>1. PICK w : Writing(r.fdt, w) /\ Begun(view, w, name)
      BY <2>4
    <3>2. fdt' = r.fdt /\ call' = Append(c, r.ret) /\ view' = w
      BY <3>1, ViewIs DEF r
    <3>3. Mapped(r.fdt) = Mapped(fdt) /\ Reserved(r.fdt) = Reserved(fdt)
      BY <1>2, <2>4, UsedMapStays
    <3>. QED
      BY <1>2, <2>4, <3>1, <3>2, <3>3 DEF Succeeded, SameMap
  <2>. QED
    BY <2>2, <2>3, <2>4
<1>. QED
  BY <1>1, <1>2, OrderIs

LEMMA EndNodeDoes ==
  ASSUME IInv, Tracks, InOrder(view.path # Nowhere),
         NEW c, Returns(c, fdt_end_node(fdt))
  PROVE  \/ fdt.magic = "FDT" /\ Failed(c, BADMAGIC)
         \/ fdt.magic = "SW" /\ Failed(c, NOSPACE) /\ Room(fdt) < FDT_TAGSIZE
         \/ /\ fdt.magic = "SW" /\ Succeeded(c) /\ SameMap
            /\ Writing(fdt', view') /\ Ended(view, view')
<1> DEFINE r == fdt_end_node(fdt)
<1>1. CASE fdt.magic = "FDT"
  <2>1. r.fdt = fdt /\ r.ret = BADMAGIC
    BY <1>1 DEF fdt_end_node, SwChecked, Result
  <2> HIDE DEF r
  <2>2. Failed(c, r.ret)
    BY <2>1, RefusedFails DEF r
  <2>. QED
    BY <1>1, <2>1, <2>2
<1>2. CASE /\ fdt.magic = "SW" /\ view.path # Nowhere
           /\ Writing(fdt, view) /\ InUse(fdt)
  <2> HIDE DEF r
  <2>2. \/ Refused(fdt, r, FDT_TAGSIZE)
        \/ /\ r.ret = 0 /\ InUse(r.fdt) /\ KeepsMap(fdt, r.fdt)
           /\ \E w : Writing(r.fdt, w) /\ Ended(view, w)
    BY <1>2, EndNodeWrites DEF r
  <2>3. CASE Refused(fdt, r, FDT_TAGSIZE)
    <3>1. r.fdt = fdt /\ r.ret = NOSPACE /\ Room(fdt) < FDT_TAGSIZE
      BY <2>3 DEF Refused
    <3>2. Failed(c, r.ret)
      BY <3>1, RefusedFails DEF r
    <3>. QED
      BY <1>2, <3>1, <3>2
  <2>4. CASE /\ r.ret = 0 /\ InUse(r.fdt) /\ KeepsMap(fdt, r.fdt)
             /\ \E w : Writing(r.fdt, w) /\ Ended(view, w)
    <3>1. PICK w : Writing(r.fdt, w) /\ Ended(view, w)
      BY <2>4
    <3>2. fdt' = r.fdt /\ call' = Append(c, r.ret) /\ view' = w
      BY <3>1, ViewIs DEF r
    <3>3. Mapped(r.fdt) = Mapped(fdt) /\ Reserved(r.fdt) = Reserved(fdt)
      BY <1>2, <2>4, UsedMapStays
    <3>. QED
      BY <1>2, <2>4, <3>1, <3>2, <3>3 DEF Succeeded, SameMap
  <2>. QED
    BY <2>2, <2>3, <2>4
<1>. QED
  BY <1>1, <1>2, OrderIs

LEMMA PropertyDoes ==
  ASSUME IInv, Tracks, NEW name \in WriteProps, NEW val \in WriteValues,
         InOrder(MayHave(name)), NEW c, Returns(c, fdt_property(fdt, name, val))
  PROVE  \/ fdt.magic = "FDT" /\ Failed(c, BADMAGIC)
         \/ /\ fdt.magic = "SW" /\ call' = Append(c, NOSPACE) /\ SameMap
            /\ Room(fdt) < PropertyNeed(fdt, name, val)
            /\ view' = view /\ Writing(fdt', view')
            /\ fdt_property(fdt', name, val).fdt = fdt'
            /\ fdt_property(fdt, name, val).fdt = fdt'
         \/ /\ fdt.magic = "SW" /\ Succeeded(c) /\ SameMap
            /\ Writing(fdt', view') /\ Given(view, view', name, val)
<1> DEFINE r == fdt_property(fdt, name, val)
<1>1. CASE fdt.magic = "FDT"
  <2>1. r.fdt = fdt /\ r.ret = BADMAGIC
    BY <1>1 DEF fdt_property, SwChecked, Result
  <2> HIDE DEF r
  <2>2. Failed(c, r.ret)
    BY <2>1, RefusedFails DEF r
  <2>. QED
    BY <1>1, <2>1, <2>2
<1>2. CASE /\ fdt.magic = "SW" /\ MayHave(name)
           /\ Writing(fdt, view) /\ InUse(fdt)
  <2>1. val \in Seq(Nat)
    BY WriteValuesAre
  <2>2. /\ view.path # Nowhere /\ view.last = "BEGIN_NODE"
        /\ name \notin DOMAIN view.tree[view.path]
    BY <1>2 DEF MayHave
  <2> HIDE DEF r
  <2>3. \/ /\ r.ret = NOSPACE /\ InUse(r.fdt) /\ KeepsMap(fdt, r.fdt)
           /\ Writing(r.fdt, view) /\ Room(fdt) < PropertyNeed(fdt, name, val)
           /\ fdt_property(r.fdt, name, val).fdt = r.fdt
        \/ /\ r.ret = 0 /\ InUse(r.fdt) /\ KeepsMap(fdt, r.fdt)
           /\ \E w : Writing(r.fdt, w) /\ Given(view, w, name, val)
    BY <1>2, <2>1, <2>2, PropertyWrites DEF r
  <2>4. KeepsMap(fdt, r.fdt)
    BY <2>3
  <2>5. Mapped(r.fdt) = Mapped(fdt) /\ Reserved(r.fdt) = Reserved(fdt)
    BY <1>2, <2>4, UsedMapStays
  <2>6. fdt' = r.fdt /\ call' = Append(c, r.ret)
        /\ \A w : Writing(r.fdt, w) => view' = w
    BY ViewIs DEF r
  <2>7. CASE /\ r.ret = NOSPACE
             /\ Writing(r.fdt, view) /\ Room(fdt) < PropertyNeed(fdt, name, val)
             /\ fdt_property(r.fdt, name, val).fdt = r.fdt
    BY <1>2, <2>5, <2>6, <2>7 DEF SameMap, r
  <2>8. CASE r.ret = 0 /\ \E w : Writing(r.fdt, w) /\ Given(view, w, name, val)
    BY <1>2, <2>5, <2>6, <2>8 DEF SameMap, Succeeded
  <2>. QED
    BY <2>3, <2>7, <2>8
<1>. QED
  BY <1>1, <1>2, OrderIs

LEMMA FinishDoes ==
  ASSUME IInv, Tracks, InOrder(view.path = Nowhere /\ view.tree # << >>),
         NEW c, Returns(c, fdt_finish(fdt))
  PROVE  \/ fdt.magic = "FDT" /\ Failed(c, BADMAGIC)
         \/ fdt.magic = "SW" /\ Failed(c, NOSPACE) /\ Room(fdt) < FDT_TAGSIZE
         \/ /\ fdt.magic = "SW" /\ Succeeded(c) /\ SameMap
            /\ Closed(fdt', view') /\ view' = view
<1> DEFINE r == fdt_finish(fdt)
<1>1. CASE fdt.magic = "FDT"
  <2>1. r.fdt = fdt /\ r.ret = BADMAGIC
    BY <1>1 DEF fdt_finish, SwChecked, Result
  <2> HIDE DEF r
  <2>2. Failed(c, r.ret)
    BY <2>1, RefusedFails DEF r
  <2>. QED
    BY <1>1, <2>1, <2>2
<1>2. CASE /\ fdt.magic = "SW" /\ view.path = Nowhere /\ Mapped(fdt)
           /\ Writing(fdt, view) /\ InUse(fdt)
  <2> HIDE DEF r
  <2>2. \/ Refused(fdt, r, FDT_TAGSIZE)
        \/ /\ r.ret = 0 /\ Closed(r.fdt, view) /\ InPlace(r.fdt)
           /\ Entries(r.fdt) = Entries(fdt)
           /\ r.fdt.off_mem_rsvmap = fdt.off_mem_rsvmap
    BY <1>2, FinishWrites DEF r
  <2>3. CASE Refused(fdt, r, FDT_TAGSIZE)
    <3>1. r.fdt = fdt /\ r.ret = NOSPACE /\ Room(fdt) < FDT_TAGSIZE
      BY <2>3 DEF Refused
    <3>2. Failed(c, r.ret)
      BY <3>1, RefusedFails DEF r
    <3>. QED
      BY <1>2, <3>1, <3>2
  <2>4. CASE r.ret = 0 /\ Closed(r.fdt, view) /\ Entries(r.fdt) = Entries(fdt)
    <3>1. fdt' = r.fdt /\ call' = Append(c, r.ret) /\ view' = view
      BY <2>4, ViewIs DEF r
    <3>2. Mapped(r.fdt) = Mapped(fdt) /\ Reserved(r.fdt) = Reserved(fdt)
      BY <2>4, MapStays
    <3>. QED
      BY <1>2, <2>4, <3>1, <3>2 DEF Succeeded, SameMap
  <2>. QED
    BY <2>2, <2>3, <2>4
<1>. QED
  BY <1>1, <1>2, OrderIs

LEMMA AddReservemapEntryDoes ==
  ASSUME IInv, Tracks, fdt.magic # "none", NEW address, NEW size,
         NEW c, Returns(c, fdt_add_reservemap_entry(fdt, address, size))
  PROVE  \/ fdt.magic = "FDT" /\ Failed(c, BADMAGIC)
         \/ fdt.magic = "SW" /\ Failed(c, BADSTATE) /\ DOMAIN view.tree # {}
         \/ /\ fdt.magic = "SW" /\ Failed(c, NOSPACE) /\ view = Blank
            /\ Room(fdt) < RsvSize
         \/ /\ fdt.magic = "SW" /\ Succeeded(c) /\ view' = view /\ view = Blank
            /\ Writing(fdt', view') /\ Listed(fdt, fdt', address, size)
<1> DEFINE r == fdt_add_reservemap_entry(fdt, address, size)
<1>1. CASE fdt.magic = "FDT"
  <2>1. r.fdt = fdt /\ r.ret = BADMAGIC
    BY <1>1 DEF fdt_add_reservemap_entry, SwChecked, Result
  <2> HIDE DEF r
  <2>2. Failed(c, r.ret)
    BY <2>1, RefusedFails DEF r
  <2>. QED
    BY <1>1, <2>1, <2>2
<1>2. CASE fdt.magic = "SW"
  <2>1. Writing(fdt, view)
    BY <1>2, BlobIs
  <2>2. /\ fdt.size_dt_struct = 0 => view = Blank
        /\ fdt.size_dt_struct # 0 => DOMAIN view.tree # {}
    BY <2>1 DEF Writing
  <2> HIDE DEF r
  <2>3. \/ r.ret = BADSTATE /\ r.fdt = fdt /\ fdt.size_dt_struct # 0
        \/ Refused(fdt, r, RsvSize) /\ fdt.size_dt_struct = 0
        \/ /\ r.ret = 0 /\ fdt.size_dt_struct = 0
           /\ Writing(r.fdt, view) /\ InUse(r.fdt)
           /\ Listed(fdt, r.fdt, address, size)
    BY <2>1, ReservationWrites DEF r
  <2>4. r.fdt = fdt => Failed(c, r.ret)
    BY RefusedFails DEF r
  <2>5. CASE r.ret = BADSTATE /\ r.fdt = fdt /\ fdt.size_dt_struct # 0
    BY <1>2, <2>2, <2>4, <2>5
  <2>6. CASE Refused(fdt, r, RsvSize) /\ fdt.size_dt_struct = 0
    BY <1>2, <2>2, <2>4, <2>6 DEF Refused
  <2>7. CASE /\ r.ret = 0 /\ fdt.size_dt_struct = 0
             /\ Writing(r.fdt, view) /\ InUse(r.fdt)
             /\ Listed(fdt, r.fdt, address, size)
    <3>1. fdt' = r.fdt /\ call' = Append(c, r.ret) /\ view' = view
      BY <2>7, ViewIs DEF r
    <3>. QED
      BY <1>2, <2>2, <2>7, <3>1 DEF Succeeded
  <2>. QED
    BY <2>3, <2>5, <2>6, <2>7
<1>. QED
  BY <1>1, <1>2, BlobIs

LEMMA MoveDoes ==
  ASSUME IInv, Tracks, fdt.magic # "none", NEW size \in BufSizes,
         NEW c, Returns(c, fdt_move(fdt, size))
  PROVE  \/ Failed(c, NOSPACE)
         \/ fdt.magic = "SW" /\ Failed(c, BADSTATE) /\ view = Blank
         \/ /\ Succeeded(c) /\ SameMap /\ view' = view /\ fdt'.magic = fdt.magic
            /\ fdt.magic = "SW" => Writing(fdt', view')
            /\ fdt.magic = "FDT" => Closed(fdt', view')
<1> DEFINE r == fdt_move(fdt, size)
<1>1. fdt.magic \in {"SW", "FDT"} /\ (WrittenOk(fdt) \/ FinishedOk(fdt))
  BY BlobIs
<1>2. IsBlob(fdt)
  BY <1>1 DEF WrittenOk, FinishedOk
<1>3. fdt.totalsize \in Nat /\ DOMAIN fdt = BlobFields /\ size \in Nat
  BY <1>2, WriteAssumption DEF IsBlob
<1> HIDE DEF r
<1>4. \/ r.ret = NOSPACE /\ r.fdt = fdt
      \/ r.ret = BADSTATE /\ r.fdt = fdt /\ fdt.magic = "SW" /\ fdt.size_dt_struct = 0
      \/ /\ r.ret = 0 /\ Copied(fdt, r.fdt)
         /\ fdt.magic = "SW" => fdt.size_dt_struct # 0
  BY <1>1, <1>3, MoveSteps DEF r
<1>5. r.fdt = fdt => Failed(c, r.ret)
  BY RefusedFails DEF r
<1>6. CASE r.ret = NOSPACE /\ r.fdt = fdt
  BY <1>5, <1>6
<1>7. CASE /\ r.ret = BADSTATE /\ r.fdt = fdt /\ fdt.magic = "SW"
           /\ fdt.size_dt_struct = 0
  <2>1. Writing(fdt, view)
    BY <1>7, BlobIs
  <2>2. view = Blank
    BY <1>7, <2>1 DEF Writing
  <2>. QED
    BY <1>5, <1>7, <2>2
<1>8. CASE /\ r.ret = 0 /\ Copied(fdt, r.fdt)
           /\ fdt.magic = "SW" => fdt.size_dt_struct # 0
  <2>1. WrittenOk(r.fdt) \/ FinishedOk(r.fdt)
    BY <1>1, <1>3, MoveIs DEF r
  <2>2. r.fdt.magic = fdt.magic
    BY <1>8 DEF Copied, BlobFields
  <2>3. fdt' = r.fdt /\ call' = Append(c, r.ret)
        /\ (\A w : Writing(r.fdt, w) => view' = w)
        /\ (\A w : Closed(r.fdt, w) => view' = w)
    BY ViewIs DEF r
  <2>4. CASE fdt.magic = "SW"
    <3>1. Writing(fdt, view) /\ fdt.size_dt_struct # 0 /\ WrittenOk(fdt)
      BY <1>8, <2>4, BlobIs
    <3>2. WrittenOk(r.fdt)
      BY <2>1, <2>2, <2>4 DEF FinishedOk
    <3>3. Writing(r.fdt, view) /\ KeepsMap(fdt, r.fdt)
      BY <1>8, <3>1, <3>2, CopiedWrites
    <3>4. fdt.off_mem_rsvmap <= fdt.off_dt_struct
      <4>1. /\ fdt.off_mem_rsvmap \in Nat /\ fdt.off_dt_struct \in Nat
            /\ \/ fdt.off_dt_struct = fdt.off_mem_rsvmap
               \/ fdt.off_dt_struct >= fdt.off_mem_rsvmap + RsvSize
        BY <1>2, <3>1 DEF WrittenOk, IsBlob
      <4>. QED
        BY <4>1, RsvSizeIs
    <3>5. Entries(r.fdt) = Entries(fdt)
      BY <1>2, <3>3, <3>4, EntriesStay
    <3>6. Mapped(r.fdt) = Mapped(fdt) /\ Reserved(r.fdt) = Reserved(fdt)
      BY <3>5, MapStays
    <3>. QED
      BY <1>8, <2>2, <2>3, <2>4, <3>3, <3>6 DEF Succeeded, SameMap
  <2>5. CASE fdt.magic = "FDT"
    <3>1. Closed(fdt, view)
      BY <2>5, BlobIs
    <3>2. FinishedOk(r.fdt)
      BY <2>1, <2>2, <2>5 DEF WrittenOk
    <3>3. Closed(r.fdt, view) /\ Entries(r.fdt) = Entries(fdt)
      BY <1>8, <3>1, <3>2, CopiedCloses
    <3>4. Mapped(r.fdt) = Mapped(fdt) /\ Reserved(r.fdt) = Reserved(fdt)
      BY <3>3, MapStays
    <3>. QED
      BY <1>8, <2>2, <2>3, <2>5, <3>3, <3>4 DEF Succeeded, SameMap
  <2>. QED
    BY <1>1, <2>4, <2>5
<1>. QED
  BY <1>4, <1>6, <1>7, <1>8

(* Where there is no blob.                                                 *)
LEMMA NoBlobIs ==
  /\ NoBlob.magic = "none" /\ Contents(NoBlob) = Blank
  /\ Mapped(NoBlob) = FALSE /\ Reserved(NoBlob) = << >>
<1>1. NoBlob.magic = "none" /\ NoBlob.size_dt_struct = 0
      /\ NoBlob.off_mem_rsvmap = 0 /\ NoBlob.off_dt_struct = 0
  BY DEF NoBlob
<1>2. Contents(NoBlob) = Blank
  <2>1. Says(NoBlob, NoBlob.size_dt_struct, Blank)
    BY <1>1, EmptySays
  <2>. QED
    BY <2>1, SaysIs
<1> DEFINE zero == 0
<1>3. NumEntries(NoBlob) = zero
  <2>1. RsvSize \in Nat /\ RsvSize > 0
    BY RsvSizeIs
  <2>2. 0 - 0 = 0 /\ 0 \div RsvSize = 0
    <3> HIDE DEF RsvSize
    <3>. QED
      BY <2>1
  <2>. QED
    BY <1>1, <2>2 DEF NumEntries
<1>4. zero \in Nat /\ 1 .. zero = {}
  OBVIOUS
<1> HIDE DEF zero
<1>5. Entries(NoBlob) = [i \in 1 .. zero |-> EntryAt(NoBlob, i)]
      /\ Len(Entries(NoBlob)) = zero
  BY <1>3, <1>4, EntriesListed
<1>6. Mapped(NoBlob) = FALSE
  BY <1>4, <1>5 DEF Mapped
<1>7. Reserved(NoBlob) = Entries(NoBlob)
  BY <1>3, <1>4, <1>6, ReservedIs
<1>8. Entries(NoBlob) = << >>
  BY <1>4, <1>5
<1>. QED
  BY <1>1, <1>2, <1>6, <1>7, <1>8

LEMMA CreateDoes ==
  ASSUME IInv, Tracks, fdt.magic = "none", NEW size \in BufSizes,
         NEW c, Returns(c, fdt_create(fdt, size))
  PROVE  \/ Failed(c, NOSPACE)
         \/ /\ Succeeded(c) /\ Writing(fdt', view') /\ view' = Blank
            /\ Mapped(fdt') = FALSE /\ Reserved(fdt') = << >>
<1> DEFINE r == fdt_create(fdt, size)
<1>1. size \in Nat
  BY WriteAssumption
<1> HIDE DEF r
<1>2. \/ r.ret = NOSPACE /\ r.fdt = fdt
      \/ /\ r.ret = 0 /\ Writing(r.fdt, Blank)
         /\ ~Mapped(r.fdt) /\ Reserved(r.fdt) = << >>
  BY <1>1, CreateWrites DEF r
<1>3. r.fdt = fdt => Failed(c, r.ret)
  BY RefusedFails DEF r
<1>4. CASE /\ r.ret = 0 /\ Writing(r.fdt, Blank)
           /\ ~Mapped(r.fdt) /\ Reserved(r.fdt) = << >>
  <2>1. fdt' = r.fdt /\ call' = Append(c, r.ret) /\ view' = Blank
    BY <1>4, ViewIs DEF r
  <2>2. Mapped(r.fdt) = FALSE
    BY <1>4 DEF Mapped
  <2>. QED
    BY <1>4, <2>1, <2>2 DEF Succeeded
<1>. QED
  BY <1>2, <1>3, <1>4

LEMMA CreateEmptyTreeDoes ==
  ASSUME IInv, Tracks, fdt.magic = "none", NEW size \in BufSizes,
         NEW r \in fdt_create_empty_tree(fdt, size),
         NEW c, Returns(c, IF r.ret = 0 THEN r ELSE Result(NoBlob, r.ret))
  PROVE  \/ Failed(c, NOSPACE)
         \/ /\ Succeeded(c) /\ Closed(fdt', view') /\ RootOnly(view')
            /\ Mapped(fdt') = TRUE /\ Reserved(fdt') = << >>
<1> DEFINE q == IF r.ret = 0 THEN r ELSE Result(NoBlob, r.ret)
<1>1. size \in Nat
  BY WriteAssumption
<1>2. \/ r.ret = NOSPACE
      \/ /\ r.ret = 0 /\ Mapped(r.fdt) /\ Reserved(r.fdt) = << >>
         /\ \E v : Closed(r.fdt, v) /\ RootOnly(v)
  BY <1>1, EmptyTreeWrites
<1>3. fdt = NoBlob
  BY BlobIs
<1>4. CASE r.ret = NOSPACE
  <2>1. q.fdt = fdt /\ q.ret = NOSPACE
    BY <1>3, <1>4 DEF Result, NOSPACE
  <2> HIDE DEF q
  <2>2. Failed(c, q.ret)
    BY <2>1, RefusedFails DEF q
  <2>. QED
    BY <2>1, <2>2
<1>5. CASE /\ r.ret = 0 /\ Mapped(r.fdt) /\ Reserved(r.fdt) = << >>
           /\ \E v : Closed(r.fdt, v) /\ RootOnly(v)
  <2>1. PICK v : Closed(r.fdt, v) /\ RootOnly(v)
    BY <1>5
  <2>2. Returns(c, r)
    BY <1>5
  <2>3. fdt' = r.fdt /\ call' = Append(c, r.ret) /\ view' = v
    BY <2>1, <2>2, ViewIs
  <2>4. Mapped(r.fdt) = TRUE
    BY <1>5 DEF Mapped
  <2>. QED
    BY <1>5, <2>1, <2>3, <2>4 DEF Succeeded
<1>. QED
  BY <1>2, <1>4, <1>5

-----------------------------------------------------------------------------
(* Each call keeps what is known of the blob.                              *)

Elsewhere(c) == \A name, val, err : c # <<"property", name, val, err>>

(* The calls of other functions than fdt_property.                         *)
LEMMA CallsAre ==
  ASSUME NEW e, NEW x, NEW y
  PROVE  /\ Elsewhere(Append(<<"create", x>>, e))
         /\ Elsewhere(Append(<<"create_empty_tree", x>>, e))
         /\ Elsewhere(Append(<<"add_reservemap_entry", x, y>>, e))
         /\ Elsewhere(Append(<<"finish_reservemap">>, e))
         /\ Elsewhere(Append(<<"begin_node", x>>, e))
         /\ Elsewhere(Append(<<"end_node">>, e))
         /\ Elsewhere(Append(<<"finish">>, e))
         /\ Elsewhere(Append(<<"move", x>>, e))
<1>1. ASSUME NEW name, NEW val, NEW err
      PROVE  LET p == <<"property", name, val, err>>
             IN  p[1] = "property"
  OBVIOUS
<1>2. /\ Append(<<"create", x>>, e)[1] = "create"
      /\ Append(<<"create_empty_tree", x>>, e)[1] = "create_empty_tree"
      /\ Append(<<"add_reservemap_entry", x, y>>, e)[1] = "add_reservemap_entry"
      /\ Append(<<"finish_reservemap">>, e)[1] = "finish_reservemap"
      /\ Append(<<"begin_node", x>>, e)[1] = "begin_node"
      /\ Append(<<"end_node">>, e)[1] = "end_node"
      /\ Append(<<"finish">>, e)[1] = "finish"
      /\ Append(<<"move", x>>, e)[1] = "move"
  OBVIOUS
<1>3. ASSUME NEW c, c[1] # "property"  PROVE Elsewhere(c)
  BY <1>1, <1>3 DEF Elsewhere
<1>. QED
  BY <1>2, <1>3

LEMMA InitTracks == Init => Tracks
<1> SUFFICES ASSUME Init PROVE Tracks
  OBVIOUS
<1>1. Elsewhere(call)
  <2>1. call[1] = "none"
    BY DEF Init
  <2>. QED
    BY <2>1 DEF Elsewhere
<1>2. Settled
  BY <1>1 DEF Settled, Elsewhere
<1>3. CASE fdt = NoBlob
  BY <1>2, <1>3, NoBlobIs DEF Tracks
<1>4. ASSUME NEW b \in Blobs, fdt = Finished(b)  PROVE Tracks
  <2>1. Closed(fdt, view)
    BY <1>4, BlobsAreClosed DEF Init
  <2>2. fdt.magic = "FDT"
    BY <2>1 DEF Closed, FinishedOk
  <2>. QED
    BY <1>2, <2>1, <2>2 DEF Tracks
<1>. QED
  BY <1>3, <1>4 DEF Init

LEMMA NextTracks == IInv /\ Tracks /\ [Next]_vars => Tracks'
<1> SUFFICES ASSUME IInv, Tracks, [Next]_vars PROVE Tracks'
  OBVIOUS
<1>1. ASSUME fdt' = fdt, view' = view, Elsewhere(call')  PROVE Tracks'
  <2>1. Settled'
    BY <1>1 DEF Settled, Elsewhere
  <2>. QED
    BY <1>1, <2>1 DEF Tracks
<1>2. ASSUME Writing(fdt', view'), Settled'  PROVE Tracks'
  <2>1. fdt'.magic = "SW"
    BY <1>2 DEF Writing, WrittenOk
  <2>. QED
    BY <1>2, <2>1 DEF Tracks
<1>3. ASSUME Elsewhere(call')  PROVE Settled'
  BY <1>3 DEF Settled, Elsewhere
<1>4. ASSUME Closed(fdt', view')  PROVE Tracks'
  <2>1. fdt'.magic = "FDT"
    BY <1>4 DEF Closed, FinishedOk
  <2>2. Settled'
    BY <2>1 DEF Settled
  <2>. QED
    BY <1>4, <2>1, <2>2 DEF Tracks
<1>5. CASE Create
  <2>1. PICK size \in BufSizes :
          fdt.magic = "none" /\ Returns(<<"create", size>>, fdt_create(fdt, size))
    BY <1>5 DEF Create
  <2> DEFINE c == <<"create", size>>
  <2>2. \A e : Elsewhere(Append(c, e))
    BY CallsAre
  <2> HIDE DEF c
  <2>3. \/ Failed(c, NOSPACE)
        \/ /\ Succeeded(c) /\ Writing(fdt', view') /\ view' = Blank
           /\ Mapped(fdt') = FALSE /\ Reserved(fdt') = << >>
    BY <2>1, CreateDoes DEF c
  <2>. QED
    BY <1>1, <1>2, <1>3, <2>2, <2>3 DEF Failed, Succeeded
<1>6. CASE CreateEmptyTree
  <2>1. PICK size \in BufSizes :
          /\ fdt.magic = "none"
          /\ \E r \in fdt_create_empty_tree(fdt, size) :
               Returns(<<"create_empty_tree", size>>,
                       IF r.ret = 0 THEN r ELSE Result(NoBlob, r.ret))
    BY <1>6 DEF CreateEmptyTree
  <2> DEFINE c == <<"create_empty_tree", size>>
  <2>2. \A e : Elsewhere(Append(c, e))
    BY CallsAre
  <2>3. PICK r \in fdt_create_empty_tree(fdt, size) :
          Returns(c, IF r.ret = 0 THEN r ELSE Result(NoBlob, r.ret))
    BY <2>1
  <2> HIDE DEF c
  <2>4. \/ Failed(c, NOSPACE)
        \/ /\ Succeeded(c) /\ Closed(fdt', view') /\ RootOnly(view')
           /\ Mapped(fdt') = TRUE /\ Reserved(fdt') = << >>
    BY <2>1, <2>3, CreateEmptyTreeDoes
  <2>. QED
    BY <1>1, <1>4, <2>2, <2>4 DEF Failed
<1>7. CASE AddReservemapEntry \/ FinishReservemap
  <2>1. PICK address, size, c :
          /\ fdt.magic # "none" /\ \A e : Elsewhere(Append(c, e))
          /\ Returns(c, fdt_add_reservemap_entry(fdt, address, size))
    <3>1. CASE AddReservemapEntry
      BY <3>1, CallsAre DEF AddReservemapEntry
    <3>2. CASE FinishReservemap
      <4>1. \A e : Elsewhere(Append(<<"finish_reservemap">>, e))
        BY CallsAre
      <4>. QED
        BY <3>2, <4>1 DEF FinishReservemap, fdt_finish_reservemap
    <3>. QED
      BY <1>7, <3>1, <3>2
  <2>2. \/ fdt.magic = "FDT" /\ Failed(c, BADMAGIC)
        \/ fdt.magic = "SW" /\ Failed(c, BADSTATE) /\ DOMAIN view.tree # {}
        \/ /\ fdt.magic = "SW" /\ Failed(c, NOSPACE) /\ view = Blank
           /\ Room(fdt) < RsvSize
        \/ /\ fdt.magic = "SW" /\ Succeeded(c) /\ view' = view /\ view = Blank
           /\ Writing(fdt', view') /\ Listed(fdt, fdt', address, size)
    BY <2>1, AddReservemapEntryDoes
  <2>. QED
    BY <1>1, <1>2, <1>3, <2>1, <2>2 DEF Failed, Succeeded
<1>8. CASE BeginNode
  <2>1. PICK name \in WriteNames :
          /\ InOrder(MayBegin(name))
          /\ Returns(<<"begin_node", name>>, fdt_begin_node(fdt, name))
    BY <1>8 DEF BeginNode
  <2> DEFINE c == <<"begin_node", name>>
  <2>2. \A e : Elsewhere(Append(c, e))
    BY CallsAre
  <2> HIDE DEF c
  <2>3. \/ fdt.magic = "FDT" /\ Failed(c, BADMAGIC)
        \/ /\ fdt.magic = "SW" /\ Failed(c, NOSPACE)
           /\ Room(fdt) < FDT_TAGSIZE + TagAlign(NodeLength[name] + 1)
        \/ /\ fdt.magic = "SW" /\ Succeeded(c) /\ SameMap
           /\ Writing(fdt', view') /\ Begun(view, view', name)
    BY <2>1, BeginNodeDoes DEF c
  <2>. QED
    BY <1>1, <1>2, <1>3, <2>2, <2>3 DEF Failed, Succeeded
<1>9. CASE EndNode
  <2> DEFINE c == <<"end_node">>
  <2>1. /\ InOrder(view.path # Nowhere)
        /\ Returns(c, fdt_end_node(fdt))
    BY <1>9 DEF EndNode
  <2>2. \A e : Elsewhere(Append(c, e))
    BY CallsAre
  <2> HIDE DEF c
  <2>3. \/ fdt.magic = "FDT" /\ Failed(c, BADMAGIC)
        \/ fdt.magic = "SW" /\ Failed(c, NOSPACE) /\ Room(fdt) < FDT_TAGSIZE
        \/ /\ fdt.magic = "SW" /\ Succeeded(c) /\ SameMap
           /\ Writing(fdt', view') /\ Ended(view, view')
    BY <2>1, EndNodeDoes
  <2>. QED
    BY <1>1, <1>2, <1>3, <2>2, <2>3 DEF Failed, Succeeded
<1>10. CASE Property
  <2>1. PICK name \in WriteProps, val \in WriteValues :
          /\ InOrder(MayHave(name))
          /\ Returns(<<"property", name, val>>, fdt_property(fdt, name, val))
    BY <1>10 DEF Property
  <2> DEFINE c == <<"property", name, val>>
  <2>2. /\ NOSPACE < 0 /\ ~(0 < 0) /\ BADMAGIC < 0
        /\ \A e, n, v, err : Append(c, e) = <<"property", n, v, err>> =>
             n = name /\ v = val /\ err = e
    <3>1. \A e, n, v, err : Append(c, e) = <<"property", n, v, err>> =>
             n = name /\ v = val /\ err = e
      <4> SUFFICES ASSUME NEW e, NEW n, NEW v, NEW err,
                          Append(c, e) = <<"property", n, v, err>>
                   PROVE  n = name /\ v = val /\ err = e
        OBVIOUS
      <4> DEFINE s == Append(c, e)
                 t == <<"property", n, v, err>>
      <4>1. s[2] = name /\ s[3] = val /\ s[4] = e
        OBVIOUS
      <4>2. t[2] = n /\ t[3] = v /\ t[4] = err
        OBVIOUS
      <4>. QED
        BY <4>1, <4>2
    <3>. QED
      BY <3>1 DEF NOSPACE, BADMAGIC
  <2> HIDE DEF c
  <2>3. \/ fdt.magic = "FDT" /\ Failed(c, BADMAGIC)
        \/ /\ fdt.magic = "SW" /\ call' = Append(c, NOSPACE) /\ SameMap
           /\ Room(fdt) < PropertyNeed(fdt, name, val)
           /\ view' = view /\ Writing(fdt', view')
           /\ fdt_property(fdt', name, val).fdt = fdt'
           /\ fdt_property(fdt, name, val).fdt = fdt'
        \/ /\ fdt.magic = "SW" /\ Succeeded(c) /\ SameMap
           /\ Writing(fdt', view') /\ Given(view, view', name, val)
    BY <2>1, PropertyDoes DEF c
  <2>4. CASE fdt.magic = "FDT" /\ Failed(c, BADMAGIC)
    <3>1. Closed(fdt', view')
      BY <2>4, BlobIs DEF Failed
    <3>. QED
      BY <1>4, <3>1
  <2>5. CASE /\ call' = Append(c, NOSPACE) /\ Writing(fdt', view')
             /\ fdt_property(fdt', name, val).fdt = fdt'
    <3>1. Settled'
      BY <2>2, <2>5 DEF Settled
    <3>. QED
      BY <1>2, <2>5, <3>1
  <2>6. CASE Succeeded(c) /\ Writing(fdt', view')
    <3>1. Settled'
      <4>1. \A n, v, err : call' = <<"property", n, v, err>> => err = 0
        BY <2>2, <2>6 DEF Succeeded
      <4>. QED
        BY <2>2, <4>1 DEF Settled
    <3>. QED
      BY <1>2, <2>6, <3>1
  <2>. QED
    BY <2>3, <2>4, <2>5, <2>6
<1>11. CASE Finish
  <2> DEFINE c == <<"finish">>
  <2>1. /\ InOrder(view.path = Nowhere /\ view.tree # << >>)
        /\ Returns(c, fdt_finish(fdt))
    BY <1>11 DEF Finish
  <2>2. \A e : Elsewhere(Append(c, e))
    BY CallsAre
  <2> HIDE DEF c
  <2>3. \/ fdt.magic = "FDT" /\ Failed(c, BADMAGIC)
        \/ fdt.magic = "SW" /\ Failed(c, NOSPACE) /\ Room(fdt) < FDT_TAGSIZE
        \/ /\ fdt.magic = "SW" /\ Succeeded(c) /\ SameMap
           /\ Closed(fdt', view') /\ view' = view
    BY <2>1, FinishDoes
  <2>. QED
    BY <1>1, <1>4, <2>2, <2>3 DEF Failed
<1>12. CASE Move
  <2>1. PICK size \in BufSizes :
          fdt.magic # "none" /\ Returns(<<"move", size>>, fdt_move(fdt, size))
    BY <1>12 DEF Move
  <2> DEFINE c == <<"move", size>>
  <2>2. \A e : Elsewhere(Append(c, e))
    BY CallsAre
  <2> HIDE DEF c
  <2>3. \/ Failed(c, NOSPACE)
        \/ fdt.magic = "SW" /\ Failed(c, BADSTATE) /\ view = Blank
        \/ /\ Succeeded(c) /\ SameMap /\ view' = view /\ fdt'.magic = fdt.magic
           /\ fdt.magic = "SW" => Writing(fdt', view')
           /\ fdt.magic = "FDT" => Closed(fdt', view')
    BY <2>1, MoveDoes DEF c
  <2>4. fdt.magic \in {"SW", "FDT"}
    BY <2>1, BlobIs
  <2>. QED
    BY <1>1, <1>2, <1>3, <1>4, <2>2, <2>3, <2>4 DEF Failed, Succeeded
<1>13. CASE UNCHANGED vars
  BY <1>13 DEF vars, Tracks, Settled
<1>. QED
  BY <1>5, <1>6, <1>7, <1>8, <1>9, <1>10, <1>11, <1>12, <1>13 DEF Next

(* One who reads the blob comes to the end of what is written.             *)
THEOREM BlobStaysReadable == Spec => []IsReadable
<1>1. IInv /\ Tracks => IsReadable
  <2> SUFFICES ASSUME IInv, Tracks PROVE IsReadable
    OBVIOUS
  <2>1. ASSUME fdt.magic = "SW"  PROVE view.ok
    <3>1. view.ok = TRUE
      BY <2>1 DEF Tracks, Writing
    <3>. QED
      BY <3>1
  <2>2. ASSUME fdt.magic = "FDT"  PROVE Whole(fdt, view)
    <3>1. Closed(fdt, view)
      BY <2>2 DEF Tracks
    <3>. QED
      BY <3>1, ClosedIsWhole
  <2>. QED
    BY <2>1, <2>2 DEF IsReadable
<1>. QED
  BY <1>1, InitIInv, NextIInv, InitTracks, NextTracks, PTL DEF Spec

(* What the last call returned, and which it was.                          *)
CallIs(c, f) == \A e : LET r == Append(c, e) IN Last(r) = e /\ r[1] = f

LEMMA CallEnds ==
  ASSUME NEW x, NEW y
  PROVE  /\ CallIs(<<"create", x>>, "create")
         /\ CallIs(<<"create_empty_tree", x>>, "create_empty_tree")
         /\ CallIs(<<"add_reservemap_entry", x, y>>, "add_reservemap_entry")
         /\ CallIs(<<"finish_reservemap">>, "finish_reservemap")
         /\ CallIs(<<"begin_node", x>>, "begin_node")
         /\ CallIs(<<"end_node">>, "end_node")
         /\ CallIs(<<"property", x, y>>, "property")
         /\ CallIs(<<"finish">>, "finish")
         /\ CallIs(<<"move", x>>, "move")
<1>1. ASSUME NEW f, NEW e
      PROVE  LET r == Append(<<f>>, e) IN Last(r) = e /\ r[1] = f
  BY DEF Last
<1>2. ASSUME NEW f, NEW e
      PROVE  LET r == Append(<<f, x>>, e) IN Last(r) = e /\ r[1] = f
  BY DEF Last
<1>3. ASSUME NEW f, NEW e
      PROVE  LET r == Append(<<f, x, y>>, e) IN Last(r) = e /\ r[1] = f
  BY DEF Last
<1>4. \A f : CallIs(<<f>>, f) /\ CallIs(<<f, x>>, f) /\ CallIs(<<f, x, y>>, f)
  BY <1>1, <1>2, <1>3 DEF CallIs
<1>. QED
  BY <1>4

LEMMA FourthIs ==
  ASSUME NEW x, NEW y, NEW z, NEW e
  PROVE  Append(<<x, y, z>>, e) = <<x, y, z, e>>
<1> DEFINE S == {x, y, z, e}
           s == Append(<<x, y, z>>, e)
           t == <<x, y, z, e>>
<1>1. s \in Seq(S) /\ t \in Seq(S)
  OBVIOUS
<1>2. Len(s) = 4 /\ s[1] = x /\ s[2] = y /\ s[3] = z /\ s[4] = e
  OBVIOUS
<1>3. Len(t) = 4 /\ t[1] = x /\ t[2] = y /\ t[3] = z /\ t[4] = e
  OBVIOUS
<1> HIDE DEF s, t, S
<1>4. \A i \in 1 .. 4 : s[i] = t[i]
  <2>1. \A i \in 1 .. 4 : i = 1 \/ i = 2 \/ i = 3 \/ i = 4
    OBVIOUS
  <2>. QED
    BY <1>2, <1>3, <2>1
<1>5. s = t
  BY <1>1, <1>2, <1>3, <1>4
<1>. QED
  BY <1>5 DEF s, t

(* A third element after two.                                              *)
LEMMA ThirdIs ==
  ASSUME NEW x, NEW y, NEW e
  PROVE  Append(<<x, y>>, e) = <<x, y, e>>
<1> DEFINE S == {x, y, e}
           s == Append(<<x, y>>, e)
           t == <<x, y, e>>
<1>1. s \in Seq(S) /\ t \in Seq(S)
  OBVIOUS
<1>2. Len(s) = 3 /\ s[1] = x /\ s[2] = y /\ s[3] = e
  OBVIOUS
<1>3. Len(t) = 3 /\ t[1] = x /\ t[2] = y /\ t[3] = e
  OBVIOUS
<1> HIDE DEF s, t, S
<1>4. \A i \in 1 .. 3 : s[i] = t[i]
  <2>1. \A i \in 1 .. 3 : i = 1 \/ i = 2 \/ i = 3
    OBVIOUS
  <2>. QED
    BY <1>2, <1>3, <2>1
<1>5. s = t
  BY <1>1, <1>2, <1>3, <1>4
<1>. QED
  BY <1>5 DEF s, t

(* What a call needs.                                                      *)
LEMMA NeedIs ==
  ASSUME NEW c
  PROVE  /\ c[1] = "property" => Need(c) = PropertyNeed(fdt, c[2], c[3])
         /\ c[1] = "begin_node" =>
              Need(c) = FDT_TAGSIZE + TagAlign(NodeLength[c[2]] + 1)
         /\ c[1] = "end_node" => Need(c) = FDT_TAGSIZE
         /\ c[1] = "finish" => Need(c) = FDT_TAGSIZE
         /\ c[1] = "add_reservemap_entry" => Need(c) = RsvSize
         /\ c[1] = "finish_reservemap" => Need(c) = RsvSize
<1>1. ASSUME c[1] = "property"  PROVE Need(c) = PropertyNeed(fdt, c[2], c[3])
  BY <1>1 DEF Need, PropertyNeed, HasString
<1>2. ASSUME c[1] = "begin_node"
      PROVE  Need(c) = FDT_TAGSIZE + TagAlign(NodeLength[c[2]] + 1)
  BY <1>2 DEF Need
<1>3. ASSUME c[1] \in {"end_node", "finish"}  PROVE Need(c) = FDT_TAGSIZE
  BY <1>3 DEF Need
<1>4. ASSUME c[1] \in {"add_reservemap_entry", "finish_reservemap"}
      PROVE  Need(c) = RsvSize
  BY <1>4 DEF Need
<1>. QED
  BY <1>1, <1>2, <1>3, <1>4

(* A call that fails for lack of space needs more than there is; made      *)
(* again it does nothing.                                                  *)
NoSpaceStep ==
  /\ Last(call') = NOSPACE /\ fdt.magic = "SW" /\ call'[1] # "move" =>
       Room(fdt) < Need(call')
  /\ Last(call') < 0 /\ call' = call => fdt' = fdt

LEMMA NextNoSpace == IInv /\ Tracks /\ Next => NoSpaceStep
<1> SUFFICES ASSUME IInv, Tracks, Next PROVE NoSpaceStep
  OBVIOUS
<1>0. NOSPACE # BADMAGIC /\ NOSPACE # BADSTATE /\ NOSPACE # 0 /\ ~(0 < 0)
      /\ NOSPACE < 0
  BY DEF NOSPACE, BADMAGIC, BADSTATE
<1>1. ASSUME NEW c, NEW f, NEW e, CallIs(c, f), Failed(c, e),
             e = NOSPACE /\ fdt.magic = "SW" /\ f # "move" =>
               Room(fdt) < Need(Append(c, e))
      PROVE  NoSpaceStep
  <2>1. Last(call') = e /\ call'[1] = f /\ call' = Append(c, e)
    BY <1>1 DEF CallIs, Failed
  <2>. QED
    BY <1>1, <2>1 DEF NoSpaceStep, Failed
<1>2. ASSUME NEW c, NEW f, CallIs(c, f), Succeeded(c)  PROVE NoSpaceStep
  <2>1. Last(call') = 0
    BY <1>2 DEF CallIs, Succeeded
  <2>. QED
    BY <1>0, <2>1 DEF NoSpaceStep
<1>3. CASE Create
  <2>1. PICK size \in BufSizes :
          fdt.magic = "none" /\ Returns(<<"create", size>>, fdt_create(fdt, size))
    BY <1>3 DEF Create
  <2> DEFINE c == <<"create", size>>
  <2>2. CallIs(c, "create")
    BY CallEnds
  <2> HIDE DEF c
  <2>3. Failed(c, NOSPACE) \/ Succeeded(c)
    BY <2>1, CreateDoes DEF c
  <2>4. fdt.magic # "SW"
    BY <2>1
  <2>. QED
    BY <1>1, <1>2, <2>2, <2>3, <2>4
<1>4. CASE CreateEmptyTree
  <2>1. PICK size \in BufSizes :
          /\ fdt.magic = "none"
          /\ \E r \in fdt_create_empty_tree(fdt, size) :
               Returns(<<"create_empty_tree", size>>,
                       IF r.ret = 0 THEN r ELSE Result(NoBlob, r.ret))
    BY <1>4 DEF CreateEmptyTree
  <2> DEFINE c == <<"create_empty_tree", size>>
  <2>2. CallIs(c, "create_empty_tree")
    BY CallEnds
  <2>3. PICK r \in fdt_create_empty_tree(fdt, size) :
          Returns(c, IF r.ret = 0 THEN r ELSE Result(NoBlob, r.ret))
    BY <2>1
  <2> HIDE DEF c
  <2>4. Failed(c, NOSPACE) \/ Succeeded(c)
    BY <2>1, <2>3, CreateEmptyTreeDoes
  <2>5. fdt.magic # "SW"
    BY <2>1
  <2>. QED
    BY <1>1, <1>2, <2>2, <2>4, <2>5
<1>5. CASE AddReservemapEntry \/ FinishReservemap
  <2>1. PICK address, size, c, f :
          /\ fdt.magic # "none" /\ CallIs(c, f)
          /\ f \in {"add_reservemap_entry", "finish_reservemap"}
          /\ Returns(c, fdt_add_reservemap_entry(fdt, address, size))
    <3>1. CASE AddReservemapEntry
      BY <3>1, CallEnds DEF AddReservemapEntry
    <3>2. CASE FinishReservemap
      <4>1. CallIs(<<"finish_reservemap">>, "finish_reservemap")
        BY CallEnds
      <4>. QED
        BY <3>2, <4>1 DEF FinishReservemap, fdt_finish_reservemap
    <3>. QED
      BY <1>5, <3>1, <3>2
  <2>2. \/ fdt.magic = "FDT" /\ Failed(c, BADMAGIC)
        \/ fdt.magic = "SW" /\ Failed(c, BADSTATE) /\ DOMAIN view.tree # {}
        \/ /\ fdt.magic = "SW" /\ Failed(c, NOSPACE) /\ view = Blank
           /\ Room(fdt) < RsvSize
        \/ /\ fdt.magic = "SW" /\ Succeeded(c) /\ view' = view /\ view = Blank
           /\ Writing(fdt', view') /\ Listed(fdt, fdt', address, size)
    BY <2>1, AddReservemapEntryDoes
  <2>3. Need(Append(c, NOSPACE)) = RsvSize
    <3>1. Append(c, NOSPACE)[1] = f
      BY <2>1 DEF CallIs
    <3>. QED
      BY <2>1, <3>1, NeedIs
  <2>. QED
    BY <1>0, <1>1, <1>2, <2>1, <2>2, <2>3
<1>6. CASE BeginNode
  <2>1. PICK name \in WriteNames :
          /\ InOrder(MayBegin(name))
          /\ Returns(<<"begin_node", name>>, fdt_begin_node(fdt, name))
    BY <1>6 DEF BeginNode
  <2> DEFINE c == <<"begin_node", name>>
             need == FDT_TAGSIZE + TagAlign(NodeLength[name] + 1)
  <2>2. CallIs(c, "begin_node")
    BY CallEnds
  <2>3. Append(c, NOSPACE)[2] = name
    OBVIOUS
  <2> HIDE DEF c
  <2>4. \/ fdt.magic = "FDT" /\ Failed(c, BADMAGIC)
        \/ /\ fdt.magic = "SW" /\ Failed(c, NOSPACE)
           /\ Room(fdt) < FDT_TAGSIZE + TagAlign(NodeLength[name] + 1)
        \/ /\ fdt.magic = "SW" /\ Succeeded(c) /\ SameMap
           /\ Writing(fdt', view') /\ Begun(view, view', name)
    BY <2>1, BeginNodeDoes DEF c
  <2>5. Need(Append(c, NOSPACE)) = need
    <3>1. Append(c, NOSPACE)[1] = "begin_node"
      BY <2>2 DEF CallIs
    <3>. QED
      BY <2>3, <3>1, NeedIs
  <2>. QED
    BY <1>0, <1>1, <1>2, <2>2, <2>4, <2>5
<1>7. CASE EndNode
  <2> DEFINE c == <<"end_node">>
  <2>1. /\ InOrder(view.path # Nowhere)
        /\ Returns(c, fdt_end_node(fdt))
    BY <1>7 DEF EndNode
  <2>2. CallIs(c, "end_node")
    BY CallEnds
  <2> HIDE DEF c
  <2>3. \/ fdt.magic = "FDT" /\ Failed(c, BADMAGIC)
        \/ fdt.magic = "SW" /\ Failed(c, NOSPACE) /\ Room(fdt) < FDT_TAGSIZE
        \/ /\ fdt.magic = "SW" /\ Succeeded(c) /\ SameMap
           /\ Writing(fdt', view') /\ Ended(view, view')
    BY <2>1, EndNodeDoes
  <2>4. Need(Append(c, NOSPACE)) = FDT_TAGSIZE
    <3>1. Append(c, NOSPACE)[1] = "end_node"
      BY <2>2 DEF CallIs
    <3>. QED
      BY <3>1, NeedIs
  <2>. QED
    BY <1>0, <1>1, <1>2, <2>2, <2>3, <2>4
<1>8. CASE Property
  <2>1. PICK name \in WriteProps, val \in WriteValues :
          /\ InOrder(MayHave(name))
          /\ Returns(<<"property", name, val>>, fdt_property(fdt, name, val))
    BY <1>8 DEF Property
  <2> DEFINE c == <<"property", name, val>>
  <2>2. CallIs(c, "property")
    BY CallEnds
  <2>7. Append(c, NOSPACE) = <<"property", name, val, NOSPACE>>
    BY FourthIs
  <2>3. Append(c, NOSPACE)[2] = name /\ Append(c, NOSPACE)[3] = val
    OBVIOUS
  <2> HIDE DEF c
  <2>4. \/ fdt.magic = "FDT" /\ Failed(c, BADMAGIC)
        \/ /\ fdt.magic = "SW" /\ call' = Append(c, NOSPACE) /\ SameMap
           /\ Room(fdt) < PropertyNeed(fdt, name, val)
           /\ view' = view /\ Writing(fdt', view')
           /\ fdt_property(fdt', name, val).fdt = fdt'
           /\ fdt_property(fdt, name, val).fdt = fdt'
        \/ /\ fdt.magic = "SW" /\ Succeeded(c) /\ SameMap
           /\ Writing(fdt', view') /\ Given(view, view', name, val)
    BY <2>1, PropertyDoes DEF c
  <2>5. Need(Append(c, NOSPACE)) = PropertyNeed(fdt, name, val)
    <3>1. Append(c, NOSPACE)[1] = "property"
      BY <2>2 DEF CallIs
    <3>. QED
      BY <2>3, <3>1, NeedIs
  <2>6. CASE /\ fdt.magic = "SW" /\ call' = Append(c, NOSPACE)
             /\ Room(fdt) < PropertyNeed(fdt, name, val)
             /\ fdt_property(fdt, name, val).fdt = fdt'
    <3>1. ASSUME call' = call  PROVE fdt' = fdt
      <4>1. call = <<"property", name, val, NOSPACE>>
        BY <2>7, <2>6, <3>1
      <4> DEFINE low == NOSPACE
      <4>2. low < 0 /\ fdt.magic = "SW" /\ call = <<"property", name, val, low>>
        BY <1>0, <2>6, <4>1
      <4> HIDE DEF low
      <4>3. fdt_property(fdt, name, val).fdt = fdt
        BY <4>2 DEF Tracks, Settled
      <4>. QED
        BY <2>6, <4>3
    <3>. QED
      BY <2>5, <2>6, <3>1 DEF NoSpaceStep
  <2>. QED
    BY <1>0, <1>1, <1>2, <2>2, <2>4, <2>6
<1>9. CASE Finish
  <2> DEFINE c == <<"finish">>
  <2>1. /\ InOrder(view.path = Nowhere /\ view.tree # << >>)
        /\ Returns(c, fdt_finish(fdt))
    BY <1>9 DEF Finish
  <2>2. CallIs(c, "finish")
    BY CallEnds
  <2> HIDE DEF c
  <2>3. \/ fdt.magic = "FDT" /\ Failed(c, BADMAGIC)
        \/ fdt.magic = "SW" /\ Failed(c, NOSPACE) /\ Room(fdt) < FDT_TAGSIZE
        \/ /\ fdt.magic = "SW" /\ Succeeded(c) /\ SameMap
           /\ Closed(fdt', view') /\ view' = view
    BY <2>1, FinishDoes
  <2>4. Need(Append(c, NOSPACE)) = FDT_TAGSIZE
    <3>1. Append(c, NOSPACE)[1] = "finish"
      BY <2>2 DEF CallIs
    <3>. QED
      BY <3>1, NeedIs
  <2>. QED
    BY <1>0, <1>1, <1>2, <2>2, <2>3, <2>4
<1>10. CASE Move
  <2>1. PICK size \in BufSizes :
          fdt.magic # "none" /\ Returns(<<"move", size>>, fdt_move(fdt, size))
    BY <1>10 DEF Move
  <2> DEFINE c == <<"move", size>>
  <2>2. CallIs(c, "move")
    BY CallEnds
  <2> HIDE DEF c
  <2>3. Failed(c, NOSPACE) \/ Failed(c, BADSTATE) \/ Succeeded(c)
    BY <2>1, MoveDoes DEF c
  <2>. QED
    BY <1>1, <1>2, <2>2, <2>3
<1>. QED
  BY <1>3, <1>4, <1>5, <1>6, <1>7, <1>8, <1>9, <1>10 DEF Next

(* A call fails for lack of space only when there is too little, and made  *)
(* again at once it changes nothing.                                       *)
THEOREM FailsForLackOfSpace == Spec => NoSpaceIsDue
<1>1. IInv /\ Tracks /\ [Next]_vars => [NoSpaceStep]_vars
  BY NextNoSpace
<1>. QED
  BY <1>1, InitIInv, NextIInv, InitTracks, NextTracks, PTL
  DEF Spec, NoSpaceIsDue, NoSpaceStep

-----------------------------------------------------------------------------
(* The calls write the tree.                                               *)

LEMMA StateIs ==
  ASSUME NEW b
  PROVE  /\ b.magic = "none" => State(b) = "none"
         /\ b.magic = "SW" => State(b) = "writing"
         /\ b.magic = "FDT" => State(b) = "done"
BY DEF State

LEMMA WriterPut == \A f, k, v : Writer!Put(f, k, v) = Put(f, k, v)
BY DEF Writer!Put, Put

(* A view of which no node is open, and no tag is read.                    *)
LEMMA BlankIs ==
  /\ Blank.tree = << >> /\ Blank.path = << >>
  /\ (Blank.last = "END_NODE") = FALSE
<1>1. Blank.tree = << >> /\ Blank.path = << >>
  BY DEF Blank, Nowhere
<1>2. Blank.last # "END_NODE"
  BY Zenon DEF Blank
<1>. QED
  BY <1>1, <1>2

LEMMA NextWrites == IInv /\ Tracks /\ Next => Writer!Next
<1> SUFFICES ASSUME IInv, Tracks, Next PROVE Writer!Next
  OBVIOUS
<1>1. ASSUME NEW c, NEW e, Failed(c, e)  PROVE Writer!Fails(c, e)
  BY <1>1 DEF Failed, Writer!Fails, Writer!written
<1>2. /\ fdt.magic = "none" => State(fdt) = "none"
      /\ fdt.magic = "SW" => State(fdt) = "writing"
      /\ fdt.magic = "FDT" => State(fdt) = "done"
  BY StateIs
<1>3. Writing(fdt', view') => State(fdt') = "writing"
  BY StateIs DEF Writing, WrittenOk
<1>4. Closed(fdt', view') => State(fdt') = "done"
  BY StateIs DEF Closed, FinishedOk
<1>5. ASSUME NEW size \in BufSizes,
             fdt.magic = "none", Returns(<<"create", size>>, fdt_create(fdt, size))
      PROVE  Writer!Create(size)
  <2> DEFINE c == <<"create", size>>
  <2>1. \/ Failed(c, NOSPACE)
        \/ /\ Succeeded(c) /\ Writing(fdt', view') /\ view' = Blank
           /\ Mapped(fdt') = FALSE /\ Reserved(fdt') = << >>
    BY <1>5, CreateDoes
  <2>2. CASE Failed(c, NOSPACE)
    BY <1>1, <2>2 DEF Writer!Create
  <2>3. CASE /\ Succeeded(c) /\ Writing(fdt', view') /\ view' = Blank
             /\ Mapped(fdt') = FALSE /\ Reserved(fdt') = << >>
    <3>1. State(fdt') = "writing"
      BY <1>3, <2>3
    <3>2. Writer!Empty
      BY <2>3, BlankIs DEF Writer!Empty
    <3>3. call' = <<"create", size, 0>>
      <4> DEFINE op == "create"
      <4>1. call' = Append(<<op, size>>, 0)
        BY <2>3 DEF Succeeded
      <4> HIDE DEF op
      <4>2. call' = <<op, size, 0>>
        BY <4>1, ThirdIs
      <4>. QED
        BY <4>2 DEF op
    <3>. QED
      BY <3>1, <3>2, <3>3 DEF Writer!Create
  <2>. QED
    BY <2>1, <2>2, <2>3
<1>6. ASSUME NEW size \in BufSizes, fdt.magic = "none",
             NEW r \in fdt_create_empty_tree(fdt, size),
             Returns(<<"create_empty_tree", size>>,
                     IF r.ret = 0 THEN r ELSE Result(NoBlob, r.ret))
      PROVE  Writer!CreateEmptyTree(size)
  <2> DEFINE c == <<"create_empty_tree", size>>
  <2>1. \/ Failed(c, NOSPACE)
        \/ /\ Succeeded(c) /\ Closed(fdt', view') /\ RootOnly(view')
           /\ Mapped(fdt') = TRUE /\ Reserved(fdt') = << >>
    BY <1>6, CreateEmptyTreeDoes
  <2>2. CASE Failed(c, NOSPACE)
    <3>1. fdt = NoBlob /\ fdt' = fdt /\ view' = view /\ view = Contents(fdt)
          /\ call' = Append(c, NOSPACE)
      BY <1>6, <2>2, BlobIs DEF Failed
    <3>2. view' = Blank /\ Mapped(fdt') = FALSE /\ Reserved(fdt') = << >>
          /\ State(fdt') = "none"
      BY <1>2, <1>6, <3>1, NoBlobIs
    <3>3. Writer!Empty
      BY <3>2, BlankIs DEF Writer!Empty
    <3>. QED
      BY <3>1, <3>2, <3>3 DEF Writer!CreateEmptyTree
  <2>3. CASE /\ Succeeded(c) /\ Closed(fdt', view') /\ RootOnly(view')
             /\ Mapped(fdt') = TRUE /\ Reserved(fdt') = << >>
    <3>1. State(fdt') = "done" /\ call' = Append(c, 0)
      BY <1>4, <2>3 DEF Succeeded
    <3>2. view'.path = << >> /\ view'.last = "END_NODE"
          /\ view'.tree = Put(<< >>, <<"">>, << >>)
      BY <2>3, Zenon DEF RootOnly, Nowhere
    <3>3. (view'.last = "END_NODE") = TRUE
      BY <3>2
    <3>4. view'.tree = Writer!Put(<< >>, <<"">>, << >>)
      BY <3>2, WriterPut, Zenon
    <3>. QED
      BY <2>3, <3>1, <3>2, <3>3, <3>4, Zenon DEF Writer!CreateEmptyTree
  <2>. QED
    BY <2>1, <2>2, <2>3
<1>7. ASSUME fdt.magic # "none", NEW address, NEW size, NEW c,
             Returns(c, fdt_add_reservemap_entry(fdt, address, size))
      PROVE  \/ State(fdt) = "done" /\ Writer!Fails(c, BADMAGIC)
             \/ view.tree # << >> /\ State(fdt) = "writing" /\ Writer!Fails(c, BADSTATE)
             \/ view.tree = << >> /\ State(fdt) = "writing" /\ Writer!Fails(c, NOSPACE)
             \/ /\ view.tree = << >> /\ State(fdt) = "writing"
                /\ call' = Append(c, 0) /\ view' = view
                /\ State(fdt') = State(fdt)
                /\ Listed(fdt, fdt', address, size)
  <2>1. \/ fdt.magic = "FDT" /\ Failed(c, BADMAGIC)
        \/ fdt.magic = "SW" /\ Failed(c, BADSTATE) /\ DOMAIN view.tree # {}
        \/ /\ fdt.magic = "SW" /\ Failed(c, NOSPACE) /\ view = Blank
           /\ Room(fdt) < RsvSize
        \/ /\ fdt.magic = "SW" /\ Succeeded(c) /\ view' = view /\ view = Blank
           /\ Writing(fdt', view') /\ Listed(fdt, fdt', address, size)
    BY <1>7, AddReservemapEntryDoes
  <2>2. CASE fdt.magic = "FDT" /\ Failed(c, BADMAGIC)
    BY <1>1, <1>2, <2>2
  <2>3. CASE fdt.magic = "SW" /\ Failed(c, BADSTATE) /\ DOMAIN view.tree # {}
    <3>1. view.tree # << >>
      <4>1. DOMAIN << >> = {}
        OBVIOUS
      <4>. QED
        BY <2>3, <4>1
    <3>. QED
      BY <1>1, <1>2, <2>3, <3>1
  <2>4. CASE fdt.magic = "SW" /\ Failed(c, NOSPACE) /\ view = Blank
    BY <1>1, <1>2, <2>4, BlankIs
  <2>5. CASE /\ fdt.magic = "SW" /\ Succeeded(c) /\ view' = view /\ view = Blank
             /\ Writing(fdt', view') /\ Listed(fdt, fdt', address, size)
    BY <1>2, <1>3, <2>5, BlankIs DEF Succeeded
  <2>. QED
    BY <2>1, <2>2, <2>3, <2>4, <2>5
<1>8. ASSUME NEW address \in Addresses, NEW size \in Sizes, fdt.magic # "none",
             Returns(<<"add_reservemap_entry", address, size>>,
                     fdt_add_reservemap_entry(fdt, address, size))
      PROVE  Writer!AddReservemapEntry(address, size)
  <2> DEFINE c == <<"add_reservemap_entry", address, size>>
  <2>1. \/ State(fdt) = "done" /\ Writer!Fails(c, BADMAGIC)
        \/ view.tree # << >> /\ State(fdt) = "writing" /\ Writer!Fails(c, BADSTATE)
        \/ view.tree = << >> /\ State(fdt) = "writing" /\ Writer!Fails(c, NOSPACE)
        \/ /\ view.tree = << >> /\ State(fdt) = "writing"
           /\ call' = Append(c, 0) /\ view' = view
           /\ State(fdt') = State(fdt)
           /\ Listed(fdt, fdt', address, size)
    BY <1>7, <1>8
  <2>2. size # 0
    BY WriteAssumption, Zenon
  <2>3. CASE State(fdt) = "done" /\ Writer!Fails(c, BADMAGIC)
    BY <2>3 DEF Writer!AddReservemapEntry, Writer!Writes
  <2>4. CASE view.tree # << >> /\ State(fdt) = "writing" /\ Writer!Fails(c, BADSTATE)
    BY <2>4 DEF Writer!AddReservemapEntry
  <2>5. CASE view.tree = << >> /\ State(fdt) = "writing" /\ Writer!Fails(c, NOSPACE)
    BY <2>5 DEF Writer!AddReservemapEntry, Writer!Writes
  <2>6. CASE /\ view.tree = << >> /\ State(fdt) = "writing"
             /\ call' = Append(c, 0) /\ view' = view
             /\ State(fdt') = State(fdt)
             /\ Listed(fdt, fdt', address, size)
    <3>1. /\ Mapped(fdt') = Mapped(fdt)
          /\ Reserved(fdt') = IF Mapped(fdt) THEN Reserved(fdt)
                              ELSE Append(Reserved(fdt), <<address, size>>)
      <4>1. CASE Mapped(fdt)
        BY <2>6, <4>1 DEF Listed, Mapped
      <4>2. CASE ~Mapped(fdt)
        BY <2>2, <2>6, <4>2 DEF Listed, Mapped
      <4>. QED
        BY <4>1, <4>2
    <3>. QED
      BY <2>6, <3>1 DEF Writer!AddReservemapEntry, Writer!Writes
  <2>. QED
    BY <2>1, <2>3, <2>4, <2>5, <2>6
<1>9. ASSUME fdt.magic # "none",
             Returns(<<"finish_reservemap">>, fdt_finish_reservemap(fdt))
      PROVE  Writer!FinishReservemap
  <2> DEFINE c == <<"finish_reservemap">>
             zero == 0
  <2>0. Returns(c, fdt_add_reservemap_entry(fdt, zero, zero))
    BY <1>9 DEF fdt_finish_reservemap
  <2>2. zero = 0
    OBVIOUS
  <2> HIDE DEF zero
  <2>1. \/ State(fdt) = "done" /\ Writer!Fails(c, BADMAGIC)
        \/ view.tree # << >> /\ State(fdt) = "writing" /\ Writer!Fails(c, BADSTATE)
        \/ view.tree = << >> /\ State(fdt) = "writing" /\ Writer!Fails(c, NOSPACE)
        \/ /\ view.tree = << >> /\ State(fdt) = "writing"
           /\ call' = Append(c, 0) /\ view' = view
           /\ State(fdt') = State(fdt)
           /\ Listed(fdt, fdt', zero, zero)
    BY <1>7, <1>9, <2>0
  <2>3. CASE State(fdt) = "done" /\ Writer!Fails(c, BADMAGIC)
    BY <2>3 DEF Writer!FinishReservemap, Writer!Writes
  <2>4. CASE view.tree # << >> /\ State(fdt) = "writing" /\ Writer!Fails(c, BADSTATE)
    BY <2>4 DEF Writer!FinishReservemap
  <2>5. CASE view.tree = << >> /\ State(fdt) = "writing" /\ Writer!Fails(c, NOSPACE)
    BY <2>5 DEF Writer!FinishReservemap, Writer!Writes
  <2>6. CASE /\ view.tree = << >> /\ State(fdt) = "writing"
             /\ call' = Append(c, 0) /\ view' = view
             /\ State(fdt') = State(fdt)
             /\ Listed(fdt, fdt', zero, zero)
    <3>1. Mapped(fdt') /\ Reserved(fdt') = Reserved(fdt)
      BY <2>2, <2>6 DEF Listed
    <3>. QED
      BY <2>6, <3>1 DEF Writer!FinishReservemap, Writer!Writes
  <2>. QED
    BY <2>1, <2>3, <2>4, <2>5, <2>6
<1>10. ASSUME NEW name \in WriteNames, InOrder(MayBegin(name)),
              Returns(<<"begin_node", name>>, fdt_begin_node(fdt, name))
       PROVE  Writer!BeginNode(name)
  <2> DEFINE c == <<"begin_node", name>>
  <2>1. \/ fdt.magic = "FDT" /\ Failed(c, BADMAGIC)
        \/ /\ fdt.magic = "SW" /\ Failed(c, NOSPACE)
           /\ Room(fdt) < FDT_TAGSIZE + TagAlign(NodeLength[name] + 1)
        \/ /\ fdt.magic = "SW" /\ Succeeded(c) /\ SameMap
           /\ Writing(fdt', view') /\ Begun(view, view', name)
    BY <1>10, BeginNodeDoes
  <2>2. CASE fdt.magic = "FDT" /\ Failed(c, BADMAGIC)
    <3>1. State(fdt) = "done" /\ Writer!Fails(c, BADMAGIC)
      BY <1>1, <1>2, <2>2
    <3>. QED
      BY <3>1 DEF Writer!BeginNode, Writer!Writes
  <2>3. CASE fdt.magic = "SW" /\ Failed(c, NOSPACE)
    <3>1. State(fdt) = "writing" /\ Writer!Fails(c, NOSPACE)
      BY <1>1, <1>2, <2>3
    <3>. QED
      BY <3>1 DEF Writer!BeginNode, Writer!Writes
  <2>4. CASE /\ fdt.magic = "SW" /\ Succeeded(c) /\ SameMap
             /\ Writing(fdt', view') /\ Begun(view, view', name)
    <3>1. State(fdt) = "writing" /\ State(fdt') = "writing" /\ call' = Append(c, 0)
          /\ Mapped(fdt') = Mapped(fdt) /\ Reserved(fdt') = Reserved(fdt)
      BY <1>2, <1>3, <2>4 DEF Succeeded, SameMap
    <3>2. view'.path = Append(view.path, name) /\ view'.last # "END_NODE"
          /\ view'.tree = Put(view.tree, view'.path, << >>)
      BY <2>4 DEF Begun
    <3>3. view'.tree = Writer!Put(view.tree, view'.path, << >>)
      BY <3>2, WriterPut
    <3>4. (view'.last = "END_NODE") = FALSE
      BY <3>2
    <3>. QED
      BY <3>1, <3>2, <3>3, <3>4 DEF Writer!BeginNode, Writer!Writes
  <2>. QED
    BY <2>1, <2>2, <2>3, <2>4
<1>11. ASSUME InOrder(view.path # Nowhere), Returns(<<"end_node">>, fdt_end_node(fdt))
       PROVE  Writer!EndNode
  <2> DEFINE c == <<"end_node">>
  <2>1. \/ fdt.magic = "FDT" /\ Failed(c, BADMAGIC)
        \/ fdt.magic = "SW" /\ Failed(c, NOSPACE) /\ Room(fdt) < FDT_TAGSIZE
        \/ /\ fdt.magic = "SW" /\ Succeeded(c) /\ SameMap
           /\ Writing(fdt', view') /\ Ended(view, view')
    BY <1>11, EndNodeDoes
  <2>2. CASE fdt.magic = "FDT" /\ Failed(c, BADMAGIC)
    <3>1. State(fdt) = "done" /\ Writer!Fails(c, BADMAGIC)
      BY <1>1, <1>2, <2>2
    <3>. QED
      BY <3>1 DEF Writer!EndNode, Writer!Writes
  <2>3. CASE fdt.magic = "SW" /\ Failed(c, NOSPACE)
    <3>1. State(fdt) = "writing" /\ Writer!Fails(c, NOSPACE)
      BY <1>1, <1>2, <2>3
    <3>. QED
      BY <3>1 DEF Writer!EndNode, Writer!Writes
  <2>4. CASE /\ fdt.magic = "SW" /\ Succeeded(c) /\ SameMap
             /\ Writing(fdt', view') /\ Ended(view, view')
    <3>1. State(fdt) = "writing" /\ State(fdt') = "writing" /\ call' = Append(c, 0)
          /\ Mapped(fdt') = Mapped(fdt) /\ Reserved(fdt') = Reserved(fdt)
      BY <1>2, <1>3, <2>4 DEF Succeeded, SameMap
    <3>2. view'.path = SubSeq(view.path, 1, Len(view.path) - 1)
          /\ view'.last = "END_NODE" /\ view'.tree = view.tree
      BY <2>4 DEF Ended, Front
    <3>3. (view'.last = "END_NODE") = TRUE
      BY <3>2
    <3>. QED
      BY <3>1, <3>2, <3>3 DEF Writer!EndNode, Writer!Writes
  <2>. QED
    BY <2>1, <2>2, <2>3, <2>4
<1>12. ASSUME NEW name \in WriteProps, NEW val \in WriteValues, InOrder(MayHave(name)),
              Returns(<<"property", name, val>>, fdt_property(fdt, name, val))
       PROVE  Writer!Property(name, val)
  <2> DEFINE c == <<"property", name, val>>
  <2>1. \/ fdt.magic = "FDT" /\ Failed(c, BADMAGIC)
        \/ /\ fdt.magic = "SW" /\ call' = Append(c, NOSPACE) /\ SameMap
           /\ Room(fdt) < PropertyNeed(fdt, name, val)
           /\ view' = view /\ Writing(fdt', view')
           /\ fdt_property(fdt', name, val).fdt = fdt'
           /\ fdt_property(fdt, name, val).fdt = fdt'
        \/ /\ fdt.magic = "SW" /\ Succeeded(c) /\ SameMap
           /\ Writing(fdt', view') /\ Given(view, view', name, val)
    BY <1>12, PropertyDoes
  <2>2. CASE fdt.magic = "FDT" /\ Failed(c, BADMAGIC)
    <3>1. State(fdt) = "done" /\ Writer!Fails(c, BADMAGIC)
      BY <1>1, <1>2, <2>2
    <3>. QED
      BY <3>1 DEF Writer!Property, Writer!Writes
  <2>3. CASE /\ fdt.magic = "SW" /\ call' = Append(c, NOSPACE) /\ SameMap
             /\ view' = view /\ Writing(fdt', view')
    <3>1. State(fdt) = "writing" /\ State(fdt') = State(fdt)
          /\ Mapped(fdt') = Mapped(fdt) /\ Reserved(fdt') = Reserved(fdt)
      BY <1>2, <1>3, <2>3 DEF SameMap
    <3>2. Writer!Fails(c, NOSPACE)
      BY <2>3, <3>1 DEF Writer!Fails, Writer!written
    <3>. QED
      BY <3>1, <3>2 DEF Writer!Property, Writer!Writes
  <2>4. CASE /\ fdt.magic = "SW" /\ Succeeded(c) /\ SameMap
             /\ Writing(fdt', view') /\ Given(view, view', name, val)
    <3>1. State(fdt) = "writing" /\ State(fdt') = "writing" /\ call' = Append(c, 0)
          /\ Mapped(fdt') = Mapped(fdt) /\ Reserved(fdt') = Reserved(fdt)
      BY <1>2, <1>3, <2>4 DEF Succeeded, SameMap
    <3>2. view'.path = view.path /\ view'.last = view.last
          /\ view'.tree = [view.tree EXCEPT ![view.path] = Put(@, name, val)]
      BY <2>4 DEF Given
    <3>3. view'.tree = [view.tree EXCEPT ![view.path] = Writer!Put(@, name, val)]
      BY <3>2 DEF Put, Writer!Put
    <3>. QED
      BY <3>1, <3>2, <3>3 DEF Writer!Property, Writer!Writes
  <2>. QED
    BY <2>1, <2>2, <2>3, <2>4
<1>13. ASSUME InOrder(view.path = Nowhere /\ view.tree # << >>),
              Returns(<<"finish">>, fdt_finish(fdt))
       PROVE  Writer!Finish
  <2> DEFINE c == <<"finish">>
  <2>1. \/ fdt.magic = "FDT" /\ Failed(c, BADMAGIC)
        \/ fdt.magic = "SW" /\ Failed(c, NOSPACE) /\ Room(fdt) < FDT_TAGSIZE
        \/ /\ fdt.magic = "SW" /\ Succeeded(c) /\ SameMap
           /\ Closed(fdt', view') /\ view' = view
    BY <1>13, FinishDoes
  <2>2. CASE fdt.magic = "FDT" /\ Failed(c, BADMAGIC)
    <3>1. State(fdt) = "done" /\ Writer!Fails(c, BADMAGIC)
      BY <1>1, <1>2, <2>2
    <3>. QED
      BY <3>1 DEF Writer!Finish, Writer!Writes
  <2>3. CASE fdt.magic = "SW" /\ Failed(c, NOSPACE)
    <3>1. State(fdt) = "writing" /\ Writer!Fails(c, NOSPACE)
      BY <1>1, <1>2, <2>3
    <3>. QED
      BY <3>1 DEF Writer!Finish, Writer!Writes
  <2>4. CASE /\ fdt.magic = "SW" /\ Succeeded(c) /\ SameMap
             /\ Closed(fdt', view') /\ view' = view
    <3>1. State(fdt) = "writing" /\ State(fdt') = "done" /\ call' = Append(c, 0)
          /\ Mapped(fdt') = Mapped(fdt) /\ Reserved(fdt') = Reserved(fdt)
      BY <1>2, <1>4, <2>4 DEF Succeeded, SameMap
    <3>. QED
      BY <2>4, <3>1 DEF Writer!Finish, Writer!Writes
  <2>. QED
    BY <2>1, <2>2, <2>3, <2>4
<1>14. ASSUME NEW size \in BufSizes, fdt.magic # "none",
              Returns(<<"move", size>>, fdt_move(fdt, size))
       PROVE  Writer!Move(size)
  <2> DEFINE c == <<"move", size>>
  <2>1. \/ Failed(c, NOSPACE)
        \/ fdt.magic = "SW" /\ Failed(c, BADSTATE) /\ view = Blank
        \/ /\ Succeeded(c) /\ SameMap /\ view' = view /\ fdt'.magic = fdt.magic
           /\ fdt.magic = "SW" => Writing(fdt', view')
           /\ fdt.magic = "FDT" => Closed(fdt', view')
    BY <1>14, MoveDoes
  <2>2. CASE Failed(c, NOSPACE)
    BY <1>1, <2>2 DEF Writer!Move
  <2>3. CASE Failed(c, BADSTATE) /\ view = Blank
    <3>1. Writer!Fails(c, BADSTATE) /\ view.tree = << >>
      BY <1>1, <2>3, BlankIs
    <3>. QED
      BY <3>1 DEF Writer!Move
  <2>4. CASE Succeeded(c) /\ SameMap /\ view' = view /\ fdt'.magic = fdt.magic
    <3>1. State(fdt') = State(fdt)
      BY <2>4 DEF State
    <3>2. call' = <<"move", size, 0>>
      <4> DEFINE op == "move"
      <4>1. call' = Append(<<op, size>>, 0)
        BY <2>4 DEF Succeeded
      <4> HIDE DEF op
      <4>2. call' = <<op, size, 0>>
        BY <4>1, ThirdIs
      <4>. QED
        BY <4>2 DEF op
    <3>3. UNCHANGED Writer!written
      BY <2>4, <3>1 DEF SameMap, Writer!written
    <3>. QED
      BY <3>2, <3>3 DEF Writer!Move
  <2>. QED
    BY <2>1, <2>2, <2>3, <2>4
<1>15. CASE Create
  BY <1>5, <1>15 DEF Create, Writer!Next
<1>16. CASE CreateEmptyTree
  BY <1>6, <1>16 DEF CreateEmptyTree, Writer!Next
<1>17. CASE AddReservemapEntry
  BY <1>8, <1>17 DEF AddReservemapEntry, Writer!Next
<1>18. CASE FinishReservemap
  BY <1>9, <1>18 DEF FinishReservemap, Writer!Next
<1>19. CASE BeginNode
  BY <1>10, <1>19 DEF BeginNode, Writer!Next
<1>20. CASE EndNode
  BY <1>11, <1>20 DEF EndNode, Writer!Next
<1>21. CASE Property
  BY <1>12, <1>21 DEF Property, Writer!Next
<1>22. CASE Finish
  BY <1>13, <1>22 DEF Finish, Writer!Next
<1>23. CASE Move
  BY <1>14, <1>23 DEF Move, Writer!Next
<1>. QED
  BY <1>15, <1>16, <1>17, <1>18, <1>19, <1>20, <1>21, <1>22, <1>23 DEF Next

(* The sequential functions, called in order, write the tree that one who  *)
(* reads the blob would draw, and one that fails changes nothing of it:    *)
(* the blob implements the tree of FdtWriter.                              *)
THEOREM BlobIsTheTree == Spec => WritesTheTree
<1>1. Init => Writer!Init
  <2> SUFFICES ASSUME Init PROVE State(fdt) \in {"none", "done"}
    BY DEF Writer!Init
  <2>1. CASE fdt = NoBlob
    BY <2>1, NoBlobIs, StateIs
  <2>2. ASSUME NEW b \in Blobs, fdt = Finished(b)  PROVE State(fdt) = "done"
    <3>1. fdt.magic = "FDT"
      BY <2>2, BlobsAreClosed DEF Closed, FinishedOk
    <3>. QED
      BY <3>1, StateIs
  <2>. QED
    BY <2>1, <2>2 DEF Init
<1>2. IInv /\ Tracks /\ [Next]_vars => [Writer!Next]_(Writer!vars)
  <2>1. UNCHANGED vars => UNCHANGED Writer!vars
    BY DEF vars, Writer!vars
  <2>. QED
    BY <2>1, NextWrites
<1>. QED
  BY <1>1, <1>2, InitIInv, NextIInv, InitTracks, NextTracks, PTL
  DEF Spec, WritesTheTree, Writer!Spec
=============================================================================
