-------------------------------- MODULE FdtRw --------------------------------
(***************************************************************************)
(* The functions that edit a blob: libfdt/fdt_rw.c, which moves what is    *)
(* behind the edit, and libfdt/fdt_wip.c, which edits in place.            *)
(*                                                                         *)
(* An operator that edits returns the blob as it leaves it, after an error *)
(* too, and what the function returns.                                     *)
(***************************************************************************)
EXTENDS FdtBlob

CONSTANT CpuIds  \* values of boot_cpuid_phys

-----------------------------------------------------------------------------
(* What a function returns, and the blob as it leaves it.                  *)
Result(b, ret) == [fdt |-> b, ret |-> ret]

(* The len addresses from address on.                                      *)
Span(address, len) == address .. address + len - 1

Poke(b, address, cells) ==
  LET poked == Span(address, Len(cells))
  IN  [b EXCEPT !.mem =
         [a \in poked \cup DOMAIN b.mem |->
            IF a \in poked THEN cells[a - address + 1] ELSE b.mem[a]]]

Memmove(mem, dst, src, len) ==
  LET moved == Span(dst, len)
  IN  [a \in moved \cup DOMAIN mem |->
         IF a \in moved THEN mem[a - dst + src] ELSE mem[a]]

(* _fdt_blocks_misordered.                                                 *)
Misordered(b, mem_rsv_size) ==
  \/ b.off_mem_rsvmap < HEADER_SIZE
  \/ b.off_dt_struct < b.off_mem_rsvmap + mem_rsv_size
  \/ b.off_dt_strings < StructTop(b)
  \/ b.totalsize < DataSize(b)

(* FDT_RW_CHECK_HEADER.                                                    *)
Checked(b, result) ==
  IF Misordered(b, RsvSize) THEN Result(b, BADLAYOUT) ELSE result

(* oldlen bytes at address p become newlen, and all behind them moves.     *)
Splice(b, p, oldlen, newlen) ==
  LET end == DataSize(b)
  IN  IF p + oldlen > end THEN Result(b, BADOFFSET)
      ELSE IF end - oldlen + newlen > b.totalsize THEN Result(b, NOSPACE)
      ELSE Result([b EXCEPT !.mem =
             Memmove(@, p + newlen, p + oldlen, end - p - oldlen)], 0)

SpliceMemRsv(b, n, oldn, newn) ==
  LET r     == Splice(b, b.off_mem_rsvmap + n * RsvSize,
                      oldn * RsvSize, newn * RsvSize)
      delta == (newn - oldn) * RsvSize
  IN  IF r.ret # 0 THEN r
      ELSE Result([r.fdt EXCEPT !.off_dt_struct = @ + delta,
                                !.off_dt_strings = @ + delta], 0)

(* Mutant: what is behind the structure block is not where it was.         *)
SpliceStructAlone(b, offset, oldlen, newlen) ==
  LET r == Splice(b, b.off_dt_struct + offset, oldlen, newlen)
  IN  IF r.ret # 0 THEN r
      ELSE Result([r.fdt EXCEPT !.size_dt_struct = @ + (newlen - oldlen)], 0)

SpliceStruct(b, offset, oldlen, newlen) ==
  LET r     == Splice(b, b.off_dt_struct + offset, oldlen, newlen)
      delta == newlen - oldlen
  IN  IF r.ret # 0 THEN r
      ELSE Result([r.fdt EXCEPT !.size_dt_struct = @ + delta,
                                !.off_dt_strings = @ + delta], 0)

SpliceString(b, newlen) ==
  LET r == Splice(b, DataSize(b), 0, newlen)
  IN  IF r.ret # 0 THEN r
      ELSE Result([r.fdt EXCEPT !.size_dt_strings = @ + newlen], 0)

(* Mutant: a string is added without a look at those that are there.       *)
FindAddStringAlways(b, s) ==
  LET r == SpliceString(b, Len(Tails[s]))
  IN  IF r.ret # 0 THEN r
      ELSE Result(Poke(r.fdt, DataSize(b), StringCells(s)), b.size_dt_strings)

(* Returns where in the strings block s is.                                *)
FindAddString(b, s) ==
  LET found == FindString(b, s)
      r     == SpliceString(b, Len(Tails[s]))
  IN  IF found >= 0 THEN Result(b, found)
      ELSE IF r.ret # 0 THEN r
      ELSE Result(Poke(r.fdt, DataSize(b), StringCells(s)), b.size_dt_strings)

-----------------------------------------------------------------------------
(* fdt_rw.c: the functions on a node or a property.                        *)

PutValue(b, prop, at, val) ==
  Poke(b, b.off_dt_struct + prop + PropHeader + at, Bytes(val))

SetLen(b, prop, len) ==
  Poke(b, b.off_dt_struct + prop + FDT_TAGSIZE, Word("len", len))

(* Mutant: the length is written before it is known that there is space.   *)
ResizeLenFirst(b, prop, at, val) ==
  LET len == at + Len(val)
      r   == SpliceStruct(SetLen(b, prop, len), prop + PropHeader,
                          TagAlign(PropLen(b, prop)), TagAlign(len))
  IN  IF r.ret # 0 THEN r ELSE Result(PutValue(r.fdt, prop, at, val), 0)

(* The splice, the new length and the new bytes of a property that is      *)
(* there, from position at of its value on.                                *)
Resize(b, prop, at, val) ==
  LET len == at + Len(val)
      r   == SpliceStruct(b, prop + PropHeader, TagAlign(PropLen(b, prop)),
                          TagAlign(len))
  IN  IF r.ret # 0 THEN r
      ELSE Result(PutValue(SetLen(r.fdt, prop, len), prop, at, val), 0)

(* Mutant: in front of the node's tag.                                     *)
AddPropertyInFront(b, node, name, val) ==
  LET s    == FindAddString(b, name)
      r    == SpliceStruct(s.fdt, node, 0, PropHeader + TagAlign(Len(val)))
      head == Tag("PROP") \o Word("len", Len(val)) \o Word("nameoff", s.ret)
  IN  IF s.ret < 0 THEN s
      ELSE IF r.ret # 0 THEN r
      ELSE Result(PutValue(Poke(r.fdt, b.off_dt_struct + node, head),
                           node, 0, val), 0)

(* _fdt_add_property: a name that was added stays, space for the property  *)
(* or not.                                                                 *)
AddProperty(b, node, name, val) ==
  LET next == CheckNodeOffset(b, node)
      s    == FindAddString(b, name)
      r    == SpliceStruct(s.fdt, next, 0, PropHeader + TagAlign(Len(val)))
      head == Tag("PROP") \o Word("len", Len(val)) \o Word("nameoff", s.ret)
  IN  IF next < 0 THEN Result(b, next)
      ELSE IF s.ret < 0 THEN s
      ELSE IF r.ret # 0 THEN r
      ELSE Result(PutValue(Poke(r.fdt, b.off_dt_struct + next, head),
                           next, 0, val), 0)

fdt_setprop(b, node, name, val) ==
  LET prop == GetProperty(b, node, name)
  IN  IF prop >= 0 THEN Resize(b, prop, 0, val)
      ELSE IF prop = NOTFOUND THEN AddProperty(b, node, name, val)
      ELSE Result(b, prop)

(* Mutant: the new bytes go behind the alignment of the old ones.          *)
fdt_appendprop_aligned(b, node, name, val) ==
  LET prop == GetProperty(b, node, name)
  IN  IF prop >= 0
        THEN Resize(b, prop, TagAlign(PropLen(b, prop)), val)
        ELSE AddProperty(b, node, name, val)

fdt_appendprop(b, node, name, val) ==
  LET prop == GetProperty(b, node, name)
  IN  IF prop >= 0 THEN Resize(b, prop, PropLen(b, prop), val)
                   ELSE AddProperty(b, node, name, val)

fdt_delprop(b, node, name) ==
  LET prop == GetProperty(b, node, name)
  IN  IF prop < 0 THEN Result(b, prop)
      ELSE SpliceStruct(b, prop, PropHeader + TagAlign(PropLen(b, prop)), 0)

fdt_set_name(b, node, name) ==
  LET old  == NodeName(b, node)
      r    == SpliceStruct(b, node + FDT_TAGSIZE, Len(NameCells(old)),
                           Len(NameCells(name)))
      next == CheckNodeOffset(b, node)
  IN  IF next < 0 THEN Result(b, next)
      ELSE IF r.ret # 0 THEN r
      ELSE Result(Poke(r.fdt, b.off_dt_struct + node + FDT_TAGSIZE,
                       NameCells(name)), 0)

(* Mutant: in front of the properties of the parent.                       *)
PlaceAtFront(b, parent) == CheckNodeOffset(b, parent)

(* Behind the properties of the parent, in front of its subnodes.          *)
Place(b, parent) ==
  LET Skip[o \in WalkOffsets] ==
        LET t == NextTag(b, o)
        IN  IF t.tag \in {"PROP", "NOP"} THEN Skip[t.next] ELSE o
  IN  Skip[NextTag(b, parent).next]

(* Returns the offset of the new node.                                     *)
fdt_add_subnode(b, parent, name) ==
  LET found == SubnodeOffset(b, parent, name)
      place == Place(b, parent)
      cells == Tag("BEGIN_NODE") \o NameCells(name) \o Tag("END_NODE")
      r     == SpliceStruct(b, place, 0, Len(cells))
  IN  IF found >= 0 THEN Result(b, EXISTS)
      ELSE IF found # NOTFOUND THEN Result(b, found)
      ELSE IF r.ret # 0 THEN r
      ELSE Result(Poke(r.fdt, b.off_dt_struct + place, cells), place)

fdt_del_node(b, node) ==
  LET end == NodeEndOffset(b, node)
  IN  IF end < 0 THEN Result(b, end)
      ELSE SpliceStruct(b, node, end - node, 0)

-----------------------------------------------------------------------------
(* fdt_wip.c.                                                              *)

fdt_setprop_inplace(b, node, name, val) ==
  LET prop == GetProperty(b, node, name)
  IN  IF prop < 0 THEN Result(b, prop)
      ELSE IF PropLen(b, prop) # Len(val) THEN Result(b, NOSPACE)
      ELSE Result(PutValue(b, prop, 0, val), 0)

NopRegion(b, offset, len) ==
  LET words == (len + FDT_TAGSIZE - 1) \div FDT_TAGSIZE
  IN  Poke(b, b.off_dt_struct + offset,
           FlattenSeq([i \in 1 .. words |-> Tag("NOP")]))

fdt_nop_property(b, node, name) ==
  LET prop == GetProperty(b, node, name)
  IN  IF prop < 0 THEN Result(b, prop)
      ELSE Result(NopRegion(b, prop, PropLen(b, prop) + PropHeader), 0)

fdt_nop_node(b, node) ==
  LET end == NodeEndOffset(b, node)
  IN  IF end < 0 THEN Result(b, end)
      ELSE Result(NopRegion(b, node, end - node), 0)

-----------------------------------------------------------------------------
(* Reservations.                                                           *)

fdt_add_mem_rsv(b, address, size) ==
  LET n == NumMemRsv(b)
      r == SpliceMemRsv(b, n, 0, 1)
  IN  IF r.ret # 0 THEN r
      ELSE Result(Poke(r.fdt, b.off_mem_rsvmap + n * RsvSize,
                       Reservation(address, size)), 0)

fdt_del_mem_rsv(b, n) ==
  IF n >= NumMemRsv(b) THEN Result(b, NOTFOUND) ELSE SpliceMemRsv(b, n, 1, 0)

-----------------------------------------------------------------------------
(* The blob as a whole.                                                    *)

(* _fdt_packblocks: the blocks, one after the other from address base on,  *)
(* each moved after the one before it, and where they are from there.      *)
PackBlocks(b, base) ==
  LET rsv_off     == HEADER_SIZE
      struct_off  == rsv_off + MapSize(b)
      strings_off == struct_off + b.size_dt_struct
      mem1 == Memmove(b.mem, base + rsv_off, b.off_mem_rsvmap, MapSize(b))
      mem2 == Memmove(mem1, base + struct_off, b.off_dt_struct,
                      b.size_dt_struct)
      mem3 == Memmove(mem2, base + strings_off, b.off_dt_strings,
                      b.size_dt_strings)
  IN  [b EXCEPT !.mem = mem3, !.off_mem_rsvmap = rsv_off,
                !.off_dt_struct = struct_off, !.off_dt_strings = strings_off]

fdt_pack(b) ==
  LET packed == PackBlocks(b, 0)
  IN  Result([packed EXCEPT !.totalsize = DataSize(packed)], 0)

PackedSize(b) ==
  HEADER_SIZE + MapSize(b) + b.size_dt_struct + b.size_dt_strings

(* fdt_open_into on the blob's own buffer.  When the blocks have to be     *)
(* put in order this is done behind the blob, and what is copied back has  *)
(* a header of which only the places of the blocks have been written: the  *)
(* boot_cpuid_phys read from it afterwards is what was there before.       *)
fdt_open_into(b, bufsize) ==
  LET packed == PackBlocks(b, b.totalsize)
  IN  IF ~Misordered(b, MapSize(b))
        THEN IF b.totalsize > bufsize THEN {Result(b, NOSPACE)}
             ELSE {Result([b EXCEPT !.totalsize = bufsize], 0)}
      ELSE IF b.totalsize + PackedSize(b) > bufsize THEN {Result(b, NOSPACE)}
      ELSE {Result([packed EXCEPT
                      !.mem = Memmove(@, 0, b.totalsize, PackedSize(b)),
                      !.totalsize = bufsize, !.boot_cpuid_phys = id], 0) :
              id \in CpuIds}

(* Into another buffer: here the addresses behind b's.                     *)
fdt_open_copy(b, bufsize) ==
  LET both   == [b EXCEPT !.mem = [a \in 0 .. 2 * BUF_SIZE - 1 |->
                   IF a < BUF_SIZE THEN @[a] ELSE Junk]]
      packed == PackBlocks(both, BUF_SIZE)
      moved  == [both EXCEPT !.mem = Memmove(@, BUF_SIZE, 0, b.totalsize)]
      Second(c) == Result([c EXCEPT !.mem = [a \in 0 .. BUF_SIZE - 1 |->
                                               @[a + BUF_SIZE]],
                                    !.totalsize = bufsize], 0)
  IN  IF ~Misordered(b, MapSize(b))
        THEN IF b.totalsize > bufsize THEN Result(b, NOSPACE)
             ELSE Second(moved)
      ELSE IF PackedSize(b) > bufsize THEN Result(b, NOSPACE)
      ELSE Second(packed)
=============================================================================
