-------------------------------- MODULE FdtSw --------------------------------
(***************************************************************************)
(* The functions that write a blob from its beginning to its end:          *)
(* libfdt/fdt_sw.c, and fdt_create_empty_tree and fdt_move, which stand    *)
(* between these and the others.                                           *)
(*                                                                         *)
(* While it is written the structure grows up from the map of reservations *)
(* and the strings grow down from the end of the buffer; off_dt_strings is *)
(* that end and name offsets are negative.  The field magic says which     *)
(* kind of blob this is.  Where the code compares without sign, what is    *)
(* negative is more than anything else.                                    *)
(***************************************************************************)
EXTENDS FdtRw

BADSTATE == -7
BADMAGIC == -9

Zero == <<"zero", 0>>

(* sizeof(struct fdt_header), rounded up to that of a reservation.         *)
FirstReservation ==
  RsvSize * ((HEADER_SIZE + RsvSize - 1) \div RsvSize)

(* FDT_SW_CHECK_HEADER.                                                    *)
SwChecked(b, result) ==
  IF b.magic # "SW" THEN Result(b, BADMAGIC) ELSE result

(* The addresses between the structure and the strings.                    *)
Room(b) == b.totalsize - b.size_dt_strings - StructTop(b)

(* m is less than n, which is not negative, without sign.                  *)
Below(m, n) == m >= 0 /\ m < n

SpaceLeft(b) == b.totalsize - b.off_dt_struct - b.size_dt_strings

(* Mutant: the last address is not used.                                   *)
GrabSpaceStrict(b, cells) ==
  IF Below(SpaceLeft(b), b.size_dt_struct + Len(cells) + 1)
    THEN Result(b, NOSPACE)
  ELSE Result([Poke(b, StructTop(b), cells) EXCEPT
                 !.size_dt_struct = @ + Len(cells)], 0)

(* _fdt_grab_space, and what the caller writes there.                      *)
GrabSpace(b, cells) ==
  IF Below(SpaceLeft(b), b.size_dt_struct + Len(cells))
    THEN Result(b, NOSPACE)
  ELSE Result([Poke(b, StructTop(b), cells) EXCEPT
                 !.size_dt_struct = @ + Len(cells)], 0)

-----------------------------------------------------------------------------
fdt_create(old, bufsize) ==
  IF bufsize < HEADER_SIZE THEN Result(old, NOSPACE)
  ELSE Result([magic |-> "SW",
               mem |-> [a \in 0 .. bufsize - 1 |-> Zero],
               totalsize |-> bufsize,
               off_mem_rsvmap |-> FirstReservation,
               off_dt_struct |-> FirstReservation,
               size_dt_struct |-> 0,
               off_dt_strings |-> bufsize,
               size_dt_strings |-> 0,
               boot_cpuid_phys |-> 0], 0)

(* Mutant: the size is put in front of the address.                        *)
fdt_add_reservemap_entry_swapped(b, address, size) ==
  SwChecked(b,
    IF b.size_dt_struct # 0 THEN Result(b, BADSTATE)
    ELSE IF b.off_dt_struct + RsvSize > b.totalsize THEN Result(b, NOSPACE)
    ELSE Result([Poke(b, b.off_dt_struct, Reservation(size, address)) EXCEPT
                   !.off_dt_struct = @ + RsvSize], 0))

fdt_add_reservemap_entry(b, address, size) ==
  SwChecked(b,
    IF b.size_dt_struct # 0 THEN Result(b, BADSTATE)
    ELSE IF b.off_dt_struct + RsvSize > b.totalsize THEN Result(b, NOSPACE)
    ELSE Result([Poke(b, b.off_dt_struct, Reservation(address, size)) EXCEPT
                   !.off_dt_struct = @ + RsvSize], 0))

fdt_finish_reservemap(b) == fdt_add_reservemap_entry(b, 0, 0)

fdt_begin_node(b, name) ==
  SwChecked(b, GrabSpace(b, Tag("BEGIN_NODE") \o NameCells(name)))

fdt_end_node(b) == SwChecked(b, GrabSpace(b, Tag("END_NODE")))

(* Mutant: strings are written over the structure.                         *)
SwFindAddStringUnchecked(b, s) ==
  LET found  == FindString([b EXCEPT
                  !.off_dt_strings = b.totalsize - b.size_dt_strings], s)
      offset == -b.size_dt_strings - Len(Tails[s])
  IN  IF found >= 0 THEN Result(b, found - b.size_dt_strings)
      ELSE Result([Poke(b, b.totalsize + offset, StringCells(s)) EXCEPT
                     !.size_dt_strings = -offset], offset)

(* _fdt_find_add_string: an offset from the end of the buffer, or 0.       *)
SwFindAddString(b, s) ==
  LET found  == FindString([b EXCEPT
                  !.off_dt_strings = b.totalsize - b.size_dt_strings], s)
      offset == -b.size_dt_strings - Len(Tails[s])
  IN  IF found >= 0 THEN Result(b, found - b.size_dt_strings)
      ELSE IF Below(b.totalsize + offset, StructTop(b)) THEN Result(b, 0)
      ELSE Result([Poke(b, b.totalsize + offset, StringCells(s)) EXCEPT
                     !.size_dt_strings = -offset], offset)

(* A name that was added stays, space for the property or not.             *)
fdt_property(b, name, val) ==
  LET s    == SwFindAddString(b, name)
      pad  == Cells(Zero, TagAlign(Len(val)) - Len(val))
      prop == Tag("PROP") \o Word("len", Len(val)) \o Word("nameoff", s.ret)
                \o Bytes(val) \o pad
  IN  SwChecked(b, IF s.ret = 0 THEN Result(b, NOSPACE)
                   ELSE GrabSpace(s.fdt, prop))

-----------------------------------------------------------------------------
(* The strings, moved down behind the structure.                           *)
MoveStrings(b) ==
  LET old == b.totalsize - b.size_dt_strings
  IN  [b EXCEPT !.mem = Memmove(@, StructTop(b), old, b.size_dt_strings),
                !.off_dt_strings = StructTop(b)]

(* The offsets of names, counted from the beginning of the strings now.    *)
CorrectNames(b, tags) ==
  LET props == {o \in Range(tags) : NextTag(b, o).tag = "PROP"}
      names == {b.off_dt_struct + o + 2 * FDT_TAGSIZE : o \in props}
  IN  [b EXCEPT !.mem =
         [a \in DOMAIN b.mem |->
            IF a \in names THEN <<"nameoff", b.mem[a][2] + b.size_dt_strings>>
                           ELSE b.mem[a]]]

fdt_finish(b) ==
  LET r     == GrabSpace(b, Tag("END"))
      moved == MoveStrings(r.fdt)
      tags  == TagOffsets(moved)
      named == CorrectNames(moved, tags)
      stop  == IF tags = <<>> THEN 0 ELSE NextTag(moved, Last(tags)).next
      next  == NextTag(moved, stop).next
  IN  SwChecked(b,
        IF r.ret # 0 THEN r
        ELSE IF next < 0 THEN Result(named, next)
        ELSE Result([named EXCEPT !.totalsize = DataSize(named),
                                  !.magic = "FDT"], 0))

-----------------------------------------------------------------------------
(* fdt_empty_tree.c: one call after the other, up to the first that fails. *)
Then(results, Op(_)) ==
  UNION {IF r.ret # 0 THEN {r} ELSE Op(r.fdt) : r \in results}

(* A tree of a root and nothing else, packed.                              *)
EmptyTree(old, bufsize) ==
  LET mapped == Then({fdt_create(old, bufsize)},
                     LAMBDA b : {fdt_finish_reservemap(b)})
      begun  == Then(mapped, LAMBDA b : {fdt_begin_node(b, "")})
      ended  == Then(begun, LAMBDA b : {fdt_end_node(b)})
  IN  Then(ended, LAMBDA b : {fdt_finish(b)})

fdt_create_empty_tree(old, bufsize) ==
  Then(EmptyTree(old, bufsize), LAMBDA b : fdt_open_into(b, bufsize))

(* fdt_check_header, of a blob of version 17.                              *)
fdt_check_header(b) ==
  IF b.magic = "FDT" THEN 0
  ELSE IF b.magic # "SW" THEN BADMAGIC
  ELSE IF b.size_dt_struct = 0 THEN BADSTATE ELSE 0

(* fdt_move to another buffer.  If it fails the blob is where it was.      *)
fdt_move(b, bufsize) ==
  LET Moved(a) == IF a < b.totalsize THEN b.mem[a] ELSE Junk
      err      == fdt_check_header(b)
  IN  IF err # 0 THEN Result(b, err)
      ELSE IF b.totalsize > bufsize THEN Result(b, NOSPACE)
      ELSE Result([b EXCEPT !.mem = [a \in 0 .. bufsize - 1 |-> Moved(a)]], 0)
=============================================================================
