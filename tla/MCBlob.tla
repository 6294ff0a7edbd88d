------------------------------- MODULE MCBlob -------------------------------
(***************************************************************************)
(* Blobs to start from, as dtc writes them.                                *)
(***************************************************************************)
EXTENDS FdtBlob

(* The blob of a structure block and a strings block.  gap: addresses      *)
(* between the blocks; slack: behind them; swapped: the strings lie in     *)
(* front of the structure.                                                 *)
Blob(rsvs, struct, strings, gap, slack, swapped) ==
  LET map     == FlattenSeq([i \in 1 .. Len(rsvs) |->
                               Reservation(rsvs[i][1], rsvs[i][2])])
                   \o Reservation(0, 0)
      block   == struct \o Tag("END")
      rsv_off == HEADER_SIZE
      first   == rsv_off + Len(map) + gap
      second  == first + gap + IF swapped THEN Len(strings) ELSE Len(block)
      struct_off  == IF swapped THEN second ELSE first
      strings_off == IF swapped THEN first ELSE second
      end     == second + IF swapped THEN Len(block) ELSE Len(strings)
      Part(a, from, cells) == a >= from /\ a < from + Len(cells)
  IN  [mem |-> [a \in 0 .. BUF_SIZE - 1 |->
                  IF Part(a, rsv_off, map) THEN map[a - rsv_off + 1]
                  ELSE IF Part(a, struct_off, block)
                    THEN block[a - struct_off + 1]
                  ELSE IF Part(a, strings_off, strings)
                    THEN strings[a - strings_off + 1]
                  ELSE Junk],
       totalsize |-> end + slack,
       off_mem_rsvmap |-> rsv_off,
       off_dt_struct |-> struct_off,
       size_dt_struct |-> Len(block),
       off_dt_strings |-> strings_off,
       size_dt_strings |-> Len(strings),
       boot_cpuid_phys |-> 0]

Prop(nameoff, val) ==
  Tag("PROP") \o Word("len", Len(val)) \o Word("nameoff", nameoff)
    \o SubSeq(Bytes(val) \o Cells(Junk, FDT_TAGSIZE), 1, TagAlign(Len(val)))

Node(name, inside) ==
  Tag("BEGIN_NODE") \o NameCells(name) \o inside \o Tag("END_NODE")
=============================================================================
