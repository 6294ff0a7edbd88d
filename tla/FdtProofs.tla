------------------------------ MODULE FdtProofs ------------------------------
(***************************************************************************)
(* Whatever functions a caller calls one after the other, the blob stays   *)
(* sound and whole, the offsets up to the node edited stay good, a call    *)
(* that fails over and over does nothing, and the tree that the blob says  *)
(* is edited as FdtTree promises.                                          *)
(***************************************************************************)
EXTENDS Fdt, FdtRwProofs

-----------------------------------------------------------------------------
(* Edits of the map of reservations.                                       *)

(* A reader of the structure block cannot tell one from the other.         *)
ReadAlike(b, c) ==
  /\ c.size_dt_struct = b.size_dt_struct
  /\ c.size_dt_strings >= b.size_dt_strings
  /\ \A i \in 0 .. b.size_dt_struct - 1 : Struct(c, i) = Struct(b, i)
  /\ SameNames(b, c)

(* The n-th reservation.                                                   *)
EntryAt(b, n) == <<b.mem[b.off_mem_rsvmap + n * RsvSize][2], RsvSizeAt(b, n)>>

(* One more at the end, and none if its size is 0.                         *)
EntryAdded(b, c, address, size) ==
  LET n == NumMemRsv(b)
  IN  /\ NumMemRsv(c) = IF size = 0 THEN n ELSE n + 1
      /\ EntryAt(c, n) = <<address, size>>
      /\ \A m \in 0 .. n - 1 : EntryAt(c, m) = EntryAt(b, m)

(* The n-th is out, and those behind it have moved up.                     *)
EntryDeleted(b, c, n) ==
  /\ NumMemRsv(c) = NumMemRsv(b) - 1
  /\ \A m \in 0 .. n - 1 : EntryAt(c, m) = EntryAt(b, m)
  /\ \A m \in n .. NumMemRsv(b) - 2 : EntryAt(c, m) = EntryAt(b, m + 1)

(* The addresses from p to p + old have become those from p to p + new.    *)
SplicedAt(b, q, p, old, new) ==
  /\ SameBut(b, q, {"mem"})
  /\ DataSize(b) - old + new <= b.totalsize
  /\ DOMAIN q.mem = 0 .. BUF_SIZE - 1
  /\ \A a \in 0 .. p + new - 1 : q.mem[a] = b.mem[a]
  /\ \A a \in p + old .. DataSize(b) - 1 : q.mem[a + (new - old)] = b.mem[a]

(* _fdt_splice.                                                            *)
LEMMA SpliceIs ==
  ASSUME NEW b, Sound(b), NEW p \in Nat, NEW old \in Nat, NEW new \in Nat,
         p + old <= DataSize(b), NEW r, r = Splice(b, p, old, new)
  PROVE  \/ r.ret = NOSPACE /\ r.fdt = b
         \/ r.ret = 0 /\ SplicedAt(b, r.fdt, p, old, new)
<1> DEFINE end == DataSize(b)
           mem == Memmove(b.mem, p + new, p + old, end - p - old)
           q == [b EXCEPT !.mem = mem]
<1>1. Fields \subseteq DOMAIN b /\ DOMAIN b.mem = 0 .. BUF_SIZE - 1
  BY BufferIs
<1>2. /\ b.totalsize \in Nat /\ BUF_SIZE \in Nat /\ b.totalsize <= BUF_SIZE
      /\ end \in Nat /\ end <= b.totalsize
  BY NumbersAre
<1>3. r = IF end - old + new > b.totalsize THEN Result(b, NOSPACE)
          ELSE Result(q, 0)
  <2>1. r = IF p + old > end THEN Result(b, BADOFFSET)
            ELSE IF end - old + new > b.totalsize THEN Result(b, NOSPACE)
            ELSE Result(q, 0)
    BY DEF Splice
  <2>2. ~(p + old > end)
    BY <1>2
  <2> HIDE DEF q, end
  <2>. QED
    BY <2>1, <2>2
<1>4. CASE end - old + new > b.totalsize
  <2> HIDE DEF q
  <2>. QED
    BY <1>3, <1>4 DEF Result
<1>5. CASE ~(end - old + new > b.totalsize)
  <2>1. r.ret = 0 /\ r.fdt = q
    <3> HIDE DEF q
    <3>. QED
      BY <1>3, <1>5 DEF Result
  <2>2. q.mem = mem /\ SameBut(b, q, {"mem"})
    <3> HIDE DEF mem
    <3>. QED
      BY <1>1 DEF Fields, SameBut
  <2> DEFINE moved == p + new .. p + new + (end - p - old) - 1
  <2>3. Span(p + new, end - p - old) = moved
    BY DEF Span
  <2>4. /\ DOMAIN mem = moved \cup (0 .. BUF_SIZE - 1)
        /\ \A a \in moved : mem[a] = b.mem[a - (p + new) + (p + old)]
        /\ \A a \in (0 .. BUF_SIZE - 1) \ moved : mem[a] = b.mem[a]
    BY <1>1, <2>3 DEF Memmove
  <2>5. end - old + new <= b.totalsize
    <3> HIDE DEF end
    <3>. QED
      BY <1>2, <1>5
  <2>6. p + old <= end
    OBVIOUS
  <2> HIDE DEF mem, q, end
  <2>7. \A a \in moved : a \in 0 .. BUF_SIZE - 1
    BY <1>2, <2>5, <2>6
  <2>8. DOMAIN q.mem = 0 .. BUF_SIZE - 1
    BY <2>2, <2>4, <2>7
  <2>9. ASSUME NEW a \in 0 .. p + new - 1  PROVE q.mem[a] = b.mem[a]
    <3>1. a \in (0 .. BUF_SIZE - 1) \ moved
      BY <1>2, <2>5, <2>6
    <3> HIDE DEF moved
    <3>. QED
      BY <2>2, <2>4, <3>1
  <2>10. ASSUME NEW a \in p + old .. end - 1
         PROVE  q.mem[a + (new - old)] = b.mem[a]
    <3> DEFINE t == a + (new - old)
    <3>1. t \in moved /\ t - (p + new) + (p + old) = a
      BY <1>2, <2>6
    <3> HIDE DEF t, moved
    <3>2. mem[t] = b.mem[a]
      BY <2>4, <3>1
    <3>. QED
      BY <2>2, <3>2 DEF t
  <2>11. SplicedAt(b, q, p, old, new)
    BY <2>2, <2>5, <2>8, <2>9, <2>10 DEF SplicedAt, end
  <2>. QED
    BY <2>1, <2>11
<1>. QED
  BY <1>4, <1>5

(* The same with the blocks behind the map moved with it.                  *)
Shifted(b, c, p, old, new) ==
  /\ SameBut(b, c, {"mem", "off_dt_struct", "off_dt_strings"})
  /\ c.off_dt_struct = b.off_dt_struct + (new - old)
  /\ c.off_dt_strings = b.off_dt_strings + (new - old)
  /\ DataSize(b) - old + new <= b.totalsize
  /\ DOMAIN c.mem = 0 .. BUF_SIZE - 1
  /\ \A a \in 0 .. p - 1 : c.mem[a] = b.mem[a]
  /\ \A a \in p + old .. DataSize(b) - 1 : c.mem[a + (new - old)] = b.mem[a]

(* The fields after an edit of the map of reservations.                    *)
LEMMA ShiftedFields ==
  ASSUME NEW b, NEW c, NEW p, NEW old, NEW new, Shifted(b, c, p, old, new)
  PROVE  /\ Fields \subseteq DOMAIN c
         /\ c.totalsize = b.totalsize
         /\ c.off_mem_rsvmap = b.off_mem_rsvmap
         /\ c.off_dt_struct = b.off_dt_struct + (new - old)
         /\ c.size_dt_struct = b.size_dt_struct
         /\ c.off_dt_strings = b.off_dt_strings + (new - old)
         /\ c.size_dt_strings = b.size_dt_strings
         /\ c.boot_cpuid_phys = b.boot_cpuid_phys
         /\ DOMAIN c.mem = 0 .. BUF_SIZE - 1
BY DEF Shifted, SameBut, Fields

(* A blob whose blocks have moved is sound if its map still has an end in  *)
(* front of them.                                                          *)
LEMMA ShiftedIsSound ==
  ASSUME NEW b, Sound(b), ~Misordered(b, RsvSize), NEW c,
         NEW p \in Nat, NEW old \in Nat, NEW new \in Nat,
         p + old <= b.off_dt_struct, Shifted(b, c, p, old, new),
         NumMemRsv(c) \in Nat, RsvSizeAt(c, NumMemRsv(c)) = 0,
         MapSize(c) \in Nat,
         b.off_mem_rsvmap + MapSize(c) <= b.off_dt_struct + (new - old)
  PROVE  StaysSound(b, c) /\ ReadAlike(b, c)
<1> DEFINE d == new - old
<1>1. /\ Fields \subseteq DOMAIN c
      /\ c.totalsize = b.totalsize
      /\ c.off_mem_rsvmap = b.off_mem_rsvmap
      /\ c.off_dt_struct = b.off_dt_struct + d
      /\ c.size_dt_struct = b.size_dt_struct
      /\ c.off_dt_strings = b.off_dt_strings + d
      /\ c.size_dt_strings = b.size_dt_strings
      /\ c.boot_cpuid_phys = b.boot_cpuid_phys
      /\ DOMAIN c.mem = 0 .. BUF_SIZE - 1
  BY ShiftedFields
<1>2. /\ b.totalsize \in Nat /\ b.off_mem_rsvmap \in Nat
      /\ b.off_dt_struct \in Nat /\ b.size_dt_struct \in Nat
      /\ b.off_dt_strings \in Nat /\ b.size_dt_strings \in Nat
      /\ BUF_SIZE \in Nat /\ b.totalsize <= BUF_SIZE
      /\ StructTop(b) = b.off_dt_struct + b.size_dt_struct
      /\ DataSize(b) = b.off_dt_strings + b.size_dt_strings
  BY NumbersAre
<1>3. StructTop(b) <= b.off_dt_strings
  BY OrderedIs
<1>4. DataSize(b) - old + new <= b.totalsize
  BY DEF Shifted
<1>5. d \in Int /\ p + old + d >= 0
  OBVIOUS
<1>6. /\ StructTop(c) = c.off_dt_struct + c.size_dt_struct
      /\ DataSize(c) = c.off_dt_strings + c.size_dt_strings
  BY DEF StructTop, DataSize
<1>7. DataSize(b) + d <= b.totalsize
  <2>1. DataSize(b) - old + new <= b.totalsize
    BY DEF Shifted
  <2>2. DataSize(b) - old + new = DataSize(b) + d
    BY <1>2
  <2>. QED
    BY <2>1, <2>2
<1> HIDE DEF d
<1>8. /\ c.off_dt_struct \in Nat /\ c.off_dt_strings \in Nat
      /\ StructTop(c) <= c.off_dt_strings /\ c.off_dt_struct <= c.off_dt_strings
      /\ DataSize(c) <= b.totalsize /\ StructTop(c) <= b.totalsize
  <2> DEFINE S == b.off_dt_struct
             n == b.size_dt_struct
             G == b.off_dt_strings
             m == b.size_dt_strings
  <2>1. /\ S \in Nat /\ n \in Nat /\ G \in Nat /\ m \in Nat
        /\ S + n <= G /\ G + m + d <= b.totalsize /\ p + old <= S
    BY <1>2, <1>3, <1>7
  <2>2. /\ c.off_dt_struct = S + d /\ c.off_dt_strings = G + d
        /\ StructTop(c) = S + d + n /\ DataSize(c) = G + d + m
    BY <1>1, <1>6
  <2>3. b.totalsize \in Nat
    BY <1>2
  <2> HIDE DEF S, n, G, m
  <2>4. S + d \in Nat /\ G + d \in Nat
    BY <1>5, <2>1
  <2>5. /\ S + d + n <= G + d /\ S + d <= G + d
        /\ G + d + m <= b.totalsize /\ S + d + n <= b.totalsize
    BY <1>5, <2>1, <2>3
  <2>. QED
    BY <2>2, <2>4, <2>5
<1>9. HasHeader(c)
  BY <1>1, <1>2, <1>8 DEF HasHeader
<1>12. Fits(c)
  BY <1>1, <1>2, <1>8 DEF Fits
<1>13. BlocksAreApart(c)
  <2>1. HEADER_SIZE <= b.off_mem_rsvmap
    BY DEF Sound, BlocksAreApart
  <2>2. c.off_mem_rsvmap + MapSize(c) <= c.off_dt_struct
    BY <1>1 DEF d
  <2>3. c.off_mem_rsvmap + MapSize(c) <= c.off_dt_strings
    <3>1. c.off_mem_rsvmap \in Nat
      BY <1>1, <1>2
    <3>. QED
      BY <1>8, <2>2, <3>1
  <2>. QED
    BY <1>1, <1>8, <2>1, <2>2, <2>3 DEF BlocksAreApart
<1>10. ASSUME NEW i \in 0 .. b.size_dt_struct - 1
       PROVE  Struct(c, i) = Struct(b, i)
  <2> DEFINE S == b.off_dt_struct
             a == S + i
  <2>1. S + b.size_dt_struct <= DataSize(b) /\ S \in Nat /\ S >= p + old
    BY <1>2, <1>3
  <2>2. c.off_dt_struct = S + d
    BY <1>1
  <2> HIDE DEF S
  <2>3. a \in p + old .. DataSize(b) - 1 /\ S + d + i = a + d
    BY <1>2, <1>5, <2>1
  <2> HIDE DEF a
  <2>4. c.mem[a + d] = b.mem[a]
    BY <2>3 DEF Shifted, d
  <2>. QED
    BY <2>2, <2>3, <2>4 DEF Struct, a, S
<1>14. HasStruct(c)
  <2>1. HasStruct(b)
    BY SoundIs
  <2>2. /\ c.size_dt_struct = b.size_dt_struct /\ c.size_dt_strings \in Nat
        /\ c.size_dt_strings >= b.size_dt_strings
    BY <1>1, <1>2
  <2>. QED
    BY <1>10, <2>1, <2>2, StructKept
<1>15. SameNames(b, c)
  <2> SUFFICES ASSUME NEW i \in 0 .. b.size_dt_strings - 1
               PROVE  String(c, i) = String(b, i)
    BY DEF SameNames
  <2> DEFINE G == b.off_dt_strings
             a == G + i
  <2>1. G + b.size_dt_strings = DataSize(b) /\ G \in Nat /\ G >= p + old
    BY <1>2, <1>3
  <2>2. c.off_dt_strings = G + d
    BY <1>1
  <2> HIDE DEF G
  <2>3. a \in p + old .. DataSize(b) - 1 /\ G + d + i = a + d
    BY <1>2, <1>5, <2>1
  <2> HIDE DEF a
  <2>4. c.mem[a + d] = b.mem[a]
    BY <2>3 DEF Shifted, d
  <2>. QED
    BY <2>2, <2>3, <2>4 DEF String, a, G
<1>16. Ordered(b) => Ordered(c)
  <2>1. HasStruct(b)
    BY SoundIs
  <2>2. /\ c.size_dt_struct = b.size_dt_struct /\ c.size_dt_strings \in Nat
        /\ c.size_dt_strings >= b.size_dt_strings
    BY <1>1, <1>2
  <2>. QED
    BY <1>10, <1>15, <2>1, <2>2, OrderKept
<1>17. ReadAlike(b, c)
  BY <1>1, <1>2, <1>10, <1>15 DEF ReadAlike
<1>. QED
  BY <1>1, <1>8, <1>9, <1>12, <1>13, <1>14, <1>16, <1>17, SoundIs
  DEF StaysSound, UsualOrder

(* _fdt_splice_mem_rsv.                                                    *)
LEMMA SpliceMemRsvIs ==
  ASSUME NEW b, Sound(b), NEW n \in Nat, NEW oldn \in Nat, NEW newn \in Nat,
         NEW p, NEW old, NEW new, p = b.off_mem_rsvmap + n * RsvSize,
         old = oldn * RsvSize, new = newn * RsvSize,
         (newn - oldn) * RsvSize = new - old,
         p \in Nat, old \in Nat, new \in Nat,
         p + old <= DataSize(b),
         NEW r, r = SpliceMemRsv(b, n, oldn, newn)
  PROVE  \/ r.ret = NOSPACE /\ r.fdt = b
         \/ r.ret = 0 /\ Shifted(b, r.fdt, p, old, new)
<1> DEFINE s == Splice(b, p, old, new)
           d == (newn - oldn) * RsvSize
           c == [s.fdt EXCEPT !.off_dt_struct = @ + d, !.off_dt_strings = @ + d]
<1>1. r = IF s.ret # 0 THEN s ELSE Result(c, 0)
  BY DEF SpliceMemRsv
<1>2. d = new - old
  OBVIOUS
<1> HIDE DEF s, d
<1>3. \/ s.ret = NOSPACE /\ s.fdt = b
      \/ s.ret = 0 /\ SplicedAt(b, s.fdt, p, old, new)
  <2>1. s = Splice(b, p, old, new)
    BY DEF s
  <2>. QED
    BY <2>1, SpliceIs
<1>4. CASE s.ret = NOSPACE /\ s.fdt = b
  <2> HIDE DEF c
  <2>. QED
    BY <1>1, <1>4 DEF NOSPACE
<1>5. CASE s.ret = 0 /\ SplicedAt(b, s.fdt, p, old, new)
  <2> DEFINE q == s.fdt
  <2>1. r.ret = 0 /\ r.fdt = c
    <3> HIDE DEF c
    <3>. QED
      BY <1>1, <1>5 DEF Result
  <2>2. SplicedAt(b, q, p, old, new)
    BY <1>5
  <2> HIDE DEF q
  <2>3. c = [q EXCEPT !.off_dt_struct = @ + d, !.off_dt_strings = @ + d]
    BY DEF q
  <2>4. /\ Fields \subseteq DOMAIN q
        /\ \A f \in Fields \ {"mem"} : q[f] = b[f]
    BY <2>2 DEF SplicedAt, SameBut
  <2>5. /\ DOMAIN c = DOMAIN q
        /\ c.off_dt_struct = q.off_dt_struct + d
        /\ c.off_dt_strings = q.off_dt_strings + d
        /\ \A f \in Fields \ {"off_dt_struct", "off_dt_strings"} : c[f] = q[f]
    BY <2>3, <2>4 DEF Fields
  <2> HIDE DEF c
  <2>6. /\ c.mem = q.mem
        /\ q.off_dt_struct = b.off_dt_struct /\ q.off_dt_strings = b.off_dt_strings
    BY <2>4, <2>5 DEF Fields
  <2>7. SameBut(b, c, {"mem", "off_dt_struct", "off_dt_strings"})
    BY <2>4, <2>5 DEF SameBut
  <2>8. \A a \in 0 .. p - 1 : c.mem[a] = b.mem[a]
    <3>1. \A a \in 0 .. p - 1 : a \in 0 .. p + new - 1
      OBVIOUS
    <3>. QED
      BY <2>2, <2>6, <3>1 DEF SplicedAt
  <2>9. Shifted(b, c, p, old, new)
    BY <1>2, <2>2, <2>5, <2>6, <2>7, <2>8 DEF SplicedAt, Shifted
  <2>. QED
    BY <2>1, <2>9
<1>. QED
  BY <1>3, <1>4, <1>5

(* Taking entries out needs no space.                                      *)
LEMMA SpliceOutFits ==
  ASSUME NEW b, NEW n, DataSize(b) \in Int, DataSize(b) <= b.totalsize,
         b.totalsize \in Int, RsvSize \in Nat
  PROVE  SpliceMemRsv(b, n, 1, 0).ret # NOSPACE
<1> DEFINE p == b.off_mem_rsvmap + n * RsvSize
           r == Splice(b, p, 1 * RsvSize, 0 * RsvSize)
<1>1. 1 * RsvSize = RsvSize /\ 0 * RsvSize = 0
  OBVIOUS
<1>2. ~(DataSize(b) - 1 * RsvSize + 0 * RsvSize > b.totalsize)
  <2> DEFINE x == 1 * RsvSize
             y == 0 * RsvSize
  <2>1. x = RsvSize /\ y = 0
    BY <1>1
  <2> HIDE DEF x, y
  <2>2. ~(DataSize(b) - x + y > b.totalsize)
    BY <2>1
  <2>. QED
    BY <2>2 DEF x, y
<1>3. r.ret # NOSPACE
  BY <1>2 DEF Splice, Result, NOSPACE, BADOFFSET
<1>. QED
  BY <1>3 DEF SpliceMemRsv, Result, NOSPACE

(* Where the map ends.                                                     *)
LEMMA MapEnds ==
  ASSUME NEW w, NEW n \in Nat, RsvSizeAt(w, n) = 0,
         \A m \in 0 .. n - 1 : RsvSizeAt(w, m) # 0
  PROVE  /\ NumMemRsv(w) = n /\ NumMemRsv(w) \in Nat
         /\ RsvSizeAt(w, NumMemRsv(w)) = 0
         /\ MapSize(w) = n * RsvSize + RsvSize /\ MapSize(w) \in Nat
<1>1. NumMemRsv(w) = n
  BY CountsReservations
<1>2. /\ n * RsvSize \in Nat /\ RsvSize \in Nat
      /\ (n + 1) * RsvSize = n * RsvSize + RsvSize
  BY EntriesAre, RsvSizeIs
<1>. QED
  BY <1>1, <1>2 DEF MapSize

(* Where in the blob the map is.                                           *)
LEMMA MapIs ==
  ASSUME NEW b, Sound(b), ~Misordered(b, RsvSize)
  PROVE  /\ NumMemRsv(b) \in Nat /\ RsvSizeAt(b, NumMemRsv(b)) = 0
         /\ b.off_mem_rsvmap \in Nat /\ b.off_dt_struct \in Nat
         /\ RsvSize \in Nat /\ NumMemRsv(b) * RsvSize \in Nat
         /\ b.off_mem_rsvmap + NumMemRsv(b) * RsvSize + RsvSize <= b.off_dt_struct
         /\ b.off_dt_struct <= DataSize(b) /\ DataSize(b) \in Nat
<1>1. NumMemRsv(b) \in Nat /\ RsvSizeAt(b, NumMemRsv(b)) = 0
  BY DEF Sound, BlocksAreApart
<1>2. b.off_mem_rsvmap + MapSize(b) <= b.off_dt_struct
  BY DEF Sound, BlocksAreApart
<1>3. /\ MapSize(b) = NumMemRsv(b) * RsvSize + RsvSize
      /\ NumMemRsv(b) * RsvSize \in Nat /\ RsvSize \in Nat
  BY <1>1, EntriesAre, RsvSizeIs DEF MapSize
<1>4. /\ b.off_mem_rsvmap \in Nat /\ b.off_dt_struct \in Nat
      /\ b.size_dt_struct \in Nat /\ DataSize(b) \in Nat
      /\ StructTop(b) = b.off_dt_struct + b.size_dt_struct
  BY NumbersAre
<1>5. StructTop(b) <= DataSize(b)
  BY OrderedIs
<1>6. b.off_dt_struct <= DataSize(b)
  BY <1>4, <1>5
<1>7. b.off_mem_rsvmap + NumMemRsv(b) * RsvSize + RsvSize <= b.off_dt_struct
  BY <1>2, <1>3, <1>4
<1>. QED
  BY <1>1, <1>3, <1>4, <1>6, <1>7

(* fdt_add_mem_rsv.                                                        *)
LEMMA AddMemRsvKeeps ==
  ASSUME NEW b, Sound(b), ~Misordered(b, RsvSize), NEW address, NEW size
  PROVE  LET r == fdt_add_mem_rsv(b, address, size)
         IN  /\ StaysSound(b, r.fdt)
             /\ \/ r.ret = NOSPACE /\ r.fdt = b
                \/ /\ r.ret = 0 /\ ReadAlike(b, r.fdt)
                   /\ EntryAdded(b, r.fdt, address, size)
<1> DEFINE n == NumMemRsv(b)
           R == RsvSize
           T2 == 2 * FDT_TAGSIZE
           R0 == b.off_mem_rsvmap
           p == R0 + n * R
           r == SpliceMemRsv(b, n, 0, 1)
           cells == Reservation(address, size)
           c == r.fdt
           w == Poke(c, p, cells)
<1>1. fdt_add_mem_rsv(b, address, size) = IF r.ret # 0 THEN r ELSE Result(w, 0)
  BY DEF fdt_add_mem_rsv
<1>2. /\ n \in Nat /\ RsvSizeAt(b, n) = 0 /\ R0 \in Nat /\ b.off_dt_struct \in Nat
      /\ R \in Nat /\ n * R \in Nat
      /\ R0 + n * R + R <= b.off_dt_struct
      /\ b.off_dt_struct <= DataSize(b) /\ DataSize(b) \in Nat
  BY MapIs
<1>3. T2 \in Nat /\ R > T2
  BY RsvSizeIs
<1>4. \A m \in 0 .. n - 1 : RsvSizeAt(b, m) # 0
  BY <1>2, CountIsFirst
<1>5. /\ Len(cells) = R /\ cells[T2 + 1] = <<"size", size>>
      /\ cells[1] = <<"address", address>>
  BY ReservationIs, ReservationBegins
<1> HIDE DEF r, R0, cells, T2
<1>6. p \in Nat /\ p + R <= b.off_dt_struct /\ p + R <= DataSize(b)
  BY <1>2
<1>7. \/ r.ret = NOSPACE /\ c = b
      \/ r.ret = 0 /\ Shifted(b, c, p, 0, R)
  <2> HIDE DEF n
  <2> DEFINE oldn == 0
             newn == 1
             old == 0
  <2>1. /\ old = oldn * RsvSize /\ R = newn * RsvSize
        /\ (newn - oldn) * RsvSize = R - old
        /\ p = b.off_mem_rsvmap + n * RsvSize /\ p + old <= DataSize(b)
    BY <1>2, <1>6 DEF R0
  <2>2. /\ oldn \in Nat /\ newn \in Nat /\ old \in Nat /\ n \in Nat
        /\ p \in Nat /\ R \in Nat
    BY <1>2, <1>6
  <2>3. r = SpliceMemRsv(b, n, oldn, newn)
    BY DEF r, n
  <2> HIDE DEF p, R, c, oldn, newn, old
  <2>4. \/ r.ret = NOSPACE /\ r.fdt = b
        \/ r.ret = 0 /\ Shifted(b, r.fdt, p, old, R)
    BY <2>1, <2>2, <2>3, SpliceMemRsvIs
  <2>. QED
    BY <2>4 DEF old, c
<1> HIDE DEF c, w
<1>8. CASE r.ret = NOSPACE /\ c = b
  <2>1. fdt_add_mem_rsv(b, address, size) = r /\ r.fdt = b
    BY <1>1, <1>8 DEF NOSPACE, c
  <2>. QED
    BY <1>8, <2>1 DEF Kept, StaysSound
<1>9. CASE r.ret = 0 /\ Shifted(b, c, p, 0, R)
  <2>1. /\ fdt_add_mem_rsv(b, address, size).fdt = w
        /\ fdt_add_mem_rsv(b, address, size).ret = 0
    BY <1>1, <1>9 DEF Result
  <2> HIDE DEF n, R, p
  <2>2. Fields \subseteq DOMAIN c /\ DOMAIN c.mem = 0 .. BUF_SIZE - 1
    BY <1>9, ShiftedFields
  <2>3. w = Poke(c, p, cells)
    BY DEF w
  <2>4. /\ SameBut(c, w, {"mem"})
        /\ DOMAIN w.mem = Span(p, R) \cup DOMAIN c.mem
        /\ \A a \in Span(p, R) : w.mem[a] = cells[a - p + 1]
        /\ \A a \in DOMAIN c.mem \ Span(p, R) : w.mem[a] = c.mem[a]
    <3>1. /\ SameBut(c, w, {"mem"})
          /\ DOMAIN w.mem = Span(p, Len(cells)) \cup DOMAIN c.mem
          /\ \A a \in Span(p, Len(cells)) : w.mem[a] = cells[a - p + 1]
          /\ \A a \in DOMAIN c.mem \ Span(p, Len(cells)) : w.mem[a] = c.mem[a]
      <4>1. Fields \subseteq DOMAIN c
        BY <2>2
      <4>. QED
        BY <2>3, <4>1, PokedIs
    <3>. QED
      BY <1>5, <3>1
  <2>5. Span(p, R) = p .. p + R - 1
    BY DEF Span
  <2>6. DataSize(b) + R <= BUF_SIZE /\ BUF_SIZE \in Nat
    <3>1. DataSize(b) - 0 + R <= b.totalsize
      BY <1>9 DEF Shifted
    <3>2. b.totalsize \in Nat /\ b.totalsize <= BUF_SIZE /\ BUF_SIZE \in Nat
      BY NumbersAre
    <3>. QED
      BY <1>2, <3>1, <3>2
  <2>7. DOMAIN w.mem = 0 .. BUF_SIZE - 1
    <3>1. \A a \in p .. p + R - 1 : a \in 0 .. BUF_SIZE - 1
      BY <1>2, <1>6, <2>6
    <3>. QED
      BY <2>2, <2>4, <2>5, <3>1
  <2>8. ASSUME NEW a \in 0 .. BUF_SIZE - 1, a < p \/ a >= p + R
        PROVE  w.mem[a] = c.mem[a]
    <3>1. ~(a \in p .. p + R - 1)
      BY <1>2, <1>6, <2>8
    <3>. QED
      BY <2>2, <2>4, <2>5, <3>1
  <2>9. Shifted(b, w, p, 0, R)
    <3>1. /\ SameBut(b, w, {"mem", "off_dt_struct", "off_dt_strings"})
          /\ w.off_dt_struct = c.off_dt_struct
          /\ w.off_dt_strings = c.off_dt_strings
      BY <1>9, <2>4 DEF Shifted, SameBut, Fields
    <3>2. ASSUME NEW a \in 0 .. p - 1  PROVE w.mem[a] = b.mem[a]
      <4>1. a \in 0 .. BUF_SIZE - 1 /\ a < p
        BY <1>2, <1>6, <2>6
      <4>. QED
        BY <1>9, <2>8, <4>1 DEF Shifted
    <3>3. ASSUME NEW a \in p + 0 .. DataSize(b) - 1
          PROVE  w.mem[a + (R - 0)] = b.mem[a]
      <4> DEFINE t == a + (R - 0)
      <4>1. t \in 0 .. BUF_SIZE - 1 /\ t >= p + R
        BY <1>2, <1>6, <2>6
      <4>2. c.mem[t] = b.mem[a]
        BY <1>9 DEF Shifted
      <4> HIDE DEF t
      <4>3. w.mem[t] = c.mem[t]
        BY <2>8, <4>1
      <4>. QED
        BY <4>2, <4>3 DEF t
    <3>4. /\ c.off_dt_struct = b.off_dt_struct + (R - 0)
          /\ c.off_dt_strings = b.off_dt_strings + (R - 0)
          /\ DataSize(b) - 0 + R <= b.totalsize
      BY <1>9 DEF Shifted
    <3>. QED
      BY <2>7, <3>1, <3>2, <3>3, <3>4 DEF Shifted
  <2>10. w.off_mem_rsvmap = R0
    BY <2>9, ShiftedFields DEF R0
  <2>11. ASSUME NEW m \in 0 .. n - 1
         PROVE  RsvSizeAt(w, m) # 0 /\ EntryAt(w, m) = EntryAt(b, m)
    <3> DEFINE a == R0 + m * R + T2
               t == R0 + m * R
    <3>1. m * R \in Nat /\ m * R + R <= n * R
      <4>1. m + 1 \in 0 .. n /\ m \in Nat
        BY <1>2
      <4>2. (m + 1) * RsvSize <= n * RsvSize
        BY <1>2, <4>1, EntriesAre
      <4>3. (m + 1) * RsvSize = m * RsvSize + RsvSize /\ m * RsvSize \in Nat
        BY <4>1, EntriesAre
      <4>. QED
        BY <4>2, <4>3 DEF R
    <3>2. a \in 0 .. p - 1 /\ t \in 0 .. p - 1
      BY <1>2, <1>3, <3>1 DEF p
    <3> HIDE DEF a, t
    <3>3. w.mem[a] = b.mem[a] /\ w.mem[t] = b.mem[t]
      BY <2>9, <3>2 DEF Shifted
    <3>4. RsvSizeAt(w, m) = RsvSizeAt(b, m)
      BY <2>10, <3>3 DEF RsvSizeAt, a, R, R0, T2
    <3>5. EntryAt(w, m) = EntryAt(b, m)
      BY <2>10, <3>3, <3>4 DEF EntryAt, t, R, R0
    <3>. QED
      BY <1>4, <3>4, <3>5
  <2>12. RsvSizeAt(w, n) = size /\ EntryAt(w, n) = <<address, size>>
    <3> DEFINE a == p + T2
    <3>1. a \in p .. p + R - 1 /\ a - p + 1 = T2 + 1 /\ p \in p .. p + R - 1
      BY <1>2, <1>3, <1>6
    <3> HIDE DEF a
    <3>2. w.mem[a] = cells[T2 + 1]
      BY <1>6, <2>4, <2>5, <3>1
    <3>3. w.mem[p] = cells[1]
      <4>1. p - p + 1 = 1
        BY <1>6
      <4>2. w.mem[p] = cells[p - p + 1]
        BY <1>6, <2>4, <2>5, <3>1
      <4>. QED
        BY <4>1, <4>2
    <3>4. RsvSizeAt(w, n) = w.mem[a][2]
      BY <2>10 DEF RsvSizeAt, a, p, R, R0, T2
    <3>5. RsvSizeAt(w, n) = size
      BY <1>5, <3>2, <3>4
    <3>6. EntryAt(w, n) = <<w.mem[p][2], RsvSizeAt(w, n)>>
      BY <2>10 DEF EntryAt, p, R, R0
    <3>. QED
      BY <1>5, <3>3, <3>5, <3>6
  <2>13. RsvSizeAt(w, n + 1) = 0
    <3> DEFINE a == p + T2
    <3>1. a \in p + 0 .. DataSize(b) - 1
      BY <1>2, <1>3, <1>6
    <3>2. w.mem[a + (R - 0)] = b.mem[a]
      BY <2>9, <3>1 DEF Shifted
    <3>3. (n + 1) * R = n * R + R
      BY <1>2, EntriesAre DEF R
    <3>4. R0 + (n + 1) * R + T2 = a + (R - 0)
      BY <1>2, <1>3, <3>3 DEF p
    <3> HIDE DEF a
    <3>5. RsvSizeAt(w, n + 1) = w.mem[R0 + (n + 1) * R + T2][2]
      BY <2>10 DEF RsvSizeAt, R, T2
    <3>6. RsvSizeAt(b, n) = b.mem[a][2]
      BY DEF RsvSizeAt, a, p, R, R0, T2
    <3>. QED
      BY <1>2, <3>2, <3>4, <3>5, <3>6
  <2>14. /\ NumMemRsv(w) \in Nat /\ RsvSizeAt(w, NumMemRsv(w)) = 0
         /\ MapSize(w) \in Nat /\ R0 + MapSize(w) <= b.off_dt_struct + (R - 0)
         /\ NumMemRsv(w) = IF size = 0 THEN n ELSE n + 1
    <3>1. CASE size = 0
      <4>1. /\ NumMemRsv(w) = n /\ NumMemRsv(w) \in Nat /\ RsvSizeAt(w, NumMemRsv(w)) = 0
            /\ MapSize(w) \in Nat /\ MapSize(w) = n * RsvSize + RsvSize
        BY <1>2, <2>11, <2>12, <3>1, MapEnds
      <4>2. MapSize(w) = n * R + R
        BY <4>1 DEF R
      <4>. QED
        BY <1>2, <3>1, <4>1, <4>2
    <3>2. CASE size # 0
      <4>1. \A m \in 0 .. (n + 1) - 1 : RsvSizeAt(w, m) # 0
        <5>1. \A m \in 0 .. (n + 1) - 1 : m \in 0 .. n - 1 \/ m = n
          BY <1>2
        <5>. QED
          BY <2>11, <2>12, <3>2, <5>1
      <4>2. n + 1 \in Nat
        BY <1>2
      <4>3. /\ NumMemRsv(w) = n + 1
            /\ NumMemRsv(w) \in Nat /\ RsvSizeAt(w, NumMemRsv(w)) = 0
            /\ MapSize(w) \in Nat /\ MapSize(w) = (n + 1) * RsvSize + RsvSize
        BY <2>13, <4>1, <4>2, MapEnds
      <4>4. MapSize(w) = n * R + R + R
        BY <1>2, <4>3, EntriesAre DEF R
      <4>. QED
        BY <1>2, <3>2, <4>3, <4>4
    <3>. QED
      BY <3>1, <3>2
  <2>15. StaysSound(b, w) /\ ReadAlike(b, w)
    <3>1. p + 0 <= b.off_dt_struct /\ 0 \in Nat
      BY <1>2, <1>6
    <3>2. b.off_mem_rsvmap + MapSize(w) <= b.off_dt_struct + (R - 0)
      BY <2>14 DEF R0
    <3>. QED
      BY <1>2, <1>6, <2>9, <2>14, <3>1, <3>2, ShiftedIsSound
  <2>16. EntryAdded(b, w, address, size)
    BY <2>11, <2>12, <2>14 DEF EntryAdded, n
  <2>. QED
    BY <2>1, <2>15, <2>16
<1>. QED
  BY <1>7, <1>8, <1>9

(* fdt_del_mem_rsv.                                                        *)
LEMMA DelMemRsvKeeps ==
  ASSUME NEW b, Sound(b), ~Misordered(b, RsvSize), NEW n \in Nat
  PROVE  LET r == fdt_del_mem_rsv(b, n)
         IN  /\ StaysSound(b, r.fdt)
             /\ \/ n >= NumMemRsv(b) /\ r.ret = NOTFOUND /\ r.fdt = b
                \/ /\ n < NumMemRsv(b) /\ r.ret = 0 /\ ReadAlike(b, r.fdt)
                   /\ EntryDeleted(b, r.fdt, n)
<1> DEFINE N == NumMemRsv(b)
           R == RsvSize
           T2 == 2 * FDT_TAGSIZE
           R0 == b.off_mem_rsvmap
           p == R0 + n * R
           r == SpliceMemRsv(b, n, 1, 0)
           c == r.fdt
<1>1. fdt_del_mem_rsv(b, n) = IF n >= N THEN Result(b, NOTFOUND) ELSE r
  BY DEF fdt_del_mem_rsv
<1>2. /\ N \in Nat /\ RsvSizeAt(b, N) = 0 /\ R0 \in Nat /\ b.off_dt_struct \in Nat
      /\ R \in Nat /\ N * R \in Nat
      /\ R0 + N * R + R <= b.off_dt_struct
      /\ b.off_dt_struct <= DataSize(b) /\ DataSize(b) \in Nat
  BY MapIs
<1>3. T2 \in Nat /\ R > T2
  BY RsvSizeIs
<1>4. \A m \in 0 .. N - 1 : RsvSizeAt(b, m) # 0
  BY <1>2, CountIsFirst
<1> HIDE DEF r, R0, T2, N
<1>5. CASE n >= N
  <2>1. fdt_del_mem_rsv(b, n).fdt = b /\ fdt_del_mem_rsv(b, n).ret = NOTFOUND
    BY <1>1, <1>5 DEF Result
  <2>. QED
    BY <1>5, <2>1 DEF Kept, StaysSound, N
<1>6. CASE n < N
  <2>1. /\ n * R \in Nat /\ (n + 1) * R = n * R + R /\ n * R + R <= N * R
    <3>1. n + 1 \in 0 .. N
      BY <1>2, <1>6
    <3>2. (n + 1) * RsvSize <= N * RsvSize
      BY <1>2, <3>1, EntriesAre
    <3>3. (n + 1) * RsvSize = n * RsvSize + RsvSize /\ n * RsvSize \in Nat
      BY EntriesAre
    <3>. QED
      BY <3>2, <3>3
  <2>2. fdt_del_mem_rsv(b, n).fdt = c /\ fdt_del_mem_rsv(b, n).ret = r.ret
    BY <1>1, <1>2, <1>6
  <2> HIDE DEF R
  <2>3. p \in Nat /\ p + R <= b.off_dt_struct /\ p + R <= DataSize(b)
    BY <1>2, <2>1
  <2>4. \/ r.ret = NOSPACE /\ c = b
        \/ r.ret = 0 /\ Shifted(b, c, p, R, 0)
    <3> DEFINE oldn == 1
               newn == 0
               new == 0
    <3>1. /\ R = oldn * RsvSize /\ new = newn * RsvSize
          /\ (newn - oldn) * RsvSize = new - R
          /\ p = b.off_mem_rsvmap + n * RsvSize
      BY <1>2, <2>3 DEF R0, R
    <3>2. /\ oldn \in Nat /\ newn \in Nat /\ new \in Nat
          /\ p \in Nat /\ R \in Nat /\ p + R <= DataSize(b)
      BY <1>2, <2>3
    <3>3. r = SpliceMemRsv(b, n, oldn, newn)
      BY DEF r
    <3> HIDE DEF p, c, oldn, newn, new
    <3>4. \/ r.ret = NOSPACE /\ r.fdt = b
          \/ r.ret = 0 /\ Shifted(b, r.fdt, p, R, new)
      BY <3>1, <3>2, <3>3, SpliceMemRsvIs
    <3>. QED
      BY <3>4 DEF new, c
  <2> HIDE DEF c, p
  <2>5. r.ret = 0 /\ Shifted(b, c, p, R, 0)
    <3>1. p + R \in Nat /\ p + R <= DataSize(b) /\ DataSize(b) <= b.totalsize
      BY <1>2, <2>3, NumbersAre
    <3>2. b.totalsize \in Int /\ DataSize(b) \in Int /\ RsvSize \in Nat
      BY NumbersAre, RsvSizeIs
    <3>3. SpliceMemRsv(b, n, 1, 0).ret # NOSPACE
      BY <3>1, <3>2, SpliceOutFits
    <3>. QED
      BY <2>4, <3>3 DEF r
  <2>6. Shifted(b, c, p, R, 0)
    BY <2>5
  <2>11. c.off_mem_rsvmap = R0
    BY <2>6, ShiftedFields DEF R0
  <2>12. ASSUME NEW m \in 0 .. n - 1
         PROVE  RsvSizeAt(c, m) = RsvSizeAt(b, m) /\ EntryAt(c, m) = EntryAt(b, m)
    <3> DEFINE a == R0 + m * R + T2
               t == R0 + m * R
    <3>1. m * R \in Nat /\ m * R + R <= n * R
      <4>1. m + 1 \in 0 .. n /\ m \in Nat
        OBVIOUS
      <4>2. (m + 1) * RsvSize <= n * RsvSize
        BY <4>1, EntriesAre
      <4>3. (m + 1) * RsvSize = m * RsvSize + RsvSize /\ m * RsvSize \in Nat
        BY <4>1, EntriesAre
      <4>. QED
        BY <4>2, <4>3 DEF R
    <3>2. a \in 0 .. p - 1 /\ t \in 0 .. p - 1
      BY <1>2, <1>3, <2>1, <3>1 DEF p
    <3> HIDE DEF a, t
    <3>3. c.mem[a] = b.mem[a] /\ c.mem[t] = b.mem[t]
      BY <2>6, <3>2 DEF Shifted
    <3>4. RsvSizeAt(c, m) = RsvSizeAt(b, m)
      BY <2>11, <3>3 DEF RsvSizeAt, a, R, R0, T2
    <3>5. EntryAt(c, m) = EntryAt(b, m)
      BY <2>11, <3>3, <3>4 DEF EntryAt, t, R, R0
    <3>. QED
      BY <3>4, <3>5
  <2>13. ASSUME NEW m \in n .. N - 1
         PROVE  /\ RsvSizeAt(c, m) = RsvSizeAt(b, m + 1)
                /\ EntryAt(c, m) = EntryAt(b, m + 1)
    <3> DEFINE a == R0 + (m + 1) * R + T2
               t == R0 + (m + 1) * R
    <3>0. m \in Nat /\ m + 1 \in 0 .. N /\ n \in 0 .. m
      BY <1>2
    <3>1. /\ m * R \in Nat /\ (m + 1) * R = m * R + R
          /\ (m + 1) * R <= N * R /\ n * R <= m * R
      <4>1. (m + 1) * RsvSize <= N * RsvSize
        BY <1>2, <3>0, EntriesAre
      <4>2. (m + 1) * RsvSize = m * RsvSize + RsvSize /\ m * RsvSize \in Nat
        BY <3>0, EntriesAre
      <4>3. n * RsvSize <= m * RsvSize
        BY <3>0, EntriesAre
      <4>. QED
        BY <4>1, <4>2, <4>3 DEF R
    <3>2. /\ a \in p + R .. DataSize(b) - 1 /\ a + (0 - R) = R0 + m * R + T2
          /\ t \in p + R .. DataSize(b) - 1 /\ t + (0 - R) = R0 + m * R
      BY <1>2, <1>3, <2>1, <3>1 DEF p
    <3> HIDE DEF a, t
    <3>3. c.mem[a + (0 - R)] = b.mem[a] /\ c.mem[t + (0 - R)] = b.mem[t]
      BY <2>6, <3>2 DEF Shifted
    <3>4. RsvSizeAt(c, m) = c.mem[R0 + m * R + T2][2]
      BY <2>11 DEF RsvSizeAt, R, T2
    <3>5. RsvSizeAt(b, m + 1) = b.mem[a][2]
      BY DEF RsvSizeAt, a, R, R0, T2
    <3>6. RsvSizeAt(c, m) = RsvSizeAt(b, m + 1)
      BY <3>2, <3>3, <3>4, <3>5
    <3>7. EntryAt(c, m) = <<c.mem[R0 + m * R][2], RsvSizeAt(c, m)>>
      BY <2>11 DEF EntryAt, R
    <3>8. EntryAt(b, m + 1) = <<b.mem[t][2], RsvSizeAt(b, m + 1)>>
      BY DEF EntryAt, R, R0, t
    <3>. QED
      BY <3>2, <3>3, <3>6, <3>7, <3>8
  <2>14. N - 1 \in Nat /\ N - 1 \in n .. N - 1 /\ (N - 1) + 1 = N
    BY <1>2, <1>6
  <2>15. RsvSizeAt(c, N - 1) = 0
    BY <1>2, <2>13, <2>14
  <2>16. ASSUME NEW m \in 0 .. (N - 1) - 1  PROVE RsvSizeAt(c, m) # 0
    <3>1. CASE m < n
      <4>1. m \in 0 .. n - 1 /\ m \in 0 .. N - 1
        BY <1>2, <1>6, <3>1
      <4>. QED
        BY <1>4, <2>12, <4>1
    <3>2. CASE m >= n
      <4>1. m \in n .. N - 1 /\ m + 1 \in 0 .. N - 1
        BY <1>2, <3>2
      <4>. QED
        BY <1>4, <2>13, <4>1
    <3>. QED
      BY <1>2, <3>1, <3>2
  <2>17. /\ NumMemRsv(c) = N - 1
        /\ NumMemRsv(c) \in Nat /\ RsvSizeAt(c, NumMemRsv(c)) = 0
        /\ MapSize(c) \in Nat /\ MapSize(c) = (N - 1) * RsvSize + RsvSize
    BY <2>14, <2>15, <2>16, MapEnds
  <2>18. b.off_mem_rsvmap + MapSize(c) <= b.off_dt_struct + (0 - R)
    <3>1. (N - 1) * RsvSize + RsvSize = ((N - 1) + 1) * RsvSize
      BY <2>14, EntriesAre
    <3>2. MapSize(c) = N * R
      BY <2>14, <2>17, <3>1 DEF R
    <3>. QED
      BY <1>2, <3>2 DEF R0
  <2>19. StaysSound(b, c) /\ ReadAlike(b, c)
    <3>1. 0 \in Nat
      OBVIOUS
    <3>. QED
      BY <1>2, <2>3, <2>6, <2>17, <2>18, <3>1, ShiftedIsSound
  <2>20. EntryDeleted(b, c, n)
    <3>1. NumMemRsv(c) = N - 1
      BY <2>17
    <3>2. \A m \in n .. N - 2 : m \in n .. N - 1
      BY <1>2
    <3>. QED
      BY <2>12, <2>13, <3>1, <3>2 DEF EntryDeleted, N
  <2>. QED
    BY <1>6, <2>2, <2>5, <2>19, <2>20 DEF N
<1>. QED
  BY <1>2, <1>5, <1>6

-----------------------------------------------------------------------------
(* The calls of a caller that does not take an error for the offset of a   *)
(* parent.                                                                 *)

Offset(o) == o \in Int /\ o # NOTFOUND

(* The blob is sound and its tags are in order, and the caller has read    *)
(* what it says: the offsets of nodes are among those of tags.             *)
Viewed ==
  /\ BlobIsSound /\ Ordered(fdt)
  /\ view = Contents(fdt) /\ DOMAIN view.at \subseteq Nat

(* The offsets a caller uses.                                              *)
LEMMA OffsetsAre ==
  ASSUME NOTFOUND \notin BadOffsets, Viewed, NEW o \in Offsets
  PROVE  Offset(o)
<1>1. CASE o \in DOMAIN view.at
  BY <1>1 DEF Viewed, Offset, NOTFOUND
<1>2. CASE o \in BadOffsets
  BY <1>2, CallerAssumption DEF Offset
<1>. QED
  BY <1>1, <1>2 DEF Offsets

(* The offsets a reader finds.                                             *)
LEMMA ViewIs ==
  ASSUME NEW b, Sound(b), NEW v, v = Contents(b)
  PROVE  DOMAIN v.at \subseteq Nat
<1>1. HasStruct(b)
  BY SoundIs
<1>2. DOMAIN v.at \subseteq Tags(b)
  BY <1>1, ContentsAre
<1>. QED
  BY <1>2 DEF Tags

(* What a call returns, the blob then is.                                  *)
LEMMA ReturnsSound ==
  ASSUME NEW c, NEW r, Returns(c, r), Sound(r.fdt), Ordered(r.fdt),
         r.fdt.boot_cpuid_phys \in CpuIds
  PROVE  Viewed'
<1>1. fdt' = r.fdt /\ view' = Contents(r.fdt)
  BY DEF Returns
<1>2. DOMAIN view'.at \subseteq Nat
  BY <1>1, ViewIs
<1>. QED
  BY <1>1, <1>2 DEF Viewed, BlobIsSound

(* The blob of the caller is sound and whole.                              *)
LEMMA ViewedFromInit ==
  ASSUME Init
  PROVE  Viewed
<1>1. /\ Sound(fdt) /\ fdt.boot_cpuid_phys \in CpuIds
      /\ Whole(fdt, view) /\ view = Contents(fdt)
  BY CallerAssumption DEF Init
<1>2. DOMAIN view.at \subseteq Nat
  BY <1>1, ViewIs
<1>3. Ordered(fdt)
  <2>1. HasStruct(fdt)
    BY <1>1, SoundIs
  <2>2. view.ok /\ view.path = Nowhere
    BY <1>1 DEF Whole
  <2>. QED
    BY <1>1, <2>1, <2>2, WholeIsOrdered
<1>. QED
  BY <1>1, <1>2, <1>3 DEF Viewed, BlobIsSound

(* Every call leaves it so.                                                *)
LEMMA NextKeepsViewed ==
  ASSUME NOTFOUND \notin BadOffsets, Viewed, [Next]_vars
  PROVE  Viewed'
<1> DEFINE b == fdt
           Done(r) == /\ Sound(r.fdt) /\ Ordered(r.fdt)
                      /\ r.fdt.boot_cpuid_phys \in CpuIds
<1>1. Sound(b) /\ Ordered(b) /\ b.boot_cpuid_phys \in CpuIds
  BY DEF Viewed, BlobIsSound
<1>2. \A o \in Offsets : o \in Int /\ o # NOTFOUND
  BY OffsetsAre DEF Offset
<1>3. \A val \in Values : Len(val) \in Nat
  BY CallerAssumption
<1>4. ASSUME NEW c, NEW r, Returns(c, r), Done(r)  PROVE Viewed'
  BY <1>4, ReturnsSound
<1>5. ASSUME NEW r, ~Misordered(b, RsvSize) => StaysSound(b, r.fdt)
      PROVE  Done(Checked(b, r))
  BY <1>1, <1>5, CheckedKeeps
<1>6. ASSUME NEW r, Kept(b, r.fdt)  PROVE Done(r)
  BY <1>1, <1>6 DEF Kept, StaysSound
<1> HIDE DEF b, Done
<1>7. CASE UNCHANGED vars
  BY <1>7 DEF vars, Viewed, BlobIsSound
<1>8. CASE SetProp
  <2>1. PICK node \in Offsets, name \in PropNames, val \in Values :
          Returns(<<"setprop", PathAt(node), name, val>>,
                  Checked(b, fdt_setprop(b, node, name, val)))
    BY <1>8 DEF SetProp, b
  <2>2. ~Misordered(b, RsvSize) => Kept(b, fdt_setprop(b, node, name, val).fdt)
    BY <1>1, <1>2, <1>3, SetPropKeeps
  <2>. QED
    BY <1>4, <1>5, <2>1, <2>2 DEF Kept
<1>9. CASE AppendProp
  <2>1. PICK node \in Offsets, name \in PropNames, val \in Values :
          Returns(<<"appendprop", PathAt(node), name, val>>,
                  Checked(b, fdt_appendprop(b, node, name, val)))
    BY <1>9 DEF AppendProp, b
  <2>2. ~Misordered(b, RsvSize) => Kept(b, fdt_appendprop(b, node, name, val).fdt)
    BY <1>1, <1>2, <1>3, AppendPropKeeps
  <2>. QED
    BY <1>4, <1>5, <2>1, <2>2 DEF Kept
<1>10. CASE DelProp
  <2>1. PICK node \in Offsets, name \in PropNames :
          Returns(<<"delprop", PathAt(node), name>>,
                  Checked(b, fdt_delprop(b, node, name)))
    BY <1>10 DEF DelProp, b
  <2>2. ~Misordered(b, RsvSize) => Kept(b, fdt_delprop(b, node, name).fdt)
    BY <1>1, <1>2, DelPropKeeps
  <2>. QED
    BY <1>4, <1>5, <2>1, <2>2 DEF Kept
<1>11. CASE SetName
  <2>1. PICK node \in Offsets, name \in NodeNames :
          Returns(<<"set_name", PathAt(node), name>>,
                  Checked(b, fdt_set_name(b, node, name)))
    BY <1>11 DEF SetName, b
  <2>2. ~Misordered(b, RsvSize) => Kept(b, fdt_set_name(b, node, name).fdt)
    BY <1>1, <1>2, SetNameKeeps
  <2>. QED
    BY <1>4, <1>5, <2>1, <2>2 DEF Kept
<1>12. CASE AddSubnode
  <2>1. PICK node \in Offsets, name \in NodeNames :
          LET r == Checked(b, fdt_add_subnode(b, node, name))
          IN  Returns(<<"add_subnode", PathAt(node), name,
                        At(Contents(r.fdt), r.ret)>>,
                      [r EXCEPT !.ret = IF @ >= 0 THEN 0 ELSE @])
    BY <1>12 DEF AddSubnode, b
  <2> DEFINE r == Checked(b, fdt_add_subnode(b, node, name))
             s == [r EXCEPT !.ret = IF @ >= 0 THEN 0 ELSE @]
  <2>2. ~Misordered(b, RsvSize) => Kept(b, fdt_add_subnode(b, node, name).fdt)
    BY <1>1, <1>2, AddSubnodeKeeps
  <2>3. Done(r)
    BY <1>5, <2>2 DEF Kept
  <2>4. s.fdt = r.fdt
    <3>1. "fdt" \in DOMAIN r
      BY DEF Checked, fdt_add_subnode, SpliceStruct, Splice, Result
    <3> HIDE DEF r
    <3>. QED
      BY <3>1
  <2>5. Done(s)
    BY <2>3, <2>4 DEF Done
  <2>6. \E c : Returns(c, s)
    BY <2>1
  <2> HIDE DEF s
  <2>. QED
    BY <1>4, <2>5, <2>6
<1>13. CASE DelNode
  <2>1. PICK node \in Offsets :
          Returns(<<"del_node", PathAt(node)>>,
                  Checked(b, fdt_del_node(b, node)))
    BY <1>13 DEF DelNode, b
  <2>2. ~Misordered(b, RsvSize) => Kept(b, fdt_del_node(b, node).fdt)
    BY <1>1, <1>2, DelNodeKeeps
  <2>. QED
    BY <1>4, <1>5, <2>1, <2>2 DEF Kept
<1>14. CASE SetPropInplace
  <2>1. PICK node \in Offsets, name \in PropNames, val \in Values :
          Returns(<<"setprop_inplace", PathAt(node), name, val>>,
                  fdt_setprop_inplace(b, node, name, val))
    BY <1>14 DEF SetPropInplace, b
  <2>2. Kept(b, fdt_setprop_inplace(b, node, name, val).fdt)
    BY <1>1, <1>2, <1>3, SetPropInplaceKeeps
  <2>. QED
    BY <1>4, <1>6, <2>1, <2>2
<1>15. CASE NopProperty
  <2>1. PICK node \in Offsets, name \in PropNames :
          Returns(<<"nop_property", PathAt(node), name>>,
                  fdt_nop_property(b, node, name))
    BY <1>15 DEF NopProperty, b
  <2>2. Kept(b, fdt_nop_property(b, node, name).fdt)
    BY <1>1, <1>2, NopPropertyKeeps
  <2>. QED
    BY <1>4, <1>6, <2>1, <2>2
<1>16. CASE NopNode
  <2>1. PICK node \in Offsets :
          Returns(<<"nop_node", PathAt(node)>>, fdt_nop_node(b, node))
    BY <1>16 DEF NopNode, b
  <2>2. Kept(b, fdt_nop_node(b, node).fdt)
    BY <1>1, <1>2, NopNodeKeeps
  <2>. QED
    BY <1>4, <1>6, <2>1, <2>2
<1>17. CASE AddMemRsv
  <2>1. PICK address \in Addresses, size \in Sizes :
          Returns(<<"add_mem_rsv", address, size>>,
                  Checked(b, fdt_add_mem_rsv(b, address, size)))
    BY <1>17 DEF AddMemRsv, b
  <2>2. ~Misordered(b, RsvSize) => StaysSound(b, fdt_add_mem_rsv(b, address, size).fdt)
    BY <1>1, AddMemRsvKeeps
  <2>. QED
    BY <1>4, <1>5, <2>1, <2>2
<1>18. CASE DelMemRsv
  <2>1. PICK n \in 0 .. NumMemRsv(b) :
          Returns(<<"del_mem_rsv", n>>, Checked(b, fdt_del_mem_rsv(b, n)))
    BY <1>18 DEF DelMemRsv, b
  <2>2. n \in Nat
    BY <1>1, <2>1 DEF Sound, BlocksAreApart
  <2>3. ~Misordered(b, RsvSize) => StaysSound(b, fdt_del_mem_rsv(b, n).fdt)
    BY <1>1, <2>2, DelMemRsvKeeps
  <2>. QED
    BY <1>4, <1>5, <2>1, <2>3
<1>19. CASE Pack
  <2>1. Returns(<<"pack">>, Checked(b, fdt_pack(b)))
    BY <1>19 DEF Pack, b
  <2>2. ~Misordered(b, RsvSize) => Kept(b, fdt_pack(b).fdt)
    BY <1>1, PackKeeps
  <2>. QED
    BY <1>4, <1>5, <2>1, <2>2 DEF Kept
<1>20. CASE OpenInto
  <2>1. PICK r \in fdt_open_into(b, BUF_SIZE) : Returns(<<"open_into">>, r)
    BY <1>20 DEF OpenInto, b
  <2>2. Done(r)
    BY <1>1, OpenIntoKeeps DEF Done
  <2>. QED
    BY <1>4, <2>1, <2>2
<1>. QED
  BY <1>7, <1>8, <1>9, <1>10, <1>11, <1>12, <1>13, <1>14, <1>15, <1>16,
     <1>17, <1>18, <1>19, <1>20 DEF Next

(* libfdt/fdt_rw.c and fdt_wip.c: whatever the blob, the names, the values *)
(* and the room in the buffer, and whatever wrong offsets but one a caller *)
(* uses, no sequence of calls leaves a blob that is not sound.  The one is *)
(* -FDT_ERR_NOTFOUND, which fdt_add_subnode takes for "no such subnode".   *)
THEOREM BlobStaysSound ==
  ASSUME NOTFOUND \notin BadOffsets
  PROVE  Spec => []BlobIsSound
<1>1. Init => Viewed
  BY ViewedFromInit
<1>2. Viewed /\ [Next]_vars => Viewed'
  BY NextKeepsViewed
<1>3. Viewed => BlobIsSound
  BY DEF Viewed
<1>. QED
  BY <1>1, <1>2, <1>3, PTL DEF Spec

(* A blob with its tags in order is one that a reader finds whole.         *)
LEMMA ViewedIsWhole ==
  ASSUME Viewed
  PROVE  BlobIsWhole
<1>1. /\ Sound(fdt) /\ fdt.boot_cpuid_phys \in CpuIds
      /\ Ordered(fdt) /\ view = Contents(fdt)
  BY DEF Viewed, BlobIsSound
<1>2. Fits(fdt)
  BY <1>1, SoundIs
<1>3. Whole(fdt, view)
  BY <1>1, SoundIsWhole
<1>. QED
  BY <1>1, <1>2, <1>3 DEF BlobIsWhole

(* libfdt/fdt_rw.c and fdt_wip.c: whatever the blob, the names, the values *)
(* and the room in the buffer, and whatever wrong offsets but one a caller *)
(* uses, no sequence of calls leaves a blob that is not whole: the tags    *)
(* fill the structure block and match, a node's properties come before its *)
(* subnodes and none twice, and the map of reservations has an end.  The   *)
(* one is -FDT_ERR_NOTFOUND, which fdt_add_subnode takes for "no such      *)
(* subnode".                                                               *)
THEOREM BlobStaysWhole ==
  ASSUME NOTFOUND \notin BadOffsets
  PROVE  Spec => []BlobIsWhole
<1>1. Init => Viewed
  BY ViewedFromInit
<1>2. Viewed /\ [Next]_vars => Viewed'
  BY NextKeepsViewed
<1>3. Viewed => BlobIsWhole
  BY ViewedIsWhole
<1>. QED
  BY <1>1, <1>2, <1>3, PTL DEF Spec
-----------------------------------------------------------------------------
(* The offsets a caller has.                                               *)

(* What was called, and the path of the node.                              *)
LEMMA CallIs ==
  ASSUME NEW r, NEW f, NEW path
  PROVE  /\ Returns(<<f>>, r) => call'[1] = f
         /\ Returns(<<f, path>>, r) => call'[1] = f /\ call'[2] = path
         /\ \A a : Returns(<<f, path, a>>, r) => call'[1] = f /\ call'[2] = path
         /\ \A a, v : Returns(<<f, path, a, v>>, r) =>
                        call'[1] = f /\ call'[2] = path
<1>1. ASSUME NEW a, NEW v, NEW e
      PROVE  /\ Append(<<f>>, e)[1] = f
             /\ Append(<<f, path>>, e)[1] = f /\ Append(<<f, path>>, e)[2] = path
             /\ Append(<<f, path, a>>, e)[1] = f
             /\ Append(<<f, path, a>>, e)[2] = path
             /\ Append(<<f, path, a, v>>, e)[1] = f
             /\ Append(<<f, path, a, v>>, e)[2] = path
  OBVIOUS
<1>2. Returns(<<f>>, r) => call'[1] = f
  BY <1>1 DEF Returns
<1>3. Returns(<<f, path>>, r) => call'[1] = f /\ call'[2] = path
  BY <1>1 DEF Returns
<1>4. ASSUME NEW a, Returns(<<f, path, a>>, r)
      PROVE  call'[1] = f /\ call'[2] = path
  BY <1>1, <1>4 DEF Returns
<1>5. ASSUME NEW a, NEW v, Returns(<<f, path, a, v>>, r)
      PROVE  call'[1] = f /\ call'[2] = path
  BY <1>1, <1>5 DEF Returns
<1>. QED
  BY <1>2, <1>3, <1>4, <1>5

(* The nodes up to the one edited are read as before.                      *)
LEMMA StaysIsKept ==
  ASSUME Viewed, NEW node, NEW c, Sound(c), NodesStay(fdt, c, node)
  PROVE  \A o \in DOMAIN view.at : o <= node => At(Contents(c), o) = PathAt(o)
<1> DEFINE b == fdt
<1>1. Sound(b) /\ HasStruct(b) /\ view = Contents(b)
  BY SoundIs DEF Viewed, BlobIsSound
<1>2. ASSUME NEW o \in DOMAIN view.at, o <= node
      PROVE  At(Contents(c), o) = PathAt(o)
  <2>1. o \in Tags(b) /\ TagOf(b, o) = "BEGIN_NODE"
    BY <1>1, ContentsAre
  <2>2. IsNode(b, o, PathAt(o))
    BY <1>1, <2>1 DEF IsNode, PathAt
  <2>3. Unmoved(b, c, Following(b, o))
    BY <1>2, <2>1 DEF NodesStay
  <2> HIDE DEF b
  <2>4. IsNode(c, o, PathAt(o))
    BY <1>1, <2>2, <2>3, NodeIsStill
  <2>. QED
    BY <2>4 DEF IsNode
<1>. QED
  BY <1>2

(* A call on a node leaves those up to it.                                 *)
NodesAreKept ==
  call'[2] # Nowhere =>
    \E n \in DOMAIN view.at :
      /\ PathAt(n) = call'[2]
      /\ \A o \in DOMAIN view.at : o <= n => PathAt(o)' = PathAt(o)

LEMMA CallKeeps ==
  ASSUME Viewed, NEW node, call'[2] = PathAt(node),
         NEW s, NEW r, r = Checked(fdt, s), view' = Contents(r.fdt),
         ~Misordered(fdt, RsvSize) => Kept(fdt, s.fdt),
         node \in Tags(fdt) /\ TagOf(fdt, node) = "BEGIN_NODE"
           /\ ~Misordered(fdt, RsvSize) => NodesStay(fdt, s.fdt, node)
  PROVE  NodesAreKept
<1> DEFINE b == fdt
<1>1. Sound(b) /\ HasStruct(b) /\ view = Contents(b)
  BY SoundIs DEF Viewed, BlobIsSound
<1>2. SUFFICES ASSUME node \in DOMAIN view.at
               PROVE  \A o \in DOMAIN view.at : o <= node => PathAt(o)' = PathAt(o)
  BY DEF NodesAreKept, PathAt, At
<1>3. node \in Tags(b) /\ TagOf(b, node) = "BEGIN_NODE"
  BY <1>1, <1>2, ContentsAre
<1>4. CASE r.fdt = b
  BY <1>1, <1>4 DEF PathAt
<1>5. CASE ~Misordered(b, RsvSize) /\ r = s
  <2>1. Sound(r.fdt) /\ NodesStay(b, r.fdt, node)
    BY <1>3, <1>5 DEF Kept, StaysSound
  <2>2. \A o \in DOMAIN view.at : o <= node => At(Contents(r.fdt), o) = PathAt(o)
    BY <2>1, StaysIsKept
  <2>3. \A o : PathAt(o)' = At(Contents(r.fdt), o)
    BY DEF PathAt
  <2>. QED
    BY <2>2, <2>3
<1>6. r.fdt = b \/ (~Misordered(b, RsvSize) /\ r = s)
  BY DEF Checked, Result
<1>. QED
  BY <1>4, <1>5, <1>6

(* The four functions.                                                     *)
LEMMA EditsKeepNodes ==
  ASSUME NOTFOUND \notin BadOffsets, Viewed,
         SetProp \/ AppendProp \/ DelProp \/ AddSubnode
  PROVE  NodesAreKept
<1> DEFINE b == fdt
<1>1. Sound(b)
  BY DEF Viewed, BlobIsSound
<1>2. \A o \in Offsets : o \in Int /\ o # NOTFOUND
  BY OffsetsAre DEF Offset
<1>3. \A val \in Values : Len(val) \in Nat
  BY CallerAssumption
<1>4. CASE SetProp
  <2>1. PICK node \in Offsets, name \in PropNames, val \in Values :
          Returns(<<"setprop", PathAt(node), name, val>>,
                  Checked(b, fdt_setprop(b, node, name, val)))
    BY <1>4 DEF SetProp
  <2> DEFINE s == fdt_setprop(b, node, name, val)
             r == Checked(b, s)
  <2>2. call'[2] = PathAt(node) /\ view' = Contents(r.fdt)
    BY <2>1, CallIs DEF Returns
  <2>3. ~Misordered(b, RsvSize) => Kept(b, s.fdt) /\ NodesStay(b, s.fdt, node)
    BY <1>1, <1>2, <1>3, SetPropKeeps, SetPropStays
  <2> HIDE DEF s
  <2>. QED
    BY <2>2, <2>3, CallKeeps
<1>5. CASE AppendProp
  <2>1. PICK node \in Offsets, name \in PropNames, val \in Values :
          Returns(<<"appendprop", PathAt(node), name, val>>,
                  Checked(b, fdt_appendprop(b, node, name, val)))
    BY <1>5 DEF AppendProp
  <2> DEFINE s == fdt_appendprop(b, node, name, val)
             r == Checked(b, s)
  <2>2. call'[2] = PathAt(node) /\ view' = Contents(r.fdt)
    BY <2>1, CallIs DEF Returns
  <2>3. /\ ~Misordered(b, RsvSize) => Kept(b, s.fdt)
        /\ node \in Tags(b) /\ TagOf(b, node) = "BEGIN_NODE"
             /\ ~Misordered(b, RsvSize) => NodesStay(b, s.fdt, node)
    BY <1>1, <1>2, <1>3, AppendPropKeeps, AppendPropStays
  <2> HIDE DEF s
  <2>. QED
    BY <2>2, <2>3, CallKeeps
<1>6. CASE DelProp
  <2>1. PICK node \in Offsets, name \in PropNames :
          Returns(<<"delprop", PathAt(node), name>>,
                  Checked(b, fdt_delprop(b, node, name)))
    BY <1>6 DEF DelProp
  <2> DEFINE s == fdt_delprop(b, node, name)
             r == Checked(b, s)
  <2>2. call'[2] = PathAt(node) /\ view' = Contents(r.fdt)
    BY <2>1, CallIs DEF Returns
  <2>3. /\ ~Misordered(b, RsvSize) => Kept(b, s.fdt)
        /\ node \in Tags(b) /\ TagOf(b, node) = "BEGIN_NODE"
             /\ ~Misordered(b, RsvSize) => NodesStay(b, s.fdt, node)
    BY <1>1, <1>2, DelPropKeeps, DelPropStays
  <2> HIDE DEF s
  <2>. QED
    BY <2>2, <2>3, CallKeeps
<1>7. CASE AddSubnode
  <2>1. PICK node \in Offsets, name \in NodeNames :
          LET r == Checked(b, fdt_add_subnode(b, node, name))
          IN  Returns(<<"add_subnode", PathAt(node), name,
                        At(Contents(r.fdt), r.ret)>>,
                      [r EXCEPT !.ret = IF @ >= 0 THEN 0 ELSE @])
    BY <1>7 DEF AddSubnode
  <2> DEFINE s == fdt_add_subnode(b, node, name)
             r == Checked(b, s)
  <2>2. call'[2] = PathAt(node)
    BY <2>1, CallIs
  <2>3. view' = Contents(r.fdt)
    <3>1. "fdt" \in DOMAIN r
      BY DEF Checked, fdt_add_subnode, SpliceStruct, Splice, Result
    <3>2. view' = Contents([r EXCEPT !.ret = IF @ >= 0 THEN 0 ELSE @].fdt)
      BY <2>1 DEF Returns
    <3> HIDE DEF r
    <3>. QED
      BY <3>1, <3>2
  <2>4. /\ ~Misordered(b, RsvSize) => Kept(b, s.fdt)
        /\ node \in Tags(b) /\ TagOf(b, node) = "BEGIN_NODE"
             /\ ~Misordered(b, RsvSize) => NodesStay(b, s.fdt, node)
    BY <1>1, <1>2, AddSubnodeKeeps, AddSubnodeStays
  <2> HIDE DEF s
  <2>. QED
    BY <2>2, <2>3, <2>4, CallKeeps
<1>. QED
  BY <1>4, <1>5, <1>6, <1>7

(* The others have another name.                                           *)
LEMMA OthersAre ==
  ASSUME Next, ~(SetProp \/ AppendProp \/ DelProp \/ AddSubnode)
  PROVE  call'[1] \notin {"setprop", "appendprop", "delprop", "add_subnode"}
<1>1. \/ SetName \/ DelNode \/ SetPropInplace \/ NopProperty \/ NopNode
      \/ AddMemRsv \/ DelMemRsv \/ Pack \/ OpenInto
  BY DEF Next
<1>2. SetName => call'[1] = "set_name"
  BY CallIs DEF SetName
<1>3. DelNode => call'[1] = "del_node"
  BY CallIs DEF DelNode
<1>4. SetPropInplace => call'[1] = "setprop_inplace"
  BY CallIs DEF SetPropInplace
<1>5. NopProperty => call'[1] = "nop_property"
  BY CallIs DEF NopProperty
<1>6. NopNode => call'[1] = "nop_node"
  BY CallIs DEF NopNode
<1>7. AddMemRsv => call'[1] = "add_mem_rsv"
  BY CallIs DEF AddMemRsv
<1>8. DelMemRsv => call'[1] = "del_mem_rsv"
  BY CallIs DEF DelMemRsv
<1>9. Pack => call'[1] = "pack"
  BY CallIs DEF Pack
<1>10. OpenInto => call'[1] = "open_into"
  BY CallIs DEF OpenInto
<1>. QED
  BY <1>1, <1>2, <1>3, <1>4, <1>5, <1>6, <1>7, <1>8, <1>9, <1>10

(* libfdt/fdt_rw.c: a property or a node that is put into a node, or a     *)
(* property that is taken out, leaves the node and all in front of it      *)
(* where they were, whatever the blob and whether the call fails or not: a *)
(* caller goes on with the offsets it has of them.                         *)
THEOREM OffsetsStayGood ==
  ASSUME NOTFOUND \notin BadOffsets
  PROVE  Spec => OffsetsKept
<1>1. Init => Viewed
  BY ViewedFromInit
<1>2. Viewed /\ [Next]_vars => Viewed'
  BY NextKeepsViewed
<1>3. Viewed /\ [Next]_vars =>
        [call'[1] \in {"setprop", "appendprop", "delprop", "add_subnode"}
           /\ call'[2] # Nowhere =>
           \E node \in DOMAIN view.at :
             /\ PathAt(node) = call'[2]
             /\ \A o \in DOMAIN view.at :
                  o <= node => PathAt(o)' = PathAt(o)]_vars
  BY EditsKeepNodes, OthersAre DEF NodesAreKept
<1>. QED
  BY <1>1, <1>2, <1>3, PTL DEF Spec, OffsetsKept
-----------------------------------------------------------------------------
(* Calls that fail.                                                        *)

(* A string that is in the block whole is found.                           *)
LEMMA StringIsFound ==
  ASSUME NEW b, b.size_dt_strings \in Nat, NEW s \in PropNames,
         NEW o \in Nat, o + Len(Tails[s]) <= b.size_dt_strings,
         b.mem[b.off_dt_strings + o] = <<"string", s>>
  PROVE  FindString(b, s) >= 0
<1> DEFINE size == b.size_dt_strings
           n == Len(Tails[s])
           places == {i \in 0 .. size - n :
                        b.mem[b.off_dt_strings + i] = <<"string", s>>}
           least == CHOOSE i \in places : \A p \in places : i <= p
<1>1. FindString(b, s) = IF places = {} THEN NOTFOUND ELSE least
  BY DEF FindString
<1>2. n \in Nat /\ size \in Nat
  BY NamesAssumption
<1>3. places \subseteq Nat
  <2> HIDE DEF n
  <2>. QED
    BY <1>2
<1>4. o \in places
  <2>1. o \in 0 .. size - n
    <3> HIDE DEF n, size
    <3>1. o + n <= size
      BY DEF n, size
    <3>. QED
      BY <1>2, <3>1
  <2>. QED
    BY <2>1
<1> HIDE DEF places
<1>5. \E i \in places : \A p \in places : i <= p
  BY <1>3, <1>4, LeastNumber
<1>6. least \in places
  BY <1>5
<1> HIDE DEF least
<1>. QED
  BY <1>1, <1>3, <1>4, <1>6

(* _fdt_find_add_string adds one that is found from then on, or nothing.   *)
LEMMA AddedIsFound ==
  ASSUME NEW b, Sound(b), ~Misordered(b, RsvSize), NEW s \in PropNames,
         NEW r, r = FindAddString(b, s)
  PROVE  /\ r.fdt = b \/ FindString(r.fdt, s) >= 0
         /\ r.ret < 0 \/ FindString(b, s) >= 0 => r.fdt = b
<1> DEFINE found == FindString(b, s)
           n == Len(Tails[s])
           sp == SpliceString(b, n)
           cells == StringCells(s)
           end == DataSize(b)
           c == Poke(sp.fdt, end, cells)
           size == b.size_dt_strings
<1>1. size \in Nat /\ b.off_dt_strings \in Nat /\ end = b.off_dt_strings + size
  BY NumbersAre DEF DataSize
<1>2. n \in Nat /\ n > 0 /\ cells[1] = <<"string", s>> /\ Len(cells) = n
  BY NamesAssumption DEF StringCells
<1>3. r = IF found >= 0 THEN Result(b, found)
          ELSE IF sp.ret # 0 THEN sp ELSE Result(c, size)
  BY DEF FindAddString
<1>4. sp.ret # 0 => sp.fdt = b
  BY DEF SpliceString, Splice, Result
<1>5. CASE found >= 0
  BY <1>3, <1>5 DEF Result
<1>6. CASE ~(found >= 0) /\ sp.ret # 0
  BY <1>3, <1>4, <1>6
<1>7. CASE ~(found >= 0) /\ sp.ret = 0
  <2>1. r = Result(c, size)
    BY <1>3, <1>7
  <2>2. MoreStrings(b, c) /\ c.size_dt_strings = size + n
    BY <1>7, StringAdded
  <2>3. c.mem[end] = <<"string", s>>
    <3>1. "mem" \in DOMAIN sp.fdt
      BY <1>7 DEF SpliceString, Splice, Result, Sound, Fields
    <3> HIDE DEF sp, cells, n
    <3>2. end \in Span(end, Len(cells))
      BY <1>1, <1>2 DEF Span
    <3>3. end - end + 1 = 1
      BY <1>1
    <3>. QED
      BY <1>2, <3>1, <3>2, <3>3 DEF Poke
  <2>4. c.off_dt_strings = b.off_dt_strings
    BY <2>2 DEF MoreStrings
  <2> HIDE DEF c, n, end
  <2>5. FindString(c, s) >= 0
    <3>1. c.mem[c.off_dt_strings + size] = <<"string", s>>
      BY <1>1, <2>3, <2>4
    <3>2. size + Len(Tails[s]) <= c.size_dt_strings /\ c.size_dt_strings \in Nat
      BY <1>1, <1>2, <2>2 DEF n
    <3> HIDE DEF size
    <3>. QED
      BY <1>1, <3>1, <3>2, StringIsFound
  <2>6. r.fdt = c /\ ~(r.ret < 0)
    BY <1>1, <2>1 DEF Result
  <2>. QED
    BY <1>7, <2>5, <2>6
<1>. QED
  BY <1>5, <1>6, <1>7

(* A splice that does not return 0 has moved nothing.                      *)
LEMMA SpliceFails ==
  ASSUME NEW b, NEW o, NEW old, NEW new
  PROVE  /\ SpliceStruct(b, o, old, new).ret < 0
              => SpliceStruct(b, o, old, new).fdt = b
         /\ SpliceStruct(b, o, old, new).ret # 0
              => SpliceStruct(b, o, old, new).fdt = b
         /\ SpliceMemRsv(b, o, old, new).ret < 0
              => SpliceMemRsv(b, o, old, new).fdt = b
         /\ SpliceMemRsv(b, o, old, new).ret # 0
              => SpliceMemRsv(b, o, old, new).fdt = b
BY DEF SpliceStruct, SpliceMemRsv, Splice, Result

(* A new length and value that do not fit.                                 *)
LEMMA ResizeFails ==
  ASSUME NEW b, NEW prop, NEW at, NEW val, Resize(b, prop, at, val).ret < 0
  PROVE  Resize(b, prop, at, val).fdt = b
<1> DEFINE r == SpliceStruct(b, prop + PropHeader, TagAlign(PropLen(b, prop)),
                             TagAlign(at + Len(val)))
<1>1. r.ret # 0 => r.fdt = b
  BY SpliceFails
<1>2. \/ r.ret # 0 /\ Resize(b, prop, at, val) = r
      \/ Resize(b, prop, at, val).ret = 0
  BY DEF Resize, Result
<1> HIDE DEF r
<1>. QED
  BY <1>1, <1>2

(* _fdt_add_property may leave the name.                                   *)
LEMMA AddPropertyFails ==
  ASSUME NEW b, Sound(b), ~Misordered(b, RsvSize), NEW node,
         NEW name \in PropNames, NEW val,
         NEW w, w = AddProperty(b, node, name, val), w.ret < 0
  PROVE  /\ w.fdt = b \/ FindString(w.fdt, name) >= 0
         /\ FindString(b, name) >= 0 => w.fdt = b
<1> DEFINE next == CheckNodeOffset(b, node)
           s == FindAddString(b, name)
           r == SpliceStruct(s.fdt, next, 0, PropHeader + TagAlign(Len(val)))
<1>1. \/ w.fdt = b
      \/ w = s /\ s.ret < 0
      \/ w = r /\ r.ret # 0 /\ ~(s.ret < 0)
      \/ w.ret = 0
  BY DEF AddProperty, Result
<1>2. r.ret # 0 => r.fdt = s.fdt
  BY SpliceFails
<1>3. s.fdt = b \/ FindString(s.fdt, name) >= 0
  BY AddedIsFound
<1>4. s.ret < 0 \/ FindString(b, name) >= 0 => s.fdt = b
  BY AddedIsFound
<1> HIDE DEF s, r
<1>. QED
  BY <1>1, <1>2, <1>3, <1>4

(* fdt_setprop and fdt_appendprop may leave the name, the others nothing.  *)
NameIsLeft(b, w, name) ==
  w.ret < 0 =>
    /\ w.fdt = b \/ FindString(w.fdt, name) >= 0
    /\ FindString(b, name) >= 0 => w.fdt = b

NothingIsLeft(b, w) == w.ret < 0 => w.fdt = b

LEMMA SetPropFails ==
  ASSUME NEW b, Sound(b), ~Misordered(b, RsvSize), NEW node,
         NEW name \in PropNames, NEW val
  PROVE  NameIsLeft(b, fdt_setprop(b, node, name, val), name)
<1> DEFINE prop == GetProperty(b, node, name)
           w == fdt_setprop(b, node, name, val)
           new == AddProperty(b, node, name, val)
           old == Resize(b, prop, 0, val)
<1>1. w = old \/ w = new \/ w = Result(b, prop)
  BY DEF fdt_setprop
<1>2. old.ret < 0 => old.fdt = b
  <2> DEFINE zero == 0
  <2>1. old = Resize(b, prop, zero, val)
    OBVIOUS
  <2> HIDE DEF zero
  <2>. QED
    BY <2>1, ResizeFails
<1>3. new.ret < 0 => /\ new.fdt = b \/ FindString(new.fdt, name) >= 0
                     /\ FindString(b, name) >= 0 => new.fdt = b
  BY AddPropertyFails
<1>4. Result(b, prop).fdt = b
  BY DEF Result
<1> HIDE DEF w, new, old, prop
<1>. QED
  BY <1>1, <1>2, <1>3, <1>4 DEF NameIsLeft, w

(* fdt_appendprop does.                                                    *)
LEMMA AppendPropFails ==
  ASSUME NEW b, Sound(b), ~Misordered(b, RsvSize), NEW node,
         NEW name \in PropNames, NEW val
  PROVE  NameIsLeft(b, fdt_appendprop(b, node, name, val), name)
<1> DEFINE prop == GetProperty(b, node, name)
           w == fdt_appendprop(b, node, name, val)
           new == AddProperty(b, node, name, val)
           old == Resize(b, prop, PropLen(b, prop), val)
<1>1. w = old \/ w = new
  BY DEF fdt_appendprop
<1>2. old.ret < 0 => old.fdt = b
  BY ResizeFails
<1>3. new.ret < 0 => /\ new.fdt = b \/ FindString(new.fdt, name) >= 0
                     /\ FindString(b, name) >= 0 => new.fdt = b
  BY AddPropertyFails
<1> HIDE DEF w, new, old, prop
<1>. QED
  BY <1>1, <1>2, <1>3 DEF NameIsLeft, w

(* The others on a node.                                                   *)
LEMMA EditsFail ==
  ASSUME NEW b, NEW node, NEW name
  PROVE  /\ NothingIsLeft(b, fdt_delprop(b, node, name))
         /\ NothingIsLeft(b, fdt_set_name(b, node, name))
         /\ NothingIsLeft(b, fdt_del_node(b, node))
         /\ \A val : NothingIsLeft(b, fdt_setprop_inplace(b, node, name, val))
         /\ NothingIsLeft(b, fdt_nop_property(b, node, name))
         /\ NothingIsLeft(b, fdt_nop_node(b, node))
<1>1. NothingIsLeft(b, fdt_delprop(b, node, name))
  BY SpliceFails DEF NothingIsLeft, fdt_delprop, Result
<1>2. NothingIsLeft(b, fdt_set_name(b, node, name))
  <2> DEFINE r == SpliceStruct(b, node + FDT_TAGSIZE,
                               Len(NameCells(NodeName(b, node))),
                               Len(NameCells(name)))
             w == fdt_set_name(b, node, name)
  <2>1. w.fdt = b \/ (w = r /\ r.ret # 0) \/ w.ret = 0
    BY DEF fdt_set_name, Result
  <2>2. r.ret # 0 => r.fdt = b
    BY SpliceFails
  <2> HIDE DEF r, w
  <2>3. w.ret < 0 => w.fdt = b
    BY <2>1, <2>2
  <2>. QED
    BY <2>3 DEF NothingIsLeft, w
<1>3. NothingIsLeft(b, fdt_del_node(b, node))
  BY SpliceFails DEF NothingIsLeft, fdt_del_node, Result
<1>4. ASSUME NEW val
      PROVE  NothingIsLeft(b, fdt_setprop_inplace(b, node, name, val))
  BY DEF NothingIsLeft, fdt_setprop_inplace, Result
<1>5. NothingIsLeft(b, fdt_nop_property(b, node, name))
  BY DEF NothingIsLeft, fdt_nop_property, Result
<1>6. NothingIsLeft(b, fdt_nop_node(b, node))
  BY DEF NothingIsLeft, fdt_nop_node, Result
<1>. QED
  BY <1>1, <1>2, <1>3, <1>4, <1>5, <1>6

(* A node that was added has an offset that is no error.                   *)
LEMMA AddSubnodeFails ==
  ASSUME NEW b, Sound(b), NEW parent \in Int, parent # NOTFOUND, NEW name
  PROVE  NothingIsLeft(b, fdt_add_subnode(b, parent, name))
<1> DEFINE found == SubnodeOffset(b, parent, name)
           place == Place(b, parent)
           r == SpliceStruct(b, place, 0, Len(Tag("BEGIN_NODE") \o
                               NameCells(name) \o Tag("END_NODE")))
           w == fdt_add_subnode(b, parent, name)
<1>1. \/ w.fdt = b
      \/ w = r /\ r.ret # 0
      \/ found = NOTFOUND /\ w.ret = place
  BY DEF fdt_add_subnode, Result
<1>2. r.ret # 0 => r.fdt = b
  BY SpliceFails
<1>3. found = NOTFOUND => ~(place < 0)
  <2>1. HasStruct(b)
    BY SoundIs
  <2>2. ASSUME found = NOTFOUND  PROVE place \in Nat
    <3>1. parent \in Tags(b) /\ TagOf(b, parent) = "BEGIN_NODE"
      BY <2>1, <2>2, SubnodeOffsetIs
    <3>2. place \in Tags(b)
      BY <2>1, <3>1, PlaceIs
    <3>. QED
      BY <2>1, <3>2, TagAt
  <2> HIDE DEF place, found
  <2>. QED
    BY <2>2
<1> HIDE DEF r, w, place, found
<1>4. w.ret < 0 => w.fdt = b
  BY <1>1, <1>2, <1>3
<1>. QED
  BY <1>4 DEF NothingIsLeft, w

(* Those on the whole blob.                                                *)
LEMMA OthersFail ==
  ASSUME NEW b
  PROVE  /\ \A address, size :
              NothingIsLeft(b, fdt_add_mem_rsv(b, address, size))
         /\ \A n : NothingIsLeft(b, fdt_del_mem_rsv(b, n))
         /\ NothingIsLeft(b, fdt_pack(b))
         /\ \A bufsize : \A r \in fdt_open_into(b, bufsize) : NothingIsLeft(b, r)
<1>1. ASSUME NEW address, NEW size
      PROVE  NothingIsLeft(b, fdt_add_mem_rsv(b, address, size))
  <2> DEFINE zero == 0
             one == 1
             r == SpliceMemRsv(b, NumMemRsv(b), zero, one)
             w == fdt_add_mem_rsv(b, address, size)
  <2>1. (w = r /\ r.ret # 0) \/ w.ret = 0
    BY DEF fdt_add_mem_rsv, Result
  <2> HIDE DEF zero, one
  <2>2. r.ret # 0 => r.fdt = b
    BY SpliceFails
  <2> HIDE DEF r, w
  <2>3. w.ret < 0 => w.fdt = b
    BY <2>1, <2>2
  <2>. QED
    BY <2>3 DEF NothingIsLeft, w
<1>2. ASSUME NEW n  PROVE NothingIsLeft(b, fdt_del_mem_rsv(b, n))
  BY SpliceFails DEF NothingIsLeft, fdt_del_mem_rsv, Result
<1>3. NothingIsLeft(b, fdt_pack(b))
  BY DEF NothingIsLeft, fdt_pack, Result
<1>4. ASSUME NEW bufsize, NEW r \in fdt_open_into(b, bufsize)
      PROVE  NothingIsLeft(b, r)
  <2>1. (\E c : r = Result(c, 0)) \/ r = Result(b, NOSPACE)
    BY <1>4, Zenon DEF fdt_open_into
  <2>. QED
    BY <2>1 DEF NothingIsLeft, Result
<1>. QED
  BY <1>1, <1>2, <1>3, <1>4

(* FDT_RW_CHECK_HEADER touches nothing.                                    *)
LEMMA CheckedFails ==
  ASSUME NEW b, NEW w
  PROVE  /\ (~Misordered(b, RsvSize) => NothingIsLeft(b, w)) =>
              NothingIsLeft(b, Checked(b, w))
         /\ \A name : (~Misordered(b, RsvSize) => NameIsLeft(b, w, name)) =>
              NameIsLeft(b, Checked(b, w), name)
BY DEF NothingIsLeft, NameIsLeft, Checked, Result

(* A call that has failed: made again, it does nothing.                    *)
Again(op(_, _, _, _)) ==
  \/ FindString(fdt, call[3]) >= 0
  \/ Checked(fdt, op(fdt, given, call[3], call[4])).fdt = fdt

Retried ==
  call[Len(call)] < 0 =>
    /\ call[1] = "setprop" => Again(fdt_setprop)
    /\ call[1] = "appendprop" => Again(fdt_appendprop)

CallIsFree ==
  call' = call /\ given' = given /\ call[Len(call)] < 0 => fdt' = fdt

(* The arguments and what was returned.                                    *)
LEMMA CallEnds ==
  ASSUME NEW r, NEW f, NEW path
  PROVE  /\ Returns(<<f>>, r) => call'[Len(call')] = r.ret
         /\ Returns(<<f, path>>, r) => call'[Len(call')] = r.ret
         /\ \A a : Returns(<<f, path, a>>, r) => call'[Len(call')] = r.ret
         /\ \A a, v : Returns(<<f, path, a, v>>, r) =>
              /\ call'[Len(call')] = r.ret
              /\ call'[1] = f /\ call'[3] = a /\ call'[4] = v
<1>1. ASSUME NEW a, NEW v, NEW e
      PROVE  /\ Append(<<f>>, e)[Len(Append(<<f>>, e))] = e
             /\ Append(<<f, path>>, e)[Len(Append(<<f, path>>, e))] = e
             /\ Append(<<f, path, a>>, e)[Len(Append(<<f, path, a>>, e))] = e
             /\ Append(<<f, path, a, v>>, e)[Len(Append(<<f, path, a, v>>, e))] = e
             /\ Append(<<f, path, a, v>>, e)[1] = f
             /\ Append(<<f, path, a, v>>, e)[3] = a
             /\ Append(<<f, path, a, v>>, e)[4] = v
  OBVIOUS
<1>2. Returns(<<f>>, r) => call'[Len(call')] = r.ret
  BY <1>1 DEF Returns
<1>3. Returns(<<f, path>>, r) => call'[Len(call')] = r.ret
  BY <1>1 DEF Returns
<1>4. ASSUME NEW a, Returns(<<f, path, a>>, r)
      PROVE  call'[Len(call')] = r.ret
  BY <1>1, <1>4 DEF Returns
<1>5. ASSUME NEW a, NEW v, Returns(<<f, path, a, v>>, r)
      PROVE  /\ call'[Len(call')] = r.ret
             /\ call'[1] = f /\ call'[3] = a /\ call'[4] = v
  BY <1>1, <1>5 DEF Returns
<1>. QED
  BY <1>2, <1>3, <1>4, <1>5

(* A call other than the two that fails has done nothing.                  *)
LeavesAll ==
  /\ call'[1] \notin {"setprop", "appendprop"}
  /\ call'[Len(call')] < 0 => fdt' = fdt

LEMMA FailsFree ==
  ASSUME NEW r, NothingIsLeft(fdt, r), fdt' = r.fdt, call'[Len(call')] = r.ret,
         call'[1] \notin {"setprop", "appendprop"}
  PROVE  LeavesAll
BY DEF LeavesAll, NothingIsLeft

(* The second time the name is there, or the blob is what it was.         *)
LEMMA SetPropIsFree ==
  ASSUME Viewed, Retried, SetProp
  PROVE  Retried' /\ CallIsFree
<1>1. PICK node \in Offsets, name \in PropNames, val \in Values :
        /\ Returns(<<"setprop", PathAt(node), name, val>>,
                   Checked(fdt, fdt_setprop(fdt, node, name, val)))
        /\ given' = node
  BY DEF SetProp
<1> DEFINE Op(b) == Checked(b, fdt_setprop(b, node, name, val))
           w == Op(fdt)
<1>2. /\ fdt' = w.fdt /\ call'[Len(call')] = w.ret /\ call'[1] = "setprop"
      /\ call'[3] = name /\ call'[4] = val /\ given' = node
  BY <1>1, CallEnds DEF Returns
<1>3. NameIsLeft(fdt, w, name)
  BY CheckedFails, SetPropFails DEF Viewed, BlobIsSound
<1>4. Retried'
  <2>1. SUFFICES ASSUME w.ret < 0
        PROVE  FindString(fdt', name) >= 0 \/ Op(fdt').fdt = fdt'
    BY <1>2 DEF Retried, Again
  <2>2. w.fdt = fdt \/ FindString(w.fdt, name) >= 0
    BY <1>3, <2>1 DEF NameIsLeft
  <2> HIDE DEF Op
  <2>. QED
    BY <1>2, <2>2
<1>5. CallIsFree
  <2>1. SUFFICES ASSUME call' = call, given' = given, call[Len(call)] < 0
        PROVE  fdt' = fdt
    BY DEF CallIsFree
  <2>2. FindString(fdt, name) >= 0 \/ w.fdt = fdt
    BY <1>2, <2>1 DEF Retried, Again
  <2>3. w.ret < 0
    BY <1>2, <2>1
  <2> HIDE DEF w
  <2>. QED
    BY <1>2, <1>3, <2>2, <2>3 DEF NameIsLeft
<1>. QED
  BY <1>4, <1>5

(* So with fdt_appendprop.                                                 *)
LEMMA AppendPropIsFree ==
  ASSUME Viewed, Retried, AppendProp
  PROVE  Retried' /\ CallIsFree
<1>1. PICK node \in Offsets, name \in PropNames, val \in Values :
        /\ Returns(<<"appendprop", PathAt(node), name, val>>,
                   Checked(fdt, fdt_appendprop(fdt, node, name, val)))
        /\ given' = node
  BY DEF AppendProp
<1> DEFINE Op(b) == Checked(b, fdt_appendprop(b, node, name, val))
           w == Op(fdt)
<1>2. /\ fdt' = w.fdt /\ call'[Len(call')] = w.ret /\ call'[1] = "appendprop"
      /\ call'[3] = name /\ call'[4] = val /\ given' = node
  BY <1>1, CallEnds DEF Returns
<1>3. NameIsLeft(fdt, w, name)
  BY CheckedFails, AppendPropFails DEF Viewed, BlobIsSound
<1>4. Retried'
  <2>1. SUFFICES ASSUME w.ret < 0
        PROVE  FindString(fdt', name) >= 0 \/ Op(fdt').fdt = fdt'
    BY <1>2 DEF Retried, Again
  <2>2. w.fdt = fdt \/ FindString(w.fdt, name) >= 0
    BY <1>3, <2>1 DEF NameIsLeft
  <2> HIDE DEF Op
  <2>. QED
    BY <1>2, <2>2
<1>5. CallIsFree
  <2>1. SUFFICES ASSUME call' = call, given' = given, call[Len(call)] < 0
        PROVE  fdt' = fdt
    BY DEF CallIsFree
  <2>2. FindString(fdt, name) >= 0 \/ w.fdt = fdt
    BY <1>2, <2>1 DEF Retried, Again
  <2>3. w.ret < 0
    BY <1>2, <2>1
  <2> HIDE DEF w
  <2>. QED
    BY <1>2, <1>3, <2>2, <2>3 DEF NameIsLeft
<1>. QED
  BY <1>4, <1>5

(* The caller is told the path, not the offset.                            *)
LEMMA AddSubnodeIsFree ==
  ASSUME NOTFOUND \notin BadOffsets, Viewed, AddSubnode
  PROVE  LeavesAll
<1>1. PICK node \in Offsets, name \in NodeNames :
        LET r == Checked(fdt, fdt_add_subnode(fdt, node, name))
        IN  Returns(<<"add_subnode", PathAt(node), name,
                      At(Contents(r.fdt), r.ret)>>,
                    [r EXCEPT !.ret = IF @ >= 0 THEN 0 ELSE @])
  BY DEF AddSubnode
<1> DEFINE r == Checked(fdt, fdt_add_subnode(fdt, node, name))
           q == [r EXCEPT !.ret = IF @ >= 0 THEN 0 ELSE @]
<1>2. NothingIsLeft(fdt, r)
  BY OffsetsAre, AddSubnodeFails, CheckedFails
     DEF Offset, Viewed, BlobIsSound
<1>3. NothingIsLeft(fdt, q)
  <2>1. DOMAIN r = {"fdt", "ret"}
    BY DEF Checked, fdt_add_subnode, SpliceStruct, Splice, Result
  <2> HIDE DEF r
  <2>2. q.fdt = r.fdt /\ (q.ret = r.ret \/ q.ret = 0)
    BY <2>1
  <2> HIDE DEF q
  <2>3. q.ret < 0 => q.fdt = fdt
    BY <1>2, <2>2 DEF NothingIsLeft
  <2>. QED
    BY <2>3 DEF NothingIsLeft
<1>4. fdt' = q.fdt /\ call'[Len(call')] = q.ret /\ call'[1] = "add_subnode"
  BY <1>1, CallIs, CallEnds DEF Returns
<1> HIDE DEF q
<1>. QED
  BY <1>3, <1>4, FailsFree

(* Every call but the two.                                                 *)
LEMMA OthersLeaveAll ==
  ASSUME NOTFOUND \notin BadOffsets, Viewed, Next, ~SetProp, ~AppendProp
  PROVE  LeavesAll
<1>3. CASE AddSubnode
  BY <1>3, AddSubnodeIsFree
<1>4. CASE DelProp
  <2>1. PICK node \in Offsets, name \in PropNames :
          Returns(<<"delprop", PathAt(node), name>>,
                  Checked(fdt, fdt_delprop(fdt, node, name)))
    BY <1>4 DEF DelProp
  <2> DEFINE r == Checked(fdt, fdt_delprop(fdt, node, name))
  <2>2. NothingIsLeft(fdt, r)
    BY EditsFail, CheckedFails
  <2>3. fdt' = r.fdt /\ call'[Len(call')] = r.ret /\ call'[1] = "delprop"
    BY <2>1, CallIs, CallEnds DEF Returns
  <2> HIDE DEF r
  <2>. QED
    BY <2>2, <2>3, FailsFree
<1>5. CASE SetName
  <2>1. PICK node \in Offsets, name \in NodeNames :
          Returns(<<"set_name", PathAt(node), name>>,
                  Checked(fdt, fdt_set_name(fdt, node, name)))
    BY <1>5 DEF SetName
  <2> DEFINE r == Checked(fdt, fdt_set_name(fdt, node, name))
  <2>2. NothingIsLeft(fdt, r)
    BY EditsFail, CheckedFails
  <2>3. fdt' = r.fdt /\ call'[Len(call')] = r.ret /\ call'[1] = "set_name"
    BY <2>1, CallIs, CallEnds DEF Returns
  <2> HIDE DEF r
  <2>. QED
    BY <2>2, <2>3, FailsFree
<1>6. CASE DelNode
  <2>1. PICK node \in Offsets :
          Returns(<<"del_node", PathAt(node)>>,
                  Checked(fdt, fdt_del_node(fdt, node)))
    BY <1>6 DEF DelNode
  <2> DEFINE r == Checked(fdt, fdt_del_node(fdt, node))
  <2>2. NothingIsLeft(fdt, r)
    BY EditsFail, CheckedFails
  <2>3. fdt' = r.fdt /\ call'[Len(call')] = r.ret /\ call'[1] = "del_node"
    BY <2>1, CallIs, CallEnds DEF Returns
  <2> HIDE DEF r
  <2>. QED
    BY <2>2, <2>3, FailsFree
<1>7. CASE SetPropInplace
  <2>1. PICK node \in Offsets, name \in PropNames, val \in Values :
          Returns(<<"setprop_inplace", PathAt(node), name, val>>,
                  fdt_setprop_inplace(fdt, node, name, val))
    BY <1>7 DEF SetPropInplace
  <2> DEFINE r == fdt_setprop_inplace(fdt, node, name, val)
  <2>2. NothingIsLeft(fdt, r)
    BY EditsFail
  <2>3. fdt' = r.fdt /\ call'[Len(call')] = r.ret /\ call'[1] = "setprop_inplace"
    BY <2>1, CallIs, CallEnds DEF Returns
  <2> HIDE DEF r
  <2>. QED
    BY <2>2, <2>3, FailsFree
<1>8. CASE NopProperty
  <2>1. PICK node \in Offsets, name \in PropNames :
          Returns(<<"nop_property", PathAt(node), name>>,
                  fdt_nop_property(fdt, node, name))
    BY <1>8 DEF NopProperty
  <2> DEFINE r == fdt_nop_property(fdt, node, name)
  <2>2. NothingIsLeft(fdt, r)
    BY EditsFail
  <2>3. fdt' = r.fdt /\ call'[Len(call')] = r.ret /\ call'[1] = "nop_property"
    BY <2>1, CallIs, CallEnds DEF Returns
  <2> HIDE DEF r
  <2>. QED
    BY <2>2, <2>3, FailsFree
<1>9. CASE NopNode
  <2>1. PICK node \in Offsets :
          Returns(<<"nop_node", PathAt(node)>>,
                  fdt_nop_node(fdt, node))
    BY <1>9 DEF NopNode
  <2> DEFINE r == fdt_nop_node(fdt, node)
  <2>2. NothingIsLeft(fdt, r)
    BY EditsFail
  <2>3. fdt' = r.fdt /\ call'[Len(call')] = r.ret /\ call'[1] = "nop_node"
    BY <2>1, CallIs, CallEnds DEF Returns
  <2> HIDE DEF r
  <2>. QED
    BY <2>2, <2>3, FailsFree
<1>10. CASE AddMemRsv
  <2>1. PICK address \in Addresses, size \in Sizes :
          Returns(<<"add_mem_rsv", address, size>>,
                  Checked(fdt, fdt_add_mem_rsv(fdt, address, size)))
    BY <1>10 DEF AddMemRsv
  <2> DEFINE r == Checked(fdt, fdt_add_mem_rsv(fdt, address, size))
  <2>2. NothingIsLeft(fdt, r)
    BY OthersFail, CheckedFails
  <2>3. fdt' = r.fdt /\ call'[Len(call')] = r.ret /\ call'[1] = "add_mem_rsv"
    BY <2>1, CallIs, CallEnds DEF Returns
  <2> HIDE DEF r
  <2>. QED
    BY <2>2, <2>3, FailsFree
<1>11. CASE DelMemRsv
  <2>1. PICK n \in 0 .. NumMemRsv(fdt) :
          Returns(<<"del_mem_rsv", n>>,
                  Checked(fdt, fdt_del_mem_rsv(fdt, n)))
    BY <1>11 DEF DelMemRsv
  <2> DEFINE r == Checked(fdt, fdt_del_mem_rsv(fdt, n))
  <2>2. NothingIsLeft(fdt, r)
    BY OthersFail, CheckedFails
  <2>3. fdt' = r.fdt /\ call'[Len(call')] = r.ret /\ call'[1] = "del_mem_rsv"
    BY <2>1, CallIs, CallEnds DEF Returns
  <2> HIDE DEF r
  <2>. QED
    BY <2>2, <2>3, FailsFree
<1>12. CASE OpenInto
  <2>1. PICK r \in fdt_open_into(fdt, BUF_SIZE) :
          Returns(<<"open_into">>,
                  r)
    BY <1>12 DEF OpenInto
  <2>2. NothingIsLeft(fdt, r)
    BY OthersFail
  <2>3. fdt' = r.fdt /\ call'[Len(call')] = r.ret /\ call'[1] = "open_into"
    BY <2>1, CallIs, CallEnds DEF Returns
  <2>. QED
    BY <2>2, <2>3, FailsFree
<1>13. CASE Pack
  <2> DEFINE r == Checked(fdt, fdt_pack(fdt))
  <2>1. Returns(<<"pack">>, r)
    BY <1>13 DEF Pack
  <2>2. NothingIsLeft(fdt, r)
    BY OthersFail, CheckedFails
  <2>3. fdt' = r.fdt /\ call'[Len(call')] = r.ret /\ call'[1] = "pack"
    BY <2>1, CallIs, CallEnds DEF Returns
  <2> HIDE DEF r
  <2>. QED
    BY <2>2, <2>3, FailsFree
<1>. QED
  BY <1>3, <1>4, <1>5, <1>6, <1>7, <1>8, <1>9, <1>10, <1>11, <1>12, <1>13
     DEF Next

(* Every call.                                                             *)
LEMMA NextIsFree ==
  ASSUME NOTFOUND \notin BadOffsets, Viewed, Retried, Next
  PROVE  Retried' /\ CallIsFree
<1>1. CASE SetProp
  BY <1>1, SetPropIsFree
<1>2. CASE AppendProp
  BY <1>2, AppendPropIsFree
<1>3. CASE ~SetProp /\ ~AppendProp
  <2>1. LeavesAll
    BY <1>3, OthersLeaveAll
  <2>. QED
    BY <2>1 DEF LeavesAll, Retried, CallIsFree
<1>. QED
  BY <1>1, <1>2, <1>3

(* libfdt/fdt_rw.c: a call that failed, made again, does nothing, whatever *)
(* the blob and the arguments: of what _fdt_add_property may leave of a    *)
(* failed call, the name, there is never a second one.                     *)
THEOREM RetriesAreFree ==
  ASSUME NOTFOUND \notin BadOffsets
  PROVE  Spec => RetryIsFree
<1>1. Init => Viewed
  BY ViewedFromInit
<1>2. Init => Retried
  <2>1. <<"none">>[1] = "none"
    OBVIOUS
  <2>. QED
    BY <2>1 DEF Init, Retried
<1>3. Viewed /\ [Next]_vars => Viewed'
  BY NextKeepsViewed
<1>4. Viewed /\ Retried /\ [Next]_vars => Retried'
  <2>1. UNCHANGED vars => (Retried => Retried')
    BY DEF vars, Retried, Again
  <2>. QED
    BY <2>1, NextIsFree
<1>5. Viewed /\ Retried /\ [Next]_vars =>
        [call' = call /\ given' = given /\ call[Len(call)] < 0 =>
           fdt' = fdt]_vars
  BY NextIsFree DEF CallIsFree
<1>. QED
  BY <1>1, <1>2, <1>3, <1>4, <1>5, PTL DEF Spec, RetryIsFree

-----------------------------------------------------------------------------
(* Blobs of which a reader cannot tell one from the other.                 *)

(* A tag of both.                                                          *)
LEMMA TagIsAlike ==
  ASSUME NEW b, HasStruct(b), NEW c, HasStruct(c), ReadAlike(b, c),
         NEW o \in Tags(b), o \in Tags(c), NEW known
  PROVE  /\ TagOf(c, o) = TagOf(b, o) /\ Following(c, o) = Following(b, o)
         /\ Read(c, known, o) = Read(b, known, o)
<1> DEFINE next == Following(b, o)
           len == PropLen(b, o)
<1>1. /\ o \in Nat /\ next \in Nat /\ next <= b.size_dt_struct
      /\ LengthAt(b, o) \in Nat /\ o + LengthAt(b, o) <= next
      /\ b.size_dt_struct \in Nat
  BY TagAt DEF HasStruct
<1>2. SameTo(b, c, next)
  BY <1>1 DEF SameTo, ReadAlike
<1>3. /\ TagOf(c, o) = TagOf(b, o) /\ Following(c, o) = next
      /\ TagOf(b, o) = "BEGIN_NODE" => NodeName(c, o) = NodeName(b, o)
  BY <1>2, CommonTag DEF ReadAlike
<1>4. ASSUME TagOf(b, o) = "PROP"
      PROVE  PropName(c, o) = PropName(b, o) /\ PropVal(c, o) = PropVal(b, o)
  <2>1. /\ len \in Nat /\ NameOff(b, o) \in 0 .. b.size_dt_strings - 1
        /\ LengthAt(b, o) = PropHeader + len
    BY <1>4 DEF HasStruct, StructIsSound, TagIsSound, TagOf, LengthAt, TagLength
  <2>2. PropHeader = 3 * FDT_TAGSIZE /\ FDT_TAGSIZE \in Nat /\ FDT_TAGSIZE > 0
    BY TagSizeIs DEF PropHeader
  <2> HIDE DEF next, len
  <2>3. /\ o + FDT_TAGSIZE \in 0 .. next - 1
        /\ o + 2 * FDT_TAGSIZE \in 0 .. next - 1
        /\ \A i \in 1 .. len : o + PropHeader + i - 1 \in 0 .. next - 1
    BY <1>1, <2>1, <2>2
  <2>4. PropLen(c, o) = len /\ NameOff(c, o) = NameOff(b, o)
    BY <1>2, <2>3 DEF SameTo, PropLen, NameOff, len
  <2>5. \A i \in 1 .. len : Struct(c, o + PropHeader + i - 1)
                              = Struct(b, o + PropHeader + i - 1)
    BY <1>2, <2>3 DEF SameTo
  <2>6. PropVal(c, o) = PropVal(b, o)
    BY <2>4, <2>5 DEF PropVal, len
  <2>7. PropName(c, o) = PropName(b, o)
    BY <2>1, <2>4 DEF ReadAlike, SameNames, PropName
  <2>. QED
    BY <2>6, <2>7
<1>5. NextTag(b, o).tag = TagOf(b, o) /\ NextTag(c, o).tag = TagOf(b, o)
  BY <1>3, NextTagIs
<1>6. Read(c, known, o) = Read(b, known, o)
  <2> HIDE DEF next, len
  <2>1. CASE TagOf(b, o) = "BEGIN_NODE"
    BY <1>3, <1>5, <2>1 DEF Read
  <2>2. CASE TagOf(b, o) = "PROP"
    BY <1>4, <1>5, <2>2 DEF Read, PropName
  <2>3. CASE TagOf(b, o) \notin {"BEGIN_NODE", "PROP"}
    BY <1>5, <2>3 DEF Read
  <2>. QED
    BY <2>1, <2>2, <2>3
<1>. QED
  BY <1>3, <1>6

(* All of what they say is.                                                *)
LEMMA ContentsAreAlike ==
  ASSUME NEW b, HasStruct(b), NEW c, HasStruct(c), ReadAlike(b, c)
  PROVE  Contents(c) = Contents(b)
<1>1. PICK n, p, g : IsReader(b, n, p, g) /\ Contents(b) = g[n]
  BY ContentsAreRead
<1>2. PICK m, q, h : IsReader(c, m, q, h) /\ Contents(c) = h[m]
  BY ContentsAreRead
<1> DEFINE Same(i) == i \in 0 .. m /\ q[i] = p[i] /\ h[i] = g[i]
           T == {i \in 0 .. n : Same(i)}
<1>3. n \in Nat /\ m \in Nat /\ n \in 0 .. n
  BY <1>1, <1>2 DEF IsReader
<1>4. 0 \in T
  BY <1>1, <1>2, <1>3 DEF IsReader
<1>5. ASSUME NEW i \in 0 .. n, Same(i)
      PROVE  /\ TagOf(c, p[i]) = TagOf(b, p[i])
             /\ Following(c, p[i]) = Following(b, p[i])
             /\ Read(c, g[i], p[i]) = Read(b, g[i], p[i])
  <2>1. p[i] \in Tags(b) /\ p[i] \in Tags(c)
    BY <1>1, <1>2, <1>5 DEF IsReader
  <2>. QED
    BY <2>1, TagIsAlike
<1>6. ASSUME NEW i \in 0 .. n - 1, i \in T  PROVE i + 1 \in T
  <2>1. i \in 0 .. n /\ i + 1 \in 0 .. n /\ Same(i)
    BY <1>3, <1>6
  <2>2. /\ TagOf(b, p[i]) # "END" /\ p[i + 1] = Following(b, p[i])
        /\ g[i + 1] = Read(b, g[i], p[i])
    BY <1>1 DEF IsReader
  <2>3. i # m
    BY <1>2, <1>5, <2>1, <2>2 DEF IsReader
  <2>4. i \in 0 .. m - 1 /\ i + 1 \in 0 .. m
    BY <1>3, <2>1, <2>3
  <2>5. q[i + 1] = Following(c, q[i]) /\ h[i + 1] = Read(c, h[i], q[i])
    BY <1>2, <2>4 DEF IsReader
  <2>. QED
    BY <1>5, <2>1, <2>2, <2>4, <2>5
<1>7. Same(n)
  <2>1. 0 .. n \subseteq T
    <3> HIDE DEF T
    <3>. QED
      BY <1>3, <1>4, <1>6, UpTo
  <2>. QED
    BY <1>3, <2>1
<1>8. n = m
  <2>1. TagOf(c, q[n]) = "END"
    BY <1>1, <1>3, <1>5, <1>7 DEF IsReader
  <2>2. n \in 0 .. m - 1 => TagOf(c, q[n]) # "END"
    BY <1>2 DEF IsReader
  <2>. QED
    BY <1>3, <1>7, <2>1, <2>2
<1>. QED
  BY <1>1, <1>2, <1>7, <1>8

(* More strings are not read.                                              *)
LEMMA MoreStringsAreAlike ==
  ASSUME NEW b, Sound(b), NEW c, MoreStrings(b, c)
  PROVE  Contents(c) = Contents(b) /\ RsvMap(c) = RsvMap(b)
<1>1. HasStruct(b) /\ HasStruct(c)
  BY SoundIs DEF MoreStrings, Kept, StaysSound
<1>2. ReadAlike(b, c)
  BY DEF MoreStrings, ReadAlike
<1>3. Contents(c) = Contents(b)
  BY <1>1, <1>2, ContentsAreAlike
<1>. QED
  BY <1>3 DEF MoreStrings, Kept

(* What fdt_setprop and fdt_appendprop leave when they fail.               *)
StringsAreLeft(b, w) == w.ret < 0 => w.fdt = b \/ MoreStrings(b, w.fdt)

LEMMA AddPropertyLeaves ==
  ASSUME NEW b, Sound(b), ~Misordered(b, RsvSize), NEW node,
         NEW name \in PropNames, NEW val
  PROVE  StringsAreLeft(b, AddProperty(b, node, name, val))
<1> DEFINE next == CheckNodeOffset(b, node)
           s == FindAddString(b, name)
           r == SpliceStruct(s.fdt, next, 0, PropHeader + TagAlign(Len(val)))
           w == AddProperty(b, node, name, val)
<1>1. \/ w.fdt = b
      \/ w = s
      \/ w = r /\ r.ret # 0
      \/ w.ret = 0
  BY DEF AddProperty, Result
<1>2. r.ret # 0 => r.fdt = s.fdt
  BY SpliceFails
<1>3. MoreStrings(b, s.fdt)
  BY FindAddStringIs
<1> HIDE DEF s, r, w
<1>4. w.ret < 0 => w.fdt = b \/ MoreStrings(b, w.fdt)
  BY <1>1, <1>2, <1>3
<1>. QED
  BY <1>4 DEF w, StringsAreLeft

LEMMA SetPropLeaves ==
  ASSUME NEW b, Sound(b), ~Misordered(b, RsvSize), NEW node,
         NEW name \in PropNames, NEW val
  PROVE  /\ StringsAreLeft(b, fdt_setprop(b, node, name, val))
         /\ StringsAreLeft(b, fdt_appendprop(b, node, name, val))
<1> DEFINE prop == GetProperty(b, node, name)
           zero == 0
           new == AddProperty(b, node, name, val)
           old == Resize(b, prop, zero, val)
           more == Resize(b, prop, PropLen(b, prop), val)
           w == fdt_setprop(b, node, name, val)
           x == fdt_appendprop(b, node, name, val)
<1>1. w = old \/ w = new \/ w = Result(b, prop)
  BY DEF fdt_setprop
<1>2. x = more \/ x = new
  BY DEF fdt_appendprop
<1> HIDE DEF zero
<1>3. (old.ret < 0 => old.fdt = b) /\ (more.ret < 0 => more.fdt = b)
  BY ResizeFails
<1>4. StringsAreLeft(b, new)
  BY AddPropertyLeaves
<1>5. Result(b, prop).fdt = b
  BY DEF Result
<1> HIDE DEF w, x, new, old, more, prop
<1>6. StringsAreLeft(b, w) /\ StringsAreLeft(b, x)
  BY <1>1, <1>2, <1>3, <1>4, <1>5 DEF StringsAreLeft
<1>. QED
  BY <1>6 DEF w, x

(* A call that has failed.                                                 *)
CallIsUndone ==
  Last(call') < 0 => view' = view /\ RsvMap(fdt') = RsvMap(fdt)

LEMMA LeftIsUndone ==
  ASSUME Viewed, NEW w, ~Misordered(fdt, RsvSize) => StringsAreLeft(fdt, w),
         fdt' = Checked(fdt, w).fdt, view' = Contents(fdt'),
         call'[Len(call')] = Checked(fdt, w).ret
  PROVE  CallIsUndone
<1> DEFINE b == fdt
           r == Checked(fdt, w)
<1>1. Sound(b) /\ view = Contents(b)
  BY DEF Viewed, BlobIsSound
<1>2. StringsAreLeft(b, r)
  BY DEF Checked, Result, StringsAreLeft
<1>3. Last(call') = r.ret /\ fdt' = r.fdt
  BY DEF Last
<1> HIDE DEF r
<1>4. ASSUME r.ret < 0  PROVE Contents(r.fdt) = Contents(b) /\ RsvMap(r.fdt) = RsvMap(b)
  BY <1>1, <1>2, <1>4, MoreStringsAreAlike DEF StringsAreLeft
<1>. QED
  BY <1>1, <1>3, <1>4 DEF CallIsUndone

(* Every call.                                                             *)
LEMMA NextIsUndone ==
  ASSUME NOTFOUND \notin BadOffsets, Viewed, Next
  PROVE  CallIsUndone
<1>1. CASE SetProp
  <2>1. PICK node \in Offsets, name \in PropNames, val \in Values :
          Returns(<<"setprop", PathAt(node), name, val>>,
                  Checked(fdt, fdt_setprop(fdt, node, name, val)))
    BY <1>1 DEF SetProp
  <2> DEFINE w == fdt_setprop(fdt, node, name, val)
             r == Checked(fdt, w)
  <2>2. ~Misordered(fdt, RsvSize) => StringsAreLeft(fdt, w)
    BY SetPropLeaves DEF Viewed, BlobIsSound
  <2>3. fdt' = r.fdt /\ view' = Contents(fdt') /\ call'[Len(call')] = r.ret
    BY <2>1, CallEnds DEF Returns
  <2> HIDE DEF w
  <2>. QED
    BY <2>2, <2>3, LeftIsUndone
<1>2. CASE AppendProp
  <2>1. PICK node \in Offsets, name \in PropNames, val \in Values :
          Returns(<<"appendprop", PathAt(node), name, val>>,
                  Checked(fdt, fdt_appendprop(fdt, node, name, val)))
    BY <1>2 DEF AppendProp
  <2> DEFINE w == fdt_appendprop(fdt, node, name, val)
             r == Checked(fdt, w)
  <2>2. ~Misordered(fdt, RsvSize) => StringsAreLeft(fdt, w)
    BY SetPropLeaves DEF Viewed, BlobIsSound
  <2>3. fdt' = r.fdt /\ view' = Contents(fdt') /\ call'[Len(call')] = r.ret
    BY <2>1, CallEnds DEF Returns
  <2> HIDE DEF w
  <2>. QED
    BY <2>2, <2>3, LeftIsUndone
<1>3. CASE ~SetProp /\ ~AppendProp
  <2>1. LeavesAll
    BY <1>3, OthersLeaveAll
  <2>2. view' = Contents(fdt') /\ view = Contents(fdt)
    BY NextKeepsViewed DEF Viewed
  <2>. QED
    BY <2>1, <2>2 DEF LeavesAll, CallIsUndone, Last
<1>. QED
  BY <1>1, <1>2, <1>3

(* libfdt/fdt_rw.c and fdt_wip.c: a call that returns an error has changed *)
(* nothing that a reader sees, whatever the blob, the arguments and the    *)
(* room: neither the nodes nor the properties, nor where a node is, nor    *)
(* the reservations.                                                       *)
THEOREM FailuresAreUndone ==
  ASSUME NOTFOUND \notin BadOffsets
  PROVE  Spec => FailuresUndone
<1>1. Init => Viewed
  BY ViewedFromInit
<1>2. Viewed /\ [Next]_vars => Viewed'
  BY NextKeepsViewed
<1>3. Viewed /\ [Next]_vars =>
        [Last(call') < 0 => view' = view /\ RsvMap(fdt') = RsvMap(fdt)]_vars
  BY NextIsUndone DEF CallIsUndone
<1>. QED
  BY <1>1, <1>2, <1>3, PTL DEF Spec, FailuresUndone

(* libfdt/fdt_rw.c and fdt_wip.c: both, for one who calls until it works.  *)
THEOREM FailuresAreFree ==
  ASSUME NOTFOUND \notin BadOffsets
  PROVE  Spec => FailureIsFree
BY RetriesAreFree, FailuresAreUndone DEF FailureIsFree

-----------------------------------------------------------------------------
(* The tree the blob stands for.                                           *)

(* A sequence is what it has at each place.                                *)
LEMMA SequenceIs ==
  ASSUME NEW S, NEW s \in Seq(S)
  PROVE  Len(s) \in Nat /\ s = [i \in 1 .. Len(s) |-> s[i]]
OBVIOUS

(* Whether the blocks are in order, a sound blob says by where two are.    *)
LEMMA OrderIs ==
  ASSUME NEW b, Sound(b)
  PROVE  Misordered(b, RsvSize) <=> ~UsualOrder(b)
<1>1. /\ b.totalsize \in Nat /\ b.off_mem_rsvmap \in Nat
      /\ b.off_dt_struct \in Nat /\ b.off_dt_strings \in Nat
      /\ StructTop(b) \in Nat
      /\ DataSize(b) <= b.totalsize /\ DataSize(b) \in Nat
  BY NumbersAre
<1>2. /\ NumMemRsv(b) \in Nat /\ HEADER_SIZE <= b.off_mem_rsvmap
      /\ b.off_mem_rsvmap + MapSize(b) <= b.off_dt_struct
  BY DEF Sound, BlocksAreApart
<1>3. /\ MapSize(b) = NumMemRsv(b) * RsvSize + RsvSize
      /\ NumMemRsv(b) * RsvSize \in Nat /\ RsvSize \in Nat
  BY <1>2, EntriesAre, RsvSizeIs DEF MapSize
<1>4. HEADER_SIZE \in Nat
  BY SizesAssumption
<1>5. b.off_mem_rsvmap + RsvSize <= b.off_dt_struct
  BY <1>1, <1>2, <1>3
<1>6. /\ ~(b.off_mem_rsvmap < HEADER_SIZE)
      /\ ~(b.off_dt_struct < b.off_mem_rsvmap + RsvSize)
      /\ ~(b.totalsize < DataSize(b))
      /\ b.off_dt_strings < StructTop(b) <=> ~(StructTop(b) <= b.off_dt_strings)
  BY <1>1, <1>2, <1>3, <1>4, <1>5
<1>. QED
  BY <1>6 DEF Misordered, UsualOrder

(* The reservations, one after the other.                                  *)
LEMMA RsvMapIs ==
  ASSUME NEW b, NEW n, n = NumMemRsv(b), n \in Nat
  PROVE  /\ RsvMap(b) = [i \in 1 .. n |-> EntryAt(b, i - 1)]
         /\ \E S : RsvMap(b) \in Seq(S)
         /\ Len(RsvMap(b)) = n
<1>1. RsvMap(b) = [i \in 1 .. n |-> EntryAt(b, i - 1)]
  BY DEF RsvMap, EntryAt
<1> DEFINE S == {EntryAt(b, i - 1) : i \in 1 .. n}
<1>2. \A i \in 1 .. n : EntryAt(b, i - 1) \in S
  OBVIOUS
<1> HIDE DEF S
<1>3. RsvMap(b) \in Seq(S) /\ Len(RsvMap(b)) = n
  BY <1>1, <1>2
<1>. QED
  BY <1>1, <1>3

LEMMA AddedIsAppended ==
  ASSUME NEW b, NumMemRsv(b) \in Nat, NEW c, NEW address, NEW size,
         EntryAdded(b, c, address, size)
  PROVE  RsvMap(c) = IF size = 0 THEN RsvMap(b)
                     ELSE Append(RsvMap(b), <<address, size>>)
<1> DEFINE n == NumMemRsv(b)
           k == NumMemRsv(c)
           s == RsvMap(b)
           x == <<address, size>>
<1>1. /\ n \in Nat /\ k = IF size = 0 THEN n ELSE n + 1
      /\ EntryAt(c, n) = x
      /\ \A m \in 0 .. n - 1 : EntryAt(c, m) = EntryAt(b, m)
  BY DEF EntryAdded
<1>2. /\ s = [i \in 1 .. n |-> EntryAt(b, i - 1)]
      /\ \E S : s \in Seq(S)
      /\ Len(s) = n
  BY <1>1, RsvMapIs
<1>3. k \in Nat
  BY <1>1
<1>4. RsvMap(c) = [i \in 1 .. k |-> EntryAt(c, i - 1)]
  BY <1>3, RsvMapIs
<1> HIDE DEF n, k, s, x
<1>5. \A i \in 1 .. n : EntryAt(c, i - 1) = s[i]
  <2> SUFFICES ASSUME NEW i \in 1 .. n PROVE EntryAt(c, i - 1) = s[i]
    OBVIOUS
  <2>1. i - 1 \in 0 .. n - 1
    BY <1>1
  <2>. QED
    BY <1>1, <1>2, <2>1
<1>6. CASE size = 0
  <2>1. k = n /\ s = [i \in 1 .. n |-> s[i]]
    BY <1>1, <1>2, <1>6
  <2>. QED
    BY <1>4, <1>5, <1>6, <2>1 DEF s
<1>7. CASE size # 0
  <2>1. k = n + 1
    BY <1>1, <1>7
  <2>2. PICK S : s \in Seq(S)
    BY <1>2
  <2> DEFINE q == Append(s, x)
             X == S \cup {x}
  <2>3. s \in Seq(X) /\ x \in X
    BY <2>2
  <2>4. /\ q \in Seq(X) /\ Len(q) = n + 1
        /\ \A i \in 1 .. n : q[i] = s[i]
        /\ q[n + 1] = x
    BY <1>1, <1>2, <2>3
  <2> HIDE DEF q, X
  <2>5. q = [i \in 1 .. n + 1 |-> q[i]]
    BY <2>4, SequenceIs
  <2>6. \A i \in 1 .. n + 1 : q[i] = EntryAt(c, i - 1)
    <3> SUFFICES ASSUME NEW i \in 1 .. n + 1 PROVE q[i] = EntryAt(c, i - 1)
      OBVIOUS
    <3>1. CASE i \in 1 .. n
      BY <1>5, <2>4, <3>1
    <3>2. CASE i = n + 1
      <4>1. i - 1 = n
        BY <1>1, <3>2
      <4>. QED
        BY <1>1, <2>4, <3>2, <4>1
    <3>. QED
      BY <1>1, <3>1, <3>2
  <2>7. q = [i \in 1 .. n + 1 |-> EntryAt(c, i - 1)]
    BY <2>5, <2>6
  <2>. QED
    BY <1>4, <1>7, <2>1, <2>7 DEF q, s, x
<1>. QED
  BY <1>6, <1>7

(* t is s without its element n, counted from 0.                           *)
LeftOut(t, s, n) == t = SubSeq(s, 1, n) \o SubSeq(s, n + 2, Len(s))

LEMMA DeletedIsLeftOut ==
  ASSUME NEW b, NumMemRsv(b) \in Nat, NEW c, NEW n \in Nat, n < NumMemRsv(b),
         EntryDeleted(b, c, n), NEW s, s = RsvMap(b)
  PROVE  LeftOut(RsvMap(c), s, n)
<1> DEFINE N == NumMemRsv(b)
           t == SubSeq(s, 1, n)
           u == SubSeq(s, n + 2, Len(s))
           q == t \o u
<1>1. /\ N \in Nat /\ NumMemRsv(c) = N - 1 /\ n < N
      /\ \A m \in 0 .. n - 1 : EntryAt(c, m) = EntryAt(b, m)
      /\ \A m \in n .. N - 2 : EntryAt(c, m) = EntryAt(b, m + 1)
  BY DEF EntryDeleted
<1>2. /\ s = [i \in 1 .. N |-> EntryAt(b, i - 1)]
      /\ \E S : s \in Seq(S)
      /\ Len(s) = N
  BY <1>1, RsvMapIs
<1>3. N - 1 \in Nat
  BY <1>1
<1>4. RsvMap(c) = [i \in 1 .. N - 1 |-> EntryAt(c, i - 1)]
  BY <1>1, <1>3, RsvMapIs
<1>5. PICK S : s \in Seq(S)
  BY <1>2
<1> HIDE DEF N
<1>6. /\ t \in Seq(S) /\ Len(t) = n
      /\ \A i \in 1 .. n : t[i] = s[i]
  BY <1>1, <1>2, <1>5
<1>7. /\ u \in Seq(S) /\ Len(u) = N - n - 1
      /\ \A i \in 1 .. N - n - 1 : u[i] = s[n + 1 + i]
  <2>1. /\ u \in Seq(S)
        /\ Len(u) = IF n + 2 <= Len(s) THEN Len(s) - (n + 2) + 1 ELSE 0
    BY <1>1, <1>2, <1>5
  <2> HIDE DEF u
  <2>2. Len(u) = N - n - 1
    <3>1. n + 2 <= Len(s) \/ Len(s) = n + 1
      BY <1>1, <1>2
    <3>. QED
      BY <1>1, <1>2, <2>1, <3>1
  <2> USE DEF u
  <2>3. ASSUME NEW i \in 1 .. N - n - 1 PROVE u[i] = s[n + 1 + i]
    <3>1. n + 2 \in 1 .. Len(s) /\ i \in 1 .. (Len(s) - (n + 2) + 1)
      BY <1>1, <1>2
    <3>2. u[i] = s[(n + 2) + i - 1] /\ (n + 2) + i - 1 = n + 1 + i
      BY <1>1, <1>2, <1>5, <3>1
    <3>. QED
      BY <3>2
  <2>. QED
    BY <2>1, <2>2, <2>3
<1> HIDE DEF t, u
<1>8. q \in Seq(S) /\ Len(q) = N - 1
  <2>1. q \in Seq(S) /\ Len(q) = Len(t) + Len(u)
    <3>1. t \in Seq(S) /\ u \in Seq(S)
      BY <1>6, <1>7
    <3>. QED
      BY <3>1
  <2>2. Len(t) = n /\ Len(u) = N - n - 1 /\ N \in Nat
    BY <1>1, <1>6, <1>7
  <2> HIDE DEF q
  <2>3. Len(q) = N - 1
    BY <2>1, <2>2
  <2>. QED
    BY <2>1, <2>3
<1>9. ASSUME NEW i \in 1 .. N - 1 PROVE q[i] = EntryAt(c, i - 1)
  <2>1. CASE i <= n
    <3>1. i \in 1 .. n /\ i \in 1 .. N /\ i - 1 \in 0 .. n - 1
      BY <1>1, <2>1
    <3>2. q[i] = t[i]
      BY <1>6, <1>7, <3>1
    <3>. QED
      BY <1>1, <1>2, <1>6, <3>1, <3>2
  <2>2. CASE i > n
    <3> DEFINE j == i - n
    <3>1. /\ j \in 1 .. N - n - 1 /\ i = n + j /\ n + 1 + j = i + 1
          /\ i + 1 \in 1 .. N /\ (i + 1) - 1 = i
          /\ i - 1 \in n .. N - 2 /\ (i - 1) + 1 = i
      BY <1>1, <2>2
    <3> HIDE DEF j
    <3>2. q[i] = u[j]
      <4>1. /\ Len(t) = n /\ Len(u) = N - n - 1 /\ N \in Nat
            /\ t \in Seq(S) /\ u \in Seq(S)
        BY <1>1, <1>6, <1>7
      <4>2. \A e \in 1 .. Len(u) : (t \o u)[Len(t) + e] = u[e]
        BY <4>1
      <4>3. j \in 1 .. Len(u) /\ i = Len(t) + j
        BY <3>1, <4>1
      <4>. QED
        BY <4>2, <4>3
    <3>3. u[j] = s[i + 1]
      BY <1>7, <3>1
    <3>4. s[i + 1] = EntryAt(b, i)
      BY <1>2, <3>1
    <3>5. EntryAt(c, i - 1) = EntryAt(b, i)
      BY <1>1, <3>1
    <3>. QED
      BY <3>2, <3>3, <3>4, <3>5
  <2>3. i <= n \/ i > n
    BY <1>1
  <2>. QED
    BY <2>1, <2>2, <2>3
<1> HIDE DEF q
<1>10. q = [i \in 1 .. N - 1 |-> q[i]]
  BY <1>8, SequenceIs
<1>11. q = [i \in 1 .. N - 1 |-> EntryAt(c, i - 1)]
  BY <1>9, <1>10
<1>. QED
  BY <1>4, <1>11 DEF q, t, u, LeftOut

-----------------------------------------------------------------------------
(* Paths.                                                                  *)

LEMMA EqualSequences ==
  ASSUME NEW S, NEW s \in Seq(S), NEW t \in Seq(S), Len(s) = Len(t),
         \A i \in 1 .. Len(s) : s[i] = t[i]
  PROVE  s = t
<1>1. s = [i \in 1 .. Len(s) |-> s[i]] /\ t = [i \in 1 .. Len(s) |-> t[i]]
  BY SequenceIs
<1>2. [i \in 1 .. Len(s) |-> s[i]] = [i \in 1 .. Len(s) |-> t[i]]
  OBVIOUS
<1>. QED
  BY <1>1, <1>2

(* The first k of a sequence.                                              *)
LEMMA PrefixIs ==
  ASSUME NEW S, NEW s \in Seq(S), NEW k \in 0 .. Len(s)
  PROVE  /\ SubSeq(s, 1, k) \in Seq(S) /\ Len(SubSeq(s, 1, k)) = k
         /\ \A i \in 1 .. k : SubSeq(s, 1, k)[i] = s[i]
         /\ k = Len(s) => SubSeq(s, 1, k) = s
<1> DEFINE t == SubSeq(s, 1, k)
<1>1. t \in Seq(S) /\ Len(t) = k /\ \A i \in 1 .. k : t[i] = s[i]
  OBVIOUS
<1> HIDE DEF t
<1>2. k = Len(s) => t = s
  BY <1>1, EqualSequences
<1>. QED
  BY <1>1, <1>2 DEF t

(* q is that of the node at path, or of one below.                         *)
Under(path, q) == Len(q) >= Len(path) /\ SubSeq(q, 1, Len(path)) = path

LEMMA UnderIs ==
  ASSUME NEW S, NEW path \in Seq(S), NEW q \in Seq(S)
  PROVE  Under(path, q) <=>
           Len(q) >= Len(path) /\ \A i \in 1 .. Len(path) : q[i] = path[i]
<1>1. Len(path) \in Nat /\ Len(q) \in Nat
  OBVIOUS
<1>2. CASE Len(q) >= Len(path)
  <2> DEFINE t == SubSeq(q, 1, Len(path))
  <2>1. Len(path) \in 0 .. Len(q)
    BY <1>1, <1>2
  <2>2. /\ t \in Seq(S) /\ Len(t) = Len(path)
        /\ \A i \in 1 .. Len(path) : t[i] = q[i]
    BY <2>1, PrefixIs
  <2> HIDE DEF t
  <2>3. t = path <=> \A i \in 1 .. Len(path) : q[i] = path[i]
    <3>1. (\A i \in 1 .. Len(path) : q[i] = path[i]) => t = path
      BY <2>2, EqualSequences
    <3>2. t = path => \A i \in 1 .. Len(path) : q[i] = path[i]
      BY <2>2
    <3>. QED
      BY <3>1, <3>2
  <2>. QED
    BY <1>2, <2>3 DEF Under, t
<1>3. CASE ~(Len(q) >= Len(path))
  BY <1>3 DEF Under
<1>. QED
  BY <1>2, <1>3

(* A path and one more name.                                               *)
LEMMA LongerPath ==
  ASSUME NEW S, NEW s \in Seq(S), NEW x \in S, NEW r, r = Append(s, x)
  PROVE  /\ r \in Seq(S) /\ Len(r) = Len(s) + 1 /\ Len(s) \in Nat
         /\ r # << >> /\ Front(r) = s /\ r[Len(r)] = x /\ r # s
         /\ \A i \in 1 .. Len(s) : r[i] = s[i]
         /\ \A k \in 1 .. Len(s) : SubSeq(r, 1, k) = SubSeq(s, 1, k)
<1>1. /\ r \in Seq(S) /\ Len(r) = Len(s) + 1 /\ Len(s) \in Nat
      /\ r[Len(r)] = x /\ \A i \in 1 .. Len(s) : r[i] = s[i]
  OBVIOUS
<1>2. ASSUME NEW k \in 0 .. Len(s)  PROVE SubSeq(r, 1, k) = SubSeq(s, 1, k)
  <2> DEFINE t == SubSeq(r, 1, k)
             u == SubSeq(s, 1, k)
  <2>1. k \in 0 .. Len(r) /\ \A i \in 1 .. k : i \in 1 .. Len(s)
    BY <1>1
  <2>2. /\ t \in Seq(S) /\ Len(t) = k /\ \A i \in 1 .. k : t[i] = r[i]
        /\ u \in Seq(S) /\ Len(u) = k /\ \A i \in 1 .. k : u[i] = s[i]
    BY <1>1, <2>1, PrefixIs
  <2> HIDE DEF t, u
  <2>3. \A i \in 1 .. Len(t) : t[i] = u[i]
    BY <1>1, <2>1, <2>2
  <2>4. t = u
    BY <2>2, <2>3, EqualSequences
  <2>. QED
    BY <2>4 DEF t, u
<1>3. Front(r) = s
  <2>1. Len(r) - 1 = Len(s) /\ Len(s) \in 0 .. Len(s)
    BY <1>1
  <2>2. SubSeq(r, 1, Len(s)) = SubSeq(s, 1, Len(s))
    BY <1>2, <2>1
  <2>3. SubSeq(s, 1, Len(s)) = s
    BY <2>1, PrefixIs
  <2>. QED
    BY <2>1, <2>2, <2>3 DEF Front
<1>4. r # << >> /\ r # s
  BY <1>1
<1>5. \A k \in 1 .. Len(s) : SubSeq(r, 1, k) = SubSeq(s, 1, k)
  BY <1>2
<1>. QED
  BY <1>1, <1>3, <1>4, <1>5

(* A path without its last name.                                           *)
LEMMA ShorterPath ==
  ASSUME NEW S, NEW s \in Seq(S), s # << >>, NEW r, r = Front(s)
  PROVE  /\ r \in Seq(S) /\ Len(r) = Len(s) - 1 /\ Len(s) \in Nat /\ Len(s) > 0
         /\ \A i \in 1 .. Len(r) : r[i] = s[i]
         /\ s[Len(s)] \in S /\ s = Append(r, s[Len(s)])
<1>1. Len(s) \in Nat /\ Len(s) > 0
  OBVIOUS
<1>2. Len(s) - 1 \in 0 .. Len(s)
  BY <1>1
<1>3. r \in Seq(S) /\ Len(r) = Len(s) - 1 /\ \A i \in 1 .. Len(s) - 1 : r[i] = s[i]
  BY <1>2, PrefixIs DEF Front
<1> DEFINE x == s[Len(s)]
           t == Append(r, x)
<1>4. x \in S
  BY <1>1
<1> HIDE DEF x
<1>5. /\ t \in Seq(S) /\ Len(t) = Len(r) + 1 /\ t[Len(t)] = x
      /\ \A i \in 1 .. Len(r) : t[i] = r[i]
  BY <1>3, <1>4, LongerPath
<1> HIDE DEF t
<1>6. Len(t) = Len(s)
  BY <1>1, <1>3, <1>5
<1>7. ASSUME NEW i \in 1 .. Len(s)  PROVE s[i] = t[i]
  <2>1. CASE i = Len(s)
    BY <1>5, <1>6, <2>1 DEF x
  <2>2. CASE i # Len(s)
    <3>1. i \in 1 .. Len(s) - 1 /\ i \in 1 .. Len(r)
      BY <1>1, <1>3, <2>2
    <3>. QED
      BY <1>3, <1>5, <3>1
  <2>. QED
    BY <2>1, <2>2
<1>8. s = t
  BY <1>5, <1>6, <1>7, EqualSequences
<1>. QED
  BY <1>1, <1>3, <1>4, <1>8 DEF x, t

(* At the beginning of a node a reader's path gets its name.               *)
LEMMA BeginsLonger ==
  ASSUME NEW b, HasStruct(b), NEW o \in Tags(b), TagOf(b, o) = "BEGIN_NODE",
         NEW c, NEW r, Reads(b, c, o, r)
  PROVE  r.path = Append(c.path, NodeName(b, o))
BY PathGoesOn

(* What is below a node, with one name more or less.                       *)
LEMMA UnderAppend ==
  ASSUME NEW S, NEW path \in Seq(S), NEW s \in Seq(S), NEW x \in S,
         NEW r, r = Append(s, x)
  PROVE  Under(path, r) <=> Under(path, s) \/ r = path
<1>1. /\ r \in Seq(S) /\ Len(r) = Len(s) + 1 /\ Len(s) \in Nat /\ Len(path) \in Nat
      /\ \A i \in 1 .. Len(s) : r[i] = s[i]
  BY LongerPath
<1>2. /\ Under(path, r) <=>
           Len(r) >= Len(path) /\ \A i \in 1 .. Len(path) : r[i] = path[i]
      /\ Under(path, s) <=>
           Len(s) >= Len(path) /\ \A i \in 1 .. Len(path) : s[i] = path[i]
  <2>1. r \in Seq(S)
    BY <1>1
  <2>2. Under(path, r) <=>
          Len(r) >= Len(path) /\ \A i \in 1 .. Len(path) : r[i] = path[i]
    BY <2>1, UnderIs, Zenon
  <2>3. Under(path, s) <=>
          Len(s) >= Len(path) /\ \A i \in 1 .. Len(path) : s[i] = path[i]
    BY UnderIs, Zenon
  <2> QED BY <2>2, <2>3
<1>3. ASSUME Under(path, r)  PROVE Under(path, s) \/ r = path
  <2>1. CASE Len(path) = Len(r)
    <3>1. \A i \in 1 .. Len(r) : r[i] = path[i]
      BY <1>2, <1>3, <2>1
    <3>2. r = path
      BY <1>1, <2>1, <3>1, EqualSequences
    <3>. QED
      BY <3>2
  <2>2. CASE Len(path) # Len(r)
    <3>1. Len(s) >= Len(path)
      BY <1>1, <1>2, <1>3, <2>2
    <3>2. \A i \in 1 .. Len(path) : i \in 1 .. Len(s)
      BY <1>1, <3>1
    <3>. QED
      BY <1>1, <1>2, <1>3, <3>1, <3>2
  <2>. QED
    BY <2>1, <2>2
<1>4. ASSUME Under(path, s)  PROVE Under(path, r)
  <2>1. Len(s) >= Len(path) /\ Len(r) >= Len(path)
    BY <1>1, <1>2, <1>4
  <2>2. \A i \in 1 .. Len(path) : i \in 1 .. Len(s)
    BY <1>1, <2>1
  <2>. QED
    BY <1>1, <1>2, <1>4, <2>1, <2>2
<1>5. r = path => Under(path, r)
  BY <1>1, <1>2
<1>. QED
  BY <1>3, <1>4, <1>5

LEMMA UnderFront ==
  ASSUME NEW S, NEW path \in Seq(S), NEW s \in Seq(S), s # << >>
  PROVE  /\ Front(s) \in Seq(S)
         /\ Under(path, s) <=> Under(path, Front(s)) \/ s = path
<1> DEFINE r == Front(s)
<1>1. r \in Seq(S) /\ s[Len(s)] \in S /\ s = Append(r, s[Len(s)])
  BY ShorterPath
<1> HIDE DEF r
<1>2. Under(path, s) <=> Under(path, r) \/ s = path
  BY <1>1, UnderAppend
<1>. QED
  BY <1>1, <1>2 DEF r

-----------------------------------------------------------------------------
(* Calls as steps of the tree.                                             *)

LEMMA ResultIsLast ==
  ASSUME NEW f, NEW e
  PROVE  Append(<<f>>, e) = <<f, e>>
<1> DEFINE S == {f, e}
           r == Append(<<f>>, e)
           q == <<f, e>>
<1>1. <<f>> \in Seq(S) /\ e \in S /\ q \in Seq(S) /\ Len(q) = 2
  OBVIOUS
<1>2. Len(r) = 2 /\ r \in Seq(S)
  BY <1>1
<1>3. r[1] = f /\ r[2] = e /\ q[1] = f /\ q[2] = e
  OBVIOUS
<1>4. \A i \in 1 .. 2 : r[i] = q[i]
  <2> HIDE DEF r, q
  <2> QED BY <1>3
<1> HIDE DEF r, q, S
<1>5. r = q
  BY <1>1, <1>2, <1>4, EqualSequences
<1> QED BY <1>5 DEF r, q

(* A call that leaves the blob alone is, on the tree, one that fails.      *)
LEMMA NothingIsDone ==
  ASSUME Viewed, NEW c, NEW r, Returns(c, r), r.fdt = fdt
  PROVE  Tree!Fails(c, r.ret)
<1>1. fdt' = fdt /\ view' = view /\ call' = Append(c, r.ret)
  BY DEF Viewed, Returns
<1> QED BY <1>1 DEF Tree!Fails, RsvMap, EntryAt, RsvSizeAt, NumMemRsv, Misordered

(* A function that moves things refuses a blob whose blocks are not in     *)
(* order, and does what it does to one whose blocks are.                   *)
LEMMA CheckedIs ==
  ASSUME Viewed, NEW c, NEW w, Returns(c, Checked(fdt, w))
  PROVE  \/ Misordered(fdt, RsvSize) /\ Tree!Fails(c, BADLAYOUT)
         \/ ~Misordered(fdt, RsvSize) /\ Returns(c, w)
<1>1. CASE Misordered(fdt, RsvSize)
  <2>1. Checked(fdt, w) = [fdt |-> fdt, ret |-> BADLAYOUT]
    BY <1>1 DEF Checked, Result
  <2>2. Tree!Fails(c, BADLAYOUT)
    BY <2>1, NothingIsDone
  <2> QED BY <1>1, <2>2
<1>2. CASE ~Misordered(fdt, RsvSize)
  BY <1>2 DEF Checked
<1> QED BY <1>1, <1>2

(* The tree of a blob that reads alike is the same one, and its blocks are *)
(* in the order they were.                                                 *)
LEMMA SameTree ==
  ASSUME Viewed, NEW c, NEW r, Returns(c, r), Sound(r.fdt),
         ReadAlike(fdt, r.fdt),
         UsualOrder(r.fdt) <=> UsualOrder(fdt)
  PROVE  /\ view'.tree = view.tree /\ call' = Append(c, r.ret)
         /\ (~Misordered(fdt, RsvSize))' = ~Misordered(fdt, RsvSize)
<1>1. Sound(fdt) /\ HasStruct(fdt) /\ HasStruct(r.fdt)
  BY SoundIs DEF Viewed, BlobIsSound
<1>2. view' = view /\ fdt' = r.fdt /\ call' = Append(c, r.ret)
  BY <1>1, ContentsAreAlike DEF Viewed, Returns
<1>3. Misordered(fdt', RsvSize) <=> Misordered(fdt, RsvSize)
  BY <1>1, <1>2, OrderIs
<1> QED BY <1>2, <1>3

(* What is the same to read, is read the same.                             *)
LEMMA SaysSameReads ==
  ASSUME NEW b, NEW c, SaysSame(b, c), b.size_dt_strings \in Nat
  PROVE  ReadAlike(b, c) /\ RsvMap(c) = RsvMap(b)
BY DEF SaysSame, ReadAlike

LEMMA AddMemRsvEditsTree ==
  ASSUME Viewed, AddMemRsv
  PROVE  \E address \in Addresses, size \in Sizes : Tree!AddMemRsv(address, size)
<1>1. PICK address \in Addresses, size \in Sizes :
        Returns(<<"add_mem_rsv", address, size>>,
                Checked(fdt, fdt_add_mem_rsv(fdt, address, size)))
  BY DEF AddMemRsv
<1> DEFINE c == <<"add_mem_rsv", address, size>>
           w == fdt_add_mem_rsv(fdt, address, size)
<1>2. Sound(fdt) /\ NumMemRsv(fdt) \in Nat
  BY DEF Viewed, BlobIsSound, Sound, BlocksAreApart
<1>3. \/ Misordered(fdt, RsvSize) /\ Tree!Fails(c, BADLAYOUT)
      \/ ~Misordered(fdt, RsvSize) /\ Returns(c, w)
  BY <1>1, CheckedIs
<1>4. ASSUME ~Misordered(fdt, RsvSize), Returns(c, w)
      PROVE  \/ /\ RsvMap(fdt') = IF size = 0 THEN RsvMap(fdt)
                                  ELSE Append(RsvMap(fdt), <<address, size>>)
                /\ call' = Append(c, 0)
                /\ view'.tree = view.tree
                /\ (~Misordered(fdt, RsvSize))' = ~Misordered(fdt, RsvSize)
             \/ Tree!Fails(c, NOSPACE)
  <2>1. /\ StaysSound(fdt, w.fdt)
        /\ \/ w.ret = NOSPACE /\ w.fdt = fdt
           \/ /\ w.ret = 0 /\ ReadAlike(fdt, w.fdt)
              /\ EntryAdded(fdt, w.fdt, address, size)
    BY <1>2, <1>4, AddMemRsvKeeps
  <2> HIDE DEF w, c
  <2>2. CASE w.ret = NOSPACE /\ w.fdt = fdt
    BY <2>2, <1>4, NothingIsDone
  <2>3. CASE w.ret = 0 /\ ReadAlike(fdt, w.fdt) /\ EntryAdded(fdt, w.fdt, address, size)
    <3>1. UsualOrder(w.fdt) /\ UsualOrder(fdt) /\ Sound(w.fdt)
      BY <1>2, <1>4, <2>1, OrderIs DEF StaysSound
    <3>2. /\ view'.tree = view.tree /\ call' = Append(c, w.ret)
          /\ (~Misordered(fdt, RsvSize))' = ~Misordered(fdt, RsvSize)
      BY <3>1, <1>4, <2>3, SameTree
    <3>3. fdt' = w.fdt
      BY <1>4 DEF Returns
    <3>4. CASE size = 0
      <4>1. RsvMap(w.fdt) = RsvMap(fdt)
        BY <1>2, <2>3, <3>4, AddedIsAppended
      <4> QED BY <3>2, <3>3, <3>4, <2>3, <4>1
    <3>5. CASE size # 0
      <4>1. RsvMap(w.fdt) = Append(RsvMap(fdt), <<address, size>>)
        BY <1>2, <2>3, <3>5, AddedIsAppended
      <4> QED BY <3>2, <3>3, <3>5, <2>3, <4>1
    <3> QED BY <3>4, <3>5
  <2> QED BY <2>1, <2>2, <2>3
<1> HIDE DEF w
<1>5. Tree!AddMemRsv(address, size)
  BY <1>3, <1>4 DEF Tree!AddMemRsv, Tree!Moves, c
<1> QED BY <1>5

LEMMA DelMemRsvEditsTree ==
  ASSUME Viewed, DelMemRsv
  PROVE  \E n \in 0 .. Len(RsvMap(fdt)) : Tree!DelMemRsv(n)
<1>1. PICK n \in 0 .. NumMemRsv(fdt) :
        Returns(<<"del_mem_rsv", n>>, Checked(fdt, fdt_del_mem_rsv(fdt, n)))
  BY DEF DelMemRsv
<1> DEFINE c == <<"del_mem_rsv", n>>
           w == fdt_del_mem_rsv(fdt, n)
           s == RsvMap(fdt)
<1>2. Sound(fdt) /\ NumMemRsv(fdt) \in Nat /\ n \in Nat
  BY DEF Viewed, BlobIsSound, Sound, BlocksAreApart
<1>3. \/ Misordered(fdt, RsvSize) /\ Tree!Fails(c, BADLAYOUT)
      \/ ~Misordered(fdt, RsvSize) /\ Returns(c, w)
  BY <1>1, CheckedIs
<1>4. Len(s) = NumMemRsv(fdt)
  BY <1>2, RsvMapIs
<1>5. ASSUME ~Misordered(fdt, RsvSize), Returns(c, w)
      PROVE  \/ n >= Len(s) /\ Tree!Fails(c, NOTFOUND)
             \/ /\ ~(n >= Len(s))
                /\ RsvMap(fdt') = SubSeq(s, 1, n) \o SubSeq(s, n + 2, Len(s))
                /\ call' = Append(c, 0)
                /\ view'.tree = view.tree
                /\ (~Misordered(fdt, RsvSize))' = ~Misordered(fdt, RsvSize)
  <2>1. /\ StaysSound(fdt, w.fdt)
        /\ \/ n >= NumMemRsv(fdt) /\ w.ret = NOTFOUND /\ w.fdt = fdt
           \/ /\ n < NumMemRsv(fdt) /\ w.ret = 0 /\ ReadAlike(fdt, w.fdt)
              /\ EntryDeleted(fdt, w.fdt, n)
    BY <1>2, <1>5, DelMemRsvKeeps
  <2> HIDE DEF w, c, s
  <2>2. CASE n >= NumMemRsv(fdt) /\ w.ret = NOTFOUND /\ w.fdt = fdt
    BY <2>2, <1>4, <1>5, NothingIsDone
  <2>3. CASE /\ n < NumMemRsv(fdt) /\ w.ret = 0 /\ ReadAlike(fdt, w.fdt)
             /\ EntryDeleted(fdt, w.fdt, n)
    <3>1. UsualOrder(w.fdt) /\ UsualOrder(fdt) /\ Sound(w.fdt)
      BY <1>2, <1>5, <2>1, OrderIs DEF StaysSound
    <3>2. /\ view'.tree = view.tree /\ call' = Append(c, w.ret)
          /\ (~Misordered(fdt, RsvSize))' = ~Misordered(fdt, RsvSize)
      BY <3>1, <1>5, <2>3, SameTree
    <3>3. fdt' = w.fdt
      BY <1>5 DEF Returns
    <3>4. RsvMap(w.fdt) = SubSeq(s, 1, n) \o SubSeq(s, n + 2, Len(s))
      <4>1. s = RsvMap(fdt)
        BY DEF s
      <4>2. ASSUME NEW b, b = fdt, NEW v, v = w.fdt
            PROVE  LeftOut(RsvMap(v), s, n)
        <5>1. /\ NumMemRsv(b) \in Nat /\ n \in Nat /\ n < NumMemRsv(b)
              /\ EntryDeleted(b, v, n) /\ s = RsvMap(b)
          BY <1>2, <2>3, <4>1, <4>2
        <5> QED BY <5>1, DeletedIsLeftOut
      <4> QED BY <4>2 DEF LeftOut
    <3>5. ~(n >= Len(s))
      BY <1>2, <1>4, <2>3
    <3> QED BY <3>2, <3>3, <3>4, <3>5, <2>3
  <2> QED BY <2>1, <2>2, <2>3
<1> HIDE DEF w
<1>6. Tree!DelMemRsv(n)
  BY <1>3, <1>5 DEF Tree!DelMemRsv, Tree!Moves, c, s
<1> QED BY <1>4, <1>6

LEMMA PackEditsTree ==
  ASSUME Viewed, Pack
  PROVE  Tree!Pack
<1> DEFINE c == <<"pack">>
           w == fdt_pack(fdt)
<1>1. Returns(c, Checked(fdt, w))
  BY DEF Pack
<1>2. Sound(fdt) /\ fdt.size_dt_strings \in Nat
  BY NumbersAre DEF Viewed, BlobIsSound
<1>3. \/ Misordered(fdt, RsvSize) /\ Tree!Fails(c, BADLAYOUT)
      \/ ~Misordered(fdt, RsvSize) /\ Returns(c, w)
  BY <1>1, CheckedIs
<1>4. ASSUME ~Misordered(fdt, RsvSize), Returns(c, w)
      PROVE  /\ RsvMap(fdt') = RsvMap(fdt) /\ call' = <<"pack", 0>>
             /\ view'.tree = view.tree
             /\ (~Misordered(fdt, RsvSize))' = ~Misordered(fdt, RsvSize)
  <2>1. Kept(fdt, w.fdt) /\ SaysSame(fdt, w.fdt)
    BY <1>2, <1>4, PackKeeps
  <2>2. w.ret = 0
    BY DEF fdt_pack, Result
  <2> HIDE DEF w
  <2>3. UsualOrder(w.fdt) /\ UsualOrder(fdt) /\ Sound(w.fdt)
    BY <1>2, <1>4, <2>1, OrderIs DEF StaysSound, Kept
  <2>4. ReadAlike(fdt, w.fdt) /\ RsvMap(w.fdt) = RsvMap(fdt)
    BY <1>2, <2>1, SaysSameReads
  <2>5. /\ view'.tree = view.tree /\ call' = Append(c, w.ret)
        /\ (~Misordered(fdt, RsvSize))' = ~Misordered(fdt, RsvSize)
    BY <2>3, <2>4, <1>4, SameTree
  <2>6. fdt' = w.fdt
    BY <1>4 DEF Returns
  <2>7. call' = <<"pack", 0>>
    BY <2>5, <2>2, ResultIsLast
  <2> QED BY <2>4, <2>5, <2>6, <2>7
<1> HIDE DEF w
<1> QED BY <1>3, <1>4 DEF Tree!Pack, Tree!Moves, c

LEMMA OpenIntoEditsTree ==
  ASSUME Viewed, OpenInto
  PROVE  Tree!OpenInto
<1> DEFINE c == <<"open_into">>
<1>1. PICK w \in fdt_open_into(fdt, BUF_SIZE) : Returns(c, w)
  BY DEF OpenInto
<1>2. /\ Sound(fdt) /\ fdt.boot_cpuid_phys \in CpuIds
      /\ fdt.size_dt_strings \in Nat
  BY NumbersAre DEF Viewed, BlobIsSound
<1>3. /\ Sound(w.fdt) /\ SaysSame(fdt, w.fdt)
      /\ \/ w.ret = NOSPACE /\ w.fdt = fdt
         \/ w.ret = 0 /\ UsualOrder(w.fdt)
  BY <1>2, OpenIntoKeeps
<1>4. CASE w.ret = NOSPACE /\ w.fdt = fdt
  <2>1. Tree!Fails(c, NOSPACE)
    BY <1>1, <1>4, NothingIsDone
  <2> QED BY <2>1 DEF Tree!OpenInto
<1>5. CASE w.ret = 0 /\ UsualOrder(w.fdt)
  <2>1. fdt' = w.fdt /\ view' = Contents(w.fdt) /\ call' = Append(c, 0)
    BY <1>1, <1>5 DEF Returns
  <2>2. ReadAlike(fdt, w.fdt) /\ RsvMap(w.fdt) = RsvMap(fdt)
    BY <1>2, <1>3, SaysSameReads
  <2>3. Contents(w.fdt) = Contents(fdt)
    <3>1. HasStruct(fdt) /\ HasStruct(w.fdt)
      BY <1>2, <1>3, SoundIs
    <3> QED BY <2>2, <3>1, ContentsAreAlike
  <2>4. (~Misordered(fdt, RsvSize))'
    BY <1>3, <1>5, <2>1, OrderIs
  <2>5. view' = view
    BY <2>1, <2>3 DEF Viewed
  <2>6. call' = <<"open_into", 0>>
    BY <2>1, ResultIsLast
  <2> QED BY <2>1, <2>2, <2>4, <2>5, <2>6 DEF Tree!OpenInto
<1> QED BY <1>3, <1>4, <1>5

-----------------------------------------------------------------------------
(* The tree as it is read.                                                 *)

IsMap(f) == f = [x \in DOMAIN f |-> f[x]]

(* Every name of a path is that of a node above it, up to its own.         *)
IsTreeOf(t) ==
  /\ DOMAIN t \subseteq Seq(NodeNames) \ {Nowhere}
  /\ \A q \in DOMAIN t : \A k \in 1 .. Len(q) : SubSeq(q, 1, k) \in DOMAIN t
  /\ IsMap(t) /\ \A q \in DOMAIN t : IsMap(t[q])

IsTidy(c) ==
  /\ c.path \in Seq(NodeNames)
  /\ c.path # Nowhere => c.path \in DOMAIN c.tree
  /\ IsTreeOf(c.tree)

(* What a tag adds, with what is in it: the name of a node, the name and   *)
(* the value of a property.                                                *)
Grows(c, r, tag, node, prop, val) ==
  /\ tag = "BEGIN_NODE" =>
       r.path = Append(c.path, node) /\ r.tree = Put(c.tree, r.path, << >>)
  /\ tag = "END_NODE" => r.path = Front(c.path) /\ r.tree = c.tree
  /\ tag = "PROP" =>
       /\ r.path = c.path
       /\ r.tree = [c.tree EXCEPT ![c.path] = Put(@, prop, val)]
  /\ tag = "NOP" => r.path = c.path /\ r.tree = c.tree

LEMMA TreeGrows ==
  ASSUME NEW t, IsTreeOf(t), NEW s \in Seq(NodeNames), s # Nowhere => s \in DOMAIN t,
         NEW x \in NodeNames, NEW r, r = Append(s, x), NEW u, u = Put(t, r, << >>)
  PROVE  IsTreeOf(u) /\ r \in DOMAIN u /\ r # Nowhere /\ r \in Seq(NodeNames)
<1>1. DOMAIN u = DOMAIN t \cup {r} /\ u[r] = << >> /\ IsMap(u)
      /\ \A q \in DOMAIN t : q # r => u[q] = t[q]
  BY DEF Put, IsMap
<1>2. /\ r \in Seq(NodeNames) /\ Len(r) = Len(s) + 1 /\ Len(s) \in Nat /\ r # Nowhere
      /\ \A k \in 1 .. Len(s) : SubSeq(r, 1, k) = SubSeq(s, 1, k)
  BY LongerPath DEF Nowhere
<1>3. SubSeq(r, 1, Len(r)) = r
  BY <1>2, PrefixIs
<1>4. DOMAIN u \subseteq Seq(NodeNames) \ {Nowhere}
  BY <1>1, <1>2 DEF IsTreeOf
<1>5. ASSUME NEW q \in DOMAIN u, NEW k \in 1 .. Len(q)
      PROVE  SubSeq(q, 1, k) \in DOMAIN u
  <2>1. CASE q \in DOMAIN t
    BY <1>1, <1>5, <2>1 DEF IsTreeOf
  <2>2. CASE q = r /\ k = Len(r)
    BY <1>1, <1>3, <2>2
  <2>3. CASE q = r /\ k # Len(r)
    <3>1. k \in 1 .. Len(s) /\ s # Nowhere
      BY <1>2, <1>5, <2>3 DEF Nowhere
    <3>2. SubSeq(q, 1, k) = SubSeq(s, 1, k) /\ s \in DOMAIN t
      BY <1>2, <2>3, <3>1
    <3> QED BY <1>1, <3>1, <3>2 DEF IsTreeOf
  <2> QED BY <1>1, <1>5, <2>1, <2>2, <2>3
<1>6. ASSUME NEW q \in DOMAIN u  PROVE IsMap(u[q])
  <2>1. IsMap(<< >>)
    BY DEF IsMap
  <2> QED BY <1>1, <1>6, <2>1 DEF IsTreeOf
<1> QED BY <1>1, <1>2, <1>4, <1>5, <1>6 DEF IsTreeOf

LEMMA TreeFills ==
  ASSUME NEW t, IsTreeOf(t), NEW s \in DOMAIN t, NEW x, NEW v,
         NEW u, u = [t EXCEPT ![s] = Put(@, x, v)]
  PROVE  IsTreeOf(u) /\ DOMAIN u = DOMAIN t
<1>1. /\ DOMAIN u = DOMAIN t /\ u[s] = Put(t[s], x, v)
      /\ \A q \in DOMAIN t : q # s => u[q] = t[q]
      /\ IsMap(u)
  BY DEF IsMap
<1>2. IsMap(u[s])
  BY <1>1 DEF Put, IsMap
<1> QED BY <1>1, <1>2 DEF IsTreeOf

LEMMA TidyGrows ==
  ASSUME NEW c, IsTidy(c), NEW r, NEW tag \in {"BEGIN_NODE", "END_NODE", "PROP", "NOP"},
         NEW node, tag = "BEGIN_NODE" => node \in NodeNames, NEW prop, NEW val,
         tag \in {"END_NODE", "PROP"} => c.path # Nowhere,
         Grows(c, r, tag, node, prop, val)
  PROVE  IsTidy(r) /\ (tag = "BEGIN_NODE" => r.path # Nowhere)
<1>1. /\ c.path \in Seq(NodeNames)
      /\ c.path # Nowhere => c.path \in DOMAIN c.tree
      /\ IsTreeOf(c.tree)
  BY DEF IsTidy
<1>2. CASE tag = "BEGIN_NODE"
  <2>1. /\ r.path = Append(c.path, node) /\ r.tree = Put(c.tree, r.path, << >>)
    BY <1>2 DEF Grows
  <2>2. IsTreeOf(r.tree) /\ r.path \in DOMAIN r.tree /\ r.path # Nowhere
        /\ r.path \in Seq(NodeNames)
    BY <1>1, <1>2, <2>1, TreeGrows
  <2> QED BY <2>2 DEF IsTidy
<1>3. CASE tag = "END_NODE"
  <2>1. r.path = Front(c.path) /\ r.tree = c.tree /\ c.path # << >>
    BY <1>3 DEF Grows, Nowhere
  <2>2. /\ r.path \in Seq(NodeNames) /\ Len(r.path) = Len(c.path) - 1
        /\ Len(c.path) \in Nat /\ Len(c.path) > 0
        /\ \A i \in 1 .. Len(r.path) : r.path[i] = c.path[i]
    BY <1>1, <2>1, ShorterPath
  <2>3. ASSUME r.path # Nowhere
        PROVE  r.path \in DOMAIN c.tree
    <3> DEFINE k == Len(c.path) - 1
               f == SubSeq(c.path, 1, k)
    <3>1. k \in 0 .. Len(c.path) /\ k \in Nat
      BY <2>2
    <3>2. f \in Seq(NodeNames) /\ Len(f) = k /\ \A i \in 1 .. k : f[i] = c.path[i]
      BY <1>1, <3>1, PrefixIs
    <3>3. r.path = f
      <4> HIDE DEF f
      <4> QED BY <2>2, <3>2, EqualSequences
    <3>4. r.path \in Seq(NodeNames) /\ Len(r.path) = k /\ r.path # << >>
      BY <2>2, <2>3 DEF Nowhere
    <3>5. c.path \in DOMAIN c.tree
      BY <1>1, <2>1 DEF Nowhere
    <3>6. k \in 1 .. Len(c.path)
      <4> HIDE DEF k
      <4>1. k # 0
        BY <3>4
      <4> QED BY <3>1, <4>1
    <3> HIDE DEF k
    <3> QED BY <1>1, <3>3, <3>5, <3>6 DEF IsTreeOf
  <2> QED BY <1>1, <1>3, <2>1, <2>2, <2>3 DEF IsTidy
<1>4. CASE tag = "PROP"
  <2>1. r.path = c.path /\ r.tree = [c.tree EXCEPT ![c.path] = Put(@, prop, val)]
        /\ c.path \in DOMAIN c.tree
    BY <1>1, <1>4 DEF Grows
  <2>2. IsTreeOf(r.tree) /\ DOMAIN r.tree = DOMAIN c.tree
    BY <1>1, <2>1, TreeFills
  <2> QED BY <1>1, <1>4, <2>1, <2>2 DEF IsTidy
<1>5. CASE tag = "NOP"
  BY <1>1, <1>5 DEF Grows, IsTidy
<1> QED BY <1>2, <1>3, <1>4, <1>5

(* What a reader knows in front of a tag and behind it, of a blob in which *)
(* all is well and no two nodes have the same path.                        *)
Tells(b, o, c, r) ==
  /\ TagOf(b, o) \in {"BEGIN_NODE", "END_NODE", "PROP", "NOP"}
  /\ Grows(c, r, TagOf(b, o), NodeName(b, o), PropName(b, o), PropVal(b, o))
  /\ TagOf(b, o) = "BEGIN_NODE" =>
       /\ NodeName(b, o) \in NodeNames /\ r.path \notin DOMAIN c.tree
       /\ r.last = "BEGIN_NODE"
  /\ TagOf(b, o) = "END_NODE" => c.path # Nowhere /\ r.last = "END_NODE"
  /\ TagOf(b, o) = "PROP" =>
       /\ c.path # Nowhere /\ c.last = "BEGIN_NODE" /\ r.last = c.last
       /\ PropName(b, o) \notin DOMAIN c.tree[c.path]
  /\ TagOf(b, o) = "NOP" => r.last = c.last

NewPath(b, c, o) ==
  TagOf(b, o) = "BEGIN_NODE" =>
    Append(c.path, NodeName(b, o)) \notin DOMAIN c.tree

(* The blob is read, and each node has a path of its own.                  *)
IsStory(b, n, p, g) ==
  /\ IsReader(b, n, p, g) /\ Contents(b) = g[n]
  /\ \A i \in 0 .. n - 1 : NewPath(b, g[i], p[i])

Told(b) == \E n, p, g : IsStory(b, n, p, g)

LEMMA ReadTells ==
  ASSUME NEW b, HasStruct(b), NEW o \in Tags(b), TagOf(b, o) # "END",
         NEW c, Opened(c), IsTidy(c), NewPath(b, c, o),
         NEW r, Reads(b, c, o, r), r.ok
  PROVE  Tells(b, o, c, r) /\ IsTidy(r)
<1>1. /\ NextTag(b, o).tag = TagOf(b, o)
      /\ TagOf(b, o) \in {"BEGIN_NODE", "END_NODE", "PROP", "NOP"}
  <2>1. TagOf(b, o) \in TagKinds
    BY TagAt
  <2> QED BY <2>1, NextTagIs DEF TagKinds
<1>2. TagOf(b, o) = "BEGIN_NODE" => NodeName(b, o) \in NodeNames
  BY DEF HasStruct, StructIsSound, TagIsSound, TagOf
<1>3. Grows(c, r, TagOf(b, o), NodeName(b, o), PropName(b, o), PropVal(b, o))
  BY <1>1 DEF Reads, Grows
<1>4. CASE TagOf(b, o) = "BEGIN_NODE"
  <2>1. r.path = Append(c.path, NodeName(b, o)) /\ r.last = "BEGIN_NODE"
    BY <1>1, <1>4 DEF Reads
  <2>2. r.path \notin DOMAIN c.tree
    BY <1>4, <2>1 DEF NewPath
  <2> QED BY <1>1, <1>2, <1>3, <1>4, <2>1, <2>2, TidyGrows DEF Tells
<1>5. CASE TagOf(b, o) = "END_NODE"
  <2>1. r.ok = (c.ok /\ c.path # Nowhere) /\ r.last = "END_NODE"
    BY <1>1, <1>5 DEF Reads
  <2>2. c.path # Nowhere
    BY <2>1
  <2> QED BY <1>1, <1>2, <1>3, <1>5, <2>1, <2>2, TidyGrows DEF Tells
<1>6. CASE TagOf(b, o) = "PROP"
  <2>1. /\ r.ok = (c.ok /\ c.last = "BEGIN_NODE" /\ PropName(b, o) \notin DOMAIN c.tree[c.path])
        /\ r.last = c.last
    BY <1>1, <1>6 DEF Reads
  <2>2. c.last = "BEGIN_NODE" /\ PropName(b, o) \notin DOMAIN c.tree[c.path]
    BY <2>1
  <2>3. c.path \in DOMAIN c.tree
    BY <2>2 DEF Opened
  <2>4. c.path # Nowhere
    BY <2>3 DEF IsTidy, IsTreeOf
  <2> QED BY <1>1, <1>2, <1>3, <1>6, <2>1, <2>2, <2>4, TidyGrows DEF Tells
<1>7. CASE TagOf(b, o) = "NOP"
  <2>1. r = c
    BY <1>1, <1>7 DEF Reads
  <2> QED BY <1>1, <1>2, <1>3, <1>7, <2>1 DEF Tells
<1> QED BY <1>1, <1>4, <1>5, <1>6, <1>7

LEMMA BlankIsTidy == IsTidy(Blank) /\ Blank.path = Nowhere /\ Blank.tree = << >>
<1>1. Blank.path = << >> /\ Blank.tree = << >>
  BY DEF Blank, Nowhere
<1>2. DOMAIN << >> = {} /\ << >> \in Seq(NodeNames) /\ IsMap(<< >>)
  BY DEF IsMap
<1>3. IsTreeOf(<< >>)
  BY <1>2 DEF IsTreeOf
<1> QED BY <1>1, <1>2, <1>3 DEF IsTidy, Nowhere

(* What a reader knows all the way.                                        *)
LEMMA StoryIs ==
  ASSUME NEW b, HasStruct(b), Ordered(b), NEW n, NEW p, NEW g, IsStory(b, n, p, g)
  PROVE  /\ n \in Nat /\ g[n].path = Nowhere /\ g[0] = Blank
         /\ \A i \in 0 .. n : IsTidy(g[i]) /\ p[i] \in Tags(b)
         /\ \A i \in 0 .. n - 1 :
              /\ i \in 0 .. n /\ i + 1 \in 0 .. n
              /\ Tells(b, p[i], g[i], g[i + 1])
<1> DEFINE T == {i \in 0 .. n : IsTidy(g[i])}
<1>1. IsReader(b, n, p, g) /\ Contents(b) = g[n]
  BY DEF IsStory
<1>2. g[n].ok = TRUE /\ g[n].path = Nowhere
  BY <1>1, OrderedIsWhole
<1>3. \A i \in 0 .. n : Opened(g[i]) /\ g[i].ok
  BY <1>1, <1>2, AllIsWell
<1>4. /\ n \in Nat /\ \A i \in 0 .. n : p[i] \in Tags(b)
      /\ \A i \in 0 .. n - 1 :
           /\ i \in 0 .. n /\ i + 1 \in 0 .. n
           /\ TagOf(b, p[i]) # "END"
           /\ Reads(b, g[i], p[i], g[i + 1])
  BY <1>1, ReaderGoesOn
<1>5. g[0] = Blank /\ 0 \in T
  BY <1>1, <1>4, BlankIsTidy DEF IsReader
<1>6. ASSUME NEW i \in 0 .. n - 1, IsTidy(g[i])
      PROVE  Tells(b, p[i], g[i], g[i + 1]) /\ IsTidy(g[i + 1])
  <2> DEFINE c == g[i]
             r == g[i + 1]
             o == p[i]
  <2>1. /\ o \in Tags(b) /\ TagOf(b, o) # "END" /\ Opened(c) /\ r.ok
        /\ IsTidy(c) /\ Reads(b, c, o, r)
    BY <1>3, <1>4, <1>6
  <2>2. NewPath(b, c, o)
    BY DEF IsStory
  <2> HIDE DEF c, r, o
  <2>3. Tells(b, o, c, r) /\ IsTidy(r)
    BY <2>1, <2>2, ReadTells
  <2> QED BY <2>3 DEF c, r, o
<1>7. \A i \in 0 .. n : IsTidy(g[i])
  <2>1. \A i \in 0 .. n - 1 : i \in T => i + 1 \in T
    BY <1>4, <1>6
  <2> HIDE DEF T
  <2>2. 0 .. n \subseteq T
    BY <1>4, <1>5, <2>1, UpTo
  <2> QED BY <2>2 DEF T
<1> QED BY <1>2, <1>4, <1>5, <1>6, <1>7

LEMMA FromTo ==
  ASSUME NEW k \in Nat, NEW n \in Nat, k <= n, NEW T, k \in T,
         \A i \in k .. n - 1 : i \in T => i + 1 \in T
  PROVE  k .. n \subseteq T
<1> DEFINE U == {l \in 0 .. n - k : k + l \in T}
<1>1. n - k \in Nat /\ 0 \in U
  OBVIOUS
<1>2. ASSUME NEW l \in 0 .. n - k - 1, l \in U  PROVE l + 1 \in U
  <2>1. k + l \in k .. n - 1 /\ (k + l) + 1 = k + (l + 1) /\ l + 1 \in 0 .. n - k
    OBVIOUS
  <2> QED BY <1>2, <2>1
<1>3. 0 .. n - k \subseteq U
  <2> HIDE DEF U
  <2> QED BY <1>1, <1>2, UpTo
<1>4. ASSUME NEW i \in k .. n  PROVE i \in T
  <2>1. i - k \in 0 .. n - k /\ k + (i - k) = i
    OBVIOUS
  <2>2. i - k \in U
    BY <1>3, <2>1
  <2> QED BY <2>1, <2>2
<1> QED BY <1>4

(* What is known of a node stays known.                                    *)
Extends(t, u) ==
  \A q \in DOMAIN t :
    /\ q \in DOMAIN u
    /\ \A x \in DOMAIN t[q] : x \in DOMAIN u[q] /\ u[q][x] = t[q][x]

LEMMA TellsMore ==
  ASSUME NEW b, NEW o, NEW c, IsTidy(c), NEW r, Tells(b, o, c, r)
  PROVE  Extends(c.tree, r.tree)
<1>1. CASE TagOf(b, o) = "BEGIN_NODE"
  <2>1. r.tree = Put(c.tree, r.path, << >>) /\ r.path \notin DOMAIN c.tree
    BY <1>1 DEF Tells, Grows
  <2> QED BY <2>1 DEF Put, Extends
<1>2. CASE TagOf(b, o) \in {"END_NODE", "NOP"}
  <2>1. r.tree = c.tree
    BY <1>2 DEF Tells, Grows
  <2> QED BY <2>1 DEF Extends
<1>3. CASE TagOf(b, o) = "PROP"
  <2> DEFINE x == PropName(b, o)
             v == PropVal(b, o)
             t == c.tree
             s == c.path
  <2>1. r.tree = [t EXCEPT ![s] = Put(t[s], x, v)]
    BY <1>3 DEF Tells, Grows
  <2>2. x \notin DOMAIN t[s]
    BY <1>3 DEF Tells
  <2> HIDE DEF x, v, t, s
  <2>3. Extends(t, r.tree)
    BY <2>1, <2>2 DEF Put, Extends
  <2> QED BY <2>3 DEF t
<1> QED BY <1>1, <1>2, <1>3 DEF Tells

LEMMA StoryGrows ==
  ASSUME NEW b, HasStruct(b), Ordered(b), NEW n, NEW p, NEW g, IsStory(b, n, p, g),
         NEW i \in 0 .. n, NEW j \in i .. n
  PROVE  Extends(g[i].tree, g[j].tree)
<1> DEFINE T == {l \in i .. n : Extends(g[i].tree, g[l].tree)}
<1>1. /\ n \in Nat /\ \A l \in 0 .. n : IsTidy(g[l])
      /\ \A l \in 0 .. n - 1 : Tells(b, p[l], g[l], g[l + 1])
  BY StoryIs
<1>2. i \in Nat /\ i <= n /\ i \in T
  BY <1>1 DEF Extends
<1>3. ASSUME NEW l \in i .. n - 1, l \in T  PROVE l + 1 \in T
  <2>1. l + 1 \in i .. n /\ l \in 0 .. n - 1 /\ l \in 0 .. n
    BY <1>1
  <2>2. Extends(g[l].tree, g[l + 1].tree)
    BY <1>1, <2>1, TellsMore
  <2>3. Extends(g[i].tree, g[l + 1].tree)
    BY <1>3, <2>2 DEF Extends
  <2> QED BY <2>1, <2>3
<1>4. i .. n \subseteq T
  <2> HIDE DEF T
  <2> QED BY <1>1, <1>2, <1>3, FromTo
<1> QED BY <1>4

(* The nodes are those that began.                                         *)
LEMMA NodeBegan ==
  ASSUME NEW b, HasStruct(b), Ordered(b), NEW n, NEW p, NEW g, IsStory(b, n, p, g),
         NEW j \in 0 .. n, NEW q \in DOMAIN g[j].tree
  PROVE  \E i \in 0 .. j - 1 : TagOf(b, p[i]) = "BEGIN_NODE" /\ g[i + 1].path = q
<1> DEFINE Began(l, s) ==
             \E i \in 0 .. l - 1 : TagOf(b, p[i]) = "BEGIN_NODE" /\ g[i + 1].path = s
           T == {l \in 0 .. n : \A s \in DOMAIN g[l].tree : Began(l, s)}
<1>1. /\ n \in Nat /\ g[0] = Blank
      /\ \A l \in 0 .. n : IsTidy(g[l])
      /\ \A l \in 0 .. n - 1 : Tells(b, p[l], g[l], g[l + 1])
  BY StoryIs
<1>2. 0 \in T
  BY <1>1, BlankIsTidy
<1>3. ASSUME NEW l \in 0 .. n - 1, l \in T  PROVE l + 1 \in T
  <2>1. l + 1 \in 0 .. n /\ l \in 0 .. n /\ l \in 0 .. (l + 1) - 1
        /\ 0 .. l - 1 \subseteq 0 .. (l + 1) - 1
    BY <1>1
  <2>2. ASSUME NEW s \in DOMAIN g[l + 1].tree  PROVE Began(l + 1, s)
    <3>1. ASSUME s \in DOMAIN g[l].tree  PROVE Began(l + 1, s)
      <4>1. Began(l, s)
        BY <1>3, <3>1
      <4> QED BY <2>1, <4>1
    <3>2. CASE TagOf(b, p[l]) = "BEGIN_NODE"
      <4>1. g[l + 1].tree = Put(g[l].tree, g[l + 1].path, << >>)
        BY <1>1, <3>2 DEF Tells, Grows
      <4>2. s \in DOMAIN g[l].tree \/ s = g[l + 1].path
        BY <2>2, <4>1 DEF Put
      <4> QED BY <2>1, <3>1, <3>2, <4>2
    <3>3. CASE TagOf(b, p[l]) # "BEGIN_NODE"
      <4>1. DOMAIN g[l + 1].tree = DOMAIN g[l].tree
        <5>1. Tells(b, p[l], g[l], g[l + 1])
          BY <1>1
        <5> QED BY <3>3, <5>1 DEF Tells, Grows
      <4> QED BY <2>2, <3>1, <4>1
    <3> QED BY <3>2, <3>3
  <2> HIDE DEF Began
  <2> QED BY <2>1, <2>2
<1>4. 0 .. n \subseteq T
  <2> HIDE DEF T
  <2> QED BY <1>1, <1>2, <1>3, UpTo
<1> QED BY <1>4

(* What the offsets of nodes stand for.                                    *)
LEMMA NodePathsAre ==
  ASSUME NEW b, HasStruct(b), Ordered(b), NEW n, NEW p, NEW g, IsStory(b, n, p, g),
         NEW v, v = Contents(b)
  PROVE  /\ \A i \in 0 .. n - 1 : TagOf(b, p[i]) = "BEGIN_NODE" =>
              /\ At(v, p[i]) = g[i + 1].path
              /\ g[i + 1].path # Nowhere /\ g[i + 1].path \in DOMAIN v.tree
         /\ \A o : ~(o \in Tags(b) /\ TagOf(b, o) = "BEGIN_NODE") => At(v, o) = Nowhere
<1>1. /\ n \in Nat /\ v = g[n] /\ IsReader(b, n, p, g)
      /\ \A l \in 0 .. n : IsTidy(g[l])
      /\ \A l \in 0 .. n - 1 : Tells(b, p[l], g[l], g[l + 1])
  BY StoryIs DEF IsStory
<1>2. ASSUME NEW i \in 0 .. n - 1, TagOf(b, p[i]) = "BEGIN_NODE"
      PROVE  /\ At(v, p[i]) = g[i + 1].path
             /\ g[i + 1].path # Nowhere /\ g[i + 1].path \in DOMAIN v.tree
  <2>1. i \in 0 .. n /\ i + 1 \in 0 .. n /\ n \in i + 1 .. n
    BY <1>1
  <2>2. /\ g[i + 1].path = Append(g[i].path, NodeName(b, p[i]))
        /\ g[i + 1].tree = Put(g[i].tree, g[i + 1].path, << >>)
    BY <1>1, <1>2 DEF Tells, Grows
  <2>3. At(v, p[i]) = g[i + 1].path
    <3>1. At(v, p[i]) = Append(g[i].path, NodeName(b, p[i]))
      <4>1. HasStruct(b) /\ IsReader(b, n, p, g) /\ v = g[n]
        BY <1>1
      <4>. QED
        BY <1>2, <2>1, <4>1, NodePathIs
    <3>. QED
      BY <2>2, <3>1
  <2>4. g[i + 1].path \in DOMAIN g[i + 1].tree
    BY <2>2 DEF Put
  <2>5. g[i + 1].path # Nowhere
    BY <1>1, <2>1, <2>4 DEF IsTidy, IsTreeOf
  <2>6. Extends(g[i + 1].tree, g[n].tree)
    BY <2>1, StoryGrows
  <2> QED BY <1>1, <2>3, <2>4, <2>5, <2>6 DEF Extends
<1>3. ASSUME NEW o, ~(o \in Tags(b) /\ TagOf(b, o) = "BEGIN_NODE")
      PROVE  At(v, o) = Nowhere
  <2>1. o \notin DOMAIN v.at
    BY <1>3, ContentsAre
  <2> QED BY <2>1 DEF At
<1> QED BY <1>2, <1>3

(* A node lasts from its beginning to where as few nodes are open as were  *)
(* in front of it.                                                         *)
Closes(g, i, z) ==
  /\ i < z /\ Len(g[z].path) = Len(g[i].path)
  /\ \A l \in i + 1 .. z - 1 : Len(g[l].path) > Len(g[i].path)

LEMMA DepthGoesOn ==
  ASSUME NEW b, NEW o, NEW c, IsTidy(c), NEW r, Tells(b, o, c, r)
  PROVE  /\ Len(c.path) \in Nat
         /\ TagOf(b, o) = "BEGIN_NODE" => Len(r.path) = Len(c.path) + 1
         /\ TagOf(b, o) = "END_NODE" => Len(c.path) > 0 /\ Len(r.path) = Len(c.path) - 1
         /\ TagOf(b, o) \in {"PROP", "NOP"} => r.path = c.path
<1>1. c.path \in Seq(NodeNames)
  BY DEF IsTidy
<1>2. CASE TagOf(b, o) = "BEGIN_NODE"
  <2>1. r.path = Append(c.path, NodeName(b, o)) /\ NodeName(b, o) \in NodeNames
    BY <1>2 DEF Tells, Grows
  <2> QED BY <1>1, <1>2, <2>1
<1>3. CASE TagOf(b, o) = "END_NODE"
  <2>1. r.path = Front(c.path) /\ c.path # << >>
    BY <1>3 DEF Tells, Grows, Nowhere
  <2>2. Len(r.path) = Len(c.path) - 1 /\ Len(c.path) \in Nat /\ Len(c.path) > 0
    BY <1>1, <2>1, ShorterPath
  <2> QED BY <1>3, <2>2
<1>4. CASE TagOf(b, o) \in {"PROP", "NOP"}
  <2>1. r.path = c.path
    BY <1>4 DEF Tells, Grows
  <2> QED BY <1>1, <1>4, <2>1
<1> QED BY <1>2, <1>3, <1>4 DEF Tells

LEMMA NodeEnds ==
  ASSUME NEW b, HasStruct(b), Ordered(b), NEW n, NEW p, NEW g, IsStory(b, n, p, g),
         NEW i \in 0 .. n - 1, TagOf(b, p[i]) = "BEGIN_NODE"
  PROVE  \E z \in i + 1 .. n : Closes(g, i, z)
<1> DEFINE k == Len(g[i].path)
           T == {l \in i + 1 .. n : Len(g[l].path) <= k}
<1>1. /\ n \in Nat /\ g[n].path = Nowhere
      /\ \A l \in 0 .. n : IsTidy(g[l])
      /\ \A l \in 0 .. n - 1 : Tells(b, p[l], g[l], g[l + 1])
  BY StoryIs
<1>2. ASSUME NEW l \in 0 .. n  PROVE Len(g[l].path) \in Nat
  BY <1>1 DEF IsTidy
<1>3. k \in Nat /\ Len(g[n].path) = 0
  BY <1>1, <1>2 DEF Nowhere
<1>4. n \in T
  BY <1>1, <1>3
<1>5. T \subseteq Nat
  BY <1>1
<1>6. PICK z \in T : \A l \in T : z <= l
  <2> HIDE DEF T
  <2> QED BY <1>4, <1>5, LeastNumber
<1>7. z \in i + 1 .. n /\ Len(g[z].path) <= k
  BY <1>6
<1>8. ASSUME NEW l \in i + 1 .. z - 1  PROVE Len(g[l].path) > k
  <2>1. l \in i + 1 .. n /\ l \in 0 .. n /\ ~(z <= l)
    BY <1>1, <1>7
  <2>2. Len(g[l].path) \in Nat
    BY <1>2, <2>1
  <2>3. l \notin T
    BY <1>6, <2>1
  <2>4. ~(Len(g[l].path) <= k)
    BY <2>1, <2>3
  <2> HIDE DEF k
  <2> QED BY <1>3, <2>2, <2>4
<1> DEFINE j == z - 1
<1>9. j \in 0 .. n - 1 /\ j + 1 = z /\ j >= i /\ j \in 0 .. n
  BY <1>1, <1>7
<1>10. Len(g[j].path) \in Nat /\ Tells(b, p[j], g[j], g[z]) /\ IsTidy(g[j])
  BY <1>1, <1>2, <1>9
<1>11. Len(g[z].path) >= Len(g[j].path) - 1
       /\ (j = i => Len(g[z].path) = k + 1)
  <2> HIDE DEF j
  <2>1. /\ TagOf(b, p[j]) = "BEGIN_NODE" => Len(g[z].path) = Len(g[j].path) + 1
        /\ TagOf(b, p[j]) = "END_NODE" => Len(g[z].path) = Len(g[j].path) - 1
        /\ TagOf(b, p[j]) \in {"PROP", "NOP"} => g[z].path = g[j].path
    BY <1>10, DepthGoesOn
  <2>2. TagOf(b, p[j]) \in {"BEGIN_NODE", "END_NODE", "PROP", "NOP"}
    BY <1>10 DEF Tells
  <2>3. Len(g[z].path) >= Len(g[j].path) - 1
    BY <1>10, <2>1, <2>2
  <2>4. j = i => Len(g[z].path) = k + 1
    BY <2>1
  <2> QED BY <2>3, <2>4
<1>12. j # i
  <2> HIDE DEF j, k
  <2> QED BY <1>3, <1>7, <1>11
<1>13. Len(g[j].path) > k
  BY <1>8, <1>9, <1>12
<1>14. Len(g[z].path) = k
  <2>1. Len(g[z].path) \in Nat
    BY <1>2, <1>7
  <2> HIDE DEF j, k
  <2> QED BY <1>3, <1>7, <1>10, <1>11, <1>13, <2>1
<1> QED BY <1>7, <1>8, <1>14 DEF Closes

-----------------------------------------------------------------------------
(* Which tags the tree is from.                                            *)

(* The i-th tag is where node s begins; where it has property x, with      *)
(* value v.                                                                *)
Begins(b, p, g, i, s) ==
  TagOf(b, p[i]) = "BEGIN_NODE" /\ g[i + 1].path = s

Gives(b, p, g, i, s, x, v) ==
  /\ TagOf(b, p[i]) = "PROP" /\ g[i].path = s
  /\ PropName(b, p[i]) = x /\ PropVal(b, p[i]) = v

LEMMA BeginsBefore ==
  ASSUME NEW b, HasStruct(b), Ordered(b), NEW n, NEW p, NEW g, IsStory(b, n, p, g),
         NEW i \in 0 .. n - 1, NEW j \in i + 1 .. n, NEW s, Begins(b, p, g, i, s)
  PROVE  s \in DOMAIN g[j].tree
<1>1. /\ n \in Nat /\ i + 1 \in 0 .. n /\ j \in i + 1 .. n
      /\ Tells(b, p[i], g[i], g[i + 1])
  BY StoryIs
<1>2. g[i + 1].tree = Put(g[i].tree, s, << >>)
  BY <1>1 DEF Tells, Grows, Begins
<1>3. s \in DOMAIN g[i + 1].tree
  BY <1>2 DEF Put
<1>4. Extends(g[i + 1].tree, g[j].tree)
  BY <1>1, StoryGrows
<1> QED BY <1>3, <1>4 DEF Extends

LEMMA BeginsOnce ==
  ASSUME NEW b, HasStruct(b), Ordered(b), NEW n, NEW p, NEW g, IsStory(b, n, p, g),
         NEW i \in 0 .. n - 1, NEW j \in 0 .. n - 1, NEW s,
         Begins(b, p, g, i, s), Begins(b, p, g, j, s)
  PROVE  i = j
<1>1. n \in Nat /\ \A l \in 0 .. n - 1 : Tells(b, p[l], g[l], g[l + 1])
  BY StoryIs
<1>2. s \notin DOMAIN g[i].tree /\ s \notin DOMAIN g[j].tree
  BY <1>1 DEF Tells, Begins
<1>3. ASSUME i < j  PROVE FALSE
  <2>1. j \in i + 1 .. n
    BY <1>1, <1>3
  <2> QED BY <1>2, <2>1, BeginsBefore
<1>4. ASSUME j < i  PROVE FALSE
  <2>1. i \in j + 1 .. n
    BY <1>1, <1>4
  <2> QED BY <1>2, <2>1, BeginsBefore
<1> QED BY <1>1, <1>3, <1>4

LEMMA GivenBefore ==
  ASSUME NEW b, HasStruct(b), Ordered(b), NEW n, NEW p, NEW g, IsStory(b, n, p, g),
         NEW i \in 0 .. n - 1, NEW j \in i + 1 .. n, NEW s, NEW x, NEW v,
         Gives(b, p, g, i, s, x, v)
  PROVE  /\ s \in DOMAIN g[j].tree
         /\ x \in DOMAIN g[j].tree[s] /\ g[j].tree[s][x] = v
<1>1. /\ n \in Nat /\ i \in 0 .. n /\ i + 1 \in 0 .. n /\ j \in i + 1 .. n
      /\ Tells(b, p[i], g[i], g[i + 1]) /\ IsTidy(g[i])
  BY StoryIs
<1>2. g[i + 1].tree = [g[i].tree EXCEPT ![s] = Put(g[i].tree[s], x, v)]
  BY <1>1 DEF Tells, Grows, Gives
<1>3. s \in DOMAIN g[i].tree
  BY <1>1 DEF Tells, Gives, IsTidy
<1>4. /\ s \in DOMAIN g[i + 1].tree
      /\ x \in DOMAIN g[i + 1].tree[s] /\ g[i + 1].tree[s][x] = v
  BY <1>2, <1>3 DEF Put
<1>5. Extends(g[i + 1].tree, g[j].tree)
  BY <1>1, StoryGrows
<1> QED BY <1>4, <1>5 DEF Extends

LEMMA PropertyGiven ==
  ASSUME NEW b, HasStruct(b), Ordered(b), NEW n, NEW p, NEW g, IsStory(b, n, p, g),
         NEW j \in 0 .. n, NEW s \in DOMAIN g[j].tree, NEW x \in DOMAIN g[j].tree[s]
  PROVE  \E i \in 0 .. j - 1 : Gives(b, p, g, i, s, x, g[j].tree[s][x])
<1> DEFINE Given(l, q, y, v) == \E i \in 0 .. l - 1 : Gives(b, p, g, i, q, y, v)
           All(l) == \A q \in DOMAIN g[l].tree : \A y \in DOMAIN g[l].tree[q] :
                       Given(l, q, y, g[l].tree[q][y])
           T == {l \in 0 .. n : All(l)}
<1>1. /\ n \in Nat /\ g[0] = Blank
      /\ \A l \in 0 .. n : IsTidy(g[l])
      /\ \A l \in 0 .. n - 1 : Tells(b, p[l], g[l], g[l + 1])
  BY StoryIs
<1>2. 0 \in T
  BY <1>1, BlankIsTidy
<1>3. ASSUME NEW l \in 0 .. n - 1, All(l)  PROVE All(l + 1)
  <2> DEFINE c == g[l]
             r == g[l + 1]
             o == p[l]
  <2>1. /\ l \in 0 .. (l + 1) - 1 /\ 0 .. l - 1 \subseteq 0 .. (l + 1) - 1
        /\ Tells(b, o, c, r) /\ IsTidy(c)
    BY <1>1
  <2>2. \A q, y, v : Given(l, q, y, v) => Given(l + 1, q, y, v)
    BY <2>1
  <2>3. \A q, y, v : Gives(b, p, g, l, q, y, v) => Given(l + 1, q, y, v)
    BY <2>1
  <2>4. \A q \in DOMAIN c.tree : \A y \in DOMAIN c.tree[q] :
          Given(l + 1, q, y, c.tree[q][y])
    BY <1>3, <2>2
  <2>5. ASSUME NEW q \in DOMAIN r.tree, NEW y \in DOMAIN r.tree[q]
        PROVE  Given(l + 1, q, y, r.tree[q][y])
    <3> HIDE DEF Given
    <3>1. CASE TagOf(b, o) = "BEGIN_NODE"
      <4>1. r.tree = Put(c.tree, r.path, << >>) /\ r.path \notin DOMAIN c.tree
        BY <2>1, <3>1 DEF Tells, Grows
      <4> HIDE DEF c, r, o
      <4>2. q \in DOMAIN c.tree /\ r.tree[q] = c.tree[q]
        BY <2>5, <4>1 DEF Put
      <4> QED BY <2>4, <2>5, <4>2
    <3>2. CASE TagOf(b, o) \in {"END_NODE", "NOP"}
      <4>1. r.tree = c.tree
        BY <2>1, <3>2 DEF Tells, Grows
      <4> HIDE DEF c, r, o
      <4> QED BY <2>4, <2>5, <4>1
    <3>3. CASE TagOf(b, o) = "PROP"
      <4> DEFINE x0 == PropName(b, o)
                 v0 == PropVal(b, o)
                 s0 == c.path
      <4>1. r.tree = [c.tree EXCEPT ![s0] = Put(c.tree[s0], x0, v0)]
        BY <2>1, <3>3 DEF Tells, Grows
      <4>2. s0 \in DOMAIN c.tree
        BY <2>1, <3>3 DEF Tells, IsTidy
      <4>3. Gives(b, p, g, l, s0, x0, v0)
        BY <3>3 DEF Gives
      <4> HIDE DEF c, r, o, x0, v0, s0
      <4>4. CASE q = s0 /\ y = x0
        <5>1. r.tree[q][y] = v0
          BY <4>1, <4>2, <4>4 DEF Put
        <5> QED BY <2>3, <4>3, <4>4, <5>1
      <4>5. CASE ~(q = s0 /\ y = x0)
        <5>1. /\ q \in DOMAIN c.tree /\ y \in DOMAIN c.tree[q]
              /\ r.tree[q][y] = c.tree[q][y]
          BY <2>5, <4>1, <4>2, <4>5 DEF Put
        <5> QED BY <2>4, <5>1
      <4> QED BY <4>4, <4>5
    <3> QED BY <2>1, <3>1, <3>2, <3>3 DEF Tells
  <2> HIDE DEF Given
  <2> QED BY <2>5
<1>4. 0 .. n \subseteq T
  <2>1. \A l \in 0 .. n - 1 : l \in T => l + 1 \in T
    <3> HIDE DEF All
    <3> QED BY <1>1, <1>3
  <2> HIDE DEF T
  <2> QED BY <1>1, <1>2, <2>1, UpTo
<1> QED BY <1>4

(* A tree says that there is a node s, and that it has property x, with    *)
(* value v.                                                                *)
Says(t, s, x, v) == s \in DOMAIN t /\ x \in DOMAIN t[s] /\ t[s][x] = v

LEMMA TreeIs ==
  ASSUME NEW b, HasStruct(b), Ordered(b), NEW n, NEW p, NEW g, IsStory(b, n, p, g),
         NEW t, t = Contents(b).tree
  PROVE  /\ IsTreeOf(t)
         /\ \A s : s \in DOMAIN t <=> \E i \in 0 .. n - 1 : Begins(b, p, g, i, s)
         /\ \A s, x, v : Says(t, s, x, v) <=>
              \E i \in 0 .. n - 1 : Gives(b, p, g, i, s, x, v)
<1>1. n \in Nat /\ t = g[n].tree /\ \A l \in 0 .. n : IsTidy(g[l])
  BY StoryIs DEF IsStory
<1>2. n \in 0 .. n /\ \A i \in 0 .. n - 1 : n \in i + 1 .. n
  BY <1>1
<1>3. IsTreeOf(t)
  BY <1>1, <1>2 DEF IsTidy
<1>4. ASSUME NEW s
      PROVE  s \in DOMAIN t <=> \E i \in 0 .. n - 1 : Begins(b, p, g, i, s)
  <2>1. ASSUME s \in DOMAIN t  PROVE \E i \in 0 .. n - 1 : Begins(b, p, g, i, s)
    <3>1. s \in DOMAIN g[n].tree
      BY <1>1, <2>1
    <3> QED BY <1>2, <3>1, NodeBegan DEF Begins
  <2>2. ASSUME NEW i \in 0 .. n - 1, Begins(b, p, g, i, s)  PROVE s \in DOMAIN t
    BY <1>1, <1>2, <2>2, BeginsBefore
  <2> QED BY <2>1, <2>2
<1>5. ASSUME NEW s, NEW x, NEW v
      PROVE  Says(t, s, x, v) <=> \E i \in 0 .. n - 1 : Gives(b, p, g, i, s, x, v)
  <2>1. ASSUME Says(t, s, x, v)
        PROVE  \E i \in 0 .. n - 1 : Gives(b, p, g, i, s, x, v)
    <3>1. s \in DOMAIN g[n].tree /\ x \in DOMAIN g[n].tree[s] /\ g[n].tree[s][x] = v
      BY <1>1, <2>1 DEF Says
    <3> QED BY <1>2, <3>1, PropertyGiven
  <2>2. ASSUME NEW i \in 0 .. n - 1, Gives(b, p, g, i, s, x, v)
        PROVE  Says(t, s, x, v)
    <3>1. s \in DOMAIN g[n].tree /\ x \in DOMAIN g[n].tree[s] /\ g[n].tree[s][x] = v
      BY <1>2, <2>2, GivenBefore
    <3> QED BY <1>1, <3>1 DEF Says
  <2> QED BY <2>1, <2>2
<1> QED BY <1>3, <1>4, <1>5

LEMMA EqualTrees ==
  ASSUME NEW t, IsMap(t), \A s \in DOMAIN t : IsMap(t[s]),
         NEW u, IsMap(u), \A s \in DOMAIN u : IsMap(u[s]),
         \A s : s \in DOMAIN t <=> s \in DOMAIN u,
         \A s, x, v : Says(t, s, x, v) <=> Says(u, s, x, v)
  PROVE  t = u
<1>1. DOMAIN t = DOMAIN u
  OBVIOUS
<1>2. ASSUME NEW s \in DOMAIN t  PROVE t[s] = u[s]
  <2>1. s \in DOMAIN u /\ IsMap(t[s]) /\ IsMap(u[s])
    BY <1>1
  <2>2. ASSUME NEW x \in DOMAIN t[s]  PROVE x \in DOMAIN u[s] /\ u[s][x] = t[s][x]
    <3>1. Says(t, s, x, t[s][x])
      BY DEF Says
    <3>2. Says(u, s, x, t[s][x])
      BY <3>1
    <3> QED BY <3>2 DEF Says
  <2>3. ASSUME NEW x \in DOMAIN u[s]  PROVE x \in DOMAIN t[s]
    <3>1. Says(u, s, x, u[s][x])
      BY <2>1 DEF Says
    <3>2. Says(t, s, x, u[s][x])
      BY <3>1
    <3> QED BY <3>2 DEF Says
  <2> DEFINE f == t[s]
             e == u[s]
  <2>4. DOMAIN f = DOMAIN e /\ \A x \in DOMAIN f : f[x] = e[x]
    BY <2>2, <2>3
  <2>5. IsMap(f) /\ IsMap(e)
    BY <2>1
  <2> HIDE DEF f, e
  <2>6. f = e
    BY <2>4, <2>5 DEF IsMap
  <2> QED BY <2>6 DEF f, e
<1> QED BY <1>1, <1>2 DEF IsMap

(* A reader that never comes by the same path twice.                       *)
LEMMA OncePerPath ==
  ASSUME NEW b, HasStruct(b), NEW n, NEW p, NEW g, IsReader(b, n, p, g),
         Contents(b) = g[n],
         \A s : \A i, j \in 0 .. n - 1 :
           Begins(b, p, g, i, s) /\ Begins(b, p, g, j, s) => i = j
  PROVE  IsStory(b, n, p, g)
<1> DEFINE Began(l, s) == \E i \in 0 .. l - 1 : Begins(b, p, g, i, s)
           T == {l \in 0 .. n : \A s \in DOMAIN g[l].tree : Began(l, s)}
<1>1. /\ n \in Nat /\ g[0] = Blank
      /\ \A l \in 0 .. n - 1 : Reads(b, g[l], p[l], g[l + 1])
      /\ \A l \in 0 .. n - 1 : p[l] \in Tags(b)
  BY ReaderGoesOn DEF IsReader
<1>2. ASSUME NEW l \in 0 .. n - 1  PROVE NextTag(b, p[l]).tag = TagOf(b, p[l])
  BY <1>1, NextTagIs
<1>3. 0 \in T
  BY <1>1, BlankIsTidy
<1>4. ASSUME NEW l \in 0 .. n - 1, l \in T  PROVE l + 1 \in T
  <2> DEFINE c == g[l]
             r == g[l + 1]
  <2>1. /\ l + 1 \in 0 .. n /\ l \in 0 .. (l + 1) - 1
        /\ 0 .. l - 1 \subseteq 0 .. (l + 1) - 1
    BY <1>1
  <2>2. ASSUME NEW s \in DOMAIN r.tree  PROVE Began(l + 1, s)
    <3>1. ASSUME s \in DOMAIN c.tree  PROVE Began(l + 1, s)
      <4>1. Began(l, s)
        BY <1>4, <3>1
      <4> QED BY <2>1, <4>1
    <3>2. CASE TagOf(b, p[l]) = "BEGIN_NODE"
      <4>1. r.tree = Put(c.tree, r.path, << >>)
        BY <1>1, <1>2, <3>2 DEF Reads
      <4>2. s \in DOMAIN c.tree \/ s = r.path
        <5> HIDE DEF c, r
        <5> QED BY <2>2, <4>1 DEF Put
      <4>3. Begins(b, p, g, l, r.path)
        BY <3>2 DEF Begins
      <4> QED BY <2>1, <3>1, <4>2, <4>3
    <3>3. CASE TagOf(b, p[l]) # "BEGIN_NODE"
      <4>1. Reads(b, c, p[l], r) /\ NextTag(b, p[l]).tag = TagOf(b, p[l])
        BY <1>1, <1>2
      <4> HIDE DEF c, r
      <4>2. r.tree = c.tree \/ \E v : r.tree = [c.tree EXCEPT ![c.path] = v]
        BY <3>3, <4>1 DEF Reads
      <4>3. DOMAIN r.tree = DOMAIN c.tree
        BY <4>2
      <4> QED BY <2>2, <3>1, <4>3
    <3> QED BY <3>2, <3>3
  <2> HIDE DEF Began
  <2> QED BY <2>1, <2>2
<1>5. 0 .. n \subseteq T
  <2> HIDE DEF T
  <2> QED BY <1>1, <1>3, <1>4, UpTo
<1>6. ASSUME NEW i \in 0 .. n - 1  PROVE NewPath(b, g[i], p[i])
  <2> DEFINE s == Append(g[i].path, NodeName(b, p[i]))
  <2>1. SUFFICES ASSUME TagOf(b, p[i]) = "BEGIN_NODE", s \in DOMAIN g[i].tree
                 PROVE  FALSE
    BY DEF NewPath
  <2>2. g[i + 1].path = s
    BY <1>1, <1>2, <2>1 DEF Reads
  <2>3. Begins(b, p, g, i, s)
    BY <2>1, <2>2 DEF Begins
  <2>4. i \in T
    BY <1>1, <1>5
  <2>5. Began(i, s)
    <3> HIDE DEF Began, s
    <3> QED BY <2>1, <2>4
  <2>6. PICK j \in 0 .. i - 1 : Begins(b, p, g, j, s)
    BY <2>5
  <2>7. j \in 0 .. n - 1 /\ j # i
    BY <1>1
  <2> HIDE DEF s, Began, T
  <2> QED BY <2>3, <2>6, <2>7
<1> QED BY <1>6 DEF IsStory

(* Two tags, of two blobs or of one, that say the same.                    *)
SameText(b, o, c, u) ==
  /\ TagOf(c, u) = TagOf(b, o)
  /\ TagOf(b, o) = "BEGIN_NODE" => NodeName(c, u) = NodeName(b, o)
  /\ TagOf(b, o) = "PROP" =>
       PropName(c, u) = PropName(b, o) /\ PropVal(c, u) = PropVal(b, o)

LEMMA TextMoves ==
  ASSUME NEW b, HasStruct(b), NEW o \in Tags(b), NEW c, NEW d, IsMultiple(d),
         c.size_dt_strings \in Nat, c.size_dt_strings >= b.size_dt_strings,
         SameNames(b, c),
         \A i \in o .. Following(b, o) - 1 : Struct(c, i + d) = Struct(b, i)
  PROVE  SameText(b, o, c, o + d) /\ Following(c, o + d) = Following(b, o) + d
<1>1. /\ o \in Nat /\ LengthAt(b, o) \in Nat /\ LengthAt(b, o) >= FDT_TAGSIZE
      /\ Following(b, o) \in Nat /\ o + LengthAt(b, o) <= Following(b, o)
      /\ d \in Int
  BY TagAt DEF IsMultiple
<1>2. /\ TagOf(c, o + d) = TagOf(b, o)
      /\ Following(c, o + d) = Following(b, o) + d
      /\ TagOf(b, o) = "PROP" => NameOff(c, o + d) = NameOff(b, o)
  BY TagMoves
<1>3. /\ TagOf(b, o) = "BEGIN_NODE" => NodeName(b, o) \in NodeNames
      /\ TagOf(b, o) = "PROP" => /\ PropLen(b, o) \in Nat
                                 /\ NameOff(b, o) \in 0 .. b.size_dt_strings - 1
  BY DEF HasStruct, StructIsSound, TagIsSound, TagOf
<1>4. ASSUME TagOf(b, o) = "BEGIN_NODE"  PROVE NodeName(c, o + d) = NodeName(b, o)
  <2>1. LengthAt(b, o) = FDT_TAGSIZE + NodeLength[NodeName(b, o)] + 1
    BY <1>4 DEF LengthAt, TagLength
  <2>2. NodeLength[NodeName(b, o)] \in Nat
    BY <1>3, <1>4, NamesAssumption
  <2>3. o + FDT_TAGSIZE \in o .. Following(b, o) - 1
    BY <1>1, <2>1, <2>2, TagSizeIs
  <2>4. (o + FDT_TAGSIZE) + d = (o + d) + FDT_TAGSIZE
    BY <1>1, TagSizeIs
  <2> QED BY <2>3, <2>4 DEF NodeName
<1>5. ASSUME TagOf(b, o) = "PROP"
      PROVE  PropName(c, o + d) = PropName(b, o) /\ PropVal(c, o + d) = PropVal(b, o)
  <2>1. LengthAt(b, o) = PropHeader + PropLen(b, o)
    BY <1>5 DEF LengthAt, TagLength
  <2>2. PropLen(b, o) \in Nat /\ FDT_TAGSIZE \in Nat /\ FDT_TAGSIZE > 0
        /\ PropHeader = 3 * FDT_TAGSIZE
    BY <1>3, <1>5, TagSizeIs DEF PropHeader
  <2> DEFINE T == FDT_TAGSIZE
             len == PropLen(b, o)
             next == Following(b, o)
             all == LengthAt(b, o)
  <2>3. o + T \in o .. next - 1 /\ (o + T) + d = (o + d) + T
    <3> HIDE DEF len, next, all
    <3>1. all = 3 * T + len
      BY <2>1, <2>2 DEF all, len
    <3> QED BY <1>1, <2>2, <3>1 DEF len, next, all
  <2>4. PropLen(c, o + d) = len
    BY <2>3 DEF PropLen
  <2>5. ASSUME NEW i \in 1 .. len
        PROVE  Struct(c, o + d + PropHeader + i - 1) = Struct(b, o + PropHeader + i - 1)
    <3> DEFINE a == o + PropHeader + i - 1
    <3>1. a \in o .. next - 1 /\ o + d + PropHeader + i - 1 = a + d
      <4>1. all = 3 * T + len /\ PropHeader = 3 * T
        BY <2>1, <2>2 DEF all, len
      <4>2. len \in Nat /\ T \in Nat /\ o + all <= next /\ next \in Nat
        BY <1>1, <2>2
      <4> HIDE DEF len, next, all
      <4> QED BY <1>1, <4>1, <4>2
    <3> HIDE DEF a, next
    <3> QED BY <3>1 DEF a, next
  <2>6. PropVal(c, o + d) = PropVal(b, o)
    BY <2>4, <2>5 DEF PropVal
  <2>7. PropName(c, o + d) = PropName(b, o)
    <3>1. NameOff(c, o + d) = NameOff(b, o) /\ NameOff(b, o) \in 0 .. b.size_dt_strings - 1
      BY <1>2, <1>3, <1>5
    <3> QED BY <3>1 DEF PropName, SameNames
  <2> QED BY <2>6, <2>7
<1> QED BY <1>2, <1>4, <1>5 DEF SameText

(* The readers of a blob before an edit and after it: k tags are in front  *)
(* of the edit, and it puts kc - k in the place of kb - k; those behind    *)
(* move by d.                                                              *)
InStep(b, n, p, c, m, q, k, kb, kc, d) ==
  /\ n \in Nat /\ m \in Nat /\ k \in Nat /\ kb \in k .. n /\ kc \in k .. m
  /\ m - kc = n - kb
  /\ \A i \in 0 .. k : q[i] = p[i]
  /\ \A i \in 0 .. k - 1 : SameText(b, p[i], c, q[i])
  /\ \A j \in 0 .. n - kb : /\ q[kc + j] = p[kb + j] + d
                             /\ SameText(b, p[kb + j], c, q[kc + j])

LEMMA EditAligns ==
  ASSUME NEW b, HasStruct(b), NEW n, NEW p, NEW g, IsReader(b, n, p, g),
         NEW c, HasStruct(c), NEW m, NEW q, NEW h, IsReader(c, m, q, h),
         NEW o \in Tags(b), NEW old \in Nat, NEW new \in Nat, IsMultiple(new),
         o + old \in Tags(b), Edited(b, c, o, old, new), SameNames(b, c),
         NEW k \in 0 .. n, p[k] = o, NEW kb \in 0 .. n, p[kb] = o + old
  PROVE  \E kc \in k .. m :
           q[kc] = o + new /\ InStep(b, n, p, c, m, q, k, kb, kc, new - old)
<1> DEFINE d == new - old
<1>1. /\ n \in Nat /\ m \in Nat /\ k \in Nat /\ kb \in Nat
      /\ \A i \in 0 .. n : p[i] \in Nat /\ p[i] \in Tags(b)
      /\ \A i \in 0 .. n - 1 :
           /\ i \in 0 .. n /\ i + 1 \in 0 .. n
           /\ TagOf(b, p[i]) # "END" /\ p[i + 1] = Following(b, p[i])
      /\ \A i \in 0 .. m : q[i] \in Nat /\ q[i] \in Tags(c)
      /\ \A i \in 0 .. m - 1 :
           /\ i \in 0 .. m /\ i + 1 \in 0 .. m
           /\ TagOf(c, q[i]) # "END" /\ q[i + 1] = Following(c, q[i])
  BY ReaderGoesOn
<1>2. TagOf(b, p[n]) = "END" /\ TagOf(c, q[m]) = "END"
  BY DEF IsReader
<1>3. /\ c.size_dt_strings \in Nat /\ c.size_dt_strings >= b.size_dt_strings
      /\ \A i \in 0 .. o - 1 : Struct(c, i) = Struct(b, i)
      /\ \A i \in o + old .. b.size_dt_struct - 1 : Struct(c, i + d) = Struct(b, i)
  BY DEF Edited
<1>4. /\ IsMultiple(d) /\ d \in Int /\ IsMultiple(0) /\ o \in Nat
      /\ b.size_dt_struct \in Nat
  <2>1. IsMultiple(o) /\ IsMultiple(o + old) /\ o \in Nat
    BY TagAt
  <2>2. IsMultiple((o + old) - o)
    BY <2>1, Multiples
  <2>3. (o + old) - o = old
    BY <2>1
  <2>4. IsMultiple(new - old) /\ IsMultiple(0)
    BY <2>2, <2>3, Multiples
  <2>5. new - old \in Int
    OBVIOUS
  <2>6. b.size_dt_struct \in Nat
    BY DEF HasStruct
  <2> QED BY <2>1, <2>4, <2>5, <2>6
<1>5. o + new \in Tags(c)
  BY EditedTags
<1>6. \A i, j \in 0 .. n : p[i] < p[j] <=> i < j
  BY ReaderRises
<1>7. ASSUME NEW i \in 0 .. k  PROVE i \in 0 .. m /\ q[i] = p[i]
  <2>1. i \in 0 .. n /\ p[i] \in Nat
    BY <1>1
  <2>2. ~(p[k] < p[i])
    BY <1>1, <1>6, <2>1
  <2>3. SameTo(b, c, p[i])
    BY <1>3, <1>4, <2>1, <2>2 DEF SameTo
  <2> QED BY <1>3, <2>1, <2>3, FrontIsRead
<1>8. ASSUME NEW i \in 0 .. k - 1  PROVE SameText(b, p[i], c, q[i])
  <2> DEFINE t == p[i]
             next == p[i + 1]
             zero == 0
  <2>1. i \in 0 .. k /\ i \in 0 .. n - 1 /\ i \in 0 .. n /\ i + 1 \in 0 .. n
    BY <1>1
  <2>2. /\ t \in Tags(b) /\ t \in Nat /\ next = Following(b, t) /\ q[i] = t
        /\ next \in Nat
    BY <1>1, <1>7, <2>1
  <2>3. ~(p[k] < p[i + 1])
    BY <1>1, <1>6, <2>1
  <2>4. \A a \in t .. next - 1 : a \in 0 .. o - 1 /\ a + zero = a
    BY <1>4, <2>2, <2>3
  <2>5. t + zero = t /\ IsMultiple(zero)
    BY <1>4, <2>2
  <2> HIDE DEF t, next, zero
  <2>6. \A a \in t .. Following(b, t) - 1 : Struct(c, a + zero) = Struct(b, a)
    BY <1>3, <2>2, <2>4
  <2>7. SameText(b, t, c, t + zero)
    BY <1>3, <2>2, <2>5, <2>6, TextMoves
  <2> QED BY <2>2, <2>5, <2>7 DEF t
<1>9. PICK kc \in 0 .. m : q[kc] = o + new
  BY <1>5, EachIsRead
<1>10. k <= kb /\ k <= kc /\ kc \in Nat
  <2>1. ~(p[kb] < p[k])
    BY <1>1, <1>4
  <2>2. k \in 0 .. m /\ q[k] = o
    BY <1>1, <1>7
  <2>3. ~(q[kc] < q[k]) /\ \A i, j \in 0 .. m : q[i] < q[j] <=> i < j
    BY <1>4, <1>9, <2>2, ReaderRises
  <2> QED BY <1>1, <1>6, <1>9, <2>1, <2>2, <2>3
<1> DEFINE At2(j) == kc + j \in 0 .. m /\ q[kc + j] = p[kb + j] + d
           T == {j \in 0 .. n - kb : At2(j)}
<1>11. ASSUME NEW j \in 0 .. n - kb, At2(j)
       PROVE  /\ SameText(b, p[kb + j], c, q[kc + j])
              /\ Following(c, q[kc + j]) = Following(b, p[kb + j]) + d
  <2> DEFINE t == p[kb + j]
  <2>1. kb + j \in 0 .. n /\ t \in Tags(b) /\ t \in Nat
    BY <1>1
  <2>2. t >= o + old
    <3>1. ~(p[kb + j] < p[kb])
      BY <1>1, <1>6, <2>1
    <3> QED BY <1>1, <1>4, <2>1, <3>1
  <2>3. Following(b, t) <= b.size_dt_struct /\ Following(b, t) \in Nat
    BY <2>1, TagAt
  <2>4. \A a \in t .. Following(b, t) - 1 : Struct(c, a + d) = Struct(b, a)
    <3>1. \A a \in t .. Following(b, t) - 1 : a \in o + old .. b.size_dt_struct - 1
      BY <1>4, <2>1, <2>2, <2>3
    <3> QED BY <1>3, <3>1
  <2> HIDE DEF t, d
  <2>5. SameText(b, t, c, t + d) /\ Following(c, t + d) = Following(b, t) + d
    BY <1>3, <1>4, <2>1, <2>4, TextMoves
  <2> QED BY <1>11, <2>5 DEF t
<1>12. 0 \in T
  BY <1>1, <1>4, <1>9
<1>13. ASSUME NEW j \in 0 .. n - kb - 1, j \in T  PROVE j + 1 \in T
  <2>1. /\ j \in 0 .. n - kb /\ j + 1 \in 0 .. n - kb /\ kb + j \in 0 .. n - 1
        /\ kb + (j + 1) = (kb + j) + 1 /\ kc + (j + 1) = (kc + j) + 1
        /\ kc + j \in 0 .. m
    BY <1>1, <1>13
  <2>2. /\ SameText(b, p[kb + j], c, q[kc + j])
        /\ Following(c, q[kc + j]) = Following(b, p[kb + j]) + d
    BY <1>11, <1>13, <2>1
  <2>3. TagOf(c, q[kc + j]) # "END"
    BY <1>1, <2>1, <2>2 DEF SameText
  <2>4. kc + j \in 0 .. m - 1
    BY <1>1, <1>2, <2>1, <2>3
  <2>5. /\ q[(kc + j) + 1] = Following(c, q[kc + j]) /\ (kc + j) + 1 \in 0 .. m
        /\ p[(kb + j) + 1] = Following(b, p[kb + j])
    BY <1>1, <2>1, <2>4
  <2> HIDE DEF d
  <2> QED BY <2>1, <2>2, <2>5
<1>14. \A j \in 0 .. n - kb : At2(j)
  <2>1. n - kb \in Nat
    BY <1>1
  <2> HIDE DEF T
  <2>2. 0 .. n - kb \subseteq T
    BY <1>12, <1>13, <2>1, UpTo
  <2> QED BY <2>2 DEF T
<1>15. m - kc = n - kb
  <2> DEFINE j == n - kb
  <2>1. j \in 0 .. n - kb /\ kb + j = n
    BY <1>1
  <2> HIDE DEF j
  <2>2. kc + j \in 0 .. m /\ SameText(b, p[kb + j], c, q[kc + j])
    BY <1>11, <1>14, <2>1
  <2>3. TagOf(c, q[kc + j]) = "END"
    BY <1>2, <2>1, <2>2 DEF SameText
  <2>4. ~(kc + j \in 0 .. m - 1)
    BY <1>1, <2>3
  <2>5. kc + j = m
    BY <1>1, <1>10, <2>1, <2>2, <2>4
  <2> QED BY <1>1, <1>10, <2>1, <2>5
<1>16. \A j \in 0 .. n - kb : q[kc + j] = p[kb + j] + d
                             /\ SameText(b, p[kb + j], c, q[kc + j])
  BY <1>11, <1>14
<1>17. kb \in k .. n /\ kc \in k .. m
  BY <1>1, <1>9, <1>10
<1>18. InStep(b, n, p, c, m, q, k, kb, kc, d)
  <2> HIDE DEF d
  <2> QED BY <1>1, <1>7, <1>8, <1>15, <1>16, <1>17 DEF InStep
<1> QED BY <1>9, <1>17, <1>18

LEMMA SameStep ==
  ASSUME NEW b, HasStruct(b), NEW o \in Tags(b), NEW c, HasStruct(c), NEW u \in Tags(c),
         SameText(b, o, c, u), NEW cb, NEW rb, Reads(b, cb, o, rb),
         NEW cc, NEW rc, Reads(c, cc, u, rc), cc.path = cb.path
  PROVE  rc.path = rb.path
<1>1. /\ TagOf(b, o) = "BEGIN_NODE" => rb.path = Append(cb.path, NodeName(b, o))
      /\ TagOf(b, o) = "END_NODE" => rb.path = Front(cb.path)
      /\ TagOf(b, o) \notin {"BEGIN_NODE", "END_NODE"} => rb.path = cb.path
  BY PathGoesOn
<1>2. /\ TagOf(c, u) = "BEGIN_NODE" => rc.path = Append(cc.path, NodeName(c, u))
      /\ TagOf(c, u) = "END_NODE" => rc.path = Front(cc.path)
      /\ TagOf(c, u) \notin {"BEGIN_NODE", "END_NODE"} => rc.path = cc.path
  BY PathGoesOn
<1> QED BY <1>1, <1>2 DEF SameText

(* An edit after which the node that is open is the one that was.          *)
LEMMA SamePaths ==
  ASSUME NEW b, HasStruct(b), NEW n, NEW p, NEW g, IsReader(b, n, p, g),
         NEW c, HasStruct(c), NEW m, NEW q, NEW h, IsReader(c, m, q, h),
         NEW k, NEW kb, NEW kc, NEW d, InStep(b, n, p, c, m, q, k, kb, kc, d)
  PROVE  /\ \A i \in 0 .. k : h[i].path = g[i].path
         /\ h[kc].path = g[kb].path =>
              \A j \in 0 .. n - kb : h[kc + j].path = g[kb + j].path
<1>1. /\ n \in Nat /\ m \in Nat /\ k \in Nat /\ kb \in k .. n /\ kc \in k .. m
      /\ m - kc = n - kb
      /\ \A i \in 0 .. k - 1 : SameText(b, p[i], c, q[i])
      /\ \A j \in 0 .. n - kb : SameText(b, p[kb + j], c, q[kc + j])
  BY DEF InStep
<1>2. /\ \A i \in 0 .. n : p[i] \in Tags(b)
      /\ \A i \in 0 .. n - 1 : Reads(b, g[i], p[i], g[i + 1])
      /\ \A i \in 0 .. m : q[i] \in Tags(c)
      /\ \A i \in 0 .. m - 1 : Reads(c, h[i], q[i], h[i + 1])
  BY ReaderGoesOn
<1> DEFINE F == {i \in 0 .. k : h[i].path = g[i].path}
           B == {j \in 0 .. n - kb : h[kc + j].path = g[kb + j].path}
<1>3. 0 \in F
  BY <1>1 DEF IsReader
<1>4. ASSUME NEW i \in 0 .. k - 1, i \in F  PROVE i + 1 \in F
  <2>1. i \in 0 .. n /\ i \in 0 .. n - 1 /\ i \in 0 .. m /\ i \in 0 .. m - 1
        /\ i + 1 \in 0 .. k
    BY <1>1
  <2>2. h[i + 1].path = g[i + 1].path
    BY <1>1, <1>2, <1>4, <2>1, SameStep
  <2> QED BY <2>1, <2>2
<1>5. ASSUME NEW j \in 0 .. n - kb - 1, j \in B  PROVE j + 1 \in B
  <2>1. /\ kb + j \in 0 .. n /\ kb + j \in 0 .. n - 1
        /\ kc + j \in 0 .. m /\ kc + j \in 0 .. m - 1
        /\ j \in 0 .. n - kb /\ j + 1 \in 0 .. n - kb
        /\ (kb + j) + 1 = kb + (j + 1) /\ (kc + j) + 1 = kc + (j + 1)
    BY <1>1
  <2>2. h[(kc + j) + 1].path = g[(kb + j) + 1].path
    BY <1>1, <1>2, <1>5, <2>1, SameStep
  <2> QED BY <2>1, <2>2
<1>6. 0 .. k \subseteq F
  <2> HIDE DEF F
  <2> QED BY <1>1, <1>3, <1>4, UpTo
<1>7. ASSUME h[kc].path = g[kb].path  PROVE 0 .. n - kb \subseteq B
  <2>1. 0 \in B /\ n - kb \in Nat
    BY <1>1, <1>7
  <2> HIDE DEF B
  <2> QED BY <1>5, <2>1, UpTo
<1> QED BY <1>6, <1>7

(* The tags on both sides of an edit.                                      *)
Outside(n, k, kb) == (0 .. k - 1) \cup (kb .. n - 1)

(* All of the tags afterwards, with those outside as they were.            *)
LEMMA EditSays ==
  ASSUME NEW b, HasStruct(b), NEW n, NEW p, NEW g, IsReader(b, n, p, g),
         NEW c, HasStruct(c), NEW m, NEW q, NEW h, IsReader(c, m, q, h),
         NEW k, NEW kb, NEW kc, NEW d, InStep(b, n, p, c, m, q, k, kb, kc, d),
         h[kc].path = g[kb].path
  PROVE  /\ \A s : \A i \in 0 .. k - 1 : Begins(c, q, h, i, s) <=> Begins(b, p, g, i, s)
         /\ \A s : \A i \in kb .. n - 1 :
              Begins(c, q, h, i + (kc - kb), s) <=> Begins(b, p, g, i, s)
         /\ \A s, x, v : \A i \in 0 .. k - 1 :
              Gives(c, q, h, i, s, x, v) <=> Gives(b, p, g, i, s, x, v)
         /\ \A s, x, v : \A i \in kb .. n - 1 :
              Gives(c, q, h, i + (kc - kb), s, x, v) <=> Gives(b, p, g, i, s, x, v)
<1>1. /\ n \in Nat /\ m \in Nat /\ k \in Nat /\ kb \in k .. n /\ kc \in k .. m
      /\ \A i \in 0 .. k - 1 : SameText(b, p[i], c, q[i])
      /\ \A j \in 0 .. n - kb : SameText(b, p[kb + j], c, q[kc + j])
  BY DEF InStep
<1>2. /\ \A i \in 0 .. k : h[i].path = g[i].path
      /\ \A j \in 0 .. n - kb : h[kc + j].path = g[kb + j].path
  BY SamePaths
<1>3. ASSUME NEW i \in 0 .. k - 1
      PROVE  /\ SameText(b, p[i], c, q[i])
             /\ h[i].path = g[i].path /\ h[i + 1].path = g[i + 1].path
  BY <1>1, <1>2
<1>4. ASSUME NEW i \in kb .. n - 1, NEW l, l = i + (kc - kb)
      PROVE  /\ SameText(b, p[i], c, q[l])
             /\ h[l].path = g[i].path /\ h[l + 1].path = g[i + 1].path
  <2> DEFINE j == i - kb
  <2>1. /\ j \in 0 .. n - kb /\ j + 1 \in 0 .. n - kb
        /\ kb + j = i /\ kb + (j + 1) = i + 1 /\ kc + j = l /\ kc + (j + 1) = l + 1
    BY <1>1, <1>4
  <2> HIDE DEF j
  <2> QED BY <1>1, <1>2, <2>1
<1>5. ASSUME NEW i, NEW l, SameText(b, p[i], c, q[l]),
             h[l].path = g[i].path, h[l + 1].path = g[i + 1].path
      PROVE  /\ \A s : Begins(c, q, h, l, s) <=> Begins(b, p, g, i, s)
             /\ \A s, x, v : Gives(c, q, h, l, s, x, v) <=> Gives(b, p, g, i, s, x, v)
  <2>1. \A s : Begins(c, q, h, l, s) <=> Begins(b, p, g, i, s)
    BY <1>5 DEF SameText, Begins
  <2>2. \A s, x, v : Gives(c, q, h, l, s, x, v) <=> Gives(b, p, g, i, s, x, v)
    BY <1>5 DEF SameText, Gives
  <2> QED BY <2>1, <2>2
<1>6. ASSUME NEW i \in 0 .. k - 1
      PROVE  /\ \A s : Begins(c, q, h, i, s) <=> Begins(b, p, g, i, s)
             /\ \A s, x, v : Gives(c, q, h, i, s, x, v) <=> Gives(b, p, g, i, s, x, v)
  BY <1>3, <1>5
<1>7. ASSUME NEW i \in kb .. n - 1
      PROVE  /\ \A s : Begins(c, q, h, i + (kc - kb), s) <=> Begins(b, p, g, i, s)
             /\ \A s, x, v : Gives(c, q, h, i + (kc - kb), s, x, v)
                              <=> Gives(b, p, g, i, s, x, v)
  <2> DEFINE l == i + (kc - kb)
  <2>1. /\ SameText(b, p[i], c, q[l])
        /\ h[l].path = g[i].path /\ h[l + 1].path = g[i + 1].path
    BY <1>4
  <2> HIDE DEF l
  <2>2. /\ \A s : Begins(c, q, h, l, s) <=> Begins(b, p, g, i, s)
        /\ \A s, x, v : Gives(c, q, h, l, s, x, v) <=> Gives(b, p, g, i, s, x, v)
    BY <1>5, <2>1
  <2> QED BY <2>2 DEF l
<1> QED BY <1>6, <1>7

(* An edit that begins no node a second time.                              *)
NewNodesAreNew(b, n, p, g, c, q, h, k, kb, kc) ==
  \A s : \A i \in k .. kc - 1 : Begins(c, q, h, i, s) =>
    /\ \A j \in k .. kc - 1 : Begins(c, q, h, j, s) => i = j
    /\ \A j \in Outside(n, k, kb) : ~Begins(b, p, g, j, s)

(* Tree u is from the tags outside the edit and those put in.              *)
IsEdited(b, n, p, g, c, q, h, k, kb, kc, u) ==
  /\ \A s : s \in DOMAIN u <=>
       \/ \E i \in Outside(n, k, kb) : Begins(b, p, g, i, s)
       \/ \E i \in k .. kc - 1 : Begins(c, q, h, i, s)
  /\ \A s, x, v : Says(u, s, x, v) <=>
       \/ \E i \in Outside(n, k, kb) : Gives(b, p, g, i, s, x, v)
       \/ \E i \in k .. kc - 1 : Gives(c, q, h, i, s, x, v)

LEMMA EditedTree ==
  ASSUME NEW b, HasStruct(b), Ordered(b), NEW n, NEW p, NEW g, IsStory(b, n, p, g),
         NEW c, HasStruct(c), Ordered(c), NEW m, NEW q, NEW h, IsReader(c, m, q, h),
         Contents(c) = h[m],
         NEW k, NEW kb, NEW kc, NEW d, InStep(b, n, p, c, m, q, k, kb, kc, d),
         h[kc].path = g[kb].path,
         NewNodesAreNew(b, n, p, g, c, q, h, k, kb, kc),
         NEW u, u = Contents(c).tree
  PROVE  /\ IsStory(c, m, q, h) /\ IsTreeOf(u)
         /\ IsEdited(b, n, p, g, c, q, h, k, kb, kc, u)
<1> DEFINE Moved(l, i) == \/ i \in 0 .. k - 1 /\ l = i
                          \/ i \in kb .. n - 1 /\ l = i + (kc - kb)
           Out == Outside(n, k, kb)
<1>1. /\ n \in Nat /\ m \in Nat /\ k \in Nat /\ kb \in k .. n /\ kc \in k .. m
      /\ m - kc = n - kb /\ kb \in Nat /\ kc \in Nat
  BY DEF InStep
<1>2. IsReader(b, n, p, g)
  BY DEF IsStory
<1>3. /\ \A s : \A i \in 0 .. k - 1 : Begins(c, q, h, i, s) <=> Begins(b, p, g, i, s)
      /\ \A s : \A i \in kb .. n - 1 :
           Begins(c, q, h, i + (kc - kb), s) <=> Begins(b, p, g, i, s)
      /\ \A s, x, v : \A i \in 0 .. k - 1 :
           Gives(c, q, h, i, s, x, v) <=> Gives(b, p, g, i, s, x, v)
      /\ \A s, x, v : \A i \in kb .. n - 1 :
           Gives(c, q, h, i + (kc - kb), s, x, v) <=> Gives(b, p, g, i, s, x, v)
  BY <1>2, EditSays
<1>4. \A l, i : Moved(l, i) =>
        /\ i \in Out /\ l \in 0 .. m - 1 /\ i \in 0 .. n - 1
        /\ \A s : Begins(c, q, h, l, s) <=> Begins(b, p, g, i, s)
        /\ \A s, x, v : Gives(c, q, h, l, s, x, v) <=> Gives(b, p, g, i, s, x, v)
  <2>1. ASSUME NEW i \in 0 .. k - 1
        PROVE  i \in Out /\ i \in 0 .. m - 1 /\ i \in 0 .. n - 1
    BY <1>1 DEF Outside
  <2>2. ASSUME NEW i \in kb .. n - 1
        PROVE  i \in Out /\ i + (kc - kb) \in 0 .. m - 1 /\ i \in 0 .. n - 1
    BY <1>1 DEF Outside
  <2> HIDE DEF Out
  <2> QED BY <1>3, <2>1, <2>2
<1>5. ASSUME NEW l \in 0 .. m - 1, l \notin k .. kc - 1  PROVE \E i : Moved(l, i)
  <2>1. CASE l < k
    BY <1>1, <2>1
  <2>2. CASE l >= kc
    <3>1. l - (kc - kb) \in kb .. n - 1 /\ l = (l - (kc - kb)) + (kc - kb)
      BY <1>1, <2>2
    <3> QED BY <3>1
  <2> QED BY <1>1, <1>5, <2>1, <2>2
<1>6. ASSUME NEW i \in Out  PROVE \E l \in 0 .. m - 1 : Moved(l, i)
  <2>1. i \in 0 .. k - 1 \/ i \in kb .. n - 1
    BY DEF Outside
  <2>2. \E l : Moved(l, i)
    BY <2>1
  <2> HIDE DEF Moved
  <2> QED BY <1>4, <2>2
<1>7. \A l, f, i : Moved(l, i) /\ Moved(f, i) => l = f
  BY <1>1
<1>8. k .. kc - 1 \subseteq 0 .. m - 1
  BY <1>1
<1> HIDE DEF Moved, Out
<1>9. ASSUME NEW s, NEW l \in 0 .. m - 1, NEW f \in 0 .. m - 1,
             Begins(c, q, h, l, s), Begins(c, q, h, f, s)
      PROVE  l = f
  <2>1. CASE l \in k .. kc - 1 /\ f \in k .. kc - 1
    BY <1>9, <2>1 DEF NewNodesAreNew
  <2>2. ASSUME NEW a \in k .. kc - 1, NEW e \in 0 .. m - 1, e \notin k .. kc - 1,
               Begins(c, q, h, a, s), Begins(c, q, h, e, s)
        PROVE  FALSE
    <3>1. PICK i : Moved(e, i)
      BY <1>5, <2>2
    <3>2. i \in Out /\ Begins(b, p, g, i, s)
      BY <1>4, <2>2, <3>1
    <3> QED BY <2>2, <3>2 DEF NewNodesAreNew, Out
  <2>3. CASE l \notin k .. kc - 1 /\ f \notin k .. kc - 1
    <3>1. PICK i : Moved(l, i)
      BY <1>5, <2>3
    <3>2. PICK j : Moved(f, j)
      BY <1>5, <2>3
    <3>3. /\ i \in 0 .. n - 1 /\ Begins(b, p, g, i, s)
          /\ j \in 0 .. n - 1 /\ Begins(b, p, g, j, s)
      BY <1>4, <1>9, <3>1, <3>2
    <3>4. i = j
      BY <3>3, BeginsOnce
    <3> QED BY <1>7, <3>1, <3>2, <3>4
  <2> QED BY <1>9, <2>1, <2>2, <2>3
<1>10. IsStory(c, m, q, h)
  BY <1>9, OncePerPath
<1>11. /\ IsTreeOf(u)
       /\ \A s : s \in DOMAIN u <=> \E l \in 0 .. m - 1 : Begins(c, q, h, l, s)
       /\ \A s, x, v : Says(u, s, x, v) <=>
            \E l \in 0 .. m - 1 : Gives(c, q, h, l, s, x, v)
  BY <1>10, TreeIs
<1>12. ASSUME NEW s
       PROVE  (\E l \in 0 .. m - 1 : Begins(c, q, h, l, s)) <=>
                \/ \E i \in Out : Begins(b, p, g, i, s)
                \/ \E i \in k .. kc - 1 : Begins(c, q, h, i, s)
  <2>1. ASSUME NEW l \in 0 .. m - 1, Begins(c, q, h, l, s), l \notin k .. kc - 1
        PROVE  \E i \in Out : Begins(b, p, g, i, s)
    BY <1>4, <1>5, <2>1
  <2>2. ASSUME NEW i \in Out, Begins(b, p, g, i, s)
        PROVE  \E l \in 0 .. m - 1 : Begins(c, q, h, l, s)
    BY <1>4, <1>6, <2>2
  <2> QED BY <1>8, <2>1, <2>2
<1>13. ASSUME NEW s, NEW x, NEW v
       PROVE  (\E l \in 0 .. m - 1 : Gives(c, q, h, l, s, x, v)) <=>
                \/ \E i \in Out : Gives(b, p, g, i, s, x, v)
                \/ \E i \in k .. kc - 1 : Gives(c, q, h, i, s, x, v)
  <2>1. ASSUME NEW l \in 0 .. m - 1, Gives(c, q, h, l, s, x, v), l \notin k .. kc - 1
        PROVE  \E i \in Out : Gives(b, p, g, i, s, x, v)
    BY <1>4, <1>5, <2>1
  <2>2. ASSUME NEW i \in Out, Gives(b, p, g, i, s, x, v)
        PROVE  \E l \in 0 .. m - 1 : Gives(c, q, h, l, s, x, v)
    BY <1>4, <1>6, <2>2
  <2> QED BY <1>8, <2>1, <2>2
<1>14. IsEdited(b, n, p, g, c, q, h, k, kb, kc, u)
  BY <1>11, <1>12, <1>13 DEF IsEdited, Out
<1> QED BY <1>10, <1>11, <1>14

LEMMA QuietPath ==
  ASSUME NEW b, HasStruct(b), NEW n, NEW p, NEW g, IsReader(b, n, p, g),
         NEW k \in 0 .. n, NEW l \in k .. n,
         \A i \in k .. l - 1 : TagOf(b, p[i]) \in {"PROP", "NOP"}
  PROVE  \A i \in k .. l : g[i].path = g[k].path
<1> DEFINE T == {i \in k .. l : g[i].path = g[k].path}
<1>1. /\ n \in Nat /\ \A i \in 0 .. n : p[i] \in Tags(b)
      /\ \A i \in 0 .. n - 1 : Reads(b, g[i], p[i], g[i + 1])
  BY ReaderGoesOn
<1>2. k \in Nat /\ l \in Nat /\ k <= l /\ k \in T
  BY <1>1
<1>3. ASSUME NEW i \in k .. l - 1, i \in T  PROVE i + 1 \in T
  <2>1. i \in 0 .. n /\ i \in 0 .. n - 1 /\ i + 1 \in k .. l
    BY <1>1, <1>2
  <2>2. g[i + 1].path = g[i].path
    BY <1>1, <2>1, PathGoesOn
  <2> QED BY <1>3, <2>1, <2>2
<1>4. k .. l \subseteq T
  <2> HIDE DEF T
  <2> QED BY <1>2, <1>3, FromTo
<1> QED BY <1>4

(* Nothing but properties and NOPs changes from o to o + old, to what is   *)
(* then from o to o + new.                                                 *)
PropertiesEdited(b, c, o, old, new) ==
  /\ o \in Tags(b) /\ o + old \in Tags(b)
  /\ old \in Nat /\ new \in Nat /\ IsMultiple(new)
  /\ Edited(b, c, o, old, new) /\ SameNames(b, c)
  /\ \A a \in Tags(b) : o <= a /\ a < o + old => TagOf(b, a) \in {"PROP", "NOP"}
  /\ \A a \in Tags(c) : o <= a /\ a < o + new => TagOf(c, a) \in {"PROP", "NOP"}

(* A property there is now.                                                *)
IsPut(c, o, new, x, v) ==
  \E a \in Tags(c) : /\ o <= a /\ a < o + new /\ TagOf(c, a) = "PROP"
                     /\ PropName(c, a) = x /\ PropVal(c, a) = v

LEMMA PropertiesTold ==
  ASSUME NEW b, HasStruct(b), Ordered(b), NEW n, NEW p, NEW g, IsStory(b, n, p, g),
         NEW c, HasStruct(c), Ordered(c), NEW o, NEW old, NEW new,
         PropertiesEdited(b, c, o, old, new), NEW k \in 0 .. n, p[k] = o,
         NEW t, t = Contents(b).tree, NEW u, u = Contents(c).tree
  PROVE  /\ Told(c) /\ IsTreeOf(u)
         /\ \A s : s \in DOMAIN u <=> s \in DOMAIN t
         /\ \A s, x, v : Says(u, s, x, v) <=>
              \/ \E i \in 0 .. n - 1 : /\ ~(o <= p[i] /\ p[i] < o + old)
                                       /\ Gives(b, p, g, i, s, x, v)
              \/ s = g[k].path /\ IsPut(c, o, new, x, v)
<1>1. IsReader(b, n, p, g) /\ n \in Nat
  BY DEF IsStory, IsReader
<1>2. PICK m, q, h : IsReader(c, m, q, h) /\ Contents(c) = h[m]
  BY ContentsAreRead
<1>3. PICK kb \in 0 .. n : p[kb] = o + old
  BY <1>1, EachIsRead DEF PropertiesEdited
<1>4. PICK kc \in k .. m : /\ q[kc] = o + new
                           /\ InStep(b, n, p, c, m, q, k, kb, kc, new - old)
  BY <1>1, <1>2, <1>3, EditAligns DEF PropertiesEdited
<1>5. /\ m \in Nat /\ k \in Nat /\ kb \in k .. n /\ kb \in Nat
      /\ kc \in Nat /\ k \in 0 .. m /\ q[k] = o /\ kc \in 0 .. m /\ kb \in 0 .. n
  BY <1>4 DEF InStep
<1>6. /\ \A i \in 0 .. n : p[i] \in Nat /\ p[i] \in Tags(b)
      /\ \A i \in 0 .. m : q[i] \in Nat /\ q[i] \in Tags(c)
      /\ \A i, j \in 0 .. n : p[i] < p[j] <=> i < j
      /\ \A i, j \in 0 .. m : q[i] < q[j] <=> i < j
  BY <1>1, <1>2, ReaderGoesOn, ReaderRises
<1>7. o \in Nat /\ o + old \in Nat /\ o + new \in Nat
  BY <1>3, <1>4, <1>5, <1>6
<1>8. ASSUME NEW i \in 0 .. n - 1  PROVE (o <= p[i] /\ p[i] < o + old) <=> i \in k .. kb - 1
  <2>1. i \in 0 .. n /\ p[i] \in Nat
    BY <1>1, <1>6
  <2>2. (p[i] < p[k] <=> i < k) /\ (p[i] < p[kb] <=> i < kb)
    BY <1>5, <1>6, <2>1
  <2> QED BY <1>3, <1>5, <1>7, <2>1, <2>2
<1>9. ASSUME NEW i \in 0 .. m  PROVE (o <= q[i] /\ q[i] < o + new) <=> i \in k .. kc - 1
  <2>1. q[i] \in Nat
    BY <1>6
  <2>2. (q[i] < q[k] <=> i < k) /\ (q[i] < q[kc] <=> i < kc)
    BY <1>5, <1>6
  <2> QED BY <1>4, <1>5, <1>7, <2>1, <2>2
<1>10. \A i \in k .. kb - 1 : i \in 0 .. n - 1 /\ TagOf(b, p[i]) \in {"PROP", "NOP"}
  <2>1. ASSUME NEW i \in k .. kb - 1
        PROVE  i \in 0 .. n - 1 /\ TagOf(b, p[i]) \in {"PROP", "NOP"}
    <3>1. i \in 0 .. n - 1 /\ i \in 0 .. n
      BY <1>1, <1>5
    <3> QED BY <1>6, <1>8, <3>1 DEF PropertiesEdited
  <2> QED BY <2>1
<1>11. \A i \in k .. kc - 1 : TagOf(c, q[i]) \in {"PROP", "NOP"}
  <2>1. ASSUME NEW i \in k .. kc - 1  PROVE TagOf(c, q[i]) \in {"PROP", "NOP"}
    <3>1. i \in 0 .. m
      BY <1>5
    <3> QED BY <1>6, <1>9, <3>1 DEF PropertiesEdited
  <2> QED BY <2>1
<1>12. h[k].path = g[k].path
  <2>1. k \in 0 .. k
    BY <1>5
  <2> QED BY <1>1, <1>2, <1>4, <2>1, SamePaths
<1>13. g[kb].path = g[k].path
  <2>1. kb \in k .. kb
    BY <1>5
  <2> QED BY <1>1, <1>5, <1>10, <2>1, QuietPath
<1>14. \A i \in k .. kc : h[i].path = g[k].path
  BY <1>2, <1>5, <1>11, <1>12, QuietPath
<1>15. h[kc].path = g[kb].path
  <2>1. kc \in k .. kc
    BY <1>4, <1>5
  <2> QED BY <1>13, <1>14, <2>1
<1>16. \A s : \A i \in k .. kc - 1 : ~Begins(c, q, h, i, s)
  BY <1>11 DEF Begins
<1>17. NewNodesAreNew(b, n, p, g, c, q, h, k, kb, kc)
  BY <1>16 DEF NewNodesAreNew
<1>18. /\ IsStory(c, m, q, h) /\ IsTreeOf(u)
       /\ IsEdited(b, n, p, g, c, q, h, k, kb, kc, u)
  BY <1>2, <1>4, <1>15, <1>17, EditedTree
<1>19. \A i : i \in Outside(n, k, kb) <=>
              i \in 0 .. n - 1 /\ ~(o <= p[i] /\ p[i] < o + old)
  <2>1. \A i : i \in Outside(n, k, kb) <=> i \in 0 .. n - 1 /\ ~(i \in k .. kb - 1)
    BY <1>1, <1>5 DEF Outside
  <2> QED BY <1>8, <2>1
<1>20. ASSUME NEW s  PROVE s \in DOMAIN u <=> s \in DOMAIN t
  <2>1. s \in DOMAIN t <=> \E i \in 0 .. n - 1 : Begins(b, p, g, i, s)
    BY TreeIs
  <2>2. \A i \in 0 .. n - 1 : Begins(b, p, g, i, s) => i \in Outside(n, k, kb)
    BY <1>8, <1>10, <1>19 DEF Begins
  <2> QED BY <1>16, <1>18, <1>19, <2>1, <2>2 DEF IsEdited
<1>21. ASSUME NEW s, NEW x, NEW v
       PROVE  (\E i \in k .. kc - 1 : Gives(c, q, h, i, s, x, v)) <=>
                s = g[k].path /\ IsPut(c, o, new, x, v)
  <2>1. ASSUME NEW i \in k .. kc - 1, Gives(c, q, h, i, s, x, v)
        PROVE  s = g[k].path /\ IsPut(c, o, new, x, v)
    <3>1. i \in 0 .. m /\ i \in k .. kc
      BY <1>5
    <3>2. q[i] \in Tags(c) /\ o <= q[i] /\ q[i] < o + new
      BY <1>6, <1>9, <3>1
    <3>3. IsPut(c, o, new, x, v)
      BY <2>1, <3>2 DEF IsPut, Gives
    <3> QED BY <1>14, <2>1, <3>1, <3>3 DEF Gives
  <2>2. ASSUME s = g[k].path, NEW a \in Tags(c), o <= a, a < o + new,
               TagOf(c, a) = "PROP", PropName(c, a) = x, PropVal(c, a) = v
        PROVE  \E i \in k .. kc - 1 : Gives(c, q, h, i, s, x, v)
    <3>1. PICK i \in 0 .. m : q[i] = a
      BY <1>2, EachIsRead
    <3>2. i \in k .. kc - 1 /\ i \in k .. kc
      BY <1>5, <1>9, <2>2, <3>1
    <3> QED BY <1>14, <2>2, <3>1, <3>2 DEF Gives
  <2> QED BY <2>1, <2>2 DEF IsPut
<1>22. ASSUME NEW s, NEW x, NEW v
       PROVE  Says(u, s, x, v) <=>
                \/ \E i \in 0 .. n - 1 : /\ ~(o <= p[i] /\ p[i] < o + old)
                                         /\ Gives(b, p, g, i, s, x, v)
                \/ s = g[k].path /\ IsPut(c, o, new, x, v)
  BY <1>18, <1>19, <1>21 DEF IsEdited
<1> QED BY <1>18, <1>20, <1>22 DEF Told

-----------------------------------------------------------------------------
(* A tree with one property put in or taken out.                           *)

LEMMA GivesOnce ==
  ASSUME NEW b, HasStruct(b), Ordered(b), NEW n, NEW p, NEW g, IsStory(b, n, p, g),
         NEW i \in 0 .. n - 1, NEW j \in 0 .. n - 1, NEW s, NEW x, NEW v, NEW w,
         Gives(b, p, g, i, s, x, v), Gives(b, p, g, j, s, x, w)
  PROVE  i = j
<1>1. n \in Nat /\ \A l \in 0 .. n - 1 : Tells(b, p[l], g[l], g[l + 1])
  BY StoryIs
<1>2. x \notin DOMAIN g[i].tree[s] /\ x \notin DOMAIN g[j].tree[s]
  BY <1>1 DEF Tells, Gives
<1>3. ASSUME i < j  PROVE FALSE
  <2>1. j \in i + 1 .. n
    BY <1>1, <1>3
  <2> QED BY <1>2, <2>1, GivenBefore
<1>4. ASSUME j < i  PROVE FALSE
  <2>1. i \in j + 1 .. n
    BY <1>1, <1>4
  <2> QED BY <1>2, <2>1, GivenBefore
<1> QED BY <1>1, <1>3, <1>4

(* Tree t with property x of node s put in, with value v, or taken out.    *)
WithOne(t, s, x, v) == [t EXCEPT ![s] = Put(@, x, v)]

WithoutOne(t, s, x) == [t EXCEPT ![s] = [y \in DOMAIN @ \ {x} |-> @[y]]]

LEMMA WithOneIs ==
  ASSUME NEW t, IsTreeOf(t), NEW s \in DOMAIN t, NEW x, NEW v,
         NEW u, IsTreeOf(u), \A q : q \in DOMAIN u <=> q \in DOMAIN t,
         \A q, y, w : Says(u, q, y, w) <=>
           \/ Says(t, q, y, w) /\ ~(q = s /\ y = x)
           \/ q = s /\ y = x /\ w = v
  PROVE  u = WithOne(t, s, x, v)
<1> DEFINE r == WithOne(t, s, x, v)
<1>1. IsMap(t) /\ (\A q \in DOMAIN t : IsMap(t[q])) /\ IsMap(u) /\ (\A q \in DOMAIN u : IsMap(u[q]))
  BY DEF IsTreeOf
<1>2. /\ DOMAIN r = DOMAIN t /\ r[s] = Put(t[s], x, v)
      /\ \A q \in DOMAIN t : q # s => r[q] = t[q]
      /\ IsMap(r)
  BY DEF IsMap, WithOne
<1>3. /\ DOMAIN Put(t[s], x, v) = DOMAIN t[s] \cup {x} /\ Put(t[s], x, v)[x] = v
      /\ \A y \in DOMAIN t[s] : y # x => Put(t[s], x, v)[y] = t[s][y]
      /\ IsMap(Put(t[s], x, v))
  BY DEF Put, IsMap
<1> HIDE DEF r
<1>4. \A q \in DOMAIN r : IsMap(r[q])
  BY <1>1, <1>2, <1>3
<1>5. ASSUME NEW q, NEW y, NEW w
      PROVE  Says(r, q, y, w) <=> Says(u, q, y, w)
  <2>1. CASE q # s
    BY <1>2, <2>1 DEF Says
  <2>2. CASE q = s /\ y = x
    <3>1. Says(r, q, y, w) <=> w = v
      BY <1>2, <1>3, <2>2 DEF Says
    <3> QED BY <2>2, <3>1
  <2>3. CASE q = s /\ y # x
    <3>1. Says(r, q, y, w) <=> Says(t, q, y, w)
      BY <1>2, <1>3, <2>3 DEF Says
    <3> QED BY <2>3, <3>1
  <2> QED BY <2>1, <2>2, <2>3
<1>6. \A q : q \in DOMAIN u <=> q \in DOMAIN r
  BY <1>2
<1>7. u = r
  BY <1>1, <1>2, <1>4, <1>5, <1>6, EqualTrees
<1> QED BY <1>7 DEF r

LEMMA WithoutOneIs ==
  ASSUME NEW t, IsTreeOf(t), NEW s \in DOMAIN t, NEW x,
         NEW u, IsTreeOf(u), \A q : q \in DOMAIN u <=> q \in DOMAIN t,
         \A q, y, w : Says(u, q, y, w) <=> Says(t, q, y, w) /\ ~(q = s /\ y = x)
  PROVE  u = WithoutOne(t, s, x)
<1> DEFINE r == WithoutOne(t, s, x)
           f == [y \in DOMAIN t[s] \ {x} |-> t[s][y]]
<1>1. IsMap(t) /\ (\A q \in DOMAIN t : IsMap(t[q])) /\ IsMap(u) /\ (\A q \in DOMAIN u : IsMap(u[q]))
  BY DEF IsTreeOf
<1>2. /\ DOMAIN r = DOMAIN t /\ r[s] = f
      /\ \A q \in DOMAIN t : q # s => r[q] = t[q]
      /\ IsMap(r)
  <2>1. r = [t EXCEPT ![s] = f]
    BY DEF WithoutOne
  <2> HIDE DEF r, f
  <2> QED BY <2>1 DEF IsMap
<1>3. /\ DOMAIN f = DOMAIN t[s] \ {x} /\ IsMap(f)
      /\ \A y \in DOMAIN t[s] : y # x => f[y] = t[s][y]
  BY DEF IsMap
<1> HIDE DEF r, f
<1>4. \A q \in DOMAIN r : IsMap(r[q])
  BY <1>1, <1>2, <1>3
<1>5. ASSUME NEW q, NEW y, NEW w
      PROVE  Says(r, q, y, w) <=> Says(u, q, y, w)
  <2>1. CASE q # s
    <3>1. Says(r, q, y, w) <=> Says(t, q, y, w)
      BY <1>2, <2>1 DEF Says
    <3> QED BY <2>1, <3>1
  <2>2. CASE q = s /\ y = x
    <3>1. ~Says(r, q, y, w)
      BY <1>2, <1>3, <2>2 DEF Says
    <3> QED BY <2>2, <3>1
  <2>3. CASE q = s /\ y # x
    <3>1. Says(r, q, y, w) <=> Says(t, q, y, w)
      BY <1>2, <1>3, <2>3 DEF Says
    <3> QED BY <2>3, <3>1
  <2> QED BY <2>1, <2>2, <2>3
<1>6. \A q : q \in DOMAIN u <=> q \in DOMAIN r
  BY <1>2
<1>7. u = r
  BY <1>1, <1>2, <1>4, <1>5, <1>6, EqualTrees
<1> QED BY <1>7 DEF r

(* What is taken out, if there is anything, is property x of the node      *)
(* that the edit is in, and there is no other of that name.                *)
OnlyProperty(b, o, old, x, k, s, p, g) ==
  /\ g[k].path = s
  /\ \A a \in Tags(b) : o <= a /\ a < o + old /\ TagOf(b, a) = "PROP" =>
       a = o /\ PropName(b, a) = x
  /\ old > 0 \/ x \notin DOMAIN Contents(b).tree[s]
  /\ old > 0 => TagOf(b, o) = "PROP"

LEMMA PropertyReplaced ==
  ASSUME NEW b, HasStruct(b), Ordered(b), NEW n, NEW p, NEW g, IsStory(b, n, p, g),
         NEW c, HasStruct(c), Ordered(c), NEW o, NEW old, NEW new,
         PropertiesEdited(b, c, o, old, new), NEW k \in 0 .. n, p[k] = o,
         NEW s, NEW x, NEW t, t = Contents(b).tree, s \in DOMAIN t,
         OnlyProperty(b, o, old, x, k, s, p, g),
         NEW u, u = Contents(c).tree
  PROVE  /\ Told(c)
         /\ (\A y, w : ~IsPut(c, o, new, y, w)) => u = WithoutOne(t, s, x)
         /\ \A v : (\A y, w : IsPut(c, o, new, y, w) <=> y = x /\ w = v) =>
                     u = WithOne(t, s, x, v)
<1> DEFINE Rest0(q, y, w) == \E i \in 0 .. n - 1 : /\ ~(o <= p[i] /\ p[i] < o + old)
                                                   /\ Gives(b, p, g, i, q, y, w)
<1>1. /\ Told(c) /\ IsTreeOf(u)
      /\ \A q : q \in DOMAIN u <=> q \in DOMAIN t
      /\ \A q, y, w : Says(u, q, y, w) <=>
           Rest0(q, y, w) \/ (q = s /\ IsPut(c, o, new, y, w))
  BY PropertiesTold DEF OnlyProperty
<1>2. /\ IsTreeOf(t)
      /\ \A q, y, w : Says(t, q, y, w) <=> \E i \in 0 .. n - 1 : Gives(b, p, g, i, q, y, w)
  BY TreeIs
<1>3. n \in Nat /\ \A i \in 0 .. n : p[i] \in Tags(b) /\ p[i] \in Nat
  BY ReaderGoesOn DEF IsStory
<1>4. old \in Nat /\ new \in Nat /\ o \in Nat
  BY <1>3 DEF PropertiesEdited
<1>5. ASSUME NEW q, NEW y, NEW w
      PROVE  Rest0(q, y, w) <=> Says(t, q, y, w) /\ ~(q = s /\ y = x)
  <2>1. ASSUME Rest0(q, y, w), q = s, y = x  PROVE FALSE
    <3>1. PICK i \in 0 .. n - 1 : /\ ~(o <= p[i] /\ p[i] < o + old)
                                  /\ Gives(b, p, g, i, s, x, w)
      BY <2>1
    <3>2. Says(t, s, x, w)
      BY <1>2, <3>1
    <3>3. old > 0 /\ TagOf(b, o) = "PROP"
      BY <3>2 DEF Says, OnlyProperty
    <3>4. o \in Tags(b) /\ o <= o /\ o < o + old
      BY <1>3, <1>4, <3>3
    <3>5. PropName(b, o) = x /\ g[k].path = s
      BY <3>3, <3>4 DEF OnlyProperty
    <3>6. k \in 0 .. n - 1
      <4>1. TagOf(b, p[n]) = "END"
        BY DEF IsStory, IsReader
      <4>2. k # n
        BY <3>3, <4>1
      <4> QED BY <1>3, <4>2
    <3>7. Gives(b, p, g, k, s, x, PropVal(b, o))
      BY <3>3, <3>5 DEF Gives
    <3>8. i = k
      BY <3>1, <3>6, <3>7, GivesOnce
    <3> QED BY <3>1, <3>4, <3>8
  <2>2. ASSUME Says(t, q, y, w), ~(q = s /\ y = x)  PROVE Rest0(q, y, w)
    <3>1. PICK i \in 0 .. n - 1 : Gives(b, p, g, i, q, y, w)
      BY <1>2, <2>2
    <3>2. ASSUME o <= p[i], p[i] < o + old  PROVE FALSE
      <4>1. p[i] \in Tags(b) /\ TagOf(b, p[i]) = "PROP" /\ PropName(b, p[i]) = y
            /\ g[i].path = q /\ i \in 0 .. n
        BY <1>3, <3>1 DEF Gives
      <4>2. p[i] = o /\ y = x
        BY <3>2, <4>1 DEF OnlyProperty
      <4>3. IsReader(b, n, p, g)
        BY DEF IsStory
      <4>4. i = k
        BY <4>1, <4>2, <4>3, EachIsRead
      <4>5. q = s
        BY <4>1, <4>4 DEF OnlyProperty
      <4> QED BY <2>2, <4>2, <4>5
    <3> QED BY <3>1, <3>2
  <2>3. Rest0(q, y, w) => Says(t, q, y, w)
    BY <1>2
  <2> HIDE DEF Rest0
  <2> QED BY <2>1, <2>2, <2>3
<1> HIDE DEF Rest0
<1>6. ASSUME \A y, w : ~IsPut(c, o, new, y, w)  PROVE u = WithoutOne(t, s, x)
  <2>1. \A q, y, w : Says(u, q, y, w) <=> Says(t, q, y, w) /\ ~(q = s /\ y = x)
    BY <1>1, <1>5, <1>6
  <2> QED BY <1>1, <1>2, <2>1, WithoutOneIs
<1>7. ASSUME NEW v, \A y, w : IsPut(c, o, new, y, w) <=> y = x /\ w = v
      PROVE  u = WithOne(t, s, x, v)
  <2>1. \A q, y, w : Says(u, q, y, w) <=>
           \/ Says(t, q, y, w) /\ ~(q = s /\ y = x)
           \/ q = s /\ y = x /\ w = v
    BY <1>1, <1>5, <1>7
  <2> QED BY <1>1, <1>2, <2>1, WithOneIs
<1> QED BY <1>1, <1>6, <1>7

-----------------------------------------------------------------------------
(* What the searches find.                                                 *)

LEMMA CheckNodeIs ==
  ASSUME NEW b, HasStruct(b), NEW o \in Int
  PROVE  CheckNodeOffset(b, o) = IF o \in Tags(b) /\ TagOf(b, o) = "BEGIN_NODE"
                                 THEN Following(b, o) ELSE BADOFFSET
<1>1. CASE o \in Tags(b) /\ TagOf(b, o) = "BEGIN_NODE"
  <2>1. NextTag(b, o) = [tag |-> TagOf(b, o), next |-> Following(b, o)]
    BY <1>1, NextTagIs
  <2>2. o \in Nat /\ o % FDT_TAGSIZE = 0
    BY <1>1, TagAt DEF IsMultiple
  <2> QED BY <1>1, <2>1, <2>2 DEF CheckNodeOffset, CheckOffset
<1>2. CASE ~(o \in Tags(b) /\ TagOf(b, o) = "BEGIN_NODE")
  BY <1>2, NodeOffsetIs
<1> QED BY <1>1, <1>2

(* Between offsets o and z nothing but properties and NOPs.                *)
Quiet(b, o, z) ==
  \A t \in Tags(b) : o <= t /\ t < z => TagOf(b, t) \in {"PROP", "NOP"}

(* What a search for a property from offset o on may return.               *)
Finds(b, o, name, r) ==
  \/ /\ r \in Tags(b) /\ r >= o /\ TagOf(b, r) = "PROP" /\ PropName(b, r) = name
     /\ Quiet(b, o, r)
  \/ r = NOTFOUND /\ IsFree(b, o, name)
  \/ \E z \in Tags(b) : z >= o /\ TagOf(b, z) = "END" /\ Quiet(b, o, z)

LEMMA FindsEarlier ==
  ASSUME NEW b, HasStruct(b), NEW o \in Tags(b), TagOf(b, o) # "END", NEW name,
         \/ TagOf(b, o) = "NOP"
         \/ TagOf(b, o) = "PROP" /\ PropName(b, o) # name,
         NEW r, Finds(b, Following(b, o), name, r)
  PROVE  Finds(b, o, name, r)
<1> DEFINE q == Following(b, o)
<1>1. q \in Tags(b) /\ q > o /\ \A t \in Tags(b) : t > o => t >= q
  BY FollowingIs
<1>2. Tags(b) \subseteq Nat
  BY DEF Tags
<1>3. \A t \in Tags(b) : t >= o => t = o \/ t >= q
  BY <1>1, <1>2
<1> HIDE DEF q
<1>4. ASSUME NEW z \in Tags(b), z >= q, Quiet(b, q, z)
      PROVE  z >= o /\ Quiet(b, o, z)
  BY <1>1, <1>2, <1>3, <1>4 DEF Quiet
<1>5. Finds(b, q, name, r)
  BY DEF q
<1>6. CASE /\ r \in Tags(b) /\ r >= q /\ TagOf(b, r) = "PROP" /\ PropName(b, r) = name
           /\ Quiet(b, q, r)
  BY <1>4, <1>6 DEF Finds
<1>7. CASE r = NOTFOUND /\ IsFree(b, q, name)
  <2>1. PICK z \in Tags(b) : IsFreeTo(b, q, name, z)
    BY <1>7 DEF IsFree
  <2>2. o <= z
    BY <1>1, <1>2, <2>1 DEF IsFreeTo
  <2>3. IsFreeTo(b, o, name, z)
    BY <1>2, <1>3, <2>1, <2>2 DEF IsFreeTo
  <2> QED BY <1>7, <2>3 DEF Finds, IsFree
<1>8. CASE \E z \in Tags(b) : z >= q /\ TagOf(b, z) = "END" /\ Quiet(b, q, z)
  BY <1>4, <1>8 DEF Finds
<1> QED BY <1>5, <1>6, <1>7, <1>8 DEF Finds

LEMMA GetPropertyFinds ==
  ASSUME NEW b, HasStruct(b), NEW node \in Tags(b), TagOf(b, node) = "BEGIN_NODE",
         NEW name
  PROVE  Finds(b, Following(b, node), name, GetProperty(b, node, name))
<1> DEFINE Hit(o) == NextTag(b, o).tag = "PROP" /\ String(b, NameOff(b, o)) = name
           On(o) == ~Hit(o) /\ NextTag(b, o).tag \in {"PROP", "NOP"}
           Stop == {o \in WalkOffsets : ~On(o)}
           out == [o \in WalkOffsets |->
                     IF Hit(o) THEN o
                     ELSE IF NextTag(b, o).tag = "END"
                       THEN IF NextTag(b, o).next >= 0 THEN BADSTRUCTURE
                                                       ELSE NextTag(b, o).next
                     ELSE NOTFOUND]
           Body(f) ==
             [o \in WalkOffsets |->
                LET t == NextTag(b, o)
                IN  IF t.tag = "PROP" /\ String(b, NameOff(b, o)) = name THEN o
                    ELSE IF t.tag \in {"PROP", "NOP"} THEN f[t.next]
                    ELSE IF t.tag = "END"
                      THEN IF t.next >= 0 THEN BADSTRUCTURE ELSE t.next
                    ELSE NOTFOUND]
           Search == CHOOSE f : f = Body(f)
           start == CheckNodeOffset(b, node)
           All == {Search[o] : o \in WalkOffsets} \cup {out[o] : o \in WalkOffsets}
           X == [o \in WalkOffsets |->
                   {r \in All : o \in Tags(b) => Finds(b, o, name, r)}]
<1>1. GetProperty(b, node, name) = IF start < 0 THEN start ELSE Search[start]
  BY DEF GetProperty
<1>2. ASSUME NEW f
      PROVE  Walks(f, WalkOffsets, Stop, out, NextOffset(b)) <=> f = Body(f)
  <2> DEFINE Step == [o \in WalkOffsets |->
                        IF o \in Stop THEN out[o] ELSE f[NextOffset(b)[o]]]
  <2>1. ASSUME NEW o \in WalkOffsets  PROVE Step[o] = Body(f)[o]
    BY DEF NextOffset
  <2>2. Step = Body(f)
    BY <2>1
  <2> QED BY <2>2 DEF Walks
<1>3. ASSUME NEW o \in WalkOffsets, o \notin Stop
      PROVE  /\ o \in Tags(b) /\ TagOf(b, o) # "END"
             /\ \/ TagOf(b, o) = "NOP"
                \/ TagOf(b, o) = "PROP" /\ PropName(b, o) # name
  <2>1. NextTag(b, o).tag # "END"
    BY <1>3
  <2>2. o \in Tags(b)
    BY <2>1, NoTagIs
  <2>3. NextTag(b, o).tag = TagOf(b, o)
    BY <2>2, NextTagIs
  <2> QED BY <1>3, <2>1, <2>2, <2>3 DEF PropName
<1>4. ASSUME NEW o \in WalkOffsets, o \in Stop, o \in Tags(b)
      PROVE  Finds(b, o, name, out[o])
  <2>1. NextTag(b, o) = [tag |-> TagOf(b, o), next |-> Following(b, o)]
    BY <1>4, NextTagIs
  <2>2. o \in Nat /\ Tags(b) \subseteq Nat
    BY <1>4 DEF Tags
  <2>3. Quiet(b, o, o)
    BY <2>2 DEF Quiet
  <2>4. CASE Hit(o)
    BY <1>4, <2>1, <2>2, <2>3, <2>4 DEF Finds, PropName
  <2>5. CASE ~Hit(o) /\ TagOf(b, o) = "END"
    BY <1>4, <2>2, <2>3, <2>5 DEF Finds
  <2>6. CASE ~Hit(o) /\ TagOf(b, o) # "END"
    <3>1. TagOf(b, o) \notin {"PROP", "NOP"} /\ out[o] = NOTFOUND
      BY <1>4, <2>1, <2>6
    <3>2. \A t \in Tags(b) : ~(o <= t /\ t < o)
      BY <2>2
    <3>3. IsFree(b, o, name)
      BY <1>4, <2>2, <3>1, <3>2 DEF IsFree, IsFreeTo
    <3> QED BY <3>1, <3>3 DEF Finds
  <2> QED BY <2>4, <2>5, <2>6
<1> HIDE DEF Stop, out, Search, Body
<1>5. /\ b.size_dt_struct \in Nat
      /\ Ahead(WalkOffsets, Stop, NextOffset(b), b.size_dt_struct, Distance(b))
      /\ \A o \in WalkOffsets \ Stop : NextOffset(b)[o] = Following(b, o)
  BY <1>3, TagsAhead
<1>6. \E f : f = Body(f)
  BY <1>2, <1>5, WalkIsDefined
<1>7. Walks(Search, WalkOffsets, Stop, out, NextOffset(b))
  BY <1>2, <1>6 DEF Search
<1>8. ASSUME NEW o \in WalkOffsets \ Stop  PROVE X[NextOffset(b)[o]] \subseteq X[o]
  <2>1. /\ o \in Tags(b) /\ Following(b, o) \in Tags(b)
        /\ NextOffset(b)[o] = Following(b, o)
    BY <1>3, <1>5, FollowingIs
  <2>2. Following(b, o) \in WalkOffsets
    BY <2>1 DEF Tags, WalkOffsets
  <2>3. \A r : Finds(b, Following(b, o), name, r) => Finds(b, o, name, r)
    BY <1>3, <2>1, FindsEarlier
  <2> HIDE DEF All
  <2> QED BY <2>1, <2>2, <2>3
<1>9. \A o \in WalkOffsets : Search[o] \in X[o]
  <2>1. \A o \in WalkOffsets \cap Stop : out[o] \in X[o]
    <3>1. \A o \in WalkOffsets : out[o] \in All
      OBVIOUS
    <3> HIDE DEF All
    <3> QED BY <1>4, <3>1
  <2>2. Holds(X, WalkOffsets, Stop, out, NextOffset(b))
    <3> HIDE DEF X
    <3> QED BY <1>8, <2>1 DEF Holds
  <2> HIDE DEF X
  <2> QED BY <1>5, <1>7, <2>2, WalkEndsIn
<1>10. /\ start = Following(b, node) /\ start \in Tags(b)
  BY CheckNodeIs, FollowingIs, TagAt
<1>11. start \in WalkOffsets /\ start >= 0 /\ start \in Nat
  BY <1>10 DEF Tags, WalkOffsets
<1>12. GetProperty(b, node, name) = Search[start]
  <2> HIDE DEF start
  <2> QED BY <1>1, <1>11
<1>13. Search[start] \in X[start]
  BY <1>9, <1>11
<1> HIDE DEF start, All
<1>14. Finds(b, start, name, Search[start])
  BY <1>10, <1>11, <1>13
<1> QED BY <1>10, <1>12, <1>14

(* Where properties may come, the node they are of began, and only its     *)
(* properties and NOPs are in between.                                     *)
LEMMA OwnerIs ==
  ASSUME NEW b, HasStruct(b), Ordered(b), NEW n, NEW p, NEW g, IsStory(b, n, p, g),
         NEW l \in 0 .. n, g[l].last = "BEGIN_NODE"
  PROVE  \E a \in 0 .. l - 1 :
           /\ TagOf(b, p[a]) = "BEGIN_NODE"
           /\ \A j \in a + 1 .. l - 1 : TagOf(b, p[j]) \in {"PROP", "NOP"}
           /\ \A j \in a + 1 .. l : g[j].path = g[a + 1].path
<1> DEFINE Owns(a, j) == /\ TagOf(b, p[a]) = "BEGIN_NODE"
                         /\ \A i \in a + 1 .. j - 1 : TagOf(b, p[i]) \in {"PROP", "NOP"}
                         /\ \A i \in a + 1 .. j : g[i].path = g[a + 1].path
           T == {j \in 0 .. n : g[j].last = "BEGIN_NODE" => \E a \in 0 .. j - 1 : Owns(a, j)}
<1>1. /\ n \in Nat /\ g[0] = Blank
      /\ \A i \in 0 .. n - 1 : Tells(b, p[i], g[i], g[i + 1])
  BY StoryIs
<1>2. 0 \in T
  <2>1. Blank.last # "BEGIN_NODE"
    BY DEF Blank
  <2>2. g[0].last # "BEGIN_NODE" /\ 0 \in 0 .. n
    BY <1>1, <2>1
  <2> HIDE DEF Owns
  <2> QED BY <2>2
<1>3. ASSUME NEW i \in 0 .. n - 1, i \in T  PROVE i + 1 \in T
  <2>1. /\ i + 1 \in 0 .. n /\ i \in 0 .. (i + 1) - 1 /\ 0 .. i - 1 \subseteq 0 .. (i + 1) - 1
        /\ i + 1 .. (i + 1) - 1 = {} /\ i + 1 .. i + 1 = {i + 1}
    BY <1>1
  <2>2. Tells(b, p[i], g[i], g[i + 1])
    BY <1>1
  <2>3. CASE TagOf(b, p[i]) = "BEGIN_NODE"
    <3>1. Owns(i, i + 1)
      BY <2>1, <2>3
    <3> HIDE DEF Owns
    <3> QED BY <2>1, <3>1
  <2>4. CASE TagOf(b, p[i]) = "END_NODE"
    <3>1. g[i + 1].last = "END_NODE"
      BY <2>2, <2>4 DEF Tells
    <3> QED BY <2>1, <3>1
  <2>5. CASE TagOf(b, p[i]) \in {"PROP", "NOP"}
    <3>1. g[i + 1].last = g[i].last
      BY <2>2, <2>5 DEF Tells
    <3>2. g[i + 1].path = g[i].path
      BY <2>2, <2>5 DEF Tells, Grows
    <3>3. ASSUME g[i].last = "BEGIN_NODE"
          PROVE  \E a \in 0 .. (i + 1) - 1 : Owns(a, i + 1)
      <4>1. PICK a \in 0 .. i - 1 : Owns(a, i)
        BY <1>3, <3>3
      <4>2. /\ \A j \in a + 1 .. (i + 1) - 1 : j = i \/ j \in a + 1 .. i - 1
            /\ \A j \in a + 1 .. i + 1 : j = i + 1 \/ j \in a + 1 .. i
            /\ i \in a + 1 .. i
        BY <4>1
      <4>3. Owns(a, i + 1)
        BY <2>5, <3>2, <4>1, <4>2
      <4> HIDE DEF Owns
      <4> QED BY <2>1, <4>3
    <3> HIDE DEF Owns
    <3> QED BY <2>1, <3>1, <3>3
  <2> QED BY <2>2, <2>3, <2>4, <2>5 DEF Tells
<1>4. 0 .. n \subseteq T
  <2> HIDE DEF T
  <2> QED BY <1>1, <1>2, <1>3, UpTo
<1> HIDE DEF Owns
<1>5. \E a \in 0 .. l - 1 : Owns(a, l)
  BY <1>4
<1> QED BY <1>5 DEF Owns

(* A property is given between the beginning of its node and any other tag *)
(* there is.                                                               *)
LEMMA GivenInside ==
  ASSUME NEW b, HasStruct(b), Ordered(b), NEW n, NEW p, NEW g, IsStory(b, n, p, g),
         NEW i \in 0 .. n - 1, NEW s, Begins(b, p, g, i, s),
         NEW l \in 0 .. n - 1, NEW x, NEW v, Gives(b, p, g, l, s, x, v)
  PROVE  i < l /\ \A j \in i + 1 .. l : TagOf(b, p[j]) \in {"PROP", "NOP"}
<1>1. n \in Nat /\ Tells(b, p[l], g[l], g[l + 1])
  BY StoryIs
<1>2. g[l].last = "BEGIN_NODE" /\ l \in 0 .. n
  BY <1>1 DEF Tells, Gives
<1>3. PICK a \in 0 .. l - 1 :
        /\ TagOf(b, p[a]) = "BEGIN_NODE"
        /\ \A j \in a + 1 .. l - 1 : TagOf(b, p[j]) \in {"PROP", "NOP"}
        /\ \A j \in a + 1 .. l : g[j].path = g[a + 1].path
  BY <1>2, OwnerIs
<1>4. l \in a + 1 .. l /\ a \in 0 .. n - 1 /\ a < l
  BY <1>1, <1>3
<1>5. Begins(b, p, g, a, s)
  BY <1>3, <1>4 DEF Begins, Gives
<1>6. i = a
  BY <1>4, <1>5, BeginsOnce
<1>7. ASSUME NEW j \in i + 1 .. l  PROVE TagOf(b, p[j]) \in {"PROP", "NOP"}
  <2>1. j = l \/ j \in a + 1 .. l - 1
    BY <1>4, <1>6
  <2> QED BY <1>3, <2>1 DEF Gives
<1> QED BY <1>4, <1>6, <1>7

(* From the tag behind index i on, up to the tag at z.                     *)
LEMMA QuietTags ==
  ASSUME NEW b, HasStruct(b), NEW n, NEW p, NEW g, IsReader(b, n, p, g),
         NEW i \in 0 .. n - 1, NEW z \in Tags(b), z >= Following(b, p[i]),
         Quiet(b, Following(b, p[i]), z)
  PROVE  \E k \in i + 1 .. n : /\ p[k] = z /\ g[k].path = g[i + 1].path
                               /\ \A j \in i + 1 .. k - 1 : TagOf(b, p[j]) \in {"PROP", "NOP"}
<1>1. /\ n \in Nat /\ \A j \in 0 .. n : p[j] \in Nat /\ p[j] \in Tags(b)
      /\ i + 1 \in 0 .. n /\ p[i + 1] = Following(b, p[i])
  BY ReaderGoesOn
<1>2. \A j, l \in 0 .. n : p[j] < p[l] <=> j < l
  BY ReaderRises
<1>3. PICK k \in 0 .. n : p[k] = z
  BY EachIsRead
<1>4. k \in i + 1 .. n
  BY <1>1, <1>2, <1>3
<1>5. ASSUME NEW j \in i + 1 .. k - 1  PROVE TagOf(b, p[j]) \in {"PROP", "NOP"}
  <2>1. j \in 0 .. n /\ j < k /\ ~(j < i + 1)
    BY <1>1, <1>4
  <2>2. p[j] \in Tags(b) /\ p[j] < z /\ p[i + 1] <= p[j]
    BY <1>1, <1>2, <1>3, <2>1
  <2> QED BY <1>1, <2>2 DEF Quiet
<1>6. k \in i + 1 .. k
  BY <1>1, <1>4
<1>7. g[k].path = g[i + 1].path
  BY <1>1, <1>4, <1>5, <1>6, QuietPath
<1> QED BY <1>3, <1>4, <1>5, <1>7

(* fdt_get_property tells what the tree says.                              *)
LEMMA PropertyFound ==
  ASSUME NEW b, HasStruct(b), Ordered(b), NEW n, NEW p, NEW g, IsStory(b, n, p, g),
         NEW i \in 0 .. n - 1, NEW s, Begins(b, p, g, i, s), NEW name,
         NEW r, r = GetProperty(b, p[i], name), NEW t, t = Contents(b).tree
  PROVE  \/ /\ r \in Tags(b) /\ TagOf(b, r) = "PROP" /\ PropName(b, r) = name
            /\ \E k \in 0 .. n : p[k] = r /\ g[k].path = s
            /\ s \in DOMAIN t /\ name \in DOMAIN t[s] /\ t[s][name] = PropVal(b, r)
         \/ /\ r = NOTFOUND /\ IsFree(b, Following(b, p[i]), name)
            /\ s \in DOMAIN t /\ name \notin DOMAIN t[s]
<1> DEFINE o == Following(b, p[i])
<1>1. /\ n \in Nat /\ IsReader(b, n, p, g) /\ g[n].path = Nowhere
      /\ \A j \in 0 .. n : IsTidy(g[j]) /\ p[j] \in Tags(b)
      /\ Tells(b, p[i], g[i], g[i + 1]) /\ i \in 0 .. n /\ i + 1 \in 0 .. n
  BY StoryIs DEF IsStory
<1>2. TagOf(b, p[i]) = "BEGIN_NODE" /\ g[i + 1].path = s
  BY DEF Begins
<1>3. Finds(b, o, name, r)
  BY <1>1, <1>2, GetPropertyFinds
<1>4. /\ \A q : q \in DOMAIN t <=> \E j \in 0 .. n - 1 : Begins(b, p, g, j, q)
      /\ \A q, x, v : Says(t, q, x, v) <=> \E j \in 0 .. n - 1 : Gives(b, p, g, j, q, x, v)
  BY TreeIs
<1>5. s \in DOMAIN t /\ s # Nowhere
  <2>1. g[i + 1].path \in DOMAIN t
    BY <1>2, <1>4
  <2>2. IsTreeOf(t)
    BY TreeIs
  <2> QED BY <1>2, <2>1, <2>2 DEF IsTreeOf
<1>6. CASE /\ r \in Tags(b) /\ r >= o /\ TagOf(b, r) = "PROP" /\ PropName(b, r) = name
           /\ Quiet(b, o, r)
  <2>1. PICK k \in i + 1 .. n : p[k] = r /\ g[k].path = s
    BY <1>1, <1>2, <1>6, QuietTags
  <2>2. k \in 0 .. n /\ k \in 0 .. n - 1
    <3>1. TagOf(b, p[n]) = "END"
      BY <1>1 DEF IsReader
    <3>2. k # n
      BY <1>6, <2>1, <3>1
    <3> QED BY <1>1, <3>2
  <2>3. Gives(b, p, g, k, s, name, PropVal(b, r))
    BY <1>6, <2>1 DEF Gives
  <2>4. Says(t, s, name, PropVal(b, r))
    BY <1>4, <2>2, <2>3
  <2> QED BY <1>6, <2>1, <2>2, <2>4 DEF Says
<1>7. CASE r = NOTFOUND /\ IsFree(b, o, name)
  <2>1. PICK z \in Tags(b) : IsFreeTo(b, o, name, z)
    BY <1>7 DEF IsFree
  <2>2. o \in Nat /\ z \in Nat /\ Quiet(b, o, z) /\ o <= z
    <3>1. o \in Nat
      BY <1>1, TagAt
    <3> QED BY <2>1, <3>1 DEF IsFreeTo, Quiet, Tags
  <2>3. PICK k \in i + 1 .. n : p[k] = z
    BY <1>1, <2>2, QuietTags
  <2>4. ASSUME name \in DOMAIN t[s]  PROVE FALSE
    <3>1. Says(t, s, name, t[s][name])
      BY <1>5, <2>4 DEF Says
    <3>2. PICK l \in 0 .. n - 1 : Gives(b, p, g, l, s, name, t[s][name])
      BY <1>4, <3>1
    <3>3. i < l /\ \A j \in i + 1 .. l : TagOf(b, p[j]) \in {"PROP", "NOP"}
      BY <3>2, GivenInside
    <3>4. TagOf(b, p[k]) \notin {"PROP", "NOP"}
      BY <2>1, <2>3 DEF IsFreeTo
    <3>5. l < k /\ l \in 0 .. n /\ i + 1 <= l
      <4>1. ~(k <= l)
        BY <1>1, <2>3, <3>3, <3>4
      <4> QED BY <1>1, <2>3, <3>3, <4>1
    <3>6. \A j, m \in 0 .. n : p[j] < p[m] <=> j < m
      BY <1>1, ReaderRises
    <3>7. p[l] < z /\ p[l] \in Tags(b) /\ p[l] >= o
      <4>1. p[i + 1] = o /\ k \in 0 .. n
        BY <1>1, ReaderGoesOn
      <4>2. p[l] \in Nat
        BY <1>1, <3>5 DEF Tags
      <4>3. ~(p[l] < p[i + 1]) /\ p[l] < p[k]
        BY <1>1, <3>5, <3>6, <4>1
      <4> QED BY <1>1, <2>2, <2>3, <3>5, <4>1, <4>2, <4>3
    <3>8. TagOf(b, p[l]) = "PROP" /\ PropName(b, p[l]) = name
      BY <3>2 DEF Gives
    <3> QED BY <2>1, <3>7, <3>8 DEF IsFreeTo
  <2> QED BY <1>5, <1>7, <2>4
<1>8. CASE \E z \in Tags(b) : z >= o /\ TagOf(b, z) = "END" /\ Quiet(b, o, z)
  <2>1. PICK z \in Tags(b) : z >= o /\ TagOf(b, z) = "END" /\ Quiet(b, o, z)
    BY <1>8
  <2>2. PICK k \in i + 1 .. n : p[k] = z /\ g[k].path = s
    BY <1>1, <1>2, <2>1, QuietTags
  <2>3. k = n
    <3>1. \A j \in 0 .. n - 1 : TagOf(b, p[j]) # "END"
      BY <1>1, ReaderGoesOn
    <3>2. k \notin 0 .. n - 1
      BY <2>1, <2>2, <3>1
    <3> QED BY <1>1, <3>2
  <2> QED BY <1>1, <1>5, <2>2, <2>3
<1> QED BY <1>3, <1>6, <1>7, <1>8 DEF Finds

-----------------------------------------------------------------------------
(* The calls on properties, as edits of the tree.                          *)

(* At an offset of a caller there is a node, with a path of its own, or    *)
(* nothing that any function takes for one.                                *)
LEMMA TargetIs ==
  ASSUME NEW b, HasStruct(b), Ordered(b), NEW n, NEW p, NEW g, IsStory(b, n, p, g),
         NEW node \in Int, NEW v, v = Contents(b)
  PROVE  \/ /\ At(v, node) = Nowhere /\ CheckNodeOffset(b, node) = BADOFFSET
            /\ ~(node \in Tags(b) /\ TagOf(b, node) = "BEGIN_NODE")
         \/ /\ At(v, node) # Nowhere /\ At(v, node) \in DOMAIN v.tree
            /\ node \in Tags(b) /\ TagOf(b, node) = "BEGIN_NODE"
            /\ CheckNodeOffset(b, node) = Following(b, node)
            /\ \E i \in 0 .. n - 1 : p[i] = node /\ Begins(b, p, g, i, At(v, node))
<1>1. CASE ~(node \in Tags(b) /\ TagOf(b, node) = "BEGIN_NODE")
  BY <1>1, NodePathsAre, CheckNodeIs
<1>2. CASE node \in Tags(b) /\ TagOf(b, node) = "BEGIN_NODE"
  <2>1. IsReader(b, n, p, g) /\ n \in Nat
    BY StoryIs DEF IsStory
  <2>2. PICK i \in 0 .. n : p[i] = node
    BY <1>2, <2>1, EachIsRead
  <2>3. i \in 0 .. n - 1
    <3>1. TagOf(b, p[n]) = "END"
      BY <2>1 DEF IsReader
    <3>2. i # n
      BY <1>2, <2>2, <3>1
    <3> QED BY <2>1, <3>2
  <2>4. /\ At(v, node) = g[i + 1].path
        /\ g[i + 1].path # Nowhere /\ g[i + 1].path \in DOMAIN v.tree
    BY <1>2, <2>2, <2>3, NodePathsAre
  <2>5. CheckNodeOffset(b, node) = Following(b, node)
    BY <1>2, CheckNodeIs
  <2>6. Begins(b, p, g, i, At(v, node))
    BY <1>2, <2>2, <2>4 DEF Begins
  <2> QED BY <1>2, <2>2, <2>3, <2>4, <2>5, <2>6
<1> QED BY <1>1, <1>2

(* A property that was put in, where there was none of its name or that    *)
(* one.                                                                    *)
LEMMA PutInTree ==
  ASSUME NEW b, HasStruct(b), Ordered(b), NEW n, NEW p, NEW g, IsStory(b, n, p, g),
         NEW c, HasStruct(c), Ordered(c), NEW o \in Tags(b), NEW old \in Nat, NEW x, NEW v,
         HasPut(b, c, o, old, x, v), NEW k \in 0 .. n, p[k] = o, NEW t, t = Contents(b).tree,
         NEW s \in DOMAIN t, g[k].path = s,
         \/ old = 0 /\ x \notin DOMAIN t[s]
         \/ TagOf(b, o) = "PROP" /\ PropName(b, o) = x /\ old = Following(b, o) - o
  PROVE  Told(c) /\ Contents(c).tree = WithOne(t, s, x, v)
<1>1. PICK new \in Nat : OneProperty(b, c, o, old, new)
  BY DEF HasPut
<1>2. /\ Edited(b, c, o, old, new) /\ SameNames(b, c) /\ IsMultiple(new)
      /\ o \in Tags(c) /\ o < o + new
      /\ \A a \in Tags(c) : o <= a /\ a < o + new => a = o
  BY <1>1 DEF OneProperty, OnlyTag
<1>3. TagOf(c, o) = "PROP" /\ PropName(c, o) = x /\ PropVal(c, o) = v
  BY DEF HasPut
<1>4. o \in Nat /\ \A a \in Tags(b) : a \in Nat
  BY DEF Tags
<1>5. /\ o + old \in Tags(b)
      /\ \A a \in Tags(b) : o <= a /\ a < o + old => a = o /\ old > 0
      /\ old > 0 => TagOf(b, o) = "PROP" /\ PropName(b, o) = x
  <2>1. CASE old = 0
    <3>1. o + old = o /\ ~(old > 0)
      BY <1>4, <2>1
    <3>2. ASSUME NEW a \in Tags(b), o <= a, a < o + old  PROVE FALSE
      <4>1. a \in Nat
        BY <1>4
      <4> QED BY <1>4, <3>1, <3>2, <4>1
    <3> QED BY <3>1, <3>2
  <2>2. CASE TagOf(b, o) = "PROP" /\ PropName(b, o) = x /\ old = Following(b, o) - o
    <3>1. /\ Following(b, o) \in Tags(b) /\ Following(b, o) > o
          /\ \A a \in Tags(b) : a > o => a >= Following(b, o)
      BY <2>2, FollowingIs
    <3>2. Following(b, o) \in Nat
      BY <1>4, <3>1
    <3>3. o + old = Following(b, o) /\ old > 0
      BY <1>4, <2>2, <3>1, <3>2
    <3>4. ASSUME NEW a \in Tags(b), o <= a, a < o + old  PROVE a = o
      <4>1. ~(a > o)
        BY <1>4, <3>1, <3>2, <3>3, <3>4
      <4>2. a \in Nat
        BY <1>4
      <4> QED BY <1>4, <3>4, <4>1, <4>2
    <3>5. o + old \in Tags(b)
      BY <3>1, <3>3
    <3> QED BY <2>2, <3>3, <3>4, <3>5
  <2> QED BY <2>1, <2>2
<1>6. PropertiesEdited(b, c, o, old, new)
  <2>1. \A a \in Tags(b) : o <= a /\ a < o + old => TagOf(b, a) \in {"PROP", "NOP"}
    BY <1>5
  <2>2. \A a \in Tags(c) : o <= a /\ a < o + new => TagOf(c, a) \in {"PROP", "NOP"}
    BY <1>2, <1>3
  <2>3. o + old \in Tags(b)
    BY <1>5
  <2> QED BY <1>2, <2>1, <2>2, <2>3 DEF PropertiesEdited
<1>7. \A y, w : IsPut(c, o, new, y, w) <=> y = x /\ w = v
  BY <1>2, <1>3, <1>4 DEF IsPut
<1>8. OnlyProperty(b, o, old, x, k, s, p, g)
  <2>1. old > 0 \/ x \notin DOMAIN Contents(b).tree[s]
    <3>1. CASE old = 0 /\ x \notin DOMAIN t[s]
      BY <3>1
    <3>2. CASE TagOf(b, o) = "PROP" /\ old = Following(b, o) - o
      <4>1. Following(b, o) \in Tags(b) /\ Following(b, o) > o
        BY <3>2, FollowingIs
      <4>2. Following(b, o) \in Nat
        BY <1>4, <4>1
      <4>3. old > 0
        BY <1>4, <3>2, <4>1, <4>2
      <4> QED BY <4>3
    <3> QED BY <3>1, <3>2
  <2>2. \A a \in Tags(b) : o <= a /\ a < o + old /\ TagOf(b, a) = "PROP" =>
          a = o /\ PropName(b, a) = x
    BY <1>5
  <2>3. old > 0 => TagOf(b, o) = "PROP"
    BY <1>5
  <2> QED BY <2>1, <2>2, <2>3 DEF OnlyProperty
<1>9. s = g[k].path /\ s \in DOMAIN t
  OBVIOUS
<1>10. /\ Told(c)
       /\ \A z : (\A y, w : IsPut(c, o, new, y, w) <=> y = x /\ w = z) =>
                    Contents(c).tree = WithOne(t, s, x, z)
  BY <1>6, <1>8, <1>9, PropertyReplaced
<1> QED BY <1>7, <1>10

(* A property that was taken out or covered with NOP tags.                 *)
LEMMA GoneFromTree ==
  ASSUME NEW b, HasStruct(b), Ordered(b), NEW n, NEW p, NEW g, IsStory(b, n, p, g),
         NEW c, HasStruct(c), Ordered(c), NEW o \in Tags(b), NEW old,
         TagOf(b, o) = "PROP", NEW x, PropName(b, o) = x, old = Following(b, o) - o,
         TakenOut(b, c, o, old) \/ Nopped(b, c, o, old),
         NEW k \in 0 .. n, p[k] = o, NEW t, t = Contents(b).tree,
         NEW s \in DOMAIN t, g[k].path = s
  PROVE  Told(c) /\ Contents(c).tree = WithoutOne(t, s, x)
<1>1. /\ Following(b, o) \in Tags(b) /\ Following(b, o) > o
      /\ \A a \in Tags(b) : a > o => a >= Following(b, o)
  BY FollowingIs
<1>2. o \in Nat /\ \A a \in Tags(b) : a \in Nat
  BY DEF Tags
<1>3. old \in Nat /\ old > 0 /\ o + old \in Tags(b) /\ o + old = Following(b, o)
  <2>1. Following(b, o) \in Nat
    BY <1>1, <1>2
  <2>2. old \in Nat /\ old > 0 /\ o + old = Following(b, o)
    BY <1>1, <1>2, <2>1
  <2> QED BY <1>1, <2>2
<1>4. ASSUME NEW a \in Tags(b), o <= a, a < o + old  PROVE a = o
  <2>1. ~(a > o)
    BY <1>1, <1>2, <1>3, <1>4
  <2> QED BY <1>2, <1>4, <2>1
<1>5. OnlyProperty(b, o, old, x, k, s, p, g)
  BY <1>3, <1>4 DEF OnlyProperty
<1>6. \E new : /\ PropertiesEdited(b, c, o, old, new)
               /\ \A y, w : ~IsPut(c, o, new, y, w)
  <2>1. CASE TakenOut(b, c, o, old)
    <3>1. \A a \in Tags(c) : ~(o <= a /\ a < o + 0)
      BY <1>2 DEF Tags
    <3>2. PropertiesEdited(b, c, o, old, 0)
      BY <1>3, <1>4, <2>1, <3>1, Multiples DEF PropertiesEdited, TakenOut
    <3>3. \A y, w : ~IsPut(c, o, 0, y, w)
      BY <3>1 DEF IsPut
    <3> QED BY <3>2, <3>3
  <2>2. CASE Nopped(b, c, o, old)
    <3>1. PropertiesEdited(b, c, o, old, old)
      BY <1>3, <1>4, <2>2 DEF PropertiesEdited, Nopped
    <3>2. \A y, w : ~IsPut(c, o, old, y, w)
      BY <2>2 DEF IsPut, Nopped
    <3> QED BY <3>1, <3>2
  <2> QED BY <2>1, <2>2
<1> QED BY <1>5, <1>6, PropertyReplaced

(* At the tag at o the node of path s is the one that is open.             *)
OpenAt(b, o, s) ==
  \E n, p, g : IsStory(b, n, p, g) /\ \E k \in 0 .. n : p[k] = o /\ g[k].path = s

(* Where a search in the node at an offset of a caller ends.               *)
LEMMA PropertyAt ==
  ASSUME NEW b, Sound(b), Ordered(b), Told(b), NEW node \in Int, NEW name,
         NEW s, s = At(Contents(b), node), NEW t, t = Contents(b).tree,
         NEW o, o = CheckNodeOffset(b, node), NEW r, r = GetProperty(b, node, name)
  PROVE  \/ s = Nowhere /\ o = BADOFFSET /\ r = BADOFFSET
         \/ /\ s # Nowhere /\ s \in DOMAIN t /\ name \in DOMAIN t[s]
            /\ r \in Tags(b) /\ TagOf(b, r) = "PROP" /\ PropName(b, r) = name
            /\ t[s][name] = PropVal(b, r) /\ OpenAt(b, r, s)
         \/ /\ s # Nowhere /\ s \in DOMAIN t /\ name \notin DOMAIN t[s]
            /\ r = NOTFOUND /\ o \in Tags(b) /\ IsFree(b, o, name) /\ OpenAt(b, o, s)
<1>1. HasStruct(b)
  BY SoundIs
<1>2. PICK n, p, g : IsStory(b, n, p, g)
  BY DEF Told
<1>3. \/ s = Nowhere /\ o = BADOFFSET
      \/ /\ s # Nowhere /\ s \in DOMAIN t /\ o = Following(b, node)
         /\ \E i \in 0 .. n - 1 : p[i] = node /\ Begins(b, p, g, i, s)
  BY <1>1, <1>2, TargetIs
<1>4. CASE s = Nowhere /\ o = BADOFFSET
  BY <1>4 DEF GetProperty, BADOFFSET
<1>5. CASE /\ s # Nowhere /\ s \in DOMAIN t /\ o = Following(b, node)
           /\ \E i \in 0 .. n - 1 : p[i] = node /\ Begins(b, p, g, i, s)
  <2>1. PICK i \in 0 .. n - 1 : p[i] = node /\ Begins(b, p, g, i, s)
    BY <1>5
  <2>2. \/ /\ r \in Tags(b) /\ TagOf(b, r) = "PROP" /\ PropName(b, r) = name
           /\ \E k \in 0 .. n : p[k] = r /\ g[k].path = s
           /\ name \in DOMAIN t[s] /\ t[s][name] = PropVal(b, r)
        \/ r = NOTFOUND /\ IsFree(b, o, name) /\ name \notin DOMAIN t[s]
    BY <1>1, <1>2, <1>5, <2>1, PropertyFound
  <2>3. o \in Tags(b) /\ OpenAt(b, o, s)
    <3>1. n \in Nat /\ IsReader(b, n, p, g)
      BY <1>1, <1>2, StoryIs DEF IsStory
    <3>2. i + 1 \in 0 .. n /\ p[i + 1] = o /\ p[i + 1] \in Tags(b)
      BY <1>1, <1>5, <2>1, <3>1, ReaderGoesOn DEF IsReader
    <3>3. g[i + 1].path = s
      BY <2>1 DEF Begins
    <3> QED BY <1>2, <3>2, <3>3 DEF OpenAt
  <2> QED BY <1>2, <1>5, <2>2, <2>3 DEF OpenAt
<1> QED BY <1>3, <1>4, <1>5

(* The functions on a property put one in or take one out.                 *)
LEMMA PutInOpen ==
  ASSUME NEW b, Sound(b), Ordered(b), NEW c, Kept(b, c),
         NEW o \in Tags(b), NEW old \in Nat, NEW x, NEW v, HasPut(b, c, o, old, x, v),
         NEW t, t = Contents(b).tree, NEW s \in DOMAIN t, OpenAt(b, o, s),
         \/ old = 0 /\ x \notin DOMAIN t[s]
         \/ TagOf(b, o) = "PROP" /\ PropName(b, o) = x /\ old = Following(b, o) - o
  PROVE  Told(c) /\ Contents(c).tree = WithOne(t, s, x, v)
<1>1. HasStruct(b) /\ HasStruct(c) /\ Ordered(c)
  BY SoundIs DEF Kept, StaysSound
<1>2. PICK n, p, g : IsStory(b, n, p, g) /\ \E k \in 0 .. n : p[k] = o /\ g[k].path = s
  BY DEF OpenAt
<1> QED BY <1>1, <1>2, PutInTree

LEMMA GoneFromOpen ==
  ASSUME NEW b, Sound(b), Ordered(b), NEW c, Kept(b, c), NEW o \in Tags(b), NEW old,
         TagOf(b, o) = "PROP", NEW x, PropName(b, o) = x, old = Following(b, o) - o,
         TakenOut(b, c, o, old) \/ Nopped(b, c, o, old),
         NEW t, t = Contents(b).tree, NEW s \in DOMAIN t, OpenAt(b, o, s)
  PROVE  Told(c) /\ Contents(c).tree = WithoutOne(t, s, x)
<1>1. HasStruct(b) /\ HasStruct(c) /\ Ordered(c)
  BY SoundIs DEF Kept, StaysSound
<1>2. PICK n, p, g : IsStory(b, n, p, g) /\ \E k \in 0 .. n : p[k] = o /\ g[k].path = s
  BY DEF OpenAt
<1> QED BY <1>1, <1>2, GoneFromTree

(* The blob after a call: what it says, and what was returned.             *)
Turns(b, w, t, e) ==
  /\ w.ret = e /\ Kept(b, w.fdt) /\ SameOrder(b, w.fdt)
  /\ Told(w.fdt) /\ Contents(w.fdt).tree = t

LEMMA KeepsOrder ==
  ASSUME NEW b, Sound(b), ~Misordered(b, RsvSize), NEW c, Kept(b, c)
  PROVE  SameOrder(b, c)
<1>1. UsualOrder(b)
  BY OrderIs
<1>2. UsualOrder(c) /\ Sound(c)
  BY <1>1 DEF Kept, StaysSound
<1> QED BY <1>2, OrderIs DEF SameOrder

LEMMA RefusedTurns ==
  ASSUME NEW b, Sound(b), Told(b), NEW e, NEW t, t = Contents(b).tree
  PROVE  Turns(b, Result(b, e), t, e)
BY DEF Turns, Result, Kept, StaysSound, SameOrder

(* A blob that reads alike tells the same story.                           *)
LEMMA AlikeIsTold ==
  ASSUME NEW b, HasStruct(b), Ordered(b), Told(b), NEW c, HasStruct(c), Ordered(c),
         ReadAlike(b, c), c.size_dt_strings \in Nat
  PROVE  Told(c)
<1>1. PICK n, p, g : IsStory(b, n, p, g)
  BY DEF Told
<1>2. n \in Nat /\ p[0] = 0 /\ 0 \in 0 .. n
  BY <1>1 DEF IsStory, IsReader
<1>3. 0 \in Tags(b) /\ b.size_dt_struct \in Nat
  BY <1>1, <1>2, StoryIs DEF HasStruct
<1>4. Edited(b, c, 0, 0, 0) /\ SameNames(b, c)
  <2>1. /\ c.size_dt_struct = b.size_dt_struct /\ SameNames(b, c)
        /\ c.size_dt_strings >= b.size_dt_strings
        /\ \A i \in 0 .. b.size_dt_struct - 1 : Struct(c, i) = Struct(b, i)
    BY DEF ReadAlike
  <2>2. \A i \in 0 .. b.size_dt_struct - 1 : i + (0 - 0) = i
    BY <1>3
  <2>3. c.size_dt_struct = b.size_dt_struct - 0 + 0
    BY <1>3, <2>1
  <2> QED BY <2>1, <2>2, <2>3 DEF Edited
<1>5. IsMultiple(0)
  BY Multiples
<1>6. PropertiesEdited(b, c, 0, 0, 0)
  <2>1. 0 + 0 = 0 /\ \A a \in Nat : ~(0 <= a /\ a < 0 + 0)
    OBVIOUS
  <2>2. (\A a \in Tags(b) : a \in Nat) /\ \A a \in Tags(c) : a \in Nat
    BY DEF Tags
  <2> QED BY <1>3, <1>4, <1>5, <2>1, <2>2 DEF PropertiesEdited
<1> QED BY <1>1, <1>2, <1>6, PropertiesTold

LEMMA StringsTurn ==
  ASSUME NEW b, Sound(b), Ordered(b), Told(b), ~Misordered(b, RsvSize),
         NEW w, MoreStrings(b, w.fdt), NEW t, t = Contents(b).tree
  PROVE  Turns(b, w, t, w.ret)
<1> DEFINE c == w.fdt
<1>1. HasStruct(b) /\ Kept(b, c)
  BY SoundIs DEF MoreStrings
<1>2. HasStruct(c) /\ Ordered(c)
  BY <1>1, SoundIs DEF Kept, StaysSound
<1>3. Contents(c).tree = t
  BY MoreStringsAreAlike
<1>4. SameOrder(b, c)
  BY <1>1, KeepsOrder
<1>5. Told(c)
  BY <1>1, <1>2, AlikeIsTold DEF MoreStrings, ReadAlike
<1> QED BY <1>1, <1>3, <1>4, <1>5 DEF Turns

(* A value of which nothing was there before, or one of which all was.     *)
LEMMA ValuesAre ==
  ASSUME NEW b, NEW r, PropLen(b, r) \in Nat, NEW S, NEW val \in Seq(S)
  PROVE  /\ [i \in 1 .. Len(val) |-> val[i]] = val /\ Len(val) \in Nat
         /\ ValueFrom(b, r, 0, val) = val
         /\ ValueFrom(b, r, PropLen(b, r), val) = PropVal(b, r) \o val
         /\ << >> \o val = val
<1>1. Len(val) \in Nat /\ val = [i \in 1 .. Len(val) |-> val[i]]
  BY SequenceIs
<1>2. ValueFrom(b, r, 0, val) = val
  <2> DEFINE m == Len(val)
  <2>1. 0 + m = m /\ \A i \in 1 .. m : ~(i <= 0) /\ i - 0 = i
    BY <1>1
  <2>2. ValueFrom(b, r, 0, val) = [i \in 1 .. m |-> val[i]]
    BY <2>1 DEF ValueFrom
  <2> QED BY <1>1, <2>2
<1>3. ValueFrom(b, r, PropLen(b, r), val) = PropVal(b, r) \o val
  <2> DEFINE k == PropLen(b, r)
             m == Len(val)
             old == PropVal(b, r)
             V == S \cup {old[i] : i \in 1 .. k}
             x == ValueFrom(b, r, k, val)
             y == old \o val
  <2>1. old = [i \in 1 .. k |-> old[i]]
    BY DEF PropVal
  <2>2. old \in Seq(V) /\ Len(old) = k
    <3> HIDE DEF old
    <3> QED BY <2>1
  <2>3. val \in Seq(V)
    <3> HIDE DEF old
    <3>1. \A i \in 1 .. m : val[i] \in V
      OBVIOUS
    <3> HIDE DEF V
    <3> QED BY <1>1, <3>1
  <2>4. x = [i \in 1 .. k + m |-> IF i <= k THEN old[i] ELSE val[i - k]]
    BY DEF ValueFrom
  <2> HIDE DEF old, V, x, k
  <2>5. y \in Seq(V) /\ Len(y) = k + m
        /\ \A i \in 1 .. k + m : y[i] = IF i <= k THEN old[i] ELSE val[i - k]
    BY <2>2, <2>3
  <2>6. y = [i \in 1 .. k + m |-> y[i]]
    BY <2>5, SequenceIs
  <2>7. y = x
    BY <2>4, <2>5, <2>6
  <2> QED BY <2>7 DEF k, x, old
<1> QED BY <1>1, <1>2, <1>3

(* A property at the offset is put in, or there is no space.               *)
LEMMA AddPropertyTurns ==
  ASSUME NEW b, Sound(b), Ordered(b), Told(b), ~Misordered(b, RsvSize),
         NEW node \in Int, NEW name \in PropNames, NEW S, NEW val \in Seq(S),
         NEW t, t = Contents(b).tree, NEW s \in DOMAIN t, name \notin DOMAIN t[s],
         NEW o, o = CheckNodeOffset(b, node), o \in Tags(b), IsFree(b, o, name),
         OpenAt(b, o, s), NEW w, w = AddProperty(b, node, name, val)
  PROVE  Turns(b, w, WithOne(t, s, name, val), 0) \/ Turns(b, w, t, NOSPACE)
<1>1. Len(val) \in Nat /\ val = [i \in 1 .. Len(val) |-> val[i]]
  BY SequenceIs
<1>2. /\ Kept(b, w.fdt)
      /\ \/ o = BADOFFSET /\ w = Result(b, BADOFFSET)
         \/ o \in Tags(b) /\ w.ret = NOSPACE /\ MoreStrings(b, w.fdt)
         \/ /\ o \in Tags(b) /\ w.ret = 0
            /\ HasPut(b, w.fdt, o, 0, name, [i \in 1 .. Len(val) |-> val[i]])
  BY <1>1, AddPropertyKeeps
<1>3. o # BADOFFSET
  BY DEF Tags, BADOFFSET
<1>4. CASE w.ret = NOSPACE /\ MoreStrings(b, w.fdt)
  BY <1>4, StringsTurn
<1>5. CASE w.ret = 0 /\ HasPut(b, w.fdt, o, 0, name, val)
  <2>1. ASSUME NEW c, c = w.fdt, NEW old, old = 0
        PROVE  Told(c) /\ Contents(c).tree = WithOne(t, s, name, val)
    <3>1. Kept(b, c) /\ HasPut(b, c, o, old, name, val) /\ old \in Nat
      BY <1>2, <1>5, <2>1
    <3> QED BY <2>1, <3>1, PutInOpen
  <2>2. SameOrder(b, w.fdt)
    BY <1>2, KeepsOrder
  <2> QED BY <1>2, <1>5, <2>1, <2>2 DEF Turns
<1> QED BY <1>1, <1>2, <1>3, <1>4, <1>5

(* A property that is there is given another value, or there is no space.  *)
LEMMA ResizeTurns ==
  ASSUME NEW b, Sound(b), Ordered(b), Told(b), ~Misordered(b, RsvSize),
         NEW r \in Tags(b), TagOf(b, r) = "PROP", NEW name, PropName(b, r) = name,
         NEW at \in 0 .. PropLen(b, r), NEW val, Len(val) \in Nat,
         NEW t, t = Contents(b).tree, NEW s \in DOMAIN t, OpenAt(b, r, s),
         NEW w, w = Resize(b, r, at, val)
  PROVE  \/ Turns(b, w, WithOne(t, s, name, ValueFrom(b, r, at, val)), 0)
         \/ Turns(b, w, t, NOSPACE)
<1>1. /\ Kept(b, w.fdt)
      /\ \/ w.ret = NOSPACE /\ w.fdt = b
         \/ /\ w.ret = 0
            /\ HasPut(b, w.fdt, r, PropHeader + TagAlign(PropLen(b, r)),
                      PropName(b, r), ValueFrom(b, r, at, val))
  BY ResizeKeeps
<1>2. SameOrder(b, w.fdt)
  BY <1>1, KeepsOrder
<1>3. CASE w.ret = NOSPACE /\ w.fdt = b
  BY <1>1, <1>2, <1>3 DEF Turns
<1>4. CASE /\ w.ret = 0
           /\ HasPut(b, w.fdt, r, PropHeader + TagAlign(PropLen(b, r)),
                     PropName(b, r), ValueFrom(b, r, at, val))
  <2> DEFINE old == PropHeader + TagAlign(PropLen(b, r))
             v == ValueFrom(b, r, at, val)
  <2>1. /\ r \in Nat /\ PropHeader \in Nat /\ TagAlign(PropLen(b, r)) \in Nat
        /\ Following(b, r) = r + PropHeader + TagAlign(PropLen(b, r))
    BY SoundIs, FoundProperty
  <2>2. old \in Nat /\ old = Following(b, r) - r
    BY <2>1
  <2> HIDE DEF old, v
  <2>3. HasPut(b, w.fdt, r, old, name, v)
    BY <1>4 DEF old, v
  <2>4. Told(w.fdt) /\ Contents(w.fdt).tree = WithOne(t, s, name, v)
    BY <1>1, <2>2, <2>3, PutInOpen
  <2> QED BY <1>1, <1>2, <1>4, <2>4 DEF Turns, v
<1> QED BY <1>1, <1>3, <1>4

LEMMA SetPropTurns ==
  ASSUME NEW b, Sound(b), Ordered(b), Told(b), ~Misordered(b, RsvSize),
         NEW node \in Int, NEW name \in PropNames, NEW S, NEW val \in Seq(S),
         NEW t, t = Contents(b).tree, NEW s, s = At(Contents(b), node),
         NEW w, w = fdt_setprop(b, node, name, val)
  PROVE  \/ s = Nowhere /\ w = Result(b, BADOFFSET)
         \/ /\ s \in DOMAIN t /\ s # Nowhere
            /\ Turns(b, w, WithOne(t, s, name, val), 0) \/ Turns(b, w, t, NOSPACE)
<1> DEFINE r == GetProperty(b, node, name)
           o == CheckNodeOffset(b, node)
<1>1. w = IF r >= 0 THEN Resize(b, r, 0, val)
          ELSE IF r = NOTFOUND THEN AddProperty(b, node, name, val)
          ELSE Result(b, r)
  BY DEF fdt_setprop
<1>2. \/ s = Nowhere /\ o = BADOFFSET /\ r = BADOFFSET
      \/ /\ s # Nowhere /\ s \in DOMAIN t /\ name \in DOMAIN t[s]
         /\ r \in Tags(b) /\ TagOf(b, r) = "PROP" /\ PropName(b, r) = name
         /\ t[s][name] = PropVal(b, r) /\ OpenAt(b, r, s)
      \/ /\ s # Nowhere /\ s \in DOMAIN t /\ name \notin DOMAIN t[s]
         /\ r = NOTFOUND /\ o \in Tags(b) /\ IsFree(b, o, name) /\ OpenAt(b, o, s)
  BY PropertyAt
<1>3. o = CheckNodeOffset(b, node)
  OBVIOUS
<1> HIDE DEF r, o
<1>4. CASE s = Nowhere /\ o = BADOFFSET /\ r = BADOFFSET
  BY <1>1, <1>4 DEF BADOFFSET, NOTFOUND
<1>5. CASE /\ s # Nowhere /\ s \in DOMAIN t /\ name \in DOMAIN t[s]
           /\ r \in Tags(b) /\ TagOf(b, r) = "PROP" /\ PropName(b, r) = name
           /\ t[s][name] = PropVal(b, r) /\ OpenAt(b, r, s)
  <2>1. PropLen(b, r) \in Nat /\ r \in Nat
    BY <1>5, SoundIs, FoundProperty
  <2>2. w = Resize(b, r, 0, val) /\ 0 \in 0 .. PropLen(b, r)
    BY <1>1, <2>1
  <2>3. ValueFrom(b, r, 0, val) = val /\ Len(val) \in Nat
    BY <2>1, ValuesAre
  <2>4. \/ Turns(b, w, WithOne(t, s, name, ValueFrom(b, r, 0, val)), 0)
        \/ Turns(b, w, t, NOSPACE)
    BY <1>5, <2>2, <2>3, ResizeTurns
  <2> QED BY <1>5, <2>3, <2>4
<1>6. CASE /\ s # Nowhere /\ s \in DOMAIN t /\ name \notin DOMAIN t[s]
           /\ r = NOTFOUND /\ o \in Tags(b) /\ IsFree(b, o, name) /\ OpenAt(b, o, s)
  <2>1. w = AddProperty(b, node, name, val)
    BY <1>1, <1>6 DEF NOTFOUND
  <2> QED BY <1>3, <1>6, <2>1, AddPropertyTurns
<1> QED BY <1>2, <1>4, <1>5, <1>6

(* What was there, with the new bytes behind it.                           *)
ValueBefore(t, s, name) == IF name \in DOMAIN t[s] THEN t[s][name] ELSE << >>

LEMMA AppendPropTurns ==
  ASSUME NEW b, Sound(b), Ordered(b), Told(b), ~Misordered(b, RsvSize),
         NEW node \in Int, NEW name \in PropNames, NEW S, NEW val \in Seq(S),
         NEW t, t = Contents(b).tree, NEW s, s = At(Contents(b), node),
         NEW w, w = fdt_appendprop(b, node, name, val)
  PROVE  \/ s = Nowhere /\ w = Result(b, BADOFFSET)
         \/ /\ s \in DOMAIN t /\ s # Nowhere
            /\ \/ Turns(b, w, WithOne(t, s, name, ValueBefore(t, s, name) \o val), 0)
               \/ Turns(b, w, t, NOSPACE)
<1> DEFINE r == GetProperty(b, node, name)
           o == CheckNodeOffset(b, node)
<1>1. w = IF r >= 0 THEN Resize(b, r, PropLen(b, r), val)
                    ELSE AddProperty(b, node, name, val)
  BY DEF fdt_appendprop
<1>2. \/ s = Nowhere /\ o = BADOFFSET /\ r = BADOFFSET
      \/ /\ s # Nowhere /\ s \in DOMAIN t /\ name \in DOMAIN t[s]
         /\ r \in Tags(b) /\ TagOf(b, r) = "PROP" /\ PropName(b, r) = name
         /\ t[s][name] = PropVal(b, r) /\ OpenAt(b, r, s)
      \/ /\ s # Nowhere /\ s \in DOMAIN t /\ name \notin DOMAIN t[s]
         /\ r = NOTFOUND /\ o \in Tags(b) /\ IsFree(b, o, name) /\ OpenAt(b, o, s)
  BY PropertyAt
<1>3. o = CheckNodeOffset(b, node)
  OBVIOUS
<1> HIDE DEF r, o
<1>4. CASE s = Nowhere /\ o = BADOFFSET /\ r = BADOFFSET
  <2>1. w = AddProperty(b, node, name, val)
    BY <1>1, <1>4 DEF BADOFFSET
  <2>2. AddProperty(b, node, name, val) = Result(b, BADOFFSET)
    BY <1>3, <1>4 DEF AddProperty, BADOFFSET
  <2> QED BY <1>4, <2>1, <2>2
<1>5. CASE /\ s # Nowhere /\ s \in DOMAIN t /\ name \in DOMAIN t[s]
           /\ r \in Tags(b) /\ TagOf(b, r) = "PROP" /\ PropName(b, r) = name
           /\ t[s][name] = PropVal(b, r) /\ OpenAt(b, r, s)
  <2>1. PropLen(b, r) \in Nat /\ r \in Nat
    BY <1>5, SoundIs, FoundProperty
  <2>2. w = Resize(b, r, PropLen(b, r), val) /\ PropLen(b, r) \in 0 .. PropLen(b, r)
    BY <1>1, <2>1
  <2>3. /\ ValueFrom(b, r, PropLen(b, r), val) = PropVal(b, r) \o val
        /\ Len(val) \in Nat
    BY <2>1, ValuesAre
  <2>4. \/ Turns(b, w, WithOne(t, s, name, ValueFrom(b, r, PropLen(b, r), val)), 0)
        \/ Turns(b, w, t, NOSPACE)
    BY <1>5, <2>2, <2>3, ResizeTurns
  <2>5. PropVal(b, r) = ValueBefore(t, s, name)
    BY <1>5 DEF ValueBefore
  <2> QED BY <1>5, <2>3, <2>4, <2>5
<1>6. CASE /\ s # Nowhere /\ s \in DOMAIN t /\ name \notin DOMAIN t[s]
           /\ r = NOTFOUND /\ o \in Tags(b) /\ IsFree(b, o, name) /\ OpenAt(b, o, s)
  <2>1. w = AddProperty(b, node, name, val)
    BY <1>1, <1>6 DEF NOTFOUND
  <2>2. ValueBefore(t, s, name) \o val = val
    <3>1. val \in Seq(S)
      OBVIOUS
    <3> QED BY <1>6 DEF ValueBefore
  <2> QED BY <1>3, <1>6, <2>1, <2>2, AddPropertyTurns
<1> QED BY <1>2, <1>4, <1>5, <1>6

LEMMA DelPropTurns ==
  ASSUME NEW b, Sound(b), Ordered(b), Told(b), ~Misordered(b, RsvSize),
         NEW node \in Int, NEW name,
         NEW t, t = Contents(b).tree, NEW s, s = At(Contents(b), node),
         NEW w, w = fdt_delprop(b, node, name)
  PROVE  \/ s = Nowhere /\ w = Result(b, BADOFFSET)
         \/ /\ s \in DOMAIN t /\ s # Nowhere
            /\ \/ name \notin DOMAIN t[s] /\ w = Result(b, NOTFOUND)
               \/ /\ name \in DOMAIN t[s]
                  /\ Turns(b, w, WithoutOne(t, s, name), 0)
<1> DEFINE r == GetProperty(b, node, name)
           o == CheckNodeOffset(b, node)
<1>1. /\ Kept(b, w.fdt)
      /\ \/ r \in Errors /\ w = Result(b, r)
         \/ /\ r \in Tags(b) /\ TagOf(b, r) = "PROP" /\ w.ret = 0
            /\ TakenOut(b, w.fdt, r, Following(b, r) - r)
  BY DelPropKeeps
<1>2. \/ s = Nowhere /\ o = BADOFFSET /\ r = BADOFFSET
      \/ /\ s # Nowhere /\ s \in DOMAIN t /\ name \in DOMAIN t[s]
         /\ r \in Tags(b) /\ TagOf(b, r) = "PROP" /\ PropName(b, r) = name
         /\ t[s][name] = PropVal(b, r) /\ OpenAt(b, r, s)
      \/ /\ s # Nowhere /\ s \in DOMAIN t /\ name \notin DOMAIN t[s]
         /\ r = NOTFOUND /\ o \in Tags(b) /\ IsFree(b, o, name) /\ OpenAt(b, o, s)
  BY PropertyAt
<1> HIDE DEF r, o
<1>3. r \in Tags(b) => r \notin Errors
  BY DEF Tags, Errors
<1>4. BADOFFSET \notin Tags(b) /\ NOTFOUND \notin Tags(b)
  BY DEF Tags, BADOFFSET, NOTFOUND
<1>5. CASE r \notin Tags(b)
  BY <1>1, <1>2, <1>4, <1>5
<1>6. CASE r \in Tags(b)
  <2>1. /\ s # Nowhere /\ s \in DOMAIN t /\ name \in DOMAIN t[s]
        /\ TagOf(b, r) = "PROP" /\ PropName(b, r) = name /\ OpenAt(b, r, s)
        /\ w.ret = 0 /\ TakenOut(b, w.fdt, r, Following(b, r) - r)
    BY <1>1, <1>2, <1>3, <1>4, <1>6
  <2>2. Told(w.fdt) /\ Contents(w.fdt).tree = WithoutOne(t, s, name)
    BY <1>1, <1>6, <2>1, GoneFromOpen
  <2>3. SameOrder(b, w.fdt)
    BY <1>1, KeepsOrder
  <2> QED BY <1>1, <2>1, <2>2, <2>3 DEF Turns
<1> QED BY <1>5, <1>6

LEMMA SetPropInplaceTurns ==
  ASSUME NEW b, Sound(b), Ordered(b), Told(b),
         NEW node \in Int, NEW name, NEW S, NEW val \in Seq(S),
         NEW t, t = Contents(b).tree, NEW s, s = At(Contents(b), node),
         NEW w, w = fdt_setprop_inplace(b, node, name, val)
  PROVE  \/ s = Nowhere /\ w = Result(b, BADOFFSET)
         \/ /\ s \in DOMAIN t /\ s # Nowhere
            /\ \/ name \notin DOMAIN t[s] /\ w = Result(b, NOTFOUND)
               \/ /\ name \in DOMAIN t[s] /\ Len(t[s][name]) # Len(val)
                  /\ w = Result(b, NOSPACE)
               \/ /\ name \in DOMAIN t[s] /\ Len(t[s][name]) = Len(val)
                  /\ Turns(b, w, WithOne(t, s, name, val), 0)
<1> DEFINE r == GetProperty(b, node, name)
           o == CheckNodeOffset(b, node)
<1>1. Len(val) \in Nat /\ val = [i \in 1 .. Len(val) |-> val[i]]
  BY SequenceIs
<1>2. /\ Kept(b, w.fdt)
      /\ \/ r \in Errors /\ w = Result(b, r)
         \/ /\ r \in Tags(b) /\ PropLen(b, r) # Len(val) /\ w = Result(b, NOSPACE)
         \/ /\ r \in Tags(b) /\ PropLen(b, r) = Len(val) /\ w.ret = 0
            /\ HasPut(b, w.fdt, r, Following(b, r) - r, PropName(b, r),
                      [i \in 1 .. Len(val) |-> val[i]])
            /\ SameOrder(b, w.fdt)
  BY <1>1, SetPropInplaceKeeps
<1>3. \/ s = Nowhere /\ o = BADOFFSET /\ r = BADOFFSET
      \/ /\ s # Nowhere /\ s \in DOMAIN t /\ name \in DOMAIN t[s]
         /\ r \in Tags(b) /\ TagOf(b, r) = "PROP" /\ PropName(b, r) = name
         /\ t[s][name] = PropVal(b, r) /\ OpenAt(b, r, s)
      \/ /\ s # Nowhere /\ s \in DOMAIN t /\ name \notin DOMAIN t[s]
         /\ r = NOTFOUND /\ o \in Tags(b) /\ IsFree(b, o, name) /\ OpenAt(b, o, s)
  BY PropertyAt
<1> HIDE DEF r, o
<1>4. r \in Tags(b) => r \notin Errors
  BY DEF Tags, Errors
<1>5. BADOFFSET \notin Tags(b) /\ NOTFOUND \notin Tags(b)
  BY DEF Tags, BADOFFSET, NOTFOUND
<1>6. CASE r \notin Tags(b)
  BY <1>2, <1>3, <1>5, <1>6
<1>7. CASE r \in Tags(b)
  <2>1. /\ s # Nowhere /\ s \in DOMAIN t /\ name \in DOMAIN t[s]
        /\ TagOf(b, r) = "PROP" /\ PropName(b, r) = name /\ OpenAt(b, r, s)
        /\ t[s][name] = PropVal(b, r)
    BY <1>3, <1>5, <1>7
  <2>2. /\ PropLen(b, r) \in Nat /\ r \in Nat
        /\ Following(b, r) - r \in Nat
    <3>1. HasStruct(b)
      BY SoundIs
    <3>2. PropLen(b, r) \in Nat /\ r \in Nat
      BY <1>7, <2>1, <3>1, FoundProperty
    <3>3. Following(b, r) \in Tags(b) /\ Following(b, r) > r
      BY <1>7, <2>1, <3>1, FollowingIs
    <3>4. Following(b, r) \in Nat
      BY <3>3 DEF Tags
    <3> QED BY <3>2, <3>3, <3>4
  <2>3. Len(t[s][name]) = PropLen(b, r)
    <3>1. Len(PropVal(b, r)) = PropLen(b, r)
      BY <2>2 DEF PropVal
    <3> QED BY <2>1, <3>1
  <2>4. CASE PropLen(b, r) # Len(val) /\ w = Result(b, NOSPACE)
    BY <2>1, <2>3, <2>4
  <2>5. CASE /\ PropLen(b, r) = Len(val) /\ w.ret = 0
             /\ HasPut(b, w.fdt, r, Following(b, r) - r, PropName(b, r), val)
             /\ SameOrder(b, w.fdt)
    <3>1. ASSUME NEW old, old = Following(b, r) - r
          PROVE  Told(w.fdt) /\ Contents(w.fdt).tree = WithOne(t, s, name, val)
      <4>1. HasPut(b, w.fdt, r, old, name, val) /\ old \in Nat
        BY <2>1, <2>2, <2>5, <3>1
      <4> QED BY <1>2, <1>7, <2>1, <3>1, <4>1, PutInOpen
    <3> QED BY <1>2, <2>1, <2>3, <2>5, <3>1 DEF Turns
  <2> QED BY <1>1, <1>2, <1>4, <1>7, <2>4, <2>5
<1> QED BY <1>6, <1>7

LEMMA NopPropertyTurns ==
  ASSUME NEW b, Sound(b), Ordered(b), Told(b), NEW node \in Int, NEW name,
         NEW t, t = Contents(b).tree, NEW s, s = At(Contents(b), node),
         NEW w, w = fdt_nop_property(b, node, name)
  PROVE  \/ s = Nowhere /\ w = Result(b, BADOFFSET)
         \/ /\ s \in DOMAIN t /\ s # Nowhere
            /\ \/ name \notin DOMAIN t[s] /\ w = Result(b, NOTFOUND)
               \/ /\ name \in DOMAIN t[s]
                  /\ Turns(b, w, WithoutOne(t, s, name), 0)
<1> DEFINE r == GetProperty(b, node, name)
           o == CheckNodeOffset(b, node)
<1>1. /\ Kept(b, w.fdt)
      /\ \/ r \in Errors /\ w = Result(b, r)
         \/ /\ r \in Tags(b) /\ w.ret = 0
            /\ Nopped(b, w.fdt, r, Following(b, r) - r)
            /\ SameOrder(b, w.fdt)
  BY NopPropertyKeeps
<1>2. \/ s = Nowhere /\ o = BADOFFSET /\ r = BADOFFSET
      \/ /\ s # Nowhere /\ s \in DOMAIN t /\ name \in DOMAIN t[s]
         /\ r \in Tags(b) /\ TagOf(b, r) = "PROP" /\ PropName(b, r) = name
         /\ t[s][name] = PropVal(b, r) /\ OpenAt(b, r, s)
      \/ /\ s # Nowhere /\ s \in DOMAIN t /\ name \notin DOMAIN t[s]
         /\ r = NOTFOUND /\ o \in Tags(b) /\ IsFree(b, o, name) /\ OpenAt(b, o, s)
  BY PropertyAt
<1> HIDE DEF r, o
<1>3. r \in Tags(b) => r \notin Errors
  BY DEF Tags, Errors
<1>4. BADOFFSET \notin Tags(b) /\ NOTFOUND \notin Tags(b)
  BY DEF Tags, BADOFFSET, NOTFOUND
<1>5. CASE r \notin Tags(b)
  BY <1>1, <1>2, <1>4, <1>5
<1>6. CASE r \in Tags(b)
  <2>1. /\ s # Nowhere /\ s \in DOMAIN t /\ name \in DOMAIN t[s]
        /\ TagOf(b, r) = "PROP" /\ PropName(b, r) = name /\ OpenAt(b, r, s)
        /\ w.ret = 0 /\ Nopped(b, w.fdt, r, Following(b, r) - r)
        /\ SameOrder(b, w.fdt)
    BY <1>1, <1>2, <1>3, <1>4, <1>6
  <2>2. Told(w.fdt) /\ Contents(w.fdt).tree = WithoutOne(t, s, name)
    BY <1>1, <1>6, <2>1, GoneFromOpen
  <2> QED BY <1>1, <2>1, <2>2 DEF Turns
<1> QED BY <1>5, <1>6

-----------------------------------------------------------------------------
(* From node to node.                                                      *)

(* fdt_next_node, tag by tag.                                              *)
NodeWalk(b, f) ==
  \A o \in Tags(b), e \in Int :
    LET here  == f[[at |-> o, depth |-> e]]
        after == Following(b, o)
    IN  /\ TagOf(b, o) = "BEGIN_NODE" => here = [at |-> o, depth |-> e + 1]
        /\ TagOf(b, o) = "END_NODE" =>
             here = IF e = 0 THEN [at |-> after, depth |-> -1]
                             ELSE f[[at |-> after, depth |-> e - 1]]
        /\ TagOf(b, o) \in {"PROP", "NOP"} => here = f[[at |-> after, depth |-> e]]

LEMMA NextNodeWalks ==
  ASSUME NEW b, HasStruct(b)
  PROVE  \E f : /\ NodeWalk(b, f)
                /\ \A o \in Tags(b), e \in Int : TagOf(b, o) = "BEGIN_NODE" =>
                     NextNode(b, o, e) = f[[at |-> Following(b, o), depth |-> e]]
<1> DEFINE On(n) == \/ NextTag(b, n.at).tag = "END_NODE" /\ n.depth # 0
                    \/ NextTag(b, n.at).tag \notin {"BEGIN_NODE", "END_NODE", "END"}
           Stop == {n \in Positions : ~On(n)}
           next == [n \in Positions |->
                      [at |-> NextTag(b, n.at).next,
                       depth |-> IF NextTag(b, n.at).tag = "END_NODE"
                                   THEN n.depth - 1 ELSE n.depth]]
           out == [n \in Positions |->
                     IF NextTag(b, n.at).tag = "BEGIN_NODE"
                       THEN [at |-> n.at, depth |-> n.depth + 1]
                     ELSE IF NextTag(b, n.at).tag = "END_NODE"
                       THEN [at |-> NextTag(b, n.at).next, depth |-> -1]
                     ELSE [at |-> IF NextTag(b, n.at).next >= 0 THEN NOTFOUND
                                  ELSE NextTag(b, n.at).next,
                           depth |-> n.depth]]
           Body(f) ==
             [n \in Positions |->
                LET t == NextTag(b, n.at)
                IN  IF t.tag = "BEGIN_NODE" THEN [n EXCEPT !.depth = @ + 1]
                    ELSE IF t.tag = "END_NODE" /\ n.depth = 0
                      THEN [at |-> t.next, depth |-> -1]
                    ELSE IF t.tag = "END_NODE"
                      THEN f[[at |-> t.next, depth |-> n.depth - 1]]
                    ELSE IF t.tag # "END" THEN f[[n EXCEPT !.at = t.next]]
                    ELSE [n EXCEPT !.at = IF t.next >= 0 THEN NOTFOUND ELSE t.next]]
           Walk == CHOOSE f : f = Body(f)
           m == [n \in Positions |-> Distance(b)[n.at]]
<1>0. /\ b.size_dt_struct \in Nat /\ WalkOffsets \subseteq Int
      /\ Tags(b) \subseteq WalkOffsets /\ Tags(b) \subseteq Nat
  BY DEF HasStruct, WalkOffsets, Tags
<1>1. ASSUME NEW o \in Int, NEW e \in Int
      PROVE  LET start == IF o >= 0 THEN CheckNodeOffset(b, o) ELSE 0
             IN  start >= 0 => NextNode(b, o, e) = Walk[[at |-> start, depth |-> e]]
  <2> DEFINE start == IF o >= 0 THEN CheckNodeOffset(b, o) ELSE 0
             from == [at |-> start, depth |-> e]
  <2>1. NextNode(b, o, e) = IF start < 0 THEN from ELSE Walk[from]
    BY DEF NextNode, Positions
  <2> HIDE DEF Walk
  <2>2. ASSUME start >= 0  PROVE ~(start < 0)
    <3>1. start \in Int
      BY NodeOffsetIs, TagAt DEF BADOFFSET
    <3> HIDE DEF start
    <3> QED BY <2>2, <3>1
  <2> HIDE DEF start
  <2>3. start >= 0 => NextNode(b, o, e) = Walk[[at |-> start, depth |-> e]]
    BY <2>1, <2>2
  <2> QED BY <2>3 DEF start
<1>2. ASSUME NEW f
      PROVE  Walks(f, Positions, Stop, out, next) <=> f = Body(f)
  <2> DEFINE Step == [n \in Positions |->
                        IF n \in Stop THEN out[n] ELSE f[next[n]]]
  <2>1. ASSUME NEW n \in Positions  PROVE Step[n] = Body(f)[n]
    <3>1. n = [at |-> n.at, depth |-> n.depth]
      BY DEF Positions
    <3> DEFINE t == NextTag(b, n.at)
    <3>2. /\ [n EXCEPT !.depth = @ + 1] = [at |-> n.at, depth |-> n.depth + 1]
          /\ [n EXCEPT !.at = t.next] = [at |-> t.next, depth |-> n.depth]
          /\ [n EXCEPT !.at = IF t.next >= 0 THEN NOTFOUND ELSE t.next]
               = [at |-> IF t.next >= 0 THEN NOTFOUND ELSE t.next,
                  depth |-> n.depth]
      BY DEF Positions
    <3>3. CASE t.tag = "BEGIN_NODE"
      BY <3>2, <3>3
    <3>4. CASE t.tag = "END_NODE" /\ n.depth = 0
      BY <3>4
    <3>5. CASE t.tag = "END_NODE" /\ n.depth # 0
      BY <3>5
    <3>6. CASE t.tag = "END"
      BY <3>2, <3>6
    <3>7. CASE t.tag \notin {"BEGIN_NODE", "END_NODE", "END"}
      BY <3>2, <3>7
    <3> QED BY <3>3, <3>4, <3>5, <3>6, <3>7
  <2>2. Step = Body(f)
    BY <2>1
  <2> QED BY <2>2 DEF Walks
<1>3. ASSUME NEW n \in Positions, n \notin Stop
      PROVE  /\ n.at \in Tags(b) /\ next[n] \in Positions
             /\ next[n].at \in Tags(b) /\ next[n].at > n.at
  <2>1. NextTag(b, n.at).tag # "END" /\ n.at \in WalkOffsets /\ n.depth \in Int
    BY <1>3 DEF Positions
  <2>2. n.at \in Tags(b)
    BY <2>1, NoTagIs
  <2>3. NextTag(b, n.at) = [tag |-> TagOf(b, n.at), next |-> Following(b, n.at)]
    BY <2>2, NextTagIs
  <2>4. Following(b, n.at) \in Tags(b) /\ Following(b, n.at) > n.at
    BY <2>1, <2>2, <2>3, FollowingIs
  <2>5. next[n] = [at |-> Following(b, n.at),
                   depth |-> IF TagOf(b, n.at) = "END_NODE"
                               THEN n.depth - 1 ELSE n.depth]
    BY <2>3
  <2> QED BY <1>0, <2>1, <2>2, <2>4, <2>5 DEF Positions
<1> HIDE DEF Stop, out, next, Walk, Body
<1>4. Ahead(Positions, Stop, next, b.size_dt_struct, m)
  <2>1. ASSUME NEW n \in Positions
        PROVE  m[n] \in 0 .. b.size_dt_struct
    BY <1>0, DistanceIs DEF Positions
  <2>2. ASSUME NEW n \in Positions, n \notin Stop
        PROVE  next[n] \in Positions /\ m[next[n]] < m[n]
    <3>1. n.at \in Int /\ n.at \in Tags(b)
      BY <1>0, <1>3, <2>2 DEF Positions
    <3>2. Distance(b)[next[n].at] < Distance(b)[n.at]
      BY <1>3, <2>2, <3>1, DistanceIs
    <3> QED BY <1>3, <2>2, <3>2
  <2> HIDE DEF m
  <2> QED BY <2>1, <2>2 DEF Ahead
<1> HIDE DEF m
<1>5. \E f : f = Body(f)
  BY <1>0, <1>2, <1>4, WalkIsDefined
<1>6. Walk = Body(Walk)
  BY <1>5 DEF Walk
<1>7. ASSUME NEW o \in Tags(b), NEW e \in Int
      PROVE  LET here  == Walk[[at |-> o, depth |-> e]]
                 after == Following(b, o)
             IN  /\ TagOf(b, o) = "BEGIN_NODE" => here = [at |-> o, depth |-> e + 1]
                 /\ TagOf(b, o) = "END_NODE" =>
                      here = IF e = 0 THEN [at |-> after, depth |-> -1]
                                      ELSE Walk[[at |-> after, depth |-> e - 1]]
                 /\ TagOf(b, o) \in {"PROP", "NOP"} =>
                      here = Walk[[at |-> after, depth |-> e]]
  <2> DEFINE y == [at |-> o, depth |-> e]
             t == NextTag(b, o)
  <2>1. y \in Positions /\ y.at = o /\ y.depth = e
    BY <1>0 DEF Positions
  <2>2. t = [tag |-> TagOf(b, o), next |-> Following(b, o)]
    BY NextTagIs
  <2>3. /\ [y EXCEPT !.depth = @ + 1] = [at |-> o, depth |-> e + 1]
        /\ [y EXCEPT !.at = t.next] = [at |-> t.next, depth |-> e]
    OBVIOUS
  <2>4. Walk[y] = Body(Walk)[y]
    BY <1>6
  <2> HIDE DEF y, t
  <2>5. Body(Walk)[y] =
          IF t.tag = "BEGIN_NODE" THEN [y EXCEPT !.depth = @ + 1]
          ELSE IF t.tag = "END_NODE" /\ e = 0
            THEN [at |-> t.next, depth |-> -1]
          ELSE IF t.tag = "END_NODE"
            THEN Walk[[at |-> t.next, depth |-> e - 1]]
          ELSE IF t.tag # "END" THEN Walk[[y EXCEPT !.at = t.next]]
          ELSE [y EXCEPT !.at = IF t.next >= 0 THEN NOTFOUND ELSE t.next]
    BY <2>1 DEF Body, t
  <2>6. Walk[y] =
          IF TagOf(b, o) = "BEGIN_NODE" THEN [at |-> o, depth |-> e + 1]
          ELSE IF TagOf(b, o) = "END_NODE" /\ e = 0
            THEN [at |-> Following(b, o), depth |-> -1]
          ELSE IF TagOf(b, o) = "END_NODE"
            THEN Walk[[at |-> Following(b, o), depth |-> e - 1]]
          ELSE IF TagOf(b, o) # "END" THEN Walk[[at |-> Following(b, o), depth |-> e]]
          ELSE Body(Walk)[y]
    BY <2>2, <2>3, <2>4, <2>5
  <2> QED BY <2>6 DEF y
<1>8. NodeWalk(b, Walk)
  BY <1>7 DEF NodeWalk
<1>9. ASSUME NEW o \in Tags(b), NEW e \in Int, TagOf(b, o) = "BEGIN_NODE"
      PROVE  NextNode(b, o, e) = Walk[[at |-> Following(b, o), depth |-> e]]
  <2>1. o \in Int /\ o >= 0
    BY <1>0
  <2>2. CheckNodeOffset(b, o) = Following(b, o) /\ Following(b, o) >= 0
    BY <1>9, <2>1, CheckNodeIs, TagAt
  <2> QED BY <1>1, <2>1, <2>2
<1> QED BY <1>8, <1>9

(* Where a walk from the m-th tag on gets to: the next node, or the end of *)
(* the node above which it counts.                                         *)
Lands(b, n, p, g, top, m, r) ==
  \/ \E j \in m .. n - 1 :
       /\ TagOf(b, p[j]) = "BEGIN_NODE"
       /\ r = [at |-> p[j], depth |-> Len(g[j + 1].path) - top]
       /\ \A x \in m .. j : Len(g[x].path) >= top
       /\ \A x \in m .. j - 1 : TagOf(b, p[x]) # "BEGIN_NODE"
  \/ \E z \in m + 1 .. n :
       /\ r = [at |-> p[z], depth |-> -1] /\ Len(g[z].path) = top - 1
       /\ \A x \in m .. z - 1 : Len(g[x].path) >= top /\ TagOf(b, p[x]) # "BEGIN_NODE"

(* A tag in front of which the walk goes on.                               *)
LEMMA LandsEarlier ==
  ASSUME NEW b, NEW n \in Nat, NEW p, NEW g, NEW top, NEW m \in 0 .. n - 1,
         NEW r, Lands(b, n, p, g, top, m + 1, r),
         Len(g[m].path) >= top, TagOf(b, p[m]) # "BEGIN_NODE"
  PROVE  Lands(b, n, p, g, top, m, r)
<1>1. CASE \E j \in m + 1 .. n - 1 :
             /\ TagOf(b, p[j]) = "BEGIN_NODE"
             /\ r = [at |-> p[j], depth |-> Len(g[j + 1].path) - top]
             /\ \A x \in m + 1 .. j : Len(g[x].path) >= top
             /\ \A x \in m + 1 .. j - 1 : TagOf(b, p[x]) # "BEGIN_NODE"
  <2>1. PICK j \in m + 1 .. n - 1 :
             /\ TagOf(b, p[j]) = "BEGIN_NODE"
             /\ r = [at |-> p[j], depth |-> Len(g[j + 1].path) - top]
             /\ \A x \in m + 1 .. j : Len(g[x].path) >= top
             /\ \A x \in m + 1 .. j - 1 : TagOf(b, p[x]) # "BEGIN_NODE"
    BY <1>1
  <2>2. /\ j \in m .. n - 1
        /\ \A x \in m .. j : x = m \/ x \in m + 1 .. j
        /\ \A x \in m .. j - 1 : x = m \/ x \in m + 1 .. j - 1
    OBVIOUS
  <2>3. /\ \A x \in m .. j : Len(g[x].path) >= top
        /\ \A x \in m .. j - 1 : TagOf(b, p[x]) # "BEGIN_NODE"
    BY <2>1, <2>2
  <2> QED BY <2>1, <2>2, <2>3 DEF Lands
<1>2. CASE \E z \in m + 2 .. n :
             /\ r = [at |-> p[z], depth |-> -1] /\ Len(g[z].path) = top - 1
             /\ \A x \in m + 1 .. z - 1 :
                  Len(g[x].path) >= top /\ TagOf(b, p[x]) # "BEGIN_NODE"
  <2>1. PICK z \in m + 2 .. n :
             /\ r = [at |-> p[z], depth |-> -1] /\ Len(g[z].path) = top - 1
             /\ \A x \in m + 1 .. z - 1 :
                  Len(g[x].path) >= top /\ TagOf(b, p[x]) # "BEGIN_NODE"
    BY <1>2
  <2>2. /\ z \in m + 1 .. n
        /\ \A x \in m .. z - 1 : x = m \/ x \in m + 1 .. z - 1
    OBVIOUS
  <2>3. \A x \in m .. z - 1 : Len(g[x].path) >= top /\ TagOf(b, p[x]) # "BEGIN_NODE"
    BY <2>1, <2>2
  <2> QED BY <2>1, <2>2, <2>3 DEF Lands
<1>3. (m + 1) + 1 = m + 2
  OBVIOUS
<1> QED BY <1>1, <1>2, <1>3 DEF Lands

LEMMA WalkLands ==
  ASSUME NEW b, HasStruct(b), Ordered(b), NEW n, NEW p, NEW g, IsStory(b, n, p, g),
         NEW f, NodeWalk(b, f), NEW top \in Nat, top > 0
  PROVE  \A m \in 0 .. n : Len(g[m].path) >= top =>
           Lands(b, n, p, g, top, m, f[[at |-> p[m], depth |-> Len(g[m].path) - top]])
<1> DEFINE Deep(m) == Len(g[m].path)
           Good(m) == Deep(m) >= top =>
                        Lands(b, n, p, g, top, m, f[[at |-> p[m], depth |-> Deep(m) - top]])
           T == {k \in 0 .. n : Good(n - k)}
<1>1. /\ n \in Nat /\ IsReader(b, n, p, g) /\ g[n].path = Nowhere
      /\ \A i \in 0 .. n : IsTidy(g[i]) /\ p[i] \in Tags(b)
      /\ \A i \in 0 .. n - 1 : Tells(b, p[i], g[i], g[i + 1])
  BY StoryIs DEF IsStory
<1>2. 0 \in T
  <2>1. Deep(n) = 0 /\ n - 0 = n
    BY <1>1 DEF Nowhere
  <2>2. Good(n)
    BY <2>1
  <2> HIDE DEF Good
  <2> QED BY <1>1, <2>1, <2>2
<1>3. ASSUME NEW m \in 0 .. n - 1, Good(m + 1)  PROVE Good(m)
  <2> SUFFICES ASSUME Deep(m) >= top
               PROVE  Lands(b, n, p, g, top, m, f[[at |-> p[m], depth |-> Deep(m) - top]])
    OBVIOUS
  <2> DEFINE e == Deep(m) - top
             tag == TagOf(b, p[m])
             here == f[[at |-> p[m], depth |-> e]]
  <2>1. m \in 0 .. n /\ m + 1 \in 0 .. n /\ m \in Nat
    BY <1>1
  <2>2. IsTidy(g[m]) /\ Tells(b, p[m], g[m], g[m + 1]) /\ p[m] \in Tags(b)
    BY <1>1, <2>1
  <2>3. /\ Deep(m) \in Nat
        /\ tag = "BEGIN_NODE" => Deep(m + 1) = Deep(m) + 1
        /\ tag = "END_NODE" => Deep(m) > 0 /\ Deep(m + 1) = Deep(m) - 1
        /\ tag \in {"PROP", "NOP"} => Deep(m + 1) = Deep(m)
    <3>1. tag \in {"PROP", "NOP"} => g[m + 1].path = g[m].path
      BY <2>2, DepthGoesOn
    <3> QED BY <2>2, <3>1, DepthGoesOn
  <2>4. tag \in {"BEGIN_NODE", "END_NODE", "PROP", "NOP"}
    BY <2>2 DEF Tells
  <2>5. Following(b, p[m]) = p[m + 1]
    BY <1>1, ReaderGoesOn
  <2>6. e \in Nat /\ e \in Int
    BY <2>3
  <2>7. /\ tag = "BEGIN_NODE" => here = [at |-> p[m], depth |-> e + 1]
        /\ tag = "END_NODE" =>
             here = IF e = 0 THEN [at |-> p[m + 1], depth |-> -1]
                             ELSE f[[at |-> p[m + 1], depth |-> e - 1]]
        /\ tag \in {"PROP", "NOP"} => here = f[[at |-> p[m + 1], depth |-> e]]
    <3> HIDE DEF e
    <3> QED BY <2>2, <2>5, <2>6 DEF NodeWalk
  <2> HIDE DEF here
  <2>8. CASE tag = "BEGIN_NODE"
    <3>1. e + 1 = Deep(m + 1) - top
      BY <2>3, <2>8
    <3>2. here = [at |-> p[m], depth |-> Len(g[m + 1].path) - top]
      BY <2>7, <2>8, <3>1
    <3>3. /\ m \in m .. n - 1 /\ \A x \in m .. m : x = m
          /\ \A x \in m .. m - 1 : FALSE
      BY <2>1
    <3>4. \A x \in m .. m : Len(g[x].path) >= top
      BY <3>3
    <3> QED BY <2>8, <3>2, <3>3, <3>4 DEF Lands, here
  <2>9. CASE tag = "END_NODE" /\ e = 0
    <3>1. here = [at |-> p[m + 1], depth |-> -1] /\ Deep(m + 1) = top - 1
      BY <2>3, <2>7, <2>9
    <3>2. m + 1 \in m + 1 .. n /\ \A x \in m .. (m + 1) - 1 : x = m
      BY <2>1
    <3>3. \A x \in m .. (m + 1) - 1 : Len(g[x].path) >= top /\ TagOf(b, p[x]) # "BEGIN_NODE"
      BY <2>9, <3>2
    <3> QED BY <3>1, <3>2, <3>3 DEF Lands, here
  <2>10. CASE tag = "END_NODE" /\ e # 0
    <3>1. Deep(m + 1) >= top /\ e - 1 = Deep(m + 1) - top
      BY <2>3, <2>6, <2>10
    <3>2. here = f[[at |-> p[m + 1], depth |-> Deep(m + 1) - top]]
      BY <2>7, <2>10, <3>1
    <3>3. Lands(b, n, p, g, top, m + 1, here)
      BY <1>3, <3>1, <3>2
    <3>4. Lands(b, n, p, g, top, m, here)
      BY <1>1, <2>10, <3>3, LandsEarlier
    <3> QED BY <3>4 DEF here
  <2>11. CASE tag \in {"PROP", "NOP"}
    <3>1. Deep(m + 1) >= top /\ e = Deep(m + 1) - top
      BY <2>3, <2>11
    <3>2. here = f[[at |-> p[m + 1], depth |-> Deep(m + 1) - top]]
      BY <2>7, <2>11, <3>1
    <3>3. Lands(b, n, p, g, top, m + 1, here)
      BY <1>3, <3>1, <3>2
    <3>4. Lands(b, n, p, g, top, m, here)
      BY <1>1, <2>11, <3>3, LandsEarlier
    <3> QED BY <3>4 DEF here
  <2> QED BY <2>4, <2>8, <2>9, <2>10, <2>11
<1> HIDE DEF Good
<1>4. ASSUME NEW k \in 0 .. n - 1, k \in T  PROVE k + 1 \in T
  <2>1. n - (k + 1) \in 0 .. n - 1 /\ (n - (k + 1)) + 1 = n - k /\ k + 1 \in 0 .. n
    BY <1>1
  <2>2. Good(n - k)
    BY <1>4
  <2>3. Good(n - (k + 1))
    BY <1>3, <2>1, <2>2
  <2> QED BY <2>1, <2>3
<1>5. 0 .. n \subseteq T
  <2> HIDE DEF T
  <2> QED BY <1>1, <1>2, <1>4, UpTo
<1>6. ASSUME NEW m \in 0 .. n  PROVE Good(m)
  <2>1. n - m \in 0 .. n /\ n - (n - m) = m
    BY <1>1
  <2>2. n - m \in T
    BY <1>5, <2>1
  <2> QED BY <2>1, <2>2
<1> QED BY <1>6 DEF Good

(* fdt_next_node, from a node on.                                          *)
LEMMA NextNodeLands ==
  ASSUME NEW b, HasStruct(b), Ordered(b), NEW n, NEW p, NEW g, IsStory(b, n, p, g),
         NEW i \in 0 .. n - 1, TagOf(b, p[i]) = "BEGIN_NODE", NEW top \in Nat, top > 0,
         Len(g[i + 1].path) >= top
  PROVE  Lands(b, n, p, g, top, i + 1, NextNode(b, p[i], Len(g[i + 1].path) - top))
<1>1. /\ n \in Nat /\ IsReader(b, n, p, g)
      /\ \A j \in 0 .. n : IsTidy(g[j]) /\ p[j] \in Tags(b)
  BY StoryIs DEF IsStory
<1>2. PICK f : /\ NodeWalk(b, f)
               /\ \A o \in Tags(b), e \in Int : TagOf(b, o) = "BEGIN_NODE" =>
                    NextNode(b, o, e) = f[[at |-> Following(b, o), depth |-> e]]
  BY NextNodeWalks
<1>3. i \in 0 .. n /\ i + 1 \in 0 .. n /\ Following(b, p[i]) = p[i + 1]
  BY <1>1, ReaderGoesOn
<1>4. Len(g[i + 1].path) - top \in Int
  <2>1. Len(g[i + 1].path) \in Nat
    BY <1>1, <1>3 DEF IsTidy
  <2> QED BY <2>1
<1>5. NextNode(b, p[i], Len(g[i + 1].path) - top) =
        f[[at |-> p[i + 1], depth |-> Len(g[i + 1].path) - top]]
  BY <1>1, <1>2, <1>3, <1>4
<1> QED BY <1>2, <1>3, <1>5, WalkLands

(* _fdt_node_end_offset, node by node.                                     *)
LEMMA EndSearch ==
  ASSUME NEW b, HasStruct(b)
  PROVE  \E f : /\ \A o \in Int : NodeEndOffset(b, o) = f[[at |-> o, depth |-> 0]]
                /\ \A o, e \in Int : f[[at |-> o, depth |-> e]] =
                     IF o < 0 \/ e < 0 THEN o ELSE f[NextNode(b, o, e)]
<1> DEFINE Stop == {n \in Places : n.at < 0 \/ n.depth < 0}
           out == [n \in Places |-> n.at]
           Body(f) ==
             [n \in Places |-> IF n.at < 0 \/ n.depth < 0 THEN n.at
                               ELSE f[NextNode(b, n.at, n.depth)]]
           Search == CHOOSE f : f = Body(f)
<1>1. ASSUME NEW o \in Int
      PROVE  NodeEndOffset(b, o) = Search[[at |-> o, depth |-> 0]]
  BY DEF NodeEndOffset, Places
<1>2. ASSUME NEW f
      PROVE  Walks(f, Places, Stop, out, NextPlace(b)) <=> f = Body(f)
  <2> DEFINE Step == [n \in Places |->
                        IF n \in Stop THEN out[n] ELSE f[NextPlace(b)[n]]]
  <2>1. ASSUME NEW n \in Places  PROVE Step[n] = Body(f)[n]
    BY DEF NextPlace
  <2>2. Step = Body(f)
    BY <2>1
  <2> QED BY <2>2 DEF Walks
<1>3. \A n \in Places \ Stop : n.at >= 0
  BY DEF Places
<1> HIDE DEF Stop, out, Search, Body
<1>4. /\ b.size_dt_struct + 1 \in Nat
      /\ Ahead(Places, Stop, NextPlace(b), b.size_dt_struct + 1, Rank(b))
  BY <1>3, PlacesAhead
<1>5. \E f : f = Body(f)
  BY <1>2, <1>4, WalkIsDefined
<1>6. Search = Body(Search)
  BY <1>5 DEF Search
<1>7. ASSUME NEW o \in Int, NEW e \in Int
      PROVE  Search[[at |-> o, depth |-> e]] =
               IF o < 0 \/ e < 0 THEN o ELSE Search[NextNode(b, o, e)]
  <2> DEFINE y == [at |-> o, depth |-> e]
  <2>1. y \in Places /\ y.at = o /\ y.depth = e
    BY DEF Places
  <2> HIDE DEF y
  <2>2. Body(Search)[y] = IF o < 0 \/ e < 0 THEN o ELSE Search[NextNode(b, o, e)]
    BY <2>1 DEF Body
  <2>3. Search[y] = Body(Search)[y]
    BY <1>6
  <2> QED BY <2>2, <2>3 DEF y
<1> QED BY <1>1, <1>7

(* The end of the node that counts as top, from a node in it on.           *)
EndsAt(n, g, top, j, z) ==
  /\ z \in j + 1 .. n /\ Len(g[z].path) = top - 1
  /\ \A x \in j + 1 .. z - 1 : Len(g[x].path) >= top

(* The walk by nodes gets to that end.                                     *)
LEMMA EndsLater ==
  ASSUME NEW n \in Nat, NEW g, NEW top, NEW j \in 0 .. n, NEW k \in j + 1 .. n,
         NEW z, EndsAt(n, g, top, k, z), \A x \in j + 1 .. k : Len(g[x].path) >= top
  PROVE  EndsAt(n, g, top, j, z)
<1>1. z \in Int /\ z \in j + 1 .. n
  BY DEF EndsAt
<1>2. \A x \in j + 1 .. z - 1 : x \in j + 1 .. k \/ x \in k + 1 .. z - 1
  BY <1>1
<1> QED BY <1>1, <1>2 DEF EndsAt

LEMMA NodeEndIs ==
  ASSUME NEW b, HasStruct(b), Ordered(b), NEW n, NEW p, NEW g, IsStory(b, n, p, g),
         NEW i \in 0 .. n - 1, TagOf(b, p[i]) = "BEGIN_NODE"
  PROVE  \E z \in i + 1 .. n : NodeEndOffset(b, p[i]) = p[z] /\ Closes(g, i, z)
<1> DEFINE top == Len(g[i + 1].path)
<1>1. /\ n \in Nat /\ IsReader(b, n, p, g)
      /\ \A j \in 0 .. n : IsTidy(g[j]) /\ p[j] \in Tags(b) /\ p[j] \in Nat
      /\ \A j \in 0 .. n - 1 : Tells(b, p[j], g[j], g[j + 1])
  BY StoryIs DEF IsStory, Tags
<1>2. ASSUME NEW j \in 0 .. n - 1, TagOf(b, p[j]) = "BEGIN_NODE"
      PROVE  Len(g[j].path) \in Nat /\ Len(g[j + 1].path) = Len(g[j].path) + 1
  <2>1. j \in 0 .. n
    BY <1>1
  <2> QED BY <1>1, <1>2, <2>1, DepthGoesOn
<1>3. top \in Nat /\ top > 0 /\ top = Len(g[i].path) + 1
  BY <1>2
<1> HIDE DEF top
<1>4. PICK f : /\ \A o \in Int : NodeEndOffset(b, o) = f[[at |-> o, depth |-> 0]]
               /\ \A o, e \in Int : f[[at |-> o, depth |-> e]] =
                    IF o < 0 \/ e < 0 THEN o ELSE f[NextNode(b, o, e)]
  BY EndSearch
<1> DEFINE From(j) == f[[at |-> p[j], depth |-> Len(g[j + 1].path) - top]]
           Ends(j) == TagOf(b, p[j]) = "BEGIN_NODE" /\ Len(g[j + 1].path) >= top =>
                        \E z : EndsAt(n, g, top, j, z) /\ From(j) = p[z]
           T == {k \in 0 .. n : \A j \in 0 .. n - 1 : n - j <= k => Ends(j)}
<1>5. 0 \in T
  BY <1>1
<1>6. ASSUME NEW j \in 0 .. n - 1, \A k \in j + 1 .. n - 1 : Ends(k)  PROVE Ends(j)
  <2> SUFFICES ASSUME TagOf(b, p[j]) = "BEGIN_NODE", Len(g[j + 1].path) >= top
               PROVE  \E z : EndsAt(n, g, top, j, z) /\ From(j) = p[z]
    OBVIOUS
  <2> DEFINE e == Len(g[j + 1].path) - top
             r == NextNode(b, p[j], e)
  <2>1. j \in 0 .. n /\ p[j] \in Nat /\ Len(g[j + 1].path) \in Nat /\ j \in Nat
    BY <1>1, <1>2
  <2>2. e \in Int /\ ~(e < 0) /\ p[j] \in Int /\ ~(p[j] < 0)
    <3>1. ASSUME NEW l \in Nat, l >= top  PROVE l - top \in Int /\ ~(l - top < 0)
      BY <1>3, <3>1
    <3>2. ASSUME NEW o \in Nat  PROVE o \in Int /\ ~(o < 0)
      BY <3>2
    <3> QED BY <2>1, <3>1, <3>2
  <2>3. From(j) = f[r]
    <3> HIDE DEF e
    <3>1. f[[at |-> p[j], depth |-> e]] = f[r]
      BY <1>4, <2>2
    <3> QED BY <3>1 DEF e
  <2>4. Lands(b, n, p, g, top, j + 1, r)
    BY <1>3, NextNodeLands
  <2> HIDE DEF r, From, Ends
  <2>5. CASE \E k \in j + 1 .. n - 1 :
               /\ TagOf(b, p[k]) = "BEGIN_NODE"
               /\ r = [at |-> p[k], depth |-> Len(g[k + 1].path) - top]
               /\ \A x \in j + 1 .. k : Len(g[x].path) >= top
    <3>1. PICK k \in j + 1 .. n - 1 :
               /\ TagOf(b, p[k]) = "BEGIN_NODE"
               /\ r = [at |-> p[k], depth |-> Len(g[k + 1].path) - top]
               /\ \A x \in j + 1 .. k : Len(g[x].path) >= top
      BY <2>5
    <3>2. k \in 0 .. n - 1 /\ k \in j + 1 .. n /\ k \in j + 1 .. k
      BY <1>1, <2>1
    <3>3. Len(g[k + 1].path) >= top
      <4>1. Len(g[k].path) >= top
        BY <3>1, <3>2
      <4>2. Len(g[k].path) \in Nat /\ Len(g[k + 1].path) = Len(g[k].path) + 1
        BY <1>2, <3>1, <3>2
      <4> QED BY <1>3, <4>1, <4>2
    <3>4. PICK z : EndsAt(n, g, top, k, z) /\ From(k) = p[z]
      BY <1>6, <3>1, <3>3 DEF Ends
    <3>5. EndsAt(n, g, top, j, z)
      BY <1>1, <2>1, <3>1, <3>2, <3>4, EndsLater
    <3>6. From(j) = p[z]
      BY <2>3, <3>1, <3>4 DEF From
    <3> QED BY <3>5, <3>6
  <2>6. CASE \E z \in (j + 1) + 1 .. n :
               /\ r = [at |-> p[z], depth |-> -1] /\ Len(g[z].path) = top - 1
               /\ \A x \in j + 1 .. z - 1 : Len(g[x].path) >= top
    <3>1. PICK z \in (j + 1) + 1 .. n :
               /\ r = [at |-> p[z], depth |-> -1] /\ Len(g[z].path) = top - 1
               /\ \A x \in j + 1 .. z - 1 : Len(g[x].path) >= top
      BY <2>6
    <3>2. z \in 0 .. n /\ z \in j + 1 .. n /\ p[z] \in Int
      <4>1. z \in 0 .. n /\ z \in j + 1 .. n
        BY <1>1, <2>1
      <4> QED BY <1>1, <4>1
    <3>3. f[[at |-> p[z], depth |-> -1]] = p[z]
      <4>1. -1 \in Int /\ -1 < 0
        OBVIOUS
      <4> QED BY <1>4, <3>2, <4>1
    <3> QED BY <2>3, <3>1, <3>2, <3>3 DEF EndsAt
  <2> QED BY <2>4, <2>5, <2>6 DEF Lands
<1> HIDE DEF Ends
<1>7. ASSUME NEW k \in 0 .. n - 1, k \in T  PROVE k + 1 \in T
  <2>1. ASSUME NEW j \in 0 .. n - 1, n - j <= k + 1  PROVE Ends(j)
    <3>1. ASSUME NEW l \in j + 1 .. n - 1  PROVE Ends(l)
      <4>1. l \in 0 .. n - 1 /\ n - l <= k
        BY <1>1, <2>1
      <4> QED BY <1>7, <4>1
    <3> QED BY <1>6, <3>1
  <2>2. k + 1 \in 0 .. n
    BY <1>1
  <2> QED BY <2>1, <2>2
<1>8. 0 .. n \subseteq T
  <2> HIDE DEF T
  <2> QED BY <1>1, <1>5, <1>7, UpTo
<1>9. Ends(i)
  <2>1. n \in T /\ n - i <= n
    BY <1>1, <1>8
  <2> QED BY <2>1
<1>10. PICK z : EndsAt(n, g, top, i, z) /\ From(i) = p[z]
  BY <1>3, <1>9 DEF Ends, top
<1>11. From(i) = NodeEndOffset(b, p[i])
  <2>1. Len(g[i + 1].path) - top = 0 /\ p[i] \in Int
    <3>1. i \in 0 .. n /\ Len(g[i + 1].path) = top
      BY <1>1 DEF top
    <3> QED BY <1>1, <1>3, <3>1
  <2> QED BY <1>4, <2>1
<1>12. z \in i + 1 .. n /\ Closes(g, i, z)
  <2>1. z \in i + 1 .. n /\ Len(g[z].path) = Len(g[i].path)
    BY <1>2, <1>3, <1>10 DEF EndsAt
  <2>2. ASSUME NEW l \in i + 1 .. z - 1  PROVE Len(g[l].path) > Len(g[i].path)
    <3>1. Len(g[l].path) >= top
      BY <1>10 DEF EndsAt
    <3>2. l \in 0 .. n
      BY <1>1, <2>1
    <3>3. Len(g[l].path) \in Nat /\ Len(g[i].path) \in Nat
      BY <1>1, <1>2, <3>2 DEF IsTidy
    <3> QED BY <1>3, <3>1, <3>3
  <2> QED BY <2>1, <2>2 DEF Closes
<1> QED BY <1>10, <1>11, <1>12

(* At an offset where no node begins there is nothing to get to the end    *)
(* of.                                                                     *)
LEMMA NoNodeEnds ==
  ASSUME NEW b, HasStruct(b), NEW o \in Int,
         ~(o \in Tags(b) /\ TagOf(b, o) = "BEGIN_NODE"), o >= 0 \/ o = BADOFFSET
  PROVE  NodeEndOffset(b, o) = BADOFFSET
<1>1. PICK f : /\ \A x \in Int : NodeEndOffset(b, x) = f[[at |-> x, depth |-> 0]]
               /\ \A x, e \in Int : f[[at |-> x, depth |-> e]] =
                    IF x < 0 \/ e < 0 THEN x ELSE f[NextNode(b, x, e)]
  BY EndSearch
<1>2. BADOFFSET \in Int /\ BADOFFSET < 0 /\ 0 \in Int /\ ~(0 < 0)
  BY DEF BADOFFSET
<1>3. f[[at |-> BADOFFSET, depth |-> 0]] = BADOFFSET
  <2> HIDE DEF BADOFFSET
  <2> QED BY <1>1, <1>2
<1>4. CASE o = BADOFFSET
  BY <1>1, <1>2, <1>3, <1>4
<1>5. CASE o >= 0
  <2>1. CheckNodeOffset(b, o) = BADOFFSET
    BY CheckNodeIs
  <2>2. NextNode(b, o, 0) = [at |-> BADOFFSET, depth |-> 0]
    <3> HIDE DEF BADOFFSET
    <3> QED BY <1>2, <1>5, <2>1 DEF NextNode
  <2>3. ~(o < 0)
    BY <1>5
  <2>4. f[[at |-> o, depth |-> 0]] = f[NextNode(b, o, 0)]
    BY <1>1, <1>2, <2>3
  <2> QED BY <1>1, <1>3, <2>2, <2>4
<1> QED BY <1>4, <1>5

-----------------------------------------------------------------------------
(* What is in a node.                                                      *)

LEMMA FrontOfLonger ==
  ASSUME NEW S, NEW s \in Seq(S), NEW x \in S, NEW r, r = Append(s, x)
  PROVE  Front(r) = s
<1> DEFINE k == Len(s)
           t == SubSeq(r, 1, k)
<1>1. /\ r \in Seq(S) /\ Len(r) = k + 1 /\ k \in Nat /\ k \in 0 .. Len(r)
      /\ \A i \in 1 .. k : r[i] = s[i]
  OBVIOUS
<1>2. t \in Seq(S) /\ Len(t) = k /\ \A i \in 1 .. k : t[i] = r[i]
  BY <1>1, PrefixIs
<1> HIDE DEF t
<1>3. t = s
  BY <1>1, <1>2, EqualSequences
<1>4. Len(r) - 1 = k
  BY <1>1
<1> QED BY <1>3, <1>4 DEF Front, t

LEMMA UnderNode ==
  ASSUME NEW s \in Seq(NodeNames), NEW c, c.path \in Seq(NodeNames), NEW b, NEW o,
         NEW r, Tells(b, o, c, r), TagOf(b, o) = "BEGIN_NODE"
  PROVE  /\ r.path = Append(c.path, NodeName(b, o)) /\ NodeName(b, o) \in NodeNames
         /\ r.path \in Seq(NodeNames) /\ Len(r.path) = Len(c.path) + 1
         /\ Len(c.path) \in Nat /\ Front(r.path) = c.path
         /\ Under(s, r.path) <=> Under(s, c.path) \/ r.path = s
<1> DEFINE path == c.path
           x == NodeName(b, o)
           q == r.path
<1>1. q = Append(path, x) /\ x \in NodeNames /\ path \in Seq(NodeNames)
  BY DEF Tells, Grows
<1> HIDE DEF path, x, q
<1>2. Under(s, q) <=> Under(s, path) \/ q = s
  <2> DEFINE N == NodeNames
  <2>1. x \in N /\ path \in Seq(N) /\ s \in Seq(N)
    BY <1>1
  <2> HIDE DEF N
  <2> QED BY <1>1, <2>1, UnderAppend
<1>3. /\ q \in Seq(NodeNames) /\ Len(q) = Len(path) + 1 /\ Len(path) \in Nat
      /\ Front(q) = path
  <2> DEFINE N == NodeNames
  <2>1. x \in N /\ path \in Seq(N)
    BY <1>1
  <2> HIDE DEF N
  <2>2. q \in Seq(N)
    BY <1>1, <2>1, LongerPath
  <2>3. Len(path) \in Nat
    BY <1>1, <2>1, LongerPath
  <2>4. Len(q) = Len(path) + 1
    BY <1>1, <2>1, LongerPath
  <2>5. Front(q) = path
    <3> QED BY <1>1, <2>1, FrontOfLonger
  <2> QED BY <2>2, <2>3, <2>4, <2>5 DEF N
<1> QED BY <1>1, <1>2, <1>3 DEF path, x, q

(* A path that the node s is not on is not left for it but where s begins. *)
LEMMA StaysOutside ==
  ASSUME NEW b, HasStruct(b), Ordered(b), NEW n, NEW p, NEW g, IsStory(b, n, p, g),
         NEW s \in Seq(NodeNames), NEW k \in 0 .. n, ~Under(s, g[k].path),
         NEW l \in k .. n, \A j \in k .. l - 1 : ~Begins(b, p, g, j, s)
  PROVE  \A j \in k .. l : ~Under(s, g[j].path)
<1> DEFINE T == {j \in k .. l : ~Under(s, g[j].path)}
<1>1. /\ n \in Nat /\ \A j \in 0 .. n : g[j].path \in Seq(NodeNames)
      /\ \A j \in 0 .. n - 1 : Tells(b, p[j], g[j], g[j + 1])
  BY StoryIs DEF IsTidy
<1>2. k \in Nat /\ l \in Nat /\ k <= l /\ k \in T
  BY <1>1
<1>3. ASSUME NEW j \in k .. l - 1, j \in T  PROVE j + 1 \in T
  <2>1. j \in 0 .. n /\ j \in 0 .. n - 1 /\ j + 1 \in k .. l
    BY <1>1, <1>2
  <2>2. /\ Tells(b, p[j], g[j], g[j + 1]) /\ ~Under(s, g[j].path)
        /\ ~Begins(b, p, g, j, s) /\ g[j].path \in Seq(NodeNames)
    BY <1>1, <1>3, <2>1
  <2>3. CASE TagOf(b, p[j]) = "BEGIN_NODE"
    <3>1. /\ g[j + 1].path = Append(g[j].path, NodeName(b, p[j]))
          /\ NodeName(b, p[j]) \in NodeNames
      BY <2>2, <2>3 DEF Tells, Grows
    <3>2. g[j + 1].path # s
      BY <2>2, <2>3 DEF Begins
    <3>3. Under(s, g[j + 1].path) <=> Under(s, g[j].path) \/ g[j + 1].path = s
      BY <2>2, <2>3, UnderNode
    <3> QED BY <2>1, <2>2, <3>2, <3>3
  <2>4. CASE TagOf(b, p[j]) = "END_NODE"
    <3>1. g[j + 1].path = Front(g[j].path) /\ g[j].path # << >>
      BY <2>2, <2>4 DEF Tells, Grows, Nowhere
    <3>2. ~Under(s, g[j + 1].path)
      BY <2>2, <3>1, UnderFront
    <3> QED BY <2>1, <3>2
  <2>5. CASE TagOf(b, p[j]) \in {"PROP", "NOP"}
    <3>1. g[j + 1].path = g[j].path
      BY <2>2, <2>5 DEF Tells, Grows
    <3> QED BY <2>1, <2>2, <3>1
  <2> QED BY <2>2, <2>3, <2>4, <2>5 DEF Tells
<1>4. k .. l \subseteq T
  <2> HIDE DEF T
  <2> QED BY <1>2, <1>3, FromTo
<1> QED BY <1>4

(* From its beginning to its end every path is under that of the node.     *)
LEMMA StaysInside ==
  ASSUME NEW b, HasStruct(b), Ordered(b), NEW n, NEW p, NEW g, IsStory(b, n, p, g),
         NEW i \in 0 .. n - 1, NEW s, Begins(b, p, g, i, s),
         NEW z \in i + 1 .. n, Closes(g, i, z)
  PROVE  /\ \A j \in i + 1 .. z - 1 : Under(s, g[j].path)
         /\ g[z].path = g[i].path /\ Len(s) = Len(g[i].path) + 1
<1> DEFINE T == {j \in i + 1 .. z - 1 : Under(s, g[j].path)}
<1>1. /\ n \in Nat
      /\ \A j \in 0 .. n : g[j].path \in Seq(NodeNames) /\ Len(g[j].path) \in Nat
      /\ \A j \in 0 .. n - 1 : Tells(b, p[j], g[j], g[j + 1])
  BY StoryIs DEF IsTidy
<1>2. /\ i \in Nat /\ i \in 0 .. n /\ i + 1 \in 0 .. n /\ z \in Nat /\ i + 1 \in Nat
      /\ z - 1 \in 0 .. n - 1 /\ z - 1 \in 0 .. n /\ (z - 1) + 1 = z /\ z \in 0 .. n
  BY <1>1
<1>3. /\ s = Append(g[i].path, NodeName(b, p[i])) /\ NodeName(b, p[i]) \in NodeNames
      /\ s = g[i + 1].path
  BY <1>1 DEF Begins, Tells, Grows
<1>4. /\ s \in Seq(NodeNames) /\ Len(s) = Len(g[i].path) + 1 /\ Front(s) = g[i].path
      /\ Len(g[i].path) \in Nat
  <2>1. /\ g[i].path \in Seq(NodeNames) /\ Tells(b, p[i], g[i], g[i + 1])
        /\ TagOf(b, p[i]) = "BEGIN_NODE"
    BY <1>1, <1>2 DEF Begins
  <2>2. << >> \in Seq(NodeNames)
    OBVIOUS
  <2> QED BY <1>3, <2>1, <2>2, UnderNode
<1>5. z # i + 1
  <2>1. Len(g[z].path) = Len(g[i].path)
    BY DEF Closes
  <2> QED BY <1>3, <1>4, <2>1
<1>6. i + 1 <= z - 1 /\ i + 1 \in i + 1 .. z - 1 /\ z - 1 \in Nat
  BY <1>2, <1>5
<1>7. Under(s, s)
  BY <1>4, UnderIs
<1>8. i + 1 \in T
  BY <1>3, <1>6, <1>7
<1>9. ASSUME NEW j \in i + 1 .. z - 1, Under(s, g[j].path)
      PROVE  \/ Under(s, g[j + 1].path)
             \/ g[j].path = s /\ g[j + 1].path = g[i].path
  <2>1. j \in 0 .. n /\ j \in 0 .. n - 1
    BY <1>1, <1>2
  <2>2. Tells(b, p[j], g[j], g[j + 1]) /\ g[j].path \in Seq(NodeNames)
    BY <1>1, <2>1
  <2>3. CASE TagOf(b, p[j]) = "BEGIN_NODE"
    <3>1. /\ g[j + 1].path = Append(g[j].path, NodeName(b, p[j]))
          /\ NodeName(b, p[j]) \in NodeNames
      BY <2>2, <2>3 DEF Tells, Grows
    <3> QED BY <1>4, <1>9, <2>2, <2>3, UnderNode
  <2>4. CASE TagOf(b, p[j]) = "END_NODE"
    <3>1. g[j + 1].path = Front(g[j].path) /\ g[j].path # << >>
      BY <2>2, <2>4 DEF Tells, Grows, Nowhere
    <3> QED BY <1>4, <1>9, <2>2, <3>1, UnderFront
  <2>5. CASE TagOf(b, p[j]) \in {"PROP", "NOP"}
    <3>1. g[j + 1].path = g[j].path
      BY <2>2, <2>5 DEF Tells, Grows
    <3> QED BY <1>9, <3>1
  <2> QED BY <2>2, <2>3, <2>4, <2>5 DEF Tells
<1>10. ASSUME NEW j \in i + 1 .. (z - 1) - 1, j \in T  PROVE j + 1 \in T
  <2>1. j \in i + 1 .. z - 1 /\ j + 1 \in i + 1 .. z - 1
    BY <1>2
  <2>2. Len(g[j + 1].path) > Len(g[i].path)
    BY <2>1 DEF Closes
  <2>3. g[j + 1].path # g[i].path
    BY <1>4, <2>2
  <2> QED BY <1>9, <1>10, <2>1, <2>3
<1>11. i + 1 .. z - 1 \subseteq T
  <2> HIDE DEF T
  <2> QED BY <1>2, <1>6, <1>8, <1>10, FromTo
<1>12. z - 1 \in i + 1 .. z - 1 /\ Under(s, g[z - 1].path)
  <2>1. z - 1 \in i + 1 .. z - 1
    BY <1>2, <1>6
  <2> QED BY <1>11, <2>1
<1>13. ~Under(s, g[z].path)
  <2>1. Len(g[z].path) = Len(g[i].path)
    BY DEF Closes
  <2> QED BY <1>4, <2>1 DEF Under
<1>14. g[z].path = g[i].path
  BY <1>2, <1>9, <1>12, <1>13
<1> QED BY <1>4, <1>11, <1>14

(* What begins or is given in the node is what is under its path.          *)
LEMMA PartsAre ==
  ASSUME NEW b, HasStruct(b), Ordered(b), NEW n, NEW p, NEW g, IsStory(b, n, p, g),
         NEW i \in 0 .. n - 1, NEW s, Begins(b, p, g, i, s),
         NEW z \in i + 1 .. n, Closes(g, i, z), NEW l \in 0 .. n - 1, NEW q
  PROVE  /\ Begins(b, p, g, l, q) => (Under(s, q) <=> l \in i .. z - 1)
         /\ \A x, v : Gives(b, p, g, l, q, x, v) => (Under(s, q) <=> l \in i .. z - 1)
<1>1. /\ n \in Nat /\ g[0] = Blank
      /\ \A j \in 0 .. n : g[j].path \in Seq(NodeNames)
      /\ \A j \in 0 .. n - 1 : Tells(b, p[j], g[j], g[j + 1])
  BY StoryIs DEF IsTidy
<1>2. /\ \A j \in i + 1 .. z - 1 : Under(s, g[j].path)
      /\ g[z].path = g[i].path /\ Len(s) = Len(g[i].path) + 1
  BY StaysInside
<1>3. /\ i \in Nat /\ i \in 0 .. n /\ i + 1 \in 0 .. n /\ z \in Nat /\ z \in 0 .. n
      /\ 0 \in 0 .. n /\ i \in 0 .. i /\ z \in z .. n /\ n \in z .. n
  BY <1>1
<1>4. s \in Seq(NodeNames) /\ Len(g[i].path) \in Nat /\ s = g[i + 1].path
  BY <1>1, <1>3 DEF Begins
<1>5. ~Under(s, g[0].path) /\ ~Under(s, g[z].path)
  <2>1. g[0].path = << >>
    BY <1>1, BlankIsTidy DEF Nowhere
  <2> QED BY <1>2, <1>4, <2>1 DEF Under
<1>6. \A j \in 0 .. n - 1 : Begins(b, p, g, j, s) => j = i
  BY BeginsOnce
<1>7. \A j \in 0 .. i : ~Under(s, g[j].path)
  <2>1. \A j \in 0 .. i - 1 : j \in 0 .. n - 1 /\ j # i
    BY <1>1, <1>3
  <2>2. \A j \in 0 .. i - 1 : ~Begins(b, p, g, j, s)
    BY <1>6, <2>1
  <2> QED BY <1>3, <1>4, <1>5, <2>2, StaysOutside
<1>8. \A j \in z .. n : ~Under(s, g[j].path)
  <2>1. \A j \in z .. n - 1 : j \in 0 .. n - 1 /\ j # i
    BY <1>1, <1>3
  <2>2. \A j \in z .. n - 1 : ~Begins(b, p, g, j, s)
    BY <1>6, <2>1
  <2> QED BY <1>3, <1>4, <1>5, <2>2, StaysOutside
<1>9. ASSUME Begins(b, p, g, l, q)  PROVE Under(s, q) <=> l \in i .. z - 1
  <2>1. q = g[l + 1].path
    BY <1>9 DEF Begins
  <2>2. CASE l \in 0 .. i - 1 \/ l \in z .. n - 1
    <3>1. l + 1 \in 0 .. i \/ l + 1 \in z .. n
      BY <1>3, <2>2
    <3>2. ~(l \in i .. z - 1)
      BY <1>3, <2>2
    <3> QED BY <1>7, <1>8, <2>1, <3>1, <3>2
  <2>3. CASE l = i
    <3>1. Under(s, s)
      BY <1>4, UnderIs
    <3>2. i \in i .. z - 1
      BY <1>3
    <3> QED BY <1>4, <2>1, <2>3, <3>1, <3>2
  <2>4. CASE l \in i + 1 .. z - 1
    <3>1. l \in 0 .. n /\ l \in i .. z - 1
      BY <1>3, <2>4
    <3>2. Under(s, g[l].path) /\ g[l].path \in Seq(NodeNames)
      BY <1>1, <1>2, <2>4, <3>1
    <3>3. Tells(b, p[l], g[l], g[l + 1]) /\ TagOf(b, p[l]) = "BEGIN_NODE"
      BY <1>1, <1>9 DEF Begins
    <3> QED BY <1>4, <2>1, <3>1, <3>2, <3>3, UnderNode
  <2> QED BY <1>3, <2>2, <2>3, <2>4
<1>10. ASSUME NEW x, NEW v, Gives(b, p, g, l, q, x, v)
       PROVE  Under(s, q) <=> l \in i .. z - 1
  <2>1. q = g[l].path /\ l # i
    BY <1>10 DEF Gives, Begins
  <2>2. CASE l \in 0 .. i - 1 \/ l \in z .. n - 1
    <3>1. l \in 0 .. i \/ l \in z .. n
      BY <1>3, <2>2
    <3>2. ~(l \in i .. z - 1)
      BY <1>3, <2>2
    <3> QED BY <1>7, <1>8, <2>1, <3>1, <3>2
  <2>3. CASE l \in i + 1 .. z - 1
    <3>1. l \in i .. z - 1
      BY <1>3, <2>3
    <3> QED BY <1>2, <2>1, <2>3, <3>1
  <2> QED BY <1>3, <2>1, <2>2, <2>3
<1> QED BY <1>9, <1>10

-----------------------------------------------------------------------------
(* A tree without a node and all in it.                                    *)

PrunedTree(t, s) == [q \in DOMAIN t \ {r \in DOMAIN t : Under(s, r)} |-> t[q]]

LEMMA PrunedIs ==
  ASSUME NEW t, IsTreeOf(t), NEW s, NEW u, IsTreeOf(u),
         \A q : q \in DOMAIN u <=> q \in DOMAIN t /\ ~Under(s, q),
         \A q, x, v : Says(u, q, x, v) <=> Says(t, q, x, v) /\ ~Under(s, q)
  PROVE  u = PrunedTree(t, s)
<1> DEFINE r == PrunedTree(t, s)
<1>1. /\ IsMap(r) /\ \A q : q \in DOMAIN r <=> q \in DOMAIN t /\ ~Under(s, q)
      /\ \A q \in DOMAIN r : r[q] = t[q]
  BY DEF PrunedTree, IsMap
<1>2. /\ IsMap(u) /\ \A q \in DOMAIN u : IsMap(u[q])
      /\ \A q \in DOMAIN t : IsMap(t[q])
  BY DEF IsTreeOf
<1> HIDE DEF r
<1>3. \A q \in DOMAIN r : IsMap(r[q])
  BY <1>1, <1>2
<1>4. \A q, x, v : Says(r, q, x, v) <=> Says(t, q, x, v) /\ ~Under(s, q)
  BY <1>1 DEF Says
<1>5. /\ \A q : q \in DOMAIN u <=> q \in DOMAIN r
      /\ \A q, x, v : Says(u, q, x, v) <=> Says(r, q, x, v)
  BY <1>1, <1>4
<1>6. u = r
  BY <1>1, <1>2, <1>3, <1>5, EqualTrees
<1> QED BY <1>6 DEF r

(* The blob without the tags of a node.                                    *)
LEMMA PartGone ==
  ASSUME NEW b, HasStruct(b), Ordered(b), NEW n, NEW p, NEW g, IsStory(b, n, p, g),
         NEW c, HasStruct(c), Ordered(c),
         NEW i \in 0 .. n - 1, NEW s, Begins(b, p, g, i, s),
         NEW z \in i + 1 .. n, Closes(g, i, z), NEW old, old = p[z] - p[i],
         TakenOut(b, c, p[i], old) \/ Nopped(b, c, p[i], old),
         NEW t, t = Contents(b).tree
  PROVE  Told(c) /\ Contents(c).tree = PrunedTree(t, s)
<1> DEFINE o == p[i]
           u == Contents(c).tree
<1>1. IsReader(b, n, p, g) /\ n \in Nat
  BY DEF IsStory, IsReader
<1>2. PICK m, q, h : IsReader(c, m, q, h) /\ Contents(c) = h[m]
  BY ContentsAreRead
<1>3. /\ i \in Nat /\ z \in Nat /\ i \in 0 .. n /\ z \in 0 .. n /\ z \in i .. n /\ i < z
  BY <1>1
<1>4. /\ \A l \in 0 .. n : p[l] \in Nat /\ p[l] \in Tags(b)
      /\ \A l \in 0 .. m : q[l] \in Nat /\ q[l] \in Tags(c)
      /\ \A l, j \in 0 .. m : q[l] < q[j] <=> l < j
      /\ m \in Nat
  BY <1>1, <1>2, ReaderGoesOn, ReaderRises
<1>5. old \in Nat /\ o + old = p[z]
  <2>1. p[i] < p[z]
    BY <1>1, <1>3, ReaderRises
  <2> QED BY <1>3, <1>4, <2>1
<1>6. PICK new \in Nat : /\ IsMultiple(new) /\ Edited(b, c, o, old, new) /\ SameNames(b, c)
                         /\ \A a \in Tags(c) : o <= a /\ a < o + new => TagOf(c, a) = "NOP"
  <2>1. CASE TakenOut(b, c, o, old)
    <3>1. \A a \in Tags(c) : ~(o <= a /\ a < o + 0)
      <4>1. o \in Nat
        BY <1>3, <1>4
      <4> QED BY <4>1 DEF Tags
    <3> QED BY <2>1, <3>1, Multiples DEF TakenOut
  <2>2. CASE Nopped(b, c, o, old)
    BY <2>2 DEF Nopped
  <2> QED BY <2>1, <2>2
<1>7. PICK kc \in i .. m : q[kc] = o + new /\ InStep(b, n, p, c, m, q, i, z, kc, new - old)
  <2>1. o \in Tags(b) /\ o + old \in Tags(b)
    BY <1>3, <1>4, <1>5
  <2> QED BY <1>1, <1>2, <1>3, <1>5, <1>6, <2>1, EditAligns
<1>8. kc \in Nat /\ i \in 0 .. m /\ kc \in 0 .. m /\ q[i] = o /\ i \in 0 .. i
      /\ kc \in i .. kc
  BY <1>3, <1>4, <1>7 DEF InStep
<1> HIDE DEF o, u
<1>9. \A l \in i .. kc - 1 : TagOf(c, q[l]) = "NOP"
  <2>1. ASSUME NEW l \in i .. kc - 1  PROVE TagOf(c, q[l]) = "NOP"
    <3>1. l \in 0 .. m /\ l >= i /\ l < kc
      BY <1>3, <1>4, <1>8
    <3>2. q[l] < q[kc] /\ ~(q[l] < q[i]) /\ q[l] \in Tags(c) /\ q[l] \in Nat /\ q[i] \in Nat
      <4>1. ~(l < i)
        BY <1>3, <3>1
      <4> QED BY <1>4, <1>8, <3>1, <4>1
    <3> QED BY <1>6, <1>7, <1>8, <3>2
  <2> QED BY <2>1
<1>10. h[kc].path = g[z].path
  <2>1. h[i].path = g[i].path
    BY <1>1, <1>2, <1>7, <1>8, SamePaths
  <2>2. h[kc].path = h[i].path
    BY <1>2, <1>7, <1>8, <1>9, QuietPath
  <2>3. g[z].path = g[i].path
    BY StaysInside
  <2> QED BY <2>1, <2>2, <2>3
<1>11. /\ \A r : \A l \in i .. kc - 1 : ~Begins(c, q, h, l, r)
       /\ \A r, x, v : \A l \in i .. kc - 1 : ~Gives(c, q, h, l, r, x, v)
  BY <1>9 DEF Begins, Gives
<1>12. NewNodesAreNew(b, n, p, g, c, q, h, i, z, kc)
  BY <1>11 DEF NewNodesAreNew
<1>13. /\ IsStory(c, m, q, h) /\ IsTreeOf(u)
       /\ IsEdited(b, n, p, g, c, q, h, i, z, kc, u)
  BY <1>2, <1>7, <1>10, <1>12, EditedTree DEF u
<1>14. \A l : l \in Outside(n, i, z) <=> l \in 0 .. n - 1 /\ ~(l \in i .. z - 1)
  BY <1>1, <1>3 DEF Outside
<1>15. /\ IsTreeOf(t)
       /\ \A r : r \in DOMAIN t <=> \E l \in 0 .. n - 1 : Begins(b, p, g, l, r)
       /\ \A r, x, v : Says(t, r, x, v) <=> \E l \in 0 .. n - 1 : Gives(b, p, g, l, r, x, v)
  BY TreeIs
<1>16. ASSUME NEW r  PROVE r \in DOMAIN u <=> r \in DOMAIN t /\ ~Under(s, r)
  <2>1. \A l \in 0 .. n - 1 : Begins(b, p, g, l, r) => (Under(s, r) <=> l \in i .. z - 1)
    BY PartsAre
  <2>2. r \in DOMAIN u <=> \E l \in Outside(n, i, z) : Begins(b, p, g, l, r)
    BY <1>11, <1>13 DEF IsEdited
  <2> QED BY <1>14, <1>15, <2>1, <2>2
<1>17. ASSUME NEW r, NEW x, NEW v
       PROVE  Says(u, r, x, v) <=> Says(t, r, x, v) /\ ~Under(s, r)
  <2>1. \A l \in 0 .. n - 1 : Gives(b, p, g, l, r, x, v) =>
          (Under(s, r) <=> l \in i .. z - 1)
    BY PartsAre
  <2>2. Says(u, r, x, v) <=> \E l \in Outside(n, i, z) : Gives(b, p, g, l, r, x, v)
    BY <1>11, <1>13 DEF IsEdited
  <2> QED BY <1>14, <1>15, <2>1, <2>2
<1>18. u = PrunedTree(t, s)
  BY <1>13, <1>15, <1>16, <1>17, PrunedIs
<1> QED BY <1>13, <1>18 DEF Told, u

(* Where a node ends that the caller has an offset of.                     *)
LEMMA NodeEndAt ==
  ASSUME NEW b, Sound(b), Ordered(b), Told(b), NEW node \in Int,
         node >= 0 \/ node = BADOFFSET,
         NEW t, t = Contents(b).tree, NEW s, s = At(Contents(b), node),
         NEW end, end = NodeEndOffset(b, node)
  PROVE  \/ s = Nowhere /\ end = BADOFFSET
         \/ /\ s # Nowhere /\ s \in DOMAIN t /\ end \in Tags(b) /\ end \in Nat
            /\ \A c : /\ Kept(b, c)
                      /\ TakenOut(b, c, node, end - node) \/ Nopped(b, c, node, end - node)
                      => Told(c) /\ Contents(c).tree = PrunedTree(t, s)
<1>1. PICK n, p, g : IsStory(b, n, p, g)
  BY DEF Told
<1>2. HasStruct(b)
  BY SoundIs
<1>3. CASE ~(node \in Tags(b) /\ TagOf(b, node) = "BEGIN_NODE")
  <2>1. s = Nowhere
    BY <1>1, <1>2, <1>3, TargetIs
  <2>2. end = BADOFFSET
    BY <1>2, <1>3, NoNodeEnds
  <2> QED BY <2>1, <2>2
<1>4. CASE node \in Tags(b) /\ TagOf(b, node) = "BEGIN_NODE"
  <2>1. /\ s # Nowhere /\ s \in DOMAIN t
        /\ \E i \in 0 .. n - 1 : p[i] = node /\ Begins(b, p, g, i, s)
    BY <1>1, <1>2, <1>4, TargetIs
  <2>2. PICK i \in 0 .. n - 1 : p[i] = node /\ Begins(b, p, g, i, s)
    BY <2>1
  <2>3. PICK z \in i + 1 .. n : end = p[z] /\ Closes(g, i, z)
    BY <1>1, <1>2, <1>4, <2>2, NodeEndIs
  <2>4. end \in Tags(b) /\ end \in Nat
    <3>1. IsReader(b, n, p, g) /\ n \in Nat
      BY <1>1 DEF IsStory, IsReader
    <3>2. z \in 0 .. n
      BY <3>1
    <3> QED BY <1>2, <2>3, <3>1, <3>2, ReaderGoesOn
  <2>5. ASSUME NEW c, Kept(b, c),
               TakenOut(b, c, node, end - node) \/ Nopped(b, c, node, end - node)
        PROVE  Told(c) /\ Contents(c).tree = PrunedTree(t, s)
    <3>1. HasStruct(c) /\ Ordered(c)
      BY <2>5, SoundIs DEF Kept, StaysSound
    <3> DEFINE old == p[z] - p[i]
    <3>2. TakenOut(b, c, p[i], old) \/ Nopped(b, c, p[i], old)
      BY <2>2, <2>3, <2>5
    <3> HIDE DEF old
    <3>3. old = p[z] - p[i]
      BY DEF old
    <3> QED BY <1>1, <1>2, <2>2, <2>3, <3>1, <3>2, <3>3, PartGone
  <2> QED BY <2>1, <2>4, <2>5
<1> QED BY <1>3, <1>4

LEMMA DelNodeTurns ==
  ASSUME NEW b, Sound(b), Ordered(b), Told(b), ~Misordered(b, RsvSize),
         NEW node \in Int, node >= 0 \/ node = BADOFFSET,
         NEW t, t = Contents(b).tree, NEW s, s = At(Contents(b), node),
         NEW w, w = fdt_del_node(b, node)
  PROVE  \/ s = Nowhere /\ w = Result(b, BADOFFSET)
         \/ s \in DOMAIN t /\ s # Nowhere /\ Turns(b, w, PrunedTree(t, s), 0)
<1> DEFINE end == NodeEndOffset(b, node)
<1>1. /\ Kept(b, w.fdt)
      /\ \/ end \in Errors /\ w = Result(b, end)
         \/ /\ node \in Tags(b) /\ end \in Tags(b) /\ end > node /\ w.ret = 0
            /\ TakenOut(b, w.fdt, node, end - node)
  BY DelNodeKeeps
<1> HIDE DEF end
<1>2. \/ s = Nowhere /\ end = BADOFFSET
      \/ /\ s # Nowhere /\ s \in DOMAIN t /\ end \in Tags(b) /\ end \in Nat
         /\ \A c : /\ Kept(b, c)
                   /\ TakenOut(b, c, node, end - node) \/ Nopped(b, c, node, end - node)
                   => Told(c) /\ Contents(c).tree = PrunedTree(t, s)
  BY NodeEndAt DEF end
<1>3. CASE s = Nowhere /\ end = BADOFFSET
  <2>1. end \notin Tags(b)
    BY <1>3 DEF Tags, BADOFFSET
  <2> QED BY <1>1, <1>3, <2>1
<1>4. CASE /\ s # Nowhere /\ s \in DOMAIN t /\ end \in Nat
           /\ \A c : /\ Kept(b, c)
                     /\ TakenOut(b, c, node, end - node) \/ Nopped(b, c, node, end - node)
                     => Told(c) /\ Contents(c).tree = PrunedTree(t, s)
  <2>1. end \notin Errors
    BY <1>4 DEF Errors
  <2>2. w.ret = 0 /\ TakenOut(b, w.fdt, node, end - node)
    BY <1>1, <2>1
  <2>3. SameOrder(b, w.fdt)
    BY <1>1, KeepsOrder
  <2>4. Told(w.fdt) /\ Contents(w.fdt).tree = PrunedTree(t, s)
    BY <1>1, <1>4, <2>2
  <2> QED BY <1>1, <1>4, <2>2, <2>3, <2>4 DEF Turns
<1> QED BY <1>2, <1>3, <1>4

LEMMA NopNodeTurns ==
  ASSUME NEW b, Sound(b), Ordered(b), Told(b),
         NEW node \in Int, node >= 0 \/ node = BADOFFSET,
         NEW t, t = Contents(b).tree, NEW s, s = At(Contents(b), node),
         NEW w, w = fdt_nop_node(b, node)
  PROVE  \/ s = Nowhere /\ w = Result(b, BADOFFSET)
         \/ s \in DOMAIN t /\ s # Nowhere /\ Turns(b, w, PrunedTree(t, s), 0)
<1> DEFINE end == NodeEndOffset(b, node)
<1>1. /\ Kept(b, w.fdt)
      /\ \/ end \in Errors /\ w = Result(b, end)
         \/ /\ node \in Tags(b) /\ end \in Tags(b) /\ end > node /\ w.ret = 0
            /\ Nopped(b, w.fdt, node, end - node)
            /\ SameOrder(b, w.fdt)
  BY NopNodeKeeps
<1> HIDE DEF end
<1>2. \/ s = Nowhere /\ end = BADOFFSET
      \/ /\ s # Nowhere /\ s \in DOMAIN t /\ end \in Tags(b) /\ end \in Nat
         /\ \A c : /\ Kept(b, c)
                   /\ TakenOut(b, c, node, end - node) \/ Nopped(b, c, node, end - node)
                   => Told(c) /\ Contents(c).tree = PrunedTree(t, s)
  BY NodeEndAt DEF end
<1>3. CASE s = Nowhere /\ end = BADOFFSET
  <2>1. end \notin Tags(b)
    BY <1>3 DEF Tags, BADOFFSET
  <2> QED BY <1>1, <1>3, <2>1
<1>4. CASE /\ s # Nowhere /\ s \in DOMAIN t /\ end \in Nat
           /\ \A c : /\ Kept(b, c)
                     /\ TakenOut(b, c, node, end - node) \/ Nopped(b, c, node, end - node)
                     => Told(c) /\ Contents(c).tree = PrunedTree(t, s)
  <2>1. end \notin Errors
    BY <1>4 DEF Errors
  <2>2. w.ret = 0 /\ Nopped(b, w.fdt, node, end - node) /\ SameOrder(b, w.fdt)
    BY <1>1, <2>1
  <2>3. Told(w.fdt) /\ Contents(w.fdt).tree = PrunedTree(t, s)
    BY <1>1, <1>4, <2>2
  <2> QED BY <1>1, <1>4, <2>2, <2>3 DEF Turns
<1> QED BY <1>2, <1>3, <1>4

(* fdt_subnode_offset, node by node.                                       *)
NameWalk(b, name, f) ==
  /\ \A o \in Int : SubnodeOffset(b, o, name) = f[[at |-> o, depth |-> 0]]
  /\ \A o, e \in Int : f[[at |-> o, depth |-> e]] =
       IF o < 0 THEN o
       ELSE IF e = 1 /\ NodeNameEq(NodeName(b, o), name) THEN o
       ELSE IF NextNode(b, o, e).depth < 0 THEN NOTFOUND
       ELSE f[NextNode(b, o, e)]

LEMMA SubnodeSearch ==
  ASSUME NEW b, HasStruct(b), NEW name
  PROVE  \E f : NameWalk(b, name, f)
<1> DEFINE Hit(n) == n.depth = 1 /\ NodeNameEq(NodeName(b, n.at), name)
           Stop == {n \in Places : \/ n.at < 0 \/ Hit(n)
                                   \/ NextNode(b, n.at, n.depth).depth < 0}
           out == [n \in Places |-> IF n.at < 0 \/ Hit(n) THEN n.at
                                                           ELSE NOTFOUND]
           Body(f) ==
             [n \in Places |->
                LET next == NextNode(b, n.at, n.depth)
                IN  IF n.at < 0 THEN n.at
                    ELSE IF n.depth = 1 /\ NodeNameEq(NodeName(b, n.at), name)
                      THEN n.at
                    ELSE IF next.depth < 0 THEN NOTFOUND
                    ELSE f[next]]
           Search == CHOOSE f : f = Body(f)
<1>1. ASSUME NEW o \in Int
      PROVE  SubnodeOffset(b, o, name) = Search[[at |-> o, depth |-> 0]]
  BY DEF SubnodeOffset, Places
<1>2. ASSUME NEW f
      PROVE  Walks(f, Places, Stop, out, NextPlace(b)) <=> f = Body(f)
  <2> DEFINE Step == [n \in Places |->
                        IF n \in Stop THEN out[n] ELSE f[NextPlace(b)[n]]]
  <2>1. ASSUME NEW n \in Places  PROVE Step[n] = Body(f)[n]
    BY DEF NextPlace
  <2>2. Step = Body(f)
    BY <2>1
  <2> QED BY <2>2 DEF Walks
<1>3. \A n \in Places \ Stop : n.at >= 0
  BY DEF Places
<1> HIDE DEF Stop, out, Search, Body
<1>4. /\ b.size_dt_struct + 1 \in Nat
      /\ Ahead(Places, Stop, NextPlace(b), b.size_dt_struct + 1, Rank(b))
  BY <1>3, PlacesAhead
<1>5. \E f : f = Body(f)
  BY <1>2, <1>4, WalkIsDefined
<1>6. Search = Body(Search)
  BY <1>5 DEF Search
<1>7. ASSUME NEW o \in Int, NEW e \in Int
      PROVE  Search[[at |-> o, depth |-> e]] =
               IF o < 0 THEN o
               ELSE IF e = 1 /\ NodeNameEq(NodeName(b, o), name) THEN o
               ELSE IF NextNode(b, o, e).depth < 0 THEN NOTFOUND
               ELSE Search[NextNode(b, o, e)]
  <2> DEFINE y == [at |-> o, depth |-> e]
  <2>1. y \in Places /\ y.at = o /\ y.depth = e
    BY DEF Places
  <2> HIDE DEF y
  <2>2. Body(Search)[y] =
               IF o < 0 THEN o
               ELSE IF e = 1 /\ NodeNameEq(NodeName(b, o), name) THEN o
               ELSE IF NextNode(b, o, e).depth < 0 THEN NOTFOUND
               ELSE Search[NextNode(b, o, e)]
    BY <2>1 DEF Body
  <2>3. Search[y] = Body(Search)[y]
    BY <1>6
  <2> QED BY <2>2, <2>3 DEF y
<1> QED BY <1>1, <1>7 DEF NameWalk

(* A subnode of the node that counts as top that a search by name takes.   *)
Fitting(b, p, g, top, name, j) ==
  /\ TagOf(b, p[j]) = "BEGIN_NODE" /\ Len(g[j + 1].path) = top + 1
  /\ NodeNameEq(NodeName(b, p[j]), name)

(* What a search from the j-th tag on gets to.                             *)
Searched(b, n, p, g, top, name, j, r) ==
  \/ \E k \in j .. n - 1 :
       /\ Fitting(b, p, g, top, name, k) /\ r = p[k]
       /\ \A x \in j + 1 .. k : Len(g[x].path) >= top
  \/ /\ r = NOTFOUND
     /\ \E z : /\ EndsAt(n, g, top, j, z)
               /\ \A k \in j .. z - 1 : ~Fitting(b, p, g, top, name, k)

LEMMA SearchedEarlier ==
  ASSUME NEW b, NEW n \in Nat, NEW p, NEW g, NEW top, NEW name,
         NEW j \in 0 .. n - 1, NEW k \in j + 1 .. n - 1,
         NEW r, Searched(b, n, p, g, top, name, k, r),
         \A x \in j + 1 .. k : Len(g[x].path) >= top,
         \A x \in j .. k - 1 : ~Fitting(b, p, g, top, name, x)
  PROVE  Searched(b, n, p, g, top, name, j, r)
<1>1. CASE \E l \in k .. n - 1 :
             /\ Fitting(b, p, g, top, name, l) /\ r = p[l]
             /\ \A x \in k + 1 .. l : Len(g[x].path) >= top
  <2>1. PICK l \in k .. n - 1 :
             /\ Fitting(b, p, g, top, name, l) /\ r = p[l]
             /\ \A x \in k + 1 .. l : Len(g[x].path) >= top
    BY <1>1
  <2>2. /\ l \in j .. n - 1
        /\ \A x \in j + 1 .. l : x \in j + 1 .. k \/ x \in k + 1 .. l
    OBVIOUS
  <2> QED BY <2>1, <2>2 DEF Searched
<1>2. CASE r = NOTFOUND /\ \E z : /\ EndsAt(n, g, top, k, z)
                                  /\ \A x \in k .. z - 1 : ~Fitting(b, p, g, top, name, x)
  <2>1. PICK z : /\ EndsAt(n, g, top, k, z)
                 /\ \A x \in k .. z - 1 : ~Fitting(b, p, g, top, name, x)
    BY <1>2
  <2>2. j \in 0 .. n /\ k \in j + 1 .. n
    OBVIOUS
  <2>3. EndsAt(n, g, top, j, z)
    BY <2>1, <2>2, EndsLater
  <2>4. z \in Int /\ \A x \in j .. z - 1 : x \in j .. k - 1 \/ x \in k .. z - 1
    BY <2>3 DEF EndsAt
  <2> QED BY <1>2, <2>1, <2>3, <2>4 DEF Searched
<1> QED BY <1>1, <1>2 DEF Searched

LEMMA SubnodeSearched ==
  ASSUME NEW b, HasStruct(b), Ordered(b), NEW n, NEW p, NEW g, IsStory(b, n, p, g),
         NEW i \in 0 .. n - 1, TagOf(b, p[i]) = "BEGIN_NODE", NEW name,
         NEW top, top = Len(g[i + 1].path)
  PROVE  Searched(b, n, p, g, top, name, i, SubnodeOffset(b, p[i], name))
<1>1. /\ n \in Nat /\ IsReader(b, n, p, g)
      /\ \A j \in 0 .. n : IsTidy(g[j]) /\ p[j] \in Tags(b) /\ p[j] \in Nat
      /\ \A j \in 0 .. n - 1 : Tells(b, p[j], g[j], g[j + 1])
  BY StoryIs DEF IsStory, Tags
<1>2. ASSUME NEW j \in 0 .. n - 1, TagOf(b, p[j]) = "BEGIN_NODE"
      PROVE  Len(g[j].path) \in Nat /\ Len(g[j + 1].path) = Len(g[j].path) + 1
  <2>1. j \in 0 .. n
    BY <1>1
  <2> QED BY <1>1, <1>2, <2>1, DepthGoesOn
<1>3. top \in Nat /\ top > 0 /\ top = Len(g[i].path) + 1
  BY <1>2
<1>4. PICK f : NameWalk(b, name, f)
  BY SubnodeSearch
<1> DEFINE From(j) == f[[at |-> p[j], depth |-> Len(g[j + 1].path) - top]]
           Ends(j) == TagOf(b, p[j]) = "BEGIN_NODE" /\ Len(g[j + 1].path) >= top =>
                        Searched(b, n, p, g, top, name, j, From(j))
           T == {k \in 0 .. n : \A j \in 0 .. n - 1 : n - j <= k => Ends(j)}
<1>5. 0 \in T
  <2> HIDE DEF Ends
  <2> QED BY <1>1
<1>6. ASSUME NEW j \in 0 .. n - 1, \A k \in j + 1 .. n - 1 : Ends(k)  PROVE Ends(j)
  <2> SUFFICES ASSUME TagOf(b, p[j]) = "BEGIN_NODE", Len(g[j + 1].path) >= top
               PROVE  Searched(b, n, p, g, top, name, j, From(j))
    OBVIOUS
  <2> DEFINE e == Len(g[j + 1].path) - top
             r == NextNode(b, p[j], e)
  <2>1. j \in 0 .. n /\ p[j] \in Nat /\ Len(g[j + 1].path) \in Nat /\ j \in Nat
    BY <1>1, <1>2
  <2>2. /\ e \in Int /\ ~(e < 0) /\ p[j] \in Int /\ ~(p[j] < 0)
        /\ e = 1 <=> Len(g[j + 1].path) = top + 1
    <3>1. ASSUME NEW l \in Nat, l >= top
          PROVE  l - top \in Int /\ ~(l - top < 0) /\ (l - top = 1 <=> l = top + 1)
      BY <1>3, <3>1
    <3>2. ASSUME NEW o \in Nat  PROVE o \in Int /\ ~(o < 0)
      BY <3>2
    <3> QED BY <2>1, <3>1, <3>2
  <2>3. From(j) = IF e = 1 /\ NodeNameEq(NodeName(b, p[j]), name) THEN p[j]
                  ELSE IF r.depth < 0 THEN NOTFOUND ELSE f[r]
    <3> HIDE DEF e
    <3>1. f[[at |-> p[j], depth |-> e]] =
                  IF e = 1 /\ NodeNameEq(NodeName(b, p[j]), name) THEN p[j]
                  ELSE IF r.depth < 0 THEN NOTFOUND ELSE f[r]
      BY <1>4, <2>2 DEF NameWalk
    <3> QED BY <3>1 DEF e
  <2>4. Lands(b, n, p, g, top, j + 1, r)
    BY <1>3, NextNodeLands
  <2>7. CASE Fitting(b, p, g, top, name, j)
    <3>1. From(j) = p[j]
      BY <2>2, <2>3, <2>7 DEF Fitting
    <3>2. j \in j .. n - 1 /\ \A x \in j + 1 .. j : FALSE
      BY <2>1
    <3> HIDE DEF From
    <3> QED BY <2>7, <3>1, <3>2 DEF Searched
  <2>8. ~Fitting(b, p, g, top, name, j) => From(j) = IF r.depth < 0 THEN NOTFOUND ELSE f[r]
    BY <2>2, <2>3 DEF Fitting
  <2> HIDE DEF r, From, Ends
  <2>5. CASE /\ ~Fitting(b, p, g, top, name, j)
             /\ \E k \in j + 1 .. n - 1 :
                  /\ TagOf(b, p[k]) = "BEGIN_NODE"
                  /\ r = [at |-> p[k], depth |-> Len(g[k + 1].path) - top]
                  /\ \A x \in j + 1 .. k : Len(g[x].path) >= top
                  /\ \A x \in j + 1 .. k - 1 : TagOf(b, p[x]) # "BEGIN_NODE"
    <3>1. PICK k \in j + 1 .. n - 1 :
                  /\ TagOf(b, p[k]) = "BEGIN_NODE"
                  /\ r = [at |-> p[k], depth |-> Len(g[k + 1].path) - top]
                  /\ \A x \in j + 1 .. k : Len(g[x].path) >= top
                  /\ \A x \in j + 1 .. k - 1 : TagOf(b, p[x]) # "BEGIN_NODE"
      BY <2>5
    <3>2. /\ k \in 0 .. n - 1 /\ k \in j + 1 .. n /\ k \in j + 1 .. k
          /\ \A x \in j .. k - 1 : x = j \/ x \in j + 1 .. k - 1
      BY <1>1, <2>1
    <3>3. Len(g[k + 1].path) >= top /\ Len(g[k + 1].path) \in Nat
      <4>1. Len(g[k].path) >= top
        BY <3>1, <3>2
      <4>2. Len(g[k].path) \in Nat /\ Len(g[k + 1].path) = Len(g[k].path) + 1
        BY <1>2, <3>1, <3>2
      <4> QED BY <1>3, <4>1, <4>2
    <3>4. Searched(b, n, p, g, top, name, k, From(k))
      BY <1>6, <3>1, <3>3 DEF Ends
    <3>5. \A x \in j .. k - 1 : ~Fitting(b, p, g, top, name, x)
      BY <2>5, <3>1, <3>2 DEF Fitting
    <3>6. Searched(b, n, p, g, top, name, j, From(k))
      BY <1>1, <3>1, <3>4, <3>5, SearchedEarlier
    <3>7. ~(r.depth < 0)
      <4>1. ASSUME NEW l \in Nat, l >= top  PROVE ~(l - top < 0)
        BY <1>3, <4>1
      <4> QED BY <3>1, <3>3, <4>1
    <3>8. From(j) = From(k)
      BY <2>5, <2>8, <3>1, <3>7 DEF From
    <3> QED BY <3>6, <3>8
  <2>6. CASE /\ ~Fitting(b, p, g, top, name, j)
             /\ \E z \in (j + 1) + 1 .. n :
                  /\ r = [at |-> p[z], depth |-> -1] /\ Len(g[z].path) = top - 1
                  /\ \A x \in j + 1 .. z - 1 :
                       Len(g[x].path) >= top /\ TagOf(b, p[x]) # "BEGIN_NODE"
    <3>1. PICK z \in (j + 1) + 1 .. n :
                  /\ r = [at |-> p[z], depth |-> -1] /\ Len(g[z].path) = top - 1
                  /\ \A x \in j + 1 .. z - 1 :
                       Len(g[x].path) >= top /\ TagOf(b, p[x]) # "BEGIN_NODE"
      BY <2>6
    <3>2. /\ z \in j + 1 .. n
          /\ \A x \in j .. z - 1 : x = j \/ x \in j + 1 .. z - 1
      BY <1>1, <2>1
    <3>3. From(j) = NOTFOUND
      <4>1. r.depth = -1 /\ -1 < 0
        BY <3>1
      <4> QED BY <2>6, <2>8, <4>1
    <3>4. EndsAt(n, g, top, j, z)
      BY <3>1, <3>2 DEF EndsAt
    <3>5. \A x \in j .. z - 1 : ~Fitting(b, p, g, top, name, x)
      BY <2>6, <3>1, <3>2 DEF Fitting
    <3> QED BY <3>3, <3>4, <3>5 DEF Searched
  <2> QED BY <2>4, <2>5, <2>6, <2>7 DEF Lands
<1> HIDE DEF Ends
<1>7. ASSUME NEW k \in 0 .. n - 1, k \in T  PROVE k + 1 \in T
  <2>1. ASSUME NEW j \in 0 .. n - 1, n - j <= k + 1  PROVE Ends(j)
    <3>1. ASSUME NEW l \in j + 1 .. n - 1  PROVE Ends(l)
      <4>1. l \in 0 .. n - 1 /\ n - l <= k
        BY <1>1, <2>1
      <4> QED BY <1>7, <4>1
    <3> QED BY <1>6, <3>1
  <2>2. k + 1 \in 0 .. n
    BY <1>1
  <2> QED BY <2>1, <2>2
<1>8. 0 .. n \subseteq T
  <2> HIDE DEF T
  <2> QED BY <1>1, <1>5, <1>7, UpTo
<1>9. Ends(i)
  <2>1. n - i <= n /\ n \in 0 .. n
    BY <1>1
  <2>2. n \in T
    <3> HIDE DEF T
    <3> QED BY <1>8, <2>1
  <2> QED BY <2>1, <2>2
<1>10. Searched(b, n, p, g, top, name, i, From(i))
  BY <1>3, <1>9 DEF Ends
<1>11. From(i) = SubnodeOffset(b, p[i], name)
  <2>1. Len(g[i + 1].path) - top = 0 /\ p[i] \in Int
    <3>1. i \in 0 .. n /\ Len(g[i + 1].path) = top
      BY <1>1
    <3> QED BY <1>1, <1>3, <3>1
  <2> QED BY <1>4, <2>1 DEF NameWalk
<1> QED BY <1>10, <1>11

(* The subnodes of the node at s.                                          *)
IsChild(s, q) == Under(s, q) /\ Len(q) = Len(s) + 1

Clashes(s, q, name) == IsChild(s, q) /\ NodeNameEq(q[Len(q)], name)

LEMMA NoNodeSearched ==
  ASSUME NEW b, HasStruct(b), NEW o \in Int, NEW name,
         ~(o \in Tags(b) /\ TagOf(b, o) = "BEGIN_NODE"), o >= 0 \/ o = BADOFFSET
  PROVE  SubnodeOffset(b, o, name) = BADOFFSET
<1>1. PICK f : NameWalk(b, name, f)
  BY SubnodeSearch
<1>2. SubnodeOffset(b, o, name) = f[[at |-> o, depth |-> 0]]
  BY <1>1 DEF NameWalk
<1>3. CASE o < 0
  BY <1>1, <1>2, <1>3 DEF NameWalk
<1>4. CASE o >= 0
  <2> DEFINE bad == [at |-> BADOFFSET, depth |-> 0]
  <2>1. CheckNodeOffset(b, o) = BADOFFSET
    BY CheckNodeIs
  <2>2. NextNode(b, o, 0) = bad
    BY <1>4, <2>1 DEF NextNode, BADOFFSET
  <2>3. ~(o < 0) /\ ~(bad.depth < 0) /\ ~(0 = 1) /\ 0 \in Int
    BY <1>4
  <2>4. f[[at |-> o, depth |-> 0]] = f[bad]
    <3> HIDE DEF bad
    <3> QED BY <1>1, <2>2, <2>3 DEF NameWalk
  <2>5. BADOFFSET \in Int /\ BADOFFSET < 0
    BY DEF BADOFFSET
  <2>6. f[bad] = BADOFFSET
    BY <1>1, <2>3, <2>5 DEF NameWalk
  <2> QED BY <1>2, <2>4, <2>6
<1> QED BY <1>3, <1>4

LEMMA SubnodeIs ==
  ASSUME NEW b, HasStruct(b), Ordered(b), NEW n, NEW p, NEW g, IsStory(b, n, p, g),
         NEW i \in 0 .. n - 1, NEW s, Begins(b, p, g, i, s), NEW name,
         NEW r, r = SubnodeOffset(b, p[i], name), NEW t, t = Contents(b).tree
  PROVE  \/ r >= 0 /\ \E q \in DOMAIN t : Clashes(s, q, name)
         \/ r = NOTFOUND /\ \A q \in DOMAIN t : ~Clashes(s, q, name)
<1> DEFINE top == Len(s)
<1>1. /\ n \in Nat /\ IsReader(b, n, p, g)
      /\ \A j \in 0 .. n : g[j].path \in Seq(NodeNames) /\ p[j] \in Nat
      /\ \A j \in 0 .. n - 1 : Tells(b, p[j], g[j], g[j + 1])
  BY StoryIs DEF IsStory, IsTidy, Tags
<1>2. TagOf(b, p[i]) = "BEGIN_NODE" /\ s = g[i + 1].path
  BY DEF Begins
<1>3. /\ \A q : q \in DOMAIN t <=> \E j \in 0 .. n - 1 : Begins(b, p, g, j, q)
  BY TreeIs
<1>4. Searched(b, n, p, g, top, name, i, r)
  BY <1>2, SubnodeSearched
<1>5. s \in Seq(NodeNames) /\ top \in Nat /\ top = Len(g[i].path) + 1
  <2>1. i \in 0 .. n /\ i + 1 \in 0 .. n
    BY <1>1
  <2>2. /\ s \in Seq(NodeNames) /\ g[i].path \in Seq(NodeNames)
        /\ Tells(b, p[i], g[i], g[i + 1])
    BY <1>1, <1>2, <2>1
  <2>3. Len(g[i + 1].path) = Len(g[i].path) + 1 /\ Len(g[i].path) \in Nat
    BY <1>2, <2>2, UnderNode
  <2> QED BY <1>2, <2>2, <2>3
<1>6. ASSUME NEW j \in 0 .. n - 1, NEW q, Begins(b, p, g, j, q)
      PROVE  /\ q \in Seq(NodeNames) /\ Len(q) \in Nat
             /\ q[Len(q)] = NodeName(b, p[j]) /\ q = g[j + 1].path
  <2>1. j \in 0 .. n /\ Tells(b, p[j], g[j], g[j + 1]) /\ TagOf(b, p[j]) = "BEGIN_NODE"
        /\ q = g[j + 1].path
    BY <1>1, <1>6 DEF Begins
  <2>2. g[j].path \in Seq(NodeNames)
    BY <1>1, <2>1
  <2>6. /\ Tells(b, p[j], g[j], g[j + 1]) /\ TagOf(b, p[j]) = "BEGIN_NODE"
        /\ s \in Seq(NodeNames)
    BY <1>5, <2>1
  <2>7. /\ g[j + 1].path = Append(g[j].path, NodeName(b, p[j]))
        /\ NodeName(b, p[j]) \in NodeNames
    BY <2>6 DEF Tells, Grows
  <2>3. q = Append(g[j].path, NodeName(b, p[j])) /\ NodeName(b, p[j]) \in NodeNames
    BY <2>1, <2>7
  <2> DEFINE N == NodeNames
  <2>4. g[j].path \in Seq(N) /\ NodeName(b, p[j]) \in N
    BY <2>2, <2>3
  <2> HIDE DEF N
  <2>5. q \in Seq(N) /\ Len(q) \in Nat /\ q[Len(q)] = NodeName(b, p[j])
    BY <2>3, <2>4, LongerPath
  <2> QED BY <2>1, <2>5 DEF N
<1> HIDE DEF top
<1>7. CASE \E k \in i .. n - 1 :
             /\ Fitting(b, p, g, top, name, k) /\ r = p[k]
             /\ \A x \in i + 1 .. k : Len(g[x].path) >= top
  <2>1. PICK k \in i .. n - 1 :
             /\ Fitting(b, p, g, top, name, k) /\ r = p[k]
             /\ \A x \in i + 1 .. k : Len(g[x].path) >= top
    BY <1>7
  <2>2. k \in 0 .. n - 1 /\ k \in 0 .. n
    BY <1>1
  <2> DEFINE q == g[k + 1].path
  <2>3. Begins(b, p, g, k, q) /\ Len(q) = top + 1 /\ NodeNameEq(NodeName(b, p[k]), name)
    BY <2>1 DEF Fitting, Begins
  <2> HIDE DEF q
  <2>4. q \in DOMAIN t /\ q[Len(q)] = NodeName(b, p[k])
    BY <1>3, <1>6, <2>2, <2>3
  <2>5. PICK z \in i + 1 .. n : Closes(g, i, z)
    BY <1>2, NodeEnds
  <2>6. k < z
    <3>1. CASE z \in i + 1 .. k
      <4>1. Len(g[z].path) >= top /\ Len(g[z].path) = Len(g[i].path)
        BY <2>1, <2>5, <3>1 DEF Closes
      <4>2. z \in 0 .. n /\ i \in 0 .. n
        BY <1>1
      <4>3. Len(g[i].path) \in Nat
        BY <1>1, <4>2
      <4> QED BY <1>5, <4>1, <4>3
    <3>2. k \in Int /\ z \in Int /\ (z > k \/ z \in i + 1 .. k)
      BY <1>1
    <3> QED BY <3>1, <3>2
  <2>7. k \in i .. z - 1
    BY <1>1, <2>6
  <2>8. Under(s, q)
    BY <2>2, <2>3, <2>5, <2>7, PartsAre
  <2>9. r >= 0
    BY <1>1, <2>1, <2>2
  <2> QED BY <2>3, <2>4, <2>8, <2>9 DEF Clashes, IsChild, top
<1>8. CASE r = NOTFOUND /\ \E z : /\ EndsAt(n, g, top, i, z)
                                  /\ \A k \in i .. z - 1 : ~Fitting(b, p, g, top, name, k)
  <2>1. PICK z : /\ EndsAt(n, g, top, i, z)
                 /\ \A k \in i .. z - 1 : ~Fitting(b, p, g, top, name, k)
    BY <1>8
  <2>2. z \in i + 1 .. n
    BY <2>1 DEF EndsAt
  <2>3. Closes(g, i, z)
    <3>1. i \in 0 .. n /\ i \in Int /\ z \in Int /\ i < z
      BY <1>1, <2>2
    <3>2. Len(g[i].path) \in Nat
      BY <1>1, <3>1
    <3>3. Len(g[z].path) = Len(g[i].path)
      BY <1>5, <2>1, <3>2 DEF EndsAt
    <3>4. ASSUME NEW l \in i + 1 .. z - 1  PROVE Len(g[l].path) > Len(g[i].path)
      <4>1. Len(g[l].path) >= top
        BY <2>1 DEF EndsAt
      <4>2. l \in 0 .. n
        BY <1>1, <2>2
      <4>3. Len(g[l].path) \in Nat
        BY <1>1, <4>2
      <4> QED BY <1>5, <3>2, <4>1, <4>3
    <3> QED BY <3>1, <3>3, <3>4 DEF Closes
  <2>4. ASSUME NEW q \in DOMAIN t, Clashes(s, q, name)  PROVE FALSE
    <3>1. PICK j \in 0 .. n - 1 : Begins(b, p, g, j, q)
      BY <1>3
    <3>2. Under(s, q) /\ Len(q) = top + 1 /\ NodeNameEq(q[Len(q)], name)
      BY <2>4 DEF Clashes, IsChild, top
    <3>3. j \in i .. z - 1
      BY <2>2, <2>3, <3>1, <3>2, PartsAre
    <3>4. q[Len(q)] = NodeName(b, p[j]) /\ q = g[j + 1].path
      BY <1>6, <3>1
    <3>5. Fitting(b, p, g, top, name, j)
      BY <3>1, <3>2, <3>4 DEF Fitting, Begins
    <3> QED BY <2>1, <3>3, <3>5
  <2> QED BY <1>8, <2>4
<1> QED BY <1>4, <1>7, <1>8 DEF Searched

LEMMA SubnodeAt ==
  ASSUME NEW b, Sound(b), Ordered(b), Told(b), NEW node \in Int,
         node >= 0 \/ node = BADOFFSET, NEW name,
         NEW t, t = Contents(b).tree, NEW s, s = At(Contents(b), node),
         NEW r, r = SubnodeOffset(b, node, name)
  PROVE  \/ s = Nowhere /\ r = BADOFFSET
         \/ /\ s # Nowhere /\ s \in DOMAIN t
            /\ r >= 0 /\ \E q \in DOMAIN t : Clashes(s, q, name)
         \/ /\ s # Nowhere /\ s \in DOMAIN t /\ node \in Tags(b)
            /\ TagOf(b, node) = "BEGIN_NODE"
            /\ r = NOTFOUND /\ \A q \in DOMAIN t : ~Clashes(s, q, name)
<1>1. PICK n, p, g : IsStory(b, n, p, g)
  BY DEF Told
<1>2. HasStruct(b)
  BY SoundIs
<1>3. CASE ~(node \in Tags(b) /\ TagOf(b, node) = "BEGIN_NODE")
  <2>1. s = Nowhere
    BY <1>1, <1>2, <1>3, TargetIs
  <2>2. r = BADOFFSET
    BY <1>2, <1>3, NoNodeSearched
  <2> QED BY <2>1, <2>2
<1>4. CASE node \in Tags(b) /\ TagOf(b, node) = "BEGIN_NODE"
  <2>1. /\ s # Nowhere /\ s \in DOMAIN t
        /\ \E i \in 0 .. n - 1 : p[i] = node /\ Begins(b, p, g, i, s)
    BY <1>1, <1>2, <1>4, TargetIs
  <2>2. PICK i \in 0 .. n - 1 : p[i] = node /\ Begins(b, p, g, i, s)
    BY <2>1
  <2>3. \/ r >= 0 /\ \E q \in DOMAIN t : Clashes(s, q, name)
        \/ r = NOTFOUND /\ \A q \in DOMAIN t : ~Clashes(s, q, name)
    BY <1>1, <1>2, <2>2, SubnodeIs
  <2> QED BY <1>4, <2>1, <2>3
<1> QED BY <1>3, <1>4

-----------------------------------------------------------------------------
(* fdt_add_subnode: the tree has one node more.                            *)

LEMMA NodePut ==
  ASSUME NEW t, IsTreeOf(t), NEW s \in DOMAIN t, NEW x \in NodeNames,
         NEW r, r = Append(s, x), r \notin DOMAIN t, NEW u, IsTreeOf(u),
         \A q : q \in DOMAIN u <=> q \in DOMAIN t \/ q = r,
         \A q, y, v : Says(u, q, y, v) <=> Says(t, q, y, v)
  PROVE  u = Put(t, r, << >>)
<1> DEFINE z == Put(t, r, << >>)
<1>1. IsTreeOf(z)
  <2>1. s \in Seq(NodeNames)
    BY DEF IsTreeOf
  <2> QED BY <2>1, TreeGrows
<1>2. ASSUME NEW q  PROVE q \in DOMAIN z <=> q \in DOMAIN u
  BY DEF Put
<1>3. ASSUME NEW q, NEW y, NEW v  PROVE Says(z, q, y, v) <=> Says(u, q, y, v)
  <2>1. CASE q = r
    <3>1. z[q] = << >>
      BY <2>1 DEF Put
    <3>2. y \notin DOMAIN z[q]
      <4> HIDE DEF z
      <4> QED BY <3>1
    <3> HIDE DEF z
    <3> QED BY <2>1, <3>2 DEF Says
  <2>2. CASE q # r
    <3>1. q \in DOMAIN z <=> q \in DOMAIN t
      BY <2>2 DEF Put
    <3>2. q \in DOMAIN t => z[q] = t[q]
      BY <2>2 DEF Put
    <3> HIDE DEF z
    <3> QED BY <3>1, <3>2 DEF Says
  <2> QED BY <2>1, <2>2
<1> HIDE DEF z
<1>4. z = u
  BY <1>1, <1>2, <1>3, EqualTrees DEF IsTreeOf
<1> QED BY <1>4 DEF z

AddsNode(b, n, p, g, c, k, end, next, t, s, r) ==
  /\ HasStruct(b) /\ Ordered(b) /\ IsStory(b, n, p, g)
  /\ HasStruct(c) /\ Ordered(c) /\ k \in 0 .. n
  /\ NewNode(b, c, p[k], end, next)
  /\ t = Contents(b).tree /\ s \in DOMAIN t /\ g[k].path = s
  /\ r = Append(s, NodeName(c, p[k])) /\ r \notin DOMAIN t

LEMMA NodeAdded ==
  ASSUME NEW b, NEW n, NEW p, NEW g, NEW c, NEW k, NEW end, NEW next,
         NEW t, NEW s, NEW r, AddsNode(b, n, p, g, c, k, end, next, t, s, r)
  PROVE  /\ Told(c) /\ Contents(c).tree = Put(t, r, << >>)
         /\ At(Contents(c), p[k]) = r
<1>0. /\ HasStruct(b) /\ Ordered(b) /\ IsStory(b, n, p, g)
      /\ HasStruct(c) /\ Ordered(c) /\ k \in 0 .. n
      /\ NewNode(b, c, p[k], end, next)
      /\ t = Contents(b).tree /\ s \in DOMAIN t /\ g[k].path = s
      /\ r = Append(s, NodeName(c, p[k])) /\ r \notin DOMAIN t
  BY DEF AddsNode
<1> USE <1>0
<1> DEFINE o == p[k]
           u == Contents(c).tree
           new == next - o
           x == NodeName(c, o)
<1>1. IsReader(b, n, p, g) /\ n \in Nat /\ k \in Nat /\ k \in 0 .. k
  BY DEF IsStory, IsReader
<1>2. PICK m, q, h : IsReader(c, m, q, h) /\ Contents(c) = h[m]
  BY ContentsAreRead
<1>3. /\ \A l \in 0 .. n : p[l] \in Nat /\ p[l] \in Tags(b)
      /\ \A l \in 0 .. m : q[l] \in Nat /\ q[l] \in Tags(c)
      /\ \A l \in 0 .. m - 1 : /\ TagOf(c, q[l]) # "END" /\ q[l + 1] = Following(c, q[l])
                               /\ Reads(c, h[l], q[l], h[l + 1])
      /\ \A l, j \in 0 .. m : q[l] = q[j] => l = j
      /\ m \in Nat /\ TagOf(c, q[m]) = "END"
  <2>1. \A l \in 0 .. n : p[l] \in Nat /\ p[l] \in Tags(b)
    BY <1>1, ReaderGoesOn
  <2>2. /\ \A l \in 0 .. m : q[l] \in Nat /\ q[l] \in Tags(c)
        /\ \A l \in 0 .. m - 1 : /\ TagOf(c, q[l]) # "END" /\ q[l + 1] = Following(c, q[l])
                                 /\ Reads(c, h[l], q[l], h[l + 1])
    BY <1>2, ReaderGoesOn
  <2>3. \A l, j \in 0 .. m : q[l] = q[j] => l = j
    BY <1>2, EachIsRead
  <2>4. m \in Nat /\ TagOf(c, q[m]) = "END"
    BY <1>2 DEF IsReader
  <2> QED BY <2>1, <2>2, <2>3, <2>4
<1>4. /\ new \in Nat /\ IsMultiple(new) /\ Edited(b, c, o, 0, new) /\ SameNames(b, c)
      /\ TagOf(c, o) = "BEGIN_NODE" /\ Following(c, o) = end
      /\ TagOf(c, end) = "END_NODE" /\ Following(c, end) = next
  BY DEF NewNode
<1>5. o \in Nat /\ o \in Tags(b) /\ o + 0 = o
  BY <1>1, <1>3
<1> HIDE DEF o, u, new, x
<1>6. PICK kc \in k .. m : q[kc] = o + new /\ InStep(b, n, p, c, m, q, k, k, kc, new - 0)
  <2>1. p[k] = o /\ p[k] = o + 0 /\ o + 0 \in Tags(b) /\ 0 \in Nat
    BY <1>5 DEF o
  <2> QED BY <1>1, <1>2, <1>4, <1>5, <2>1, EditAligns
<1>7. next = o + new /\ next \in Nat
  <2>1. new = next - o /\ new \in Nat
    BY <1>4 DEF new
  <2>2. kc \in 0 .. m
    BY <1>1, <1>3
  <2>3. next \in Int
    <3>1. next = Following(c, end)
      BY <1>4
    <3>2. o + new \in Nat
      BY <1>3, <1>6, <2>2
    <3>3. end = q[k + 1]
      <4>1. q[k] = o /\ k \in 0 .. m
        BY <1>1, <1>3, <1>6 DEF InStep, o
      <4>2. k \in 0 .. m - 1
        <5>1. k # m
          BY <1>3, <1>4, <4>1
        <5> QED BY <1>3, <4>1, <5>1
      <4> QED BY <1>3, <1>4, <4>1, <4>2
    <3>4. k + 1 \in 0 .. m - 1
      <4>1. q[k] = o /\ k \in 0 .. m
        BY <1>1, <1>3, <1>6 DEF InStep, o
      <4>2. k # m
        BY <1>3, <1>4, <4>1
      <4>3. k + 1 # m
        BY <1>3, <1>4, <3>3
      <4> QED BY <1>1, <1>3, <4>1, <4>2, <4>3
    <3>5. q[(k + 1) + 1] = next /\ (k + 1) + 1 \in 0 .. m
      BY <1>3, <3>1, <3>3, <3>4
    <3> QED BY <1>3, <3>5
  <2> QED BY <1>3, <1>5, <1>6, <2>1, <2>2, <2>3
<1>8. /\ q[k] = o /\ k \in 0 .. m - 1 /\ q[k + 1] = end /\ k + 1 \in 0 .. m - 1
      /\ q[k + 2] = next /\ k + 2 \in 0 .. m /\ (k + 1) + 1 = k + 2
  <2>1. q[k] = o /\ k \in 0 .. m
    BY <1>1, <1>3, <1>6 DEF InStep, o
  <2>2. k \in 0 .. m - 1
    <3>1. k # m
      BY <1>3, <1>4, <2>1
    <3> QED BY <1>3, <2>1, <3>1
  <2>3. q[k + 1] = end /\ k + 1 \in 0 .. m
    BY <1>3, <1>4, <2>1, <2>2
  <2>4. k + 1 \in 0 .. m - 1
    <3>1. k + 1 # m
      BY <1>3, <1>4, <2>3
    <3> QED BY <1>1, <1>3, <2>3, <3>1
  <2>5. (k + 1) + 1 = k + 2 /\ k + 2 \in 0 .. m
    BY <1>1, <1>3, <2>4
  <2>6. q[(k + 1) + 1] = next
    BY <1>3, <1>4, <2>3, <2>4
  <2> QED BY <2>1, <2>2, <2>3, <2>4, <2>5, <2>6
<1>9. kc = k + 2
  <2>1. kc \in 0 .. m /\ q[kc] = q[k + 2]
    BY <1>1, <1>3, <1>6, <1>7, <1>8
  <2> QED BY <1>3, <1>8, <2>1
<1>10. h[k].path = s
  BY <1>1, <1>2, <1>6, SamePaths
<1>11. h[k + 1].path = r
  <2>1. Reads(c, h[k], q[k], h[k + 1]) /\ q[k] \in Tags(c) /\ TagOf(c, q[k]) = "BEGIN_NODE"
    <3>1. k \in 0 .. m
      BY <1>3, <1>8
    <3> QED BY <1>3, <1>4, <1>8, <3>1
  <2>2. h[k + 1].path = Append(h[k].path, NodeName(c, q[k]))
    BY <2>1, BeginsLonger
  <2> QED BY <1>8, <1>10, <2>2 DEF o
<1>12. x \in NodeNames
  <2>1. o \in Tags(c)
    <3>1. k \in 0 .. m
      BY <1>3, <1>8
    <3> QED BY <1>3, <1>8, <3>1
  <2> QED BY <1>4, <2>1 DEF HasStruct, StructIsSound, TagIsSound, TagOf, x
<1>13. IsTreeOf(t) /\ s \in Seq(NodeNames) /\ r = Append(s, x)
  <2>1. IsTreeOf(t)
    BY TreeIs
  <2> QED BY <2>1 DEF IsTreeOf, x, o
<1>14. h[k + 2].path = s
  <2>1. /\ Reads(c, h[k + 1], q[k + 1], h[k + 2]) /\ q[k + 1] \in Tags(c)
        /\ TagOf(c, q[k + 1]) = "END_NODE"
    <3>1. k + 1 \in 0 .. m
      BY <1>3, <1>8
    <3>2. Reads(c, h[k + 1], q[k + 1], h[(k + 1) + 1])
      BY <1>3, <1>8
    <3> QED BY <1>3, <1>4, <1>8, <3>1, <3>2
  <2>2. h[k + 2].path = Front(h[k + 1].path)
    BY <2>1, PathGoesOn
  <2> DEFINE N == NodeNames
  <2>3. s \in Seq(N) /\ x \in N
    BY <1>12, <1>13
  <2> HIDE DEF N
  <2>4. Front(r) = s
    BY <1>13, <2>3, FrontOfLonger
  <2> QED BY <1>11, <2>2, <2>4
<1>15. h[kc].path = g[k].path
  BY <1>9, <1>14
<1>16. \A i \in k .. kc - 1 : i = k \/ i = k + 1
  BY <1>1, <1>9
<1>17. /\ \A v : Begins(c, q, h, k, v) <=> v = r
       /\ \A v : ~Begins(c, q, h, k + 1, v)
       /\ \A v, y, w : ~Gives(c, q, h, k, v, y, w) /\ ~Gives(c, q, h, k + 1, v, y, w)
  BY <1>4, <1>8, <1>11 DEF Begins, Gives
<1>18. /\ IsTreeOf(t)
       /\ \A v : v \in DOMAIN t <=> \E l \in 0 .. n - 1 : Begins(b, p, g, l, v)
       /\ \A v, y, w : Says(t, v, y, w) <=> \E l \in 0 .. n - 1 : Gives(b, p, g, l, v, y, w)
  BY TreeIs
<1>19. \A l : l \in Outside(n, k, k) <=> l \in 0 .. n - 1
  BY <1>1 DEF Outside
<1>20. NewNodesAreNew(b, n, p, g, c, q, h, k, k, kc)
  <2>1. ASSUME NEW v, NEW i \in k .. kc - 1, Begins(c, q, h, i, v)
        PROVE  /\ i = k /\ v = r
               /\ \A j \in Outside(n, k, k) : ~Begins(b, p, g, j, v)
    <3>1. i = k /\ v = r
      BY <1>16, <1>17, <2>1
    <3> QED BY <1>18, <1>19, <3>1
  <2> QED BY <2>1 DEF NewNodesAreNew
<1>21. k \in k .. kc - 1
  BY <1>1, <1>9
<1>22. /\ IsStory(c, m, q, h) /\ IsTreeOf(u)
       /\ IsEdited(b, n, p, g, c, q, h, k, k, kc, u)
  BY <1>2, <1>6, <1>15, <1>20, EditedTree DEF u
<1>23. ASSUME NEW v  PROVE v \in DOMAIN u <=> v \in DOMAIN t \/ v = r
  <2>1. v \in DOMAIN u <=> \/ \E i \in Outside(n, k, k) : Begins(b, p, g, i, v)
                           \/ \E i \in k .. kc - 1 : Begins(c, q, h, i, v)
    BY <1>22 DEF IsEdited
  <2>2. (\E i \in k .. kc - 1 : Begins(c, q, h, i, v)) <=> v = r
    BY <1>16, <1>17, <1>21
  <2> QED BY <1>18, <1>19, <2>1, <2>2
<1>24. ASSUME NEW v, NEW y, NEW w  PROVE Says(u, v, y, w) <=> Says(t, v, y, w)
  <2>1. Says(u, v, y, w) <=> \/ \E i \in Outside(n, k, k) : Gives(b, p, g, i, v, y, w)
                             \/ \E i \in k .. kc - 1 : Gives(c, q, h, i, v, y, w)
    BY <1>22 DEF IsEdited
  <2>2. ~(\E i \in k .. kc - 1 : Gives(c, q, h, i, v, y, w))
    BY <1>16, <1>17
  <2> QED BY <1>18, <1>19, <2>1, <2>2
<1>25. u = Put(t, r, << >>)
  BY <1>12, <1>13, <1>22, <1>23, <1>24, NodePut
<1>26. At(Contents(c), o) = r
  <2>1. At(Contents(c), q[k]) = h[k + 1].path
    BY <1>4, <1>8, <1>22, NodePathsAre
  <2> QED BY <1>8, <1>11, <2>1
<1> QED BY <1>22, <1>25, <1>26 DEF Told, u, o

(* Where a subnode goes the node is open.                                  *)
LEMMA PlaceIsOpen ==
  ASSUME NEW b, HasStruct(b), Ordered(b), NEW n, NEW p, NEW g, IsStory(b, n, p, g),
         NEW i \in 0 .. n - 1, NEW s, Begins(b, p, g, i, s)
  PROVE  \E k \in 0 .. n : p[k] = Place(b, p[i]) /\ g[k].path = s
<1> DEFINE z == Place(b, p[i])
           a == Following(b, p[i])
<1>1. /\ IsReader(b, n, p, g) /\ n \in Nat /\ p[i] \in Tags(b)
      /\ TagOf(b, p[i]) = "BEGIN_NODE" /\ TagOf(b, p[i]) # "END" /\ g[i + 1].path = s
  <2>1. IsReader(b, n, p, g) /\ n \in Nat
    BY DEF IsStory, IsReader
  <2>2. i \in 0 .. n
    BY <2>1
  <2> QED BY <2>1, <2>2, ReaderGoesOn DEF Begins
<1>2. /\ z \in Tags(b) /\ z > p[i]
      /\ \A t \in Tags(b) : p[i] < t /\ t < z => TagOf(b, t) \in {"PROP", "NOP"}
  BY <1>1, PlaceIs
<1>3. a > p[i] /\ \A t \in Tags(b) : t > p[i] => t >= a
  BY <1>1, FollowingIs
<1> HIDE DEF z, a
<1>4. z >= a
  BY <1>2, <1>3
<1>5. Quiet(b, a, z)
  <2>1. ASSUME NEW t \in Tags(b), a <= t, t < z  PROVE TagOf(b, t) \in {"PROP", "NOP"}
    <3>1. t \in Int /\ a \in Int /\ p[i] \in Int
      <4>1. a \in Tags(b)
        BY <1>1, FollowingIs DEF a
      <4> QED BY <1>1, <4>1 DEF Tags
    <3>2. p[i] < t
      BY <1>3, <2>1, <3>1
    <3> QED BY <1>2, <2>1, <3>2
  <2> QED BY <2>1 DEF Quiet
<1>6. \E k \in i + 1 .. n : p[k] = z /\ g[k].path = g[i + 1].path
  BY <1>1, <1>2, <1>4, <1>5, QuietTags DEF a
<1>7. \A k \in i + 1 .. n : k \in 0 .. n
  BY <1>1
<1> QED BY <1>1, <1>6, <1>7 DEF z

LEMMA ChildIsUnder ==
  ASSUME NEW S, NEW s \in Seq(S), NEW x \in S
  PROVE  Under(s, Append(s, x))
<1> DEFINE r == Append(s, x)
<1>1. /\ r \in Seq(S) /\ Len(r) = Len(s) + 1 /\ Len(s) \in Nat
      /\ \A i \in 1 .. Len(s) : r[i] = s[i]
  BY LongerPath
<1> HIDE DEF r
<1>2. Under(s, r)
  BY <1>1, UnderIs
<1> QED BY <1>2 DEF r

LEMMA AddSubnodeTurns ==
  ASSUME NEW b, Sound(b), Ordered(b), Told(b), ~Misordered(b, RsvSize),
         NEW node \in Int, node >= 0 \/ node = BADOFFSET, NEW name \in NodeNames,
         NEW t, t = Contents(b).tree, NEW s, s = At(Contents(b), node),
         NEW w, w = fdt_add_subnode(b, node, name)
  PROVE  \/ s = Nowhere /\ w = Result(b, BADOFFSET)
         \/ /\ s \in DOMAIN t /\ s # Nowhere
            /\ \/ (\E q \in DOMAIN t : Clashes(s, q, name)) /\ w = Result(b, EXISTS)
               \/ /\ \A q \in DOMAIN t : ~Clashes(s, q, name)
                  /\ \/ w.ret = NOSPACE /\ w.fdt = b
                     \/ /\ w.ret >= 0 /\ At(Contents(w.fdt), w.ret) = Append(s, name)
                        /\ Turns(b, w, Put(t, Append(s, name), << >>), w.ret)
<1> DEFINE found == SubnodeOffset(b, node, name)
           o == Place(b, node)
           r == Append(s, name)
<1>1. HasStruct(b)
  BY SoundIs
<1>2. node # NOTFOUND
  BY DEF BADOFFSET, NOTFOUND
<1>3. /\ Kept(b, w.fdt)
      /\ found >= 0 => w = Result(b, EXISTS)
      /\ found < 0 /\ found # NOTFOUND => w = Result(b, found)
      /\ found = NOTFOUND =>
           \/ w.ret = NOSPACE /\ w.fdt = b
           \/ /\ w.ret = o /\ o \in Tags(b)
              /\ \E end, next : NewNode(b, w.fdt, o, end, next)
  BY <1>2, AddSubnodeKeeps
<1>4. \/ s = Nowhere /\ found = BADOFFSET
      \/ /\ s # Nowhere /\ s \in DOMAIN t
         /\ found >= 0 /\ \E q \in DOMAIN t : Clashes(s, q, name)
      \/ /\ s # Nowhere /\ s \in DOMAIN t /\ node \in Tags(b)
         /\ TagOf(b, node) = "BEGIN_NODE"
         /\ found = NOTFOUND /\ \A q \in DOMAIN t : ~Clashes(s, q, name)
  BY SubnodeAt
<1> HIDE DEF found, o, r
<1>5. CASE s = Nowhere /\ found = BADOFFSET
  BY <1>3, <1>5 DEF BADOFFSET, NOTFOUND
<1>6. CASE /\ s # Nowhere /\ s \in DOMAIN t
           /\ found >= 0 /\ \E q \in DOMAIN t : Clashes(s, q, name)
  BY <1>3, <1>6
<1>7. CASE /\ s # Nowhere /\ s \in DOMAIN t /\ node \in Tags(b)
           /\ TagOf(b, node) = "BEGIN_NODE"
           /\ found = NOTFOUND /\ \A q \in DOMAIN t : ~Clashes(s, q, name)
  <2>1. CASE w.ret = NOSPACE /\ w.fdt = b
    BY <1>7, <2>1
  <2>2. CASE /\ w.ret = o /\ o \in Tags(b)
             /\ \E end, next : NewNode(b, w.fdt, o, end, next)
    <3>1. PICK n, p, g : IsStory(b, n, p, g)
      BY DEF Told
    <3>2. PICK i \in 0 .. n - 1 : p[i] = node /\ Begins(b, p, g, i, s)
      BY <1>1, <1>7, <3>1, TargetIs
    <3>3. PICK k \in 0 .. n : p[k] = o /\ g[k].path = s
      BY <1>1, <3>1, <3>2, PlaceIsOpen DEF o
    <3> DEFINE c == w.fdt
    <3>4. HasStruct(c) /\ Ordered(c)
      BY <1>3, SoundIs DEF Kept, StaysSound
    <3>5. NodeName(c, o) = name
      <4>1. \/ w.ret \in Errors /\ w.fdt = b
            \/ NodeName(w.fdt, o) = name
        BY <1>7, AddSubnodeIs DEF o
      <4>2. w.ret \notin Errors
        BY <2>2 DEF Tags, Errors
      <4> QED BY <4>1, <4>2
    <3>6. r \notin DOMAIN t
      <4>1. IsTreeOf(t)
        BY <1>1, <3>1, TreeIs
      <4> DEFINE N == NodeNames
      <4>2. s \in Seq(N) /\ name \in N /\ r = Append(s, name)
        BY <1>7, <4>1 DEF IsTreeOf, r
      <4> HIDE DEF N
      <4>3. /\ r \in Seq(N) /\ Len(r) = Len(s) + 1 /\ r[Len(r)] = name
            /\ Len(s) \in Nat /\ \A j \in 1 .. Len(s) : r[j] = s[j]
        BY <4>2, LongerPath
      <4>4. Under(s, r)
        <5>1. Under(s, Append(s, name))
          BY <4>2, ChildIsUnder
        <5> QED BY <4>2, <5>1
      <4>5. Clashes(s, r, name)
        BY <4>3, <4>4 DEF Clashes, IsChild, NodeNameEq
      <4> QED BY <1>7, <4>5
    <3>7. PICK end, next : NewNode(b, c, o, end, next)
      BY <2>2
    <3> HIDE DEF c
    <3>8. /\ Told(c) /\ Contents(c).tree = Put(t, r, << >>)
          /\ At(Contents(c), o) = r
      <4>1. r = Append(s, NodeName(c, p[k])) /\ NewNode(b, c, p[k], end, next)
        BY <3>3, <3>5, <3>7 DEF r
      <4>2. /\ Told(c) /\ Contents(c).tree = Put(t, r, << >>)
            /\ At(Contents(c), p[k]) = r
        <5>1. AddsNode(b, n, p, g, c, k, end, next, t, s, r)
          BY <1>1, <1>7, <3>1, <3>3, <3>4, <3>6, <4>1 DEF AddsNode
        <5> QED BY ONLY <5>1, NodeAdded
      <4> QED BY <3>3, <4>2
    <3>9. SameOrder(b, w.fdt)
      BY <1>3, KeepsOrder
    <3>10. w.ret >= 0
      BY <2>2 DEF Tags
    <3> QED BY <1>3, <1>7, <2>2, <3>8, <3>9, <3>10 DEF Turns, c, r
  <2> QED BY <1>3, <1>7, <2>1, <2>2
<1> QED BY <1>4, <1>5, <1>6, <1>7

-----------------------------------------------------------------------------
(* fdt_set_name: the paths of the node and of what is below it are other   *)
(* ones.                                                                   *)

(* What has become of path q when the node at s is named otherwise.        *)
RenamedPath(s, name, q) ==
  IF Under(s, q) THEN [q EXCEPT ![Len(s)] = name] ELSE q

LEMMA RenamedPathIs ==
  ASSUME NEW S, NEW s \in Seq(S), s # << >>, NEW name \in S, NEW q \in Seq(S),
         NEW r, r = RenamedPath(s, name, q)
  PROVE  /\ Len(s) \in Nat /\ Len(s) > 0 /\ Len(q) \in Nat
         /\ r \in Seq(S) /\ Len(r) = Len(q)
         /\ Under(s, q) => /\ Len(q) >= Len(s) /\ r[Len(s)] = name
                           /\ \A i \in 1 .. Len(q) : i # Len(s) => r[i] = q[i]
                           /\ \A i \in 1 .. Len(s) : q[i] = s[i]
         /\ ~Under(s, q) => r = q
<1>1. Len(s) \in Nat /\ Len(s) > 0 /\ Len(q) \in Nat
  OBVIOUS
<1>2. CASE Under(s, q)
  <2>1. Len(q) >= Len(s) /\ \A i \in 1 .. Len(s) : q[i] = s[i]
    BY <1>2, UnderIs
  <2>2. r = [q EXCEPT ![Len(s)] = name]
    BY <1>2 DEF RenamedPath
  <2>3. Len(s) \in 1 .. Len(q)
    BY <1>1, <2>1
  <2>4. /\ r \in Seq(S) /\ Len(r) = Len(q) /\ r[Len(s)] = name
        /\ \A i \in 1 .. Len(q) : i # Len(s) => r[i] = q[i]
    BY <2>2, <2>3
  <2> QED BY <1>1, <1>2, <2>1, <2>4
<1>3. CASE ~Under(s, q)
  BY <1>1, <1>3 DEF RenamedPath
<1> QED BY <1>2, <1>3

(* A step down renames nothing but at the node itself.                     *)
LEMMA RenamedLonger ==
  ASSUME NEW S, NEW s \in Seq(S), s # << >>, NEW name \in S, NEW q \in Seq(S),
         NEW x \in S, Append(q, x) # s
  PROVE  RenamedPath(s, name, Append(q, x)) = Append(RenamedPath(s, name, q), x)
<1> DEFINE l == Append(q, x)
           a == RenamedPath(s, name, l)
           r == RenamedPath(s, name, q)
           c == Append(r, x)
<1>1. /\ l \in Seq(S) /\ Len(l) = Len(q) + 1 /\ l[Len(l)] = x
      /\ \A i \in 1 .. Len(q) : l[i] = q[i]
  BY LongerPath
<1>2. Under(s, l) <=> Under(s, q)
  BY UnderAppend
<1> HIDE DEF l
<1>3. /\ Len(s) \in Nat /\ Len(s) > 0 /\ Len(q) \in Nat
      /\ r \in Seq(S) /\ Len(r) = Len(q)
      /\ Under(s, q) => /\ Len(q) >= Len(s) /\ r[Len(s)] = name
                        /\ \A i \in 1 .. Len(q) : i # Len(s) => r[i] = q[i]
      /\ ~Under(s, q) => r = q
  BY RenamedPathIs
<1>4. /\ a \in Seq(S) /\ Len(a) = Len(l)
      /\ Under(s, l) => /\ a[Len(s)] = name
                        /\ \A i \in 1 .. Len(l) : i # Len(s) => a[i] = l[i]
      /\ ~Under(s, l) => a = l
  BY <1>1, RenamedPathIs
<1> HIDE DEF a, r
<1>5. /\ c \in Seq(S) /\ Len(c) = Len(r) + 1 /\ c[Len(c)] = x
      /\ \A i \in 1 .. Len(r) : c[i] = r[i]
  BY <1>3, LongerPath
<1>6. CASE ~Under(s, q)
  BY <1>2, <1>3, <1>4, <1>6 DEF l, a, r
<1>7. CASE Under(s, q)
  <2> HIDE DEF c
  <2>1. Len(a) = Len(c) /\ Len(a) = Len(q) + 1
    BY <1>1, <1>3, <1>4, <1>5
  <2>2. ASSUME NEW i \in 1 .. Len(a)  PROVE a[i] = c[i]
    <3>1. CASE i = Len(q) + 1
      BY <1>1, <1>2, <1>3, <1>4, <1>5, <1>7, <3>1
    <3>2. CASE i # Len(q) + 1 /\ i = Len(s)
      BY <1>2, <1>3, <1>4, <1>5, <1>7, <3>2
    <3>3. CASE i # Len(q) + 1 /\ i # Len(s)
      <4>1. i \in 1 .. Len(q) /\ i \in 1 .. Len(l) /\ i \in 1 .. Len(r)
        BY <1>1, <1>3, <2>1, <3>3
      <4>2. a[i] = l[i] /\ c[i] = r[i]
        BY <1>2, <1>4, <1>5, <1>7, <3>3, <4>1
      <4>3. l[i] = q[i] /\ r[i] = q[i]
        BY <1>1, <1>3, <1>7, <3>3, <4>1
      <4> QED BY <4>2, <4>3
    <3> QED BY <3>1, <3>2, <3>3
  <2>3. a = c
    BY <1>4, <1>5, <2>1, <2>2, EqualSequences
  <2> QED BY <2>3 DEF a, c, l, r
<1> QED BY <1>6, <1>7

(* Nor does a step up.                                                     *)
LEMMA RenamedShorter ==
  ASSUME NEW S, NEW s \in Seq(S), s # << >>, NEW name \in S, NEW q \in Seq(S),
         q # << >>
  PROVE  RenamedPath(s, name, Front(q)) = Front(RenamedPath(s, name, q))
<1> DEFINE f == Front(q)
           a == RenamedPath(s, name, f)
           r == RenamedPath(s, name, q)
           c == Front(r)
<1>1. /\ f \in Seq(S) /\ Len(f) = Len(q) - 1 /\ Len(q) \in Nat /\ Len(q) > 0
      /\ \A i \in 1 .. Len(f) : f[i] = q[i]
  BY ShorterPath
<1>2. Under(s, q) <=> Under(s, f) \/ s = q
  BY UnderFront
<1> HIDE DEF f
<1>3. /\ Len(s) \in Nat /\ Len(s) > 0
      /\ r \in Seq(S) /\ Len(r) = Len(q)
      /\ Under(s, q) => /\ r[Len(s)] = name
                        /\ \A i \in 1 .. Len(q) : i # Len(s) => r[i] = q[i]
      /\ ~Under(s, q) => r = q
  BY RenamedPathIs
<1>4. /\ a \in Seq(S) /\ Len(a) = Len(f)
      /\ Under(s, f) => /\ Len(f) >= Len(s) /\ a[Len(s)] = name
                        /\ \A i \in 1 .. Len(f) : i # Len(s) => a[i] = f[i]
      /\ ~Under(s, f) => a = f
  <2>1. f \in Seq(S)
    BY <1>1
  <2> QED BY <2>1, RenamedPathIs
<1> HIDE DEF a, r
<1>5. /\ c \in Seq(S) /\ Len(c) = Len(r) - 1
      /\ \A i \in 1 .. Len(c) : c[i] = r[i]
  <2>1. r # << >>
    BY <1>1, <1>3
  <2> QED BY <1>3, <2>1, ShorterPath
<1>6. CASE ~Under(s, q)
  BY <1>2, <1>3, <1>4, <1>6 DEF f, a, r
<1>7. CASE Under(s, q)
  <2> HIDE DEF c
  <2>1. Len(a) = Len(c) /\ Len(a) = Len(q) - 1
    BY <1>1, <1>3, <1>4, <1>5
  <2>2. ASSUME NEW i \in 1 .. Len(a)  PROVE a[i] = c[i]
    <3>1. c[i] = r[i] /\ i \in 1 .. Len(q) /\ f[i] = q[i] /\ i \in 1 .. Len(f)
      BY <1>1, <1>5, <1>4, <2>1
    <3>2. CASE Under(s, f)
      BY <1>3, <1>4, <1>7, <3>1, <3>2
    <3>3. CASE ~Under(s, f)
      <4>1. s = q
        BY <1>2, <1>7, <3>3
      <4>2. i # Len(s)
        BY <1>1, <2>1, <4>1
      <4> QED BY <1>3, <1>4, <1>7, <3>1, <3>3, <4>2
    <3> QED BY <3>2, <3>3
  <2>3. a = c
    BY <1>4, <1>5, <2>1, <2>2, EqualSequences
  <2> QED BY <2>3 DEF a, c, f, r
<1> QED BY <1>6, <1>7

(* What is below the node gets paths that no node had.                     *)
LEMMA RenamedIsNew ==
  ASSUME NEW t, IsTreeOf(t), NEW s \in DOMAIN t, NEW name \in NodeNames,
         [s EXCEPT ![Len(s)] = name] \notin DOMAIN t,
         NEW q \in DOMAIN t, Under(s, q)
  PROVE  RenamedPath(s, name, q) \notin DOMAIN t
<1> DEFINE a == RenamedPath(s, name, q)
           r == [s EXCEPT ![Len(s)] = name]
           N == NodeNames
<1>1. s \in Seq(N) /\ s # << >> /\ q \in Seq(N) /\ name \in N
  BY DEF IsTreeOf, Nowhere
<1> HIDE DEF N
<1>2. /\ Len(s) \in Nat /\ Len(s) > 0
      /\ a \in Seq(N) /\ Len(a) = Len(q) /\ Len(q) >= Len(s) /\ a[Len(s)] = name
      /\ \A i \in 1 .. Len(q) : i # Len(s) => a[i] = q[i]
      /\ \A i \in 1 .. Len(s) : q[i] = s[i]
  BY <1>1, RenamedPathIs
<1>3. /\ r \in Seq(N) /\ Len(r) = Len(s) /\ r[Len(s)] = name
      /\ \A i \in 1 .. Len(s) : i # Len(s) => r[i] = s[i]
  BY <1>1, <1>2
<1> HIDE DEF a
<1>4. SUFFICES ASSUME a \in DOMAIN t  PROVE FALSE
  BY DEF a
<1> DEFINE f == SubSeq(a, 1, Len(s))
<1>5. f \in DOMAIN t
  <2>1. Len(s) \in 1 .. Len(a)
    BY <1>2
  <2> QED BY <1>4, <2>1 DEF IsTreeOf
<1>6. f \in Seq(N) /\ Len(f) = Len(s) /\ \A i \in 1 .. Len(s) : f[i] = a[i]
  <2>1. Len(s) \in 0 .. Len(a)
    BY <1>2
  <2> QED BY <1>2, <2>1, PrefixIs
<1> HIDE DEF f, r
<1>7. ASSUME NEW i \in 1 .. Len(f)  PROVE f[i] = r[i]
  <2>1. i \in 1 .. Len(s) /\ i \in 1 .. Len(q)
    BY <1>2, <1>6
  <2>2. f[i] = a[i]
    BY <1>6, <2>1
  <2>3. CASE i = Len(s)
    BY <1>2, <1>3, <2>2, <2>3
  <2>4. CASE i # Len(s)
    BY <1>2, <1>3, <2>1, <2>2, <2>4
  <2> QED BY <2>3, <2>4
<1>8. f = r
  BY <1>3, <1>6, <1>7, EqualSequences
<1> QED BY <1>5, <1>8 DEF r

(* And no two nodes get the same.                                          *)
LEMMA RenamedApart ==
  ASSUME NEW t, IsTreeOf(t), NEW s \in DOMAIN t, NEW name \in NodeNames,
         [s EXCEPT ![Len(s)] = name] \notin DOMAIN t,
         NEW q \in DOMAIN t, NEW r \in DOMAIN t,
         RenamedPath(s, name, q) = RenamedPath(s, name, r)
  PROVE  q = r
<1> DEFINE N == NodeNames
           a == RenamedPath(s, name, q)
           c == RenamedPath(s, name, r)
<1>1. s \in Seq(N) /\ s # << >> /\ q \in Seq(N) /\ r \in Seq(N) /\ name \in N
  BY DEF IsTreeOf, Nowhere
<1>2. a = c
  OBVIOUS
<1>3. /\ Under(s, q) => a \notin DOMAIN t
      /\ Under(s, r) => c \notin DOMAIN t
  BY RenamedIsNew
<1> HIDE DEF N
<1>4. /\ Len(a) = Len(q) /\ Len(q) \in Nat
      /\ Under(s, q) => /\ \A i \in 1 .. Len(q) : i # Len(s) => a[i] = q[i]
                        /\ \A i \in 1 .. Len(s) : q[i] = s[i]
      /\ ~Under(s, q) => a = q
  BY <1>1, RenamedPathIs
<1>5. /\ Len(c) = Len(r) /\ Len(s) \in Nat /\ Len(s) > 0
      /\ Under(s, r) => /\ \A i \in 1 .. Len(r) : i # Len(s) => c[i] = r[i]
                        /\ \A i \in 1 .. Len(s) : r[i] = s[i]
      /\ ~Under(s, r) => c = r
  BY <1>1, RenamedPathIs
<1> HIDE DEF a, c
<1>6. CASE ~Under(s, q) \/ ~Under(s, r)
  BY <1>2, <1>3, <1>4, <1>5, <1>6
<1>7. CASE Under(s, q) /\ Under(s, r)
  <2>1. Len(q) = Len(r)
    BY <1>2, <1>4, <1>5
  <2>2. ASSUME NEW i \in 1 .. Len(q)  PROVE q[i] = r[i]
    <3>1. CASE i = Len(s)
      <4>1. i \in 1 .. Len(s)
        BY <1>5, <3>1
      <4> QED BY <1>4, <1>5, <1>7, <4>1
    <3>2. CASE i # Len(s)
      BY <1>2, <1>4, <1>5, <1>7, <2>1, <3>2
    <3> QED BY <3>1, <3>2
  <2> QED BY <1>1, <2>1, <2>2, EqualSequences
<1> QED BY <1>6, <1>7

(* The same tags with the same text, but for one name.                     *)
ButOneName(b, n, p, c, q, h, i, name) ==
  /\ IsReader(c, n, q, h) /\ Contents(c) = h[n]
  /\ \A j \in 0 .. n - 1 : j # i => SameText(b, p[j], c, q[j])
  /\ TagOf(c, q[i]) = "BEGIN_NODE" /\ NodeName(c, q[i]) = name

LEMMA RenamedAligns ==
  ASSUME NEW b, HasStruct(b), NEW n, NEW p, NEW g, IsReader(b, n, p, g),
         NEW c, HasStruct(c), NEW i \in 0 .. n - 1, NEW name,
         Renamed(b, c, p[i], name)
  PROVE  \E q, h : ButOneName(b, n, p, c, q, h, i, name)
<1>1. PICK old \in Nat, new \in Nat :
        /\ IsMultiple(new) /\ Following(b, p[i]) = p[i] + old
        /\ Edited(b, c, p[i], old, new) /\ SameNames(b, c)
        /\ p[i] \in Tags(c) /\ TagOf(c, p[i]) = "BEGIN_NODE"
        /\ Following(c, p[i]) = p[i] + new /\ NodeName(c, p[i]) = name
  BY DEF Renamed
<1>2. PICK m, q, h : IsReader(c, m, q, h) /\ Contents(c) = h[m]
  BY ContentsAreRead
<1>3. /\ n \in Nat /\ p[i] \in Tags(b) /\ p[i + 1] \in Tags(b)
      /\ p[i + 1] = p[i] + old /\ i \in 0 .. n /\ i + 1 \in 0 .. n
  BY <1>1, ReaderGoesOn
<1>4. /\ m \in Nat /\ TagOf(c, q[m]) = "END"
      /\ \A j \in 0 .. m - 1 : q[j + 1] = Following(c, q[j])
      /\ \A j, l \in 0 .. m : q[j] = q[l] => j = l
  <2>1. \A j, l \in 0 .. m : q[j] = q[l] => j = l
    BY <1>2, EachIsRead
  <2> QED BY <1>2, <2>1 DEF IsReader
<1>5. PICK kc \in i .. m :
        /\ q[kc] = p[i] + new
        /\ InStep(b, n, p, c, m, q, i, i + 1, kc, new - old)
  BY <1>1, <1>2, <1>3, EditAligns
<1> DEFINE d == new - old
<1>6. /\ m - kc = n - (i + 1) /\ q[i] = p[i]
      /\ \A j \in 0 .. i - 1 : SameText(b, p[j], c, q[j])
      /\ \A j \in 0 .. n - (i + 1) : SameText(b, p[(i + 1) + j], c, q[kc + j])
  <2>1. i \in 0 .. i
    BY <1>3
  <2> QED BY <1>5, <2>1 DEF InStep
<1>7. kc = i + 1
  <2>1. i # m
    BY <1>1, <1>4, <1>6
  <2>2. i \in 0 .. m - 1 /\ i + 1 \in 0 .. m /\ kc \in 0 .. m
    BY <1>3, <1>4, <2>1
  <2>3. q[i + 1] = q[kc]
    BY <1>1, <1>4, <1>5, <1>6, <2>2
  <2> QED BY <1>4, <2>2, <2>3
<1>8. m = n
  BY <1>3, <1>4, <1>6, <1>7
<1>9. ASSUME NEW j \in 0 .. n - 1, j # i  PROVE SameText(b, p[j], c, q[j])
  <2>1. CASE j < i
    <3>1. j \in 0 .. i - 1
      BY <1>3, <2>1
    <3> QED BY <1>6, <3>1
  <2>2. CASE j > i
    <3> DEFINE l == j - (i + 1)
    <3>1. l \in 0 .. n - (i + 1) /\ (i + 1) + l = j
      BY <1>3, <2>2
    <3> HIDE DEF l
    <3> QED BY <1>6, <1>7, <3>1
  <2> QED BY <1>3, <1>9, <2>1, <2>2
<1>10. ButOneName(b, n, p, c, q, h, i, name)
  BY <1>1, <1>2, <1>6, <1>8, <1>9 DEF ButOneName
<1> QED BY <1>10

Reaches(b, o, r, s) == TagOf(b, o) = "BEGIN_NODE" /\ r.path = s

(* One tag further the reader of c is where that of b is, renamed.         *)
LEMMA RenamedStep ==
  ASSUME NEW s \in Seq(NodeNames), s # << >>, NEW name \in NodeNames,
         NEW b, NEW o, NEW c, HasStruct(c), NEW u \in Tags(c), SameText(b, o, c, u),
         NEW cb, cb.path \in Seq(NodeNames), NEW rb, Tells(b, o, cb, rb),
         NEW cc, NEW rc, Reads(c, cc, u, rc),
         cc.path = RenamedPath(s, name, cb.path), ~Reaches(b, o, rb, s)
  PROVE  rc.path = RenamedPath(s, name, rb.path)
<1> DEFINE N == NodeNames
           x == NodeName(b, o)
<1>1. /\ TagOf(c, u) = "BEGIN_NODE" => rc.path = Append(cc.path, NodeName(c, u))
      /\ TagOf(c, u) = "END_NODE" => rc.path = Front(cc.path)
      /\ TagOf(c, u) \notin {"BEGIN_NODE", "END_NODE"} => rc.path = cc.path
  BY PathGoesOn
<1>2. TagOf(c, u) = TagOf(b, o) /\ (TagOf(b, o) = "BEGIN_NODE" => NodeName(c, u) = x)
  BY DEF SameText
<1>3. /\ TagOf(b, o) = "BEGIN_NODE" => rb.path = Append(cb.path, x) /\ x \in N
      /\ TagOf(b, o) = "END_NODE" => rb.path = Front(cb.path) /\ cb.path # << >>
      /\ TagOf(b, o) \notin {"BEGIN_NODE", "END_NODE"} => rb.path = cb.path
  BY DEF Tells, Grows, Nowhere
<1>4. s \in Seq(N) /\ name \in N /\ cb.path \in Seq(N)
  OBVIOUS
<1> HIDE DEF N, x
<1>5. CASE TagOf(b, o) = "BEGIN_NODE"
  <2>1. Append(cb.path, x) # s /\ x \in N
    BY <1>3, <1>5 DEF Reaches
  <2>2. RenamedPath(s, name, Append(cb.path, x)) = Append(RenamedPath(s, name, cb.path), x)
    <3> DEFINE q == cb.path
    <3>1. q \in Seq(N) /\ Append(q, x) # s
      BY <1>4, <2>1
    <3> HIDE DEF q
    <3>2. RenamedPath(s, name, Append(q, x)) = Append(RenamedPath(s, name, q), x)
      BY <1>4, <2>1, <3>1, RenamedLonger
    <3> QED BY <3>2 DEF q
  <2> QED BY <1>1, <1>2, <1>3, <1>5, <2>2
<1>6. CASE TagOf(b, o) = "END_NODE"
  <2>1. RenamedPath(s, name, Front(cb.path)) = Front(RenamedPath(s, name, cb.path))
    BY <1>3, <1>4, <1>6, RenamedShorter
  <2> QED BY <1>1, <1>2, <1>3, <1>6, <2>1
<1>7. CASE TagOf(b, o) \notin {"BEGIN_NODE", "END_NODE"}
  BY <1>1, <1>2, <1>3, <1>7
<1> QED BY <1>5, <1>6, <1>7

(* a is s but for its last element, which is y.                            *)
ButTheLast(S, s, y, a) ==
  /\ a \in Seq(S) /\ Len(a) = Len(s) /\ a[Len(s)] = y
  /\ \A i \in 1 .. Len(s) : i # Len(s) => a[i] = s[i]

LEMMA RenamedSelf ==
  ASSUME NEW S, NEW s \in Seq(S), s # << >>, NEW y \in S
  PROVE  ButTheLast(S, s, y, RenamedPath(s, y, s))
<1> SUFFICES ASSUME NEW a, a = RenamedPath(s, y, s)
             PROVE  ButTheLast(S, s, y, a)
  OBVIOUS
<1>1. Under(s, s)
  BY UnderIs
<1>2. /\ a \in Seq(S) /\ Len(a) = Len(s)
      /\ Under(s, s) => /\ a[Len(s)] = y
                        /\ \A i \in 1 .. Len(s) : i # Len(s) => a[i] = s[i]
  BY RenamedPathIs
<1> QED BY <1>1, <1>2 DEF ButTheLast

LEMMA RenamedLast ==
  ASSUME NEW S, NEW f \in Seq(S), NEW y \in S, NEW s \in Seq(S), s # << >>,
         Len(s) = Len(f) + 1, \A i \in 1 .. Len(f) : s[i] = f[i],
         NEW a, ButTheLast(S, s, y, a)
  PROVE  a = Append(f, y)
<1> DEFINE c == Append(f, y)
<1>1. Len(s) = Len(f) + 1 /\ Len(f) \in Nat
  OBVIOUS
<1>3. /\ a \in Seq(S) /\ Len(a) = Len(s) /\ a[Len(s)] = y
      /\ \A i \in 1 .. Len(s) : i # Len(s) => a[i] = s[i]
  BY DEF ButTheLast
<1>4. /\ c \in Seq(S) /\ Len(c) = Len(f) + 1 /\ c[Len(c)] = y
      /\ \A i \in 1 .. Len(f) : c[i] = f[i]
  BY LongerPath
<1> HIDE DEF c
<1>5. ASSUME NEW i \in 1 .. Len(a)  PROVE a[i] = c[i]
  <2>1. CASE i = Len(s)
    BY <1>1, <1>3, <1>4, <2>1
  <2>2. CASE i # Len(s)
    <3>1. i \in 1 .. Len(f) /\ i \in 1 .. Len(s)
      BY <1>1, <1>3, <2>2
    <3> QED BY <1>1, <1>3, <1>4, <2>2, <3>1
  <2> QED BY <2>1, <2>2
<1>6. a = c
  BY <1>1, <1>3, <1>4, <1>5, EqualSequences
<1> QED BY <1>6 DEF c

LEMMA RenamedPaths ==
  ASSUME NEW b, HasStruct(b), Ordered(b), NEW n, NEW p, NEW g, IsStory(b, n, p, g),
         NEW c, HasStruct(c), NEW q, NEW h, NEW i \in 0 .. n - 1,
         NEW s, Begins(b, p, g, i, s), NEW name \in NodeNames,
         ButOneName(b, n, p, c, q, h, i, name)
  PROVE  \A j \in 0 .. n : h[j].path = RenamedPath(s, name, g[j].path)
<1> DEFINE N == NodeNames
           x == NodeName(b, p[i])
           J == {j \in 0 .. n : h[j].path = RenamedPath(s, name, g[j].path)}
<1>1. /\ n \in Nat /\ g[0] = Blank
      /\ \A j \in 0 .. n : IsTidy(g[j])
      /\ \A j \in 0 .. n - 1 : /\ j \in 0 .. n /\ j + 1 \in 0 .. n
                               /\ Tells(b, p[j], g[j], g[j + 1])
  BY StoryIs
<1>2. \A j \in 0 .. n : g[j].path \in Seq(N)
  BY <1>1 DEF IsTidy
<1>3. /\ IsReader(c, n, q, h) /\ h[0] = Blank
      /\ \A j \in 0 .. n - 1 : j # i => SameText(b, p[j], c, q[j])
      /\ TagOf(c, q[i]) = "BEGIN_NODE" /\ NodeName(c, q[i]) = name
  BY DEF ButOneName, IsReader
<1>4. \A j \in 0 .. n - 1 : q[j] \in Tags(c) /\ Reads(c, h[j], q[j], h[j + 1])
  BY <1>3, ReaderGoesOn
<1>5. TagOf(b, p[i]) = "BEGIN_NODE" /\ g[i + 1].path = s
  BY DEF Begins
<1>6. s = Append(g[i].path, x) /\ x \in N
  BY <1>1, <1>5 DEF Tells, Grows
<1>7. s \in Seq(N) /\ s # << >>
  <2>1. s \in Seq(N) /\ g[i].path \in Seq(N) /\ i \in 0 .. n
    BY <1>1, <1>2, <1>5
  <2> HIDE DEF N, x
  <2> QED BY <1>6, <2>1, LongerPath
<1>8. \A j \in 0 .. n - 1 : Begins(b, p, g, j, s) => j = i
  BY BeginsOnce
<1>9. 0 \in 0 .. n /\ i \in 0 .. n /\ i \in Nat /\ Blank.path = << >>
  BY <1>1, BlankIsTidy DEF Nowhere
<1>10. ~Under(s, << >>)
  <2>1. Len(s) \in Nat /\ Len(s) > 0
    BY <1>7
  <2> QED BY <2>1 DEF Under
<1>11. ~Under(s, g[i].path)
  <2>1. ~Under(s, g[0].path)
    BY <1>1, <1>9, <1>10
  <2>2. \A j \in 0 .. i - 1 : ~Begins(b, p, g, j, s)
    BY <1>1, <1>8, <1>9
  <2>3. \A j \in 0 .. i : ~Under(s, g[j].path)
    BY <1>7, <1>9, <2>1, <2>2, StaysOutside
  <2> QED BY <1>9, <2>3
<1> HIDE DEF x
<1>12. 0 \in J
  BY <1>1, <1>3, <1>9, <1>10 DEF RenamedPath
<1>13. ASSUME NEW j \in 0 .. n - 1, j \in J  PROVE j + 1 \in J
  <2>1. /\ j \in 0 .. n /\ j + 1 \in 0 .. n /\ g[j].path \in Seq(N)
        /\ h[j].path = RenamedPath(s, name, g[j].path)
    BY <1>1, <1>2, <1>13
  <2>2. CASE j = i
    <3>1. h[i].path = g[i].path
      BY <1>11, <2>1, <2>2 DEF RenamedPath
    <3>2. h[i + 1].path = Append(h[i].path, name)
      BY <1>3, <1>4, PathGoesOn
    <3>3. RenamedPath(s, name, s) = Append(g[i].path, name)
      <4> DEFINE f == g[i].path
      <4>1. f \in Seq(N) /\ name \in N /\ x \in N /\ s = Append(f, x)
        BY <1>6, <2>1, <2>2
      <4> HIDE DEF N, f, x
      <4>2. /\ s \in Seq(N) /\ s # << >> /\ Len(s) = Len(f) + 1
            /\ \A k \in 1 .. Len(f) : s[k] = f[k]
        BY <4>1, LongerPath
      <4>3. ButTheLast(N, s, name, RenamedPath(s, name, s))
        BY <4>1, <4>2, RenamedSelf
      <4>4. RenamedPath(s, name, s) = Append(f, name)
        BY <4>1, <4>2, <4>3, RenamedLast
      <4> QED BY <4>4 DEF f
    <3> QED BY <1>5, <2>1, <2>2, <3>1, <3>2, <3>3
  <2>3. CASE j # i
    <3>1. ~Reaches(b, p[j], g[j + 1], s)
      BY <1>8, <2>3 DEF Begins, Reaches
    <3>2. /\ SameText(b, p[j], c, q[j]) /\ Tells(b, p[j], g[j], g[j + 1])
          /\ q[j] \in Tags(c) /\ Reads(c, h[j], q[j], h[j + 1])
      BY <1>1, <1>3, <1>4, <2>3
    <3>3. h[j + 1].path = RenamedPath(s, name, g[j + 1].path)
      <4>1. /\ s \in Seq(NodeNames) /\ s # << >> /\ SameText(b, p[j], c, q[j])
            /\ q[j] \in Tags(c)
        BY <1>7, <3>2
      <4>2. ASSUME NEW cb, cb.path \in Seq(NodeNames), NEW rb, Tells(b, p[j], cb, rb),
                   NEW cc, NEW rc, Reads(c, cc, q[j], rc),
                   cc.path = RenamedPath(s, name, cb.path),
                   ~Reaches(b, p[j], rb, s)
            PROVE  rc.path = RenamedPath(s, name, rb.path)
        BY ONLY <4>1, <4>2, HasStruct(c), name \in NodeNames, RenamedStep
      <4> QED BY <2>1, <3>1, <3>2, <4>2
    <3> QED BY <2>1, <3>3
  <2> QED BY <2>2, <2>3
<1>14. 0 .. n \subseteq J
  <2> HIDE DEF J
  <2> QED BY <1>1, <1>12, <1>13, UpTo
<1> QED BY <1>14

(* A tag says of the renamed path what it said of the path.                *)
SaysRenamed(b, p, g, c, q, h, j, s, name) ==
  /\ \A r : Begins(c, q, h, j, r) <=>
       \E r0 : Begins(b, p, g, j, r0) /\ r = RenamedPath(s, name, r0)
  /\ \A r, x, v : Gives(c, q, h, j, r, x, v) <=>
       \E r0 : Gives(b, p, g, j, r0, x, v) /\ r = RenamedPath(s, name, r0)

LEMMA RenamedSays ==
  ASSUME NEW b, HasStruct(b), Ordered(b), NEW n, NEW p, NEW g, IsStory(b, n, p, g),
         NEW c, HasStruct(c), NEW q, NEW h, NEW i \in 0 .. n - 1,
         NEW s, Begins(b, p, g, i, s), NEW name \in NodeNames,
         ButOneName(b, n, p, c, q, h, i, name)
  PROVE  \A j \in 0 .. n - 1 : SaysRenamed(b, p, g, c, q, h, j, s, name)
<1> SUFFICES ASSUME NEW j \in 0 .. n - 1
             PROVE  SaysRenamed(b, p, g, c, q, h, j, s, name)
  OBVIOUS
<1>1. j \in 0 .. n /\ j + 1 \in 0 .. n
  BY StoryIs
<1>2. \A l \in 0 .. n : h[l].path = RenamedPath(s, name, g[l].path)
  BY RenamedPaths
<1>3. /\ h[j].path = RenamedPath(s, name, g[j].path)
      /\ h[j + 1].path = RenamedPath(s, name, g[j + 1].path)
  BY <1>1, <1>2
<1>4. /\ TagOf(c, q[j]) = TagOf(b, p[j])
      /\ TagOf(b, p[j]) = "PROP" => /\ PropName(c, q[j]) = PropName(b, p[j])
                                    /\ PropVal(c, q[j]) = PropVal(b, p[j])
  <2>1. CASE j = i
    BY <2>1 DEF ButOneName, Begins
  <2>2. CASE j # i
    BY <2>2 DEF ButOneName, SameText
  <2> QED BY <2>1, <2>2
<1>5. \A r : Begins(c, q, h, j, r) <=>
         \E r0 : Begins(b, p, g, j, r0) /\ r = RenamedPath(s, name, r0)
  BY <1>3, <1>4 DEF Begins
<1>6. \A r, x, v : Gives(c, q, h, j, r, x, v) <=>
         \E r0 : Gives(b, p, g, j, r0, x, v) /\ r = RenamedPath(s, name, r0)
  BY <1>3, <1>4 DEF Gives
<1> QED BY <1>5, <1>6 DEF SaysRenamed

(* No two nodes are at one path afterwards, and the tree is the same one   *)
(* with other paths.                                                       *)
IsRenamed(t, u, s, name) ==
  /\ IsTreeOf(u) /\ IsTreeOf(t) /\ s \in DOMAIN t
  /\ \A r : r \in DOMAIN u <=> \E r0 \in DOMAIN t : r = RenamedPath(s, name, r0)
  /\ \A r, x, v : Says(u, r, x, v) <=>
       \E r0 \in DOMAIN t : Says(t, r0, x, v) /\ r = RenamedPath(s, name, r0)

LEMMA RenamedTold ==
  ASSUME NEW b, HasStruct(b), Ordered(b), NEW n, NEW p, NEW g, IsStory(b, n, p, g),
         NEW c, HasStruct(c), Ordered(c), NEW q, NEW h, NEW i \in 0 .. n - 1,
         NEW s, Begins(b, p, g, i, s), NEW name \in NodeNames,
         ButOneName(b, n, p, c, q, h, i, name), NEW t, t = Contents(b).tree,
         [s EXCEPT ![Len(s)] = name] \notin DOMAIN t
  PROVE  Told(c) /\ IsRenamed(t, Contents(c).tree, s, name)
<1> DEFINE u == Contents(c).tree
<1>1. /\ IsTreeOf(t)
      /\ \A r : r \in DOMAIN t <=> \E j \in 0 .. n - 1 : Begins(b, p, g, j, r)
      /\ \A r, x, v : Says(t, r, x, v) <=>
           \E j \in 0 .. n - 1 : Gives(b, p, g, j, r, x, v)
  BY TreeIs
<1>2. \A j \in 0 .. n - 1 :
        /\ \A r : Begins(c, q, h, j, r) <=>
             \E r0 : Begins(b, p, g, j, r0) /\ r = RenamedPath(s, name, r0)
        /\ \A r, x, v : Gives(c, q, h, j, r, x, v) <=>
             \E r0 : Gives(b, p, g, j, r0, x, v) /\ r = RenamedPath(s, name, r0)
  <2>1. \A j \in 0 .. n - 1 : SaysRenamed(b, p, g, c, q, h, j, s, name)
    BY RenamedSays
  <2> QED BY <2>1 DEF SaysRenamed
<1>3. s \in DOMAIN t
  BY <1>1
<1>4. ASSUME NEW r, NEW j \in 0 .. n - 1, NEW l \in 0 .. n - 1,
             Begins(c, q, h, j, r), Begins(c, q, h, l, r)
      PROVE  j = l
  <2>1. PICK r0 : Begins(b, p, g, j, r0) /\ r = RenamedPath(s, name, r0)
    BY <1>2, <1>4
  <2>2. PICK r1 : Begins(b, p, g, l, r1) /\ r = RenamedPath(s, name, r1)
    BY <1>2, <1>4
  <2>3. r0 \in DOMAIN t /\ r1 \in DOMAIN t
    BY <1>1, <2>1, <2>2
  <2>4. r0 = r1
    BY <1>1, <1>3, <2>1, <2>2, <2>3, RenamedApart
  <2> QED BY <2>1, <2>2, <2>4, BeginsOnce
<1>5. IsStory(c, n, q, h)
  <2>1. IsReader(c, n, q, h) /\ Contents(c) = h[n]
    BY DEF ButOneName
  <2>2. \A r : \A j, l \in 0 .. n - 1 :
          Begins(c, q, h, j, r) /\ Begins(c, q, h, l, r) => j = l
    BY <1>4
  <2> QED BY <2>1, <2>2, OncePerPath
<1>6. /\ IsTreeOf(u)
      /\ \A r : r \in DOMAIN u <=> \E j \in 0 .. n - 1 : Begins(c, q, h, j, r)
      /\ \A r, x, v : Says(u, r, x, v) <=>
           \E j \in 0 .. n - 1 : Gives(c, q, h, j, r, x, v)
  BY <1>5, TreeIs
<1> HIDE DEF u
<1>7. \A r : r \in DOMAIN u <=> \E r0 \in DOMAIN t : r = RenamedPath(s, name, r0)
  BY <1>1, <1>2, <1>6
<1>8. ASSUME NEW r, NEW x, NEW v
      PROVE  Says(u, r, x, v) <=>
               \E r0 \in DOMAIN t : Says(t, r0, x, v) /\ r = RenamedPath(s, name, r0)
  <2>1. ASSUME Says(u, r, x, v)
        PROVE  \E r0 \in DOMAIN t : Says(t, r0, x, v) /\ r = RenamedPath(s, name, r0)
    <3>1. PICK j \in 0 .. n - 1 : Gives(c, q, h, j, r, x, v)
      BY <1>6, <2>1
    <3>2. PICK r0 : Gives(b, p, g, j, r0, x, v) /\ r = RenamedPath(s, name, r0)
      BY <1>2, <3>1
    <3>3. Says(t, r0, x, v)
      BY <1>1, <3>2
    <3>4. r0 \in DOMAIN t
      BY <3>3 DEF Says
    <3> QED BY <3>2, <3>3, <3>4
  <2>2. ASSUME NEW r0 \in DOMAIN t, Says(t, r0, x, v), r = RenamedPath(s, name, r0)
        PROVE  Says(u, r, x, v)
    <3>1. PICK j \in 0 .. n - 1 : Gives(b, p, g, j, r0, x, v)
      BY <1>1, <2>2
    <3>2. Gives(c, q, h, j, r, x, v)
      BY <1>2, <2>2, <3>1
    <3> QED BY <1>6, <3>2
  <2> QED BY <2>1, <2>2
<1>9. IsRenamed(t, u, s, name)
  BY <1>1, <1>3, <1>6, <1>7, <1>8 DEF IsRenamed
<1>10. Told(c)
  BY <1>5 DEF Told
<1> QED BY <1>9, <1>10 DEF u

LEMMA RenamedBack ==
  ASSUME NEW S, NEW s \in Seq(S), s # << >>, NEW name \in S, NEW q \in Seq(S),
         Under(s, q)
  PROVE  [RenamedPath(s, name, q) EXCEPT ![Len(s)] = s[Len(s)]] = q
<1> DEFINE a == RenamedPath(s, name, q)
           e == [a EXCEPT ![Len(s)] = s[Len(s)]]
<1>1. /\ Len(s) \in Nat /\ Len(s) > 0 /\ Len(q) \in Nat
      /\ a \in Seq(S) /\ Len(a) = Len(q)
      /\ Under(s, q) => /\ Len(q) >= Len(s)
                        /\ \A i \in 1 .. Len(q) : i # Len(s) => a[i] = q[i]
                        /\ \A i \in 1 .. Len(s) : q[i] = s[i]
  BY RenamedPathIs
<1> HIDE DEF a
<1>2. s[Len(s)] \in S /\ Len(s) \in 1 .. Len(a)
  BY <1>1
<1>3. /\ e \in Seq(S) /\ Len(e) = Len(q) /\ e[Len(s)] = s[Len(s)]
      /\ \A i \in 1 .. Len(q) : i # Len(s) => e[i] = a[i]
  BY <1>1, <1>2
<1> HIDE DEF e
<1>4. ASSUME NEW i \in 1 .. Len(e)  PROVE e[i] = q[i]
  <2>1. CASE i = Len(s)
    <3>1. i \in 1 .. Len(s)
      BY <1>1, <2>1
    <3> QED BY <1>1, <1>3, <2>1, <3>1
  <2>2. CASE i # Len(s)
    BY <1>1, <1>3, <2>2
  <2> QED BY <2>1, <2>2
<1>5. e = q
  BY <1>3, <1>4, EqualSequences
<1> QED BY <1>5 DEF a, e

(* The tree with the node at s under another name.                         *)
RenamedTree(t, s, name) ==
  LET Left  == DOMAIN t \ {q \in DOMAIN t : Under(s, q)}
      Moved == {[q EXCEPT ![Len(s)] = name] : q \in {r \in DOMAIN t : Under(s, r)}}
  IN  [q \in Left \cup Moved |->
         IF q \in Left THEN t[q] ELSE t[[q EXCEPT ![Len(s)] = s[Len(s)]]]]

LEMMA RenamedTreeIs ==
  ASSUME NEW t, IsTreeOf(t), NEW s \in DOMAIN t, NEW name \in NodeNames,
         [s EXCEPT ![Len(s)] = name] \notin DOMAIN t,
         NEW z, z = RenamedTree(t, s, name)
  PROVE  /\ IsMap(z)
         /\ \A q \in DOMAIN t : /\ RenamedPath(s, name, q) \in DOMAIN z
                                /\ z[RenamedPath(s, name, q)] = t[q]
         /\ \A r \in DOMAIN z : \E q \in DOMAIN t : r = RenamedPath(s, name, q)
<1> DEFINE N == NodeNames
           Left == DOMAIN t \ {q \in DOMAIN t : Under(s, q)}
           Moved == {[q EXCEPT ![Len(s)] = name] : q \in {r \in DOMAIN t : Under(s, r)}}
           old(q) == [q EXCEPT ![Len(s)] = s[Len(s)]]
<1>1. z = [q \in Left \cup Moved |-> IF q \in Left THEN t[q] ELSE t[old(q)]]
  BY DEF RenamedTree
<1>2. s \in Seq(N) /\ s # << >> /\ name \in N /\ \A q \in DOMAIN t : q \in Seq(N)
  BY DEF IsTreeOf, Nowhere
<1> HIDE DEF N
<1>3. ASSUME NEW q \in DOMAIN t
      PROVE  /\ RenamedPath(s, name, q) \in Left \cup Moved
             /\ z[RenamedPath(s, name, q)] = t[q]
  <2> DEFINE r == RenamedPath(s, name, q)
  <2>1. CASE ~Under(s, q)
    <3>1. r = q /\ q \in Left
      BY <2>1 DEF RenamedPath
    <3> HIDE DEF r, Left, Moved, old
    <3> QED BY <1>1, <3>1 DEF r
  <2>2. CASE Under(s, q)
    <3>1. r \in Moved
      BY <2>2 DEF RenamedPath
    <3>2. r \notin Left
      BY <2>2, RenamedIsNew
    <3>3. old(r) = q
      BY <1>2, <2>2, RenamedBack
    <3> HIDE DEF r, Left, Moved, old
    <3>4. z[r] = t[q]
      BY <1>1, <3>1, <3>2, <3>3
    <3> QED BY <3>1, <3>4 DEF r
  <2> QED BY <2>1, <2>2
<1>4. ASSUME NEW r \in Left \cup Moved
      PROVE  \E q \in DOMAIN t : r = RenamedPath(s, name, q)
  <2>1. CASE r \in Left
    BY <2>1 DEF RenamedPath
  <2>2. CASE r \in Moved
    BY <2>2 DEF RenamedPath
  <2> QED BY <2>1, <2>2
<1> HIDE DEF Left, Moved, old
<1>5. IsMap(z) /\ DOMAIN z = Left \cup Moved
  BY <1>1 DEF IsMap
<1> QED BY <1>3, <1>4, <1>5

LEMMA RenamedIs ==
  ASSUME NEW t, NEW s, NEW name \in NodeNames,
         [s EXCEPT ![Len(s)] = name] \notin DOMAIN t, NEW u, IsRenamed(t, u, s, name)
  PROVE  u = RenamedTree(t, s, name)
<1>0. /\ IsTreeOf(t) /\ s \in DOMAIN t /\ IsTreeOf(u)
      /\ \A r : r \in DOMAIN u <=> \E r0 \in DOMAIN t : r = RenamedPath(s, name, r0)
      /\ \A r, x, v : Says(u, r, x, v) <=>
           \E r0 \in DOMAIN t : Says(t, r0, x, v) /\ r = RenamedPath(s, name, r0)
  BY DEF IsRenamed
<1> USE <1>0
<1> DEFINE z == RenamedTree(t, s, name)
<1>1. /\ IsMap(z)
      /\ \A q \in DOMAIN t : /\ RenamedPath(s, name, q) \in DOMAIN z
                             /\ z[RenamedPath(s, name, q)] = t[q]
      /\ \A r \in DOMAIN z : \E q \in DOMAIN t : r = RenamedPath(s, name, q)
  BY RenamedTreeIs
<1> HIDE DEF z
<1>2. \A r \in DOMAIN z : IsMap(z[r])
  BY <1>1 DEF IsTreeOf
<1>3. \A r : r \in DOMAIN u <=> r \in DOMAIN z
  BY <1>1
<1>4. ASSUME NEW r, NEW x, NEW v  PROVE Says(u, r, x, v) <=> Says(z, r, x, v)
  <2>1. ASSUME Says(u, r, x, v)  PROVE Says(z, r, x, v)
    <3>1. PICK r0 \in DOMAIN t : Says(t, r0, x, v) /\ r = RenamedPath(s, name, r0)
      BY <2>1
    <3> QED BY <1>1, <3>1 DEF Says
  <2>2. ASSUME Says(z, r, x, v)  PROVE Says(u, r, x, v)
    <3>1. r \in DOMAIN z
      BY <2>2 DEF Says
    <3>2. PICK r0 \in DOMAIN t : r = RenamedPath(s, name, r0)
      BY <1>1, <3>1
    <3>3. Says(t, r0, x, v)
      BY <1>1, <2>2, <3>2 DEF Says
    <3> QED BY <3>2, <3>3
  <2> QED BY <2>1, <2>2
<1>5. u = z
  BY <1>1, <1>2, <1>3, <1>4, EqualTrees DEF IsTreeOf
<1> QED BY <1>5 DEF z

LEMMA SetNameTurns ==
  ASSUME NEW b, Sound(b), Ordered(b), Told(b), ~Misordered(b, RsvSize),
         NEW node \in Int, NEW name \in NodeNames,
         NEW t, t = Contents(b).tree, NEW s, s = At(Contents(b), node),
         s # Nowhere => [s EXCEPT ![Len(s)] = name] \notin DOMAIN t,
         NEW w, w = fdt_set_name(b, node, name)
  PROVE  \/ s = Nowhere /\ w = Result(b, BADOFFSET)
         \/ /\ s \in DOMAIN t /\ s # Nowhere
            /\ \/ Turns(b, w, RenamedTree(t, s, name), 0)
               \/ w.ret = NOSPACE /\ w.fdt = b
<1>1. HasStruct(b)
  BY SoundIs
<1>2. PICK n, p, g : IsStory(b, n, p, g)
  BY DEF Told
<1>3. /\ Kept(b, w.fdt)
      /\ \/ CheckNodeOffset(b, node) = BADOFFSET /\ w = Result(b, BADOFFSET)
         \/ /\ node \in Tags(b) /\ TagOf(b, node) = "BEGIN_NODE"
            /\ CheckNodeOffset(b, node) = Following(b, node)
            /\ \/ w.ret = NOSPACE /\ w.fdt = b
               \/ w.ret = 0 /\ Renamed(b, w.fdt, node, name)
  BY SetNameKeeps
<1>4. \/ /\ s = Nowhere /\ CheckNodeOffset(b, node) = BADOFFSET
         /\ ~(node \in Tags(b) /\ TagOf(b, node) = "BEGIN_NODE")
      \/ /\ s # Nowhere /\ s \in DOMAIN t
         /\ node \in Tags(b) /\ TagOf(b, node) = "BEGIN_NODE"
         /\ CheckNodeOffset(b, node) = Following(b, node)
         /\ \E i \in 0 .. n - 1 : p[i] = node /\ Begins(b, p, g, i, s)
  <2> DEFINE v == Contents(b)
  <2>1. \/ /\ At(v, node) = Nowhere /\ CheckNodeOffset(b, node) = BADOFFSET
           /\ ~(node \in Tags(b) /\ TagOf(b, node) = "BEGIN_NODE")
        \/ /\ At(v, node) # Nowhere /\ At(v, node) \in DOMAIN v.tree
           /\ node \in Tags(b) /\ TagOf(b, node) = "BEGIN_NODE"
           /\ CheckNodeOffset(b, node) = Following(b, node)
           /\ \E i \in 0 .. n - 1 : p[i] = node /\ Begins(b, p, g, i, At(v, node))
    BY <1>1, <1>2, TargetIs
  <2> QED BY <2>1
<1>5. CASE /\ s = Nowhere
           /\ ~(node \in Tags(b) /\ TagOf(b, node) = "BEGIN_NODE")
  BY <1>3, <1>5
<1>6. CASE /\ s # Nowhere /\ s \in DOMAIN t
           /\ node \in Tags(b) /\ TagOf(b, node) = "BEGIN_NODE"
           /\ CheckNodeOffset(b, node) = Following(b, node)
           /\ \E i \in 0 .. n - 1 : p[i] = node /\ Begins(b, p, g, i, s)
  <2>1. CheckNodeOffset(b, node) # BADOFFSET
    <3>1. Following(b, node) \in Tags(b)
      BY <1>1, <1>6, FollowingIs
    <3>2. Following(b, node) \in Nat
      BY <3>1 DEF Tags
    <3> QED BY <1>6, <3>2 DEF BADOFFSET
  <2>2. CASE w.ret = NOSPACE /\ w.fdt = b
    BY <1>6, <2>2
  <2>3. CASE w.ret = 0 /\ Renamed(b, w.fdt, node, name)
    <3> DEFINE c == w.fdt
               u == Contents(c).tree
    <3>1. HasStruct(c) /\ Ordered(c)
      BY <1>3, SoundIs DEF Kept, StaysSound
    <3>2. PICK i \in 0 .. n - 1 : p[i] = node /\ Begins(b, p, g, i, s)
      BY <1>6
    <3>3. Renamed(b, c, p[i], name)
      BY <2>3, <3>2
    <3> HIDE DEF c
    <3>4. IsReader(b, n, p, g)
      BY <1>2 DEF IsStory
    <3>5. PICK q, h : ButOneName(b, n, p, c, q, h, i, name)
      BY <1>1, <3>1, <3>3, <3>4, RenamedAligns
    <3>6. [s EXCEPT ![Len(s)] = name] \notin DOMAIN t
      BY <1>6
    <3>7. Told(c) /\ IsRenamed(t, u, s, name)
      BY <1>1, <1>2, <3>1, <3>2, <3>5, <3>6, RenamedTold
    <3> HIDE DEF u
    <3>8. u = RenamedTree(t, s, name)
      BY <3>6, <3>7, RenamedIs
    <3>9. SameOrder(b, w.fdt)
      BY <1>3, KeepsOrder
    <3> QED BY <1>3, <1>6, <2>3, <3>7, <3>8, <3>9 DEF Turns, c, u
  <2> QED BY <1>3, <1>6, <2>1, <2>2, <2>3
<1> QED BY <1>4, <1>5, <1>6

-----------------------------------------------------------------------------
(* Every call edits the tree.                                              *)

(* In front of the first call no two nodes are at one path.                *)
LEMMA PathsTell ==
  ASSUME NEW b, HasStruct(b), NEW at, at = Contents(b).at,
         \A o, u \in DOMAIN at : at[o] = at[u] => o = u
  PROVE  Told(b)
<1>1. PICK n, p, g : IsReader(b, n, p, g) /\ Contents(b) = g[n]
  BY ContentsAreRead
<1>2. /\ n \in Nat /\ \A i \in 0 .. n - 1 : i \in 0 .. n /\ p[i] \in Tags(b)
      /\ \A i \in 0 .. n - 1 : Reads(b, g[i], p[i], g[i + 1])
  BY <1>1, ReaderGoesOn
<1>3. ASSUME NEW s, NEW i \in 0 .. n - 1, Begins(b, p, g, i, s)
      PROVE  p[i] \in DOMAIN at /\ at[p[i]] = s
  <2>1. TagOf(b, p[i]) = "BEGIN_NODE" /\ g[i + 1].path = s
    BY <1>3 DEF Begins
  <2>2. g[i + 1].path = Append(g[i].path, NodeName(b, p[i]))
    BY <1>2, <2>1, PathGoesOn
  <2> DEFINE v == g[n]
  <2>3. p[i] \in DOMAIN v.at /\ At(v, p[i]) = Append(g[i].path, NodeName(b, p[i]))
    BY <1>1, <1>2, <2>1, NodePathIs
  <2>4. v.at = at
    BY <1>1
  <2> HIDE DEF v
  <2> QED BY <2>1, <2>2, <2>3, <2>4 DEF At
<1>4. \A s : \A i, j \in 0 .. n - 1 :
        Begins(b, p, g, i, s) /\ Begins(b, p, g, j, s) => i = j
  <2> SUFFICES ASSUME NEW s, NEW i \in 0 .. n - 1, NEW j \in 0 .. n - 1,
                      Begins(b, p, g, i, s), Begins(b, p, g, j, s)
               PROVE  i = j
    OBVIOUS
  <2>1. p[i] = p[j]
    BY <1>3
  <2>2. \A l, m \in 0 .. n : p[l] = p[m] => l = m
    BY <1>1, EachIsRead
  <2> QED BY <1>2, <2>1, <2>2
<1>5. IsStory(b, n, p, g)
  BY <1>1, <1>4, OncePerPath
<1> QED BY <1>5 DEF Told

(* The offsets a caller uses point to nodes of the tree, or nowhere.       *)
LEMMA PathIsTarget ==
  ASSUME Viewed, Told(fdt), NEW node \in Int
  PROVE  PathAt(node) \in Tree!Targets
<1> DEFINE v == Contents(fdt)
<1>1. HasStruct(fdt) /\ Ordered(fdt) /\ view = v
  BY SoundIs DEF Viewed, BlobIsSound
<1>2. PICK n, p, g : IsStory(fdt, n, p, g)
  BY DEF Told
<1>3. At(v, node) = Nowhere \/ At(v, node) \in DOMAIN v.tree
  <2> SUFFICES ASSUME NEW b, b = fdt, NEW u, u = v
               PROVE  At(u, node) = Nowhere \/ At(u, node) \in DOMAIN u.tree
    OBVIOUS
  <2>1. HasStruct(b) /\ Ordered(b) /\ IsStory(b, n, p, g) /\ u = Contents(b)
    BY <1>1, <1>2
  <2>. QED
    BY <2>1, TargetIs
<1> HIDE DEF v
<1>. QED
  BY <1>1, <1>3 DEF PathAt, Tree!Targets, Tree!Nodes, Tree!Nowhere, Nowhere

(* A call that turns the tree into another one.                            *)
LEMMA TurnIs ==
  ASSUME NEW c, NEW w, Returns(c, w), NEW t, NEW e, Turns(fdt, w, t, e)
  PROVE  /\ view'.tree = t /\ call' = Append(c, e)
         /\ RsvMap(fdt)' = RsvMap(fdt)
         /\ (~Misordered(fdt, RsvSize))' = ~Misordered(fdt, RsvSize)
         /\ Told(fdt')
<1>1. /\ w.ret = e /\ RsvMap(w.fdt) = RsvMap(fdt) /\ Told(w.fdt)
      /\ Misordered(w.fdt, RsvSize) <=> Misordered(fdt, RsvSize)
      /\ Contents(w.fdt).tree = t
  BY DEF Turns, Kept, SameOrder
<1>2. fdt' = w.fdt /\ view' = Contents(w.fdt) /\ call' = Append(c, w.ret)
  BY DEF Returns
<1>. QED
  BY <1>1, <1>2

LEMMA TurnBecomes ==
  ASSUME NEW c, NEW w, Returns(c, w), NEW t, Turns(fdt, w, t, 0)
  PROVE  Tree!Becomes(c, t) /\ Told(fdt')
BY TurnIs DEF Tree!Becomes

LEMMA TurnFails ==
  ASSUME NEW c, NEW w, Returns(c, w), NEW t, t = view.tree,
         NEW e, Turns(fdt, w, t, e)
  PROVE  Tree!Fails(c, e) /\ Told(fdt')
BY TurnIs DEF Tree!Fails

LEMMA RefusedFails ==
  ASSUME Viewed, Told(fdt), NEW c, NEW w, Returns(c, w), w.fdt = fdt
  PROVE  Tree!Fails(c, w.ret) /\ Told(fdt')
<1>1. fdt' = fdt
  BY DEF Returns
<1>. QED
  BY <1>1, NothingIsDone

LEMMA CheckedTold ==
  ASSUME Viewed, Told(fdt), NEW c, NEW w, Returns(c, Checked(fdt, w))
  PROVE  \/ /\ Misordered(fdt, RsvSize) /\ Tree!Fails(c, BADLAYOUT)
            /\ Told(fdt')
         \/ ~Misordered(fdt, RsvSize) /\ Returns(c, w)
<1>1. CASE Misordered(fdt, RsvSize)
  <2>1. Checked(fdt, w) = Result(fdt, BADLAYOUT)
    BY <1>1 DEF Checked
  <2>2. fdt' = fdt
    BY <2>1 DEF Returns, Result
  <2>. QED
    BY <1>1, <2>2, CheckedIs
<1>2. CASE ~Misordered(fdt, RsvSize)
  BY <1>2, CheckedIs
<1>. QED
  BY <1>1, <1>2

LEMMA SetPropEditsTree ==
  ASSUME Viewed, Told(fdt), NEW node \in Int, NEW name \in PropNames,
         NEW val \in Seq(0 .. 255), NEW s, s = PathAt(node),
         NEW w, w = fdt_setprop(fdt, node, name, val),
         Returns(<<"setprop", s, name, val>>, Checked(fdt, w))
  PROVE  Tree!SetProp(s, name, val) /\ Told(fdt')
<1> DEFINE c == <<"setprop", s, name, val>>
           t == view.tree
<1>1. /\ Sound(fdt) /\ Ordered(fdt)
      /\ t = Contents(fdt).tree /\ s = At(Contents(fdt), node)
  BY DEF Viewed, BlobIsSound, PathAt
<1>2. Returns(c, Checked(fdt, w))
  OBVIOUS
<1>3. Tree!With(s, name, val) = WithOne(t, s, name, val)
  BY DEF Tree!With, Tree!Put, WithOne, Put
<1> HIDE DEF c, t
<1>4. CASE Misordered(fdt, RsvSize) /\ Tree!Fails(c, BADLAYOUT) /\ Told(fdt')
  BY <1>4 DEF Tree!SetProp, Tree!Moves, c
<1>5. CASE ~Misordered(fdt, RsvSize) /\ Returns(c, w)
  <2>1. \/ s = Nowhere /\ w = Result(fdt, BADOFFSET)
        \/ /\ s # Nowhere
           /\ \/ Turns(fdt, w, WithOne(t, s, name, val), 0)
              \/ Turns(fdt, w, t, NOSPACE)
    BY <1>1, <1>5, SetPropTurns
  <2>2. CASE s = Nowhere /\ w = Result(fdt, BADOFFSET)
    <3>1. Tree!Fails(c, BADOFFSET) /\ Told(fdt')
      BY <1>5, <2>2, RefusedFails DEF Result
    <3>. QED
      BY <1>5, <2>2, <3>1
         DEF Tree!SetProp, Tree!Moves, Tree!At, Tree!Nowhere, Nowhere, c
  <2>3. CASE s # Nowhere /\ Turns(fdt, w, WithOne(t, s, name, val), 0)
    <3>1. Tree!Becomes(c, Tree!With(s, name, val)) /\ Told(fdt')
      BY <1>3, <1>5, <2>3, TurnBecomes
    <3>. QED
      BY <1>5, <2>3, <3>1
         DEF Tree!SetProp, Tree!Moves, Tree!At, Tree!Nowhere, Nowhere, c
  <2>4. CASE s # Nowhere /\ Turns(fdt, w, t, NOSPACE)
    <3>1. Tree!Fails(c, NOSPACE) /\ Told(fdt')
      BY <1>5, <2>4, TurnFails DEF t
    <3>. QED
      BY <1>5, <2>4, <3>1
         DEF Tree!SetProp, Tree!Moves, Tree!At, Tree!Nowhere, Nowhere, c
  <2>. QED
    BY <2>1, <2>2, <2>3, <2>4
<1>. QED
  BY <1>2, <1>4, <1>5, CheckedTold

LEMMA AppendPropEditsTree ==
  ASSUME Viewed, Told(fdt), NEW node \in Int,
         NEW name \in PropNames, NEW val \in Seq(0 .. 255),
         NEW s, s = PathAt(node),
         NEW w, w = fdt_appendprop(fdt, node, name, val),
         Returns(<<"appendprop", s, name, val>>, Checked(fdt, w))
  PROVE  Tree!AppendProp(s, name, val) /\ Told(fdt')
<1> DEFINE c == <<"appendprop", s, name, val>>
           t == view.tree
<1>1. /\ Sound(fdt) /\ Ordered(fdt)
      /\ t = Contents(fdt).tree /\ s = At(Contents(fdt), node)
  BY DEF Viewed, BlobIsSound, PathAt
<1>2. Returns(c, Checked(fdt, w))
  OBVIOUS
<1> DEFINE u == ValueBefore(t, s, name) \o val
<1>3. /\ Tree!With(s, name, u) = WithOne(t, s, name, u)
      /\ u = (IF Tree!Has(s, name) THEN t[s][name] ELSE << >>) \o val
  BY DEF Tree!With, Tree!Put, Tree!Has, WithOne, Put, ValueBefore
<1>6. u = ValueBefore(t, s, name) \o val
  OBVIOUS
<1> HIDE DEF u
<1> HIDE DEF c, t
<1>4. CASE Misordered(fdt, RsvSize) /\ Tree!Fails(c, BADLAYOUT) /\ Told(fdt')
  BY <1>4 DEF Tree!AppendProp, Tree!Moves, c
<1>5. CASE ~Misordered(fdt, RsvSize) /\ Returns(c, w)
  <2>1. \/ s = Nowhere /\ w = Result(fdt, BADOFFSET)
        \/ s # Nowhere /\ Turns(fdt, w, WithOne(t, s, name, u), 0)
        \/ s # Nowhere /\ Turns(fdt, w, t, NOSPACE)
    BY <1>1, <1>5, <1>6, AppendPropTurns
  <2>2. CASE s = Nowhere /\ w = Result(fdt, BADOFFSET)
    <3>1. Tree!Fails(c, BADOFFSET) /\ Told(fdt')
      BY <1>5, <2>2, RefusedFails DEF Result
    <3>. QED
      BY <1>3, <1>5, <2>2, <3>1
         DEF Tree!AppendProp, Tree!Moves, Tree!At, Tree!Nowhere, Nowhere, c, t
  <2>3. CASE s # Nowhere /\ Turns(fdt, w, WithOne(t, s, name, u), 0)
    <3>1. Tree!Becomes(c, Tree!With(s, name, u)) /\ Told(fdt')
      BY <1>3, <1>5, <2>3, TurnBecomes
    <3>. QED
      BY <1>3, <1>5, <2>3, <3>1
         DEF Tree!AppendProp, Tree!Moves, Tree!At, Tree!Nowhere, Nowhere, c, t
  <2>4. CASE s # Nowhere /\ Turns(fdt, w, t, NOSPACE)
    <3>1. Tree!Fails(c, NOSPACE) /\ Told(fdt')
      BY <1>5, <2>4, TurnFails DEF t
    <3>. QED
      BY <1>3, <1>5, <2>4, <3>1
         DEF Tree!AppendProp, Tree!Moves, Tree!At, Tree!Nowhere, Nowhere, c, t
  <2>. QED
    BY <2>1, <2>2, <2>3, <2>4
<1>. QED
  BY <1>2, <1>4, <1>5, CheckedTold

LEMMA DelPropEditsTree ==
  ASSUME Viewed, Told(fdt), NEW node \in Int,
         NEW name,
         NEW s, s = PathAt(node),
         NEW w, w = fdt_delprop(fdt, node, name),
         Returns(<<"delprop", s, name>>, Checked(fdt, w))
  PROVE  Tree!DelProp(s, name) /\ Told(fdt')
<1> DEFINE c == <<"delprop", s, name>>
           t == view.tree
<1>1. /\ Sound(fdt) /\ Ordered(fdt)
      /\ t = Contents(fdt).tree /\ s = At(Contents(fdt), node)
  BY DEF Viewed, BlobIsSound, PathAt
<1>2. Returns(c, Checked(fdt, w))
  OBVIOUS
<1>3. /\ Tree!Without(s, name) = WithoutOne(t, s, name)
      /\ Tree!Has(s, name) <=> name \in DOMAIN t[s]
  BY DEF Tree!Without, Tree!Has, WithoutOne
<1> HIDE DEF c, t
<1>4. CASE Misordered(fdt, RsvSize) /\ Tree!Fails(c, BADLAYOUT) /\ Told(fdt')
  BY <1>4 DEF Tree!DelProp, Tree!Moves, c
<1>5. CASE ~Misordered(fdt, RsvSize) /\ Returns(c, w)
  <2>1. \/ s = Nowhere /\ w = Result(fdt, BADOFFSET)
        \/ s # Nowhere /\ name \notin DOMAIN t[s] /\ w = Result(fdt, NOTFOUND)
        \/ /\ s # Nowhere /\ name \in DOMAIN t[s]
           /\ Turns(fdt, w, WithoutOne(t, s, name), 0)
    BY <1>1, <1>5, DelPropTurns
  <2>2. CASE s = Nowhere /\ w = Result(fdt, BADOFFSET)
    <3>1. Tree!Fails(c, BADOFFSET) /\ Told(fdt')
      BY <1>5, <2>2, RefusedFails DEF Result
    <3>. QED
      BY <1>3, <1>5, <2>2, <3>1
         DEF Tree!DelProp, Tree!Moves, Tree!At, Tree!Nowhere, Nowhere, c
  <2>3. CASE s # Nowhere /\ name \notin DOMAIN t[s] /\ w = Result(fdt, NOTFOUND)
    <3>1. Tree!Fails(c, NOTFOUND) /\ Told(fdt')
      BY <1>5, <2>3, RefusedFails DEF Result
    <3>. QED
      BY <1>3, <1>5, <2>3, <3>1
         DEF Tree!DelProp, Tree!Moves, Tree!At, Tree!Nowhere, Nowhere, c
  <2>4. CASE /\ s # Nowhere /\ name \in DOMAIN t[s]
             /\ Turns(fdt, w, WithoutOne(t, s, name), 0)
    <3>1. Tree!Becomes(c, Tree!Without(s, name)) /\ Told(fdt')
      BY <1>3, <1>5, <2>4, TurnBecomes
    <3>. QED
      BY <1>3, <1>5, <2>4, <3>1
         DEF Tree!DelProp, Tree!Moves, Tree!At, Tree!Nowhere, Nowhere, c
  <2>. QED
    BY <2>1, <2>2, <2>3, <2>4
<1>. QED
  BY <1>2, <1>4, <1>5, CheckedTold

LEMMA NopPropertyEditsTree ==
  ASSUME Viewed, Told(fdt), NEW node \in Int,
         NEW name,
         NEW s, s = PathAt(node),
         NEW w, w = fdt_nop_property(fdt, node, name),
         Returns(<<"nop_property", s, name>>, w)
  PROVE  Tree!NopProperty(s, name) /\ Told(fdt')
<1> DEFINE c == <<"nop_property", s, name>>
           t == view.tree
<1>1. /\ Sound(fdt) /\ Ordered(fdt)
      /\ t = Contents(fdt).tree /\ s = At(Contents(fdt), node)
  BY DEF Viewed, BlobIsSound, PathAt
<1>2. Returns(c, w)
  OBVIOUS
<1>3. /\ Tree!Without(s, name) = WithoutOne(t, s, name)
      /\ Tree!Has(s, name) <=> name \in DOMAIN t[s]
  BY DEF Tree!Without, Tree!Has, WithoutOne
<1> HIDE DEF c, t
<1>4. \/ s = Nowhere /\ w = Result(fdt, BADOFFSET)
      \/ s # Nowhere /\ name \notin DOMAIN t[s] /\ w = Result(fdt, NOTFOUND)
      \/ /\ s # Nowhere /\ name \in DOMAIN t[s]
         /\ Turns(fdt, w, WithoutOne(t, s, name), 0)
  BY <1>1, NopPropertyTurns
<1>5. CASE s = Nowhere /\ w = Result(fdt, BADOFFSET)
  <2>1. Tree!Fails(c, BADOFFSET) /\ Told(fdt')
    BY <1>2, <1>5, RefusedFails DEF Result
  <2>. QED
    BY <1>3, <1>2, <1>5, <2>1
       DEF Tree!NopProperty, Tree!At, Tree!Nowhere, Nowhere, c
<1>6. CASE s # Nowhere /\ name \notin DOMAIN t[s] /\ w = Result(fdt, NOTFOUND)
  <2>1. Tree!Fails(c, NOTFOUND) /\ Told(fdt')
    BY <1>2, <1>6, RefusedFails DEF Result
  <2>. QED
    BY <1>3, <1>2, <1>6, <2>1
       DEF Tree!NopProperty, Tree!At, Tree!Nowhere, Nowhere, c
<1>7. CASE /\ s # Nowhere /\ name \in DOMAIN t[s]
           /\ Turns(fdt, w, WithoutOne(t, s, name), 0)
  <2>1. Tree!Becomes(c, Tree!Without(s, name)) /\ Told(fdt')
    BY <1>3, <1>2, <1>7, TurnBecomes
  <2>. QED
    BY <1>3, <1>2, <1>7, <2>1
       DEF Tree!NopProperty, Tree!At, Tree!Nowhere, Nowhere, c
<1>. QED
  BY <1>4, <1>5, <1>6, <1>7

LEMMA SetPropInplaceEditsTree ==
  ASSUME Viewed, Told(fdt), NEW node \in Int,
         NEW name, NEW val \in Seq(0 .. 255),
         NEW s, s = PathAt(node),
         NEW w, w = fdt_setprop_inplace(fdt, node, name, val),
         Returns(<<"setprop_inplace", s, name, val>>, w)
  PROVE  Tree!SetPropInplace(s, name, val) /\ Told(fdt')
<1> DEFINE c == <<"setprop_inplace", s, name, val>>
           t == view.tree
<1>1. /\ Sound(fdt) /\ Ordered(fdt)
      /\ t = Contents(fdt).tree /\ s = At(Contents(fdt), node)
  BY DEF Viewed, BlobIsSound, PathAt
<1>2. Returns(c, w)
  OBVIOUS
<1>3. /\ Tree!With(s, name, val) = WithOne(t, s, name, val)
      /\ Tree!Has(s, name) <=> name \in DOMAIN t[s]
  BY DEF Tree!With, Tree!Put, Tree!Has, WithOne, Put
<1> HIDE DEF c, t
<1>4. \/ s = Nowhere /\ w = Result(fdt, BADOFFSET)
      \/ s # Nowhere /\ name \notin DOMAIN t[s] /\ w = Result(fdt, NOTFOUND)
      \/ /\ s # Nowhere /\ name \in DOMAIN t[s] /\ Len(t[s][name]) # Len(val)
         /\ w = Result(fdt, NOSPACE)
      \/ /\ s # Nowhere /\ name \in DOMAIN t[s] /\ Len(t[s][name]) = Len(val)
         /\ Turns(fdt, w, WithOne(t, s, name, val), 0)
  BY <1>1, SetPropInplaceTurns
<1>5. CASE s = Nowhere /\ w = Result(fdt, BADOFFSET)
  <2>1. Tree!Fails(c, BADOFFSET) /\ Told(fdt')
    BY <1>2, <1>5, RefusedFails DEF Result
  <2>. QED
    BY <1>3, <1>2, <1>5, <2>1
       DEF Tree!SetPropInplace, Tree!At, Tree!Nowhere, Nowhere, c, t
<1>6. CASE s # Nowhere /\ name \notin DOMAIN t[s] /\ w = Result(fdt, NOTFOUND)
  <2>1. Tree!Fails(c, NOTFOUND) /\ Told(fdt')
    BY <1>2, <1>6, RefusedFails DEF Result
  <2>. QED
    BY <1>3, <1>2, <1>6, <2>1
       DEF Tree!SetPropInplace, Tree!At, Tree!Nowhere, Nowhere, c, t
<1>7. CASE /\ s # Nowhere /\ name \in DOMAIN t[s] /\ Len(t[s][name]) # Len(val)
           /\ w = Result(fdt, NOSPACE)
  <2>1. Tree!Fails(c, NOSPACE) /\ Told(fdt')
    BY <1>2, <1>7, RefusedFails DEF Result
  <2>. QED
    BY <1>3, <1>2, <1>7, <2>1
       DEF Tree!SetPropInplace, Tree!At, Tree!Nowhere, Nowhere, c, t
<1>8. CASE /\ s # Nowhere /\ name \in DOMAIN t[s] /\ Len(t[s][name]) = Len(val)
           /\ Turns(fdt, w, WithOne(t, s, name, val), 0)
  <2>1. Tree!Becomes(c, Tree!With(s, name, val)) /\ Told(fdt')
    BY <1>3, <1>2, <1>8, TurnBecomes
  <2>. QED
    BY <1>3, <1>2, <1>8, <2>1
       DEF Tree!SetPropInplace, Tree!At, Tree!Nowhere, Nowhere, c, t
<1>. QED
  BY <1>4, <1>5, <1>6, <1>7, <1>8

LEMMA DelNodeEditsTree ==
  ASSUME Viewed, Told(fdt), NEW node \in Int, node >= 0 \/ node = BADOFFSET,
         NEW s, s = PathAt(node),
         NEW w, w = fdt_del_node(fdt, node),
         Returns(<<"del_node", s>>, Checked(fdt, w))
  PROVE  Tree!DelNode(s) /\ Told(fdt')
<1> DEFINE c == <<"del_node", s>>
           t == view.tree
<1>1. /\ Sound(fdt) /\ Ordered(fdt)
      /\ t = Contents(fdt).tree /\ s = At(Contents(fdt), node)
  BY DEF Viewed, BlobIsSound, PathAt
<1>2. Returns(c, Checked(fdt, w))
  OBVIOUS
<1>3. Tree!Pruned(s) = PrunedTree(t, s)
  BY DEF Tree!Pruned, Tree!Below, Tree!Nodes, PrunedTree, Under
<1> HIDE DEF c, t
<1>4. CASE Misordered(fdt, RsvSize) /\ Tree!Fails(c, BADLAYOUT) /\ Told(fdt')
  BY <1>4 DEF Tree!DelNode, Tree!Moves, c
<1>5. CASE ~Misordered(fdt, RsvSize) /\ Returns(c, w)
  <2>1. \/ s = Nowhere /\ w = Result(fdt, BADOFFSET)
        \/ s # Nowhere /\ Turns(fdt, w, PrunedTree(t, s), 0)
    BY <1>1, <1>5, DelNodeTurns
  <2>2. CASE s = Nowhere /\ w = Result(fdt, BADOFFSET)
    <3>1. Tree!Fails(c, BADOFFSET) /\ Told(fdt')
      BY <1>5, <2>2, RefusedFails DEF Result
    <3>. QED
      BY <1>5, <2>2, <3>1
         DEF Tree!DelNode, Tree!Moves, Tree!At, Tree!Nowhere, Nowhere, c
  <2>3. CASE s # Nowhere /\ Turns(fdt, w, PrunedTree(t, s), 0)
    <3>1. Tree!Becomes(c, Tree!Pruned(s)) /\ Told(fdt')
      BY <1>3, <1>5, <2>3, TurnBecomes
    <3>. QED
      BY <1>5, <2>3, <3>1
         DEF Tree!DelNode, Tree!Moves, Tree!At, Tree!Nowhere, Nowhere, c
  <2>. QED
    BY <2>1, <2>2, <2>3
<1>. QED
  BY <1>2, <1>4, <1>5, CheckedTold

LEMMA NopNodeEditsTree ==
  ASSUME Viewed, Told(fdt), NEW node \in Int, node >= 0 \/ node = BADOFFSET,
         NEW s, s = PathAt(node),
         NEW w, w = fdt_nop_node(fdt, node),
         Returns(<<"nop_node", s>>, w)
  PROVE  Tree!NopNode(s) /\ Told(fdt')
<1> DEFINE c == <<"nop_node", s>>
           t == view.tree
<1>1. /\ Sound(fdt) /\ Ordered(fdt)
      /\ t = Contents(fdt).tree /\ s = At(Contents(fdt), node)
  BY DEF Viewed, BlobIsSound, PathAt
<1>2. Returns(c, w)
  OBVIOUS
<1>3. Tree!Pruned(s) = PrunedTree(t, s)
  BY DEF Tree!Pruned, Tree!Below, Tree!Nodes, PrunedTree, Under
<1> HIDE DEF c, t
<1>4. \/ s = Nowhere /\ w = Result(fdt, BADOFFSET)
      \/ s # Nowhere /\ Turns(fdt, w, PrunedTree(t, s), 0)
  BY <1>1, NopNodeTurns
<1>5. CASE s = Nowhere /\ w = Result(fdt, BADOFFSET)
  <2>1. Tree!Fails(c, BADOFFSET) /\ Told(fdt')
    BY <1>2, <1>5, RefusedFails DEF Result
  <2>. QED
    BY <1>2, <1>5, <2>1
       DEF Tree!NopNode, Tree!At, Tree!Nowhere, Nowhere, c
<1>6. CASE s # Nowhere /\ Turns(fdt, w, PrunedTree(t, s), 0)
  <2>1. Tree!Becomes(c, Tree!Pruned(s)) /\ Told(fdt')
    BY <1>3, <1>2, <1>6, TurnBecomes
  <2>. QED
    BY <1>2, <1>6, <2>1
       DEF Tree!NopNode, Tree!At, Tree!Nowhere, Nowhere, c
<1>. QED
  BY <1>4, <1>5, <1>6

LEMMA SetNameEditsTree ==
  ASSUME Viewed, Told(fdt), NEW node \in Int, NEW name \in NodeNames,
         Unique(node, name), NEW s, s = PathAt(node),
         NEW w, w = fdt_set_name(fdt, node, name),
         Returns(<<"set_name", s, name>>, Checked(fdt, w))
  PROVE  Tree!SetName(s, name) /\ Told(fdt')
<1> DEFINE c == <<"set_name", s, name>>
           t == view.tree
           u == RenamedTree(t, s, name)
<1>1. /\ Sound(fdt) /\ Ordered(fdt)
      /\ t = Contents(fdt).tree /\ s = At(Contents(fdt), node)
      /\ s # Nowhere => [s EXCEPT ![Len(s)] = name] \notin DOMAIN t
  BY DEF Viewed, BlobIsSound, PathAt, Unique
<1>2. Returns(c, Checked(fdt, w))
  OBVIOUS
<1>3. Tree!Below(s) = {q \in DOMAIN t : Under(s, q)}
  BY DEF Tree!Below, Tree!Nodes, Under
<1>4. Tree!SetName(s, name) =
        Tree!Moves(c, Tree!At(s, c, Tree!Becomes(c, u) \/ Tree!Fails(c, NOSPACE)))
  BY <1>3 DEF Tree!SetName, Tree!Nodes, Tree!NameOf, RenamedTree
<1> HIDE DEF c, t, u
<1>5. CASE Misordered(fdt, RsvSize) /\ Tree!Fails(c, BADLAYOUT) /\ Told(fdt')
  BY <1>4, <1>5 DEF Tree!Moves
<1>6. CASE ~Misordered(fdt, RsvSize) /\ Returns(c, w)
  <2>1. \/ s = Nowhere /\ w = Result(fdt, BADOFFSET)
        \/ s # Nowhere /\ Turns(fdt, w, u, 0)
        \/ s # Nowhere /\ w.ret = NOSPACE /\ w.fdt = fdt
    BY <1>1, <1>6, SetNameTurns DEF u
  <2>2. CASE s = Nowhere /\ w = Result(fdt, BADOFFSET)
    <3>1. Tree!Fails(c, BADOFFSET) /\ Told(fdt')
      BY <1>6, <2>2, RefusedFails DEF Result
    <3>. QED
      BY <1>4, <1>6, <2>2, <3>1 DEF Tree!Moves, Tree!At, Tree!Nowhere, Nowhere
  <2>3. CASE s # Nowhere /\ Turns(fdt, w, u, 0)
    <3>1. Tree!Becomes(c, u) /\ Told(fdt')
      BY <1>6, <2>3, TurnBecomes
    <3>. QED
      BY <1>4, <1>6, <2>3, <3>1 DEF Tree!Moves, Tree!At, Tree!Nowhere, Nowhere
  <2>4. CASE s # Nowhere /\ w.ret = NOSPACE /\ w.fdt = fdt
    <3>1. Tree!Fails(c, NOSPACE) /\ Told(fdt')
      BY <1>6, <2>4, RefusedFails
    <3>. QED
      BY <1>4, <1>6, <2>4, <3>1 DEF Tree!Moves, Tree!At, Tree!Nowhere, Nowhere
  <2>. QED
    BY <2>1, <2>2, <2>3, <2>4
<1>. QED
  BY <1>2, <1>5, <1>6, CheckedTold

LEMMA FourthIsLast ==
  ASSUME NEW f, NEW x, NEW y, NEW e
  PROVE  Append(<<f, x, y>>, e) = <<f, x, y, e>>
<1> DEFINE S == {f, x, y, e}
           r == Append(<<f, x, y>>, e)
           q == <<f, x, y, e>>
<1>1. <<f, x, y>> \in Seq(S) /\ e \in S /\ q \in Seq(S) /\ Len(q) = 4
  OBVIOUS
<1>2. Len(r) = 4 /\ r \in Seq(S)
  BY <1>1
<1>3. /\ r[1] = f /\ r[2] = x /\ r[3] = y /\ r[4] = e
      /\ q[1] = f /\ q[2] = x /\ q[3] = y /\ q[4] = e
  OBVIOUS
<1> HIDE DEF r, q, S
<1>4. \A i \in 1 .. 4 : r[i] = q[i]
  BY <1>3
<1>5. r = q
  BY <1>1, <1>2, <1>4, EqualSequences
<1>. QED
  BY <1>5 DEF r, q

LEMMA AddSubnodeEditsTree ==
  ASSUME Viewed, Told(fdt), NEW node \in Int, node >= 0 \/ node = BADOFFSET,
         NEW name \in NodeNames, NEW s, s = PathAt(node),
         NEW w, w = fdt_add_subnode(fdt, node, name),
         NEW r, r = Checked(fdt, w), NEW y, y = At(Contents(r.fdt), r.ret),
         Returns(<<"add_subnode", s, name, y>>,
                 [r EXCEPT !.ret = IF @ >= 0 THEN 0 ELSE @])
  PROVE  Tree!AddSubnode(s, name) /\ Told(fdt')
<1> DEFINE c == <<"add_subnode", s, name>>
           d == Append(c, Nowhere)
           t == view.tree
           z == [r EXCEPT !.ret = IF @ >= 0 THEN 0 ELSE @]
           Clash == \E q \in DOMAIN t : Clashes(s, q, name)
           child == Append(s, name)
<1>1. /\ Sound(fdt) /\ Ordered(fdt) /\ view = Contents(fdt)
      /\ t = Contents(fdt).tree /\ s = At(Contents(fdt), node)
      /\ DOMAIN view.at \subseteq Nat
  BY DEF Viewed, BlobIsSound, PathAt
<1>2. Returns(Append(c, y), z)
  BY FourthIsLast
<1>3. z.fdt = r.fdt /\ z.ret = IF r.ret >= 0 THEN 0 ELSE r.ret
  <2>1. "fdt" \in DOMAIN r /\ "ret" \in DOMAIN r
    BY DEF Checked, fdt_add_subnode, SpliceStruct, Splice, Result
  <2>. QED
    BY <2>1
<1>4. (\E q \in Tree!Children(s) : NodeNameEq(Tree!NameOf(q), name)) <=> Clash
  BY DEF Tree!Children, Tree!Below, Tree!Nodes, Tree!NameOf, Clashes, IsChild, Under
<1>5. Tree!AddSubnode(s, name) =
        Tree!Moves(d, Tree!At(s, d,
          IF Clash THEN Tree!Fails(d, EXISTS)
          ELSE \/ Tree!Becomes(Append(c, child), Put(t, child, << >>))
               \/ Tree!Fails(d, NOSPACE)))
  BY <1>4 DEF Tree!AddSubnode, Tree!Put, Put, Tree!Nowhere, Nowhere
<1> HIDE DEF c, d, t, z, Clash, child
<1>6. ASSUME NEW e \in Int, e < 0, r.fdt = fdt, r.ret = e
      PROVE  Tree!Fails(d, e) /\ Told(fdt')
  <2>1. y = Nowhere
    BY <1>1, <1>6 DEF At
  <2>2. z.fdt = fdt /\ z.ret = e
    BY <1>3, <1>6
  <2>. QED
    BY <1>2, <2>1, <2>2, RefusedFails DEF d
<1>7. CASE Misordered(fdt, RsvSize)
  <2>1. r.fdt = fdt /\ r.ret = BADLAYOUT
    BY <1>7 DEF Checked, Result
  <2>2. Tree!Fails(d, BADLAYOUT) /\ Told(fdt')
    BY <1>6, <2>1 DEF BADLAYOUT
  <2>. QED
    BY <1>5, <1>7, <2>2 DEF Tree!Moves
<1>8. CASE ~Misordered(fdt, RsvSize)
  <2>1. r = w
    BY <1>8 DEF Checked
  <2>2. \/ s = Nowhere /\ w = Result(fdt, BADOFFSET)
        \/ s # Nowhere /\ Clash /\ w = Result(fdt, EXISTS)
        \/ s # Nowhere /\ ~Clash /\ w.ret = NOSPACE /\ w.fdt = fdt
        \/ /\ s # Nowhere /\ ~Clash /\ w.ret >= 0
           /\ At(Contents(w.fdt), w.ret) = child
           /\ Turns(fdt, w, Put(t, child, << >>), w.ret)
    BY <1>1, <1>8, AddSubnodeTurns DEF Clash, child
  <2>3. CASE s = Nowhere /\ w = Result(fdt, BADOFFSET)
    <3>1. Tree!Fails(d, BADOFFSET) /\ Told(fdt')
      BY <1>6, <2>1, <2>3 DEF Result, BADOFFSET
    <3>. QED
      BY <1>5, <1>8, <2>3, <3>1 DEF Tree!Moves, Tree!At, Tree!Nowhere, Nowhere
  <2>4. CASE s # Nowhere /\ Clash /\ w = Result(fdt, EXISTS)
    <3>1. Tree!Fails(d, EXISTS) /\ Told(fdt')
      BY <1>6, <2>1, <2>4 DEF Result, EXISTS
    <3>. QED
      BY <1>5, <1>8, <2>4, <3>1 DEF Tree!Moves, Tree!At, Tree!Nowhere, Nowhere
  <2>5. CASE s # Nowhere /\ ~Clash /\ w.ret = NOSPACE /\ w.fdt = fdt
    <3>1. Tree!Fails(d, NOSPACE) /\ Told(fdt')
      BY <1>6, <2>1, <2>5 DEF NOSPACE
    <3>. QED
      BY <1>5, <1>8, <2>5, <3>1 DEF Tree!Moves, Tree!At, Tree!Nowhere, Nowhere
  <2>6. CASE /\ s # Nowhere /\ ~Clash /\ w.ret >= 0
             /\ At(Contents(w.fdt), w.ret) = child
             /\ Turns(fdt, w, Put(t, child, << >>), w.ret)
    <3>1. z.fdt = w.fdt /\ z.ret = 0 /\ y = child
      BY <1>3, <2>1, <2>6
    <3>2. Turns(fdt, z, Put(t, child, << >>), 0)
      BY <2>6, <3>1 DEF Turns
    <3>3. /\ Tree!Becomes(Append(c, child), Put(t, child, << >>))
          /\ Told(fdt')
      BY <1>2, <3>1, <3>2, TurnBecomes
    <3>. QED
      BY <1>5, <1>8, <2>6, <3>3 DEF Tree!Moves, Tree!At, Tree!Nowhere, Nowhere
  <2>. QED
    BY <2>2, <2>3, <2>4, <2>5, <2>6
<1>. QED
  BY <1>7, <1>8

(* Those that leave the structure block as it is.                          *)
LEMMA OthersStayTold ==
  ASSUME Viewed, Viewed', Told(fdt), AddMemRsv \/ DelMemRsv \/ Pack \/ OpenInto
  PROVE  Told(fdt')
<1>1. /\ Sound(fdt) /\ Ordered(fdt) /\ HasStruct(fdt)
      /\ fdt.size_dt_strings \in Nat /\ fdt.boot_cpuid_phys \in CpuIds
      /\ HasStruct(fdt') /\ Ordered(fdt') /\ fdt'.size_dt_strings \in Nat
  BY SoundIs, NumbersAre DEF Viewed, BlobIsSound
<1>2. ASSUME ReadAlike(fdt, fdt')  PROVE Told(fdt')
  <2> SUFFICES ASSUME NEW b, b = fdt, NEW d, d = fdt'  PROVE Told(d)
    OBVIOUS
  <2>1. /\ HasStruct(b) /\ Ordered(b) /\ Told(b) /\ HasStruct(d) /\ Ordered(d)
        /\ ReadAlike(b, d) /\ d.size_dt_strings \in Nat
    BY <1>1, <1>2
  <2>. QED
    BY <2>1, AlikeIsTold
<1>3. ASSUME NEW c, NEW w, Returns(c, Checked(fdt, w)),
             ~Misordered(fdt, RsvSize) => w.fdt = fdt \/ ReadAlike(fdt, w.fdt)
      PROVE  Told(fdt')
  <2>1. \/ Told(fdt')
        \/ ~Misordered(fdt, RsvSize) /\ Returns(c, w)
    BY <1>3, CheckedTold
  <2>. QED
    BY <1>2, <1>3, <2>1 DEF Returns
<1>4. CASE AddMemRsv
  <2>1. PICK address \in Addresses, size \in Sizes :
          Returns(<<"add_mem_rsv", address, size>>,
                  Checked(fdt, fdt_add_mem_rsv(fdt, address, size)))
    BY <1>4 DEF AddMemRsv
  <2> DEFINE w == fdt_add_mem_rsv(fdt, address, size)
  <2>2. ~Misordered(fdt, RsvSize) => w.fdt = fdt \/ ReadAlike(fdt, w.fdt)
    BY <1>1, AddMemRsvKeeps
  <2> HIDE DEF w
  <2>. QED
    BY <1>3, <2>1, <2>2 DEF w
<1>5. CASE DelMemRsv
  <2>1. PICK n \in 0 .. NumMemRsv(fdt) :
          Returns(<<"del_mem_rsv", n>>, Checked(fdt, fdt_del_mem_rsv(fdt, n)))
    BY <1>5 DEF DelMemRsv
  <2>2. n \in Nat
    BY <1>1, <2>1 DEF Sound, BlocksAreApart
  <2> DEFINE w == fdt_del_mem_rsv(fdt, n)
  <2>3. ~Misordered(fdt, RsvSize) => w.fdt = fdt \/ ReadAlike(fdt, w.fdt)
    BY <1>1, <2>2, DelMemRsvKeeps
  <2> HIDE DEF w
  <2>. QED
    BY <1>3, <2>1, <2>3 DEF w
<1>6. CASE Pack
  <2> DEFINE w == fdt_pack(fdt)
  <2>1. Returns(<<"pack">>, Checked(fdt, w))
    BY <1>6 DEF Pack
  <2>2. ~Misordered(fdt, RsvSize) => ReadAlike(fdt, w.fdt)
    BY <1>1, PackKeeps, SaysSameReads
  <2> HIDE DEF w
  <2>. QED
    BY <1>3, <2>1, <2>2
<1>7. CASE OpenInto
  <2>1. PICK w \in fdt_open_into(fdt, BUF_SIZE) : Returns(<<"open_into">>, w)
    BY <1>7 DEF OpenInto
  <2>2. ReadAlike(fdt, w.fdt)
    BY <1>1, OpenIntoKeeps, SaysSameReads
  <2>. QED
    BY <1>2, <2>1, <2>2 DEF Returns
<1>. QED
  BY <1>4, <1>5, <1>6, <1>7

LEMMA NextEditsTree ==
  ASSUME \A o \in BadOffsets : o >= 0 \/ o = BADOFFSET,
         Viewed, Told(fdt), [Next]_vars
  PROVE  [Tree!Next]_Tree!vars /\ Told(fdt)'
<1>1. NOTFOUND \notin BadOffsets
  BY DEF NOTFOUND, BADOFFSET
<1>2. Viewed'
  BY <1>1, NextKeepsViewed
<1>3. \A o \in Offsets : o \in Int /\ (o >= 0 \/ o = BADOFFSET)
  <2>1. DOMAIN view.at \subseteq Nat /\ BadOffsets \subseteq Int
    BY CallerAssumption DEF Viewed
  <2>2. \A o \in BadOffsets : o >= 0 \/ o = BADOFFSET
    OBVIOUS
  <2>3. Offsets = DOMAIN view.at \cup BadOffsets
    BY DEF Offsets
  <2>4. \A o \in Nat : o \in Int /\ o >= 0
    OBVIOUS
  <2>. QED
    BY <2>1, <2>2, <2>3, <2>4, Zenon
<1>4. \A o \in Offsets : PathAt(o) \in Tree!Targets
  BY <1>3, PathIsTarget
<1>5. \A val \in Values : val \in Seq(0 .. 255)
  BY TreeAssumption
<1> DEFINE Step == Tree!Next /\ Told(fdt')
<1>6. CASE UNCHANGED vars
  <2>1. UNCHANGED Tree!vars
    BY <1>6 DEF vars, Tree!vars, RsvMap, EntryAt, RsvSizeAt, NumMemRsv, Misordered
  <2>. QED
    BY <1>6, <2>1 DEF vars
<1>7. CASE SetProp
  <2>1. PICK node \in Offsets, name \in PropNames, val \in Values :
          Returns(<<"setprop", PathAt(node), name, val>>,
                  Checked(fdt, fdt_setprop(fdt, node, name, val)))
    BY <1>7 DEF SetProp
  <2>2. Tree!SetProp(PathAt(node), name, val) /\ Told(fdt')
    BY <1>3, <1>5, <2>1, SetPropEditsTree
  <2>. QED
    BY <1>4, <2>1, <2>2 DEF Tree!Next
<1>8. CASE AppendProp
  <2>1. PICK node \in Offsets, name \in PropNames, val \in Values :
          Returns(<<"appendprop", PathAt(node), name, val>>,
                  Checked(fdt, fdt_appendprop(fdt, node, name, val)))
    BY <1>8 DEF AppendProp
  <2>2. Tree!AppendProp(PathAt(node), name, val) /\ Told(fdt')
    BY <1>3, <1>5, <2>1, AppendPropEditsTree
  <2>. QED
    BY <1>4, <2>1, <2>2 DEF Tree!Next
<1>9. CASE DelProp
  <2>1. PICK node \in Offsets, name \in PropNames :
          Returns(<<"delprop", PathAt(node), name>>,
                  Checked(fdt, fdt_delprop(fdt, node, name)))
    BY <1>9 DEF DelProp
  <2>2. Tree!DelProp(PathAt(node), name) /\ Told(fdt')
    BY <1>3, <2>1, DelPropEditsTree
  <2>. QED
    BY <1>4, <2>1, <2>2 DEF Tree!Next
<1>10. CASE SetName
  <2>1. PICK node \in Offsets, name \in NodeNames :
          /\ Unique(node, name)
          /\ Returns(<<"set_name", PathAt(node), name>>,
                     Checked(fdt, fdt_set_name(fdt, node, name)))
    BY <1>10 DEF SetName
  <2>2. Tree!SetName(PathAt(node), name) /\ Told(fdt')
    BY <1>3, <2>1, SetNameEditsTree
  <2>. QED
    BY <1>4, <2>1, <2>2 DEF Tree!Next
<1>11. CASE AddSubnode
  <2>1. PICK node \in Offsets, name \in NodeNames :
          LET r == Checked(fdt, fdt_add_subnode(fdt, node, name))
          IN  Returns(<<"add_subnode", PathAt(node), name,
                        At(Contents(r.fdt), r.ret)>>,
                      [r EXCEPT !.ret = IF @ >= 0 THEN 0 ELSE @])
    BY <1>11 DEF AddSubnode
  <2>2. Tree!AddSubnode(PathAt(node), name) /\ Told(fdt')
    BY <1>3, <2>1, AddSubnodeEditsTree
  <2>. QED
    BY <1>4, <2>1, <2>2 DEF Tree!Next
<1>12. CASE DelNode
  <2>1. PICK node \in Offsets :
          Returns(<<"del_node", PathAt(node)>>,
                  Checked(fdt, fdt_del_node(fdt, node)))
    BY <1>12 DEF DelNode
  <2>2. Tree!DelNode(PathAt(node)) /\ Told(fdt')
    BY <1>3, <2>1, DelNodeEditsTree
  <2>. QED
    BY <1>4, <2>1, <2>2 DEF Tree!Next
<1>13. CASE SetPropInplace
  <2>1. PICK node \in Offsets, name \in PropNames, val \in Values :
          Returns(<<"setprop_inplace", PathAt(node), name, val>>,
                  fdt_setprop_inplace(fdt, node, name, val))
    BY <1>13 DEF SetPropInplace
  <2>2. Tree!SetPropInplace(PathAt(node), name, val) /\ Told(fdt')
    BY <1>3, <1>5, <2>1, SetPropInplaceEditsTree
  <2>. QED
    BY <1>4, <2>1, <2>2 DEF Tree!Next
<1>14. CASE NopProperty
  <2>1. PICK node \in Offsets, name \in PropNames :
          Returns(<<"nop_property", PathAt(node), name>>,
                  fdt_nop_property(fdt, node, name))
    BY <1>14 DEF NopProperty
  <2>2. Tree!NopProperty(PathAt(node), name) /\ Told(fdt')
    BY <1>3, <2>1, NopPropertyEditsTree
  <2>. QED
    BY <1>4, <2>1, <2>2 DEF Tree!Next
<1>15. CASE NopNode
  <2>1. PICK node \in Offsets :
          Returns(<<"nop_node", PathAt(node)>>, fdt_nop_node(fdt, node))
    BY <1>15 DEF NopNode
  <2>2. Tree!NopNode(PathAt(node)) /\ Told(fdt')
    BY <1>3, <2>1, NopNodeEditsTree
  <2>. QED
    BY <1>4, <2>1, <2>2 DEF Tree!Next
<1>16. CASE AddMemRsv
  BY <1>2, <1>16, AddMemRsvEditsTree, OthersStayTold DEF Tree!Next
<1>17. CASE DelMemRsv
  BY <1>2, <1>17, DelMemRsvEditsTree, OthersStayTold DEF Tree!Next
<1>18. CASE Pack
  BY <1>2, <1>18, PackEditsTree, OthersStayTold DEF Tree!Next
<1>19. CASE OpenInto
  BY <1>2, <1>19, OpenIntoEditsTree, OthersStayTold DEF Tree!Next
<1>. QED
  BY <1>6, <1>7, <1>8, <1>9, <1>10, <1>11, <1>12, <1>13, <1>14, <1>15, <1>16,
     <1>17, <1>18, <1>19 DEF Next

(* libfdt/fdt_rw.c and fdt_wip.c: whatever the blob, the names, the values *)
(* and the room in the buffer, every sequence of calls does to the tree    *)
(* what the functions promise: each call has its whole effect, on the node *)
(* that its offset is that of, or returns an error that is due and leaves  *)
(* tree and reservations as they were.  A wrong offset is one at which     *)
(* there is no node, or -FDT_ERR_BADOFFSET: another error in its place     *)
(* would be returned as it is, or taken for "no such subnode".             *)
THEOREM EditsAreOfTheTree ==
  ASSUME \A o \in BadOffsets : o >= 0 \/ o = BADOFFSET
  PROVE  Spec => EditsTheTree
<1> DEFINE Inv == Viewed /\ Told(fdt)
<1>1. Init => Inv /\ Tree!Init
  <2> SUFFICES ASSUME Init  PROVE Inv /\ Tree!Init
    OBVIOUS
  <2>1. Viewed
    BY ViewedFromInit
  <2>2. fdt \in Blobs /\ HasStruct(fdt)
    BY <2>1, SoundIs DEF Init, Viewed, BlobIsSound
  <2>3. Told(fdt)
    BY <2>2, TreeAssumption, PathsTell
  <2>. QED
    BY <2>1, <2>3 DEF Init, Tree!Init
<1>2. Inv /\ [Next]_vars => Inv'
  <2>1. NOTFOUND \notin BadOffsets
    BY DEF NOTFOUND, BADOFFSET
  <2>. QED
    BY <2>1, NextKeepsViewed, NextEditsTree
<1>3. Inv /\ [Next]_vars => [Tree!Next]_Tree!vars
  BY NextEditsTree
<1> HIDE DEF Inv
<1>. QED
  BY <1>1, <1>2, <1>3, PTL DEF Spec, EditsTheTree, Tree!Spec
=============================================================================
