----------------------------- MODULE FdtRwProofs -----------------------------
(***************************************************************************)
(* What the operators that edit a blob do to it, for every blob: to its    *)
(* cells, to the tags of its structure block and what a reader of them     *)
(* finds, and to the blob as a whole, which every function leaves sound    *)
(* and with its tags in order.                                             *)
(***************************************************************************)
EXTENDS FdtRw, Recursion

-----------------------------------------------------------------------------
(* Cells.                                                                  *)

BlobFields ==
  {"magic", "mem", "totalsize", "off_mem_rsvmap", "off_dt_struct",
   "size_dt_struct", "off_dt_strings", "size_dt_strings", "boot_cpuid_phys"}

IsBlob(b) ==
  /\ DOMAIN b = BlobFields
  /\ {b.totalsize, b.off_mem_rsvmap, b.off_dt_struct, b.size_dt_struct,
      b.off_dt_strings, b.size_dt_strings} \subseteq Nat

-----------------------------------------------------------------------------
(* Lengths.                                                                *)

(* FDT_TAGALIGN goes up.                                                   *)
LEMMA Aligned ==
  ASSUME NEW n \in Nat
  PROVE  TagAlign(n) \in Nat /\ TagAlign(n) >= n
<1>1. -n \in Int
  OBVIOUS
<1>2. (-n) % FDT_TAGSIZE \in 0 .. FDT_TAGSIZE - 1
  BY <1>1, SizesAssumption
<1>. QED
  BY <1>2, SizesAssumption DEF TagAlign

IsSequence(s) == \E S : s \in Seq(S)

(* Two sequences, one behind the other.                                    *)
LEMMA Joined ==
  ASSUME NEW s, NEW t, IsSequence(s), IsSequence(t)
  PROVE  /\ IsSequence(s \o t) /\ Len(s \o t) = Len(s) + Len(t)
         /\ \A i \in 1 .. Len(t) : (s \o t)[Len(s) + i] = t[i]
<1>1. PICK A : s \in Seq(A)
  BY DEF IsSequence
<1>2. PICK B : t \in Seq(B)
  BY DEF IsSequence
<1>3. s \in Seq(A \cup B) /\ t \in Seq(A \cup B)
  BY <1>1, <1>2
<1>4. s \o t \in Seq(A \cup B) /\ Len(s \o t) = Len(s) + Len(t)
  BY <1>3
<1>5. \A i \in 1 .. Len(t) : (s \o t)[Len(s) + i] = t[i]
  BY <1>3
<1>. QED
  BY <1>4, <1>5 DEF IsSequence

(* The cells of a datum.                                                   *)
LEMMA CellsAre ==
  ASSUME NEW c, NEW n \in Nat
  PROVE  IsSequence(Cells(c, n)) /\ Len(Cells(c, n)) = n
<1>1. Cells(c, n) \in Seq({c, Rest}) /\ Len(Cells(c, n)) = n
  BY DEF Cells
<1>. QED
  BY <1>1 DEF IsSequence

(* The cells of a value.                                                   *)
LEMMA BytesAre ==
  ASSUME NEW val, Len(val) \in Nat
  PROVE  IsSequence(Bytes(val)) /\ Len(Bytes(val)) = Len(val)
<1> DEFINE S == {<<"byte", val[i]>> : i \in 1 .. Len(val)}
<1>1. Bytes(val) \in Seq(S) /\ Len(Bytes(val)) = Len(val)
  BY DEF Bytes
<1>. QED
  BY <1>1 DEF IsSequence

(* The cells of a word.                                                    *)
LEMMA WordIs ==
  ASSUME NEW kind, NEW v
  PROVE  IsSequence(Word(kind, v)) /\ Len(Word(kind, v)) = FDT_TAGSIZE
BY CellsAre, SizesAssumption DEF Word

(* The cells of a name.                                                    *)
LEMMA NameCellsAre ==
  ASSUME NEW name \in NodeNames
  PROVE  IsSequence(NameCells(name)) /\ Len(NameCells(name)) \in Nat
<1> DEFINE n == TagAlign(NodeLength[name] + 1)
<1>1. n \in Nat
  BY Aligned, NamesAssumption
<1>. QED
  BY <1>1, CellsAre DEF NameCells

(* The cells of a reservation.                                             *)
LEMMA ReservationIs ==
  ASSUME NEW address, NEW size
  PROVE  LET r == Reservation(address, size)
         IN  /\ IsSequence(r) /\ Len(r) = RsvSize
             /\ r[2 * FDT_TAGSIZE + 1] = <<"size", size>>
<1> DEFINE n == 2 * FDT_TAGSIZE
           a == Cells(<<"address", address>>, n)
           s == Cells(<<"size", size>>, n)
<1>1. n \in Nat \ {0} /\ n + n = RsvSize
  <2>1. FDT_TAGSIZE \in Nat /\ FDT_TAGSIZE > 0
    BY SizesAssumption
  <2>. QED
    BY <2>1 DEF RsvSize
<1> HIDE DEF n
<1>2. IsSequence(a) /\ IsSequence(s) /\ Len(a) = n /\ Len(s) = n
  BY <1>1, CellsAre
<1>3. s[1] = <<"size", size>>
  BY <1>1 DEF Cells
<1> HIDE DEF a, s
<1>4. IsSequence(a \o s) /\ Len(a \o s) = n + n /\ (a \o s)[n + 1] = s[1]
  BY <1>1, <1>2, Joined
<1>. QED
  BY <1>1, <1>3, <1>4 DEF Reservation, a, s, n

-----------------------------------------------------------------------------
(* Poke and Memmove write what they are to, and nothing else.              *)

(* What Poke writes, and what it leaves alone.                             *)
LEMMA PokeIs ==
  ASSUME NEW b, DOMAIN b = BlobFields, NEW address, NEW cells
  PROVE  LET p == Poke(b, address, cells)
         IN  /\ DOMAIN p = BlobFields
             /\ \A f \in BlobFields \ {"mem"} : p[f] = b[f]
             /\ DOMAIN p.mem = Span(address, Len(cells)) \cup DOMAIN b.mem
             /\ \A a \in Span(address, Len(cells)) :
                  p.mem[a] = cells[a - address + 1]
             /\ \A a \in DOMAIN b.mem \ Span(address, Len(cells)) :
                  p.mem[a] = b.mem[a]
BY DEF Poke, BlobFields

(* What memmove moves, and what it leaves alone.                           *)
LEMMA MemmoveIs ==
  ASSUME NEW mem, NEW dst, NEW src, NEW len
  PROVE  LET m == Memmove(mem, dst, src, len)
         IN  /\ DOMAIN m = Span(dst, len) \cup DOMAIN mem
             /\ \A a \in Span(dst, len) : m[a] = mem[a - dst + src]
             /\ \A a \in DOMAIN mem \ Span(dst, len) : m[a] = mem[a]
BY DEF Memmove

(* _fdt_packblocks puts the blocks one behind the other.                   *)
LEMMA PackBlocksIs ==
  ASSUME NEW b, DOMAIN b = BlobFields, NEW base
  PROVE  LET p == PackBlocks(b, base)
         IN  /\ DOMAIN p = BlobFields
             /\ p.off_mem_rsvmap = HEADER_SIZE
             /\ p.off_dt_struct = HEADER_SIZE + MapSize(b)
             /\ p.off_dt_strings = HEADER_SIZE + MapSize(b) + b.size_dt_struct
             /\ p.size_dt_struct = b.size_dt_struct
             /\ p.size_dt_strings = b.size_dt_strings
             /\ p.magic = b.magic
             /\ DOMAIN b.mem \subseteq DOMAIN p.mem
<1> DEFINE rsv_off == HEADER_SIZE
           struct_off  == rsv_off + MapSize(b)
           strings_off == struct_off + b.size_dt_struct
           mem1 == Memmove(b.mem, base + rsv_off, b.off_mem_rsvmap, MapSize(b))
           mem2 == Memmove(mem1, base + struct_off, b.off_dt_struct,
                           b.size_dt_struct)
           mem3 == Memmove(mem2, base + strings_off, b.off_dt_strings,
                           b.size_dt_strings)
<1>1. PackBlocks(b, base) =
        [b EXCEPT !.mem = mem3, !.off_mem_rsvmap = rsv_off,
                  !.off_dt_struct = struct_off, !.off_dt_strings = strings_off]
  BY DEF PackBlocks
<1>2. DOMAIN b.mem \subseteq DOMAIN mem1
  BY DEF Memmove
<1> HIDE DEF mem1
<1>3. DOMAIN mem1 \subseteq DOMAIN mem2
  BY DEF Memmove
<1> HIDE DEF mem2
<1>4. DOMAIN mem2 \subseteq DOMAIN mem3
  BY DEF Memmove
<1> HIDE DEF mem3
<1>. QED
  BY <1>1, <1>2, <1>3, <1>4 DEF BlobFields

-----------------------------------------------------------------------------
(* The map of reservations.                                                *)

(* Counting from one entry to the next is a definition: the function that  *)
(* says which is the first entry of size 0 from each one on is as NumMemRsv*)
(* has it.                                                                 *)
LEMMA CountIsDefined ==
  ASSUME NEW b
  PROVE  \E f : f = [n \in Nat |->
                       IF RsvSizeAt(b, n) = 0 THEN n ELSE f[n + 1]]
<1> DEFINE Ends(n) == {m \in Nat : n <= m /\ RsvSizeAt(b, m) = 0}
           IsFirst(n, e) == e \in Ends(n) /\ \A m \in Ends(n) : e <= m
           f == [n \in Nat |-> IF Ends(n) = {} THEN 0
                               ELSE CHOOSE e \in Nat : IsFirst(n, e)]
           g == [n \in Nat |-> IF RsvSizeAt(b, n) = 0 THEN n ELSE f[n + 1]]
<1>1. ASSUME NEW n \in Nat, Ends(n) # {}
      PROVE  \E e \in Nat : IsFirst(n, e)
  BY <1>1, LeastNumber, Ends(n) \subseteq Nat
<1>2. ASSUME NEW n \in Nat, NEW e \in Nat, IsFirst(n, e)
      PROVE  f[n] = e
  <2>1. Ends(n) # {}
    BY <1>2
  <2>2. \A d \in Nat : IsFirst(n, d) => d = e
    BY <1>2
  <2>3. (CHOOSE d \in Nat : IsFirst(n, d)) = e
    <3> DEFINE P(d) == IsFirst(n, d)
    <3>1. P(e) /\ \A d \in Nat : P(d) => d = e
      BY <1>2, <2>2
    <3> HIDE DEF P
    <3>2. (CHOOSE d \in Nat : P(d)) = e
      BY <3>1
    <3>. QED
      BY <3>2 DEF P
  <2>. QED
    BY <2>1, <2>3
<1>3. ASSUME NEW n \in Nat, Ends(n) = {}
      PROVE  f[n] = 0
  BY <1>3
<1> HIDE DEF f
<1>4. ASSUME NEW n \in Nat
      PROVE  f[n] = g[n]
  <2>1. CASE RsvSizeAt(b, n) = 0
    <3>1. IsFirst(n, n)
      BY <2>1
    <3>. QED
      BY <3>1, <2>1, <1>2
  <2>2. CASE RsvSizeAt(b, n) # 0
    <3>1. Ends(n) = Ends(n + 1)
      BY <2>2
    <3>2. CASE Ends(n) = {}
      <4>1. f[n] = 0 /\ f[n + 1] = 0
        BY <3>1, <3>2, <1>3, n + 1 \in Nat
      <4>. QED
        BY <4>1, <2>2
    <3>3. CASE Ends(n) # {}
      <4>1. PICK e \in Nat : IsFirst(n, e)
        BY <3>3, <1>1
      <4>2. IsFirst(n + 1, e)
        BY <4>1, <3>1
      <4>3. f[n] = e /\ f[n + 1] = e
        BY <4>1, <4>2, <1>2, n + 1 \in Nat
      <4>. QED
        BY <4>3, <2>2
    <3>. QED
      BY <3>2, <3>3
  <2>. QED
    BY <2>1, <2>2
<1>5. f = g
  <2>1. f = [n \in Nat |-> f[n]]
    BY DEF f
  <2>. QED
    BY <2>1, <1>4
<1>. QED
  BY <1>5

(* fdt_num_mem_rsv finds the first entry of size 0.                        *)
THEOREM CountsReservations ==
  ASSUME NEW b, NEW n \in Nat, RsvSizeAt(b, n) = 0,
         \A m \in 0 .. n - 1 : RsvSizeAt(b, m) # 0
  PROVE  NumMemRsv(b) = n
<1> DEFINE Body(f) == [k \in Nat |->
                         IF RsvSizeAt(b, k) = 0 THEN k ELSE f[k + 1]]
           Count == CHOOSE f : f = Body(f)
<1>1. Count = Body(Count)
  BY CountIsDefined
<1>2. NumMemRsv(b) = Count[0]
  BY DEF NumMemRsv
<1> HIDE DEF Count
<1>3. \A k \in Nat : Count[k] = IF RsvSizeAt(b, k) = 0 THEN k ELSE Count[k + 1]
  BY <1>1
<1> DEFINE Wrong == {j \in Nat : j <= n /\ Count[n - j] # n}
<1>4. Wrong = {}
  <2> SUFFICES ASSUME Wrong # {} PROVE FALSE
    OBVIOUS
  <2>1. PICK j \in Wrong : \A i \in Wrong : j <= i
    BY LeastNumber, Wrong \subseteq Nat
  <2>2. n - j \in Nat /\ Count[n - j] # n /\ j \in Nat /\ j <= n
    BY <2>1
  <2>3. CASE j = 0
    BY <2>2, <2>3, <1>3
  <2>4. CASE j # 0
    <3>1. j - 1 \in Nat /\ ~(j - 1 \in Wrong)
      BY <2>1, <2>2, <2>4
    <3>2. Count[n - (j - 1)] = n
      BY <3>1, <2>2
    <3>3. RsvSizeAt(b, n - j) # 0
      BY <2>2, <2>4
    <3>4. n - (j - 1) = n - j + 1
      BY <2>2
    <3>. QED
      BY <2>2, <3>2, <3>3, <3>4, <1>3
  <2>. QED
    BY <2>3, <2>4
<1>5. Count[n - n] = n
  BY <1>4, n <= n
<1>. QED
  BY <1>2, <1>5

-----------------------------------------------------------------------------
(* Multiples of FDT_TAGSIZE.                                               *)

(* The size of a tag as a number to calculate with.                        *)
LEMMA TagSizeIs == FDT_TAGSIZE \in Nat /\ FDT_TAGSIZE > 0
BY SizesAssumption

(* Quotient and remainder.                                                 *)
LEMMA Divided ==
  ASSUME NEW n \in Int
  PROVE  /\ n \div FDT_TAGSIZE \in Int /\ n % FDT_TAGSIZE \in 0 .. FDT_TAGSIZE - 1
         /\ n = FDT_TAGSIZE * (n \div FDT_TAGSIZE) + (n % FDT_TAGSIZE)
BY TagSizeIs

(* There is one quotient, and one remainder.                               *)
LEMMA OneRemainder ==
  ASSUME NEW T \in Nat, T > 0, NEW q \in Int, NEW r \in 0 .. T - 1,
         NEW p \in Int, NEW s \in 0 .. T - 1, T * q + r = T * p + s
  PROVE  r = s /\ q = p
<1>1. ASSUME NEW a \in Int, NEW b \in Int, a < b  PROVE T * a + T <= T * b
  <2>1. b - a - 1 \in Nat
    BY <1>1
  <2>2. T * (b - a - 1) >= 0
    BY <2>1
  <2>3. T * (b - a - 1) = T * b - T * a - T
    OBVIOUS
  <2>. QED
    BY <2>2, <2>3
<1>2. T * q \in Int /\ T * p \in Int
  OBVIOUS
<1>3. ~(q < p)
  BY <1>1, <1>2
<1>4. ~(p < q)
  BY <1>1, <1>2
<1>. QED
  BY <1>3, <1>4

(* The remainder of a number so written.                                   *)
LEMMA Remainder ==
  ASSUME NEW q \in Int, NEW r \in 0 .. FDT_TAGSIZE - 1
  PROVE  (FDT_TAGSIZE * q + r) % FDT_TAGSIZE = r
<1> DEFINE n == FDT_TAGSIZE * q + r
<1>1. n \in Int
  BY TagSizeIs
<1>2. /\ n \div FDT_TAGSIZE \in Int /\ n % FDT_TAGSIZE \in 0 .. FDT_TAGSIZE - 1
      /\ n = FDT_TAGSIZE * (n \div FDT_TAGSIZE) + (n % FDT_TAGSIZE)
  BY <1>1, Divided
<1>. QED
  BY <1>2, OneRemainder, TagSizeIs

IsMultiple(n) == n \in Int /\ n % FDT_TAGSIZE = 0

(* What is a multiple.                                                     *)
LEMMA MultipleIs ==
  ASSUME NEW n
  PROVE  IsMultiple(n) <=> \E q \in Int : n = FDT_TAGSIZE * q
<1>1. ASSUME IsMultiple(n)  PROVE \E q \in Int : n = FDT_TAGSIZE * q
  BY <1>1, Divided, TagSizeIs DEF IsMultiple
<1>2. ASSUME NEW q \in Int, n = FDT_TAGSIZE * q  PROVE IsMultiple(n)
  <2>1. 0 \in 0 .. FDT_TAGSIZE - 1
    BY TagSizeIs
  <2>2. (FDT_TAGSIZE * q + 0) % FDT_TAGSIZE = 0
    BY <2>1, Remainder
  <2>3. FDT_TAGSIZE * q \in Int /\ FDT_TAGSIZE * q + 0 = FDT_TAGSIZE * q
    BY TagSizeIs
  <2>. QED
    BY <1>2, <2>2, <2>3 DEF IsMultiple
<1>. QED
  BY <1>1, <1>2

(* Sums and differences of multiples are some, and two of them are         *)
(* FDT_TAGSIZE apart.                                                      *)
LEMMA Multiples ==
  /\ IsMultiple(0) /\ IsMultiple(FDT_TAGSIZE)
  /\ \A m, n : IsMultiple(m) /\ IsMultiple(n) =>
       /\ IsMultiple(m + n) /\ IsMultiple(m - n)
       /\ m < n => m + FDT_TAGSIZE <= n
<1>1. IsMultiple(0) /\ IsMultiple(FDT_TAGSIZE)
  <2>1. 0 = FDT_TAGSIZE * 0 /\ FDT_TAGSIZE = FDT_TAGSIZE * 1
    BY TagSizeIs
  <2>. QED
    BY <2>1, MultipleIs
<1>2. ASSUME NEW m, NEW n, IsMultiple(m), IsMultiple(n)
      PROVE  /\ IsMultiple(m + n) /\ IsMultiple(m - n)
             /\ m < n => m + FDT_TAGSIZE <= n
  <2>1. PICK p \in Int : m = FDT_TAGSIZE * p
    BY <1>2, MultipleIs
  <2>2. PICK q \in Int : n = FDT_TAGSIZE * q
    BY <1>2, MultipleIs
  <2>3. /\ m + n = FDT_TAGSIZE * (p + q) /\ m - n = FDT_TAGSIZE * (p - q)
        /\ n - m = FDT_TAGSIZE * (q - p)
    BY <2>1, <2>2, TagSizeIs
  <2>4. IsMultiple(m + n) /\ IsMultiple(m - n)
    BY <2>3, MultipleIs
  <2>5. ASSUME m < n  PROVE m + FDT_TAGSIZE <= n
    <3>1. m \in Int /\ n \in Int
      BY <1>2 DEF IsMultiple
    <3>2. ~(q - p <= 0)
      <4>1. ASSUME q - p <= 0  PROVE FDT_TAGSIZE * (q - p) <= 0
        <5>1. p - q \in Nat
          BY <4>1
        <5>2. FDT_TAGSIZE * (p - q) >= 0
          BY <5>1, TagSizeIs
        <5>3. FDT_TAGSIZE * (q - p) = -(FDT_TAGSIZE * (p - q))
          BY TagSizeIs
        <5>. QED
          BY <5>2, <5>3, TagSizeIs
      <4>. QED
        BY <2>3, <2>5, <3>1, <4>1
    <3>3. q - p - 1 \in Nat
      BY <3>2
    <3>4. FDT_TAGSIZE * (q - p - 1) >= 0
      BY <3>3, TagSizeIs
    <3>5. FDT_TAGSIZE * (q - p - 1) = FDT_TAGSIZE * (q - p) - FDT_TAGSIZE
      BY TagSizeIs
    <3>. QED
      BY <2>3, <3>1, <3>4, <3>5, TagSizeIs
  <2>. QED
    BY <2>4, <2>5
<1>. QED
  BY <1>1, <1>2

(* FDT_TAGALIGN goes up to the next multiple.                              *)
LEMMA AlignIs ==
  ASSUME NEW n \in Int
  PROVE  /\ IsMultiple(TagAlign(n)) /\ n <= TagAlign(n)
         /\ TagAlign(n) < n + FDT_TAGSIZE
<1>1. -n \in Int
  OBVIOUS
<1>2. /\ (-n) \div FDT_TAGSIZE \in Int
      /\ (-n) % FDT_TAGSIZE \in 0 .. FDT_TAGSIZE - 1
      /\ -n = FDT_TAGSIZE * ((-n) \div FDT_TAGSIZE) + ((-n) % FDT_TAGSIZE)
  BY <1>1, Divided
<1> DEFINE q == (-n) \div FDT_TAGSIZE
           r == (-n) % FDT_TAGSIZE
<1>3. q \in Int /\ r \in 0 .. FDT_TAGSIZE - 1 /\ -n = FDT_TAGSIZE * q + r
  BY <1>2
<1>4. TagAlign(n) = n + r
  BY DEF TagAlign
<1> HIDE DEF q, r
<1>5. n + r = FDT_TAGSIZE * (-q)
  BY <1>3, TagSizeIs
<1>6. IsMultiple(n + r)
  BY <1>3, <1>5, MultipleIs
<1>. QED
  BY <1>3, <1>4, <1>6, TagSizeIs

(* The next multiple is the only one so near.                              *)
LEMMA OneAlignment ==
  ASSUME NEW n \in Int, NEW m, IsMultiple(m), n <= m, m < n + FDT_TAGSIZE
  PROVE  TagAlign(n) = m
<1>1. /\ IsMultiple(TagAlign(n)) /\ n <= TagAlign(n)
      /\ TagAlign(n) < n + FDT_TAGSIZE
  BY AlignIs
<1>2. m \in Int /\ TagAlign(n) \in Int
  BY <1>1 DEF IsMultiple
<1>3. ~(TagAlign(n) < m) /\ ~(m < TagAlign(n))
  <2>1. TagAlign(n) < m => TagAlign(n) + FDT_TAGSIZE <= m
    BY <1>1, Multiples
  <2>2. m < TagAlign(n) => m + FDT_TAGSIZE <= TagAlign(n)
    BY <1>1, Multiples
  <2>. QED
    BY <1>1, <1>2, <2>1, <2>2, TagSizeIs
<1>. QED
  BY <1>2, <1>3

(* No multiple lies between a number and its alignment.                    *)
LEMMA AlignIsLeast ==
  ASSUME NEW n \in Int, NEW m, IsMultiple(m), n <= m
  PROVE  TagAlign(n) <= m
<1>1. m \in Int /\ TagAlign(n) \in Int /\ IsMultiple(TagAlign(n))
  BY AlignIs DEF IsMultiple
<1>2. TagAlign(n) < n + FDT_TAGSIZE
  BY AlignIs
<1>3. m < n + FDT_TAGSIZE => TagAlign(n) = m
  BY OneAlignment
<1>. QED
  BY <1>1, <1>2, <1>3, TagSizeIs

(* A multiple is its own alignment.                                        *)
LEMMA AlignedStays ==
  ASSUME NEW m, IsMultiple(m)
  PROVE  TagAlign(m) = m
<1>1. m \in Int /\ m <= m /\ m < m + FDT_TAGSIZE
  BY TagSizeIs DEF IsMultiple
<1>. QED
  BY <1>1, OneAlignment

(* Alignment does not see multiples that are added.                        *)
LEMMA AlignmentMoves ==
  ASSUME NEW n \in Int, NEW d, IsMultiple(d)
  PROVE  TagAlign(d + n) = d + TagAlign(n)
<1>1. /\ IsMultiple(TagAlign(n)) /\ n <= TagAlign(n)
      /\ TagAlign(n) < n + FDT_TAGSIZE
  BY AlignIs
<1>2. IsMultiple(d + TagAlign(n))
  BY <1>1, Multiples
<1>3. d \in Int /\ TagAlign(n) \in Int
  BY <1>1 DEF IsMultiple
<1>4. d + n \in Int /\ d + n <= d + TagAlign(n) /\ d + TagAlign(n) < (d + n) + FDT_TAGSIZE
  BY <1>1, <1>3, TagSizeIs
<1>. QED
  BY <1>2, <1>4, OneAlignment

-----------------------------------------------------------------------------
(* Tags.                                                                   *)

TagKinds == {"BEGIN_NODE", "END_NODE", "PROP", "NOP", "END"}

(* A blob whose structure block is sound, and has sizes.                   *)
HasStruct(b) ==
  /\ b.size_dt_struct \in Nat /\ b.size_dt_strings \in Nat
  /\ StructIsSound(b)

TagOf(b, o) == Struct(b, o)[2]

LengthAt(b, o) == TagLength(b, o, TagOf(b, o))

(* A tag takes its own size and what belongs to it.                        *)
LEMMA TagLengthIs ==
  ASSUME NEW b, NEW o,
         TagOf(b, o) = "BEGIN_NODE" => NodeName(b, o) \in NodeNames,
         TagOf(b, o) = "PROP" => PropLen(b, o) \in Nat
  PROVE  LengthAt(b, o) \in Nat /\ LengthAt(b, o) >= FDT_TAGSIZE
<1>1. CASE TagOf(b, o) = "BEGIN_NODE"
  <2>1. LengthAt(b, o) = FDT_TAGSIZE + NodeLength[NodeName(b, o)] + 1
    BY <1>1 DEF LengthAt, TagLength
  <2>2. NodeLength[NodeName(b, o)] \in Nat
    BY <1>1, NamesAssumption
  <2>. QED
    BY <2>1, <2>2, TagSizeIs
<1>2. CASE TagOf(b, o) = "PROP"
  <2>1. LengthAt(b, o) = PropHeader + PropLen(b, o)
    BY <1>2 DEF LengthAt, TagLength
  <2>2. PropHeader \in Nat /\ PropHeader >= FDT_TAGSIZE
    BY TagSizeIs DEF PropHeader
  <2>. QED
    BY <1>2, <2>1, <2>2, TagSizeIs
<1>3. CASE TagOf(b, o) \notin {"BEGIN_NODE", "PROP"}
  <2>1. LengthAt(b, o) = FDT_TAGSIZE
    BY <1>3 DEF LengthAt, TagLength
  <2>. QED
    BY <2>1, TagSizeIs
<1>. QED
  BY <1>1, <1>2, <1>3

(* A tag of a sound block and where what belongs to it ends.               *)
LEMMA TagAt ==
  ASSUME NEW b, HasStruct(b), NEW o \in Tags(b)
  PROVE  /\ o \in Nat /\ IsMultiple(o) /\ o + FDT_TAGSIZE <= b.size_dt_struct
         /\ TagOf(b, o) \in TagKinds
         /\ LengthAt(b, o) \in Nat /\ LengthAt(b, o) >= FDT_TAGSIZE
         /\ Following(b, o) \in Nat /\ IsMultiple(Following(b, o))
         /\ o + LengthAt(b, o) <= Following(b, o)
         /\ Following(b, o) < o + LengthAt(b, o) + FDT_TAGSIZE
         /\ Following(b, o) <= b.size_dt_struct
<1>1. b.size_dt_struct \in Nat /\ b.size_dt_strings \in Nat /\ TagIsSound(b, o)
  BY DEF HasStruct, StructIsSound
<1>2. IsMultiple(b.size_dt_struct)
  BY <1>1 DEF HasStruct, StructIsSound, IsMultiple
<1>3. o \in Nat /\ IsMultiple(o) /\ o < b.size_dt_struct
  BY <1>1 DEF Tags, IsMultiple
<1>4. o + FDT_TAGSIZE <= b.size_dt_struct
  BY <1>2, <1>3, Multiples
<1>5. /\ TagOf(b, o) \in TagKinds
      /\ TagOf(b, o) = "BEGIN_NODE" => NodeName(b, o) \in NodeNames
      /\ TagOf(b, o) = "PROP" => PropLen(b, o) \in Nat
  BY <1>1 DEF TagIsSound, TagOf, TagKinds
<1>6. LengthAt(b, o) \in Nat /\ LengthAt(b, o) >= FDT_TAGSIZE
  BY <1>5, TagLengthIs
<1>7. Following(b, o) = TagAlign(o + LengthAt(b, o))
  BY DEF Following, LengthAt, TagOf
<1>8. o + LengthAt(b, o) \in Int
  BY <1>3, <1>6
<1>9. /\ IsMultiple(Following(b, o)) /\ o + LengthAt(b, o) <= Following(b, o)
      /\ Following(b, o) < o + LengthAt(b, o) + FDT_TAGSIZE
  BY <1>7, <1>8, AlignIs
<1>10. Following(b, o) \in Int
  BY <1>9 DEF IsMultiple
<1>11. Following(b, o) \in Nat
  BY <1>3, <1>6, <1>9, <1>10
<1>12. Following(b, o) <= b.size_dt_struct
  <2>1. \/ Following(b, o) = b.size_dt_struct
        \/ Following(b, o) \in Tags(b)
    BY <1>1 DEF TagIsSound
  <2>. QED
    BY <1>1, <2>1 DEF Tags
<1>. QED
  BY <1>3, <1>4, <1>5, <1>6, <1>9, <1>11, <1>12

(* fdt_next_tag gives the tag and the offset of the next.                  *)
LEMMA NextTagIs ==
  ASSUME NEW b, HasStruct(b), NEW o \in Tags(b)
  PROVE  NextTag(b, o) = [tag |-> TagOf(b, o), next |-> Following(b, o)]
<1> DEFINE cell == Struct(b, o)
           end == o + TagLength(b, o, cell[2])
<1>1. b.size_dt_struct \in Nat
  BY DEF HasStruct
<1>2. /\ o \in Nat /\ o + FDT_TAGSIZE <= b.size_dt_struct
      /\ LengthAt(b, o) \in Nat /\ Following(b, o) \in Nat
      /\ o + LengthAt(b, o) <= Following(b, o)
      /\ Following(b, o) <= b.size_dt_struct
  BY TagAt
<1>3. cell[1] = "tag"
  BY DEF Tags
<1>4. end = o + LengthAt(b, o) /\ cell[2] = TagOf(b, o)
      /\ TagAlign(end) = Following(b, o)
  BY DEF LengthAt, TagOf, Following
<1>5. ~(end > b.size_dt_struct)
  BY <1>1, <1>2, <1>4
<1>6. ~(o < 0 \/ o + FDT_TAGSIZE > b.size_dt_struct)
  BY <1>1, <1>2, TagSizeIs
<1>7. NextTag(b, o) = [tag |-> cell[2], next |-> TagAlign(end)]
  <2> HIDE DEF cell
  <2>1. NextTag(b, o) =
          IF o < 0 \/ o + FDT_TAGSIZE > b.size_dt_struct
            THEN [tag |-> "END", next |-> TRUNCATED]
          ELSE IF cell[1] # "tag" \/ end > b.size_dt_struct
            THEN [tag |-> "END", next |-> BADSTRUCTURE]
          ELSE [tag |-> cell[2], next |-> TagAlign(end)]
    BY DEF NextTag, cell
  <2> HIDE DEF end
  <2>. QED
    BY <2>1, <1>3, <1>5, <1>6
<1>. QED
  BY <1>4, <1>7

(* A walk that is not at a tag ends there.                                 *)
LEMMA NoTagIs ==
  ASSUME NEW b, HasStruct(b), NEW o \in WalkOffsets, o \notin Tags(b)
  PROVE  NextTag(b, o).tag = "END" /\ NextTag(b, o).next \in Int
         /\ NextTag(b, o).next < 0
<1> DEFINE cell == Struct(b, o)
           end == o + TagLength(b, o, cell[2])
           size == b.size_dt_struct
<1>1. NextTag(b, o) =
          IF o < 0 \/ o + FDT_TAGSIZE > size
            THEN [tag |-> "END", next |-> TRUNCATED]
          ELSE IF cell[1] # "tag" \/ end > size
            THEN [tag |-> "END", next |-> BADSTRUCTURE]
          ELSE [tag |-> cell[2], next |-> TagAlign(end)]
  BY DEF NextTag
<1>2. size \in Nat /\ o \in Int
  BY DEF HasStruct, WalkOffsets
<1>3. o < 0 \/ o + FDT_TAGSIZE > size \/ cell[1] # "tag"
  <2> SUFFICES ASSUME ~(o < 0), ~(o + FDT_TAGSIZE > size) PROVE cell[1] # "tag"
    OBVIOUS
  <2>1. o % FDT_TAGSIZE = 0 /\ o \in 0 .. size - 1
    BY <1>2, TagSizeIs DEF WalkOffsets
  <2>. QED
    BY <2>1 DEF Tags
<1> HIDE DEF cell, end, size
<1>. QED
  BY <1>1, <1>3 DEF TRUNCATED, BADSTRUCTURE

(* What follows a tag is one, if it is not the end.                        *)
LEMMA FollowingIs ==
  ASSUME NEW b, HasStruct(b), NEW o \in Tags(b), TagOf(b, o) # "END"
  PROVE  /\ Following(b, o) \in Tags(b) /\ Following(b, o) > o
         /\ \A t \in Tags(b) : t > o => t >= Following(b, o)
<1>1. /\ o \in Nat /\ Following(b, o) \in Nat
      /\ LengthAt(b, o) \in Nat /\ LengthAt(b, o) >= FDT_TAGSIZE
      /\ o + LengthAt(b, o) <= Following(b, o)
  BY TagAt
<1>2. /\ Following(b, o) \in Tags(b)
      /\ Tags(b) \cap (o + 1 .. Following(b, o) - 1) = {}
  BY DEF HasStruct, StructIsSound, TagIsSound, TagOf
<1>3. \A t \in Tags(b) : t \in Nat
  BY TagAt
<1>. QED
  BY <1>1, <1>2, <1>3, TagSizeIs

(* _fdt_check_node_offset.                                                 *)
LEMMA NodeOffsetIs ==
  ASSUME NEW b, HasStruct(b), NEW o \in Int
  PROVE  \/ CheckNodeOffset(b, o) = BADOFFSET
         \/ /\ o \in Tags(b) /\ TagOf(b, o) = "BEGIN_NODE"
            /\ CheckNodeOffset(b, o) = Following(b, o)
<1>1. CASE o < 0 \/ o % FDT_TAGSIZE # 0
  BY <1>1 DEF CheckNodeOffset, CheckOffset
<1>2. CASE ~(o < 0) /\ o % FDT_TAGSIZE = 0 /\ o \notin Tags(b)
  <2>1. o \in WalkOffsets
    BY <1>2 DEF WalkOffsets
  <2>2. NextTag(b, o).tag = "END"
    BY <1>2, <2>1, NoTagIs
  <2>. QED
    BY <2>2 DEF CheckNodeOffset, CheckOffset
<1>3. CASE ~(o < 0) /\ o % FDT_TAGSIZE = 0 /\ o \in Tags(b)
  <2>1. NextTag(b, o) = [tag |-> TagOf(b, o), next |-> Following(b, o)]
    BY <1>3, NextTagIs
  <2>. QED
    BY <1>3, <2>1 DEF CheckNodeOffset, CheckOffset
<1>. QED
  BY <1>1, <1>2, <1>3

-----------------------------------------------------------------------------
(* The order of tags.                                                      *)

PropName(b, o) == String(b, NameOff(b, o))

(* d[o] nodes are open in front of the tag at o, and the names in f[o] are *)
(* those a property there may have: any that is new behind the beginning   *)
(* of a node, and none behind a subnode.                                   *)
OnTag(b, o, d, f) ==
  LET tag  == TagOf(b, o)
      next == Following(b, o)
  IN  /\ d[o] \in Nat
      /\ tag = "END" => d[o] = 0
      /\ tag = "BEGIN_NODE" => d[next] = d[o] + 1
      /\ tag = "END_NODE" => d[o] > 0 /\ d[next] = d[o] - 1 /\ f[next] = {}
      /\ tag = "PROP" => /\ d[next] = d[o] /\ PropName(b, o) \in f[o]
                         /\ f[next] \subseteq f[o] \ {PropName(b, o)}
      /\ tag = "NOP" => d[next] = d[o] /\ f[next] \subseteq f[o]

Marks(b, d, f) ==
  d[0] = 0 /\ f[0] = {} /\ \A o \in Tags(b) : OnTag(b, o, d, f)

(* The tags match, and properties come before subnodes and none twice.     *)
Ordered(b) == \E d, f : Marks(b, d, f)

(* Between p and q as many nodes begin as end, and behind is no property   *)
(* that could not be in front.                                             *)
Passes(b, p, q) ==
  \A d, f : Marks(b, d, f) => d[q] = d[p] /\ f[q] \subseteq f[p]

(* From o on there is no property of that name up to the first tag that is *)
(* no property's.                                                          *)
IsFreeTo(b, o, name, z) ==
  /\ z \in Tags(b) /\ o <= z /\ TagOf(b, z) \notin {"PROP", "NOP"}
  /\ \A t \in Tags(b) : o <= t /\ t < z =>
       \/ TagOf(b, t) = "NOP"
       \/ TagOf(b, t) = "PROP" /\ PropName(b, t) # name

IsFree(b, o, name) == \E z \in Tags(b) : IsFreeTo(b, o, name, z)

-----------------------------------------------------------------------------
(* Walks from tag to tag.                                                  *)

(* How far from an offset the end is.                                      *)
Distance(b) ==
  [o \in Int |-> IF o \in Tags(b) THEN b.size_dt_struct - o ELSE 0]

NextOffset(b) == [o \in WalkOffsets |-> NextTag(b, o).next]

Errors == {e \in Int : e < 0}

(* The rest of the block gets less from tag to tag.                        *)
LEMMA DistanceIs ==
  ASSUME NEW b, HasStruct(b), NEW o \in Int
  PROVE  /\ Distance(b)[o] \in 0 .. b.size_dt_struct
         /\ \A p \in Tags(b) : o \in Tags(b) /\ p > o =>
              Distance(b)[p] < Distance(b)[o]
<1>1. b.size_dt_struct \in Nat
  BY DEF HasStruct
<1>2. \A p \in Tags(b) : p \in Nat /\ p < b.size_dt_struct
  BY <1>1 DEF Tags
<1>. QED
  BY <1>1, <1>2 DEF Distance

(* A walk that goes on at tags only gets to an end.                        *)
LEMMA TagsAhead ==
  ASSUME NEW b, HasStruct(b), NEW Stop,
         \A o \in WalkOffsets \ Stop : o \in Tags(b) /\ TagOf(b, o) # "END"
  PROVE  /\ b.size_dt_struct \in Nat
         /\ Ahead(WalkOffsets, Stop, NextOffset(b), b.size_dt_struct,
                  Distance(b))
         /\ \A o \in WalkOffsets \ Stop : NextOffset(b)[o] = Following(b, o)
<1>1. b.size_dt_struct \in Nat /\ WalkOffsets \subseteq Int
  BY DEF HasStruct, WalkOffsets
<1>2. ASSUME NEW o \in WalkOffsets  PROVE Distance(b)[o] \in 0 .. b.size_dt_struct
  BY <1>1, DistanceIs
<1>3. ASSUME NEW o \in WalkOffsets, o \notin Stop
      PROVE  /\ NextOffset(b)[o] = Following(b, o)
             /\ NextOffset(b)[o] \in WalkOffsets
             /\ Distance(b)[NextOffset(b)[o]] < Distance(b)[o]
  <2>1. o \in Tags(b) /\ TagOf(b, o) # "END" /\ o \in Int
    BY <1>1, <1>3
  <2>2. NextTag(b, o) = [tag |-> TagOf(b, o), next |-> Following(b, o)]
    BY <2>1, NextTagIs
  <2>3. NextOffset(b)[o] = Following(b, o)
    BY <2>2 DEF NextOffset
  <2>4. Following(b, o) \in Tags(b) /\ Following(b, o) > o
    BY <2>1, FollowingIs
  <2>5. Following(b, o) \in WalkOffsets
    BY <2>4 DEF Tags, WalkOffsets
  <2>6. Distance(b)[Following(b, o)] < Distance(b)[o]
    BY <2>1, <2>4, DistanceIs
  <2>. QED
    BY <2>3, <2>5, <2>6
<1>. QED
  BY <1>1, <1>2, <1>3 DEF Ahead

(* fdt_get_property finds a property of that name, or returns an error,    *)
(* and none of the node's has it then.                                     *)
LEMMA GetPropertyIs ==
  ASSUME NEW b, HasStruct(b), NEW node \in Int, NEW name
  PROVE  LET prop == GetProperty(b, node, name)
         IN  \/ /\ prop \in Errors
                /\ CheckNodeOffset(b, node) >= 0 =>
                     IsFree(b, CheckNodeOffset(b, node), name)
             \/ prop \in Tags(b) /\ TagOf(b, prop) = "PROP" /\ prop > node
<1> DEFINE Hit(o) == NextTag(b, o).tag = "PROP" /\ String(b, NameOff(b, o)) = name
           On(o) == ~Hit(o) /\ NextTag(b, o).tag \in {"PROP", "NOP"}
           Stop == {o \in WalkOffsets : ~On(o)}
           out == [o \in WalkOffsets |->
                     IF Hit(o) THEN o
                     ELSE IF NextTag(b, o).tag = "END"
                       THEN IF NextTag(b, o).next >= 0 THEN BADSTRUCTURE
                                                       ELSE NextTag(b, o).next
                     ELSE NOTFOUND]
           Body(f) ==
             [o \in WalkOffsets |->
                LET t == NextTag(b, o)
                IN  IF t.tag = "PROP" /\ String(b, NameOff(b, o)) = name THEN o
                    ELSE IF t.tag \in {"PROP", "NOP"} THEN f[t.next]
                    ELSE IF t.tag = "END"
                      THEN IF t.next >= 0 THEN BADSTRUCTURE ELSE t.next
                    ELSE NOTFOUND]
           Search == CHOOSE f : f = Body(f)
           start == CheckNodeOffset(b, node)
           X == [o \in WalkOffsets |->
                   {e \in Errors : o \in Tags(b) => IsFree(b, o, name)}
                     \cup {p \in Tags(b) : TagOf(b, p) = "PROP" /\ p >= o}]
<1>1. GetProperty(b, node, name) = IF start < 0 THEN start ELSE Search[start]
  BY DEF GetProperty
<1>2. ASSUME NEW f
      PROVE  Walks(f, WalkOffsets, Stop, out, NextOffset(b)) <=> f = Body(f)
  <2> DEFINE Step == [o \in WalkOffsets |->
                        IF o \in Stop THEN out[o] ELSE f[NextOffset(b)[o]]]
  <2>1. ASSUME NEW o \in WalkOffsets  PROVE Step[o] = Body(f)[o]
    BY DEF NextOffset
  <2>2. Step = Body(f)
    BY <2>1
  <2>. QED
    BY <2>2 DEF Walks
<1>3. ASSUME NEW o \in WalkOffsets, o \notin Stop
      PROVE  /\ o \in Tags(b) /\ TagOf(b, o) # "END"
             /\ \/ TagOf(b, o) = "NOP"
                \/ TagOf(b, o) = "PROP" /\ PropName(b, o) # name
  <2>1. NextTag(b, o).tag # "END"
    BY <1>3
  <2>2. o \in Tags(b)
    BY <2>1, NoTagIs
  <2>3. NextTag(b, o).tag = TagOf(b, o)
    BY <2>2, NextTagIs
  <2>. QED
    BY <1>3, <2>1, <2>2, <2>3 DEF PropName
<1>4. ASSUME NEW o \in WalkOffsets, o \in Stop  PROVE out[o] \in X[o]
  <2>1. CASE o \in Tags(b)
    <3>1. NextTag(b, o) = [tag |-> TagOf(b, o), next |-> Following(b, o)]
      BY <2>1, NextTagIs
    <3>2. Following(b, o) \in Nat /\ o \in Nat
      BY <2>1, TagAt
    <3>3. CASE Hit(o)
      BY <2>1, <3>1, <3>2, <3>3
    <3>4. CASE ~Hit(o)
      <4>1. TagOf(b, o) \notin {"PROP", "NOP"}
        BY <1>4, <3>1, <3>4
      <4>2. \A t \in Tags(b) : ~(o <= t /\ t < o)
        BY <3>2 DEF Tags
      <4>3. IsFree(b, o, name)
        BY <2>1, <3>2, <4>1, <4>2 DEF IsFree, IsFreeTo
      <4>4. out[o] \in Errors
        BY <3>1, <3>2, <3>4 DEF Errors, BADSTRUCTURE, NOTFOUND
      <4>. QED
        BY <4>3, <4>4
    <3>. QED
      BY <3>3, <3>4
  <2>2. CASE o \notin Tags(b)
    BY <2>2, NoTagIs DEF Errors
  <2>. QED
    BY <2>1, <2>2
<1> HIDE DEF Stop, out, Search, Body
<1>5. /\ b.size_dt_struct \in Nat
      /\ Ahead(WalkOffsets, Stop, NextOffset(b), b.size_dt_struct, Distance(b))
      /\ \A o \in WalkOffsets \ Stop : NextOffset(b)[o] = Following(b, o)
  BY <1>3, TagsAhead
<1>6. \E f : f = Body(f)
  BY <1>2, <1>5, WalkIsDefined
<1>7. Walks(Search, WalkOffsets, Stop, out, NextOffset(b))
  BY <1>2, <1>6 DEF Search
<1>8. ASSUME NEW o \in WalkOffsets \ Stop  PROVE X[NextOffset(b)[o]] \subseteq X[o]
  <2>1. Following(b, o) \in Tags(b) /\ Following(b, o) > o /\ o \in Int
    BY <1>3, FollowingIs, TagAt
  <2>2. Following(b, o) \in WalkOffsets /\ Tags(b) \subseteq Nat
    BY <2>1 DEF Tags, WalkOffsets
  <2>3. \A p \in Tags(b) : p >= Following(b, o) => p >= o
    BY <2>1, <2>2
  <2>4. IsFree(b, Following(b, o), name) => IsFree(b, o, name)
    <3> SUFFICES ASSUME NEW z \in Tags(b), IsFreeTo(b, Following(b, o), name, z)
                 PROVE  IsFree(b, o, name)
      BY DEF IsFree
    <3>1. ASSUME NEW t \in Tags(b), o <= t, t < z
          PROVE  \/ TagOf(b, t) = "NOP"
                 \/ TagOf(b, t) = "PROP" /\ PropName(b, t) # name
      <4>1. o \in Tags(b) /\ \A u \in Tags(b) : u > o => u >= Following(b, o)
        BY <1>3, FollowingIs
      <4>2. t = o \/ t >= Following(b, o)
        BY <2>1, <2>2, <3>1, <4>1
      <4>. QED
        BY <1>3, <3>1, <4>2 DEF IsFreeTo
    <3>2. o <= z
      BY <2>3 DEF IsFreeTo
    <3>3. IsFreeTo(b, o, name, z)
      BY <3>1, <3>2 DEF IsFreeTo
    <3>. QED
      BY <3>3 DEF IsFree
  <2>. QED
    BY <1>5, <2>1, <2>2, <2>3, <2>4
<1>9. \A o \in WalkOffsets : Search[o] \in X[o]
  <2>1. Holds(X, WalkOffsets, Stop, out, NextOffset(b))
    <3> HIDE DEF X
    <3>. QED
      BY <1>4, <1>8 DEF Holds
  <2> HIDE DEF X
  <2>. QED
    BY <1>5, <1>7, <2>1, WalkEndsIn
<1>10. CASE start < 0
  BY <1>1, <1>10, NodeOffsetIs, TagAt DEF Errors, BADOFFSET
<1>11. CASE ~(start < 0)
  <2>1. /\ node \in Tags(b) /\ TagOf(b, node) = "BEGIN_NODE"
        /\ start = Following(b, node)
    BY <1>11, NodeOffsetIs DEF BADOFFSET
  <2>2. start \in Tags(b) /\ start > node /\ node \in Nat
    BY <2>1, FollowingIs, TagAt
  <2>3. start \in WalkOffsets /\ Tags(b) \subseteq Nat
    BY <2>2 DEF Tags, WalkOffsets
  <2>4. Search[start] \in X[start]
    BY <1>9, <2>3
  <2>5. start = CheckNodeOffset(b, node) /\ start >= 0
    BY <2>2, <2>3
  <2> DEFINE found == Search[start]
  <2>6. GetProperty(b, node, name) = found
    BY <1>1, <1>11
  <2> HIDE DEF start, found
  <2>7. \/ found \in Errors /\ IsFree(b, start, name)
        \/ found \in Tags(b) /\ TagOf(b, found) = "PROP" /\ found >= start
    BY <2>2, <2>3, <2>4 DEF found
  <2>8. found \in Tags(b) /\ found >= start => found > node
    BY <2>2, <2>3
  <2>. QED
    BY <2>5, <2>6, <2>7, <2>8
<1>. QED
  BY <1>10, <1>11

(* fdt_next_node without a depth comes to a node further on, or returns an *)
(* error.                                                                  *)
LEMMA NextNodeFlatIs ==
  ASSUME NEW b, HasStruct(b), NEW offset \in Int
  PROVE  LET n == NextNodeFlat(b, offset)
         IN  \/ n \in Errors
             \/ n \in Tags(b) /\ TagOf(b, n) = "BEGIN_NODE" /\ n > offset
<1> DEFINE Stop == {o \in WalkOffsets : NextTag(b, o).tag \in {"BEGIN_NODE", "END"}}
           out == [o \in WalkOffsets |->
                     IF NextTag(b, o).tag = "BEGIN_NODE" THEN o
                     ELSE IF NextTag(b, o).next >= 0 \/ NextTag(b, o).next = TRUNCATED
                       THEN NOTFOUND ELSE NextTag(b, o).next]
           Body(f) ==
             [o \in WalkOffsets |->
                LET t == NextTag(b, o)
                IN  IF t.tag = "BEGIN_NODE" THEN o
                    ELSE IF t.tag # "END" THEN f[t.next]
                    ELSE IF t.next >= 0 \/ t.next = TRUNCATED THEN NOTFOUND
                    ELSE t.next]
           Walk == CHOOSE f : f = Body(f)
           start == IF offset >= 0 THEN CheckNodeOffset(b, offset) ELSE 0
           X == [o \in WalkOffsets |->
                   Errors \cup {p \in Tags(b) : TagOf(b, p) = "BEGIN_NODE" /\ p >= o}]
<1>1. NextNodeFlat(b, offset) = IF start < 0 THEN start ELSE Walk[start]
  BY DEF NextNodeFlat
<1>2. ASSUME NEW f
      PROVE  Walks(f, WalkOffsets, Stop, out, NextOffset(b)) <=> f = Body(f)
  <2> DEFINE Step == [o \in WalkOffsets |->
                        IF o \in Stop THEN out[o] ELSE f[NextOffset(b)[o]]]
  <2>1. ASSUME NEW o \in WalkOffsets  PROVE Step[o] = Body(f)[o]
    BY DEF NextOffset
  <2>2. Step = Body(f)
    BY <2>1
  <2>. QED
    BY <2>2 DEF Walks
<1>3. ASSUME NEW o \in WalkOffsets, o \notin Stop
      PROVE  o \in Tags(b) /\ TagOf(b, o) # "END"
  <2>1. NextTag(b, o).tag # "END"
    BY <1>3
  <2>2. o \in Tags(b)
    BY <2>1, NoTagIs
  <2>3. NextTag(b, o).tag = TagOf(b, o)
    BY <2>2, NextTagIs
  <2>. QED
    BY <2>1, <2>2, <2>3
<1>4. ASSUME NEW o \in WalkOffsets, o \in Stop  PROVE out[o] \in X[o]
  <2>1. CASE o \in Tags(b)
    <3>1. NextTag(b, o) = [tag |-> TagOf(b, o), next |-> Following(b, o)]
      BY <2>1, NextTagIs
    <3>2. Following(b, o) \in Nat /\ o \in Nat
      BY <2>1, TagAt
    <3>3. CASE TagOf(b, o) = "BEGIN_NODE"
      BY <2>1, <3>1, <3>2, <3>3
    <3>4. CASE TagOf(b, o) # "BEGIN_NODE"
      BY <1>4, <3>1, <3>2, <3>4 DEF Errors, NOTFOUND
    <3>. QED
      BY <3>3, <3>4
  <2>2. CASE o \notin Tags(b)
    BY <2>2, NoTagIs DEF Errors, NOTFOUND
  <2>. QED
    BY <2>1, <2>2
<1> HIDE DEF Stop, out, Walk, Body
<1>5. /\ b.size_dt_struct \in Nat
      /\ Ahead(WalkOffsets, Stop, NextOffset(b), b.size_dt_struct, Distance(b))
      /\ \A o \in WalkOffsets \ Stop : NextOffset(b)[o] = Following(b, o)
  BY <1>3, TagsAhead
<1>6. \E f : f = Body(f)
  BY <1>2, <1>5, WalkIsDefined
<1>7. Walks(Walk, WalkOffsets, Stop, out, NextOffset(b))
  BY <1>2, <1>6 DEF Walk
<1>8. ASSUME NEW o \in WalkOffsets \ Stop  PROVE X[NextOffset(b)[o]] \subseteq X[o]
  <2>1. Following(b, o) \in Tags(b) /\ Following(b, o) > o /\ o \in Int
    BY <1>3, FollowingIs, TagAt
  <2>2. Following(b, o) \in WalkOffsets /\ Tags(b) \subseteq Nat
    BY <2>1 DEF Tags, WalkOffsets
  <2>3. \A p \in Tags(b) : p >= Following(b, o) => p >= o
    BY <2>1, <2>2
  <2>. QED
    BY <1>5, <2>1, <2>2, <2>3
<1>9. \A o \in WalkOffsets : Walk[o] \in X[o]
  <2>1. Holds(X, WalkOffsets, Stop, out, NextOffset(b))
    <3> HIDE DEF X
    <3>. QED
      BY <1>4, <1>8 DEF Holds
  <2> HIDE DEF X
  <2>. QED
    BY <1>5, <1>7, <2>1, WalkEndsIn
<1>10. CASE start < 0
  BY <1>1, <1>10, NodeOffsetIs, TagAt DEF Errors, BADOFFSET
<1>11. CASE ~(start < 0)
  <2>1. start \in WalkOffsets /\ start \in Nat /\ start > offset
    <3>1. CASE offset >= 0
      <4>1. /\ offset \in Tags(b) /\ TagOf(b, offset) = "BEGIN_NODE"
            /\ start = Following(b, offset)
        BY <1>11, <3>1, NodeOffsetIs DEF BADOFFSET
      <4>2. start \in Tags(b) /\ start > offset
        BY <4>1, FollowingIs
      <4>. QED
        BY <4>2 DEF Tags, WalkOffsets
    <3>2. CASE ~(offset >= 0)
      <4>1. start = 0
        BY <3>2
      <4>2. 0 \in WalkOffsets
        BY Multiples DEF WalkOffsets, IsMultiple
      <4>. QED
        BY <3>2, <4>1, <4>2
    <3>. QED
      BY <3>1, <3>2
  <2> DEFINE found == Walk[start]
  <2>2. NextNodeFlat(b, offset) = found
    BY <1>1, <1>11
  <2>3. Walk[start] \in X[start]
    BY <1>9, <2>1
  <2> HIDE DEF start
  <2>4. \/ found \in Errors
        \/ found \in Tags(b) /\ TagOf(b, found) = "BEGIN_NODE" /\ found >= start
    BY <2>1, <2>3
  <2> HIDE DEF found
  <2>5. found \in Tags(b) /\ found >= start => found > offset
    BY <2>1 DEF Tags
  <2>. QED
    BY <2>2, <2>4, <2>5
<1>. QED
  BY <1>10, <1>11

Positions == [at : WalkOffsets, depth : Int]

(* Of the nodes open at o a walk has counted all but those above, and r is *)
(* a subnode it has come to, at its depth, or the end of where it began.   *)
Leads(b, o, above, r) ==
  \A d, f : Marks(b, d, f) /\ r.at \in Tags(b) =>
    /\ r.depth = -1 => d[r.at] = d[o] - above /\ f[r.at] = {}
    /\ r.depth # -1 => r.depth >= 0 /\ d[r.at] = d[o] - above + r.depth

(* The tag and the next.                                                   *)
LEMMA OnTagIs ==
  ASSUME NEW b, NEW o \in Tags(b), NEW d, NEW f, Marks(b, d, f)
  PROVE  /\ d[o] \in Nat
         /\ TagOf(b, o) = "BEGIN_NODE" => d[Following(b, o)] = d[o] + 1
         /\ TagOf(b, o) = "END_NODE" =>
              d[Following(b, o)] = d[o] - 1 /\ f[Following(b, o)] = {}
         /\ TagOf(b, o) \in {"PROP", "NOP"} => d[Following(b, o)] = d[o]
BY DEF Marks, OnTag

(* fdt_next_node comes to a tag further on, at the depth it says, or       *)
(* returns an error.                                                       *)
LEMMA NextNodeIs ==
  ASSUME NEW b, HasStruct(b), NEW offset \in Int, NEW depth \in Int
  PROVE  LET n == NextNode(b, offset, depth)
         IN  /\ n \in [at : Int, depth : Int]
             /\ \/ n.at \in Errors
                \/ /\ n.at \in Tags(b) /\ n.at > offset
                   /\ offset >= 0 => offset \in Tags(b)
             /\ offset >= 0 /\ depth >= 0 => Leads(b, offset, depth, n)
<1> DEFINE On(n) == \/ NextTag(b, n.at).tag = "END_NODE" /\ n.depth # 0
                    \/ NextTag(b, n.at).tag \notin {"BEGIN_NODE", "END_NODE", "END"}
           Stop == {n \in Positions : ~On(n)}
           next == [n \in Positions |->
                      [at |-> NextTag(b, n.at).next,
                       depth |-> IF NextTag(b, n.at).tag = "END_NODE"
                                   THEN n.depth - 1 ELSE n.depth]]
           out == [n \in Positions |->
                     IF NextTag(b, n.at).tag = "BEGIN_NODE"
                       THEN [at |-> n.at, depth |-> n.depth + 1]
                     ELSE IF NextTag(b, n.at).tag = "END_NODE"
                       THEN [at |-> NextTag(b, n.at).next, depth |-> -1]
                     ELSE [at |-> IF NextTag(b, n.at).next >= 0 THEN NOTFOUND
                                  ELSE NextTag(b, n.at).next,
                           depth |-> n.depth]]
           Body(f) ==
             [n \in Positions |->
                LET t == NextTag(b, n.at)
                IN  IF t.tag = "BEGIN_NODE" THEN [n EXCEPT !.depth = @ + 1]
                    ELSE IF t.tag = "END_NODE" /\ n.depth = 0
                      THEN [at |-> t.next, depth |-> -1]
                    ELSE IF t.tag = "END_NODE"
                      THEN f[[at |-> t.next, depth |-> n.depth - 1]]
                    ELSE IF t.tag # "END" THEN f[[n EXCEPT !.at = t.next]]
                    ELSE [n EXCEPT !.at = IF t.next >= 0 THEN NOTFOUND ELSE t.next]]
           Walk == CHOOSE f : f = Body(f)
           start == IF offset >= 0 THEN CheckNodeOffset(b, offset) ELSE 0
           from == [at |-> start, depth |-> depth]
           m == [n \in Positions |-> Distance(b)[n.at]]
           Led(n, r) == n.at \in Tags(b) /\ n.depth >= 0 =>
                          Leads(b, n.at, n.depth + 1, r)
           X == [n \in Positions |->
                   {r \in [at : Int, depth : Int] :
                      /\ r.at \in Errors \/ (r.at \in Tags(b) /\ r.at >= n.at)
                      /\ Led(n, r)}]
<1>0. /\ b.size_dt_struct \in Nat /\ WalkOffsets \subseteq Int
      /\ Tags(b) \subseteq WalkOffsets /\ Tags(b) \subseteq Nat
  BY DEF HasStruct, WalkOffsets, Tags
<1>1. NextNode(b, offset, depth) = IF start < 0 THEN from ELSE Walk[from]
  BY DEF NextNode, Positions
<1>2. ASSUME NEW f
      PROVE  Walks(f, Positions, Stop, out, next) <=> f = Body(f)
  <2> DEFINE Step == [n \in Positions |->
                        IF n \in Stop THEN out[n] ELSE f[next[n]]]
  <2>1. ASSUME NEW n \in Positions  PROVE Step[n] = Body(f)[n]
    <3>1. n = [at |-> n.at, depth |-> n.depth]
      BY DEF Positions
    <3> DEFINE t == NextTag(b, n.at)
    <3>2. /\ [n EXCEPT !.depth = @ + 1] = [at |-> n.at, depth |-> n.depth + 1]
          /\ [n EXCEPT !.at = t.next] = [at |-> t.next, depth |-> n.depth]
          /\ [n EXCEPT !.at = IF t.next >= 0 THEN NOTFOUND ELSE t.next]
               = [at |-> IF t.next >= 0 THEN NOTFOUND ELSE t.next,
                  depth |-> n.depth]
      BY DEF Positions
    <3>3. CASE t.tag = "BEGIN_NODE"
      BY <3>2, <3>3
    <3>4. CASE t.tag = "END_NODE" /\ n.depth = 0
      BY <3>4
    <3>5. CASE t.tag = "END_NODE" /\ n.depth # 0
      BY <3>5
    <3>6. CASE t.tag = "END"
      BY <3>2, <3>6
    <3>7. CASE t.tag \notin {"BEGIN_NODE", "END_NODE", "END"}
      BY <3>2, <3>7
    <3>. QED
      BY <3>3, <3>4, <3>5, <3>6, <3>7
  <2>2. Step = Body(f)
    BY <2>1
  <2>. QED
    BY <2>2 DEF Walks
<1>3. ASSUME NEW n \in Positions, n \notin Stop
      PROVE  /\ n.at \in Tags(b) /\ TagOf(b, n.at) # "END"
             /\ next[n].at = Following(b, n.at) /\ next[n] \in Positions
             /\ next[n].at \in Tags(b) /\ next[n].at > n.at
             /\ \/ /\ TagOf(b, n.at) = "END_NODE" /\ n.depth # 0
                   /\ next[n].depth = n.depth - 1
                \/ /\ TagOf(b, n.at) \in {"PROP", "NOP"}
                   /\ next[n].depth = n.depth
  <2>1. NextTag(b, n.at).tag # "END" /\ n.at \in WalkOffsets /\ n.depth \in Int
    BY <1>3 DEF Positions
  <2>2. n.at \in Tags(b)
    BY <2>1, NoTagIs
  <2>3. NextTag(b, n.at) = [tag |-> TagOf(b, n.at), next |-> Following(b, n.at)]
    BY <2>2, NextTagIs
  <2>4. Following(b, n.at) \in Tags(b) /\ Following(b, n.at) > n.at
    BY <2>1, <2>2, <2>3, FollowingIs
  <2>5. next[n] = [at |-> Following(b, n.at),
                   depth |-> IF TagOf(b, n.at) = "END_NODE"
                               THEN n.depth - 1 ELSE n.depth]
    BY <2>3
  <2>6. \/ TagOf(b, n.at) = "END_NODE" /\ n.depth # 0
        \/ TagOf(b, n.at) \in {"PROP", "NOP"}
    BY <1>3, <2>2, <2>3, TagAt DEF TagKinds
  <2>7. \/ /\ TagOf(b, n.at) = "END_NODE" /\ n.depth # 0
           /\ next[n].depth = n.depth - 1
        \/ /\ TagOf(b, n.at) \in {"PROP", "NOP"}
           /\ next[n].depth = n.depth
    BY <2>5, <2>6
  <2>. QED
    BY <1>0, <2>1, <2>2, <2>3, <2>4, <2>5, <2>7 DEF Positions
<1>4. ASSUME NEW n \in Positions, n \in Stop  PROVE out[n] \in X[n]
  <2>0. n.at \in WalkOffsets /\ n.at \in Int /\ n.depth \in Int
    BY <1>0 DEF Positions
  <2>1. CASE n.at \in Tags(b)
    <3>1. NextTag(b, n.at) = [tag |-> TagOf(b, n.at), next |-> Following(b, n.at)]
      BY <2>1, NextTagIs
    <3>2. Following(b, n.at) \in Nat /\ n.at \in Nat
      BY <2>1, TagAt
    <3>3. CASE TagOf(b, n.at) = "BEGIN_NODE"
      <4>1. out[n] = [at |-> n.at, depth |-> n.depth + 1]
        BY <3>1, <3>3
      <4>2. Led(n, out[n])
        <5> SUFFICES ASSUME n.depth >= 0, NEW d, NEW f, Marks(b, d, f)
                     PROVE  d[n.at] = d[n.at] - (n.depth + 1) + (n.depth + 1)
          BY <2>0, <4>1 DEF Leads
        <5>1. d[n.at] \in Nat
          BY <2>1, OnTagIs
        <5>. QED
          BY <2>0, <5>1
      <4> HIDE DEF Led
      <4>. QED
        BY <2>0, <2>1, <3>2, <4>1, <4>2
    <3>4. CASE TagOf(b, n.at) = "END_NODE"
      <4>1. out[n] = [at |-> Following(b, n.at), depth |-> -1]
        BY <3>1, <3>4
      <4>2. Following(b, n.at) \in Tags(b) /\ Following(b, n.at) > n.at
        BY <2>1, <3>4, FollowingIs
      <4>3. n.depth = 0
        BY <1>4, <3>1, <3>4
      <4>4. Led(n, out[n])
        BY <2>1, <3>4, <4>1, <4>3, OnTagIs DEF Leads
      <4> HIDE DEF Led
      <4>. QED
        BY <2>0, <2>1, <3>2, <4>1, <4>2, <4>4
    <3>5. CASE TagOf(b, n.at) \notin {"BEGIN_NODE", "END_NODE"}
      <4>1. out[n] = [at |-> NOTFOUND, depth |-> n.depth]
        BY <1>4, <2>1, <3>1, <3>2, <3>5, TagAt DEF TagKinds
      <4>2. Led(n, out[n])
        BY <1>0, <4>1 DEF Leads, NOTFOUND
      <4> HIDE DEF Led
      <4>. QED
        BY <2>0, <4>1, <4>2 DEF NOTFOUND, Errors
    <3>. QED
      BY <3>3, <3>4, <3>5
  <2>2. CASE n.at \notin Tags(b)
    <3>1. /\ NextTag(b, n.at).tag = "END" /\ NextTag(b, n.at).next \in Int
          /\ NextTag(b, n.at).next < 0
      BY <2>0, <2>2, NoTagIs
    <3>2. out[n] = [at |-> NextTag(b, n.at).next, depth |-> n.depth]
      BY <3>1
    <3>3. Led(n, out[n])
      BY <2>2
    <3> HIDE DEF Led
    <3>. QED
      BY <2>0, <3>1, <3>2, <3>3 DEF Errors
  <2>. QED
    BY <2>1, <2>2
<1> HIDE DEF Stop, out, next, Walk, Body
<1>5. Ahead(Positions, Stop, next, b.size_dt_struct, m)
  <2>1. ASSUME NEW n \in Positions
        PROVE  m[n] \in 0 .. b.size_dt_struct
    BY <1>0, DistanceIs DEF Positions
  <2>2. ASSUME NEW n \in Positions, n \notin Stop
        PROVE  next[n] \in Positions /\ m[next[n]] < m[n]
    <3>1. n.at \in Int /\ n.at \in Tags(b)
      BY <1>0, <1>3, <2>2 DEF Positions
    <3>2. Distance(b)[next[n].at] < Distance(b)[n.at]
      BY <1>3, <2>2, <3>1, DistanceIs
    <3>. QED
      BY <1>3, <2>2, <3>2
  <2> HIDE DEF m
  <2>. QED
    BY <2>1, <2>2 DEF Ahead
<1> HIDE DEF m
<1>6. \E f : f = Body(f)
  BY <1>0, <1>2, <1>5, WalkIsDefined
<1>7. Walks(Walk, Positions, Stop, out, next)
  BY <1>2, <1>6 DEF Walk
<1>8. ASSUME NEW n \in Positions \ Stop  PROVE X[next[n]] \subseteq X[n]
  <2>1. next[n] \in Positions /\ next[n].at > n.at /\ next[n].at \in Int /\ n.at \in Int
    BY <1>0, <1>3 DEF Positions
  <2>2. \A p \in Tags(b) : p >= next[n].at => p >= n.at
    BY <1>0, <2>1
  <2>3. ASSUME NEW r, Led(next[n], r)  PROVE Led(n, r)
    <3> DEFINE o == n.at
               p == next[n].at
               k == n.depth
               l == next[n].depth
    <3>1. /\ o \in Tags(b) /\ p = Following(b, o) /\ p \in Tags(b)
          /\ k \in Int /\ l \in Int
          /\ \/ TagOf(b, o) = "END_NODE" /\ k # 0 /\ l = k - 1
             \/ TagOf(b, o) \in {"PROP", "NOP"} /\ l = k
      BY <1>3, <2>1 DEF Positions
    <3>2. l >= 0 => Leads(b, p, l + 1, r)
      BY <2>3, <3>1
    <3> HIDE DEF o, p, k, l
    <3> SUFFICES ASSUME k >= 0  PROVE Leads(b, o, k + 1, r)
      BY DEF o, k
    <3>3. l >= 0
      BY <3>1
    <3>4. ASSUME NEW d, NEW f, Marks(b, d, f)
          PROVE  d[o] \in Nat /\ d[p] \in Nat /\ d[p] - (l + 1) = d[o] - (k + 1)
      <4>1. d[o] \in Nat /\ d[p] \in Nat
        BY <3>1, <3>4, OnTagIs
      <4>2. \/ d[p] = d[o] - 1 /\ l = k - 1
            \/ d[p] = d[o] /\ l = k
        BY <3>1, <3>4, OnTagIs
      <4>. QED
        BY <3>1, <4>1, <4>2
    <3>. QED
      BY <3>2, <3>3, <3>4 DEF Leads
  <2> HIDE DEF Led
  <2>. QED
    BY <2>1, <2>2, <2>3
<1>9. \A n \in Positions : Walk[n] \in X[n]
  <2>1. Holds(X, Positions, Stop, out, next)
    <3> HIDE DEF X
    <3>. QED
      BY <1>4, <1>8 DEF Holds
  <2> HIDE DEF X
  <2>. QED
    BY <1>0, <1>5, <1>7, <2>1, WalkEndsIn
<1>10. CASE start < 0
  <2>1. start = BADOFFSET
    <3>1. offset >= 0 /\ start = CheckNodeOffset(b, offset)
      BY <1>10
    <3>2. offset \in Tags(b) => Following(b, offset) \in Nat
      BY TagAt
    <3>. QED
      BY <1>10, <3>1, <3>2, NodeOffsetIs
  <2>2. NextNode(b, offset, depth) = [at |-> BADOFFSET, depth |-> depth]
    BY <1>1, <1>10, <2>1
  <2>3. Leads(b, offset, depth, NextNode(b, offset, depth))
    BY <1>0, <2>2 DEF Leads, BADOFFSET
  <2>. QED
    BY <2>2, <2>3 DEF BADOFFSET, Errors
<1>11. CASE ~(start < 0)
  <2>1. /\ start \in Tags(b) /\ start > offset
        /\ offset >= 0 => /\ offset \in Tags(b) /\ TagOf(b, offset) = "BEGIN_NODE"
                          /\ start = Following(b, offset)
    <3>1. CASE offset >= 0
      <4>1. /\ offset \in Tags(b) /\ TagOf(b, offset) = "BEGIN_NODE"
            /\ start = Following(b, offset)
        BY <1>11, <3>1, NodeOffsetIs DEF BADOFFSET
      <4>. QED
        BY <4>1, FollowingIs
    <3>2. CASE offset < 0
      BY <3>2 DEF HasStruct, StructIsSound
    <3>. QED
      BY <3>1, <3>2
  <2>2. from \in Positions
    BY <1>0, <2>1 DEF Positions
  <2>3. Walk[from] \in X[from]
    BY <1>9, <2>2
  <2>4. X[from] = {r \in [at : Int, depth : Int] :
                     /\ r.at \in Errors \/ (r.at \in Tags(b) /\ r.at >= start)
                     /\ Led(from, r)}
    <3> HIDE DEF Led
    <3>. QED
      BY <2>2
  <2> DEFINE r == NextNode(b, offset, depth)
  <2>5. r \in X[from]
    BY <1>1, <1>11, <2>3
  <2>6. ASSUME offset >= 0, depth >= 0  PROVE Leads(b, offset, depth, r)
    <3>1. Led(from, r)
      <4> HIDE DEF from, X, Led
      <4>. QED
        BY <2>4, <2>5
    <3> HIDE DEF start, X, r
    <3>2. Leads(b, start, depth + 1, r)
      BY <2>1, <2>6, <3>1
    <3>3. ASSUME NEW d, NEW f, Marks(b, d, f)
          PROVE  d[offset] \in Nat /\ d[start] - (depth + 1) = d[offset] - depth
      <4>1. d[offset] \in Nat /\ d[start] = d[offset] + 1
        BY <2>1, <2>6, <3>3, OnTagIs
      <4>. QED
        BY <4>1
    <3>. QED
      BY <3>2, <3>3 DEF Leads
  <2> HIDE DEF start, from, X, Led, r
  <2>7. \A p \in Tags(b) : p >= start => p > offset
    BY <1>0, <2>1
  <2>8. r \in [at : Int, depth : Int]
    BY <2>4, <2>5
  <2>9. \/ r.at \in Errors
        \/ /\ r.at \in Tags(b) /\ r.at > offset
           /\ offset >= 0 => offset \in Tags(b)
    BY <2>1, <2>4, <2>5, <2>7
  <2>. QED
    BY <2>6, <2>8, <2>9 DEF r
<1>. QED
  BY <1>10, <1>11

(* Searches from node to node.                                             *)
Places == [at : Int, depth : Int]

NextPlace(b) == [n \in Places |-> NextNode(b, n.at, n.depth)]

Rank(b) ==
  [n \in Places |-> IF n.at < 0 THEN 0
                    ELSE IF n.at \notin Tags(b) THEN 1
                    ELSE b.size_dt_struct + 1 - n.at]

(* The same as a function.                                                 *)
LEMMA NextPlaceIs ==
  ASSUME NEW b, HasStruct(b), NEW n \in Places
  PROVE  /\ NextPlace(b)[n] \in Places
         /\ \/ NextPlace(b)[n].at \in Errors
            \/ /\ NextPlace(b)[n].at \in Tags(b) /\ NextPlace(b)[n].at > n.at
               /\ n.at >= 0 => n.at \in Tags(b)
         /\ n.at >= 0 /\ n.depth >= 0 =>
              Leads(b, n.at, n.depth, NextPlace(b)[n])
BY NextNodeIs DEF Places, NextPlace

(* A search that ends at errors gets to an end.                            *)
LEMMA PlacesAhead ==
  ASSUME NEW b, HasStruct(b), NEW Stop, \A n \in Places \ Stop : n.at >= 0
  PROVE  /\ b.size_dt_struct + 1 \in Nat
         /\ Ahead(Places, Stop, NextPlace(b), b.size_dt_struct + 1, Rank(b))
<1>1. b.size_dt_struct \in Nat
  BY DEF HasStruct
<1>2. \A p \in Tags(b) : p \in Nat /\ p < b.size_dt_struct
  BY <1>1 DEF Tags
<1>3. ASSUME NEW n \in Places  PROVE Rank(b)[n] \in 0 .. b.size_dt_struct + 1
  BY <1>1, <1>2 DEF Places, Rank
<1>4. ASSUME NEW n \in Places, n \notin Stop
      PROVE  NextPlace(b)[n] \in Places /\ Rank(b)[NextPlace(b)[n]] < Rank(b)[n]
  <2> DEFINE p == NextPlace(b)[n]
  <2>1. /\ p \in Places
        /\ \/ p.at \in Errors
           \/ p.at \in Tags(b) /\ p.at > n.at /\ n.at \in Tags(b)
    BY <1>4, NextPlaceIs
  <2> HIDE DEF p
  <2>2. n.at >= 0 /\ n.at \in Int
    BY <1>4 DEF Places
  <2>3. CASE p.at \in Errors
    <3>1. Rank(b)[p] = 0
      BY <2>1, <2>3 DEF Errors, Rank
    <3>2. Rank(b)[n] > 0
      BY <1>1, <1>2, <2>2 DEF Rank
    <3>. QED
      BY <2>1, <3>1, <3>2 DEF p
  <2>4. CASE p.at \in Tags(b) /\ p.at > n.at /\ n.at \in Tags(b)
    <3>1. Rank(b)[p] = b.size_dt_struct + 1 - p.at
      BY <1>2, <2>1, <2>4 DEF Rank
    <3>2. Rank(b)[n] = b.size_dt_struct + 1 - n.at
      BY <1>2, <2>4 DEF Rank
    <3>3. Rank(b)[p] < Rank(b)[n]
      BY <1>1, <1>2, <2>4, <3>1, <3>2
    <3>. QED
      BY <2>1, <3>3 DEF p
  <2>. QED
    BY <2>1, <2>3, <2>4
<1>. QED
  BY <1>1, <1>3, <1>4 DEF Ahead

(* fdt_subnode_offset finds nothing only where it has looked: at an offset *)
(* that is no node's it returns another error.                             *)
LEMMA SubnodeOffsetIs ==
  ASSUME NEW b, HasStruct(b), NEW parent \in Int, NEW name
  PROVE  /\ SubnodeOffset(b, parent, name) \in Int
         /\ parent # NOTFOUND /\ SubnodeOffset(b, parent, name) = NOTFOUND =>
              parent \in Tags(b) /\ TagOf(b, parent) = "BEGIN_NODE"
<1> DEFINE Hit(n) == n.depth = 1 /\ NodeNameEq(NodeName(b, n.at), name)
           Stop == {n \in Places : \/ n.at < 0 \/ Hit(n)
                                   \/ NextNode(b, n.at, n.depth).depth < 0}
           out == [n \in Places |-> IF n.at < 0 \/ Hit(n) THEN n.at
                                                           ELSE NOTFOUND]
           Body(f) ==
             [n \in Places |->
                LET next == NextNode(b, n.at, n.depth)
                IN  IF n.at < 0 THEN n.at
                    ELSE IF n.depth = 1 /\ NodeNameEq(NodeName(b, n.at), name)
                      THEN n.at
                    ELSE IF next.depth < 0 THEN NOTFOUND
                    ELSE f[next]]
           Search == CHOOSE f : f = Body(f)
           from == [at |-> parent, depth |-> 0]
<1>1. SubnodeOffset(b, parent, name) = Search[from]
  BY DEF SubnodeOffset, Places
<1>2. ASSUME NEW f
      PROVE  Walks(f, Places, Stop, out, NextPlace(b)) <=> f = Body(f)
  <2> DEFINE Step == [n \in Places |->
                        IF n \in Stop THEN out[n] ELSE f[NextPlace(b)[n]]]
  <2>1. ASSUME NEW n \in Places  PROVE Step[n] = Body(f)[n]
    BY DEF NextPlace
  <2>2. Step = Body(f)
    BY <2>1
  <2>. QED
    BY <2>2 DEF Walks
<1>3. \A n \in Places \ Stop : n.at >= 0
  BY DEF Places
<1> HIDE DEF Search
<1>10. /\ b.size_dt_struct + 1 \in Nat
       /\ Ahead(Places, Stop, NextPlace(b), b.size_dt_struct + 1, Rank(b))
  <2> HIDE DEF Stop
  <2>. QED
    BY <1>3, PlacesAhead
<1>4. \E f : f = Body(f)
  <2> HIDE DEF Stop, out, Body
  <2>2. \E f : Walks(f, Places, Stop, out, NextPlace(b))
    BY <1>10, WalkIsDefined
  <2>. QED
    BY <1>2, <2>2
<1>5. Search = Body(Search)
  BY <1>4 DEF Search
<1>6. \A n \in Places : Search[n] = Body(Search)[n]
  BY <1>5
<1>7. from \in Places
  BY DEF Places
<1>11. Search[from] \in Int
  <2> DEFINE X == [n \in Places |-> Int]
  <2>1. Walks(Search, Places, Stop, out, NextPlace(b))
    BY <1>2, <1>5
  <2>2. \A n \in Places \cap Stop : out[n] \in X[n]
    BY DEF Places, NOTFOUND
  <2>3. \A n \in Places \ Stop : X[NextPlace(b)[n]] \subseteq X[n]
    BY NextPlaceIs
  <2>4. Holds(X, Places, Stop, out, NextPlace(b))
    <3> HIDE DEF X, Stop, out
    <3>. QED
      BY <2>2, <2>3 DEF Holds
  <2> HIDE DEF X, Stop, out
  <2>5. Search[from] \in X[from]
    BY <1>7, <1>10, <2>1, <2>4, WalkEndsIn
  <2>. QED
    BY <1>7, <2>5 DEF X
<1>8. CASE parent < 0
  <2>1. Search[from] = parent
    BY <1>6, <1>7, <1>8
  <2>. QED
    BY <1>1, <2>1
<1>9. CASE parent >= 0 /\ CheckNodeOffset(b, parent) = BADOFFSET
  <2> DEFINE bad == [at |-> BADOFFSET, depth |-> 0]
  <2>1. NextNode(b, parent, 0) = bad
    BY <1>9 DEF NextNode, BADOFFSET
  <2>2. Search[from] = Search[bad]
    BY <1>6, <1>7, <1>9, <2>1
  <2>3. bad \in Places /\ bad.at < 0
    BY DEF Places, BADOFFSET
  <2>4. Search[bad] = BADOFFSET
    BY <1>6, <2>3
  <2>. QED
    BY <1>1, <2>2, <2>4 DEF BADOFFSET, NOTFOUND
<1>. QED
  BY <1>1, <1>8, <1>9, <1>11, NodeOffsetIs

(* _fdt_node_end_offset goes on from a node to a tag behind it, where all  *)
(* that was open in front of it is again, or returns an error.             *)
LEMMA NodeEndOffsetIs ==
  ASSUME NEW b, HasStruct(b), NEW node \in Int
  PROVE  LET end == NodeEndOffset(b, node)
         IN  \/ end \in Errors
             \/ /\ node \in Tags(b) /\ end \in Tags(b) /\ end > node
                /\ Passes(b, node, end)
<1> DEFINE Stop == {n \in Places : n.at < 0 \/ n.depth < 0}
           out == [n \in Places |-> n.at]
           Body(f) ==
             [n \in Places |-> IF n.at < 0 \/ n.depth < 0 THEN n.at
                               ELSE f[NextNode(b, n.at, n.depth)]]
           Search == CHOOSE f : f = Body(f)
           from == [at |-> node, depth |-> 0]
           Closes(n, t) ==
             /\ n.depth < 0 => t = n.at
             /\ n.depth >= 0 => \A d, f : Marks(b, d, f) =>
                                  d[t] = d[n.at] - n.depth /\ f[t] = {}
           Then(n) == {t \in Tags(b) : t >= n.at /\ Closes(n, t)}
           X == [n \in Places |->
                   Errors \cup IF n.at \in Tags(b) THEN Then(n) ELSE {n.at}]
<1>0. Tags(b) \subseteq Nat
  BY DEF Tags
<1>1. NodeEndOffset(b, node) = Search[from]
  BY DEF NodeEndOffset, Places
<1>2. ASSUME NEW f
      PROVE  Walks(f, Places, Stop, out, NextPlace(b)) <=> f = Body(f)
  <2> DEFINE Step == [n \in Places |->
                        IF n \in Stop THEN out[n] ELSE f[NextPlace(b)[n]]]
  <2>1. ASSUME NEW n \in Places  PROVE Step[n] = Body(f)[n]
    BY DEF NextPlace
  <2>2. Step = Body(f)
    BY <2>1
  <2>. QED
    BY <2>2 DEF Walks
<1>3. \A n \in Places \ Stop : n.at >= 0
  BY DEF Places
<1>4. Holds(X, Places, Stop, out, NextPlace(b))
  <2>1. ASSUME NEW n \in Places, n \in Stop  PROVE out[n] \in X[n]
    <3>1. n.at \in Int /\ n.depth \in Int /\ (n.at < 0 \/ n.depth < 0)
      BY <2>1 DEF Places
    <3>2. CASE n.at < 0
      BY <3>1, <3>2 DEF Errors
    <3>3. CASE ~(n.at < 0)
      <4>1. n.depth < 0
        BY <3>1, <3>3
      <4>2. Closes(n, n.at)
        BY <3>1, <4>1
      <4> HIDE DEF Closes
      <4>. QED
        BY <3>1, <4>2
    <3>. QED
      BY <3>2, <3>3
  <2>2. ASSUME NEW n \in Places \ Stop  PROVE X[NextPlace(b)[n]] \subseteq X[n]
    <3> DEFINE p == NextPlace(b)[n]
    <3>1. n.at \in Int /\ n.at >= 0 /\ n.depth \in Int /\ n.depth >= 0
      BY DEF Places
    <3>2. /\ p \in Places
          /\ \/ p.at \in Errors
             \/ p.at \in Tags(b) /\ p.at > n.at /\ n.at \in Tags(b)
          /\ Leads(b, n.at, n.depth, p)
      BY <3>1, NextPlaceIs
    <3> HIDE DEF p
    <3>3. p.at \in Int /\ p.depth \in Int
      BY <3>2 DEF Places
    <3>4. CASE p.at \in Errors
      <4>1. p.at \notin Tags(b)
        BY <1>0, <3>4 DEF Errors
      <4>2. X[p] = Errors \cup {p.at}
        BY <3>2, <4>1
      <4>. QED
        BY <3>4, <4>2 DEF p
    <3>5. CASE p.at \in Tags(b) /\ p.at > n.at /\ n.at \in Tags(b)
      <4>1. ASSUME NEW t \in Tags(b), t >= p.at, Closes(p, t)
            PROVE  t >= n.at /\ Closes(n, t)
        <5>1. t >= n.at
          BY <1>0, <3>1, <3>3, <3>5, <4>1
        <5>2. ASSUME NEW d, NEW f, Marks(b, d, f)
              PROVE  d[t] = d[n.at] - n.depth /\ f[t] = {}
          <6>1. /\ p.depth = -1 => d[p.at] = d[n.at] - n.depth /\ f[p.at] = {}
                /\ p.depth # -1 =>
                     p.depth >= 0 /\ d[p.at] = d[n.at] - n.depth + p.depth
            BY <3>2, <3>5, <5>2 DEF Leads
          <6>2. CASE p.depth = -1
            <7>1. t = p.at
              BY <4>1, <6>2
            <7>. QED
              BY <6>1, <6>2, <7>1
          <6>3. CASE p.depth # -1
            <7>1. d[t] = d[p.at] - p.depth /\ f[t] = {}
              BY <4>1, <5>2, <6>1, <6>3
            <7>2. d[n.at] \in Nat
              BY <3>5, <5>2, OnTagIs
            <7>3. d[p.at] = d[n.at] - n.depth + p.depth
              BY <6>1, <6>3
            <7>. QED
              BY <3>1, <3>3, <7>1, <7>2, <7>3
          <6>. QED
            BY <6>2, <6>3
        <5>. QED
          BY <3>1, <5>1, <5>2
      <4> HIDE DEF Closes
      <4>2. Then(p) \subseteq Then(n)
        BY <4>1
      <4>3. X[p] = Errors \cup Then(p) /\ X[n] = Errors \cup Then(n)
        BY <3>2, <3>5
      <4>. QED
        BY <4>2, <4>3 DEF p
    <3>. QED
      BY <3>2, <3>4, <3>5
  <2> HIDE DEF X, out
  <2>. QED
    BY <2>1, <2>2 DEF Holds
<1> HIDE DEF Stop, out, Search, Body
<1>5. /\ b.size_dt_struct + 1 \in Nat
      /\ Ahead(Places, Stop, NextPlace(b), b.size_dt_struct + 1, Rank(b))
  BY <1>3, PlacesAhead
<1>6. \E f : f = Body(f)
  BY <1>2, <1>5, WalkIsDefined
<1>7. Walks(Search, Places, Stop, out, NextPlace(b))
  BY <1>2, <1>6 DEF Search
<1>8. \A n \in Places : Search[n] \in X[n]
  <2> HIDE DEF X
  <2>. QED
    BY <1>4, <1>5, <1>7, WalkEndsIn
<1>9. Search = Body(Search)
  BY <1>2, <1>7
<1>10. from \in Places
  BY DEF Places
<1>11. CASE node < 0
  <2>1. Search[from] = node
    BY <1>9, <1>10, <1>11 DEF Body
  <2>. QED
    BY <1>1, <1>11, <2>1 DEF Errors
<1>12. CASE ~(node < 0)
  <2> DEFINE p == NextPlace(b)[from]
  <2>1. Search[from] = Search[p]
    BY <1>9, <1>10, <1>12 DEF Body, NextPlace
  <2>2. /\ p \in Places
        /\ \/ p.at \in Errors
           \/ p.at \in Tags(b) /\ p.at > node /\ node \in Tags(b)
    <3>1. from.at = node
      OBVIOUS
    <3> HIDE DEF from
    <3>. QED
      BY <1>10, <1>12, <3>1, NextPlaceIs
  <2> HIDE DEF p
  <2>3. Search[p] \in X[p] /\ Search[from] \in X[from]
    BY <1>8, <1>10, <2>2
  <2> DEFINE end == Search[from]
  <2>4. NodeEndOffset(b, node) = end /\ end \in X[p] /\ end \in X[from]
    BY <1>1, <2>1, <2>3
  <2>5. CASE p.at \in Errors
    <3>1. p.at \notin Tags(b)
      BY <1>0, <2>5 DEF Errors
    <3>2. X[p] = Errors \cup {p.at}
      BY <2>2, <3>1
    <3>. QED
      BY <2>4, <2>5, <3>2
  <2>6. CASE p.at \in Tags(b) /\ p.at > node /\ node \in Tags(b)
    <3>1. \A t \in Tags(b) : t >= p.at => t > node
      BY <1>0, <2>6
    <3>2. from.at = node /\ from.depth = 0
      OBVIOUS
    <3> HIDE DEF from, end
    <3>3. X[p] = Errors \cup Then(p) /\ X[from] = Errors \cup Then(from)
      <4> HIDE DEF Then
      <4>. QED
        BY <1>10, <2>2, <2>6, <3>2
    <3> HIDE DEF X
    <3>4. CASE end \in Errors
      BY <2>4, <3>4
    <3>5. CASE end \in Then(p) /\ end \in Then(from)
      <4>1. end \in Tags(b) /\ end > node
        BY <3>1, <3>5
      <4>2. Closes(from, end)
        BY <3>5
      <4>3. ASSUME NEW d, NEW f, Marks(b, d, f)
            PROVE  d[end] = d[node] /\ f[end] \subseteq f[node]
        <5>1. d[end] = d[node] - 0 /\ f[end] = {}
          BY <3>2, <4>2, <4>3
        <5>2. d[node] \in Nat
          BY <2>6, <4>3, OnTagIs
        <5>. QED
          BY <5>1, <5>2
      <4>4. Passes(b, node, end)
        BY <4>3 DEF Passes
      <4>. QED
        BY <2>4, <2>6, <4>1, <4>4
    <3>. QED
      BY <2>4, <3>3, <3>4, <3>5
  <2>. QED
    BY <2>2, <2>5, <2>6
<1>. QED
  BY <1>11, <1>12

(* The place for a new subnode is at a tag of the parent, behind its       *)
(* properties.                                                             *)
LEMMA PlaceIs ==
  ASSUME NEW b, HasStruct(b), NEW parent \in Tags(b),
         TagOf(b, parent) = "BEGIN_NODE"
  PROVE  /\ Place(b, parent) \in Tags(b) /\ Place(b, parent) > parent
         /\ TagOf(b, Place(b, parent)) \notin {"PROP", "NOP"}
         /\ \A t \in Tags(b) : parent < t /\ t < Place(b, parent) =>
              TagOf(b, t) \in {"PROP", "NOP"}
<1> DEFINE Stop == {o \in WalkOffsets : NextTag(b, o).tag \notin {"PROP", "NOP"}}
           out == [o \in WalkOffsets |-> o]
           Body(f) ==
             [o \in WalkOffsets |->
                LET t == NextTag(b, o)
                IN  IF t.tag \in {"PROP", "NOP"} THEN f[t.next] ELSE o]
           Skip == CHOOSE f : f = Body(f)
           Between(o, t) == \A u \in Tags(b) : o <= u /\ u < t =>
                              TagOf(b, u) \in {"PROP", "NOP"}
           X == [o \in WalkOffsets |->
                   {t \in Stop : \/ t = o
                                 \/ t \in Tags(b) /\ t >= o /\ Between(o, t)}]
<1>0. Tags(b) \subseteq Nat /\ Tags(b) \subseteq WalkOffsets
  BY DEF Tags, WalkOffsets
<1>1. Place(b, parent) = Skip[Following(b, parent)]
  <2>1. NextTag(b, parent) = [tag |-> TagOf(b, parent), next |-> Following(b, parent)]
    BY NextTagIs
  <2>2. NextTag(b, parent).next = Following(b, parent)
    BY <2>1
  <2>3. Place(b, parent) = Skip[NextTag(b, parent).next]
    BY DEF Place
  <2>. QED
    BY <2>2, <2>3
<1>2. ASSUME NEW f
      PROVE  Walks(f, WalkOffsets, Stop, out, NextOffset(b)) <=> f = Body(f)
  <2> DEFINE Step == [o \in WalkOffsets |->
                        IF o \in Stop THEN out[o] ELSE f[NextOffset(b)[o]]]
  <2>1. ASSUME NEW o \in WalkOffsets  PROVE Step[o] = Body(f)[o]
    BY DEF NextOffset
  <2>2. Step = Body(f)
    BY <2>1
  <2>. QED
    BY <2>2 DEF Walks
<1>3. ASSUME NEW o \in WalkOffsets, o \notin Stop
      PROVE  o \in Tags(b) /\ TagOf(b, o) # "END"
  <2>1. NextTag(b, o).tag # "END"
    BY <1>3
  <2>2. o \in Tags(b)
    BY <2>1, NoTagIs
  <2>3. NextTag(b, o).tag = TagOf(b, o)
    BY <2>2, NextTagIs
  <2>. QED
    BY <2>1, <2>2, <2>3
<1>4. ASSUME NEW o \in WalkOffsets, o \in Stop  PROVE out[o] \in X[o]
  BY <1>4
<1> HIDE DEF Stop, out, Skip, Body
<1>5. /\ b.size_dt_struct \in Nat
      /\ Ahead(WalkOffsets, Stop, NextOffset(b), b.size_dt_struct, Distance(b))
      /\ \A o \in WalkOffsets \ Stop : NextOffset(b)[o] = Following(b, o)
  BY <1>3, TagsAhead
<1>6. \E f : f = Body(f)
  BY <1>2, <1>5, WalkIsDefined
<1>7. Walks(Skip, WalkOffsets, Stop, out, NextOffset(b))
  BY <1>2, <1>6 DEF Skip
<1>8. ASSUME NEW o \in WalkOffsets \ Stop  PROVE X[NextOffset(b)[o]] \subseteq X[o]
  <2>1. /\ Following(b, o) \in Tags(b) /\ Following(b, o) > o /\ o \in Int
        /\ NextOffset(b)[o] = Following(b, o)
    BY <1>3, <1>5, FollowingIs, TagAt
  <2> DEFINE next == Following(b, o)
  <2>2. next \in Tags(b) /\ next > o /\ NextOffset(b)[o] = next
    BY <2>1
  <2> HIDE DEF next
  <2>3. \A p \in Tags(b) : p >= next => p >= o
    BY <1>0, <2>1, <2>2
  <2>4. next \in WalkOffsets /\ next >= o
    BY <1>0, <2>1, <2>2
  <2>5. TagOf(b, o) \in {"PROP", "NOP"}
    <3>1. NextTag(b, o).tag \in {"PROP", "NOP"} /\ o \in Tags(b)
      BY <1>3 DEF Stop
    <3>. QED
      BY <3>1, NextTagIs
  <2>6. \A u \in Tags(b) : o <= u => u = o \/ next <= u
    <3>1. \A u \in Tags(b) : u > o => u >= next
      BY <1>3, FollowingIs DEF next
    <3>. QED
      BY <1>0, <2>1, <2>2, <3>1
  <2>7. \A t : Between(next, t) => Between(o, t)
    BY <2>5, <2>6
  <2>8. Between(o, next)
    <3>1. \A u \in Tags(b) : o <= u /\ u < next => u = o
      BY <1>0, <2>1, <2>2, <2>6
    <3>. QED
      BY <2>5, <3>1
  <2> HIDE DEF Between
  <2>. QED
    BY <2>2, <2>3, <2>4, <2>7, <2>8
<1>9. \A o \in WalkOffsets : Skip[o] \in X[o]
  <2>1. Holds(X, WalkOffsets, Stop, out, NextOffset(b))
    <3> HIDE DEF X
    <3>. QED
      BY <1>4, <1>8 DEF Holds
  <2> HIDE DEF X
  <2>. QED
    BY <1>5, <1>7, <2>1, WalkEndsIn
<1>10. Following(b, parent) \in Tags(b) /\ Following(b, parent) > parent
  BY FollowingIs
<1>11. Skip[Following(b, parent)] \in X[Following(b, parent)]
  BY <1>0, <1>9, <1>10
<1>12. \A p \in Tags(b) : p >= Following(b, parent) => p > parent
  BY <1>0, <1>10
<1> DEFINE place == Place(b, parent)
           next == Following(b, parent)
<1>13. place \in Stop /\ place \in Tags(b) /\ place >= next /\ Between(next, place)
  <2> DEFINE x == Skip[next]
  <2>1. x \in Stop /\ (x = next \/ (x \in Tags(b) /\ x >= next /\ Between(next, x)))
    BY <1>0, <1>10, <1>11
  <2>2. x = place /\ next \in Tags(b) /\ next \in Nat
    BY <1>0, <1>1, <1>10
  <2> HIDE DEF x, next, Between
  <2>3. next >= next /\ Between(next, next)
    <3>1. \A u \in Tags(b) : ~(next <= u /\ u < next)
      BY <1>0, <2>2
    <3>. QED
      BY <2>2, <3>1 DEF Between
  <2>. QED
    BY <2>1, <2>2, <2>3
<1>14. TagOf(b, place) \notin {"PROP", "NOP"}
  <2>1. NextTag(b, place).tag \notin {"PROP", "NOP"}
    BY <1>13 DEF Stop
  <2> HIDE DEF place
  <2>. QED
    BY <1>13, <2>1, NextTagIs
<1>15. ASSUME NEW t \in Tags(b), parent < t, t < place
       PROVE  TagOf(b, t) \in {"PROP", "NOP"}
  <2>1. next <= t
    BY <1>15, FollowingIs
  <2>. QED
    BY <1>13, <1>15, <2>1
<1>. QED
  BY <1>12, <1>13, <1>14, <1>15

-----------------------------------------------------------------------------
(* Edits of the structure block.                                           *)

(* A tag goes with the cells up to the next one.                           *)
LEMMA TagMoves ==
  ASSUME NEW b, HasStruct(b), NEW o \in Tags(b), NEW c, NEW d, IsMultiple(d),
         c.size_dt_strings \in Nat, c.size_dt_strings >= b.size_dt_strings,
         \A i \in o .. Following(b, o) - 1 : Struct(c, i + d) = Struct(b, i)
  PROVE  /\ Struct(c, o + d)[1] = "tag"
         /\ TagOf(c, o + d) = TagOf(b, o)
         /\ LengthAt(c, o + d) = LengthAt(b, o)
         /\ Following(c, o + d) = Following(b, o) + d
         /\ TagOf(b, o) = "BEGIN_NODE" => NodeName(c, o + d) \in NodeNames
         /\ TagOf(b, o) = "PROP" =>
              /\ PropLen(c, o + d) \in Nat
              /\ NameOff(c, o + d) = NameOff(b, o)
              /\ NameOff(c, o + d) \in 0 .. c.size_dt_strings - 1
<1>1. /\ o \in Nat /\ LengthAt(b, o) \in Nat /\ LengthAt(b, o) >= FDT_TAGSIZE
      /\ Following(b, o) \in Nat /\ o + LengthAt(b, o) <= Following(b, o)
      /\ d \in Int
  BY TagAt DEF IsMultiple
<1>2. /\ b.size_dt_strings \in Nat
      /\ TagOf(b, o) = "BEGIN_NODE" => NodeName(b, o) \in NodeNames
      /\ TagOf(b, o) = "PROP" => /\ PropLen(b, o) \in Nat
                                 /\ NameOff(b, o) \in 0 .. b.size_dt_strings - 1
  BY DEF HasStruct, StructIsSound, TagIsSound, TagOf
<1>3. Struct(c, o + d) = Struct(b, o)
  BY <1>1, TagSizeIs
<1>4. Struct(c, o + d)[1] = "tag" /\ TagOf(c, o + d) = TagOf(b, o)
  BY <1>3 DEF Tags, TagOf
<1>5. ASSUME TagOf(b, o) = "BEGIN_NODE"
      PROVE  /\ LengthAt(c, o + d) = LengthAt(b, o)
             /\ NodeName(c, o + d) \in NodeNames
  <2>1. LengthAt(b, o) = FDT_TAGSIZE + NodeLength[NodeName(b, o)] + 1
    BY <1>5 DEF LengthAt, TagLength
  <2>2. NodeLength[NodeName(b, o)] \in Nat
    BY <1>2, <1>5, NamesAssumption
  <2>3. o + FDT_TAGSIZE \in o .. Following(b, o) - 1
    BY <1>1, <2>1, <2>2, TagSizeIs
  <2>4. (o + FDT_TAGSIZE) + d = (o + d) + FDT_TAGSIZE
    BY <1>1, TagSizeIs
  <2>5. NodeName(c, o + d) = NodeName(b, o)
    BY <2>3, <2>4 DEF NodeName
  <2>6. LengthAt(c, o + d) = LengthAt(b, o)
    BY <1>4, <1>5, <2>1, <2>5 DEF LengthAt, TagLength
  <2>. QED
    BY <1>2, <1>5, <2>5, <2>6
<1>6. ASSUME TagOf(b, o) = "PROP"
      PROVE  /\ LengthAt(c, o + d) = LengthAt(b, o)
             /\ PropLen(c, o + d) \in Nat
             /\ NameOff(c, o + d) = NameOff(b, o)
             /\ NameOff(c, o + d) \in 0 .. c.size_dt_strings - 1
  <2>1. LengthAt(b, o) = PropHeader + PropLen(b, o)
    BY <1>6 DEF LengthAt, TagLength
  <2>2. PropLen(b, o) \in Nat
    BY <1>2, <1>6
  <2>3. /\ o + FDT_TAGSIZE \in o .. Following(b, o) - 1
        /\ o + 2 * FDT_TAGSIZE \in o .. Following(b, o) - 1
    BY <1>1, <2>1, <2>2, TagSizeIs DEF PropHeader
  <2>4. /\ (o + FDT_TAGSIZE) + d = (o + d) + FDT_TAGSIZE
        /\ (o + 2 * FDT_TAGSIZE) + d = (o + d) + 2 * FDT_TAGSIZE
    BY <1>1, TagSizeIs
  <2>5. PropLen(c, o + d) = PropLen(b, o) /\ NameOff(c, o + d) = NameOff(b, o)
    BY <2>3, <2>4 DEF PropLen, NameOff
  <2>6. LengthAt(c, o + d) = LengthAt(b, o)
    BY <1>4, <1>6, <2>1, <2>5 DEF LengthAt, TagLength
  <2>7. NameOff(c, o + d) \in 0 .. c.size_dt_strings - 1
    BY <1>2, <1>6, <2>5
  <2>. QED
    BY <1>6, <2>2, <2>5, <2>6, <2>7
<1>7. ASSUME TagOf(b, o) \notin {"BEGIN_NODE", "PROP"}
      PROVE  LengthAt(c, o + d) = LengthAt(b, o)
  BY <1>4, <1>7 DEF LengthAt, TagLength
<1>8. LengthAt(c, o + d) = LengthAt(b, o)
  BY <1>5, <1>6, <1>7
<1>9. Following(c, o + d) = Following(b, o) + d
  <2>1. /\ Following(b, o) = TagAlign(o + LengthAt(b, o))
        /\ Following(c, o + d) = TagAlign((o + d) + LengthAt(c, o + d))
    BY DEF Following, LengthAt, TagOf
  <2>2. (o + d) + LengthAt(c, o + d) = d + (o + LengthAt(b, o))
    BY <1>1, <1>8
  <2>3. o + LengthAt(b, o) \in Int
    BY <1>1
  <2>4. TagAlign(d + (o + LengthAt(b, o))) = d + TagAlign(o + LengthAt(b, o))
    BY <2>3, AlignmentMoves
  <2>5. Following(c, o + d) = d + Following(b, o)
    BY <2>1, <2>2, <2>4
  <2>. QED
    BY <1>1, <2>5
<1>. QED
  BY <1>4, <1>5, <1>6, <1>7, <1>8, <1>9

(* The addresses from p to p + old have become those from p to p + new,    *)
(* and those behind them have moved.                                       *)
Edited(b, c, p, old, new) ==
  /\ c.size_dt_struct = b.size_dt_struct - old + new
  /\ c.size_dt_strings \in Nat /\ c.size_dt_strings >= b.size_dt_strings
  /\ \A i \in 0 .. p - 1 : Struct(c, i) = Struct(b, i)
  /\ \A i \in p + old .. b.size_dt_struct - 1 :
       Struct(c, i + (new - old)) = Struct(b, i)

(* The tag of b at o is that of c at u, and the next is as far behind.      *)
SameTag(b, o, c, u) ==
  /\ o \in Tags(b) /\ TagOf(c, u) = TagOf(b, o)
  /\ Following(c, u) = Following(b, o) + (u - o)
  /\ TagOf(b, o) = "BEGIN_NODE" => NodeName(c, u) \in NodeNames
  /\ TagOf(b, o) = "PROP" =>
       /\ PropLen(c, u) \in Nat /\ NameOff(c, u) = NameOff(b, o)
       /\ NameOff(c, u) \in 0 .. c.size_dt_strings - 1

(* The tags in front of the edit are where they were, and those behind it  *)
(* where they have moved.                                                  *)
TagsStay(b, c, p) ==
  \A o \in Nat : o < p =>
    /\ o \in Tags(c) <=> o \in Tags(b)
    /\ o \in Tags(b) => /\ SameTag(b, o, c, o) /\ TagOf(b, o) # "END"
                        /\ Following(b, o) <= p

TagsMove(b, c, p, d) ==
  \A o \in Int : o >= p =>
    /\ o + d \in Tags(c) <=> o \in Tags(b)
    /\ o \in Tags(b) => SameTag(b, o, c, o + d)

(* An edit from tag to tag.                                                *)
LEMMA EditedTags ==
  ASSUME NEW b, HasStruct(b), NEW c, NEW p \in Tags(b),
         NEW old \in Nat, NEW new \in Nat, IsMultiple(new),
         p + old \in Tags(b), Edited(b, c, p, old, new)
  PROVE  /\ TagsStay(b, c, p) /\ TagsMove(b, c, p + old, new - old)
         /\ p + new \in Tags(c)
         /\ c.size_dt_struct \in Nat /\ IsMultiple(c.size_dt_struct)
<1> DEFINE size == b.size_dt_struct
           d == new - old
<1>1. /\ size \in Nat /\ IsMultiple(size) /\ p \in Nat /\ p + old < size
      /\ IsMultiple(p) /\ IsMultiple(p + old)
      /\ \A o \in Tags(b) : o \in Nat /\ o < size
  BY DEF HasStruct, StructIsSound, Tags, IsMultiple
<1>2. IsMultiple(old) /\ IsMultiple(d)
  <2>1. old = (p + old) - p
    BY <1>1
  <2>2. IsMultiple(old)
    BY <1>1, <2>1, Multiples
  <2>. QED
    BY <2>2, Multiples
<1>3. /\ c.size_dt_struct = size + d /\ c.size_dt_struct \in Nat /\ d \in Int
      /\ IsMultiple(c.size_dt_struct)
  <2>1. c.size_dt_struct = size + d /\ size + d \in Nat /\ d \in Int
    BY <1>1 DEF Edited
  <2>2. IsMultiple(size + d)
    BY <1>1, <1>2, Multiples
  <2>. QED
    BY <2>1, <2>2
<1>4. c.size_dt_strings \in Nat /\ c.size_dt_strings >= b.size_dt_strings
  BY DEF Edited
<1>5. /\ \A i \in 0 .. p - 1 : Struct(c, i) = Struct(b, i)
      /\ \A i \in p + old .. size - 1 : Struct(c, i + d) = Struct(b, i)
  BY DEF Edited
<1> HIDE DEF size, d
<1>6. \A o : o \in Tags(c) <=> /\ o \in 0 .. c.size_dt_struct - 1 /\ IsMultiple(o)
                               /\ Struct(c, o)[1] = "tag"
  BY DEF Tags, IsMultiple
<1>7. \A o : o \in Tags(b) <=> /\ o \in 0 .. size - 1 /\ IsMultiple(o)
                               /\ Struct(b, o)[1] = "tag"
  BY DEF Tags, IsMultiple, size
<1>8. ASSUME NEW o \in Nat, o < p  PROVE o \in Tags(c) <=> o \in Tags(b)
  <2>1. o \in 0 .. p - 1 /\ o \in 0 .. size - 1 /\ o \in 0 .. c.size_dt_struct - 1
    BY <1>1, <1>3, <1>8 DEF d
  <2>. QED
    BY <1>5, <1>6, <1>7, <2>1
<1>9. ASSUME NEW o \in Int, o >= p + old  PROVE o + d \in Tags(c) <=> o \in Tags(b)
  <2>1. o \in 0 .. size - 1 <=> o + d \in 0 .. c.size_dt_struct - 1
    BY <1>1, <1>3, <1>9 DEF d
  <2>2. IsMultiple(o) <=> IsMultiple(o + d)
    <3>1. (o + d) - d = o
      BY <1>3
    <3>. QED
      BY <1>2, <3>1, Multiples
  <2>3. o \in 0 .. size - 1 => Struct(c, o + d) = Struct(b, o)
    BY <1>1, <1>5, <1>9
  <2>. QED
    BY <1>6, <1>7, <2>1, <2>2, <2>3
<1>10. p + new \in Tags(c)
  <2>1. (p + old) + d = p + new /\ p + old \in Int
    BY <1>1 DEF d
  <2>. QED
    BY <1>9, <1>1, <2>1
<1>11. ASSUME NEW o \in Tags(b), o < p
       PROVE  SameTag(b, o, c, o) /\ TagOf(b, o) # "END" /\ Following(b, o) <= p
  <2>1. o \in Nat
    BY <1>1
  <2>2. TagOf(b, o) # "END" => /\ Following(b, o) \in Tags(b)
                               /\ Following(b, o) <= p /\ Following(b, o) > o
    BY <1>11, <2>1, FollowingIs
  <2>3. TagOf(b, o) # "END"
    <3> SUFFICES ASSUME TagOf(b, o) = "END" PROVE FALSE
      OBVIOUS
    <3>1. /\ Following(b, o) = size
          /\ Tags(b) \cap (o + 1 .. Following(b, o) - 1) = {}
      BY <2>1 DEF HasStruct, StructIsSound, TagIsSound, TagOf, size
    <3>. QED
      BY <1>1, <1>11, <2>1, <3>1
  <2> DEFINE f == Following(b, o)
             u == o + 0
  <2>4. f \in Tags(b) /\ f \in Nat /\ f <= p /\ f > o
    BY <1>1, <2>2, <2>3
  <2>5. \A i \in o .. f - 1 : Struct(c, i + 0) = Struct(b, i)
    BY <1>1, <1>5, <2>1, <2>4
  <2>6. /\ TagOf(c, u) = TagOf(b, o) /\ Following(c, u) = f + 0
        /\ TagOf(b, o) = "BEGIN_NODE" => NodeName(c, u) \in NodeNames
        /\ TagOf(b, o) = "PROP" =>
             /\ PropLen(c, u) \in Nat /\ NameOff(c, u) = NameOff(b, o)
             /\ NameOff(c, u) \in 0 .. c.size_dt_strings - 1
    BY <1>4, <2>5, TagMoves, Multiples
  <2>7. u = o /\ f + 0 = f + (o - o)
    BY <2>1, <2>4
  <2> HIDE DEF u
  <2>8. SameTag(b, o, c, o)
    BY <2>6, <2>7 DEF SameTag
  <2>. QED
    BY <2>3, <2>4, <2>8
<1>12. ASSUME NEW o \in Tags(b), o >= p + old  PROVE SameTag(b, o, c, o + d)
  <2> DEFINE f == Following(b, o)
             u == o + d
  <2>1. o \in Nat /\ f \in Nat /\ f > o /\ f <= size
    BY TagAt, TagSizeIs DEF size
  <2>2. \A i \in o .. f - 1 : Struct(c, i + d) = Struct(b, i)
    BY <1>1, <1>5, <1>12, <2>1
  <2>3. /\ TagOf(c, u) = TagOf(b, o) /\ Following(c, u) = f + d
        /\ TagOf(b, o) = "BEGIN_NODE" => NodeName(c, u) \in NodeNames
        /\ TagOf(b, o) = "PROP" =>
             /\ PropLen(c, u) \in Nat /\ NameOff(c, u) = NameOff(b, o)
             /\ NameOff(c, u) \in 0 .. c.size_dt_strings - 1
    BY <1>2, <1>4, <2>2, TagMoves
  <2>4. f + d = f + (u - o)
    BY <1>3, <2>1
  <2> HIDE DEF u
  <2>5. SameTag(b, o, c, u)
    BY <2>3, <2>4 DEF SameTag
  <2>. QED
    BY <2>5 DEF u
<1>13. TagsStay(b, c, p)
  BY <1>8, <1>11 DEF TagsStay
<1>14. TagsMove(b, c, p + old, d)
  BY <1>9, <1>12 DEF TagsMove
<1>. QED
  BY <1>3, <1>10, <1>13, <1>14 DEF d

(* From tag to tag the edit leaves a sound block sound if what it puts in  *)
(* is.                                                                     *)
LEMMA EditedIsSound ==
  ASSUME NEW b, HasStruct(b), NEW c, NEW p \in Tags(b),
         NEW old \in Nat, NEW new \in Nat, IsMultiple(new),
         p + old \in Tags(b), Edited(b, c, p, old, new),
         p \in Tags(c),
         \A o \in Tags(c) : o \in p .. p + new - 1 => TagIsSound(c, o)
  PROVE  HasStruct(c)
<1> DEFINE size == b.size_dt_struct
           d == new - old
           end == p + old
<1>1. /\ size \in Nat /\ p \in Nat
      /\ \A o \in Tags(b) : o \in Nat /\ o < size
  BY DEF HasStruct, StructIsSound, Tags
<1>2. /\ c.size_dt_struct = size + d /\ d \in Int /\ p + new = end + d
      /\ end \in Int /\ end >= p /\ c.size_dt_strings \in Nat
  BY <1>1 DEF Edited
<1>3. /\ TagsStay(b, c, p) /\ TagsMove(b, c, end, d)
      /\ c.size_dt_struct \in Nat /\ IsMultiple(c.size_dt_struct)
  BY EditedTags
<1>4. \A o \in Tags(c) : o \in Nat /\ o < c.size_dt_struct
  BY <1>3 DEF Tags
<1> HIDE DEF size, d, end
<1>5. end \in Tags(b) /\ end + d \in Tags(c)
  <2>1. end \in Tags(b)
    BY DEF end
  <2>. QED
    BY <1>1, <1>3, <2>1 DEF TagsMove
<1>6. ASSUME NEW o \in Tags(c), o < p  PROVE TagIsSound(c, o)
  <2> DEFINE f == Following(b, o)
  <2>1. /\ o \in Nat /\ o \in Tags(b) /\ SameTag(b, o, c, o)
        /\ TagOf(b, o) # "END" /\ f <= p
    BY <1>3, <1>4, <1>6 DEF TagsStay
  <2>2. /\ f \in Tags(b) /\ f > o /\ f \in Nat
        /\ \A t \in Tags(b) : t > o => t >= f
    BY <2>1, FollowingIs, TagAt
  <2>3. Following(c, o) = f
    BY <2>1, <2>2 DEF SameTag
  <2> HIDE DEF f
  <2>4. f \in Tags(c)
    <3>1. f = p \/ f < p
      BY <1>1, <2>1, <2>2
    <3>. QED
      BY <1>1, <1>3, <2>2, <3>1 DEF TagsStay
  <2>5. Tags(c) \cap (o + 1 .. f - 1) = {}
    <3>1. ASSUME NEW t \in Tags(c), t \in o + 1 .. f - 1  PROVE FALSE
      <4>1. t \in Nat /\ t < p /\ t > o /\ t < f
        BY <1>1, <1>4, <2>1, <2>2, <3>1
      <4>2. t \in Tags(b)
        BY <1>3, <4>1 DEF TagsStay
      <4>. QED
        BY <1>1, <2>2, <4>1, <4>2
    <3>. QED
      BY <3>1
  <2>6. TagOf(b, o) \in TagKinds
    BY <2>1, TagAt
  <2>. QED
    BY <2>1, <2>3, <2>4, <2>5, <2>6 DEF SameTag, TagIsSound, TagOf, TagKinds
<1>7. ASSUME NEW o \in Tags(c), o >= p + new  PROVE TagIsSound(c, o)
  <2> DEFINE q == o - d
             f == Following(b, q)
  <2>1. q + d = o /\ q \in Int /\ q >= end
    BY <1>1, <1>2, <1>4, <1>7
  <2> HIDE DEF q
  <2>2. q \in Tags(b) /\ q \in Nat
    BY <1>1, <1>3, <2>1 DEF TagsMove
  <2>3. f \in Nat /\ f > q /\ f <= size /\ TagOf(b, q) \in TagKinds
    BY <2>2, TagAt, TagSizeIs DEF size
  <2>4. SameTag(b, q, c, o)
    BY <1>3, <2>1, <2>2 DEF TagsMove
  <2>5. Following(c, o) = f + d
    BY <1>2, <2>1, <2>3, <2>4 DEF SameTag
  <2>6. /\ TagOf(b, q) = "END" => f = size
        /\ TagOf(b, q) # "END" => f \in Tags(b)
        /\ Tags(b) \cap (q + 1 .. f - 1) = {}
    BY <2>2 DEF HasStruct, StructIsSound, TagIsSound, TagOf, size
  <2> HIDE DEF f
  <2>7. /\ TagOf(b, q) = "END" => f + d = c.size_dt_struct
        /\ TagOf(b, q) # "END" => f + d \in Tags(c)
    <3>1. f >= end /\ f \in Int
      BY <1>1, <1>2, <2>1, <2>3
    <3>. QED
      BY <1>2, <1>3, <2>6, <3>1 DEF TagsMove
  <2>8. Tags(c) \cap (o + 1 .. (f + d) - 1) = {}
    <3>1. ASSUME NEW t \in Tags(c), t \in o + 1 .. (f + d) - 1  PROVE FALSE
      <4>1. /\ t - d \in Int /\ (t - d) + d = t /\ t - d >= end
            /\ t - d \in q + 1 .. f - 1
        BY <1>1, <1>2, <1>4, <2>1, <2>2, <2>3, <3>1
      <4>2. t - d \in Tags(b)
        BY <1>3, <4>1 DEF TagsMove
      <4>. QED
        BY <2>6, <4>1, <4>2
    <3>. QED
      BY <3>1
  <2>. QED
    BY <2>3, <2>4, <2>5, <2>7, <2>8 DEF SameTag, TagIsSound, TagOf, TagKinds
<1>8. ASSUME NEW o \in Tags(c)  PROVE TagIsSound(c, o)
  <2>1. o \in Nat
    BY <1>4
  <2>2. o < p \/ o >= p + new \/ o \in p .. p + new - 1
    BY <1>1, <2>1
  <2>. QED
    BY <1>6, <1>7, <2>2
<1>9. 0 \in Tags(c)
  <2>1. CASE p = 0
    BY <2>1
  <2>2. CASE p # 0
    <3>1. 0 \in Tags(b)
      BY DEF HasStruct, StructIsSound
    <3>. QED
      BY <1>1, <1>3, <2>2, <3>1 DEF TagsStay
  <2>. QED
    BY <2>1, <2>2
<1>. QED
  BY <1>2, <1>3, <1>8, <1>9 DEF HasStruct, StructIsSound, IsMultiple

-----------------------------------------------------------------------------
(* Edits of blocks whose tags are in order.                                *)

(* The same tag in the same surroundings.                                  *)
LEMMA OnTagMoves ==
  ASSUME NEW b, NEW o, NEW c, NEW u, SameTag(b, o, c, u),
         TagOf(b, o) = "PROP" => PropName(c, u) = PropName(b, o),
         NEW d, NEW f, NEW e, NEW g, OnTag(b, o, d, f),
         e[u] = d[o], g[u] = f[o],
         TagOf(b, o) # "END" =>
           /\ e[Following(c, u)] = d[Following(b, o)]
           /\ g[Following(c, u)] \subseteq f[Following(b, o)]
  PROVE  OnTag(c, u, e, g)
<1> DEFINE tag == TagOf(b, o)
           m == Following(b, o)
           n == Following(c, u)
           name == PropName(b, o)
<1>1. TagOf(c, u) = tag
  BY DEF SameTag
<1>2. /\ d[o] \in Nat
      /\ tag = "END" => d[o] = 0
      /\ tag = "BEGIN_NODE" => d[m] = d[o] + 1
      /\ tag = "END_NODE" => d[o] > 0 /\ d[m] = d[o] - 1 /\ f[m] = {}
      /\ tag = "PROP" => d[m] = d[o] /\ name \in f[o] /\ f[m] \subseteq f[o] \ {name}
      /\ tag = "NOP" => d[m] = d[o] /\ f[m] \subseteq f[o]
  BY DEF OnTag
<1>3. tag # "END" => e[n] = d[m] /\ g[n] \subseteq f[m]
  OBVIOUS
<1>4. tag = "PROP" => PropName(c, u) = name
  OBVIOUS
<1> HIDE DEF tag, m, n, name
<1>5. /\ e[u] \in Nat
      /\ tag = "END" => e[u] = 0
      /\ tag = "BEGIN_NODE" => e[n] = e[u] + 1
      /\ tag = "END_NODE" => e[u] > 0 /\ e[n] = e[u] - 1 /\ g[n] = {}
      /\ tag = "PROP" => e[n] = e[u] /\ name \in g[u] /\ g[n] \subseteq g[u] \ {name}
      /\ tag = "NOP" => e[n] = e[u] /\ g[n] \subseteq g[u]
  <2>1. /\ e[u] \in Nat /\ tag = "END" => e[u] = 0
    BY <1>2
  <2>2. tag = "BEGIN_NODE" => e[n] = e[u] + 1
    BY <1>2, <1>3
  <2>3. tag = "END_NODE" => e[u] > 0 /\ e[n] = e[u] - 1 /\ g[n] = {}
    BY <1>2, <1>3
  <2>4. tag = "PROP" => e[n] = e[u] /\ name \in g[u] /\ g[n] \subseteq g[u] \ {name}
    BY <1>2, <1>3
  <2>5. tag = "NOP" => e[n] = e[u] /\ g[n] \subseteq g[u]
    BY <1>2, <1>3
  <2>. QED
    BY <2>1, <2>2, <2>3, <2>4, <2>5, <1>2
<1>. QED
  BY <1>1, <1>4, <1>5 DEF OnTag, n

SameNames(b, c) ==
  \A i \in 0 .. b.size_dt_strings - 1 : String(c, i) = String(b, i)

(* A property in the same place of the same strings has the same name.     *)
LEMMA NameStays ==
  ASSUME NEW b, HasStruct(b), NEW c, SameNames(b, c), NEW o, NEW u,
         SameTag(b, o, c, u)
  PROVE  TagOf(b, o) = "PROP" => PropName(c, u) = PropName(b, o)
<1>1. ASSUME TagOf(b, o) = "PROP"  PROVE PropName(c, u) = PropName(b, o)
  <2>1. NameOff(c, u) = NameOff(b, o) /\ o \in Tags(b)
    BY <1>1 DEF SameTag
  <2>2. NameOff(b, o) \in 0 .. b.size_dt_strings - 1
    BY <1>1, <2>1 DEF HasStruct, StructIsSound, TagIsSound, TagOf
  <2>. QED
    BY <2>1, <2>2 DEF SameNames, PropName
<1>. QED
  BY <1>1

(* The blocks say the same.                                                *)
LEMMA OrderKept ==
  ASSUME NEW b, HasStruct(b), NEW c, c.size_dt_struct = b.size_dt_struct,
         c.size_dt_strings \in Nat, c.size_dt_strings >= b.size_dt_strings,
         \A i \in 0 .. b.size_dt_struct - 1 : Struct(c, i) = Struct(b, i),
         SameNames(b, c)
  PROVE  Ordered(b) => Ordered(c)
<1>1. b.size_dt_struct \in Nat
  BY DEF HasStruct
<1>2. Tags(c) = Tags(b)
  BY <1>1 DEF Tags
<1>3. ASSUME NEW o \in Tags(b)  PROVE SameTag(b, o, c, o)
  <2> DEFINE n == Following(b, o)
             u == o + 0
  <2>1. o \in Nat /\ n \in Nat /\ n <= b.size_dt_struct
    BY TagAt
  <2>2. \A i \in o .. n - 1 : Struct(c, i + 0) = Struct(b, i)
    BY <1>1, <2>1
  <2>3. /\ TagOf(c, u) = TagOf(b, o) /\ Following(c, u) = n + 0
        /\ TagOf(b, o) = "BEGIN_NODE" => NodeName(c, u) \in NodeNames
        /\ TagOf(b, o) = "PROP" =>
             /\ PropLen(c, u) \in Nat /\ NameOff(c, u) = NameOff(b, o)
             /\ NameOff(c, u) \in 0 .. c.size_dt_strings - 1
    BY <2>2, TagMoves, Multiples
  <2>4. u = o /\ n + 0 = n + (o - o)
    BY <2>1
  <2> HIDE DEF u
  <2>. QED
    BY <2>3, <2>4 DEF SameTag
<1>4. ASSUME NEW d, NEW f, Marks(b, d, f)  PROVE Marks(c, d, f)
  <2>1. ASSUME NEW o \in Tags(b)  PROVE OnTag(c, o, d, f)
    <3>1. SameTag(b, o, c, o) /\ OnTag(b, o, d, f)
      BY <1>3, <1>4 DEF Marks
    <3>2. TagOf(b, o) = "PROP" => PropName(c, o) = PropName(b, o)
      BY <3>1, NameStays
    <3>3. Following(c, o) = Following(b, o)
      <4>1. o \in Nat /\ Following(b, o) \in Nat
        BY TagAt
      <4>. QED
        BY <3>1, <4>1 DEF SameTag
    <3>. QED
      BY <3>1, <3>2, <3>3, OnTagMoves
  <2>. QED
    BY <1>2, <1>4, <2>1 DEF Marks
<1>. QED
  BY <1>4 DEF Ordered

MarkedBehind(b, q, d, h) ==
  \A o \in Tags(b) : o >= q => OnTag(b, o, d, h)

Inside(c, p, end, e, g) ==
  \A t \in Tags(c) : p <= t /\ t < end => OnTag(c, t, e, g) /\ TagOf(c, t) # "END"

(* What an edit puts in between p and p + new goes with what is in front   *)
(* and what is behind: e and g mark it, and h what is behind from now on.  *)
Mends(b, c, p, old, new, d, f, h, e, g) ==
  /\ Marks(b, d, f) /\ MarkedBehind(b, p + old, d, h) /\ Inside(c, p, p + new, e, g)
  /\ e[p] = d[p] /\ g[p] \subseteq f[p]
  /\ e[p + new] = d[p + old] /\ g[p + new] = h[p + old]

LEMMA EditedIsOrdered ==
  ASSUME NEW b, HasStruct(b), NEW c, HasStruct(c), NEW p \in Tags(b),
         NEW old \in Nat, NEW new \in Nat, IsMultiple(new),
         p + old \in Tags(b), Edited(b, c, p, old, new), SameNames(b, c),
         NEW d, NEW f, NEW h, NEW e, NEW g,
         Mends(b, c, p, old, new, d, f, h, e, g)
  PROVE  Ordered(c)
<1> DEFINE k == new - old
           end == p + old
           over == p + new
           D == [t \in Nat |-> IF t < p THEN d[t] ELSE IF t < over THEN e[t]
                               ELSE d[t - k]]
           F == [t \in Nat |-> IF t < p THEN f[t] ELSE IF t < over THEN g[t]
                               ELSE h[t - k]]
<1>1. /\ p \in Nat /\ end \in Nat /\ over \in Nat /\ k \in Int
      /\ over - k = end /\ end + k = over /\ p <= over /\ p <= end
  <2>1. p \in Nat
    BY DEF Tags
  <2>. QED
    BY <2>1
<1>2. /\ Marks(b, d, f) /\ MarkedBehind(b, end, d, h) /\ Inside(c, p, over, e, g)
      /\ e[p] = d[p] /\ g[p] \subseteq f[p]
      /\ e[over] = d[end] /\ g[over] = h[end]
  BY DEF Mends
<1>3. TagsStay(b, c, p) /\ TagsMove(b, c, end, k) /\ over \in Tags(c) /\ end \in Tags(b)
  BY EditedTags
<1>4. \A t \in Nat : t < p => D[t] = d[t] /\ F[t] = f[t]
  OBVIOUS
<1>5. \A t \in Nat : p <= t /\ t <= over => D[t] = e[t] /\ F[t] = g[t]
  BY <1>1, <1>2
<1>6. \A q \in Nat : end <= q => D[q + k] = d[q] /\ F[q + k] = h[q]
  <2>1. ASSUME NEW q \in Nat, end <= q
        PROVE  /\ q + k \in Nat /\ ~(q + k < p) /\ ~(q + k < over)
               /\ (q + k) - k = q
    BY <1>1, <2>1
  <2>. QED
    BY <2>1
<1> HIDE DEF D, F, k, end, over
<1>7. D[p] = d[p] /\ F[p] \subseteq f[p]
  BY <1>1, <1>2, <1>5
<1>8. \A t \in Tags(b) : t \in Nat
  BY DEF Tags
<1>9. \A t \in Tags(c) : t \in Nat
  BY DEF Tags
<1>10. ASSUME NEW o \in Tags(c), o < p  PROVE OnTag(c, o, D, F)
  <2> DEFINE n == Following(b, o)
  <2>1. /\ o \in Nat /\ o \in Tags(b) /\ SameTag(b, o, c, o)
        /\ TagOf(b, o) # "END" /\ n <= p
    BY <1>3, <1>9, <1>10 DEF TagsStay
  <2>2. n \in Nat /\ OnTag(b, o, d, f)
    BY <1>2, <2>1, TagAt DEF Marks
  <2>3. Following(c, o) = n
    BY <2>1, <2>2 DEF SameTag
  <2> HIDE DEF n
  <2>4. D[n] = d[n] /\ F[n] \subseteq f[n]
    <3>1. n = p \/ n < p
      BY <1>1, <2>1, <2>2
    <3>. QED
      BY <1>4, <1>7, <2>2, <3>1
  <2>5. D[o] = d[o] /\ F[o] = f[o]
    BY <1>4, <1>10, <2>1
  <2>6. TagOf(b, o) = "PROP" => PropName(c, o) = PropName(b, o)
    BY <2>1, NameStays
  <2>. QED
    BY <2>1, <2>2, <2>3, <2>4, <2>5, <2>6, OnTagMoves DEF n
<1>11. ASSUME NEW o \in Tags(c), p <= o, o < over  PROVE OnTag(c, o, D, F)
  <2> DEFINE n == Following(c, o)
  <2>1. OnTag(c, o, e, g) /\ TagOf(c, o) # "END" /\ o \in Nat
    BY <1>2, <1>9, <1>11 DEF Inside
  <2>2. n \in Nat /\ n > o /\ n <= over /\ n \in Tags(c)
    <3>1. n \in Tags(c) /\ n > o /\ \A t \in Tags(c) : t > o => t >= n
      BY <2>1, FollowingIs
    <3>2. n \in Nat
      BY <1>9, <3>1
    <3>. QED
      BY <1>1, <1>3, <1>11, <2>1, <3>1, <3>2
  <2>3. D[o] = e[o] /\ F[o] = g[o]
    BY <1>1, <1>5, <1>11, <2>1
  <2>4. D[n] = e[n] /\ F[n] = g[n]
    <3>1. p <= n
      BY <1>1, <1>11, <2>1, <2>2
    <3>. QED
      BY <1>5, <2>2, <3>1
  <2>. QED
    BY <2>1, <2>3, <2>4 DEF OnTag
<1>12. ASSUME NEW o \in Tags(c), over <= o  PROVE OnTag(c, o, D, F)
  <2> DEFINE q == o - k
             n == Following(b, q)
  <2>1. q + k = o /\ q \in Int /\ q >= end
    BY <1>1, <1>9, <1>12
  <2> HIDE DEF q
  <2>2. q \in Tags(b) /\ q \in Nat /\ SameTag(b, q, c, o)
    BY <1>3, <1>8, <2>1 DEF TagsMove
  <2>3. n \in Nat /\ n > q
    BY <2>2, TagAt, TagSizeIs
  <2>4. Following(c, o) = n + k
    BY <1>1, <2>1, <2>2, <2>3 DEF SameTag
  <2>5. OnTag(b, q, d, h)
    BY <1>2, <2>1, <2>2 DEF MarkedBehind
  <2>6. TagOf(b, q) = "PROP" => PropName(c, o) = PropName(b, q)
    BY <2>2, NameStays
  <2> HIDE DEF n
  <2>7. D[o] = d[q] /\ F[o] = h[q]
    BY <1>6, <2>1, <2>2
  <2>8. D[n + k] = d[n] /\ F[n + k] = h[n]
    <3>1. end <= n
      BY <1>1, <2>1, <2>2, <2>3
    <3>. QED
      BY <1>6, <2>3, <3>1
  <2>. QED
    BY <2>2, <2>4, <2>5, <2>6, <2>7, <2>8, OnTagMoves DEF n
<1>13. \A o \in Tags(c) : OnTag(c, o, D, F)
  <2>1. ASSUME NEW o \in Tags(c)  PROVE OnTag(c, o, D, F)
    <3>1. o < p \/ (p <= o /\ o < over) \/ over <= o
      BY <1>1, <1>9
    <3>. QED
      BY <1>10, <1>11, <1>12, <3>1
  <2>. QED
    BY <2>1
<1>14. D[0] = 0 /\ F[0] = {}
  <2>1. d[0] = 0 /\ f[0] = {}
    BY <1>2 DEF Marks
  <2>2. p = 0 \/ 0 < p
    BY <1>1
  <2>. QED
    BY <1>4, <1>7, <2>1, <2>2
<1>. QED
  BY <1>13, <1>14 DEF Ordered, Marks


(* There are such marks.                                                   *)
Mended(b, c, p, old, new) ==
  \E d, f, h, e, g : Mends(b, c, p, old, new, d, f, h, e, g)

(* The only tag there is from p to end in what has been put in.            *)
OnlyTag(c, p, end) ==
  /\ p < end /\ Following(c, p) = end
  /\ \A t \in Tags(c) : p <= t /\ t < end => t = p

(* A tag is there instead of one that says the same.                       *)
LEMMA SameTagMends ==
  ASSUME NEW b, HasStruct(b), NEW c, NEW p \in Tags(b), NEW old \in Nat,
         NEW new \in Nat, Following(b, p) = p + old, OnlyTag(c, p, p + new),
         TagOf(b, p) # "END", TagOf(c, p) = TagOf(b, p),
         TagOf(b, p) = "PROP" => PropName(c, p) = PropName(b, p)
  PROVE  Ordered(b) => Mended(b, c, p, old, new)
<1> SUFFICES ASSUME NEW d, NEW f, Marks(b, d, f)
             PROVE  Mended(b, c, p, old, new)
  BY DEF Ordered
<1> DEFINE end == p + old
           over == p + new
           e == [t \in {p, over} |-> IF t = p THEN d[p] ELSE d[end]]
           g == [t \in {p, over} |-> IF t = p THEN f[p] ELSE f[end]]
<1>1. /\ Following(c, p) = over /\ p # over
      /\ \A t \in Tags(c) : p <= t /\ t < over => t = p
      /\ Following(b, p) = end
  <2>1. p \in Nat /\ p < p + new
    BY DEF Tags, OnlyTag
  <2>2. p # p + new
    BY <2>1
  <2>. QED
    BY <2>2 DEF OnlyTag
<1>2. e[p] = d[p] /\ g[p] = f[p] /\ e[over] = d[end] /\ g[over] = f[end]
  BY <1>1
<1>3. OnTag(b, p, d, f)
  BY DEF Marks
<1> HIDE DEF e, g, end, over
<1>4. OnTag(c, p, e, g)
  <2>1. /\ OnTag(b, p, d, f) <=> OnTag(c, p, e, g)
    BY <1>1, <1>2 DEF OnTag
  <2>. QED
    BY <1>3, <2>1
<1>5. Inside(c, p, over, e, g)
  BY <1>1, <1>4 DEF Inside
<1>6. MarkedBehind(b, end, d, f)
  BY DEF MarkedBehind, Marks
<1>7. Mends(b, c, p, old, new, d, f, f, e, g)
  BY <1>2, <1>5, <1>6 DEF Mends, end, over
<1>. QED
  BY <1>7 DEF Mended

(* What could as well not be there is not.                                 *)
LEMMA RemovalMends ==
  ASSUME NEW b, HasStruct(b), NEW c, NEW p \in Tags(b), NEW old \in Nat,
         Passes(b, p, p + old)
  PROVE  Ordered(b) => Mended(b, c, p, old, 0)
<1> SUFFICES ASSUME NEW d, NEW f, Marks(b, d, f)
             PROVE  Mended(b, c, p, old, 0)
  BY DEF Ordered
<1> DEFINE end == p + old
           over == p + 0
           e == [t \in {p} |-> d[p]]
           g == [t \in {p} |-> f[end]]
<1>1. p \in Nat /\ over = p
  BY DEF Tags
<1>2. d[end] = d[p] /\ f[end] \subseteq f[p]
  BY DEF Passes
<1>3. e[p] = d[p] /\ g[p] = f[end]
  OBVIOUS
<1> HIDE DEF e, g, end, over
<1>4. Inside(c, p, over, e, g)
  <2>1. ASSUME NEW t \in Tags(c), p <= t, t < over  PROVE FALSE
    BY <1>1, <2>1 DEF Tags
  <2>. QED
    BY <2>1 DEF Inside
<1>5. MarkedBehind(b, end, d, f)
  BY DEF MarkedBehind, Marks
<1>6. Mends(b, c, p, old, 0, d, f, f, e, g)
  BY <1>1, <1>2, <1>3, <1>4, <1>5 DEF Mends, end, over
<1>. QED
  BY <1>6 DEF Mended

(* NOPs are there instead.                                                 *)
LEMMA NopsMend ==
  ASSUME NEW b, HasStruct(b), NEW c, HasStruct(c), NEW p \in Tags(b),
         NEW len \in Nat, p + len \in Tags(c), Passes(b, p, p + len),
         \A t \in Tags(c) : p <= t /\ t < p + len => TagOf(c, t) = "NOP"
  PROVE  Ordered(b) => Mended(b, c, p, len, len)
<1> SUFFICES ASSUME NEW d, NEW f, Marks(b, d, f)
             PROVE  Mended(b, c, p, len, len)
  BY DEF Ordered
<1> DEFINE end == p + len
           e == [t \in p .. end |-> d[p]]
           g == [t \in p .. end |-> IF t = end THEN f[end] ELSE f[p]]
<1>1. p \in Nat /\ end \in Nat /\ p <= end
  BY DEF Tags
<1>2. d[end] = d[p] /\ f[end] \subseteq f[p]
  BY DEF Passes
<1>3. d[p] \in Nat
  BY DEF Marks, OnTag
<1>4. /\ \A t \in Nat : p <= t /\ t <= end => e[t] = d[p]
      /\ \A t \in Nat : p <= t /\ t < end => g[t] = f[p]
      /\ g[end] = f[end] /\ e[end] = d[p] /\ e[p] = d[p] /\ g[p] \subseteq f[p]
  BY <1>1, <1>2
<1> HIDE DEF e, g
<1>5. Inside(c, p, end, e, g)
  <2>1. ASSUME NEW t \in Tags(c), p <= t, t < end
        PROVE  OnTag(c, t, e, g) /\ TagOf(c, t) # "END"
    <3> DEFINE n == Following(c, t)
    <3>1. TagOf(c, t) = "NOP" /\ t \in Nat
      BY <2>1 DEF Tags
    <3>2. n \in Tags(c) /\ n > t /\ n <= end
      <4>1. end \in Tags(c)
        OBVIOUS
      <4>2. n \in Tags(c) /\ n > t /\ \A u \in Tags(c) : u > t => u >= n
        BY <3>1, FollowingIs
      <4>. QED
        BY <1>1, <2>1, <3>1, <4>1, <4>2 DEF Tags
    <3>3. n \in Nat
      BY <3>2 DEF Tags
    <3> HIDE DEF n
    <3>4. e[t] = d[p] /\ g[t] = f[p] /\ e[n] = d[p] /\ g[n] \subseteq f[p]
      <4>1. p <= n /\ (n < end \/ n = end)
        BY <1>1, <2>1, <3>1, <3>2, <3>3
      <4>. QED
        BY <1>1, <1>2, <1>4, <2>1, <3>1, <3>2, <3>3, <4>1
    <3>. QED
      BY <1>3, <3>1, <3>4 DEF OnTag, n
  <2>. QED
    BY <2>1 DEF Inside
<1>6. MarkedBehind(b, end, d, f)
  BY DEF MarkedBehind, Marks
<1>7. Mends(b, c, p, len, len, d, f, f, e, g)
  BY <1>2, <1>4, <1>5, <1>6 DEF Mends
<1>. QED
  BY <1>7 DEF Mended

(* A name may be among those free there, or not.                           *)
LEMMA FreeNames ==
  ASSUME NEW b, HasStruct(b), NEW node \in Tags(b),
         TagOf(b, node) = "BEGIN_NODE", NEW o, o = Following(b, node),
         NEW name, NEW z \in Tags(b), IsFreeTo(b, o, name, z),
         NEW d, NEW f, Marks(b, d, f), NEW with, NEW without,
         with = [t \in Nat |-> IF o <= t /\ t <= z THEN f[t] \cup {name} ELSE f[t]],
         without = [t \in Nat |-> IF o <= t /\ t <= z THEN f[t] \ {name} ELSE f[t]]
  PROVE  Marks(b, d, with) /\ MarkedBehind(b, o, d, without)
<1>1. /\ node \in Nat /\ o \in Tags(b) /\ o \in Nat /\ node < o /\ z \in Nat /\ o <= z
      /\ \A t \in Tags(b) : t > node => t >= o
      /\ \A t \in Tags(b) : t \in Nat
  <2>1. /\ o \in Tags(b) /\ node < o
        /\ \A t \in Tags(b) : t > node => t >= o
    BY FollowingIs
  <2>2. \A t \in Tags(b) : t \in Nat
    BY DEF Tags
  <2>. QED
    BY <2>1, <2>2 DEF IsFreeTo
<1>2. /\ \A t \in Nat : o <= t /\ t <= z => /\ with[t] = f[t] \cup {name}
                                            /\ without[t] = f[t] \ {name}
      /\ \A t \in Nat : t < o \/ z < t => with[t] = f[t] /\ without[t] = f[t]
  BY <1>1
<1>3. ASSUME NEW t \in Tags(b), o <= t, t < z
      PROVE  OnTag(b, t, d, with) /\ OnTag(b, t, d, without)
  <2> DEFINE n == Following(b, t)
  <2>1. /\ TagOf(b, t) = "NOP" \/ (TagOf(b, t) = "PROP" /\ PropName(b, t) # name)
        /\ t \in Nat
    BY <1>1, <1>3 DEF IsFreeTo
  <2>2. n \in Tags(b) /\ n > t /\ n <= z /\ n \in Nat
    <3>1. n \in Tags(b) /\ n > t /\ \A u \in Tags(b) : u > t => u >= n
      BY <2>1, FollowingIs
    <3>. QED
      BY <1>1, <1>3, <3>1
  <2>3. OnTag(b, t, d, f)
    BY DEF Marks
  <2> HIDE DEF n
  <2>4. o <= n /\ t <= z
    BY <1>1, <1>3, <2>1, <2>2
  <2>5. /\ with[t] = f[t] \cup {name} /\ without[t] = f[t] \ {name}
        /\ with[n] = f[n] \cup {name} /\ without[n] = f[n] \ {name}
    BY <1>2, <1>3, <2>1, <2>2, <2>4
  <2>6. CASE TagOf(b, t) = "NOP"
    <3>1. d[t] \in Nat /\ d[n] = d[t] /\ f[n] \subseteq f[t]
      BY <2>3, <2>6 DEF OnTag, n
    <3>2. with[n] \subseteq with[t] /\ without[n] \subseteq without[t]
      BY <2>5, <3>1
    <3>. QED
      BY <2>6, <3>1, <3>2 DEF OnTag, n
  <2>7. CASE TagOf(b, t) = "PROP"
    <3> DEFINE own == PropName(b, t)
    <3>1. /\ d[t] \in Nat /\ d[n] = d[t] /\ own \in f[t] /\ own # name
          /\ f[n] \subseteq f[t] \ {own}
      BY <2>1, <2>3, <2>7 DEF OnTag, n
    <3> HIDE DEF own
    <3>2. /\ own \in with[t] /\ own \in without[t]
          /\ with[n] \subseteq with[t] \ {own}
          /\ without[n] \subseteq without[t] \ {own}
      BY <2>5, <3>1
    <3>. QED
      BY <2>7, <3>1, <3>2 DEF OnTag, n, own
  <2>. QED
    BY <2>1, <2>6, <2>7
<1>4. ASSUME NEW t \in Tags(b), z <= t
      PROVE  OnTag(b, t, d, with) /\ OnTag(b, t, d, without)
  <2> DEFINE n == Following(b, t)
  <2>1. OnTag(b, t, d, f) /\ t \in Nat
    BY <1>1 DEF Marks
  <2>2. n \in Nat /\ t < n
    BY TagAt, TagSizeIs
  <2> HIDE DEF n
  <2>3. with[n] = f[n] /\ without[n] = f[n]
    BY <1>1, <1>2, <1>4, <2>1, <2>2
  <2>4. CASE t = z
    <3>1. TagOf(b, t) \notin {"PROP", "NOP"}
      BY <2>4 DEF IsFreeTo
    <3>. QED
      BY <2>1, <2>3, <3>1 DEF OnTag, n
  <2>5. CASE z < t
    <3>1. with[t] = f[t] /\ without[t] = f[t]
      BY <1>2, <2>1, <2>5
    <3>. QED
      BY <2>1, <2>3, <3>1 DEF OnTag, n
  <2>. QED
    BY <1>1, <1>4, <2>1, <2>4, <2>5
<1>5. ASSUME NEW t \in Tags(b), t < o  PROVE OnTag(b, t, d, with)
  <2> DEFINE n == Following(b, t)
  <2>1. OnTag(b, t, d, f) /\ t \in Nat
    BY <1>1 DEF Marks
  <2>2. t = node \/ t < node
    BY <1>1, <1>5, <2>1
  <2>3. with[t] = f[t]
    BY <1>2, <1>5, <2>1
  <2>4. CASE t = node
    BY <2>1, <2>3, <2>4 DEF OnTag
  <2>5. CASE t < node
    <3>1. TagOf(b, t) # "END" => n <= node
      BY <1>1, <2>1, <2>5, FollowingIs
    <3>2. n \in Nat
      BY TagAt
    <3> HIDE DEF n
    <3>3. TagOf(b, t) # "END" => with[n] = f[n]
      BY <1>1, <1>2, <3>1, <3>2
    <3>. QED
      BY <2>1, <2>3, <3>3 DEF OnTag, n
  <2>. QED
    BY <2>2, <2>4, <2>5
<1>6. ASSUME NEW t \in Tags(b)  PROVE t < o \/ (o <= t /\ t < z) \/ z <= t
  BY <1>1
<1>7. d[0] = 0 /\ with[0] = {}
  <2>1. d[0] = 0 /\ f[0] = {} /\ 0 < o
    BY <1>1 DEF Marks
  <2>. QED
    BY <1>2, <2>1
<1>8. \A t \in Tags(b) : OnTag(b, t, d, with)
  BY <1>3, <1>4, <1>5, <1>6
<1>9. Marks(b, d, with)
  BY <1>7, <1>8 DEF Marks
<1>10. MarkedBehind(b, o, d, without)
  <2>1. ASSUME NEW t \in Tags(b), t >= o  PROVE OnTag(b, t, d, without)
    BY <1>1, <1>3, <1>4, <1>6, <2>1
  <2>. QED
    BY <2>1 DEF MarkedBehind
<1>. QED
  BY <1>9, <1>10

(* A property whose name is free there is put in behind the tag of a node. *)
LEMMA NewPropertyMends ==
  ASSUME NEW b, HasStruct(b), NEW c, NEW node \in Tags(b),
         TagOf(b, node) = "BEGIN_NODE", NEW p \in Tags(b), p = Following(b, node),
         NEW new \in Nat, OnlyTag(c, p, p + new), TagOf(c, p) = "PROP",
         IsFree(b, p, PropName(c, p))
  PROVE  Ordered(b) => Mended(b, c, p, 0, new)
<1> SUFFICES ASSUME NEW d, NEW f, Marks(b, d, f)
             PROVE  Mended(b, c, p, 0, new)
  BY DEF Ordered
<1> DEFINE name == PropName(c, p)
<1>1. PICK z \in Tags(b) : IsFreeTo(b, p, name, z)
  BY DEF IsFree
<1> DEFINE with == [t \in Nat |-> IF p <= t /\ t <= z THEN f[t] \cup {name}
                                  ELSE f[t]]
           without == [t \in Nat |-> IF p <= t /\ t <= z THEN f[t] \ {name}
                                     ELSE f[t]]
           over == p + new
           e == [t \in {p, over} |-> d[p]]
           g == [t \in {p, over} |-> IF t = p THEN with[p] ELSE without[p]]
<1>2. p \in Nat /\ p <= z /\ p # over /\ p + 0 = p /\ d[p] \in Nat
  <2>1. p \in Nat /\ p <= z /\ p < p + new
    BY <1>1 DEF Tags, OnlyTag, IsFreeTo
  <2>2. d[p] \in Nat
    BY DEF Marks, OnTag
  <2>. QED
    BY <2>1, <2>2
<1>3. with[p] = f[p] \cup {name} /\ without[p] = f[p] \ {name}
  BY <1>2
<1>4. /\ e[p] = d[p] /\ e[over] = d[p]
      /\ g[p] = with[p] /\ g[over] = without[p]
  BY <1>2
<1>5. Marks(b, d, with) /\ MarkedBehind(b, p, d, without)
  <2> HIDE DEF name
  <2>. QED
    BY <1>1, FreeNames
<1> HIDE DEF with, without, e, g
<1>6. Inside(c, p, over, e, g)
  <2>1. /\ \A t \in Tags(c) : p <= t /\ t < over => t = p
        /\ Following(c, p) = over
    BY DEF OnlyTag
  <2>2. name \in g[p] /\ g[over] \subseteq g[p] \ {name}
    BY <1>3, <1>4
  <2>3. OnTag(c, p, e, g)
    BY <1>2, <1>4, <2>1, <2>2 DEF OnTag
  <2>. QED
    BY <2>1, <2>3 DEF Inside
<1>7. g[p] \subseteq with[p] /\ over = p + new
  BY <1>4
<1> HIDE DEF over
<1>8. Mends(b, c, p, 0, new, d, with, without, e, g)
  BY <1>2, <1>4, <1>5, <1>6, <1>7 DEF Mends
<1>. QED
  BY <1>8 DEF Mended

(* A node without anything in it is put in where no property follows.      *)
LEMMA NewNodeMends ==
  ASSUME NEW b, HasStruct(b), NEW c, NEW p \in Tags(b),
         TagOf(b, p) \notin {"PROP", "NOP"}, NEW new \in Nat, NEW q \in Nat,
         p < q, q < p + new, Following(c, p) = q, Following(c, q) = p + new,
         TagOf(c, p) = "BEGIN_NODE", TagOf(c, q) = "END_NODE",
         \A t \in Tags(c) : p <= t /\ t < p + new => t = p \/ t = q
  PROVE  Ordered(b) => Mended(b, c, p, 0, new)
<1> SUFFICES ASSUME NEW d, NEW f, Marks(b, d, f)
             PROVE  Mended(b, c, p, 0, new)
  BY DEF Ordered
<1> DEFINE over == p + new
           e == [t \in {p, q, over} |-> IF t = q THEN d[p] + 1 ELSE d[p]]
           g == [t \in {p, q, over} |-> IF t = p THEN f[p] ELSE {}]
           h == [t \in Nat |-> IF t = p THEN {} ELSE f[t]]
<1>1. p \in Nat /\ over \in Nat /\ p # q /\ q # over /\ p # over /\ p + 0 = p
  BY DEF Tags
<1>2. d[p] \in Nat
  BY DEF Marks, OnTag
<1>3. /\ e[p] = d[p] /\ e[q] = d[p] + 1 /\ e[over] = d[p]
      /\ g[p] = f[p] /\ g[q] = {} /\ g[over] = {} /\ h[p] = {}
  BY <1>1
<1>4. \A t \in Nat : p < t => h[t] = f[t]
  BY <1>1
<1> HIDE DEF e, g, h
<1>5. OnTag(c, p, e, g)
  BY <1>2, <1>3 DEF OnTag
<1>6. OnTag(c, q, e, g)
  <2>1. e[q] \in Nat /\ e[q] > 0 /\ e[over] = e[q] - 1
    BY <1>2, <1>3
  <2>. QED
    BY <1>3, <2>1 DEF OnTag
<1>7. Inside(c, p, over, e, g)
  BY <1>5, <1>6 DEF Inside
<1>8. MarkedBehind(b, p, d, h)
  <2>1. ASSUME NEW o \in Tags(b), o >= p  PROVE OnTag(b, o, d, h)
    <3> DEFINE n == Following(b, o)
    <3>1. OnTag(b, o, d, f) /\ o \in Nat
      BY DEF Marks, Tags
    <3>2. n \in Nat /\ o < n
      BY TagAt, TagSizeIs
    <3> HIDE DEF n
    <3>3. h[n] = f[n]
      BY <1>1, <1>4, <2>1, <3>1, <3>2
    <3>4. CASE o = p
      BY <3>1, <3>3, <3>4 DEF OnTag, n
    <3>5. CASE p < o
      <4>1. h[o] = f[o]
        BY <1>4, <3>1, <3>5
      <4>. QED
        BY <3>1, <3>3, <4>1 DEF OnTag, n
    <3>. QED
      BY <1>1, <2>1, <3>1, <3>4, <3>5
  <2>. QED
    BY <2>1 DEF MarkedBehind
<1>9. over = p + new
  OBVIOUS
<1> HIDE DEF over
<1>10. Mends(b, c, p, 0, new, d, f, h, e, g)
  BY <1>1, <1>3, <1>7, <1>8, <1>9 DEF Mends
<1>. QED
  BY <1>10 DEF Mended

(* What a property says can as well not be there.                          *)
LEMMA PropertyPasses ==
  ASSUME NEW b, NEW o \in Tags(b), TagOf(b, o) = "PROP"
  PROVE  Passes(b, o, Following(b, o))
BY DEF Passes, Marks, OnTag

-----------------------------------------------------------------------------
(* A reader of the whole structure block.                                  *)

(* The tags, one behind the other, up to the end of the block.             *)
LEMMA TagOffsetsAre ==
  ASSUME NEW b, HasStruct(b), NEW tags, tags = TagOffsets(b)
  PROVE  /\ tags \in Seq(Tags(b)) /\ Len(tags) \in Nat
         /\ \A i \in 1 .. Len(tags) : TagOf(b, tags[i]) # "END"
         /\ tags # <<>> => tags[1] = 0
         /\ \A i \in 1 .. Len(tags) - 1 : tags[i + 1] = Following(b, tags[i])
         /\ LET end == IF tags = <<>> THEN 0 ELSE NextTag(b, Last(tags)).next
            IN  /\ end \in Tags(b)
                /\ NextTag(b, end) = [tag |-> "END", next |-> b.size_dt_struct]
<1> DEFINE Stop == {o \in WalkOffsets : NextTag(b, o).tag = "END"}
           next == NextOffset(b)
           Body(f) ==
             [o \in WalkOffsets |->
                LET t == NextTag(b, o)
                IN  IF t.tag = "END" THEN <<>> ELSE <<o>> \o f[t.next]]
           From == CHOOSE f : f = Body(f)
<1>0. Tags(b) \subseteq Nat /\ Tags(b) \subseteq WalkOffsets /\ 0 \in Tags(b)
  BY DEF Tags, WalkOffsets, HasStruct, StructIsSound
<1>1. tags = From[0]
  BY DEF TagOffsets
<1>2. ASSUME NEW f
      PROVE  Enlists(f, WalkOffsets, Stop, next) <=> f = Body(f)
  <2> DEFINE Step == [o \in WalkOffsets |->
                        IF o \in Stop THEN <<>> ELSE <<o>> \o f[next[o]]]
  <2>1. ASSUME NEW o \in WalkOffsets  PROVE Step[o] = Body(f)[o]
    BY DEF NextOffset
  <2>2. Step = Body(f)
    BY <2>1
  <2>. QED
    BY <2>2 DEF Enlists
<1>3. ASSUME NEW o \in WalkOffsets, o \notin Stop
      PROVE  o \in Tags(b) /\ TagOf(b, o) # "END"
  <2>1. NextTag(b, o).tag # "END"
    BY <1>3
  <2>2. o \in Tags(b)
    BY <2>1, NoTagIs
  <2>3. NextTag(b, o).tag = TagOf(b, o)
    BY <2>2, NextTagIs
  <2>. QED
    BY <2>1, <2>2, <2>3
<1>4. ASSUME NEW o \in Tags(b), o \in Stop
      PROVE  NextTag(b, o) = [tag |-> "END", next |-> b.size_dt_struct]
  <2>1. NextTag(b, o) = [tag |-> TagOf(b, o), next |-> Following(b, o)]
    BY NextTagIs
  <2>2. TagOf(b, o) = "END"
    <3>1. NextTag(b, o).tag = "END"
      BY <1>4
    <3>. QED
      BY <2>1, <3>1
  <2>3. Following(b, o) = b.size_dt_struct
    BY <2>2 DEF HasStruct, StructIsSound, TagIsSound, TagOf
  <2>. QED
    BY <2>1, <2>2, <2>3
<1> HIDE DEF Stop, From, Body
<1>5. /\ b.size_dt_struct \in Nat
      /\ Ahead(WalkOffsets, Stop, NextOffset(b), b.size_dt_struct, Distance(b))
      /\ \A o \in WalkOffsets \ Stop : NextOffset(b)[o] = Following(b, o)
  BY <1>3, TagsAhead
<1>6. \E f : f = Body(f)
  BY <1>2, <1>5, ListIsDefined
<1>7. Enlists(From, WalkOffsets, Stop, next)
  BY <1>2, <1>6 DEF From
<1>8. IsListFrom(tags, 0, WalkOffsets, Stop, next)
  <2>1. 0 \in WalkOffsets
    BY <1>0
  <2>2. \A x \in WalkOffsets : IsListFrom(From[x], x, WalkOffsets, Stop, next)
    BY <1>5, <1>7, ListIs
  <2>. QED
    BY <1>1, <2>1, <2>2
<1>9. tags \in Seq(WalkOffsets \ Stop) /\ Len(tags) \in Nat
  BY <1>8 DEF IsListFrom
<1>10. \A i \in 1 .. Len(tags) : tags[i] \in WalkOffsets \ Stop
  BY <1>9
<1>11. \A i \in 1 .. Len(tags) : tags[i] \in Tags(b) /\ TagOf(b, tags[i]) # "END"
  BY <1>3, <1>10
<1>12. tags \in Seq(Tags(b))
  BY <1>9, <1>11
<1>13. tags # <<>> => tags[1] = 0
  BY <1>8 DEF IsListFrom
<1>14. \A i \in 1 .. Len(tags) - 1 : tags[i + 1] = Following(b, tags[i])
  <2>1. ASSUME NEW i \in 1 .. Len(tags) - 1  PROVE tags[i + 1] = Following(b, tags[i])
    <3>1. tags[i + 1] = next[tags[i]]
      BY <1>8 DEF IsListFrom
    <3>2. i \in 1 .. Len(tags)
      BY <1>9
    <3>. QED
      BY <1>5, <1>10, <3>1, <3>2
  <2>. QED
    BY <2>1
<1> DEFINE end == IF tags = <<>> THEN 0 ELSE NextTag(b, Last(tags)).next
<1>15. end \in Tags(b) /\ end \in Stop
  <2>1. CASE tags = <<>>
    <3>1. 0 \in Stop
      BY <1>8, <2>1 DEF IsListFrom
    <3>. QED
      BY <1>0, <2>1, <3>1
  <2>2. CASE tags # <<>>
    <3> DEFINE last == tags[Len(tags)]
    <3>1. Len(tags) \in 1 .. Len(tags)
      <4>1. Len(tags) # 0
        BY <1>9, <2>2
      <4>. QED
        BY <1>9, <4>1
    <3>2. last \in Tags(b) /\ TagOf(b, last) # "END" /\ last \in WalkOffsets \ Stop
      BY <1>10, <1>11, <3>1
    <3>3. next[last] \in Stop
      BY <1>8, <2>2 DEF IsListFrom
    <3>4. Last(tags) = last
      BY DEF Last
    <3> HIDE DEF last
    <3>5. NextTag(b, last) = [tag |-> TagOf(b, last), next |-> Following(b, last)]
      BY <3>2, NextTagIs
    <3>6. next[last] = Following(b, last) /\ Following(b, last) \in Tags(b)
      BY <1>5, <3>2, FollowingIs
    <3>7. end = Following(b, last)
      BY <2>2, <3>4, <3>5
    <3>. QED
      BY <3>3, <3>6, <3>7
  <2>. QED
    BY <2>1, <2>2
<1> HIDE DEF end
<1>16. NextTag(b, end) = [tag |-> "END", next |-> b.size_dt_struct]
  BY <1>4, <1>15
<1>17. /\ end \in Tags(b)
       /\ NextTag(b, end) = [tag |-> "END", next |-> b.size_dt_struct]
  BY <1>15, <1>16
<1>. QED
  BY <1>9, <1>11, <1>12, <1>13, <1>14, <1>17 DEF end

(* What a reader knows before the first tag.                               *)
Blank ==
  [path |-> Nowhere, last |-> "", at |-> << >>, tree |-> << >>, ok |-> TRUE]

Known == {"path", "last", "at", "tree", "ok"}

(* What it knows behind the tag at o, of which it has known c in front.    *)
Reads(b, c, o, r) ==
  LET tag  == NextTag(b, o).tag
      name == PropName(b, o)
  IN  /\ Known \subseteq DOMAIN r
      /\ tag = "BEGIN_NODE" =>
           /\ r.path = Append(c.path, NodeName(b, o)) /\ r.last = tag
           /\ r.at = Put(c.at, o, r.path) /\ r.tree = Put(c.tree, r.path, << >>)
           /\ r.ok = c.ok
      /\ tag = "END_NODE" =>
           /\ r.path = Front(c.path) /\ r.last = tag
           /\ r.at = c.at /\ r.tree = c.tree
           /\ r.ok = (c.ok /\ c.path # Nowhere)
      /\ tag = "PROP" =>
           /\ r.path = c.path /\ r.last = c.last /\ r.at = c.at
           /\ r.tree = [c.tree EXCEPT ![c.path] = Put(@, name, PropVal(b, o))]
           /\ r.ok = (c.ok /\ c.last = "BEGIN_NODE" /\ name \notin DOMAIN c.tree[c.path])
      /\ tag \notin {"BEGIN_NODE", "END_NODE", "PROP"} => r = c

(* One tag.                                                                *)
LEMMA ReadIs ==
  ASSUME NEW b, NEW o, NEW c, Known \subseteq DOMAIN c, NEW r, r = Read(b, c, o)
  PROVE  Reads(b, c, o, r)
<1> DEFINE tag == NextTag(b, o).tag
           path == Append(c.path, NodeName(b, o))
           name == String(b, NameOff(b, o))
           tree == Put(c.tree, path, << >>)
           at == Put(c.at, o, path)
<1>1. CASE tag = "BEGIN_NODE"
  <2>1. r = [c EXCEPT !.path = path, !.last = tag, !.at = at, !.tree = tree]
    BY <1>1 DEF Read
  <2>2. tag \notin {"END_NODE", "PROP"}
    BY <1>1
  <2> HIDE DEF at, tree, path, tag
  <2>3. /\ DOMAIN r = DOMAIN c /\ r.path = path /\ r.last = tag /\ r.at = at
        /\ r.tree = tree /\ r.ok = c.ok
    BY <2>1 DEF Known
  <2>. QED
    BY <1>1, <2>2, <2>3 DEF Reads, at, tree, path, tag
<1>2. CASE tag = "END_NODE"
  <2> DEFINE front == Front(c.path)
             ok == c.ok /\ c.path # Nowhere
  <2>1. r = [c EXCEPT !.path = front, !.last = tag, !.ok = ok]
    BY <1>2 DEF Read
  <2>2. tag \notin {"BEGIN_NODE", "PROP"}
    BY <1>2
  <2> HIDE DEF front, ok, tag
  <2>3. /\ DOMAIN r = DOMAIN c /\ r.path = front /\ r.last = tag /\ r.at = c.at
        /\ r.tree = c.tree /\ r.ok = ok
    BY <2>1 DEF Known
  <2>. QED
    BY <1>2, <2>2, <2>3 DEF Reads, front, ok, tag
<1>3. CASE tag = "PROP"
  <2> DEFINE val == PropVal(b, o)
             props == Put(c.tree[c.path], name, val)
             ok == c.ok /\ c.last = "BEGIN_NODE" /\ name \notin DOMAIN c.tree[c.path]
             changed == [c.tree EXCEPT ![c.path] = props]
  <2>1. r = [c EXCEPT !.tree = changed, !.ok = ok]
    BY <1>3 DEF Read
  <2>2. tag \notin {"BEGIN_NODE", "END_NODE"}
    BY <1>3
  <2> HIDE DEF changed, ok
  <2>3. /\ DOMAIN r = DOMAIN c /\ r.path = c.path /\ r.last = c.last /\ r.at = c.at
        /\ r.tree = changed /\ r.ok = ok
    BY <2>1 DEF Known
  <2>. QED
    BY <1>3, <2>2, <2>3 DEF Reads, changed, ok, PropName
<1>4. CASE tag \notin {"BEGIN_NODE", "END_NODE", "PROP"}
  <2>1. r = c
    BY <1>4 DEF Read
  <2>. QED
    BY <1>4, <2>1 DEF Reads
<1>. QED
  BY <1>1, <1>2, <1>3, <1>4


(* A reader comes by n tags at the places in p and then to the end, and    *)
(* knows what is in g in front of each.                                    *)
IsReader(b, n, p, g) ==
  /\ n \in Nat /\ p[0] = 0 /\ g[0] = Blank /\ TagOf(b, p[n]) = "END"
  /\ \A i \in 0 .. n : p[i] \in Tags(b)
  /\ \A i \in 0 .. n - 1 : /\ TagOf(b, p[i]) # "END"
                            /\ p[i + 1] = Following(b, p[i])
                            /\ g[i + 1] = Read(b, g[i], p[i])

(* What a reader knows at the end is what the block says.                  *)
LEMMA ContentsAreRead ==
  ASSUME NEW b, HasStruct(b)
  PROVE  \E n, p, g : IsReader(b, n, p, g) /\ Contents(b) = g[n]
<1> DEFINE tags == TagOffsets(b)
           n == Len(tags)
           v == Contents(b)
           Body(f) == [i \in 0 .. n |->
                         IF i = 0 THEN Blank
                         ELSE LET before == f[i - 1]
                              IN  Read(b, before, tags[i])]
           Upto == CHOOSE f : f = Body(f)
           T == {k \in 0 .. n + 1 :
                   \E f : \A i \in 0 .. n : i < k => f[i] = Body(f)[i]}
<1>1. n \in Nat /\ \A i \in 1 .. n : tags[i] \in Tags(b)
  <2>1. tags \in Seq(Tags(b)) /\ Len(tags) \in Nat
    BY TagOffsetsAre
  <2>. QED
    BY <2>1
<1>2. v = Upto[n]
  BY DEF Contents, Blank
<1> HIDE DEF n, tags
<1>4. 0 \in T
  <2>1. 0 \in 0 .. n + 1 /\ \A i \in 0 .. n : ~(i < 0)
    BY <1>1
  <2>. QED
    BY <2>1
<1>5. ASSUME NEW k \in 0 .. n, k \in T  PROVE k + 1 \in T
  <2>1. PICK f : \A i \in 0 .. n : i < k => f[i] = Body(f)[i]
    BY <1>5
  <2> DEFINE g == Body(f)
  <2>2. ASSUME NEW i \in 0 .. n, i < k + 1  PROVE g[i] = Body(g)[i]
    <3>1. CASE i = 0
      BY <3>1
    <3>2. CASE i # 0
      <4>1. i - 1 \in 0 .. n /\ i - 1 < k
        BY <1>1, <2>2, <3>2
      <4>2. f[i - 1] = g[i - 1]
        BY <2>1, <4>1
      <4>3. g[i] = Read(b, f[i - 1], tags[i]) /\ Body(g)[i] = Read(b, g[i - 1], tags[i])
        BY <3>2
      <4>. QED
        BY <4>2, <4>3
    <3>. QED
      BY <3>1, <3>2
  <2> HIDE DEF g
  <2>3. k + 1 \in 0 .. n + 1
    BY <1>1
  <2>. QED
    BY <2>2, <2>3
<1>6. PICK f : \A i \in 0 .. n : i < n + 1 => f[i] = Body(f)[i]
  <2>1. n + 1 \in Nat /\ (n + 1) - 1 = n /\ n + 1 \in 0 .. n + 1
    BY <1>1
  <2> HIDE DEF T
  <2>2. 0 .. n + 1 \subseteq T
    BY <1>4, <1>5, <2>1, UpTo
  <2>3. n + 1 \in T
    BY <2>1, <2>2
  <2>. QED
    BY <2>3 DEF T
<1> DEFINE g == [i \in 0 .. n |-> f[i]]
<1>7. g = Body(g)
  <2>1. ASSUME NEW i \in 0 .. n  PROVE g[i] = Body(g)[i]
    <3>1. g[i] = Body(f)[i]
      BY <1>1, <1>6
    <3>2. CASE i = 0
      BY <3>1, <3>2
    <3>3. CASE i # 0
      <4>1. i - 1 \in 0 .. n
        BY <1>1, <3>3
      <4>2. g[i - 1] = f[i - 1]
        BY <4>1
      <4>3. Body(f)[i] = Read(b, f[i - 1], tags[i]) /\ Body(g)[i] = Read(b, g[i - 1], tags[i])
        BY <3>3
      <4>. QED
        BY <3>1, <4>2, <4>3
    <3>. QED
      BY <3>2, <3>3
  <2>2. Body(g) = [i \in 0 .. n |-> Body(g)[i]]
    OBVIOUS
  <2>. QED
    BY <2>1, <2>2
<1>8. Upto = Body(Upto)
  BY <1>7
<1> HIDE DEF Upto
<1> DEFINE end == IF tags = <<>> THEN 0 ELSE NextTag(b, Last(tags)).next
           p == [i \in 0 .. n |-> IF i < n THEN tags[i + 1] ELSE end]
<1>9. /\ \A i \in 1 .. n : TagOf(b, tags[i]) # "END"
      /\ tags # <<>> => tags[1] = 0
      /\ \A i \in 1 .. n - 1 : tags[i + 1] = Following(b, tags[i])
      /\ end \in Tags(b)
      /\ NextTag(b, end) = [tag |-> "END", next |-> b.size_dt_struct]
      /\ n = Len(tags) /\ tags \in Seq(Tags(b))
  BY TagOffsetsAre DEF tags, n
<1>10. TagOf(b, end) = "END"
  <2>1. NextTag(b, end) = [tag |-> TagOf(b, end), next |-> Following(b, end)]
    BY <1>9, NextTagIs
  <2> HIDE DEF end
  <2>. QED
    BY <1>9, <2>1
<1>11. n > 0 => end = Following(b, tags[n])
  <2> SUFFICES ASSUME n > 0  PROVE end = Following(b, tags[n])
    OBVIOUS
  <2>1. n \in 1 .. n /\ tags # <<>>
    BY <1>1, <1>9
  <2>2. tags[n] \in Tags(b) /\ Last(tags) = tags[n]
    BY <1>1, <1>9, <2>1 DEF Last
  <2>3. NextTag(b, tags[n]) = [tag |-> TagOf(b, tags[n]), next |-> Following(b, tags[n])]
    BY <2>2, NextTagIs
  <2>. QED
    BY <2>1, <2>2, <2>3
<1>12. p[0] = 0
  <2>1. CASE n = 0
    <3>1. tags = <<>>
      <4>1. tags \in Seq(Tags(b)) /\ Len(tags) = 0
        BY <1>9, <2>1
      <4>. QED
        BY <4>1
    <3>. QED
      BY <2>1, <3>1
  <2>2. CASE n # 0
    <3>1. 0 < n /\ 0 \in 0 .. n /\ 0 + 1 = 1 /\ tags # <<>>
      BY <1>1, <1>9, <2>2
    <3>. QED
      BY <1>9, <3>1
  <2>. QED
    BY <2>1, <2>2
<1>13. p[n] = end
  BY <1>1
<1> HIDE DEF end
<1>14. ASSUME NEW i \in 0 .. n  PROVE p[i] \in Tags(b)
  <2>1. i < n => i + 1 \in 1 .. n
    BY <1>1
  <2>. QED
    BY <1>1, <1>9, <2>1
<1>15. ASSUME NEW i \in 0 .. n - 1
       PROVE  /\ TagOf(b, p[i]) # "END" /\ p[i + 1] = Following(b, p[i])
              /\ Upto[i + 1] = Read(b, Upto[i], p[i])
  <2>1. /\ i + 1 \in 1 .. n /\ i < n /\ i \in 0 .. n /\ i + 1 \in 0 .. n
        /\ i + 1 # 0 /\ (i + 1) - 1 = i
    BY <1>1
  <2>2. p[i] = tags[i + 1]
    BY <2>1
  <2>3. p[i + 1] = Following(b, p[i])
    <3>1. CASE i + 1 < n
      <4>1. i + 1 \in 1 .. n - 1
        BY <1>1, <3>1
      <4>2. p[i + 1] = tags[(i + 1) + 1]
        BY <2>1, <3>1
      <4>. QED
        BY <1>9, <2>2, <4>1, <4>2
    <3>2. CASE ~(i + 1 < n)
      <4>1. i + 1 = n /\ n > 0
        BY <1>1, <3>2
      <4>. QED
        BY <1>11, <1>13, <2>2, <4>1
    <3>. QED
      BY <3>1, <3>2
  <2>4. Upto[i + 1] = Read(b, Upto[i], tags[i + 1])
    <3>1. Upto[i + 1] = Body(Upto)[i + 1]
      BY <1>8
    <3>. QED
      BY <2>1, <3>1
  <2>. QED
    BY <1>9, <2>1, <2>2, <2>3, <2>4
<1>16. Upto[0] = Blank
  <2>1. 0 \in 0 .. n
    BY <1>1
  <2>. QED
    BY <1>8, <2>1
<1> HIDE DEF p
<1>17. IsReader(b, n, p, Upto)
  BY <1>1, <1>10, <1>12, <1>13, <1>14, <1>15, <1>16 DEF IsReader
<1>. QED
  BY <1>2, <1>17

(* Nodes begin where there are tags.                                       *)
LEMMA ContentsAre ==
  ASSUME NEW b, HasStruct(b), NEW v, v = Contents(b)
  PROVE  /\ "at" \in DOMAIN v /\ DOMAIN v.at \subseteq Tags(b)
         /\ \A o \in DOMAIN v.at : TagOf(b, o) = "BEGIN_NODE"
<1>1. PICK n, p, g : IsReader(b, n, p, g) /\ v = g[n]
  BY ContentsAreRead
<1> DEFINE Nodes == {o \in Tags(b) : TagOf(b, o) = "BEGIN_NODE"}
           S == {i \in 0 .. n : /\ Known \subseteq DOMAIN g[i]
                                /\ DOMAIN g[i].at \subseteq Nodes}
<1>2. n \in Nat /\ 0 \in 0 .. n
  BY <1>1 DEF IsReader
<1>3. 0 \in S
  <2>1. /\ DOMAIN Blank = Known /\ DOMAIN Blank.at = {}
    BY DEF Blank, Known
  <2>2. g[0] = Blank
    BY <1>1 DEF IsReader
  <2>. QED
    BY <1>2, <2>1, <2>2
<1>4. ASSUME NEW i \in 0 .. n - 1, i \in S  PROVE i + 1 \in S
  <2> DEFINE c == g[i]
             r == g[i + 1]
             o == p[i]
  <2>1. i + 1 \in 0 .. n /\ i \in 0 .. n
    BY <1>2
  <2>2. r = Read(b, c, o) /\ o \in Tags(b)
    BY <1>1, <2>1 DEF IsReader
  <2>3. Known \subseteq DOMAIN c /\ DOMAIN c.at \subseteq Nodes
    BY <1>4
  <2> HIDE DEF c, r, o
  <2>4. Reads(b, c, o, r)
    BY <2>2, <2>3, ReadIs
  <2>5. r.at = c.at \/ \E path : o \in Nodes /\ r.at = Put(c.at, o, path)
    <3>1. CASE NextTag(b, o).tag = "BEGIN_NODE"
      <4>1. o \in Nodes
        BY <2>2, <3>1, NextTagIs
      <4>. QED
        BY <2>4, <3>1, <4>1 DEF Reads
    <3>2. CASE NextTag(b, o).tag # "BEGIN_NODE"
      BY <2>4, <3>2 DEF Reads
    <3>. QED
      BY <3>1, <3>2
  <2> HIDE DEF Nodes
  <2>6. Known \subseteq DOMAIN r /\ DOMAIN r.at \subseteq Nodes
    BY <2>2, <2>3, <2>4, <2>5 DEF Reads, Put
  <2>. QED
    BY <2>1, <2>6 DEF r
<1>5. n \in S
  <2> HIDE DEF S
  <2>1. 0 .. n \subseteq S
    BY <1>2, <1>3, <1>4, UpTo
  <2>2. n \in 0 .. n
    BY <1>2
  <2>. QED
    BY <2>1, <2>2
<1>. QED
  BY <1>1, <1>5 DEF Known

(* It comes by each tag once.                                              *)
LEMMA EachIsRead ==
  ASSUME NEW b, HasStruct(b), NEW n, NEW p, NEW g, IsReader(b, n, p, g)
  PROVE  /\ \A i, j \in 0 .. n : p[i] = p[j] => i = j
         /\ \A t \in Tags(b) : \E i \in 0 .. n : p[i] = t
<1>1. /\ n \in Nat /\ p[0] = 0 /\ TagOf(b, p[n]) = "END"
      /\ \A i \in 0 .. n : p[i] \in Tags(b)
  BY DEF IsReader
<1>2. \A t \in Tags(b) : t \in Nat /\ t < b.size_dt_struct
  BY DEF Tags, HasStruct
<1>3. \A i \in 0 .. n : p[i] \in Nat
  BY <1>1, <1>2
<1>4. ASSUME NEW i \in 0 .. n - 1
      PROVE  /\ p[i] < p[i + 1]
             /\ \A t \in Tags(b) : t > p[i] => t >= p[i + 1]
  <2>1. /\ i \in 0 .. n /\ TagOf(b, p[i]) # "END"
        /\ p[i + 1] = Following(b, p[i])
    BY <1>1 DEF IsReader
  <2>2. p[i] \in Tags(b)
    BY <1>1, <2>1
  <2> DEFINE o == p[i]
  <2> HIDE DEF o
  <2>3. Following(b, o) > o /\ \A t \in Tags(b) : t > o => t >= Following(b, o)
    BY <2>1, <2>2, FollowingIs DEF o
  <2>. QED
    BY <2>1, <2>3 DEF o
<1>5. ASSUME NEW i \in 0 .. n, NEW j \in 0 .. n, i < j  PROVE p[i] < p[j]
  <2> DEFINE T == {k \in 0 .. n : i < k => p[i] < p[k]}
  <2>1. 0 \in T
    BY <1>1
  <2>2. ASSUME NEW k \in 0 .. n - 1, k \in T  PROVE k + 1 \in T
    <3>1. k + 1 \in 0 .. n /\ k \in 0 .. n
      BY <1>1
    <3>2. p[k] < p[k + 1] /\ p[k] \in Nat /\ p[k + 1] \in Nat /\ p[i] \in Nat
      BY <1>3, <1>4, <3>1
    <3>3. i < k + 1 => i = k \/ i < k
      OBVIOUS
    <3>. QED
      BY <2>2, <3>1, <3>2, <3>3
  <2>3. j \in T
    <3> HIDE DEF T
    <3>1. 0 .. n \subseteq T
      BY <1>1, <2>1, <2>2, UpTo
    <3>. QED
      BY <3>1
  <2>. QED
    BY <1>5, <2>3
<1>6. ASSUME NEW i \in 0 .. n, NEW j \in 0 .. n, p[i] = p[j]  PROVE i = j
  <2>1. p[i] \in Nat /\ p[j] \in Nat /\ (i < j \/ j < i \/ i = j)
    BY <1>3
  <2>. QED
    BY <1>5, <1>6, <2>1
<1>7. ASSUME NEW t \in Tags(b), \A i \in 0 .. n : p[i] # t  PROVE FALSE
  <2> DEFINE T == {k \in 0 .. n : p[k] < t}
  <2>0. t \in Nat
    BY <1>2
  <2>1. 0 \in T
    <3>1. 0 \in 0 .. n
      BY <1>1
    <3>2. 0 # t
      BY <1>1, <1>7, <3>1
    <3>. QED
      BY <1>1, <2>0, <3>1, <3>2
  <2>2. ASSUME NEW k \in 0 .. n - 1, k \in T  PROVE k + 1 \in T
    <3>1. k + 1 \in 0 .. n /\ k \in 0 .. n
      BY <1>1
    <3>2. t > p[k]
      BY <1>3, <2>0, <2>2, <3>1
    <3>3. t >= p[k + 1]
      BY <1>4, <3>2
    <3>. QED
      BY <1>3, <1>7, <2>0, <3>1, <3>3
  <2>3. n \in 0 .. n
    BY <1>1
  <2>4. n \in T
    <3> HIDE DEF T
    <3>1. 0 .. n \subseteq T
      BY <1>1, <2>1, <2>2, UpTo
    <3>. QED
      BY <2>3, <3>1
  <2> DEFINE last == p[n]
  <2>5. last < t /\ last \in Tags(b) /\ last \in Nat /\ TagOf(b, last) = "END"
    BY <1>1, <1>3, <2>3, <2>4
  <2> HIDE DEF last
  <2>6. TagIsSound(b, last)
    BY <2>5 DEF HasStruct, StructIsSound
  <2>7. /\ Following(b, last) = b.size_dt_struct
        /\ Tags(b) \cap (last + 1 .. Following(b, last) - 1) = {}
    BY <2>5, <2>6 DEF TagIsSound, TagOf
  <2>8. t \in last + 1 .. b.size_dt_struct - 1
    BY <1>2, <2>0, <2>5 DEF HasStruct
  <2>. QED
    BY <2>7, <2>8
<1>. QED
  BY <1>6, <1>7

(* A path is open, and if nothing in the node is yet that ends properties, *)
(* there is what it knows of them.                                         *)
Opened(c) ==
  /\ Known \subseteq DOMAIN c /\ c.path \in Seq(NodeNames)
  /\ c.last = "BEGIN_NODE" => c.path \in DOMAIN c.tree

NamesTaken(c) == DOMAIN c.tree[c.path]

(* What one tag changes.                                                   *)
LEMMA ReadShows ==
  ASSUME NEW b, HasStruct(b), NEW o \in Tags(b), NEW c, Opened(c),
         NEW r, r = Read(b, c, o)
  PROVE  /\ TagOf(b, o) = "BEGIN_NODE" =>
              /\ Opened(r) /\ r.ok = c.ok /\ Len(r.path) = Len(c.path) + 1
              /\ r.last = "BEGIN_NODE" /\ NamesTaken(r) = {}
         /\ TagOf(b, o) = "END_NODE" =>
              /\ r.ok = (c.ok /\ c.path # Nowhere) /\ r.last = "END_NODE"
              /\ c.path # Nowhere =>
                   /\ Opened(r)
                   /\ Len(c.path) > 0 /\ Len(r.path) = Len(c.path) - 1
         /\ TagOf(b, o) = "PROP" =>
              /\ Opened(r) /\ r.path = c.path /\ r.last = c.last
              /\ r.ok = (c.ok /\ c.last = "BEGIN_NODE" /\ PropName(b, o) \notin NamesTaken(c))
              /\ c.last = "BEGIN_NODE" => NamesTaken(r) = NamesTaken(c) \cup {PropName(b, o)}
         /\ TagOf(b, o) = "NOP" => r = c
<1> DEFINE tag == TagOf(b, o)
<1>1. NextTag(b, o).tag = tag
  <2>1. NextTag(b, o) = [tag |-> TagOf(b, o), next |-> Following(b, o)]
    BY NextTagIs
  <2>. QED
    BY <2>1
<1>2. Reads(b, c, o, r)
  BY ReadIs DEF Opened
<1>3. c.path \in Seq(NodeNames) /\ Known \subseteq DOMAIN c /\ Known \subseteq DOMAIN r
  BY <1>2 DEF Opened, Reads
<1>4. CASE tag = "BEGIN_NODE"
  <2> DEFINE name == NodeName(b, o)
  <2>1. name \in NodeNames
    BY <1>4 DEF HasStruct, StructIsSound, TagIsSound, TagOf
  <2>2. /\ r.path = Append(c.path, name) /\ r.last = "BEGIN_NODE"
        /\ r.tree = Put(c.tree, r.path, << >>) /\ r.ok = c.ok
    BY <1>1, <1>2, <1>4 DEF Reads
  <2> HIDE DEF name
  <2>3. r.path \in Seq(NodeNames) /\ Len(r.path) = Len(c.path) + 1
    BY <1>3, <2>1, <2>2
  <2>4. r.path \in DOMAIN r.tree /\ r.tree[r.path] = << >>
    BY <2>2 DEF Put
  <2>5. NamesTaken(r) = {}
    BY <2>4 DEF NamesTaken
  <2>. QED
    BY <1>3, <1>4, <2>2, <2>3, <2>4, <2>5 DEF Opened
<1>5. CASE tag = "END_NODE"
  <2>1. /\ r.path = Front(c.path) /\ r.last = "END_NODE"
        /\ r.ok = (c.ok /\ c.path # Nowhere)
    BY <1>1, <1>2, <1>5 DEF Reads
  <2>2. ASSUME c.path # Nowhere
        PROVE  /\ Len(c.path) > 0 /\ Len(r.path) = Len(c.path) - 1
               /\ r.path \in Seq(NodeNames)
    <3> DEFINE s == c.path
    <3>1. s \in Seq(NodeNames) /\ s # <<>> /\ r.path = SubSeq(s, 1, Len(s) - 1)
      BY <1>3, <2>1, <2>2 DEF Front, Nowhere
    <3> HIDE DEF s
    <3>2. Len(s) \in Nat /\ Len(s) # 0
      BY <3>1
    <3>. QED
      BY <3>1, <3>2 DEF s
  <2>. QED
    BY <1>3, <1>5, <2>1, <2>2 DEF Opened
<1>6. CASE tag = "PROP"
  <2> DEFINE name == PropName(b, o)
             val == PropVal(b, o)
             props == Put(c.tree[c.path], name, val)
  <2>1. /\ r.path = c.path /\ r.last = c.last
        /\ r.tree = [c.tree EXCEPT ![c.path] = props]
        /\ r.ok = (c.ok /\ c.last = "BEGIN_NODE" /\ name \notin NamesTaken(c))
    BY <1>1, <1>2, <1>6 DEF Reads, NamesTaken
  <2>2. DOMAIN props = NamesTaken(c) \cup {name}
    BY DEF Put, NamesTaken
  <2> HIDE DEF props, name
  <2>3. DOMAIN r.tree = DOMAIN c.tree
    BY <2>1
  <2>4. ASSUME c.last = "BEGIN_NODE"  PROVE NamesTaken(r) = NamesTaken(c) \cup {name}
    <3>1. c.path \in DOMAIN c.tree
      BY <2>4 DEF Opened
    <3>2. r.tree[r.path] = props
      BY <2>1, <3>1
    <3>. QED
      BY <2>2, <3>2 DEF NamesTaken
  <2>5. Opened(r)
    BY <1>3, <2>1, <2>3 DEF Opened
  <2>. QED
    BY <1>6, <2>1, <2>4, <2>5 DEF name
<1>7. CASE tag = "NOP"
  <2>1. r = c
    BY <1>1, <1>2, <1>7 DEF Reads
  <2>. QED
    BY <1>7, <2>1
<1>. QED
  BY <1>4, <1>5, <1>6, <1>7

(* What a reader knows goes with marks of the tag it is at.                *)
Agrees(c, o, d, f) ==
  /\ Opened(c) /\ c.ok = TRUE /\ Len(c.path) = d[o]
  /\ f[o] # {} => c.last = "BEGIN_NODE" /\ f[o] \cap NamesTaken(c) = {}

(* One that reads tags that are in order finds them so.                    *)
LEMMA OrderedIsRead ==
  ASSUME NEW b, HasStruct(b), NEW d, NEW f, Marks(b, d, f),
         NEW o \in Tags(b), TagOf(b, o) # "END", NEW c, Agrees(c, o, d, f)
  PROVE  Agrees(Read(b, c, o), Following(b, o), d, f)
<1> DEFINE tag == TagOf(b, o)
           next == Following(b, o)
           name == PropName(b, o)
           r == Read(b, c, o)
<1>1. tag \in {"BEGIN_NODE", "END_NODE", "PROP", "NOP"}
  BY TagAt DEF TagKinds
<1>2. /\ Opened(c) /\ c.ok = TRUE /\ Len(c.path) = d[o] /\ d[o] \in Nat
      /\ f[o] # {} => c.last = "BEGIN_NODE" /\ f[o] \cap NamesTaken(c) = {}
  BY OnTagIs DEF Agrees
<1>3. /\ tag = "BEGIN_NODE" => d[next] = d[o] + 1
      /\ tag = "END_NODE" => d[o] > 0 /\ d[next] = d[o] - 1 /\ f[next] = {}
      /\ tag = "PROP" => /\ d[next] = d[o] /\ name \in f[o]
                         /\ f[next] \subseteq f[o] \ {name}
      /\ tag = "NOP" => d[next] = d[o] /\ f[next] \subseteq f[o]
  BY DEF Marks, OnTag
<1>4. CASE tag = "BEGIN_NODE"
  <2>1. /\ Opened(r) /\ r.ok = c.ok /\ Len(r.path) = Len(c.path) + 1
        /\ r.last = "BEGIN_NODE" /\ NamesTaken(r) = {}
    BY <1>2, <1>4, ReadShows
  <2> HIDE DEF r, next
  <2>2. Agrees(r, next, d, f)
    BY <1>2, <1>3, <1>4, <2>1 DEF Agrees
  <2>. QED
    BY <2>2 DEF r, next
<1>5. CASE tag = "END_NODE"
  <2>1. c.path # Nowhere
    <3>1. Len(c.path) > 0
      BY <1>2, <1>3, <1>5
    <3>. QED
      BY <3>1 DEF Nowhere
  <2>2. /\ r.ok = (c.ok /\ c.path # Nowhere) /\ r.last = "END_NODE"
        /\ Opened(r) /\ Len(r.path) = Len(c.path) - 1
    BY <1>2, <1>5, <2>1, ReadShows
  <2> HIDE DEF r, next
  <2>3. r.ok = TRUE
    BY <1>2, <2>1, <2>2
  <2>4. Agrees(r, next, d, f)
    BY <1>2, <1>3, <1>5, <2>2, <2>3 DEF Agrees
  <2>. QED
    BY <2>4 DEF r, next
<1>6. CASE tag = "PROP"
  <2>1. c.last = "BEGIN_NODE" /\ name \notin NamesTaken(c)
    BY <1>2, <1>3, <1>6
  <2>2. /\ Opened(r) /\ r.path = c.path /\ r.last = c.last
        /\ r.ok = (c.ok /\ c.last = "BEGIN_NODE" /\ name \notin NamesTaken(c))
        /\ c.last = "BEGIN_NODE" => NamesTaken(r) = NamesTaken(c) \cup {name}
    BY <1>2, <1>6, ReadShows
  <2> HIDE DEF r, next, name
  <2>3. r.ok = TRUE
    BY <1>2, <2>1, <2>2
  <2>4. f[next] \cap NamesTaken(r) = {}
    BY <1>2, <1>3, <1>6, <2>1, <2>2
  <2>5. Agrees(r, next, d, f)
    BY <1>2, <1>3, <1>6, <2>1, <2>2, <2>3, <2>4 DEF Agrees
  <2>. QED
    BY <2>5 DEF r, next
<1>7. CASE tag = "NOP"
  <2>1. r = c
    BY <1>2, <1>7, ReadShows
  <2> HIDE DEF r, next
  <2>2. Agrees(c, next, d, f)
    BY <1>2, <1>3, <1>7 DEF Agrees
  <2>. QED
    BY <2>1, <2>2 DEF r, next
<1>. QED
  BY <1>1, <1>4, <1>5, <1>6, <1>7

(* Nothing of a block whose tags are in order is found wrong, and no node  *)
(* is open at its end.                                                     *)
LEMMA OrderedIsWhole ==
  ASSUME NEW b, HasStruct(b), Ordered(b), NEW v, v = Contents(b)
  PROVE  v.ok = TRUE /\ v.path = Nowhere
<1>1. PICK n, p, g : IsReader(b, n, p, g) /\ v = g[n]
  BY ContentsAreRead
<1>2. PICK d, f : Marks(b, d, f)
  BY DEF Ordered
<1> DEFINE S == {i \in 0 .. n : Agrees(g[i], p[i], d, f)}
<1>3. n \in Nat /\ 0 \in 0 .. n /\ n \in 0 .. n
  BY <1>1 DEF IsReader
<1>4. 0 \in S
  <2>1. p[0] = 0 /\ g[0] = Blank /\ d[0] = 0 /\ f[0] = {}
    BY <1>1, <1>2 DEF IsReader, Marks
  <2>2. /\ DOMAIN Blank = Known /\ Blank.path = <<>> /\ Blank.ok = TRUE
        /\ Blank.last # "BEGIN_NODE"
    BY DEF Blank, Known, Nowhere
  <2>3. <<>> \in Seq(NodeNames) /\ Len(<<>>) = 0
    OBVIOUS
  <2>4. Agrees(Blank, 0, d, f)
    BY <2>1, <2>2, <2>3 DEF Agrees, Opened
  <2>. QED
    BY <1>3, <2>1, <2>4
<1>5. ASSUME NEW i \in 0 .. n - 1, i \in S  PROVE i + 1 \in S
  <2>1. i + 1 \in 0 .. n /\ i \in 0 .. n
    BY <1>3
  <2>2. /\ g[i + 1] = Read(b, g[i], p[i]) /\ p[i] \in Tags(b)
        /\ TagOf(b, p[i]) # "END" /\ p[i + 1] = Following(b, p[i])
    BY <1>1, <2>1 DEF IsReader
  <2> DEFINE c == g[i]
             o == p[i]
  <2>3. Agrees(c, o, d, f) /\ o \in Tags(b) /\ TagOf(b, o) # "END"
    BY <1>5, <2>2
  <2> HIDE DEF c, o
  <2>4. Agrees(Read(b, c, o), Following(b, o), d, f)
    BY <1>2, <2>3, OrderedIsRead
  <2>. QED
    BY <2>1, <2>2, <2>4 DEF c, o
<1>6. n \in S
  <2> HIDE DEF S
  <2>1. 0 .. n \subseteq S
    BY <1>3, <1>4, <1>5, UpTo
  <2>. QED
    BY <1>3, <2>1
<1>7. p[n] \in Tags(b) /\ TagOf(b, p[n]) = "END"
  BY <1>1, <1>3 DEF IsReader
<1>8. d[p[n]] = 0
  BY <1>2, <1>7 DEF Marks, OnTag
<1>9. Agrees(v, p[n], d, f)
  BY <1>1, <1>6
<1>10. v.path \in Seq(NodeNames) /\ Len(v.path) = 0 /\ v.ok = TRUE
  BY <1>8, <1>9 DEF Agrees, Opened
<1>. QED
  BY <1>10 DEF Nowhere

(* What it knows all the way if all is well at the end.                    *)
LEMMA AllIsWell ==
  ASSUME NEW b, HasStruct(b), NEW n, NEW p, NEW g, IsReader(b, n, p, g), g[n].ok
  PROVE  \A i \in 0 .. n : Opened(g[i]) /\ g[i].ok
<1>1. n \in Nat /\ 0 \in 0 .. n /\ n \in 0 .. n
  BY DEF IsReader
<1>2. ASSUME NEW i \in 0 .. n - 1
      PROVE  /\ i \in 0 .. n /\ i + 1 \in 0 .. n
             /\ g[i + 1] = Read(b, g[i], p[i]) /\ p[i] \in Tags(b)
             /\ TagOf(b, p[i]) \in {"BEGIN_NODE", "END_NODE", "PROP", "NOP"}
  <2>1. i \in 0 .. n /\ i + 1 \in 0 .. n
    BY <1>1
  <2>2. /\ g[i + 1] = Read(b, g[i], p[i]) /\ p[i] \in Tags(b)
        /\ TagOf(b, p[i]) # "END"
    BY <2>1 DEF IsReader
  <2>3. TagOf(b, p[i]) \in TagKinds
    BY <2>2, TagAt
  <2>. QED
    BY <2>1, <2>2, <2>3 DEF TagKinds
<1> DEFINE K == {i \in 0 .. n : Known \subseteq DOMAIN g[i]}
           W == {k \in 0 .. n : g[n - k].ok}
           O == {i \in 0 .. n : Opened(g[i])}
<1>3. g[0] = Blank
  BY DEF IsReader
<1>4. DOMAIN Blank = Known /\ Blank.path = <<>> /\ Blank.last # "BEGIN_NODE"
  BY DEF Blank, Known, Nowhere
<1>5. 0 \in K
  BY <1>1, <1>3, <1>4
<1>6. ASSUME NEW i \in 0 .. n - 1, i \in K  PROVE i + 1 \in K
  <2>1. Reads(b, g[i], p[i], g[i + 1])
    BY <1>2, <1>6, ReadIs
  <2>. QED
    BY <1>2, <2>1 DEF Reads
<1>7. 0 .. n \subseteq K
  <2> HIDE DEF K
  <2>. QED
    BY <1>1, <1>5, <1>6, UpTo
<1>8. 0 \in W
  BY <1>1
<1>9. ASSUME NEW k \in 0 .. n - 1, k \in W  PROVE k + 1 \in W
  <2> DEFINE i == n - (k + 1)
  <2>1. i \in 0 .. n - 1 /\ i + 1 = n - k /\ k + 1 \in 0 .. n
    BY <1>1
  <2>2. g[i + 1].ok
    BY <1>9, <2>1
  <2> HIDE DEF i
  <2>3. Known \subseteq DOMAIN g[i]
    BY <1>2, <1>7, <2>1
  <2> DEFINE c == g[i]
             r == g[i + 1]
             o == p[i]
  <2>4. /\ Reads(b, c, o, r) /\ o \in Tags(b) /\ r.ok
        /\ TagOf(b, o) \in {"BEGIN_NODE", "END_NODE", "PROP", "NOP"}
    BY <1>2, <2>1, <2>2, <2>3, ReadIs
  <2> HIDE DEF c, r, o
  <2>5. c.ok
    <3>1. CASE NextTag(b, o).tag = "BEGIN_NODE"
      BY <2>4, <3>1 DEF Reads
    <3>2. CASE NextTag(b, o).tag = "END_NODE"
      <4>1. r.ok = (c.ok /\ c.path # Nowhere)
        BY <2>4, <3>2 DEF Reads
      <4>. QED
        BY <2>4, <4>1
    <3>3. CASE NextTag(b, o).tag = "PROP"
      <4>1. r.ok = (c.ok /\ c.last = "BEGIN_NODE" /\ PropName(b, o) \notin DOMAIN c.tree[c.path])
        BY <2>4, <3>3 DEF Reads
      <4>. QED
        BY <2>4, <4>1
    <3>4. CASE NextTag(b, o).tag \notin {"BEGIN_NODE", "END_NODE", "PROP"}
      BY <2>4, <3>4 DEF Reads
    <3>. QED
      BY <3>1, <3>2, <3>3, <3>4
  <2>. QED
    BY <2>1, <2>5 DEF c, i
<1>10. 0 .. n \subseteq W
  <2> HIDE DEF W
  <2>. QED
    BY <1>1, <1>8, <1>9, UpTo
<1>11. ASSUME NEW i \in 0 .. n  PROVE g[i].ok
  <2>1. n - i \in 0 .. n /\ n - (n - i) = i
    BY <1>1
  <2>2. n - i \in W
    BY <1>10, <2>1
  <2>. QED
    BY <2>1, <2>2
<1>12. 0 \in O
  <2>1. <<>> \in Seq(NodeNames)
    OBVIOUS
  <2>. QED
    BY <1>1, <1>3, <1>4, <2>1 DEF Opened
<1>13. ASSUME NEW i \in 0 .. n - 1, i \in O  PROVE i + 1 \in O
  <2> DEFINE c == g[i]
             r == g[i + 1]
             o == p[i]
  <2>1. /\ r = Read(b, c, o) /\ o \in Tags(b) /\ Opened(c) /\ r.ok
        /\ TagOf(b, o) \in {"BEGIN_NODE", "END_NODE", "PROP", "NOP"}
    BY <1>2, <1>11, <1>13
  <2> HIDE DEF c, r, o
  <2>2. Opened(r)
    <3>1. CASE TagOf(b, o) = "BEGIN_NODE"
      BY <2>1, <3>1, ReadShows
    <3>2. CASE TagOf(b, o) = "END_NODE"
      <4>1. r.ok = (c.ok /\ c.path # Nowhere)
        BY <2>1, <3>2, ReadShows
      <4>2. c.path # Nowhere
        BY <2>1, <4>1
      <4>. QED
        BY <2>1, <3>2, <4>2, ReadShows
    <3>3. CASE TagOf(b, o) = "PROP"
      BY <2>1, <3>3, ReadShows
    <3>4. CASE TagOf(b, o) = "NOP"
      BY <2>1, <3>4, ReadShows
    <3>. QED
      BY <2>1, <3>1, <3>2, <3>3, <3>4
  <2>. QED
    BY <1>2, <2>2 DEF r
<1>14. 0 .. n \subseteq O
  <2> HIDE DEF O
  <2>. QED
    BY <1>1, <1>12, <1>13, UpTo
<1>. QED
  BY <1>11, <1>14

(* The names a property may have behind what is known in c.                *)
FreeIn(b, c) ==
  IF c.last = "BEGIN_NODE" THEN {PropName(b, t) : t \in Tags(b)} \ NamesTaken(c) ELSE {}

(* Tags that are read without complaint are in order.                      *)
LEMMA ReadIsOrdered ==
  ASSUME NEW b, HasStruct(b), NEW o \in Tags(b), NEW c, Opened(c),
         NEW r, r = Read(b, c, o), r.ok,
         TagOf(b, o) \in {"BEGIN_NODE", "END_NODE", "PROP", "NOP"},
         NEW d, NEW f, d[o] = Len(c.path), f[o] = FreeIn(b, c),
         d[Following(b, o)] = Len(r.path), f[Following(b, o)] = FreeIn(b, r)
  PROVE  OnTag(b, o, d, f)
<1> DEFINE next == Following(b, o)
           name == PropName(b, o)
<1>1. d[o] = Len(c.path) /\ Len(c.path) \in Nat
  BY DEF Opened
<1>2. CASE TagOf(b, o) = "BEGIN_NODE"
  <2>1. Len(r.path) = Len(c.path) + 1
    BY <1>2, ReadShows
  <2>. QED
    BY <1>1, <1>2, <2>1 DEF OnTag
<1>3. CASE TagOf(b, o) = "END_NODE"
  <2>1. r.ok = (c.ok /\ c.path # Nowhere) /\ r.last = "END_NODE"
    BY <1>3, ReadShows
  <2>2. c.path # Nowhere
    BY <2>1
  <2>3. Len(c.path) > 0 /\ Len(r.path) = Len(c.path) - 1
    BY <1>3, <2>2, ReadShows
  <2>4. f[next] = {}
    BY <2>1 DEF FreeIn
  <2>. QED
    BY <1>1, <1>3, <2>3, <2>4 DEF OnTag
<1>4. CASE TagOf(b, o) = "PROP"
  <2>1. /\ r.path = c.path /\ r.last = c.last
        /\ r.ok = (c.ok /\ c.last = "BEGIN_NODE" /\ name \notin NamesTaken(c))
        /\ c.last = "BEGIN_NODE" => NamesTaken(r) = NamesTaken(c) \cup {name}
    BY <1>4, ReadShows
  <2>2. c.last = "BEGIN_NODE" /\ name \notin NamesTaken(c)
    BY <2>1
  <2>3. name \in {PropName(b, t) : t \in Tags(b)}
    OBVIOUS
  <2>4. name \in f[o] /\ f[next] \subseteq f[o] \ {name}
    BY <2>1, <2>2, <2>3 DEF FreeIn
  <2>. QED
    BY <1>1, <1>4, <2>1, <2>4 DEF OnTag
<1>5. CASE TagOf(b, o) = "NOP"
  <2>1. r = c
    BY <1>5, ReadShows
  <2>. QED
    BY <1>1, <1>5, <2>1 DEF OnTag
<1>. QED
  BY <1>2, <1>3, <1>4, <1>5

(* There are marks if nothing is found wrong up to the end.                *)
LEMMA WholeIsOrdered ==
  ASSUME NEW b, HasStruct(b), NEW v, v = Contents(b), v.ok, v.path = Nowhere
  PROVE  Ordered(b)
<1>1. PICK n, p, g : IsReader(b, n, p, g) /\ v = g[n]
  BY ContentsAreRead
<1>2. /\ n \in Nat /\ 0 \in 0 .. n /\ n \in 0 .. n /\ g[0] = Blank /\ p[0] = 0
      /\ TagOf(b, p[n]) = "END"
  BY <1>1 DEF IsReader
<1>3. \A i \in 0 .. n : Opened(g[i]) /\ g[i].ok
  BY <1>1, AllIsWell
<1>4. /\ \A i, j \in 0 .. n : p[i] = p[j] => i = j
      /\ \A t \in Tags(b) : \E i \in 0 .. n : p[i] = t
      /\ \A i \in 0 .. n : p[i] \in Tags(b)
  BY <1>1, EachIsRead DEF IsReader
<1> DEFINE nr == [t \in Tags(b) |-> CHOOSE i \in 0 .. n : p[i] = t]
           d == [t \in Tags(b) |-> Len(g[nr[t]].path)]
           f == [t \in Tags(b) |-> FreeIn(b, g[nr[t]])]
<1>5. ASSUME NEW i \in 0 .. n  PROVE nr[p[i]] = i
  BY <1>4
<1> HIDE DEF nr
<1>6. ASSUME NEW i \in 0 .. n
      PROVE  d[p[i]] = Len(g[i].path) /\ f[p[i]] = FreeIn(b, g[i])
  BY <1>4, <1>5
<1> HIDE DEF d, f
<1>7. d[0] = 0 /\ f[0] = {}
  <2>1. d[0] = Len(Blank.path) /\ f[0] = FreeIn(b, Blank)
    BY <1>2, <1>6
  <2>. QED
    BY <2>1 DEF Blank, Nowhere, FreeIn
<1>8. ASSUME NEW i \in 0 .. n  PROVE OnTag(b, p[i], d, f)
  <2>1. CASE i = n
    <3>1. d[p[n]] = 0
      <4>1. d[p[n]] = Len(v.path)
        BY <1>1, <1>2, <1>6
      <4>. QED
        BY <4>1 DEF Nowhere
    <3>. QED
      BY <1>2, <2>1, <3>1 DEF OnTag
  <2>2. CASE i # n
    <3>1. i \in 0 .. n - 1 /\ i + 1 \in 0 .. n
      BY <1>2, <2>2
    <3> DEFINE o == p[i]
               c == g[i]
               r == g[i + 1]
    <3>2. /\ o \in Tags(b) /\ TagOf(b, o) # "END" /\ p[i + 1] = Following(b, o)
          /\ r = Read(b, c, o)
      BY <1>1, <1>4, <3>1 DEF IsReader
    <3>3. TagOf(b, o) \in {"BEGIN_NODE", "END_NODE", "PROP", "NOP"}
      BY <3>2, TagAt DEF TagKinds
    <3>4. /\ d[o] = Len(c.path) /\ f[o] = FreeIn(b, c)
          /\ d[Following(b, o)] = Len(r.path) /\ f[Following(b, o)] = FreeIn(b, r)
      BY <1>6, <3>1, <3>2
    <3>5. Opened(c) /\ r.ok
      BY <1>3, <3>1
    <3> HIDE DEF o, c, r
    <3>6. OnTag(b, o, d, f)
      BY <3>2, <3>3, <3>4, <3>5, ReadIsOrdered
    <3>. QED
      BY <3>6 DEF o
  <2>. QED
    BY <2>1, <2>2
<1>9. Marks(b, d, f)
  <2>1. ASSUME NEW t \in Tags(b)  PROVE OnTag(b, t, d, f)
    <3>1. PICK i \in 0 .. n : p[i] = t
      BY <1>4
    <3>. QED
      BY <1>8, <3>1
  <2>. QED
    BY <1>7, <2>1 DEF Marks
<1>. QED
  BY <1>9 DEF Ordered

-----------------------------------------------------------------------------
(* Blobs.                                                                  *)

SameBut(b, c, changed) ==
  /\ Fields \subseteq DOMAIN c
  /\ \A f \in Fields \ changed : c[f] = b[f]

HasHeader(b) ==
  /\ Fields \subseteq DOMAIN b
  /\ {b.totalsize, b.off_mem_rsvmap, b.off_dt_struct, b.size_dt_struct,
      b.off_dt_strings, b.size_dt_strings} \subseteq Nat

(* The strings block is behind the structure block.                        *)
UsualOrder(b) == StructTop(b) <= b.off_dt_strings

(* c is sound, and its tags and its blocks are in order if those of b are. *)
StaysSound(b, c) ==
  /\ Sound(c) /\ c.boot_cpuid_phys = b.boot_cpuid_phys
  /\ Ordered(b) => Ordered(c)
  /\ UsualOrder(b) => UsualOrder(c)

(* And so are the reservations what they were.                             *)
Kept(b, c) == StaysSound(b, c) /\ RsvMap(c) = RsvMap(b)

(* What is sound has a header, room, blocks and a structure that are.      *)
LEMMA SoundIs ==
  ASSUME NEW b
  PROVE  Sound(b) <=> HasHeader(b) /\ Fits(b) /\ BlocksAreApart(b) /\ HasStruct(b)
BY DEF Sound, HasHeader, HasStruct

(* A block that ends at top has its addresses in front of top.             *)
LEMMA Within ==
  ASSUME NEW base \in Nat, NEW size \in Nat, NEW top \in Nat, base + size <= top
  PROVE  \A i \in 0 .. size - 1 : base + i \in 0 .. top - 1
OBVIOUS

(* What Poke writes, and what it leaves alone.                             *)
LEMMA PokedIs ==
  ASSUME NEW b, Fields \subseteq DOMAIN b, NEW address, NEW cells,
         NEW w, w = Poke(b, address, cells)
  PROVE  /\ SameBut(b, w, {"mem"})
         /\ DOMAIN w.mem = Span(address, Len(cells)) \cup DOMAIN b.mem
         /\ \A a \in Span(address, Len(cells)) :
              w.mem[a] = cells[a - address + 1]
         /\ \A a \in DOMAIN b.mem \ Span(address, Len(cells)) :
              w.mem[a] = b.mem[a]
BY DEF Poke, Fields, SameBut

(* The size of a reservation.                                              *)
LEMMA RsvSizeIs == RsvSize \in Nat /\ RsvSize > 2 * FDT_TAGSIZE /\ FDT_TAGSIZE \in Nat
BY TagSizeIs DEF RsvSize

(* Entries of the map of reservations.                                     *)
LEMMA EntriesAre ==
  ASSUME NEW n \in Nat
  PROVE  /\ n * RsvSize \in Nat /\ (n + 1) * RsvSize = n * RsvSize + RsvSize
         /\ \A m \in 0 .. n : m * RsvSize \in Nat /\ m * RsvSize <= n * RsvSize
<1> DEFINE R == RsvSize
<1>1. R \in Nat
  BY RsvSizeIs
<1> HIDE DEF R
<1>2. ASSUME NEW k \in Nat  PROVE k * R \in Nat
  BY <1>1
<1>3. (n + 1) * R = n * R + R
  BY <1>1
<1>4. ASSUME NEW m \in 0 .. n  PROVE m * R \in Nat /\ m * R <= n * R
  <2>1. n - m \in Nat /\ m \in Nat
    OBVIOUS
  <2>2. (n - m) * R \in Nat /\ m * R \in Nat /\ n * R \in Nat
    BY <1>2, <2>1
  <2>3. n * R = m * R + (n - m) * R
    BY <1>1, <2>1
  <2>. QED
    BY <2>2, <2>3
<1>. QED
  BY <1>2, <1>3, <1>4 DEF R

(* The count is that of the first entry of size 0.                         *)
LEMMA CountIsFirst ==
  ASSUME NEW b, NumMemRsv(b) \in Nat, RsvSizeAt(b, NumMemRsv(b)) = 0
  PROVE  \A m \in 0 .. NumMemRsv(b) - 1 : RsvSizeAt(b, m) # 0
<1> DEFINE n == NumMemRsv(b)
           Ends == {m \in Nat : RsvSizeAt(b, m) = 0}
<1>1. PICK e \in Ends : \A m \in Ends : e <= m
  <2>1. Ends \subseteq Nat /\ Ends # {}
    OBVIOUS
  <2>. QED
    BY <2>1, LeastNumber
<1>2. e \in Nat /\ RsvSizeAt(b, e) = 0 /\ \A m \in 0 .. e - 1 : RsvSizeAt(b, m) # 0
  BY <1>1
<1>3. n = e
  BY <1>2, CountsReservations
<1>. QED
  BY <1>2, <1>3

(* The map says the same where its cells are the same.                     *)
LEMMA MapKept ==
  ASSUME NEW b, NEW c, NumMemRsv(b) \in Nat, RsvSizeAt(b, NumMemRsv(b)) = 0,
         b.off_mem_rsvmap \in Nat, c.off_mem_rsvmap \in Nat,
         \A i \in 0 .. MapSize(b) - 1 :
           c.mem[c.off_mem_rsvmap + i] = b.mem[b.off_mem_rsvmap + i]
  PROVE  /\ NumMemRsv(c) = NumMemRsv(b) /\ RsvSizeAt(c, NumMemRsv(c)) = 0
         /\ MapSize(c) = MapSize(b) /\ MapSize(b) \in Nat
         /\ RsvMap(c) = RsvMap(b)
<1> DEFINE n == NumMemRsv(b)
<1>1. MapSize(b) = n * RsvSize + RsvSize /\ MapSize(b) \in Nat /\ n * RsvSize \in Nat
  BY EntriesAre, RsvSizeIs DEF MapSize
<1>2. ASSUME NEW m \in 0 .. n  PROVE RsvSizeAt(c, m) = RsvSizeAt(b, m)
  <2> DEFINE i == m * RsvSize + 2 * FDT_TAGSIZE
  <2>1. m * RsvSize \in Nat /\ m * RsvSize <= n * RsvSize
    BY EntriesAre
  <2>2. i \in 0 .. MapSize(b) - 1
    BY <1>1, <2>1, RsvSizeIs
  <2>3. /\ c.off_mem_rsvmap + i = c.off_mem_rsvmap + m * RsvSize + 2 * FDT_TAGSIZE
        /\ b.off_mem_rsvmap + i = b.off_mem_rsvmap + m * RsvSize + 2 * FDT_TAGSIZE
    BY <2>1, RsvSizeIs
  <2> HIDE DEF i
  <2>. QED
    BY <2>2, <2>3 DEF RsvSizeAt
<1>3. RsvSizeAt(c, n) = 0 /\ \A m \in 0 .. n - 1 : RsvSizeAt(c, m) # 0
  BY <1>2, CountIsFirst
<1>4. NumMemRsv(c) = n
  BY <1>3, CountsReservations
<1>5. ASSUME NEW k \in 1 .. n
      PROVE  /\ RsvSizeAt(c, k - 1) = RsvSizeAt(b, k - 1)
             /\ c.mem[c.off_mem_rsvmap + (k - 1) * RsvSize]
                  = b.mem[b.off_mem_rsvmap + (k - 1) * RsvSize]
  <2>1. k - 1 \in 0 .. n
    OBVIOUS
  <2>2. (k - 1) * RsvSize \in Nat /\ (k - 1) * RsvSize <= n * RsvSize
    BY <2>1, EntriesAre
  <2>3. (k - 1) * RsvSize \in 0 .. MapSize(b) - 1
    BY <1>1, <2>2, RsvSizeIs
  <2>. QED
    BY <1>2, <2>1, <2>3
<1>6. RsvMap(c) = RsvMap(b)
  BY <1>4, <1>5 DEF RsvMap
<1>. QED
  BY <1>1, <1>3, <1>4, <1>6 DEF MapSize

(* A blob is sound if its structure is, its map is that of one that is and *)
(* there is space for all.                                                 *)
LEMMA LayoutIsSound ==
  ASSUME NEW b, Sound(b), NEW c, HasHeader(c), Fits(c), HasStruct(c),
         \A i \in 0 .. MapSize(b) - 1 :
           c.mem[c.off_mem_rsvmap + i] = b.mem[b.off_mem_rsvmap + i],
         HEADER_SIZE <= c.off_mem_rsvmap,
         c.off_mem_rsvmap + MapSize(b) <= c.off_dt_struct,
         c.off_mem_rsvmap + MapSize(b) <= c.off_dt_strings,
         StructTop(c) <= c.off_dt_strings \/ DataSize(c) <= c.off_dt_struct
  PROVE  /\ Sound(c) /\ MapSize(c) = MapSize(b) /\ NumMemRsv(c) = NumMemRsv(b)
         /\ RsvMap(c) = RsvMap(b)
<1>1. /\ NumMemRsv(b) \in Nat /\ RsvSizeAt(b, NumMemRsv(b)) = 0
      /\ b.off_mem_rsvmap \in Nat /\ c.off_mem_rsvmap \in Nat
  BY DEF Sound, BlocksAreApart, HasHeader
<1>2. /\ NumMemRsv(c) = NumMemRsv(b) /\ RsvSizeAt(c, NumMemRsv(c)) = 0
      /\ MapSize(c) = MapSize(b) /\ RsvMap(c) = RsvMap(b)
  BY <1>1, MapKept
<1>3. BlocksAreApart(c)
  BY <1>1, <1>2 DEF BlocksAreApart
<1>. QED
  BY <1>2, <1>3, SoundIs

(* The structure is sound where its cells are the same.                    *)
LEMMA StructKept ==
  ASSUME NEW b, HasStruct(b), NEW c,
         c.size_dt_struct = b.size_dt_struct, c.size_dt_strings \in Nat,
         c.size_dt_strings >= b.size_dt_strings,
         \A i \in 0 .. b.size_dt_struct - 1 : Struct(c, i) = Struct(b, i)
  PROVE  HasStruct(c)
<1>1. 0 \in Tags(b) /\ b.size_dt_struct \in Nat
  BY DEF HasStruct, StructIsSound
<1>2. Edited(b, c, 0, 0, 0)
  <2>1. c.size_dt_struct = b.size_dt_struct - 0 + 0
    BY <1>1
  <2>2. \A i \in 0 + 0 .. b.size_dt_struct - 1 : Struct(c, i + (0 - 0)) = Struct(b, i)
    OBVIOUS
  <2>. QED
    BY <2>1, <2>2 DEF Edited
<1>3. 0 \in Tags(c)
  <2>1. 0 \in 0 .. b.size_dt_struct - 1
    BY <1>1 DEF Tags
  <2>. QED
    BY <1>1, <2>1 DEF Tags
<1>4. \A o \in Tags(c) : o \in 0 .. 0 + 0 - 1 => TagIsSound(c, o)
  OBVIOUS
<1>5. 0 + 0 \in Tags(b) /\ IsMultiple(0) /\ 0 \in Nat
  BY <1>1, Multiples
<1>. QED
  BY <1>1, <1>2, <1>3, <1>4, <1>5, EditedIsSound

-----------------------------------------------------------------------------
(* Edits of the structure block.                                           *)

(* The addresses from p to p + old have become those from p to p + new,    *)
(* and what was behind them has moved.                                     *)
Reshaped(b, c, p, old, new) ==
  /\ SameBut(b, c, {"mem", "size_dt_struct", "off_dt_strings"})
  /\ c.size_dt_struct = b.size_dt_struct - old + new
  /\ c.off_dt_strings = b.off_dt_strings - old + new
  /\ DOMAIN c.mem = 0 .. BUF_SIZE - 1
  /\ DataSize(c) <= c.totalsize /\ StructTop(c) <= c.totalsize
  /\ \A a \in 0 .. p - 1 : c.mem[a] = b.mem[a]
  /\ \A a \in p + old .. BUF_SIZE - 1 :
       a < StructTop(b) \/ a < DataSize(b) => c.mem[a + (new - old)] = b.mem[a]

(* The fields an edit of the structure block leaves alone.                 *)
LEMMA SameFields ==
  ASSUME NEW b, NEW c
  PROVE  /\ SameBut(b, c, {"mem", "size_dt_struct", "off_dt_strings"}) <=>
              /\ Fields \subseteq DOMAIN c
              /\ c.totalsize = b.totalsize
              /\ c.off_mem_rsvmap = b.off_mem_rsvmap
              /\ c.off_dt_struct = b.off_dt_struct
              /\ c.size_dt_strings = b.size_dt_strings
              /\ c.boot_cpuid_phys = b.boot_cpuid_phys
         /\ SameBut(b, c, {"mem"}) <=>
              /\ SameBut(b, c, {"mem", "size_dt_struct", "off_dt_strings"})
              /\ c.size_dt_struct = b.size_dt_struct
              /\ c.off_dt_strings = b.off_dt_strings
BY DEF SameBut, Fields

(* The fields of a sound blob as numbers.                                  *)
LEMMA NumbersAre ==
  ASSUME NEW b, Sound(b)
  PROVE  /\ b.totalsize \in Nat /\ b.off_mem_rsvmap \in Nat
         /\ b.off_dt_struct \in Nat /\ b.size_dt_struct \in Nat
         /\ b.off_dt_strings \in Nat /\ b.size_dt_strings \in Nat
         /\ BUF_SIZE \in Nat /\ b.totalsize <= BUF_SIZE
         /\ StructTop(b) \in Nat /\ StructTop(b) <= b.totalsize
         /\ StructTop(b) = b.off_dt_struct + b.size_dt_struct
         /\ DataSize(b) \in Nat /\ DataSize(b) <= b.totalsize
         /\ DataSize(b) = b.off_dt_strings + b.size_dt_strings
BY SizesAssumption DEF Sound, Fits, StructTop, DataSize

(* The addresses of a sound blob.                                          *)
LEMMA BufferIs ==
  ASSUME NEW b, Sound(b)
  PROVE  Fields \subseteq DOMAIN b /\ DOMAIN b.mem = 0 .. BUF_SIZE - 1
BY DEF Sound, Fits

(* What the header check finds out.                                        *)
LEMMA OrderedIs ==
  ASSUME NEW b, Sound(b), ~Misordered(b, RsvSize)
  PROVE  StructTop(b) <= b.off_dt_strings /\ StructTop(b) <= DataSize(b)
<1>1. ~(b.off_dt_strings < StructTop(b))
  BY DEF Misordered
<1>. QED
  BY <1>1, NumbersAre

(* There is no space, or what is to be put in has space, and what was      *)
(* there is there.                                                         *)
Fitted(b, c, p, old, new) ==
  /\ Reshaped(b, c, p, old, new)
  /\ p + new <= BUF_SIZE
  /\ \A a \in p .. p + new - 1 : c.mem[a] = b.mem[a]

(* _fdt_splice_struct does nothing for want of space, or makes old         *)
(* addresses new ones and corrects the two fields.                         *)
LEMMA SpliceStructIs ==
  ASSUME NEW b, Sound(b), ~Misordered(b, RsvSize),
         NEW offset \in Nat, NEW old \in Nat, NEW new \in Nat,
         offset + old <= b.size_dt_struct,
         NEW r, r = SpliceStruct(b, offset, old, new)
  PROVE  \/ r.ret = NOSPACE /\ r.fdt = b
         \/ r.ret = 0 /\ Fitted(b, r.fdt, b.off_dt_struct + offset, old, new)
<1> DEFINE p == b.off_dt_struct + offset
           end == DataSize(b)
           s == Splice(b, p, old, new)
           mem == Memmove(b.mem, p + new, p + old, end - p - old)
           q == [b EXCEPT !.mem = mem]
           c == [q EXCEPT !.size_dt_struct = @ + (new - old),
                          !.off_dt_strings = @ + (new - old)]
<1>0. Fields \subseteq DOMAIN b /\ DOMAIN b.mem = 0 .. BUF_SIZE - 1
  BY BufferIs
<1>1. /\ b.totalsize \in Nat /\ b.off_dt_struct \in Nat
      /\ b.size_dt_struct \in Nat /\ b.off_dt_strings \in Nat
      /\ b.size_dt_strings \in Nat
      /\ b.totalsize <= BUF_SIZE /\ BUF_SIZE \in Nat
  BY NumbersAre
<1>2. /\ StructTop(b) \in Nat
      /\ StructTop(b) = b.off_dt_struct + b.size_dt_struct
      /\ end \in Nat /\ end <= b.totalsize
      /\ end = b.off_dt_strings + b.size_dt_strings
      /\ StructTop(b) <= b.off_dt_strings /\ StructTop(b) <= end
  BY NumbersAre, OrderedIs
<1>3. p \in Nat /\ p + old <= StructTop(b) /\ p + old <= end
  BY <1>1, <1>2
<1> HIDE DEF p
<1>4. s = IF end - old + new > b.totalsize THEN Result(b, NOSPACE)
          ELSE Result(q, 0)
  <2>1. s = IF p + old > end THEN Result(b, BADOFFSET)
            ELSE IF end - old + new > b.totalsize THEN Result(b, NOSPACE)
            ELSE Result(q, 0)
    BY DEF Splice
  <2>2. ~(p + old > end)
    BY <1>1, <1>2, <1>3
  <2> HIDE DEF s, q, end
  <2>. QED
    BY <2>1, <2>2
<1>5. CASE end - old + new > b.totalsize
  <2>1. s.ret = NOSPACE /\ s.fdt = b /\ NOSPACE # 0
    BY <1>4, <1>5 DEF Result, NOSPACE
  <2>2. r = s
    BY <2>1 DEF SpliceStruct, p
  <2>. QED
    BY <2>1, <2>2
<1>6. CASE ~(end - old + new > b.totalsize)
  <2>1. s.ret = 0 /\ s.fdt = q
    BY <1>4, <1>6 DEF Result
  <2>2. r = Result(c, 0)
    BY <2>1 DEF SpliceStruct, p
  <2>3. r.ret = 0 /\ r.fdt = c
    BY <2>2 DEF Result
  <2>4. /\ c.mem = mem
        /\ c.size_dt_struct = b.size_dt_struct + (new - old)
        /\ c.off_dt_strings = b.off_dt_strings + (new - old)
        /\ SameBut(b, c, {"mem", "size_dt_struct", "off_dt_strings"})
    <3> HIDE DEF mem
    <3>1. /\ DOMAIN q = DOMAIN b /\ q.mem = mem
          /\ \A f \in Fields \ {"mem"} : q[f] = b[f]
      BY <1>0 DEF Fields
    <3> HIDE DEF q
    <3>2. /\ DOMAIN c = DOMAIN q /\ c.mem = mem
          /\ c.size_dt_struct = q.size_dt_struct + (new - old)
          /\ c.off_dt_strings = q.off_dt_strings + (new - old)
          /\ \A f \in Fields \ {"mem", "size_dt_struct", "off_dt_strings"} :
               c[f] = q[f]
      BY <1>0, <3>1 DEF Fields
    <3> HIDE DEF c
    <3>3. /\ c.size_dt_struct = b.size_dt_struct + (new - old)
          /\ c.off_dt_strings = b.off_dt_strings + (new - old)
      BY <3>1, <3>2 DEF Fields
    <3>. QED
      BY <1>0, <3>1, <3>2, <3>3 DEF SameBut
  <2> HIDE DEF c, q
  <2>5. /\ c.size_dt_strings = b.size_dt_strings /\ c.totalsize = b.totalsize
        /\ c.off_dt_struct = b.off_dt_struct
    BY <2>4, SameFields
  <2>6. /\ c.size_dt_struct = b.size_dt_struct - old + new
        /\ c.off_dt_strings = b.off_dt_strings - old + new
    BY <1>1, <2>4
  <2>7. /\ DataSize(c) = end - old + new
        /\ StructTop(c) = StructTop(b) - old + new
    <3>1. /\ DataSize(c) = c.off_dt_strings + c.size_dt_strings
          /\ StructTop(c) = c.off_dt_struct + c.size_dt_struct
      BY DEF DataSize, StructTop
    <3> HIDE DEF end
    <3>. QED
      BY <1>1, <1>2, <2>5, <2>6, <3>1
  <2>8. DataSize(c) <= c.totalsize /\ StructTop(c) <= c.totalsize
    BY <1>1, <1>2, <1>3, <1>6, <2>5, <2>7
  <2> DEFINE moved == p + new .. p + new + (end - p - old) - 1
  <2>9. Span(p + new, end - p - old) = moved
    BY DEF Span
  <2>10. /\ DOMAIN mem = moved \cup (0 .. BUF_SIZE - 1)
         /\ \A a \in moved : mem[a] = b.mem[a - (p + new) + (p + old)]
         /\ \A a \in (0 .. BUF_SIZE - 1) \ moved : mem[a] = b.mem[a]
    BY <1>0, <2>9 DEF Memmove
  <2> HIDE DEF mem, end
  <2>11. \A a \in moved : a \in 0 .. BUF_SIZE - 1
    BY <1>1, <1>2, <1>3, <1>6
  <2>12. DOMAIN c.mem = 0 .. BUF_SIZE - 1
    BY <2>4, <2>10, <2>11
  <2>13. p + new <= BUF_SIZE
    BY <1>1, <1>2, <1>3, <1>6
  <2>14. \A a \in 0 .. p + new - 1 : c.mem[a] = b.mem[a]
    <3>1. ASSUME NEW a \in 0 .. p + new - 1
          PROVE  a \in (0 .. BUF_SIZE - 1) \ moved
      BY <1>1, <1>3, <2>13
    <3> HIDE DEF moved
    <3>. QED
      BY <2>4, <2>10, <3>1
  <2>15. ASSUME NEW a \in p + old .. BUF_SIZE - 1, a < StructTop(b) \/ a < DataSize(b)
         PROVE  c.mem[a + (new - old)] = b.mem[a]
    <3> DEFINE t == a + (new - old)
    <3>1. t \in moved /\ t - (p + new) + (p + old) = a
      BY <1>1, <1>2, <1>3, <2>15 DEF end
    <3> HIDE DEF t, moved
    <3>2. mem[t] = b.mem[t - (p + new) + (p + old)]
      BY <2>10, <3>1
    <3>3. mem[t] = b.mem[a]
      BY <3>1, <3>2
    <3>. QED
      BY <2>4, <3>3 DEF t
  <2>18. \A a \in 0 .. p - 1 : c.mem[a] = b.mem[a]
    <3>1. ASSUME NEW a \in 0 .. p - 1  PROVE a \in 0 .. p + new - 1
      BY <1>3
    <3>. QED
      BY <2>14, <3>1
  <2>16. Reshaped(b, c, p, old, new)
    BY <2>4, <2>6, <2>8, <2>12, <2>15, <2>18 DEF Reshaped
  <2>17. \A a \in p .. p + new - 1 : c.mem[a] = b.mem[a]
    BY <1>3, <2>14
  <2> HIDE DEF s
  <2>. QED
    BY <2>3, <2>13, <2>16, <2>17 DEF p, Fitted
<1>. QED
  BY <1>5, <1>6

(* The ends of the blocks after the splice.                                *)
LEMMA ReshapedSizes ==
  ASSUME NEW b, Sound(b), NEW c, NEW p, NEW old \in Nat, NEW new \in Nat,
         Reshaped(b, c, p, old, new)
  PROVE  /\ c.totalsize = b.totalsize
         /\ DataSize(c) = DataSize(b) - old + new
         /\ StructTop(c) = StructTop(b) - old + new
         /\ DataSize(c) <= c.totalsize /\ StructTop(c) <= c.totalsize
<1>1. /\ DataSize(c) = c.off_dt_strings + c.size_dt_strings
      /\ StructTop(c) = c.off_dt_struct + c.size_dt_struct
  BY DEF DataSize, StructTop
<1>2. /\ c.totalsize = b.totalsize /\ c.off_dt_struct = b.off_dt_struct
      /\ c.size_dt_strings = b.size_dt_strings
      /\ c.size_dt_struct = b.size_dt_struct - old + new
      /\ c.off_dt_strings = b.off_dt_strings - old + new
      /\ DataSize(c) <= c.totalsize /\ StructTop(c) <= c.totalsize
  BY SameFields DEF Reshaped
<1>. QED
  BY <1>1, <1>2, NumbersAre

(* The same edit, seen from k addresses before.                            *)
LEMMA ReshapedMore ==
  ASSUME NEW b, NEW c, NEW p \in Nat, NEW old \in Nat, NEW new \in Nat,
         Reshaped(b, c, p, old, new), NEW k \in 0 .. p,
         b.size_dt_struct \in Nat, b.off_dt_strings \in Nat
  PROVE  Reshaped(b, c, p - k, old + k, new + k)
<1>1. /\ c.size_dt_struct = b.size_dt_struct - (old + k) + (new + k)
      /\ c.off_dt_strings = b.off_dt_strings - (old + k) + (new + k)
  BY DEF Reshaped
<1>2. \A a \in 0 .. (p - k) - 1 : c.mem[a] = b.mem[a]
  BY DEF Reshaped
<1>3. (p - k) + (old + k) = p + old /\ (new + k) - (old + k) = new - old
  OBVIOUS
<1>. QED
  BY <1>1, <1>2, <1>3 DEF Reshaped

(* The cells are at the address, and elsewhere is what was there.          *)
HoldsCells(w, c, address, cells) ==
  /\ \A i \in 1 .. Len(cells) : w.mem[address + (i - 1)] = cells[i]
  /\ \A a \in 0 .. BUF_SIZE - 1 :
       a < address \/ a >= address + Len(cells) => w.mem[a] = c.mem[a]

(* Cells written where the new ones are to be.                             *)
LEMMA ReshapedPoked ==
  ASSUME NEW b, Sound(b), NEW c, NEW p \in Nat, NEW old \in Nat, NEW new \in Nat,
         Reshaped(b, c, p, old, new), p + new <= BUF_SIZE,
         NEW address \in Nat, NEW cells, Len(cells) \in Nat,
         address >= p, address + Len(cells) <= p + new,
         NEW w, w = Poke(c, address, cells)
  PROVE  Reshaped(b, w, p, old, new) /\ HoldsCells(w, c, address, cells)
<1> DEFINE n == Len(cells)
<1>1. /\ b.totalsize \in Nat /\ b.off_dt_struct \in Nat
      /\ b.size_dt_struct \in Nat /\ b.off_dt_strings \in Nat
      /\ b.size_dt_strings \in Nat
      /\ b.totalsize <= BUF_SIZE /\ BUF_SIZE \in Nat
      /\ StructTop(b) = b.off_dt_struct + b.size_dt_struct
      /\ DataSize(b) = b.off_dt_strings + b.size_dt_strings
  BY NumbersAre
<1>2. /\ Fields \subseteq DOMAIN c /\ DOMAIN c.mem = 0 .. BUF_SIZE - 1
  BY DEF Reshaped, SameBut
<1>3. Span(address, n) = address .. address + n - 1
  BY DEF Span
<1>4. /\ SameBut(c, w, {"mem"})
      /\ DOMAIN w.mem = (address .. address + n - 1) \cup DOMAIN c.mem
      /\ \A a \in address .. address + n - 1 : w.mem[a] = cells[a - address + 1]
      /\ \A a \in DOMAIN c.mem \ (address .. address + n - 1) : w.mem[a] = c.mem[a]
  <2>1. /\ SameBut(c, w, {"mem"})
        /\ DOMAIN w.mem = Span(address, Len(cells)) \cup DOMAIN c.mem
        /\ \A a \in Span(address, Len(cells)) : w.mem[a] = cells[a - address + 1]
        /\ \A a \in DOMAIN c.mem \ Span(address, Len(cells)) : w.mem[a] = c.mem[a]
    BY <1>2 DEF Poke, SameBut, Fields
  <2>. QED
    BY <1>3, <2>1
<1> HIDE DEF n
<1>5. n \in Nat /\ address + n <= p + new
  BY DEF n
<1>6. DOMAIN w.mem = 0 .. BUF_SIZE - 1
  <2>1. \A a \in address .. address + n - 1 : a \in 0 .. BUF_SIZE - 1
    BY <1>1, <1>5
  <2>. QED
    BY <1>2, <1>4, <2>1
<1>7. /\ SameBut(b, w, {"mem", "size_dt_struct", "off_dt_strings"})
      /\ w.size_dt_struct = b.size_dt_struct - old + new
      /\ w.off_dt_strings = b.off_dt_strings - old + new
      /\ DataSize(w) = DataSize(c) /\ StructTop(w) = StructTop(c)
      /\ w.totalsize = c.totalsize
  BY <1>4, SameFields DEF Reshaped, DataSize, StructTop
<1>8. ASSUME NEW a \in 0 .. BUF_SIZE - 1, a < address \/ a >= address + n
      PROVE  w.mem[a] = c.mem[a]
  <2>1. a \notin address .. address + n - 1
    BY <1>5, <1>8
  <2>. QED
    BY <1>2, <1>4, <2>1
<1>9. \A a \in 0 .. p - 1 : w.mem[a] = b.mem[a]
  <2>1. ASSUME NEW a \in 0 .. p - 1  PROVE a \in 0 .. BUF_SIZE - 1 /\ a < address
    BY <1>1
  <2>. QED
    BY <1>8, <2>1 DEF Reshaped
<1>10. ASSUME NEW a \in p + old .. BUF_SIZE - 1,
              a < StructTop(b) \/ a < DataSize(b)
       PROVE  w.mem[a + (new - old)] = b.mem[a]
  <2> DEFINE t == a + (new - old)
  <2>1. c.mem[t] = b.mem[a]
    BY <1>10 DEF Reshaped
  <2>2. /\ c.totalsize = b.totalsize
        /\ DataSize(c) = DataSize(b) - old + new
        /\ StructTop(c) = StructTop(b) - old + new
        /\ DataSize(b) \in Nat /\ StructTop(b) \in Nat
        /\ DataSize(c) <= c.totalsize /\ StructTop(c) <= c.totalsize
    BY NumbersAre, ReshapedSizes
  <2>3. t \in 0 .. BUF_SIZE - 1 /\ t >= address + n
    <3>1. a \in Int /\ a >= p + old /\ t = a + (new - old) /\ t \in Int
      OBVIOUS
    <3>2. t >= p + new
      BY <3>1
    <3>3. t < BUF_SIZE
      <4> DEFINE total == c.totalsize
                 data == DataSize(b)
                 top == StructTop(b)
      <4>1. /\ data \in Nat /\ top \in Nat /\ total \in Nat /\ total <= BUF_SIZE
            /\ data - old + new <= total /\ top - old + new <= total
        BY <1>1, <2>2
      <4>2. a < top \/ a < data
        BY <1>10
      <4> HIDE DEF total, data, top
      <4>3. BUF_SIZE \in Nat
        BY <1>1
      <4>4. CASE a < top
        BY <3>1, <4>1, <4>3, <4>4
      <4>5. CASE a < data
        BY <3>1, <4>1, <4>3, <4>5
      <4>. QED
        BY <4>2, <4>4, <4>5
    <3> HIDE DEF t
    <3>. QED
      BY <1>1, <1>5, <3>1, <3>2, <3>3
  <2> HIDE DEF t
  <2>4. w.mem[t] = b.mem[a]
    BY <1>8, <2>1, <2>3
  <2>. QED
    BY <2>4 DEF t
<1>11. Reshaped(b, w, p, old, new)
  BY <1>6, <1>7, <1>9, <1>10 DEF Reshaped
<1>12. \A i \in 1 .. n : w.mem[address + (i - 1)] = cells[i]
  <2>1. ASSUME NEW i \in 1 .. n
        PROVE  /\ address + (i - 1) \in address .. address + n - 1
               /\ (address + (i - 1)) - address + 1 = i
    BY <1>5
  <2>. QED
    BY <1>4, <2>1
<1>. QED
  BY <1>8, <1>11, <1>12 DEF HoldsCells, n

(* Properties in the same place of the strings have the same names.        *)
LEMMA ReshapedNames ==
  ASSUME NEW b, Sound(b), NEW c, NEW o \in Nat, NEW old \in Nat, NEW new \in Nat,
         o + old <= b.size_dt_struct,
         Reshaped(b, c, b.off_dt_struct + o, old, new),
         old = new \/ StructTop(b) <= b.off_dt_strings
  PROVE  SameNames(b, c)
<1>1. /\ b.off_dt_struct \in Nat /\ b.size_dt_struct \in Nat
      /\ b.off_dt_strings \in Nat /\ b.size_dt_strings \in Nat
      /\ BUF_SIZE \in Nat /\ DataSize(b) <= BUF_SIZE
      /\ DataSize(b) = b.off_dt_strings + b.size_dt_strings
      /\ StructTop(b) = b.off_dt_struct + b.size_dt_struct
  <2>1. /\ DataSize(b) <= b.totalsize /\ b.totalsize <= BUF_SIZE
        /\ DataSize(b) \in Nat /\ b.totalsize \in Nat /\ BUF_SIZE \in Nat
    BY NumbersAre
  <2>2. DataSize(b) <= BUF_SIZE
    BY <2>1
  <2>. QED
    BY <2>2, NumbersAre
<1>2. StructTop(b) <= b.off_dt_strings \/ DataSize(b) <= b.off_dt_struct
  BY SoundIs DEF BlocksAreApart
<1>3. c.off_dt_strings = b.off_dt_strings - old + new
  BY DEF Reshaped
<1> SUFFICES ASSUME NEW i \in 0 .. b.size_dt_strings - 1
             PROVE  String(c, i) = String(b, i)
  BY DEF SameNames
<1> DEFINE a == b.off_dt_strings + i
           p == b.off_dt_struct + o
<1>4. /\ a \in Nat /\ a < DataSize(b) /\ a <= BUF_SIZE - 1
      /\ c.off_dt_strings + i = a + (new - old)
  BY <1>1, <1>3
<1>5. c.mem[a + (new - old)] = b.mem[a]
  <2>1. CASE StructTop(b) <= b.off_dt_strings
    <3>1. a \in p + old .. BUF_SIZE - 1
      BY <1>1, <1>4, <2>1
    <3> HIDE DEF a, p
    <3>2. Reshaped(b, c, p, old, new)
      BY DEF p
    <3>. QED
      BY <1>4, <3>1, <3>2 DEF Reshaped
  <2>2. CASE old = new /\ DataSize(b) <= b.off_dt_struct
    <3>1. a \in 0 .. p - 1 /\ a + (new - old) = a
      BY <1>1, <1>4, <2>2
    <3> HIDE DEF a, p
    <3>2. Reshaped(b, c, p, old, new)
      BY DEF p
    <3>. QED
      BY <3>1, <3>2 DEF Reshaped
  <2>. QED
    BY <1>2, <2>1, <2>2
<1> HIDE DEF a
<1>6. c.mem[c.off_dt_strings + i] = b.mem[a]
  BY <1>4, <1>5
<1>. QED
  BY <1>6 DEF String, a

(* The blob is sound after the edit if it was from a tag to a tag and what *)
(* it put in is, and its tags are in order if that mends them.             *)
LEMMA ReshapedIsSound ==
  ASSUME NEW b, Sound(b), NEW c, NEW o \in Tags(b), NEW old \in Nat,
         NEW new \in Nat, IsMultiple(new), o + old \in Tags(b),
         Reshaped(b, c, b.off_dt_struct + o, old, new),
         old = new \/ StructTop(b) <= b.off_dt_strings,
         o \in Tags(c),
         \A t \in Tags(c) : t \in o .. o + new - 1 => TagIsSound(c, t),
         Ordered(b) => Mended(b, c, o, old, new)
  PROVE  Kept(b, c)
<1>1. HasHeader(b) /\ Fits(b) /\ BlocksAreApart(b) /\ HasStruct(b)
  BY SoundIs
<1>2. /\ b.totalsize \in Nat /\ b.off_mem_rsvmap \in Nat /\ b.off_dt_struct \in Nat
      /\ b.size_dt_struct \in Nat /\ b.off_dt_strings \in Nat
      /\ b.size_dt_strings \in Nat /\ b.totalsize <= BUF_SIZE /\ BUF_SIZE \in Nat
      /\ StructTop(b) <= b.totalsize
  BY NumbersAre
<1>3. /\ Fields \subseteq DOMAIN c
      /\ c.totalsize = b.totalsize /\ c.off_mem_rsvmap = b.off_mem_rsvmap
      /\ c.off_dt_struct = b.off_dt_struct
      /\ c.size_dt_strings = b.size_dt_strings
      /\ c.size_dt_struct = b.size_dt_struct - old + new
      /\ c.off_dt_strings = b.off_dt_strings - old + new
      /\ c.boot_cpuid_phys = b.boot_cpuid_phys
  BY SameFields DEF Reshaped
<1>4. /\ o \in Nat /\ o + old \in Nat /\ o + old < b.size_dt_struct
  BY <1>2 DEF Tags
<1>5. /\ MapSize(b) \in Nat /\ HEADER_SIZE <= b.off_mem_rsvmap
      /\ b.off_mem_rsvmap + MapSize(b) <= b.off_dt_struct
      /\ b.off_mem_rsvmap + MapSize(b) <= b.off_dt_strings
      /\ StructTop(b) <= b.off_dt_strings \/ DataSize(b) <= b.off_dt_struct
  BY <1>1, EntriesAre, RsvSizeIs DEF BlocksAreApart, MapSize
<1>6. /\ StructTop(b) = b.off_dt_struct + b.size_dt_struct
      /\ StructTop(c) = StructTop(b) - old + new
      /\ DataSize(b) = b.off_dt_strings + b.size_dt_strings
      /\ DataSize(c) = DataSize(b) - old + new
  BY <1>2, <1>3 DEF StructTop, DataSize
<1>7. HasHeader(c)
  <2>1. c.size_dt_struct \in Nat
    BY <1>2, <1>3, <1>4
  <2>2. c.off_dt_strings \in Nat
    BY <1>2, <1>3, <1>4, <1>6
  <2>. QED
    BY <1>2, <1>3, <2>1, <2>2 DEF HasHeader
<1>8. Fits(c)
  BY <1>2, <1>3 DEF Fits, Reshaped
<1>9. /\ c.off_mem_rsvmap + MapSize(b) <= c.off_dt_struct
      /\ c.off_mem_rsvmap + MapSize(b) <= c.off_dt_strings
      /\ StructTop(c) <= c.off_dt_strings \/ DataSize(c) <= c.off_dt_struct
      /\ HEADER_SIZE <= c.off_mem_rsvmap
  <2>1. CASE old = new
    BY <1>2, <1>3, <1>5, <1>6, <2>1
  <2>2. CASE StructTop(b) <= b.off_dt_strings
    BY <1>2, <1>3, <1>4, <1>5, <1>6, <2>2
  <2>. QED
    BY <2>1, <2>2
<1>10. Edited(b, c, o, old, new)
  <2>1. ASSUME NEW i \in 0 .. o - 1  PROVE Struct(c, i) = Struct(b, i)
    <3>1. b.off_dt_struct + i \in 0 .. (b.off_dt_struct + o) - 1
      BY <1>2, <1>4
    <3>2. c.mem[b.off_dt_struct + i] = b.mem[b.off_dt_struct + i]
      BY <3>1 DEF Reshaped
    <3>. QED
      BY <1>3, <3>2 DEF Struct
  <2>2. ASSUME NEW i \in o + old .. b.size_dt_struct - 1
        PROVE  Struct(c, i + (new - old)) = Struct(b, i)
    <3> DEFINE a == b.off_dt_struct + i
    <3>1. /\ a \in (b.off_dt_struct + o) + old .. BUF_SIZE - 1
          /\ a < StructTop(b)
          /\ b.off_dt_struct + (i + (new - old)) = a + (new - old)
      BY <1>2, <1>4, <1>6
    <3> HIDE DEF a
    <3>2. c.mem[a + (new - old)] = b.mem[a]
      BY <3>1 DEF Reshaped
    <3>. QED
      BY <1>3, <3>1, <3>2 DEF Struct, a
  <2>. QED
    BY <1>2, <1>3, <2>1, <2>2 DEF Edited
<1>11. HasStruct(c)
  BY <1>1, <1>10, EditedIsSound
<1>12. \A i \in 0 .. MapSize(b) - 1 :
         c.mem[c.off_mem_rsvmap + i] = b.mem[b.off_mem_rsvmap + i]
  <2>1. ASSUME NEW i \in 0 .. MapSize(b) - 1
        PROVE  b.off_mem_rsvmap + i \in 0 .. (b.off_dt_struct + o) - 1
    BY <1>2, <1>4, <1>5
  <2>. QED
    BY <1>3, <2>1 DEF Reshaped
<1>13. SameNames(b, c)
  <2>1. o + old <= b.size_dt_struct
    BY <1>2, <1>4
  <2>. QED
    BY <1>4, <2>1, ReshapedNames
<1>14. ASSUME Mended(b, c, o, old, new)  PROVE Ordered(c)
  <2>1. PICK d, f, h, e, g : Mends(b, c, o, old, new, d, f, h, e, g)
    BY <1>14 DEF Mended
  <2>. QED
    BY <1>1, <1>10, <1>11, <1>13, <2>1, EditedIsOrdered
<1>15. UsualOrder(b) => UsualOrder(c)
  BY <1>2, <1>3, <1>4, <1>6 DEF UsualOrder
<1>16. Sound(c) /\ RsvMap(c) = RsvMap(b)
  BY <1>7, <1>8, <1>9, <1>11, <1>12, LayoutIsSound
<1>. QED
  BY <1>3, <1>14, <1>15, <1>16 DEF Kept, StaysSound

(* Cells of the structure block after the edit.                            *)
LEMMA ReshapedStruct ==
  ASSUME NEW b, Sound(b), NEW c, NEW o \in Nat, NEW old \in Nat, NEW new \in Nat,
         o + old <= b.size_dt_struct,
         Reshaped(b, c, b.off_dt_struct + o, old, new)
  PROVE  /\ c.off_dt_struct = b.off_dt_struct
         /\ c.size_dt_strings = b.size_dt_strings
         /\ Edited(b, c, o, old, new)
<1>1. /\ b.size_dt_strings \in Nat /\ b.off_dt_struct \in Nat /\ b.size_dt_struct \in Nat /\ BUF_SIZE \in Nat
      /\ StructTop(b) = b.off_dt_struct + b.size_dt_struct
      /\ StructTop(b) <= BUF_SIZE
  BY NumbersAre
<1>2. /\ c.off_dt_struct = b.off_dt_struct
      /\ c.size_dt_strings = b.size_dt_strings
      /\ c.size_dt_struct = b.size_dt_struct - old + new
  BY SameFields DEF Reshaped
<1>3. ASSUME NEW i \in 0 .. o - 1  PROVE Struct(c, i) = Struct(b, i)
  <2>1. b.off_dt_struct + i \in 0 .. (b.off_dt_struct + o) - 1
    BY <1>1
  <2>2. c.mem[b.off_dt_struct + i] = b.mem[b.off_dt_struct + i]
    BY <2>1 DEF Reshaped
  <2>. QED
    BY <1>2, <2>2 DEF Struct
<1>4. ASSUME NEW i \in o + old .. b.size_dt_struct - 1
      PROVE  Struct(c, i + (new - old)) = Struct(b, i)
  <2> DEFINE a == b.off_dt_struct + i
  <2>1. /\ a \in (b.off_dt_struct + o) + old .. BUF_SIZE - 1
        /\ a < StructTop(b)
        /\ b.off_dt_struct + (i + (new - old)) = a + (new - old)
    BY <1>1
  <2> HIDE DEF a
  <2>2. c.mem[a + (new - old)] = b.mem[a]
    BY <2>1 DEF Reshaped
  <2>. QED
    BY <1>2, <2>1, <2>2 DEF Struct, a
<1>. QED
  BY <1>1, <1>2, <1>3, <1>4 DEF Edited

(* What was a tag behind the edit is one.                                  *)
LEMMA ReshapedTag ==
  ASSUME NEW b, Sound(b), NEW c, NEW o \in Nat, NEW old \in Nat, NEW new \in Nat,
         IsMultiple(o), IsMultiple(new), o + old \in Tags(b),
         Reshaped(b, c, b.off_dt_struct + o, old, new)
  PROVE  o + new \in Tags(c)
<1>1. b.size_dt_struct \in Nat
  BY NumbersAre
<1>2. o + old < b.size_dt_struct /\ Struct(b, o + old)[1] = "tag"
  BY <1>1 DEF Tags
<1>3. /\ c.size_dt_struct = b.size_dt_struct - old + new
      /\ \A i \in o + old .. b.size_dt_struct - 1 :
           Struct(c, i + (new - old)) = Struct(b, i)
  BY <1>1, <1>2, ReshapedStruct DEF Edited
<1>4. Struct(c, (o + old) + (new - old)) = Struct(b, o + old)
  BY <1>1, <1>2, <1>3
<1>5. (o + old) + (new - old) = o + new
  OBVIOUS
<1>6. IsMultiple(o + new)
  BY Multiples
<1>7. o + new \in 0 .. c.size_dt_struct - 1
  BY <1>1, <1>2, <1>3
<1>. QED
  BY <1>2, <1>4, <1>5, <1>6, <1>7 DEF Tags, IsMultiple

(* A tag with what belongs to it, up to the next one.                      *)
LEMMA TagIsWritten ==
  ASSUME NEW c, NEW o \in Nat, IsMultiple(o), NEW next, next \in Tags(c), o < next,
         Struct(c, o)[1] = "tag",
         TagOf(c, o) \in {"BEGIN_NODE", "END_NODE", "PROP", "NOP"},
         TagOf(c, o) = "BEGIN_NODE" => NodeName(c, o) \in NodeNames,
         TagOf(c, o) = "PROP" =>
           /\ PropLen(c, o) \in Nat
           /\ NameOff(c, o) \in 0 .. c.size_dt_strings - 1,
         Following(c, o) = next, c.size_dt_struct \in Nat,
         \A t \in o + 1 .. next - 1 : IsMultiple(t) => Struct(c, t)[1] # "tag"
  PROVE  /\ o \in Tags(c) /\ TagIsSound(c, o)
         /\ \A t \in Tags(c) : t \in o .. next - 1 => t = o
<1>1. next \in Nat /\ next < c.size_dt_struct
  BY DEF Tags
<1>2. o \in Tags(c)
  BY <1>1 DEF Tags, IsMultiple
<1>3. ASSUME NEW t \in Tags(c), t \in o + 1 .. next - 1  PROVE FALSE
  BY <1>1, <1>3 DEF Tags, IsMultiple
<1>4. TagIsSound(c, o)
  BY <1>3 DEF TagIsSound, TagOf
<1>. QED
  BY <1>1, <1>2, <1>3, <1>4

(* How long a property is.                                                 *)
LEMMA PropertyIs ==
  ASSUME NEW b, NEW o, IsMultiple(o), TagOf(b, o) = "PROP", PropLen(b, o) \in Nat
  PROVE  /\ PropHeader \in Nat /\ IsMultiple(PropHeader)
         /\ TagAlign(PropLen(b, o)) \in Nat /\ IsMultiple(TagAlign(PropLen(b, o)))
         /\ PropLen(b, o) <= TagAlign(PropLen(b, o))
         /\ Following(b, o) = o + PropHeader + TagAlign(PropLen(b, o))
<1>1. PropHeader \in Nat /\ IsMultiple(PropHeader)
  <2>1. PropHeader = FDT_TAGSIZE + FDT_TAGSIZE + FDT_TAGSIZE /\ PropHeader \in Nat
    BY TagSizeIs DEF PropHeader
  <2>. QED
    BY <2>1, Multiples
<1>2. /\ TagAlign(PropLen(b, o)) \in Nat /\ IsMultiple(TagAlign(PropLen(b, o)))
      /\ PropLen(b, o) <= TagAlign(PropLen(b, o))
  BY Aligned, AlignIs
<1>3. Following(b, o) = TagAlign(o + (PropHeader + PropLen(b, o)))
  BY DEF Following, TagLength, TagOf
<1>4. o + (PropHeader + PropLen(b, o)) = (o + PropHeader) + PropLen(b, o)
  BY <1>1 DEF IsMultiple
<1>5. IsMultiple(o + PropHeader)
  BY <1>1, Multiples
<1>6. TagAlign((o + PropHeader) + PropLen(b, o))
        = (o + PropHeader) + TagAlign(PropLen(b, o))
  BY <1>5, AlignmentMoves
<1>. QED
  BY <1>1, <1>2, <1>3, <1>4, <1>6

(* The cells of a word.                                                    *)
LEMMA WordCells ==
  ASSUME NEW kind, NEW v
  PROVE  Len(Word(kind, v)) = FDT_TAGSIZE /\ Word(kind, v)[1] = <<kind, v>>
<1>1. FDT_TAGSIZE \in Nat /\ 1 \in 1 .. FDT_TAGSIZE
  BY TagSizeIs
<1>2. Word(kind, v)[1] = <<kind, v>>
  BY <1>1 DEF Word, Cells
<1>. QED
  BY <1>2, WordIs

(* A property so written is sound, and no tag is in it.                    *)
LEMMA PropertyWritten ==
  ASSUME NEW c, NEW o \in Nat, IsMultiple(o), c.size_dt_struct \in Nat,
         Struct(c, o)[1] = "tag", TagOf(c, o) = "PROP", PropLen(c, o) \in Nat,
         NameOff(c, o) \in 0 .. c.size_dt_strings - 1,
         Struct(c, o + FDT_TAGSIZE)[1] # "tag",
         Struct(c, o + 2 * FDT_TAGSIZE)[1] # "tag",
         \A t \in o + PropHeader .. o + PropHeader + PropLen(c, o) - 1 :
           IsMultiple(t) => Struct(c, t)[1] # "tag",
         NEW next \in Tags(c), next = o + PropHeader + TagAlign(PropLen(c, o))
  PROVE  /\ o \in Tags(c) /\ TagIsSound(c, o)
         /\ \A t \in Tags(c) : t \in o .. next - 1 => t = o
<1> DEFINE T == FDT_TAGSIZE
           H == PropHeader
           n == PropLen(c, o)
           A == TagAlign(n)
<1>1. T \in Nat /\ T > 0 /\ IsMultiple(T) /\ H = 3 * T /\ H \in Nat
  BY TagSizeIs, Multiples DEF PropHeader
<1>2. /\ A \in Nat /\ IsMultiple(A) /\ n <= A /\ n \in Nat /\ IsMultiple(H)
      /\ Following(c, o) = next /\ next = o + H + A
  BY PropertyIs
<1> HIDE DEF T, H, n, A
<1>3. ASSUME NEW t \in o + 1 .. next - 1, IsMultiple(t)
      PROVE  Struct(c, t)[1] # "tag"
  <2>1. /\ t \in Int /\ t >= o + T
        /\ t # o + T => t >= o + 2 * T
        /\ t # o + T /\ t # o + 2 * T => t >= o + H
    <3>1. IsMultiple(o + T) /\ IsMultiple((o + T) + T)
      BY <1>1, Multiples
    <3>2. t >= o + T
      BY <1>3, Multiples DEF T
    <3>3. t > o + T => t >= (o + T) + T
      BY <1>3, <3>1, Multiples DEF T
    <3>4. t > (o + T) + T => t >= ((o + T) + T) + T
      BY <1>3, <3>1, Multiples DEF T
    <3>. QED
      BY <1>1, <3>2, <3>3, <3>4
  <2>2. CASE t = o + T
    BY <2>2 DEF T
  <2>3. CASE t = o + 2 * T
    BY <2>3 DEF T
  <2>4. CASE t >= o + H /\ t < o + H + n
    <3>1. t \in o + H .. o + H + n - 1
      BY <1>1, <1>2, <2>1, <2>4
    <3>. QED
      BY <1>3, <3>1 DEF H, n
  <2>5. ~(t >= o + H + n)
    <3> SUFFICES ASSUME t >= o + H + n PROVE FALSE
      OBVIOUS
    <3> DEFINE m == t - (o + H)
    <3>1. IsMultiple(m)
      <4>1. IsMultiple(o + H)
        BY <1>2, Multiples
      <4>. QED
        BY <1>3, <4>1, Multiples
    <3>2. m \in Int /\ n <= m /\ m < A
      BY <1>1, <1>2, <2>1
    <3> HIDE DEF m
    <3>3. A <= m
      BY <1>2, <3>1, <3>2, AlignIsLeast DEF A
    <3>. QED
      BY <1>2, <3>2, <3>3
  <2>. QED
    BY <1>1, <1>2, <2>1, <2>2, <2>3, <2>4, <2>5
<1>4. o < next
  BY <1>1, <1>2
<1>. QED
  BY <1>2, <1>3, <1>4, TagIsWritten

(* No cell that may be taken for a tag lies between a tag and the next.    *)
LEMMA NoTagBetween ==
  ASSUME NEW b, HasStruct(b), NEW o \in Tags(b), NEW t \in o + 1 .. Following(b, o) - 1,
         IsMultiple(t)
  PROVE  Struct(b, t)[1] # "tag"
<1>1. Tags(b) \cap (o + 1 .. Following(b, o) - 1) = {}
  BY DEF HasStruct, StructIsSound, TagIsSound
<1>2. o \in Nat /\ Following(b, o) \in Nat /\ Following(b, o) <= b.size_dt_struct
  BY TagAt
<1>3. b.size_dt_struct \in Nat
  BY DEF HasStruct
<1>4. t \in 0 .. b.size_dt_struct - 1 /\ t % FDT_TAGSIZE = 0
  BY <1>2, <1>3 DEF IsMultiple
<1>. QED
  BY <1>1, <1>4 DEF Tags

(* Values have no tags in them.                                            *)
LEMMA ByteCells ==
  ASSUME NEW val, Len(val) \in Nat
  PROVE  \A i \in 1 .. Len(val) : Bytes(val)[i][1] = "byte"
BY DEF Bytes

(* Of what has been put in at offset o, the part from k on are the cells.  *)
PutIn(w, c, o, new, k, cells) ==
  /\ \A i \in 1 .. Len(cells) : Struct(w, o + (k + (i - 1))) = cells[i]
  /\ \A i \in 0 .. new - 1 :
       i < k \/ i >= k + Len(cells) => Struct(w, o + i) = Struct(c, o + i)

(* Cells written into the structure block where the new ones are to be.    *)
LEMMA StructPoked ==
  ASSUME NEW b, Sound(b), NEW c, NEW o \in Nat, NEW old \in Nat, NEW new \in Nat,
         Reshaped(b, c, b.off_dt_struct + o, old, new),
         b.off_dt_struct + o + new <= BUF_SIZE,
         NEW k \in Nat, NEW cells, Len(cells) \in Nat, k + Len(cells) <= new,
         NEW w, w = Poke(c, b.off_dt_struct + o + k, cells)
  PROVE  Reshaped(b, w, b.off_dt_struct + o, old, new) /\ PutIn(w, c, o, new, k, cells)
<1> DEFINE off == b.off_dt_struct
           n == Len(cells)
           p == off + o
           address == off + o + k
<1>1. off \in Nat /\ BUF_SIZE \in Nat
  BY NumbersAre
<1>3. c.off_dt_struct = off
  BY SameFields DEF Reshaped
<1>8. n \in Nat /\ k + n <= new /\ off + o + new <= BUF_SIZE
  OBVIOUS
<1> HIDE DEF off, n
<1>2. /\ p \in Nat /\ address \in Nat /\ address >= p /\ p + new <= BUF_SIZE
      /\ address + n <= p + new /\ n \in Nat
  BY <1>1, <1>8
<1> HIDE DEF p, address
<1>4. /\ Reshaped(b, w, p, old, new)
      /\ \A i \in 1 .. n : w.mem[address + (i - 1)] = cells[i]
      /\ \A a \in 0 .. BUF_SIZE - 1 :
           a < address \/ a >= address + n => w.mem[a] = c.mem[a]
  <2>1. Reshaped(b, c, p, old, new) /\ w = Poke(c, address, cells)
    BY DEF p, address, off
  <2>2. Len(cells) \in Nat /\ address + Len(cells) <= p + new
    BY <1>2 DEF n
  <2>3. Reshaped(b, w, p, old, new) /\ HoldsCells(w, c, address, cells)
    BY <1>2, <2>1, <2>2, ReshapedPoked
  <2>. QED
    BY <2>3 DEF HoldsCells, n
<1>5. w.off_dt_struct = off
  BY <1>4, SameFields DEF Reshaped, off
<1>6. ASSUME NEW i \in 1 .. n  PROVE Struct(w, o + (k + (i - 1))) = cells[i]
  <2>1. off + (o + (k + (i - 1))) = address + (i - 1)
    BY <1>1, <1>2 DEF address
  <2>. QED
    BY <1>4, <1>5, <2>1 DEF Struct
<1>7. ASSUME NEW i \in 0 .. new - 1, i < k \/ i >= k + n
      PROVE  Struct(w, o + i) = Struct(c, o + i)
  <2> DEFINE a == off + (o + i)
  <2>1. a \in 0 .. BUF_SIZE - 1 /\ (a < address \/ a >= address + n)
    BY <1>1, <1>2, <1>7 DEF address, p
  <2> HIDE DEF a
  <2>2. w.mem[a] = c.mem[a]
    BY <1>4, <2>1
  <2>. QED
    BY <1>3, <1>5, <2>2 DEF Struct, a
<1>. QED
  BY <1>4, <1>6, <1>7 DEF PutIn, n, p, off

(* The property at o is one there was, or one of a name that is free behind *)
(* the tag of a node.                                                      *)
NameFits(b, c, o, old) ==
  \/ /\ TagOf(b, o) = "PROP" /\ Following(b, o) = o + old
     /\ PropName(c, o) = PropName(b, o)
  \/ /\ old = 0 /\ IsFree(b, o, PropName(c, o))
     /\ \E node \in Tags(b) : TagOf(b, node) = "BEGIN_NODE" /\ o = Following(b, node)

(* In c there is one property at o, and what b has at o + old is behind it. *)
OneProperty(b, c, o, old, new) ==
  /\ Edited(b, c, o, old, new) /\ SameNames(b, c)
  /\ new \in Nat /\ IsMultiple(new)
  /\ o \in Tags(c) /\ OnlyTag(c, o, o + new)

(* The same, and it is x with value v.                                     *)
HasPut(b, c, o, old, x, v) ==
  /\ \E new \in Nat : OneProperty(b, c, o, old, new)
  /\ TagOf(c, o) = "PROP" /\ PropName(c, o) = x /\ PropVal(c, o) = v

(* The blob is sound when one property is what has been put in.            *)
LEMMA PropertyPutIn ==
  ASSUME NEW b, Sound(b), NEW c, NEW o \in Tags(b), NEW old \in Nat, NEW new,
         o + old \in Tags(b),
         old = new \/ StructTop(b) <= b.off_dt_strings,
         PropLen(c, o) \in Nat, new = PropHeader + TagAlign(PropLen(c, o)),
         Reshaped(b, c, b.off_dt_struct + o, old, new),
         Struct(c, o)[1] = "tag", TagOf(c, o) = "PROP",
         NameOff(c, o) \in 0 .. b.size_dt_strings - 1,
         Struct(c, o + FDT_TAGSIZE)[1] # "tag",
         Struct(c, o + 2 * FDT_TAGSIZE)[1] # "tag",
         \A t \in o + PropHeader .. o + PropHeader + PropLen(c, o) - 1 :
           IsMultiple(t) => Struct(c, t)[1] # "tag",
         Ordered(b) => NameFits(b, c, o, old)
  PROVE  Kept(b, c) /\ OneProperty(b, c, o, old, new)
<1>1. HasStruct(b) /\ o \in Nat /\ IsMultiple(o) /\ b.size_dt_struct \in Nat
      /\ o + old < b.size_dt_struct
  BY SoundIs, NumbersAre DEF Tags, IsMultiple
<1>2. new \in Nat /\ IsMultiple(new)
  BY PropertyIs, <1>1, Multiples
<1>3. o + new \in Tags(c)
  BY <1>1, <1>2, ReshapedTag
<1>4. c.size_dt_strings = b.size_dt_strings /\ c.size_dt_struct \in Nat
  <2>1. /\ c.size_dt_strings = b.size_dt_strings
        /\ c.size_dt_struct = b.size_dt_struct - old + new
    BY SameFields DEF Reshaped
  <2>. QED
    BY <1>1, <1>2, <2>1
<1>5. o + new = o + PropHeader + TagAlign(PropLen(c, o))
  BY <1>1, PropertyIs
<1>6. /\ o \in Tags(c) /\ TagIsSound(c, o)
      /\ \A t \in Tags(c) : t \in o .. o + new - 1 => t = o
  <2> DEFINE m == o + new
  <2>1. m = o + PropHeader + TagAlign(PropLen(c, o)) /\ m \in Tags(c)
    BY <1>3, <1>5
  <2> HIDE DEF m
  <2>2. NameOff(c, o) \in 0 .. c.size_dt_strings - 1
    BY <1>4
  <2>3. /\ o \in Tags(c) /\ TagIsSound(c, o)
        /\ \A t \in Tags(c) : t \in o .. m - 1 => t = o
    BY <1>1, <1>4, <2>1, <2>2, PropertyWritten
  <2>4. \A t \in Tags(c) : t \in o .. o + new - 1 => t = o
    <3>1. o + new = m
      BY DEF m
    <3>. QED
      BY <1>1, <1>2, <2>3, <3>1
  <2>. QED
    BY <2>3, <2>4
<1>7. OnlyTag(c, o, o + new)
  <2>1. Following(c, o) = o + new
    <3>1. Following(c, o) = o + PropHeader + TagAlign(PropLen(c, o))
      BY <1>1, PropertyIs
    <3>. QED
      BY <1>5, <3>1
  <2>2. new > 0
    <3>1. PropHeader \in Nat /\ TagAlign(PropLen(c, o)) \in Nat
      BY <1>1, PropertyIs
    <3>2. PropHeader > 0
      BY TagSizeIs DEF PropHeader
    <3>. QED
      BY <3>1, <3>2
  <2>3. o < o + new
    BY <1>1, <1>2, <2>2
  <2>4. ASSUME NEW t \in Tags(c), o <= t, t < o + new  PROVE t = o
    <3>1. t \in Int
      BY DEF Tags
    <3>2. t \in o .. o + new - 1
      BY <1>1, <1>2, <2>4, <3>1
    <3>. QED
      BY <1>6, <3>2
  <2>. QED
    BY <2>1, <2>3, <2>4 DEF OnlyTag
<1>8. ASSUME Ordered(b)  PROVE Mended(b, c, o, old, new)
  <2>1. CASE /\ TagOf(b, o) = "PROP" /\ Following(b, o) = o + old
             /\ PropName(c, o) = PropName(b, o)
    BY <1>1, <1>2, <1>7, <1>8, <2>1, SameTagMends
  <2>2. CASE /\ old = 0 /\ IsFree(b, o, PropName(c, o))
             /\ \E node \in Tags(b) : /\ TagOf(b, node) = "BEGIN_NODE"
                                     /\ o = Following(b, node)
    <3>1. PICK node \in Tags(b) : /\ TagOf(b, node) = "BEGIN_NODE"
                                  /\ o = Following(b, node)
      BY <2>2
    <3>2. Mended(b, c, o, 0, new)
      BY <1>1, <1>2, <1>7, <1>8, <2>2, <3>1, NewPropertyMends
    <3>. QED
      BY <2>2, <3>2
  <2>. QED
    BY <1>8, <2>1, <2>2 DEF NameFits
<1>9. Kept(b, c)
  BY <1>1, <1>2, <1>6, <1>8, ReshapedIsSound
<1>10. Edited(b, c, o, old, new) /\ SameNames(b, c)
  <2>1. o + old <= b.size_dt_struct
    BY <1>1
  <2>. QED
    BY <1>1, <1>2, <2>1, ReshapedStruct, ReshapedNames
<1>. QED
  BY <1>2, <1>6, <1>7, <1>9, <1>10 DEF OneProperty

-----------------------------------------------------------------------------
(* The functions on properties.                                            *)

(* What the value of a property is with val from position at on.           *)
ValueFrom(b, prop, at, val) ==
  [i \in 1 .. at + Len(val) |-> IF i <= at THEN PropVal(b, prop)[i] ELSE val[i - at]]

(* _fdt_resize_property and the new bytes, from any position in the old    *)
(* value.                                                                  *)
LEMMA ResizeKeeps ==
  ASSUME NEW b, Sound(b), ~Misordered(b, RsvSize),
         NEW prop \in Tags(b), TagOf(b, prop) = "PROP",
         NEW at \in 0 .. PropLen(b, prop), NEW val, Len(val) \in Nat
  PROVE  LET w == Resize(b, prop, at, val)
         IN  /\ Kept(b, w.fdt)
             /\ \/ w.ret = NOSPACE /\ w.fdt = b
                \/ /\ w.ret = 0
                   /\ HasPut(b, w.fdt, prop, PropHeader + TagAlign(PropLen(b, prop)),
                             PropName(b, prop), ValueFrom(b, prop, at, val))
<1> DEFINE T == FDT_TAGSIZE
           H == PropHeader
           n == PropLen(b, prop)
           A == TagAlign(n)
           len == at + Len(val)
           B == TagAlign(len)
           off == b.off_dt_struct
           r == SpliceStruct(b, prop + H, A, B)
           c1 == r.fdt
           c2 == SetLen(c1, prop, len)
           c3 == PutValue(c2, prop, at, val)
           next == Following(b, prop)
           old == A + H
           new == B + H
<1>1. HasStruct(b)
  BY SoundIs
<1>2. /\ prop \in Nat /\ IsMultiple(prop) /\ next \in Nat
      /\ next <= b.size_dt_struct /\ next \in Tags(b)
      /\ n \in Nat /\ NameOff(b, prop) \in 0 .. b.size_dt_strings - 1
  <2>1. next \in Tags(b) /\ TagIsSound(b, prop)
    BY <1>1, FollowingIs DEF HasStruct, StructIsSound
  <2>. QED
    BY <1>1, <2>1, TagAt DEF TagIsSound, TagOf
<1>3. /\ T \in Nat /\ T > 0 /\ H = 3 * T /\ H \in Nat /\ IsMultiple(H)
      /\ A \in Nat /\ IsMultiple(A) /\ n <= A
      /\ next = prop + H + A
  BY <1>2, TagSizeIs, PropertyIs DEF PropHeader
<1>4. /\ at \in Nat /\ at <= n /\ len \in Nat /\ Len(val) \in Nat
      /\ len = at + Len(val)
  BY <1>2
<1>5. B \in Nat /\ IsMultiple(B) /\ len <= B
  BY <1>4, Aligned, AlignIs
<1>6. /\ off \in Nat /\ b.size_dt_struct \in Nat /\ BUF_SIZE \in Nat
      /\ off + b.size_dt_struct <= BUF_SIZE
  BY NumbersAre
<1>7. Resize(b, prop, at, val) = IF r.ret # 0 THEN r ELSE Result(c3, 0)
  BY DEF Resize
<1> HIDE DEF n, A, B, H, T, off, next, len
<1>8. \/ r.ret = NOSPACE /\ c1 = b
      \/ r.ret = 0 /\ Fitted(b, c1, off + (prop + H), A, B)
  <2>1. prop + H \in Nat /\ prop + H + A <= b.size_dt_struct
    BY <1>2, <1>3
  <2>2. r = SpliceStruct(b, prop + H, A, B)
    OBVIOUS
  <2> HIDE DEF r
  <2>. QED
    BY <1>3, <1>5, <2>1, <2>2, SpliceStructIs DEF off
<1>9. CASE r.ret = NOSPACE /\ c1 = b
  <2>1. Resize(b, prop, at, val) = r
    BY <1>7, <1>9 DEF NOSPACE
  <2> HIDE DEF r
  <2>. QED
    BY <1>9, <2>1 DEF Kept, StaysSound
<1>10. CASE r.ret = 0 /\ Fitted(b, c1, off + (prop + H), A, B)
  <2>1. Resize(b, prop, at, val).fdt = c3 /\ Resize(b, prop, at, val).ret = 0
    BY <1>7, <1>10 DEF Result
  <2>2. old \in Nat /\ new \in Nat /\ off + prop + new <= BUF_SIZE
    <3>1. off + (prop + H) + B = off + prop + new
      BY <1>2, <1>3, <1>5, <1>6
    <3>. QED
      BY <1>3, <1>5, <1>10, <3>1 DEF Fitted
  <2>3. Reshaped(b, c1, off + prop, old, new)
    <3> DEFINE p == off + (prop + H)
    <3>1. p \in Nat /\ H \in 0 .. p /\ p - H = off + prop
      BY <1>2, <1>3, <1>6
    <3>2. Reshaped(b, c1, p, A, B)
      BY <1>10 DEF Fitted
    <3>3. b.size_dt_struct \in Nat /\ b.off_dt_strings \in Nat
      BY NumbersAre
    <3> HIDE DEF p, c1
    <3>4. Reshaped(b, c1, p - H, A + H, B + H)
      BY <1>3, <1>5, <3>1, <3>2, <3>3, ReshapedMore
    <3>. QED
      BY <3>1, <3>4
  <2>4. c1.off_dt_struct = off
    BY <2>3, SameFields DEF Reshaped, off
  <2>5. ASSUME NEW i \in 0 .. new - 1  PROVE Struct(c1, prop + i) = Struct(b, prop + i)
    <3> DEFINE a == off + (prop + i)
               p == off + (prop + H)
    <3>1. a \in 0 .. p - 1 \/ a \in p .. p + B - 1
      BY <1>2, <1>3, <1>5, <1>6
    <3> HIDE DEF a, r, c1, p
    <3>2. Fitted(b, c1, p, A, B)
      BY <1>10 DEF p
    <3>3. c1.mem[a] = b.mem[a]
      <4>1. CASE a \in 0 .. p - 1
        BY <3>2, <4>1 DEF Fitted, Reshaped
      <4>2. CASE a \in p .. p + B - 1
        BY <3>2, <4>2 DEF Fitted
      <4>. QED
        BY <3>1, <4>1, <4>2
    <3>. QED
      BY <2>4, <3>3 DEF Struct, off, a
  <2> DEFINE lenCells == Word("len", len)
             valCells == Bytes(val)
  <2>6. Len(lenCells) = T /\ lenCells[1] = <<"len", len>>
    BY WordCells DEF T
  <2>7. c2 = Poke(c1, off + prop + T, lenCells)
    BY <2>4 DEF SetLen, T
  <2> HIDE DEF c1, c2, lenCells
  <2>8. /\ Reshaped(b, c2, off + prop, old, new)
        /\ \A i \in 1 .. T : Struct(c2, prop + (T + (i - 1))) = lenCells[i]
        /\ \A i \in 0 .. new - 1 :
             i < T \/ i >= T + T => Struct(c2, prop + i) = Struct(c1, prop + i)
    <3>1. T + Len(lenCells) <= new /\ Len(lenCells) \in Nat
      BY <1>3, <1>5, <2>6
    <3> HIDE DEF old, new
    <3>2. PutIn(c2, c1, prop, new, T, lenCells) /\ Reshaped(b, c2, off + prop, old, new)
      BY <1>2, <1>3, <2>2, <2>3, <2>7, <3>1, StructPoked DEF off
    <3>. QED
      BY <2>6, <3>2 DEF PutIn
  <2>9. c2.off_dt_struct = off
    BY <2>8, SameFields DEF Reshaped, off
  <2>10. c3 = Poke(c2, off + prop + (H + at), valCells)
    <3>1. off + prop + (H + at) = off + prop + H + at
      BY <1>2, <1>3, <1>4, <1>6
    <3>. QED
      BY <2>9, <3>1 DEF PutValue, H
  <2>11. /\ Len(valCells) = Len(val)
         /\ \A i \in 1 .. Len(val) : valCells[i][1] = "byte" /\ valCells[i][2] = val[i]
    <3>1. \A i \in 1 .. Len(val) : valCells[i] = <<"byte", val[i]>>
      BY DEF Bytes
    <3>2. Len(valCells) = Len(val)
      BY BytesAre
    <3> HIDE DEF valCells
    <3>. QED
      BY <3>1, <3>2
  <2> HIDE DEF c3, valCells
  <2>12. /\ Reshaped(b, c3, off + prop, old, new)
         /\ \A i \in 1 .. Len(val) :
              Struct(c3, prop + (H + at + (i - 1))) = valCells[i]
         /\ \A i \in 0 .. new - 1 :
              i < H + at \/ i >= H + at + Len(val) =>
                Struct(c3, prop + i) = Struct(c2, prop + i)
    <3>1. H + at + Len(valCells) <= new /\ Len(valCells) \in Nat /\ H + at \in Nat
      BY <1>3, <1>4, <1>5, <2>11
    <3> HIDE DEF old, new
    <3>2. /\ PutIn(c3, c2, prop, new, H + at, valCells)
          /\ Reshaped(b, c3, off + prop, old, new)
      BY <1>2, <2>2, <2>8, <2>10, <3>1, StructPoked DEF off
    <3>. QED
      BY <2>11, <3>2 DEF PutIn
  (* What neither of the two has written is as it was.                     *)
  <2>13. ASSUME NEW i \in 0 .. H + at - 1, i < T \/ i >= T + T
         PROVE  Struct(c3, prop + i) = Struct(b, prop + i)
    <3>1. i \in 0 .. new - 1 /\ i < H + at
      BY <1>3, <1>4, <1>5
    <3> HIDE DEF new
    <3>2. Struct(c3, prop + i) = Struct(c2, prop + i)
      BY <2>12, <3>1
    <3>3. Struct(c2, prop + i) = Struct(c1, prop + i)
      BY <2>8, <2>13, <3>1
    <3>. QED
      BY <2>5, <3>1, <3>2, <3>3
  <2>14. Struct(c3, prop) = Struct(b, prop)
    <3>1. 0 \in 0 .. H + at - 1 /\ 0 < T /\ prop + 0 = prop
      BY <1>2, <1>3, <1>4
    <3>. QED
      BY <2>13, <3>1
  <2>15. Struct(c3, prop + 2 * T) = Struct(b, prop + 2 * T)
    <3>1. T + T \in 0 .. H + at - 1 /\ prop + (T + T) = prop + 2 * T
      BY <1>2, <1>3, <1>4
    <3>. QED
      BY <2>13, <3>1
  <2>16. Struct(c3, prop + T) = <<"len", len>>
    <3>1. /\ 1 \in 1 .. T /\ prop + (T + (1 - 1)) = prop + T
          /\ T \in 0 .. new - 1 /\ T < H + at
      BY <1>2, <1>3, <1>4, <1>5
    <3> HIDE DEF new
    <3>2. Struct(c3, prop + T) = Struct(c2, prop + T)
      BY <2>12, <3>1
    <3>3. Struct(c2, prop + (T + (1 - 1))) = lenCells[1]
      BY <2>8, <3>1
    <3>. QED
      BY <2>6, <3>1, <3>2, <3>3
  <2>17. ASSUME NEW t \in prop + H .. prop + H + len - 1, IsMultiple(t)
         PROVE  Struct(c3, t)[1] # "tag"
    <3> DEFINE i == t - prop
    <3>1. i \in Nat /\ t = prop + i /\ i >= H /\ i < H + at + Len(val) /\ t \in Int
      BY <1>2, <1>3, <1>4
    <3>2. CASE i < H + at
      <4>1. i \in 0 .. H + at - 1 /\ i >= T + T
        BY <1>3, <3>1, <3>2
      <4>2. Struct(c3, t) = Struct(b, t)
        BY <2>13, <3>1, <4>1
      <4>3. t \in prop + 1 .. next - 1
        BY <1>2, <1>3, <1>4, <3>1, <3>2
      <4>. QED
        BY <1>1, <2>17, <4>2, <4>3, NoTagBetween DEF next
    <3>3. CASE i >= H + at
      <4> DEFINE j == i - (H + at) + 1
      <4>1. j \in 1 .. Len(val) /\ prop + (H + at + (j - 1)) = t
        BY <1>2, <1>3, <1>4, <3>1, <3>3
      <4> HIDE DEF j
      <4>2. Struct(c3, t) = valCells[j]
        BY <2>12, <4>1
      <4>. QED
        BY <2>11, <4>1, <4>2
    <3>. QED
      BY <1>3, <1>4, <3>1, <3>2, <3>3
  <2>18. /\ PropLen(c3, prop) = len /\ NameOff(c3, prop) = NameOff(b, prop)
         /\ Struct(c3, prop)[1] = "tag" /\ TagOf(c3, prop) = "PROP"
         /\ Struct(c3, prop + T)[1] # "tag"
    BY <2>14, <2>15, <2>16 DEF PropLen, NameOff, TagOf, T, Tags
  <2>19. Struct(c3, prop + 2 * T)[1] # "tag"
    <3>1. /\ prop + 2 * T \in prop + 1 .. next - 1
          /\ prop + 2 * T = (prop + T) + T
      BY <1>2, <1>3
    <3>2. IsMultiple(prop + 2 * T)
      BY <1>2, <1>3, <3>1, Multiples DEF T
    <3>. QED
      BY <1>1, <2>15, <3>1, <3>2, NoTagBetween DEF next
  <2>20. prop + old = next /\ new = H + B
    BY <1>2, <1>3, <1>5
  <2>21. StructTop(b) <= b.off_dt_strings
    BY OrderedIs
  <2>22. /\ Kept(b, c3) /\ OneProperty(b, c3, prop, old, new)
         /\ PropName(c3, prop) = PropName(b, prop)
    <3>1. /\ prop + old \in Tags(b) /\ PropLen(c3, prop) \in Nat
          /\ new = PropHeader + TagAlign(PropLen(c3, prop))
      BY <1>2, <1>4, <2>18, <2>20 DEF H, B
    <3>2. /\ Struct(c3, prop + FDT_TAGSIZE)[1] # "tag"
          /\ Struct(c3, prop + 2 * FDT_TAGSIZE)[1] # "tag"
          /\ NameOff(c3, prop) \in 0 .. b.size_dt_strings - 1
      BY <1>2, <2>18, <2>19 DEF T
    <3>3. \A t \in prop + PropHeader .. prop + PropHeader + PropLen(c3, prop) - 1 :
            IsMultiple(t) => Struct(c3, t)[1] # "tag"
      BY <2>17, <2>18 DEF H
    <3>4. NameFits(b, c3, prop, old) /\ PropName(c3, prop) = PropName(b, prop)
      <4>1. prop + old <= b.size_dt_struct
        BY <1>2, <2>20
      <4>2. SameNames(b, c3)
        <5> HIDE DEF old, new
        <5>. QED
          BY <1>2, <2>2, <2>12, <2>21, <4>1, ReshapedNames DEF off
      <4>3. PropName(c3, prop) = PropName(b, prop)
        BY <1>2, <2>18, <4>2 DEF SameNames, PropName
      <4>. QED
        BY <2>20, <4>3 DEF NameFits, next
    <3> HIDE DEF old, new
    <3>. QED
      BY <2>2, <2>12, <2>18, <2>21, <3>1, <3>2, <3>3, <3>4, PropertyPutIn DEF off
  <2>23. ASSUME NEW i \in 1 .. len
         PROVE  Struct(c3, prop + H + i - 1)[2] = ValueFrom(b, prop, at, val)[i]
    <3> DEFINE k == H + (i - 1)
    <3>1. prop + H + i - 1 = prop + k /\ k \in Nat /\ k >= T + T /\ i \in 1 .. at + Len(val)
      BY <1>2, <1>3, <1>4
    <3>2. CASE i <= at
      <4>1. k \in 0 .. H + at - 1 /\ i \in 1 .. n
        BY <1>2, <1>3, <1>4, <3>2
      <4>2. Struct(c3, prop + k) = Struct(b, prop + k)
        BY <2>13, <3>1, <4>1
      <4>3. PropVal(b, prop)[i] = Struct(b, prop + k)[2]
        BY <3>1, <4>1 DEF PropVal, n, H
      <4>. QED
        BY <3>1, <3>2, <4>2, <4>3 DEF ValueFrom
    <3>3. CASE ~(i <= at)
      <4> DEFINE j == i - at
      <4>1. j \in 1 .. Len(val) /\ prop + (H + at + (j - 1)) = prop + k
        BY <1>2, <1>3, <1>4, <3>3
      <4> HIDE DEF j
      <4>2. Struct(c3, prop + k)[2] = val[j]
        BY <2>11, <2>12, <4>1
      <4>. QED
        BY <3>1, <3>3, <4>2 DEF ValueFrom, j
    <3>. QED
      BY <3>2, <3>3
  <2>24. PropVal(c3, prop) = ValueFrom(b, prop, at, val)
    <3>1. PropVal(c3, prop) = [i \in 1 .. len |-> Struct(c3, prop + H + i - 1)[2]]
      BY <2>18 DEF PropVal, H
    <3>2. ValueFrom(b, prop, at, val) = [i \in 1 .. len |-> ValueFrom(b, prop, at, val)[i]]
      BY <1>4 DEF ValueFrom
    <3>. QED
      BY <2>23, <3>1, <3>2
  <2>25. HasPut(b, c3, prop, H + A, PropName(b, prop), ValueFrom(b, prop, at, val))
    <3>1. old = H + A
      BY <1>3
    <3>2. new \in Nat
      BY <2>2
    <3> HIDE DEF old, new
    <3>. QED
      BY <2>18, <2>22, <2>24, <3>1, <3>2 DEF HasPut
  <2>. QED
    BY <2>1, <2>22, <2>25 DEF H, A, n
<1>. QED
  BY <1>8, <1>9, <1>10

(* There is always space for less than there was.                          *)
LEMMA RemovalFits ==
  ASSUME NEW b, Sound(b), NEW o, NEW old \in Nat
  PROVE  SpliceStruct(b, o, old, 0).ret # NOSPACE
<1> DEFINE s == Splice(b, b.off_dt_struct + o, old, 0)
           r == SpliceStruct(b, o, old, 0)
<1>1. ~(DataSize(b) - old + 0 > b.totalsize)
  BY NumbersAre
<1>2. s.ret # NOSPACE
  <2>1. s.ret \in {BADOFFSET, 0}
    BY <1>1 DEF Splice, Result
  <2>. QED
    BY <2>1 DEF BADOFFSET, NOSPACE
<1>3. r.ret = s.ret \/ r.ret = 0
  BY DEF SpliceStruct, Result
<1>. QED
  BY <1>2, <1>3 DEF NOSPACE

(* What is at o in b is not in c, and nothing else is gone.                *)
TakenOut(b, c, o, old) == Edited(b, c, o, old, 0) /\ SameNames(b, c)

(* Nothing is put in for what is taken out.                                *)
LEMMA RemovalKeeps ==
  ASSUME NEW b, Sound(b), ~Misordered(b, RsvSize),
         NEW o \in Tags(b), NEW old \in Nat, o + old \in Tags(b),
         Passes(b, o, o + old)
  PROVE  LET r == SpliceStruct(b, o, old, 0)
         IN  r.ret = 0 /\ Kept(b, r.fdt) /\ TakenOut(b, r.fdt, o, old)
<1> DEFINE r == SpliceStruct(b, o, old, 0)
           c == r.fdt
<1>1. /\ HasStruct(b) /\ o \in Nat /\ IsMultiple(o)
      /\ b.size_dt_struct \in Nat /\ o + old < b.size_dt_struct
  BY SoundIs, NumbersAre DEF Tags, IsMultiple
<1> HIDE DEF r
<1>2. r.ret = 0 /\ Fitted(b, c, b.off_dt_struct + o, old, 0)
  <2>1. o + old <= b.size_dt_struct /\ 0 \in Nat /\ r = SpliceStruct(b, o, old, 0)
    BY <1>1 DEF r
  <2>2. r.ret # NOSPACE
    BY RemovalFits DEF r
  <2>. QED
    BY <1>1, <2>1, <2>2, SpliceStructIs
<1> HIDE DEF c
<1>3. Kept(b, c) /\ TakenOut(b, c, o, old)
  <2>1. Reshaped(b, c, b.off_dt_struct + o, old, 0) /\ IsMultiple(0) /\ 0 \in Nat
    BY <1>2, Multiples DEF Fitted
  <2>2. o \in Tags(c)
    <3>1. o + 0 \in Tags(c)
      BY <1>1, <2>1, ReshapedTag
    <3>. QED
      BY <1>1, <3>1
  <2>3. \A t \in Tags(c) : t \in o .. o + 0 - 1 => TagIsSound(c, t)
    BY <1>1
  <2>4. StructTop(b) <= b.off_dt_strings
    BY OrderedIs
  <2>6. Ordered(b) => Mended(b, c, o, old, 0)
    BY <1>1, RemovalMends
  <2>5. Kept(b, c)
    BY <2>1, <2>2, <2>3, <2>4, <2>6, ReshapedIsSound
  <2>7. TakenOut(b, c, o, old)
    <3>1. o + old <= b.size_dt_struct
      BY <1>1
    <3>. QED
      BY <1>1, <2>1, <2>4, <3>1, ReshapedStruct, ReshapedNames DEF TakenOut
  <2>. QED
    BY <2>5, <2>7
<1>. QED
  BY <1>2, <1>3 DEF c, r

(* A property that was found, and where the next tag is.                   *)
LEMMA FoundProperty ==
  ASSUME NEW b, HasStruct(b), NEW prop \in Tags(b), TagOf(b, prop) = "PROP"
  PROVE  /\ prop \in Nat /\ IsMultiple(prop)
         /\ PropHeader \in Nat /\ PropHeader = 3 * FDT_TAGSIZE
         /\ PropLen(b, prop) \in Nat
         /\ TagAlign(PropLen(b, prop)) \in Nat
         /\ PropLen(b, prop) <= TagAlign(PropLen(b, prop))
         /\ Following(b, prop) = prop + PropHeader + TagAlign(PropLen(b, prop))
         /\ Following(b, prop) \in Tags(b)
         /\ NameOff(b, prop) \in 0 .. b.size_dt_strings - 1
<1>1. Following(b, prop) \in Tags(b)
  BY FollowingIs
<1>2. TagIsSound(b, prop)
  BY DEF HasStruct, StructIsSound
<1>3. /\ PropLen(b, prop) \in Nat
      /\ NameOff(b, prop) \in 0 .. b.size_dt_strings - 1
  BY <1>2 DEF TagIsSound, TagOf
<1>4. prop \in Nat /\ IsMultiple(prop)
  BY TagAt
<1>. QED
  BY <1>1, <1>3, <1>4, PropertyIs DEF PropHeader

(* fdt_delprop.                                                            *)
LEMMA DelPropKeeps ==
  ASSUME NEW b, Sound(b), ~Misordered(b, RsvSize), NEW node \in Int, NEW name
  PROVE  LET w == fdt_delprop(b, node, name)
             prop == GetProperty(b, node, name)
         IN  /\ Kept(b, w.fdt)
             /\ \/ prop \in Errors /\ w = Result(b, prop)
                \/ /\ prop \in Tags(b) /\ TagOf(b, prop) = "PROP" /\ w.ret = 0
                   /\ TakenOut(b, w.fdt, prop, Following(b, prop) - prop)
<1> DEFINE prop == GetProperty(b, node, name)
           old == PropHeader + TagAlign(PropLen(b, prop))
<1>1. HasStruct(b)
  BY SoundIs
<1>2. fdt_delprop(b, node, name) =
        IF prop < 0 THEN Result(b, prop) ELSE SpliceStruct(b, prop, old, 0)
  BY DEF fdt_delprop
<1>3. prop \in Errors \/ (prop \in Tags(b) /\ TagOf(b, prop) = "PROP")
  BY <1>1, GetPropertyIs
<1> HIDE DEF prop
<1>4. CASE prop \in Errors
  <2>1. fdt_delprop(b, node, name) = Result(b, prop)
    BY <1>2, <1>4 DEF Errors
  <2>. QED
    BY <1>4, <2>1 DEF Result, Kept, StaysSound, prop
<1>5. CASE prop \in Tags(b) /\ TagOf(b, prop) = "PROP"
  <2>1. /\ prop \in Nat /\ old \in Nat /\ prop + old \in Tags(b)
        /\ Passes(b, prop, prop + old) /\ old = Following(b, prop) - prop
    <3>1. Following(b, prop) = prop + old
      BY <1>1, <1>5, FoundProperty
    <3>2. Passes(b, prop, prop + old)
      BY <1>5, <3>1, PropertyPasses
    <3>. QED
      BY <1>1, <1>5, <3>1, <3>2, FoundProperty
  <2> HIDE DEF old
  <2>2. fdt_delprop(b, node, name) = SpliceStruct(b, prop, old, 0)
    BY <1>2, <2>1
  <2>3. LET w == SpliceStruct(b, prop, old, 0)
        IN  Kept(b, w.fdt) /\ w.ret = 0 /\ TakenOut(b, w.fdt, prop, old)
    BY <1>5, <2>1, RemovalKeeps
  <2>. QED
    BY <1>5, <2>1, <2>2, <2>3 DEF prop
<1>. QED
  BY <1>3, <1>4, <1>5

(* fdt_del_node.                                                           *)
LEMMA DelNodeKeeps ==
  ASSUME NEW b, Sound(b), ~Misordered(b, RsvSize), NEW node \in Int
  PROVE  LET w == fdt_del_node(b, node)
             end == NodeEndOffset(b, node)
         IN  /\ Kept(b, w.fdt)
             /\ \/ end \in Errors /\ w = Result(b, end)
                \/ /\ node \in Tags(b) /\ end \in Tags(b) /\ end > node /\ w.ret = 0
                   /\ TakenOut(b, w.fdt, node, end - node)
<1> DEFINE end == NodeEndOffset(b, node)
<1>1. HasStruct(b)
  BY SoundIs
<1>2. fdt_del_node(b, node) =
        IF end < 0 THEN Result(b, end) ELSE SpliceStruct(b, node, end - node, 0)
  BY DEF fdt_del_node
<1>3. \/ end \in Errors
      \/ /\ node \in Tags(b) /\ end \in Tags(b) /\ end > node
         /\ Passes(b, node, end)
  BY <1>1, NodeEndOffsetIs
<1> HIDE DEF end
<1>4. CASE end \in Errors
  <2>1. fdt_del_node(b, node) = Result(b, end)
    BY <1>2, <1>4 DEF Errors
  <2>. QED
    BY <1>4, <2>1 DEF Result, Kept, StaysSound, end
<1>5. CASE /\ node \in Tags(b) /\ end \in Tags(b) /\ end > node
           /\ Passes(b, node, end)
  <2> DEFINE old == end - node
  <2>1. node \in Nat /\ end \in Nat
    BY <1>1, <1>5, TagAt
  <2>2. old \in Nat /\ node + old = end
    BY <1>5, <2>1
  <2>3. fdt_del_node(b, node) = SpliceStruct(b, node, old, 0)
    BY <1>2, <2>1
  <2> HIDE DEF old
  <2>4. LET w == SpliceStruct(b, node, old, 0)
        IN  Kept(b, w.fdt) /\ w.ret = 0 /\ TakenOut(b, w.fdt, node, old)
    BY <1>5, <2>2, RemovalKeeps
  <2>. QED
    BY <1>5, <2>3, <2>4 DEF end, old
<1>. QED
  BY <1>3, <1>4, <1>5

-----------------------------------------------------------------------------
(* The strings block.                                                      *)

(* _fdt_find_string.                                                       *)
LEMMA FindStringIs ==
  ASSUME NEW b, b.size_dt_strings \in Nat, NEW s \in PropNames
  PROVE  \/ FindString(b, s) = NOTFOUND
         \/ /\ FindString(b, s) \in 0 .. b.size_dt_strings - 1
            /\ String(b, FindString(b, s)) = s
<1> DEFINE size == b.size_dt_strings
           n == Len(Tails[s])
           places == {o \in 0 .. size - n :
                        b.mem[b.off_dt_strings + o] = <<"string", s>>}
<1>1. n \in Nat /\ n > 0
  BY NamesAssumption
<1>2. FindString(b, s) =
        IF places = {} THEN NOTFOUND
        ELSE CHOOSE o \in places : \A p \in places : o <= p
  BY DEF FindString
<1>3. places \subseteq 0 .. size - 1
  <2> HIDE DEF n
  <2>. QED
    BY <1>1
<1>5. ASSUME NEW o \in places  PROVE String(b, o) = s
  <2>1. b.mem[b.off_dt_strings + o] = <<"string", s>>
    OBVIOUS
  <2>. QED
    BY <2>1 DEF String
<1> HIDE DEF places
<1>4. ASSUME places # {}
      PROVE  (CHOOSE o \in places : \A p \in places : o <= p) \in places
  <2>1. places \subseteq Nat
    BY <1>3
  <2>2. \E o \in places : \A p \in places : o <= p
    BY <1>4, <2>1, LeastNumber
  <2>. QED
    BY <2>2
<1>. QED
  BY <1>2, <1>3, <1>4, <1>5

(* c is b with more strings, if at all, and everything else where it was.  *)
MoreStrings(b, c) ==
  /\ Kept(b, c) /\ ~Misordered(c, RsvSize)
  /\ c.off_dt_struct = b.off_dt_struct /\ c.size_dt_struct = b.size_dt_struct
  /\ c.off_dt_strings = b.off_dt_strings
  /\ c.size_dt_strings \in Nat /\ c.size_dt_strings >= b.size_dt_strings
  /\ \A i \in 0 .. b.size_dt_struct - 1 : Struct(c, i) = Struct(b, i)
  /\ SameNames(b, c)

(* A string added at the end of the strings block.                         *)
LEMMA StringAdded ==
  ASSUME NEW b, Sound(b), ~Misordered(b, RsvSize), NEW s \in PropNames,
         NEW r, r = SpliceString(b, Len(Tails[s])), r.ret = 0,
         NEW c, c = Poke(r.fdt, DataSize(b), StringCells(s))
  PROVE  /\ MoreStrings(b, c)
         /\ c.size_dt_strings = b.size_dt_strings + Len(Tails[s])
         /\ String(c, b.size_dt_strings) = s
<1> DEFINE n == Len(Tails[s])
           end == DataSize(b)
           mem == Memmove(b.mem, end + n, end + 0, end - end - 0)
           q == [b EXCEPT !.mem = mem]
           d == [q EXCEPT !.size_dt_strings = @ + n]
           sp == Splice(b, end, 0, n)
<1>1. n \in Nat /\ n > 0
  BY NamesAssumption
<1>2. /\ b.totalsize \in Nat /\ b.off_mem_rsvmap \in Nat
      /\ b.off_dt_struct \in Nat /\ b.size_dt_struct \in Nat
      /\ b.off_dt_strings \in Nat /\ b.size_dt_strings \in Nat
      /\ BUF_SIZE \in Nat /\ b.totalsize <= BUF_SIZE
      /\ StructTop(b) \in Nat /\ StructTop(b) = b.off_dt_struct + b.size_dt_struct
      /\ end \in Nat /\ end <= b.totalsize
      /\ end = b.off_dt_strings + b.size_dt_strings
      /\ StructTop(b) <= b.off_dt_strings /\ StructTop(b) <= end
  BY NumbersAre, OrderedIs
<1>3. Fields \subseteq DOMAIN b /\ DOMAIN b.mem = 0 .. BUF_SIZE - 1
  BY BufferIs
<1>4. sp = IF end + 0 > end THEN Result(b, BADOFFSET)
           ELSE IF end - 0 + n > b.totalsize THEN Result(b, NOSPACE)
           ELSE Result(q, 0)
  BY DEF Splice
<1>5. r = IF sp.ret # 0 THEN sp
          ELSE Result([sp.fdt EXCEPT !.size_dt_strings = @ + n], 0)
  BY DEF SpliceString
<1> HIDE DEF sp
<1>6. (end + n <= b.totalsize) /\ (sp = Result(q, 0))
  <2>1. CASE end + 0 > end
    BY <1>2, <2>1
  <2>2. CASE end + n > b.totalsize
    <3>1. sp = Result(b, NOSPACE)
      BY <1>1, <1>2, <1>4, <2>2
    <3>2. sp.ret = NOSPACE /\ NOSPACE # 0
      BY <3>1 DEF Result, NOSPACE
    <3>. QED
      BY <1>5, <3>2
  <2>3. CASE ~(end + n > b.totalsize)
    <3> HIDE DEF q, end
    <3>. QED
      BY <1>1, <1>2, <1>4, <2>3
  <2>. QED
    BY <2>2, <2>3
<1>7. r.fdt = d
  <2>1. sp.ret = 0 /\ sp.fdt = q
    BY <1>6 DEF Result
  <2>. QED
    BY <1>5, <2>1 DEF Result
<1>8. DOMAIN mem = DOMAIN b.mem /\ \A a \in DOMAIN b.mem : mem[a] = b.mem[a]
  <2>1. Span(end + n, end - end - 0) = {}
    <3> HIDE DEF end, n
    <3>1. end \in Nat
      BY <1>2
    <3>. QED
      BY <1>1, <3>1 DEF Span
  <2>2. mem = [a \in DOMAIN b.mem |-> b.mem[a]]
    BY <2>1 DEF Memmove
  <2>. QED
    BY <2>2
<1>9. /\ Fields \subseteq DOMAIN d /\ d.mem = mem
      /\ d.size_dt_strings = b.size_dt_strings + n
      /\ \A f \in Fields \ {"mem", "size_dt_strings"} : d[f] = b[f]
  <2> HIDE DEF mem, n
  <2>1. /\ DOMAIN q = DOMAIN b /\ q.mem = mem
        /\ \A f \in Fields \ {"mem"} : q[f] = b[f]
    BY <1>3 DEF Fields
  <2> HIDE DEF q
  <2>2. /\ DOMAIN d = DOMAIN q
        /\ d.size_dt_strings = q.size_dt_strings + n
        /\ \A f \in Fields \ {"size_dt_strings"} : d[f] = q[f]
    BY <1>3, <2>1 DEF Fields
  <2> HIDE DEF d
  <2>. QED
    BY <1>3, <2>1, <2>2 DEF Fields
<1> HIDE DEF d, mem
<1> DEFINE cells == StringCells(s)
<1>10. Len(cells) = n /\ cells[1] = <<"string", s>>
  <2>1. Tails[s][1] = s /\ 1 \in 1 .. n
    BY <1>1, NamesAssumption
  <2> HIDE DEF n
  <2>2. cells = [i \in 1 .. n |-> <<"string", Tails[s][i]>>]
    BY DEF StringCells, n
  <2> HIDE DEF cells
  <2>. QED
    BY <1>1, <2>1, <2>2
<1>11. /\ SameBut(d, c, {"mem"})
       /\ DOMAIN c.mem = Span(end, n) \cup DOMAIN d.mem
       /\ \A a \in DOMAIN d.mem \ Span(end, n) : c.mem[a] = d.mem[a]
       /\ \A a \in Span(end, n) : c.mem[a] = cells[a - end + 1]
  <2>1. c = Poke(d, end, cells)
    BY <1>7
  <2> HIDE DEF cells, n, end
  <2>2. Fields \subseteq DOMAIN d
    BY <1>9
  <2>3. /\ SameBut(d, c, {"mem"})
        /\ DOMAIN c.mem = Span(end, Len(cells)) \cup DOMAIN d.mem
        /\ \A a \in DOMAIN d.mem \ Span(end, Len(cells)) : c.mem[a] = d.mem[a]
        /\ \A a \in Span(end, Len(cells)) : c.mem[a] = cells[a - end + 1]
    BY <2>1, <2>2, PokedIs
  <2>. QED
    BY <1>10, <2>3
<1> HIDE DEF n, end, cells
<1>30. end + n <= BUF_SIZE /\ end + n <= b.totalsize
  <2>1. end + n <= b.totalsize
    BY <1>6
  <2>. QED
    BY <1>1, <1>2, <2>1
<1>12. Span(end, n) = end .. end + n - 1
  BY DEF Span
<1>13. /\ Fields \subseteq DOMAIN c
       /\ c.totalsize = b.totalsize /\ c.off_mem_rsvmap = b.off_mem_rsvmap
       /\ c.off_dt_struct = b.off_dt_struct /\ c.size_dt_struct = b.size_dt_struct
       /\ c.off_dt_strings = b.off_dt_strings
       /\ c.size_dt_strings = b.size_dt_strings + n
       /\ c.boot_cpuid_phys = b.boot_cpuid_phys
  BY <1>9, <1>11 DEF SameBut, Fields
<1>14. DOMAIN c.mem = 0 .. BUF_SIZE - 1
  <2>1. \A a \in end .. end + n - 1 : a \in 0 .. BUF_SIZE - 1
    <3>1. end \in Nat /\ BUF_SIZE \in Nat
      BY <1>2
    <3>. QED
      BY <1>1, <1>30, <3>1
  <2>. QED
    BY <1>3, <1>8, <1>9, <1>11, <1>12, <2>1
<1>15. \A a \in 0 .. end - 1 : c.mem[a] = b.mem[a]
  <2>1. ASSUME NEW a \in 0 .. end - 1
        PROVE  a \in 0 .. BUF_SIZE - 1 /\ a \notin end .. end + n - 1
    BY <1>1, <1>2
  <2>. QED
    BY <1>3, <1>8, <1>9, <1>11, <1>12, <2>1
<1>16. /\ StructTop(c) = StructTop(b) /\ DataSize(c) = end + n
  <2>1. DataSize(c) = c.off_dt_strings + c.size_dt_strings
    BY DEF DataSize
  <2>. QED
    BY <1>1, <1>2, <1>13, <2>1 DEF StructTop
<1>17. HasHeader(c) /\ Fits(c)
  <2>2. b.size_dt_strings \in Nat
    BY <1>2
  <2>1. c.size_dt_strings \in Nat
    BY <1>1, <1>13, <2>2
  <2>. QED
    BY <1>2, <1>30, <1>13, <1>14, <1>16, <2>1 DEF HasHeader, Fits
<1>29. c.size_dt_strings \in Nat /\ c.size_dt_strings >= b.size_dt_strings
  <2> DEFINE before == b.size_dt_strings
             after == c.size_dt_strings
  <2>1. before \in Nat /\ after = before + n
    BY <1>2, <1>13
  <2> HIDE DEF before, after
  <2>2. after \in Nat /\ after >= before
    BY <1>1, <2>1
  <2>. QED
    BY <2>2 DEF before, after
<1>18. \A i \in 0 .. b.size_dt_struct - 1 : Struct(c, i) = Struct(b, i)
  <2> DEFINE base == b.off_dt_struct
             size == b.size_dt_struct
  <2>1. base \in Nat /\ size \in Nat /\ end \in Nat /\ base + size <= end
    BY <1>2
  <2> HIDE DEF base, size
  <2>2. \A i \in 0 .. size - 1 : base + i \in 0 .. end - 1
    BY <2>1, Within
  <2>3. \A i \in 0 .. b.size_dt_struct - 1 : b.off_dt_struct + i \in 0 .. end - 1
    BY <2>2 DEF base, size
  <2>. QED
    BY <1>13, <1>15, <2>3 DEF Struct
<1>19. HasStruct(b) /\ BlocksAreApart(b)
  BY SoundIs
<1>20. HasStruct(c)
  BY <1>13, <1>18, <1>19, <1>29, StructKept
<1>21. /\ MapSize(b) \in Nat /\ HEADER_SIZE <= b.off_mem_rsvmap
       /\ b.off_mem_rsvmap + MapSize(b) <= b.off_dt_struct
       /\ b.off_mem_rsvmap + MapSize(b) <= b.off_dt_strings
  BY <1>19, EntriesAre, RsvSizeIs DEF BlocksAreApart, MapSize
<1>22. \A i \in 0 .. MapSize(b) - 1 :
         c.mem[c.off_mem_rsvmap + i] = b.mem[b.off_mem_rsvmap + i]
  <2> DEFINE base == b.off_mem_rsvmap
             size == MapSize(b)
             strings == b.off_dt_strings
  <2>1. /\ base \in Nat /\ size \in Nat /\ strings \in Nat /\ end \in Nat
        /\ base + size <= strings /\ strings <= end
    BY <1>2, <1>21
  <2> HIDE DEF base, size, strings
  <2>2. base + size <= end
    BY <2>1
  <2>3. \A i \in 0 .. size - 1 : base + i \in 0 .. end - 1
    BY <2>1, <2>2, Within
  <2>4. \A i \in 0 .. MapSize(b) - 1 : b.off_mem_rsvmap + i \in 0 .. end - 1
    BY <2>3 DEF base, size
  <2>. QED
    BY <1>13, <1>15, <2>4
<1>23. StructTop(c) <= c.off_dt_strings
  BY <1>2, <1>13, <1>16
<1>24. Sound(c) /\ RsvMap(c) = RsvMap(b) /\ UsualOrder(c)
  BY <1>13, <1>17, <1>20, <1>21, <1>22, <1>23, LayoutIsSound DEF UsualOrder
<1>25. ~Misordered(c, RsvSize)
  <2>1. /\ ~(b.off_mem_rsvmap < HEADER_SIZE)
        /\ ~(b.off_dt_struct < b.off_mem_rsvmap + RsvSize)
    BY DEF Misordered
  <2>2. ~(c.off_dt_strings < StructTop(c)) /\ ~(c.totalsize < DataSize(c))
    BY <1>1, <1>2, <1>30, <1>13, <1>16
  <2>. QED
    BY <1>13, <2>1, <2>2 DEF Misordered
<1>26. SameNames(b, c)
  <2> DEFINE base == b.off_dt_strings
             size == b.size_dt_strings
  <2>3. base \in Nat /\ size \in Nat /\ end \in Nat /\ base + size <= end
    BY <1>2
  <2> HIDE DEF base, size
  <2>4. \A i \in 0 .. size - 1 : base + i \in 0 .. end - 1
    BY <2>3, Within
  <2>1. \A i \in 0 .. b.size_dt_strings - 1 :
          b.off_dt_strings + i \in 0 .. end - 1
    BY <2>4 DEF base, size
  <2>2. ASSUME NEW i \in 0 .. b.size_dt_strings - 1
        PROVE  String(c, i) = String(b, i)
    <3>1. c.mem[b.off_dt_strings + i] = b.mem[b.off_dt_strings + i]
      BY <1>15, <2>1
    <3>. QED
      BY <1>13, <3>1 DEF String
  <2>. QED
    BY <2>2 DEF SameNames
<1>27. Ordered(b) => Ordered(c)
  BY <1>13, <1>18, <1>19, <1>26, <1>29, OrderKept
<1>28. String(c, b.size_dt_strings) = s
  <2>4. end \in Nat
    BY <1>2
  <2>1. end \in end .. end + n - 1 /\ end - end + 1 = 1
    BY <1>1, <2>4
  <2>2. c.mem[end] = <<"string", s>>
    BY <1>10, <1>11, <1>12, <2>1
  <2>3. c.mem[c.off_dt_strings + b.size_dt_strings] = <<"string", s>>
    BY <1>2, <1>13, <2>2
  <2>. QED
    BY <2>3 DEF String
<1>. QED
  BY <1>13, <1>18, <1>24, <1>25, <1>26, <1>27, <1>28, <1>29 DEF MoreStrings, Kept, StaysSound, n

(* _fdt_find_add_string adds to the strings at most, and returns where the *)
(* string is in them or an error.                                          *)
LEMMA FindAddStringIs ==
  ASSUME NEW b, Sound(b), ~Misordered(b, RsvSize), NEW s \in PropNames,
         NEW r, r = FindAddString(b, s)
  PROVE  /\ MoreStrings(b, r.fdt)
         /\ \/ r.ret \in Errors /\ r.ret = NOSPACE /\ r.fdt = b
            \/ /\ r.ret \in 0 .. r.fdt.size_dt_strings - 1
               /\ String(r.fdt, r.ret) = s
<1> DEFINE found == FindString(b, s)
           n == Len(Tails[s])
           sp == SpliceString(b, n)
           c == Poke(sp.fdt, DataSize(b), StringCells(s))
           size == b.size_dt_strings
<1>1. size \in Nat
  BY NumbersAre
<1>2. n \in Nat /\ n > 0
  BY NamesAssumption
<1>3. r = IF found >= 0 THEN Result(b, found)
          ELSE IF sp.ret # 0 THEN sp ELSE Result(c, size)
  BY DEF FindAddString
<1>4. found = NOTFOUND \/ (found \in 0 .. size - 1 /\ String(b, found) = s)
  BY <1>1, FindStringIs
<1>5. MoreStrings(b, b)
  BY <1>1 DEF MoreStrings, Kept, StaysSound, SameNames
<1>6. sp.ret # 0 => sp.ret \in Errors /\ sp.ret = NOSPACE /\ sp.fdt = b
  <2> DEFINE end == DataSize(b)
             p == Splice(b, end, 0, n)
  <2>1. sp = IF p.ret # 0 THEN p
             ELSE Result([p.fdt EXCEPT !.size_dt_strings = @ + n], 0)
    BY DEF SpliceString
  <2>2. p.ret # 0 => p = Result(b, NOSPACE)
    <3>1. ~(end + 0 > end)
      BY NumbersAre
    <3>2. p = Result(b, NOSPACE) \/ p.ret = 0
      BY <3>1 DEF Splice, Result
    <3>. QED
      BY <3>2
  <2> HIDE DEF p, sp
  <2>. QED
    BY <2>1, <2>2 DEF Result, Errors, NOSPACE
<1> HIDE DEF found, sp, c
<1>7. CASE found >= 0
  <2>1. r = Result(b, found) /\ found \in 0 .. size - 1 /\ String(b, found) = s
    BY <1>3, <1>4, <1>7 DEF NOTFOUND
  <2>. QED
    BY <1>5, <2>1 DEF Result
<1>8. CASE ~(found >= 0) /\ sp.ret # 0
  BY <1>3, <1>5, <1>6, <1>8
<1>9. CASE ~(found >= 0) /\ sp.ret = 0
  <2>1. r.fdt = c /\ r.ret = size
    BY <1>3, <1>9 DEF Result
  <2>2. MoreStrings(b, c) /\ c.size_dt_strings = size + n /\ String(c, size) = s
    BY <1>9, StringAdded DEF sp, c
  <2>3. size \in 0 .. (size + n) - 1
    BY <1>1, <1>2
  <2>. QED
    BY <2>1, <2>2, <2>3
<1>. QED
  BY <1>7, <1>8, <1>9

-----------------------------------------------------------------------------
(* What is put in in one go.                                               *)

(* Cells put in at a tag: c holds them, and the tag behind them.           *)
LEMMA SplicedIn ==
  ASSUME NEW b, Sound(b), ~Misordered(b, RsvSize), NEW o \in Tags(b),
         NEW new \in Nat, IsMultiple(new),
         NEW r, r = SpliceStruct(b, o, 0, new)
  PROVE  \/ r.ret = NOSPACE /\ r.fdt = b
         \/ /\ r.ret = 0 /\ Fitted(b, r.fdt, b.off_dt_struct + o, 0, new)
            /\ r.fdt.off_dt_struct = b.off_dt_struct
<1>1. /\ o \in Nat /\ 0 \in Nat /\ o + 0 <= b.size_dt_struct
  BY NumbersAre DEF Tags
<1>2. \/ r.ret = NOSPACE /\ r.fdt = b
      \/ r.ret = 0 /\ Fitted(b, r.fdt, b.off_dt_struct + o, 0, new)
  BY <1>1, SpliceStructIs
<1>3. Fitted(b, r.fdt, b.off_dt_struct + o, 0, new)
        => r.fdt.off_dt_struct = b.off_dt_struct
  BY SameFields DEF Fitted, Reshaped
<1>. QED
  BY <1>2, <1>3

(* One sequence behind another.                                            *)
Joins(s, t, both) ==
  /\ IsSequence(both) /\ Len(both) = Len(s) + Len(t)
  /\ Len(s) \in Nat /\ Len(t) \in Nat
  /\ \A i \in 1 .. Len(s) : both[i] = s[i]
  /\ \A i \in 1 .. Len(t) : both[Len(s) + i] = t[i]

(* Two sequences, one behind the other.                                    *)
LEMMA JoinIs ==
  ASSUME NEW s, NEW t, IsSequence(s), IsSequence(t), NEW both, both = s \o t
  PROVE  Joins(s, t, both)
<1>1. PICK A : s \in Seq(A)
  BY DEF IsSequence
<1>2. PICK B : t \in Seq(B)
  BY DEF IsSequence
<1>3. s \in Seq(A \cup B) /\ t \in Seq(A \cup B)
  BY <1>1, <1>2
<1>4. Len(s) \in Nat /\ Len(t) \in Nat /\ \A i \in 1 .. Len(s) : (s \o t)[i] = s[i]
  BY <1>3
<1>. QED
  BY <1>4, Joined DEF Joins

(* The address is in the first cell.                                       *)
LEMMA ReservationBegins ==
  ASSUME NEW address, NEW size
  PROVE  Reservation(address, size)[1] = <<"address", address>>
<1> DEFINE n == 2 * FDT_TAGSIZE
           a == Cells(<<"address", address>>, n)
           s == Cells(<<"size", size>>, n)
           r == a \o s
<1>1. n \in Nat /\ n > 0
  BY SizesAssumption
<1> HIDE DEF n
<1>2. IsSequence(a) /\ IsSequence(s) /\ Len(a) = n /\ a[1] = <<"address", address>>
  <2>1. IsSequence(a) /\ IsSequence(s) /\ Len(a) = n
    BY <1>1, CellsAre
  <2>2. a[1] = <<"address", address>>
    BY <1>1 DEF Cells
  <2>. QED
    BY <2>1, <2>2
<1>3. Reservation(address, size) = r
  BY DEF Reservation, n
<1> HIDE DEF a, s
<1>4. Joins(a, s, r)
  BY <1>2, JoinIs
<1> HIDE DEF r
<1>5. r[1] = a[1]
  BY <1>1, <1>2, <1>4 DEF Joins
<1>. QED
  BY <1>2, <1>3, <1>5

(* The header of a property.                                               *)
IsHead(head, len, nameoff) ==
  /\ Len(head) = PropHeader /\ head[1] = <<"tag", "PROP">>
  /\ head[FDT_TAGSIZE + 1] = <<"len", len>>
  /\ head[2 * FDT_TAGSIZE + 1] = <<"nameoff", nameoff>>

(* The three words of a property.                                          *)
LEMMA HeadIs ==
  ASSUME NEW len, NEW nameoff, NEW head,
         head = Tag("PROP") \o Word("len", len) \o Word("nameoff", nameoff)
  PROVE  IsHead(head, len, nameoff)
<1> DEFINE T == FDT_TAGSIZE
           x == Tag("PROP")
           y == Word("len", len)
           z == Word("nameoff", nameoff)
<1>1. T \in Nat /\ T > 0
  BY TagSizeIs
<1>2. /\ IsSequence(x) /\ Len(x) = T /\ x[1] = <<"tag", "PROP">>
      /\ IsSequence(y) /\ Len(y) = T /\ y[1] = <<"len", len>>
      /\ IsSequence(z) /\ Len(z) = T /\ z[1] = <<"nameoff", nameoff>>
  BY WordIs, WordCells DEF Tag
<1> HIDE DEF x, y, z
<1> DEFINE xy == x \o y
           all == xy \o z
<1>3. Joins(x, y, xy)
  BY <1>2, JoinIs
<1>4. head = all
  BY DEF x, y, z
<1> HIDE DEF xy, T
<1>5. Joins(xy, z, all)
  <2>1. IsSequence(xy)
    BY <1>3 DEF Joins
  <2>. QED
    BY <1>2, <2>1, JoinIs
<1> HIDE DEF all
<1>6. /\ Len(xy) = T + T /\ xy[1] = x[1] /\ xy[T + 1] = y[1]
  BY <1>1, <1>2, <1>3 DEF Joins
<1>7. /\ Len(all) = (T + T) + T
      /\ all[1] = xy[1] /\ all[T + 1] = xy[T + 1] /\ all[(T + T) + 1] = z[1]
  BY <1>1, <1>2, <1>5, <1>6 DEF Joins
<1>8. T + T = 2 * T /\ (T + T) + T = 3 * T
  BY <1>1
<1>9. /\ Len(head) = 3 * T /\ head[1] = <<"tag", "PROP">>
      /\ head[T + 1] = <<"len", len>> /\ head[2 * T + 1] = <<"nameoff", nameoff>>
  BY <1>2, <1>4, <1>6, <1>7, <1>8
<1>. QED
  BY <1>9 DEF IsHead, PropHeader, T

(* With more strings there is no property of that name either.             *)
LEMMA FreeStays ==
  ASSUME NEW b, HasStruct(b), NEW c, MoreStrings(b, c), NEW o, NEW name,
         IsFree(b, o, name)
  PROVE  IsFree(c, o, name)
<1>1. b.size_dt_struct \in Nat
  BY DEF HasStruct
<1>2. Tags(c) = Tags(b)
  BY <1>1 DEF Tags, MoreStrings
<1>3. ASSUME NEW t \in Tags(b)
      PROVE  /\ TagOf(c, t) = TagOf(b, t)
             /\ TagOf(b, t) = "PROP" => PropName(c, t) = PropName(b, t)
  <2> DEFINE u == t + 2 * FDT_TAGSIZE
  <2>1. t \in 0 .. b.size_dt_struct - 1
    BY DEF Tags
  <2>2. TagOf(c, t) = TagOf(b, t)
    BY <2>1 DEF MoreStrings, TagOf
  <2>3. ASSUME TagOf(b, t) = "PROP"  PROVE PropName(c, t) = PropName(b, t)
    <3>1. /\ Following(b, t) \in Nat /\ Following(b, t) <= b.size_dt_struct
          /\ u \in Nat /\ u < Following(b, t)
      <4>1. LengthAt(b, t) = PropHeader + PropLen(b, t) /\ PropLen(b, t) \in Nat
        BY <2>3 DEF LengthAt, TagLength, TagOf, HasStruct, StructIsSound, TagIsSound
      <4>2. /\ Following(b, t) \in Nat /\ Following(b, t) <= b.size_dt_struct
            /\ t \in Nat /\ t + LengthAt(b, t) <= Following(b, t)
        BY TagAt
      <4>. QED
        BY <4>1, <4>2, TagSizeIs DEF PropHeader
    <3>2. u \in 0 .. b.size_dt_struct - 1
      BY <1>1, <3>1
    <3> HIDE DEF u
    <3>3. Struct(c, u) = Struct(b, u)
      BY <3>2 DEF MoreStrings
    <3>4. NameOff(c, t) = NameOff(b, t)
      BY <3>3 DEF NameOff, u
    <3>5. NameOff(b, t) \in 0 .. b.size_dt_strings - 1
      BY <2>3 DEF HasStruct, StructIsSound, TagIsSound, TagOf
    <3>6. String(c, NameOff(b, t)) = String(b, NameOff(b, t))
      BY <3>5 DEF MoreStrings, SameNames
    <3>. QED
      BY <3>4, <3>6 DEF PropName
  <2>. QED
    BY <2>2, <2>3
<1>4. PICK z \in Tags(b) : IsFreeTo(b, o, name, z)
  BY DEF IsFree
<1>5. IsFreeTo(c, o, name, z)
  BY <1>2, <1>3, <1>4 DEF IsFreeTo
<1>. QED
  BY <1>2, <1>4, <1>5 DEF IsFree

(* With more strings a node begins and goes on where it did.               *)
LEMMA NodeStays ==
  ASSUME NEW b, HasStruct(b), NEW c, MoreStrings(b, c), NEW node \in Tags(b),
         TagOf(b, node) = "BEGIN_NODE"
  PROVE  /\ node \in Tags(c) /\ TagOf(c, node) = "BEGIN_NODE"
         /\ Following(c, node) = Following(b, node)
<1> DEFINE u == node + FDT_TAGSIZE
<1>1. /\ node \in Nat /\ FDT_TAGSIZE \in Nat
      /\ LengthAt(b, node) > FDT_TAGSIZE /\ LengthAt(b, node) \in Nat
  <2>1. /\ NodeName(b, node) \in NodeNames /\ FDT_TAGSIZE \in Nat
        /\ LengthAt(b, node) = FDT_TAGSIZE + NodeLength[NodeName(b, node)] + 1
    BY TagSizeIs DEF LengthAt, TagLength, TagOf, HasStruct, StructIsSound, TagIsSound
  <2>2. NodeLength[NodeName(b, node)] \in Nat
    BY <2>1, NamesAssumption
  <2>3. LengthAt(b, node) > FDT_TAGSIZE
    BY <2>1, <2>2
  <2>. QED
    BY <2>1, <2>3, TagAt
<1>2. /\ b.size_dt_struct \in Nat /\ Following(b, node) \in Nat
      /\ Following(b, node) <= b.size_dt_struct
      /\ node + LengthAt(b, node) <= Following(b, node)
  BY TagAt DEF HasStruct
<1>3. node \in 0 .. b.size_dt_struct - 1 /\ u \in 0 .. b.size_dt_struct - 1
  BY <1>1, <1>2
<1> HIDE DEF u
<1>4. /\ Struct(c, node) = Struct(b, node) /\ Struct(c, u) = Struct(b, u)
      /\ c.size_dt_struct = b.size_dt_struct
  BY <1>3 DEF MoreStrings
<1>5. TagOf(c, node) = TagOf(b, node) /\ NodeName(c, node) = NodeName(b, node)
  BY <1>4 DEF TagOf, NodeName, u
<1>6. Following(c, node) = Following(b, node)
  BY <1>5 DEF Following, TagLength, TagOf
<1>. QED
  BY <1>3, <1>4, <1>5, <1>6 DEF Tags

(* Nor does it matter for what is put in that there were strings added.    *)
LEMMA PutInWithStrings ==
  ASSUME NEW b, Sound(b), NEW d, MoreStrings(b, d), NEW c, NEW o \in Tags(b),
         NEW x, NEW v, HasPut(d, c, o, 0, x, v)
  PROVE  HasPut(b, c, o, 0, x, v)
<1>1. PICK new \in Nat : OneProperty(d, c, o, 0, new)
  BY DEF HasPut
<1>2. /\ b.size_dt_struct \in Nat /\ b.size_dt_strings \in Nat
      /\ o \in Nat /\ o <= b.size_dt_struct
  BY NumbersAre DEF Tags
<1>3. /\ d.size_dt_struct = b.size_dt_struct
      /\ d.size_dt_strings \in Nat /\ d.size_dt_strings >= b.size_dt_strings
      /\ \A i \in 0 .. b.size_dt_struct - 1 : Struct(d, i) = Struct(b, i)
      /\ SameNames(b, d)
  BY DEF MoreStrings
<1>4. /\ c.size_dt_struct = d.size_dt_struct - 0 + new
      /\ c.size_dt_strings \in Nat /\ c.size_dt_strings >= d.size_dt_strings
      /\ \A i \in 0 .. o - 1 : Struct(c, i) = Struct(d, i)
      /\ \A i \in o + 0 .. d.size_dt_struct - 1 :
           Struct(c, i + (new - 0)) = Struct(d, i)
  BY <1>1 DEF OneProperty, Edited
<1>5. SameNames(b, c)
  <2>1. SameNames(d, c)
    BY <1>1 DEF OneProperty
  <2>2. \A i \in 0 .. b.size_dt_strings - 1 : i \in 0 .. d.size_dt_strings - 1
    BY <1>2, <1>3
  <2>. QED
    BY <1>3, <2>1, <2>2 DEF SameNames
<1>6. Edited(b, c, o, 0, new)
  <2>1. c.size_dt_strings >= b.size_dt_strings
    BY <1>2, <1>3, <1>4
  <2>2. \A i \in 0 .. o - 1 : i \in 0 .. b.size_dt_struct - 1
    BY <1>2
  <2>3. \A i \in o + 0 .. b.size_dt_struct - 1 : i \in 0 .. b.size_dt_struct - 1
    BY <1>2
  <2>. QED
    BY <1>3, <1>4, <2>1, <2>2, <2>3 DEF Edited
<1>7. OneProperty(b, c, o, 0, new)
  BY <1>1, <1>5, <1>6 DEF OneProperty
<1>. QED
  BY <1>7 DEF HasPut

(* _fdt_add_property, the failure after a name has been added included.    *)
LEMMA AddPropertyKeeps ==
  ASSUME NEW b, Sound(b), ~Misordered(b, RsvSize), NEW node \in Int,
         NEW name \in PropNames, NEW val, Len(val) \in Nat,
         CheckNodeOffset(b, node) >= 0 =>
           IsFree(b, CheckNodeOffset(b, node), name)
  PROVE  LET w == AddProperty(b, node, name, val)
             o == CheckNodeOffset(b, node)
         IN  /\ Kept(b, w.fdt)
             /\ \/ o = BADOFFSET /\ w = Result(b, BADOFFSET)
                \/ o \in Tags(b) /\ w.ret = NOSPACE /\ MoreStrings(b, w.fdt)
                \/ /\ o \in Tags(b) /\ w.ret = 0
                   /\ HasPut(b, w.fdt, o, 0, name, [i \in 1 .. Len(val) |-> val[i]])
<1> DEFINE T == FDT_TAGSIZE
           H == PropHeader
           L == Len(val)
           A == TagAlign(L)
           o == CheckNodeOffset(b, node)
           s == FindAddString(b, name)
           d == s.fdt
           new == H + A
           r == SpliceStruct(d, o, 0, new)
           head == Tag("PROP") \o Word("len", L) \o Word("nameoff", s.ret)
           c1 == r.fdt
           off == b.off_dt_struct
           c2 == Poke(c1, off + o, head)
           c3 == PutValue(c2, o, 0, val)
<1>1. AddProperty(b, node, name, val) =
        IF o < 0 THEN Result(b, o)
        ELSE IF s.ret < 0 THEN s
        ELSE IF r.ret # 0 THEN r
        ELSE Result(c3, 0)
  BY DEF AddProperty
<1>2. HasStruct(b)
  BY SoundIs
<1>3. \/ o = BADOFFSET
      \/ /\ o \in Tags(b) /\ o \in Nat /\ IsFree(b, o, name)
         /\ node \in Tags(b) /\ TagOf(b, node) = "BEGIN_NODE"
         /\ o = Following(b, node)
  <2>1. \/ o = BADOFFSET
        \/ /\ node \in Tags(b) /\ TagOf(b, node) = "BEGIN_NODE"
           /\ o = Following(b, node)
    BY <1>2, NodeOffsetIs
  <2>3. o >= 0 => IsFree(b, o, name)
    OBVIOUS
  <2> HIDE DEF o
  <2>2. o \in Tags(b) => o \in Nat
    BY <1>2, TagAt
  <2>4. o \in Nat => o >= 0
    OBVIOUS
  <2>. QED
    BY <1>2, <2>1, <2>2, <2>3, <2>4, FollowingIs
<1>4. /\ MoreStrings(b, d)
      /\ \/ s.ret \in Errors /\ s.ret = NOSPACE
         \/ s.ret \in 0 .. d.size_dt_strings - 1 /\ String(d, s.ret) = name
  <2>1. s = FindAddString(b, name)
    OBVIOUS
  <2> HIDE DEF s
  <2>. QED
    BY <2>1, FindAddStringIs
<1>5. /\ T \in Nat /\ T > 0 /\ H \in Nat /\ H = 3 * T /\ IsMultiple(H)
      /\ A \in Nat /\ IsMultiple(A) /\ L <= A /\ L \in Nat
  <2>1. H = (T + T) + T
    BY TagSizeIs DEF PropHeader
  <2>2. IsMultiple(H)
    BY <2>1, Multiples
  <2>. QED
    BY <2>2, TagSizeIs, Aligned, AlignIs DEF PropHeader
<1>6. new \in Nat /\ IsMultiple(new) /\ new = H + A
  BY <1>5, Multiples
<1>7. /\ Sound(d) /\ ~Misordered(d, RsvSize) /\ Kept(b, d)
      /\ d.off_dt_struct = off
  BY <1>4 DEF MoreStrings, Kept, StaysSound
<1> HIDE DEF o, s, new, T, H, A, L, off
<1>8. CASE o = BADOFFSET
  <2>1. AddProperty(b, node, name, val) = Result(b, o)
    BY <1>1, <1>8 DEF BADOFFSET
  <2>. QED
    BY <1>8, <2>1 DEF Result, Kept, StaysSound, o
<1>9. CASE o \in Tags(b) /\ o \in Nat /\ s.ret \in Errors /\ s.ret = NOSPACE
  <2>1. AddProperty(b, node, name, val) = s
    BY <1>1, <1>9 DEF Errors
  <2>. QED
    BY <1>4, <1>7, <1>9, <2>1 DEF o
<1>10. CASE /\ o \in Tags(b) /\ o \in Nat /\ IsFree(b, o, name)
            /\ node \in Tags(b) /\ TagOf(b, node) = "BEGIN_NODE"
            /\ o = Following(b, node)
            /\ s.ret \in 0 .. d.size_dt_strings - 1 /\ String(d, s.ret) = name
  <2>1. AddProperty(b, node, name, val) = IF r.ret # 0 THEN r ELSE Result(c3, 0)
    <3>1. ~(o < 0) /\ ~(s.ret < 0)
      BY <1>10
    <3> HIDE DEF r, c3
    <3>. QED
      BY <1>1, <3>1
  <2>2. o \in Tags(d)
    BY <1>4, <1>10 DEF MoreStrings, Tags
  <2>3. \/ r.ret = NOSPACE /\ c1 = d
        \/ /\ r.ret = 0 /\ Fitted(d, c1, d.off_dt_struct + o, 0, new)
           /\ c1.off_dt_struct = d.off_dt_struct
    <3>1. r = SpliceStruct(d, o, 0, new)
      OBVIOUS
    <3> HIDE DEF r, d
    <3>. QED
      BY <1>6, <1>7, <2>2, <3>1, SplicedIn
  <2> HIDE DEF r, d
  <2>4. CASE r.ret = NOSPACE /\ c1 = d
    <3>1. AddProperty(b, node, name, val) = r
      BY <2>1, <2>4 DEF NOSPACE
    <3>. QED
      BY <1>4, <1>7, <1>10, <2>4, <3>1 DEF o
  <2>5. CASE /\ r.ret = 0 /\ Fitted(d, c1, d.off_dt_struct + o, 0, new)
             /\ c1.off_dt_struct = d.off_dt_struct
    <3> HIDE DEF c1
    <3>1. /\ AddProperty(b, node, name, val).fdt = c3
          /\ AddProperty(b, node, name, val).ret = 0
      BY <2>1, <2>5 DEF Result
    <3>2. /\ Reshaped(d, c1, d.off_dt_struct + o, 0, new)
          /\ d.off_dt_struct + o + new <= BUF_SIZE /\ 0 \in Nat
      BY <2>5 DEF Fitted
    <3>3. /\ Len(head) = H /\ head[1] = <<"tag", "PROP">>
          /\ head[T + 1] = <<"len", L>>
          /\ head[2 * T + 1] = <<"nameoff", s.ret>>
      <4>1. head = Tag("PROP") \o Word("len", L) \o Word("nameoff", s.ret)
        OBVIOUS
      <4> HIDE DEF head
      <4>2. IsHead(head, L, s.ret)
        BY <4>1, HeadIs
      <4>. QED
        BY <4>2 DEF IsHead, H, T
    <3>4. c2 = Poke(c1, d.off_dt_struct + o + 0, head)
      <4>1. d.off_dt_struct \in Nat
        BY <1>7, NumbersAre
      <4>2. d.off_dt_struct + o + 0 = off + o
        BY <1>7, <1>10, <4>1
      <4>. QED
        BY <4>2
    <3> HIDE DEF head, c2
    <3>5. /\ Reshaped(d, c2, d.off_dt_struct + o, 0, new)
          /\ PutIn(c2, c1, o, new, 0, head)
      <4>1. Len(head) \in Nat /\ 0 + Len(head) <= new
        BY <1>5, <1>6, <3>3
      <4>. QED
        BY <1>6, <1>7, <1>10, <3>2, <3>4, <4>1, StructPoked
    <3> DEFINE cells == Bytes(val)
    <3>6. /\ Len(cells) = L
          /\ \A i \in 1 .. L : cells[i][1] = "byte" /\ cells[i][2] = val[i]
      <4>1. \A i \in 1 .. Len(val) : cells[i] = <<"byte", val[i]>>
        BY DEF Bytes
      <4>2. Len(cells) = Len(val)
        BY BytesAre
      <4> HIDE DEF cells
      <4>. QED
        BY <4>1, <4>2 DEF L
    <3>7. c3 = Poke(c2, d.off_dt_struct + o + H, cells)
      <4>1. c2.off_dt_struct = d.off_dt_struct /\ d.off_dt_struct \in Nat
        BY <1>7, <3>5, SameFields, NumbersAre DEF Reshaped
      <4>2. d.off_dt_struct + o + H + 0 = d.off_dt_struct + o + H
        BY <1>5, <1>10, <4>1
      <4>. QED
        BY <4>1, <4>2 DEF PutValue, H
    <3> HIDE DEF cells, c3
    <3>8. /\ Reshaped(d, c3, d.off_dt_struct + o, 0, new)
          /\ PutIn(c3, c2, o, new, H, cells)
      <4>1. Len(cells) \in Nat /\ H + Len(cells) <= new
        BY <1>5, <1>6, <3>6
      <4>. QED
        BY <1>5, <1>6, <1>7, <1>10, <3>2, <3>5, <3>7, <4>1, StructPoked
    <3>9. ASSUME NEW i \in 0 .. H - 1  PROVE Struct(c3, o + i) = head[i + 1]
      <4>1. i \in 0 .. new - 1 /\ i < H
        BY <1>5, <1>6
      <4>2. Struct(c3, o + i) = Struct(c2, o + i)
        BY <3>8, <4>1 DEF PutIn
      <4>3. i + 1 \in 1 .. Len(head) /\ o + (0 + ((i + 1) - 1)) = o + i
        BY <1>5, <1>10, <3>3
      <4>4. Struct(c2, o + (0 + ((i + 1) - 1))) = head[i + 1]
        BY <3>5, <4>3 DEF PutIn
      <4>. QED
        BY <4>2, <4>3, <4>4
    <3>10. /\ Struct(c3, o) = <<"tag", "PROP">>
           /\ Struct(c3, o + T) = <<"len", L>>
           /\ Struct(c3, o + 2 * T) = <<"nameoff", s.ret>>
      <4>1. /\ 0 \in 0 .. H - 1 /\ T \in 0 .. H - 1 /\ 2 * T \in 0 .. H - 1
            /\ o + 0 = o /\ 0 + 1 = 1
        BY <1>5, <1>10
      <4>. QED
        BY <3>3, <3>9, <4>1
    <3>11. ASSUME NEW t \in o + H .. o + H + L - 1  PROVE Struct(c3, t)[1] # "tag"
      <4> DEFINE i == t - (o + H) + 1
      <4>0. o \in Nat
        BY <1>10
      <4>1. i \in 1 .. L /\ o + (H + (i - 1)) = t
        BY <1>5, <4>0
      <4> HIDE DEF i
      <4>2. Struct(c3, t) = cells[i]
        BY <3>6, <3>8, <4>1 DEF PutIn
      <4>. QED
        BY <3>6, <4>1, <4>2
    <3>12. Kept(d, c3) /\ HasPut(d, c3, o, 0, name, [i \in 1 .. Len(val) |-> val[i]])
      <4>1. /\ PropLen(c3, o) = L /\ NameOff(c3, o) = s.ret
            /\ Struct(c3, o)[1] = "tag" /\ TagOf(c3, o) = "PROP"
            /\ Struct(c3, o + FDT_TAGSIZE)[1] # "tag"
            /\ Struct(c3, o + 2 * FDT_TAGSIZE)[1] # "tag"
        BY <3>10 DEF PropLen, NameOff, TagOf, T
      <4>2. /\ PropLen(c3, o) \in Nat
            /\ new = PropHeader + TagAlign(PropLen(c3, o))
            /\ NameOff(c3, o) \in 0 .. d.size_dt_strings - 1
        BY <1>5, <1>6, <1>10, <4>1 DEF H, A
      <4>3. \A t \in o + PropHeader .. o + PropHeader + PropLen(c3, o) - 1 :
              IsMultiple(t) => Struct(c3, t)[1] # "tag"
        BY <3>11, <4>1 DEF H
      <4>4. o + 0 \in Tags(d) /\ StructTop(d) <= d.off_dt_strings
        BY <1>7, <1>10, <2>2, OrderedIs
      <4>5. NameFits(d, c3, o, 0) /\ PropName(c3, o) = name
        <5>1. o + 0 <= d.size_dt_struct
          <6>1. d.size_dt_struct \in Nat
            BY <1>7, NumbersAre
          <6>. QED
            BY <1>10, <2>2, <6>1 DEF Tags
        <5>2. SameNames(d, c3)
          BY <1>6, <1>7, <1>10, <3>2, <3>8, <4>4, <5>1, ReshapedNames
        <5>3. PropName(c3, o) = name
          BY <1>10, <4>1, <5>2 DEF SameNames, PropName
        <5>4. IsFree(d, o, name)
          BY <1>2, <1>4, <1>10, FreeStays
        <5>5. /\ node \in Tags(d) /\ TagOf(d, node) = "BEGIN_NODE"
              /\ Following(d, node) = o
          BY <1>2, <1>4, <1>10, NodeStays
        <5>. QED
          BY <5>3, <5>4, <5>5 DEF NameFits
      <4>6. Kept(d, c3) /\ OneProperty(d, c3, o, 0, new)
        BY <1>7, <2>2, <3>2, <3>8, <4>1, <4>2, <4>3, <4>4, <4>5, PropertyPutIn
      <4>7. ASSUME NEW i \in 1 .. L  PROVE Struct(c3, o + H + i - 1)[2] = val[i]
        <5>1. o + (H + (i - 1)) = o + H + i - 1
          BY <1>5, <1>10
        <5>2. Struct(c3, o + (H + (i - 1))) = cells[i]
          BY <3>6, <3>8, <4>7 DEF PutIn
        <5>. QED
          BY <3>6, <4>7, <5>1, <5>2
      <4>8. PropVal(c3, o) = [i \in 1 .. L |-> val[i]]
        <5>1. PropVal(c3, o) = [i \in 1 .. L |-> Struct(c3, o + H + i - 1)[2]]
          BY <4>1 DEF PropVal, H
        <5>. QED
          BY <4>7, <5>1
      <4>. QED
        BY <1>6, <4>1, <4>5, <4>6, <4>8 DEF HasPut, L
    <3>13. HasPut(b, c3, o, 0, name, [i \in 1 .. Len(val) |-> val[i]])
      BY <1>4, <1>10, <3>12, PutInWithStrings
    <3>. QED
      BY <1>7, <1>10, <3>1, <3>12, <3>13 DEF Kept, StaysSound, o
  <2>. QED
    BY <2>3, <2>4, <2>5
<1>. QED
  BY <1>3, <1>4, <1>8, <1>9, <1>10

(* fdt_setprop.                                                            *)
LEMMA SetPropKeeps ==
  ASSUME NEW b, Sound(b), ~Misordered(b, RsvSize), NEW node \in Int,
         NEW name \in PropNames, NEW val, Len(val) \in Nat
  PROVE  Kept(b, fdt_setprop(b, node, name, val).fdt)
<1> DEFINE prop == GetProperty(b, node, name)
           a == Resize(b, prop, 0, val)
           n == AddProperty(b, node, name, val)
<1>1. HasStruct(b)
  BY SoundIs
<1>2. fdt_setprop(b, node, name, val) =
        IF prop >= 0 THEN a ELSE IF prop = NOTFOUND THEN n ELSE Result(b, prop)
  BY DEF fdt_setprop
<1>3. \/ /\ prop \in Errors
         /\ CheckNodeOffset(b, node) >= 0 =>
              IsFree(b, CheckNodeOffset(b, node), name)
      \/ prop \in Tags(b) /\ TagOf(b, prop) = "PROP"
  BY <1>1, GetPropertyIs
<1>4. ASSUME CheckNodeOffset(b, node) >= 0 =>
               IsFree(b, CheckNodeOffset(b, node), name)
      PROVE  Kept(b, n.fdt)
  BY <1>4, AddPropertyKeeps
<1>5. Kept(b, Result(b, prop).fdt)
  BY DEF Result, Kept, StaysSound
<1> HIDE DEF prop
<1>6. ASSUME prop \in Tags(b), TagOf(b, prop) = "PROP"  PROVE Kept(b, a.fdt)
  <2>1. 0 \in 0 .. PropLen(b, prop)
    BY <1>1, <1>6, FoundProperty
  <2>. QED
    BY <1>6, <2>1, ResizeKeeps
<1>7. prop \in Errors => ~(prop >= 0)
  BY DEF Errors
<1>8. prop \in Tags(b) => prop >= 0
  BY DEF Tags
<1> HIDE DEF a, n
<1>. QED
  BY <1>2, <1>3, <1>4, <1>5, <1>6, <1>7, <1>8

(* fdt_appendprop.                                                         *)
LEMMA AppendPropKeeps ==
  ASSUME NEW b, Sound(b), ~Misordered(b, RsvSize), NEW node \in Int,
         NEW name \in PropNames, NEW val, Len(val) \in Nat
  PROVE  Kept(b, fdt_appendprop(b, node, name, val).fdt)
<1> DEFINE prop == GetProperty(b, node, name)
           a == Resize(b, prop, PropLen(b, prop), val)
           n == AddProperty(b, node, name, val)
<1>1. HasStruct(b)
  BY SoundIs
<1>2. fdt_appendprop(b, node, name, val) = IF prop >= 0 THEN a ELSE n
  BY DEF fdt_appendprop
<1>3. \/ /\ prop \in Errors
         /\ CheckNodeOffset(b, node) >= 0 =>
              IsFree(b, CheckNodeOffset(b, node), name)
      \/ prop \in Tags(b) /\ TagOf(b, prop) = "PROP"
  BY <1>1, GetPropertyIs
<1>4. ASSUME CheckNodeOffset(b, node) >= 0 =>
               IsFree(b, CheckNodeOffset(b, node), name)
      PROVE  Kept(b, n.fdt)
  BY <1>4, AddPropertyKeeps
<1> HIDE DEF prop
<1>6. ASSUME prop \in Tags(b), TagOf(b, prop) = "PROP"  PROVE Kept(b, a.fdt)
  <2>1. PropLen(b, prop) \in 0 .. PropLen(b, prop)
    BY <1>1, <1>6, FoundProperty
  <2>. QED
    BY <1>6, <2>1, ResizeKeeps
<1>7. prop \in Errors => ~(prop >= 0)
  BY DEF Errors
<1>8. prop \in Tags(b) => prop >= 0
  BY DEF Tags
<1> HIDE DEF a, n
<1>. QED
  BY <1>2, <1>3, <1>4, <1>6, <1>7, <1>8

-----------------------------------------------------------------------------
(* The functions on nodes.                                                 *)

(* The cells of a name, and none of them may be taken for a tag.           *)
NameIs(cells, name) ==
  /\ IsSequence(cells) /\ Len(cells) \in Nat /\ Len(cells) > 0
  /\ IsMultiple(Len(cells)) /\ Len(cells) = TagAlign(NodeLength[name] + 1)
  /\ cells[1] = <<"name", name>>
  /\ \A i \in 1 .. Len(cells) : cells[i][1] # "tag"

(* The cells of a name.                                                    *)
LEMMA NameCellsIs ==
  ASSUME NEW name \in NodeNames, NEW cells, cells = NameCells(name)
  PROVE  NameIs(cells, name)
<1> DEFINE n == TagAlign(NodeLength[name] + 1)
           c == <<"name", name>>
<1>1. NodeLength[name] + 1 \in Nat /\ NodeLength[name] + 1 > 0
  BY NamesAssumption
<1>2. n \in Nat /\ n > 0 /\ IsMultiple(n)
  BY <1>1, Aligned, AlignIs
<1>3. cells = Cells(c, n)
  BY DEF NameCells
<1> HIDE DEF n
<1>4. IsSequence(cells) /\ Len(cells) = n
  BY <1>2, <1>3, CellsAre
<1>5. \A i \in 1 .. n : cells[i] = IF i = 1 THEN c ELSE Rest
  BY <1>3 DEF Cells
<1>6. 1 \in 1 .. n /\ c[1] # "tag" /\ Rest[1] # "tag"
  BY <1>2 DEF Rest
<1> HIDE DEF c
<1>7. cells[1] = c /\ \A i \in 1 .. n : cells[i][1] # "tag"
  BY <1>5, <1>6
<1>. QED
  BY <1>2, <1>4, <1>7 DEF NameIs, n, c

(* Where the tag behind the one that begins a node is.                     *)
LEMMA NodeIs ==
  ASSUME NEW b, NEW o, IsMultiple(o), TagOf(b, o) = "BEGIN_NODE",
         NodeName(b, o) \in NodeNames
  PROVE  Following(b, o) = o + FDT_TAGSIZE + TagAlign(NodeLength[NodeName(b, o)] + 1)
<1> DEFINE T == FDT_TAGSIZE
           n == NodeLength[NodeName(b, o)]
<1>1. n \in Nat
  BY NamesAssumption
<1>2. Following(b, o) = TagAlign(o + (T + n + 1))
  BY DEF Following, TagLength, TagOf
<1>3. o \in Int /\ T \in Nat /\ IsMultiple(o + T)
  BY TagSizeIs, Multiples DEF IsMultiple
<1> HIDE DEF n, T
<1>4. o + (T + n + 1) = (o + T) + (n + 1) /\ n + 1 \in Int
  BY <1>1, <1>3
<1> DEFINE d == o + T
           m == n + 1
<1> HIDE DEF d, m
<1>5. TagAlign(d + m) = d + TagAlign(m)
  BY <1>3, <1>4, AlignmentMoves DEF d, m
<1>. QED
  BY <1>2, <1>4, <1>5 DEF d, m, n, T

(* The tag of a node with its name, up to the next tag.                    *)
LEMMA NodeWritten ==
  ASSUME NEW c, c.size_dt_struct \in Nat, NEW o \in Nat, IsMultiple(o),
         Struct(c, o)[1] = "tag", TagOf(c, o) = "BEGIN_NODE",
         NEW name \in NodeNames, NEW cells, NameIs(cells, name),
         \A i \in 1 .. Len(cells) :
           Struct(c, o + (FDT_TAGSIZE + (i - 1))) = cells[i],
         NEW next \in Tags(c), next = o + FDT_TAGSIZE + Len(cells)
  PROVE  /\ o \in Tags(c) /\ TagIsSound(c, o) /\ Following(c, o) = next
         /\ \A t \in Tags(c) : t \in o .. next - 1 => t = o
<1> DEFINE T == FDT_TAGSIZE
           n == Len(cells)
<1>1. T \in Nat /\ T > 0
  BY TagSizeIs
<1>2. n \in Nat /\ n > 0 /\ n = TagAlign(NodeLength[name] + 1) /\ cells[1] = <<"name", name>>
      /\ \A i \in 1 .. n : cells[i][1] # "tag"
  BY DEF NameIs
<1> HIDE DEF T, n
<1>3. Struct(c, o)[1] = "tag" /\ TagOf(c, o) = "BEGIN_NODE"
  OBVIOUS
<1>4. NodeName(c, o) = name
  <2>1. 1 \in 1 .. n /\ o + (T + (1 - 1)) = o + T
    BY <1>1, <1>2
  <2>2. Struct(c, o + (T + (1 - 1))) = cells[1]
    BY <2>1 DEF n, T
  <2>. QED
    BY <1>2, <2>1, <2>2 DEF NodeName, T
<1>5. Following(c, o) = next
  BY <1>2, <1>3, <1>4, NodeIs DEF n
<1>6. o < next
  BY <1>1, <1>2 DEF T, n
<1>7. ASSUME NEW t \in o + 1 .. next - 1, IsMultiple(t)
      PROVE  Struct(c, t)[1] # "tag"
  <2>1. t >= o + T
    BY <1>7, Multiples DEF T
  <2> DEFINE i == t - (o + T) + 1
  <2>2. i \in 1 .. n /\ o + (T + (i - 1)) = t
    BY <1>1, <1>2, <2>1 DEF T, n
  <2> HIDE DEF i
  <2>3. Struct(c, t) = cells[i]
    BY <2>2 DEF n, T
  <2>. QED
    BY <1>2, <2>2, <2>3
<1>. QED
  BY <1>3, <1>4, <1>5, <1>6, <1>7, TagIsWritten

(* A tag that nothing belongs to, and the next one.                        *)
LEMMA ShortTagWritten ==
  ASSUME NEW c, c.size_dt_struct \in Nat, NEW o \in Nat, IsMultiple(o),
         Struct(c, o)[1] = "tag", TagOf(c, o) \in {"END_NODE", "NOP"},
         NEW next \in Tags(c), next = o + FDT_TAGSIZE
  PROVE  /\ o \in Tags(c) /\ TagIsSound(c, o) /\ Following(c, o) = next
         /\ \A t \in Tags(c) : t \in o .. next - 1 => t = o
<1>1. FDT_TAGSIZE \in Nat /\ FDT_TAGSIZE > 0 /\ IsMultiple(next) /\ next \in Int
  BY TagSizeIs, Multiples DEF IsMultiple
<1>2. Following(c, o) = next
  <2>1. Following(c, o) = TagAlign(next)
    BY DEF Following, TagLength, TagOf
  <2>2. TagAlign(next) = next
    BY <1>1, AlignedStays
  <2>. QED
    BY <2>1, <2>2
<1>3. o < next
  BY <1>1
<1>4. ASSUME NEW t \in o + 1 .. next - 1, IsMultiple(t)  PROVE FALSE
  BY <1>1, <1>4, Multiples
<1>. QED
  BY <1>2, <1>3, <1>4, TagIsWritten

(* The cells of a new node.                                                *)
LEMMA SubnodeCellsAre ==
  ASSUME NEW name \in NodeNames, NEW names, names = NameCells(name),
         NEW cells,
         cells = Tag("BEGIN_NODE") \o names \o Tag("END_NODE")
  PROVE  /\ Len(cells) = FDT_TAGSIZE + Len(names) + FDT_TAGSIZE
         /\ cells[1] = <<"tag", "BEGIN_NODE">>
         /\ \A i \in 1 .. Len(names) : cells[FDT_TAGSIZE + i] = names[i]
         /\ cells[FDT_TAGSIZE + Len(names) + 1] = <<"tag", "END_NODE">>
<1> DEFINE T == FDT_TAGSIZE
           x == Tag("BEGIN_NODE")
           z == Tag("END_NODE")
           n == Len(names)
<1>1. T \in Nat /\ T > 0
  BY TagSizeIs
<1>2. /\ IsSequence(x) /\ Len(x) = T /\ x[1] = <<"tag", "BEGIN_NODE">>
      /\ IsSequence(z) /\ Len(z) = T /\ z[1] = <<"tag", "END_NODE">>
  BY WordIs, WordCells DEF Tag
<1>3. IsSequence(names) /\ n \in Nat /\ n > 0
  BY NameCellsIs DEF NameIs
<1> HIDE DEF x, z, n
<1> DEFINE xy == x \o names
           all == xy \o z
<1>4. Joins(x, names, xy)
  BY <1>2, <1>3, JoinIs
<1>5. cells = all
  BY DEF x, z
<1> HIDE DEF xy, T
<1>6. Joins(xy, z, all)
  <2>1. IsSequence(xy)
    BY <1>4 DEF Joins
  <2>. QED
    BY <1>2, <2>1, JoinIs
<1> HIDE DEF all
<1>7. /\ Len(xy) = T + n /\ xy[1] = x[1]
      /\ \A i \in 1 .. n : xy[T + i] = names[i]
  BY <1>1, <1>2, <1>4 DEF Joins, n
<1>8. /\ Len(all) = (T + n) + T /\ all[1] = xy[1] /\ all[(T + n) + 1] = z[1]
  BY <1>1, <1>2, <1>3, <1>6, <1>7 DEF Joins
<1>9. ASSUME NEW i \in 1 .. n  PROVE all[T + i] = names[i]
  <2>1. T + i \in 1 .. Len(xy)
    BY <1>1, <1>3, <1>7
  <2>2. all[T + i] = xy[T + i]
    BY <1>6, <2>1 DEF Joins
  <2>. QED
    BY <1>7, <2>2
<1>10. /\ Len(cells) = T + n + T /\ cells[1] = <<"tag", "BEGIN_NODE">>
       /\ \A i \in 1 .. n : cells[T + i] = names[i]
       /\ cells[T + n + 1] = <<"tag", "END_NODE">>
  BY <1>2, <1>5, <1>7, <1>8, <1>9
<1>. QED
  BY <1>10 DEF T, n

(* What c has at o that b has not: the two tags of a node.                 *)
NewNode(b, c, o, end, next) ==
  /\ next - o \in Nat /\ IsMultiple(next - o)
  /\ Edited(b, c, o, 0, next - o) /\ SameNames(b, c)
  /\ o \in Tags(c) /\ TagOf(c, o) = "BEGIN_NODE" /\ Following(c, o) = end
  /\ end \in Tags(c) /\ TagOf(c, end) = "END_NODE" /\ Following(c, end) = next

(* fdt_add_subnode: but with the error of a search instead of an offset    *)
(* there is no telling where it writes.                                    *)
LEMMA AddSubnodeKeeps ==
  ASSUME NEW b, Sound(b), ~Misordered(b, RsvSize), NEW parent \in Int,
         parent # NOTFOUND, NEW name \in NodeNames
  PROVE  LET w     == fdt_add_subnode(b, parent, name)
             found == SubnodeOffset(b, parent, name)
             o     == Place(b, parent)
         IN  /\ Kept(b, w.fdt)
             /\ found >= 0 => w = Result(b, EXISTS)
             /\ found < 0 /\ found # NOTFOUND => w = Result(b, found)
             /\ found = NOTFOUND =>
                  \/ w.ret = NOSPACE /\ w.fdt = b
                  \/ /\ w.ret = o /\ o \in Tags(b)
                     /\ \E end, next : NewNode(b, w.fdt, o, end, next)
<1> DEFINE T == FDT_TAGSIZE
           names == NameCells(name)
           cells == Tag("BEGIN_NODE") \o names \o Tag("END_NODE")
           n == Len(names)
           new == Len(cells)
           o == Place(b, parent)
           found == SubnodeOffset(b, parent, name)
           r == SpliceStruct(b, o, 0, new)
           c1 == r.fdt
           off == b.off_dt_struct
           c2 == Poke(c1, off + o, cells)
<1>1. HasStruct(b)
  BY SoundIs
<1>2. fdt_add_subnode(b, parent, name) =
        IF found >= 0 THEN Result(b, EXISTS)
        ELSE IF found # NOTFOUND THEN Result(b, found)
        ELSE IF r.ret # 0 THEN r
        ELSE Result(c2, o)
  BY DEF fdt_add_subnode
<1>3. /\ found = NOTFOUND => parent \in Tags(b) /\ TagOf(b, parent) = "BEGIN_NODE"
      /\ found \in Int
  BY <1>1, SubnodeOffsetIs
<1> DEFINE w == fdt_add_subnode(b, parent, name)
           Added == \/ w.ret = NOSPACE /\ w.fdt = b
                    \/ /\ w.ret = o /\ o \in Tags(b)
                       /\ \E end, next : NewNode(b, w.fdt, o, end, next)
           Goal == /\ Kept(b, w.fdt)
                   /\ found >= 0 => w = Result(b, EXISTS)
                   /\ found < 0 /\ found # NOTFOUND => w = Result(b, found)
                   /\ found = NOTFOUND => Added
<1> SUFFICES Goal
  OBVIOUS
<1> HIDE DEF found
<1>4. CASE found # NOTFOUND
  <2> HIDE DEF Added, r, c2, o
  <2>1. /\ found >= 0 => w = Result(b, EXISTS)
        /\ found < 0 => w = Result(b, found)
    BY <1>2, <1>3, <1>4
  <2>2. w.fdt = b
    <3> HIDE DEF w
    <3>. QED
      BY <1>3, <2>1 DEF Result
  <2>3. Kept(b, w.fdt)
    BY <2>2 DEF Kept, StaysSound
  <2>. QED
    BY <1>4, <2>1, <2>3
<1>5. CASE found = NOTFOUND
  <2>1. /\ o \in Tags(b) /\ o \in Nat /\ IsMultiple(o)
        /\ TagOf(b, o) \notin {"PROP", "NOP"}
    <3>1. o \in Tags(b) /\ TagOf(b, o) \notin {"PROP", "NOP"}
      BY <1>1, <1>3, <1>5, PlaceIs
    <3>. QED
      BY <1>1, <3>1, TagAt
  <2>2. fdt_add_subnode(b, parent, name) = IF r.ret # 0 THEN r ELSE Result(c2, o)
    <3>1. ~(found >= 0)
      BY <1>5 DEF NOTFOUND
    <3> HIDE DEF r, c2, o
    <3>. QED
      BY <1>2, <1>5, <3>1
  <2>3. NameIs(names, name)
    BY NameCellsIs
  <2>4. /\ new = T + n + T
        /\ cells[1] = <<"tag", "BEGIN_NODE">>
        /\ \A i \in 1 .. n : cells[T + i] = names[i]
        /\ cells[T + n + 1] = <<"tag", "END_NODE">>
    <3>1. names = NameCells(name) /\ cells = Tag("BEGIN_NODE") \o names \o Tag("END_NODE")
      OBVIOUS
    <3> HIDE DEF names, cells
    <3>2. /\ Len(cells) = FDT_TAGSIZE + Len(names) + FDT_TAGSIZE
          /\ cells[1] = <<"tag", "BEGIN_NODE">>
          /\ \A i \in 1 .. Len(names) : cells[FDT_TAGSIZE + i] = names[i]
          /\ cells[FDT_TAGSIZE + Len(names) + 1] = <<"tag", "END_NODE">>
      BY <3>1, SubnodeCellsAre
    <3>. QED
      BY <3>2
  <2>5. T \in Nat /\ T > 0 /\ IsMultiple(T)
    BY TagSizeIs, Multiples
  <2> HIDE DEF names, cells, o, T
  <2>6. n \in Nat /\ n > 0 /\ IsMultiple(n)
    BY <2>3 DEF NameIs
  <2> HIDE DEF n
  <2>7. new \in Nat /\ IsMultiple(new)
    <3>1. IsMultiple(T + n + T)
      BY <2>5, <2>6, Multiples
    <3>. QED
      BY <2>4, <2>5, <2>6, <3>1
  <2>8. off \in Nat /\ b.size_dt_struct \in Nat /\ o < b.size_dt_struct
    BY <2>1, NumbersAre DEF Tags
  <2> HIDE DEF new
  <2>9. \/ r.ret = NOSPACE /\ c1 = b
        \/ r.ret = 0 /\ Fitted(b, c1, off + o, 0, new)
    <3>1. r = SpliceStruct(b, o, 0, new)
      OBVIOUS
    <3> HIDE DEF r
    <3>. QED
      BY <2>1, <2>7, <3>1, SplicedIn
  <2> HIDE DEF r
  <2>10. CASE r.ret = NOSPACE /\ c1 = b
    <3>1. fdt_add_subnode(b, parent, name) = r
      BY <2>2, <2>10 DEF NOSPACE
    <3>2. w.ret = NOSPACE /\ w.fdt = b
      BY <2>10, <3>1
    <3> HIDE DEF w
    <3>3. Kept(b, w.fdt) /\ Added
      BY <3>2 DEF Kept, StaysSound
    <3>. QED
      BY <1>5, <3>3 DEF NOTFOUND
  <2>11. CASE r.ret = 0 /\ Fitted(b, c1, off + o, 0, new)
    <3>1. fdt_add_subnode(b, parent, name).fdt = c2 /\ w.ret = o
      BY <2>2, <2>11 DEF Result
    <3> HIDE DEF c1
    <3>2. /\ Reshaped(b, c1, off + o, 0, new)
          /\ off + o + new <= BUF_SIZE /\ 0 \in Nat
      BY <2>11 DEF Fitted
    <3>3. c2 = Poke(c1, off + o + 0, cells)
      <4>1. off + o + 0 = off + o
        BY <2>1, <2>8
      <4>. QED
        BY <4>1
    <3> HIDE DEF c2, off
    <3>4. Reshaped(b, c2, off + o, 0, new) /\ PutIn(c2, c1, o, new, 0, cells)
      <4>1. Len(cells) \in Nat /\ 0 + Len(cells) <= new
        BY <2>7 DEF new
      <4>. QED
        BY <2>1, <2>7, <3>2, <3>3, <4>1, StructPoked DEF off
    <3>5. ASSUME NEW i \in 1 .. new  PROVE Struct(c2, o + (i - 1)) = cells[i]
      <4>1. o + (0 + (i - 1)) = o + (i - 1)
        BY <2>1, <2>7
      <4>2. Struct(c2, o + (0 + (i - 1))) = cells[i]
        BY <3>4 DEF PutIn, new
      <4>. QED
        BY <4>1, <4>2
    <3>6. c2.size_dt_struct \in Nat
      <4>1. c2.size_dt_struct = b.size_dt_struct - 0 + new
        BY <3>4 DEF Reshaped
      <4>. QED
        BY <2>7, <2>8, <4>1
    <3> DEFINE end == o + T + n
               next == o + new
    <3>7. /\ end \in Nat /\ IsMultiple(end) /\ next = end + T
          /\ next \in Nat /\ o < end
      <4>1. IsMultiple(o + T + n)
        BY <2>1, <2>5, <2>6, Multiples
      <4>. QED
        BY <2>1, <2>4, <2>5, <2>6, <4>1
    <3>8. next \in Tags(c2)
      <4>1. o + 0 \in Tags(b)
        BY <2>1
      <4>. QED
        BY <2>1, <2>7, <3>2, <3>4, <4>1, ReshapedTag DEF off
    <3>9. Struct(c2, o)[1] = "tag" /\ TagOf(c2, o) = "BEGIN_NODE"
      <4>1. 1 \in 1 .. new /\ o + (1 - 1) = o
        BY <2>1, <2>4, <2>5, <2>6
      <4>2. Struct(c2, o) = <<"tag", "BEGIN_NODE">>
        BY <2>4, <3>5, <4>1
      <4>. QED
        BY <4>2 DEF TagOf
    <3>10. Struct(c2, end)[1] = "tag" /\ TagOf(c2, end) = "END_NODE"
      <4>1. T + n + 1 \in 1 .. new /\ o + ((T + n + 1) - 1) = end
        BY <2>1, <2>4, <2>5, <2>6
      <4> HIDE DEF end
      <4>2. Struct(c2, end) = <<"tag", "END_NODE">>
        BY <2>4, <3>5, <4>1
      <4>. QED
        BY <4>2 DEF TagOf
    <3>11. ASSUME NEW i \in 1 .. n  PROVE Struct(c2, o + (T + (i - 1))) = names[i]
      <4>1. T + i \in 1 .. new /\ o + ((T + i) - 1) = o + (T + (i - 1))
        BY <2>1, <2>4, <2>5, <2>6
      <4>2. Struct(c2, o + ((T + i) - 1)) = cells[T + i]
        BY <3>5, <4>1
      <4>. QED
        BY <2>4, <4>1, <4>2
    <3> HIDE DEF end, next
    <3>12. /\ end \in Tags(c2) /\ TagIsSound(c2, end) /\ Following(c2, end) = next
           /\ \A t \in Tags(c2) : t \in end .. next - 1 => t = end
      BY <3>6, <3>7, <3>8, <3>10, ShortTagWritten DEF T
    <3>13. /\ o \in Tags(c2) /\ TagIsSound(c2, o) /\ Following(c2, o) = end
           /\ \A t \in Tags(c2) : t \in o .. end - 1 => t = o
      <4>1. \A i \in 1 .. Len(names) :
              Struct(c2, o + (FDT_TAGSIZE + (i - 1))) = names[i]
        BY <3>11 DEF n, T
      <4>2. end = o + FDT_TAGSIZE + Len(names)
        BY DEF end, T, n
      <4>3. o \in Nat /\ IsMultiple(o) /\ end \in Tags(c2)
        BY <2>1, <3>12
      <4>. QED
        BY <2>3, <3>6, <3>9, <4>1, <4>2, <4>3, NodeWritten
    <3>14. ASSUME NEW t \in Tags(c2), t \in o .. o + new - 1
           PROVE  TagIsSound(c2, t)
      <4>1. t \in o .. end - 1 \/ t \in end .. next - 1
        BY <2>1, <2>7, <3>7, <3>14 DEF next
      <4>. QED
        BY <3>12, <3>13, <4>1
    <3>15. o + 0 \in Tags(b) /\ StructTop(b) <= b.off_dt_strings
      BY <2>1, OrderedIs
    <3>16. Ordered(b) => Mended(b, c2, o, 0, new)
      <4>1. next = o + new /\ end < next
        BY <2>5, <3>7 DEF next
      <4>2. ASSUME NEW t \in Tags(c2), o <= t, t < o + new
            PROVE  t = o \/ t = end
        <5>1. t \in Nat
          BY DEF Tags
        <5>2. t \in o .. end - 1 \/ t \in end .. next - 1
          BY <2>1, <3>7, <4>1, <4>2, <5>1
        <5>. QED
          BY <3>12, <3>13, <5>2
      <4>3. Following(c2, end) = o + new /\ end < o + new
        BY <3>12, <4>1
      <4>. QED
        BY <1>1, <2>1, <2>7, <3>7, <3>9, <3>10, <3>13, <4>2, <4>3, NewNodeMends
    <3>17. Kept(b, c2)
      BY <2>1, <2>7, <3>2, <3>4, <3>13, <3>14, <3>15, <3>16, ReshapedIsSound DEF off
    <3>18. Edited(b, c2, o, 0, new) /\ SameNames(b, c2)
      <4>1. o + 0 <= b.size_dt_struct
        BY <2>1, <2>8
      <4>. QED
        BY <2>1, <2>7, <3>2, <3>4, <3>15, <4>1, ReshapedStruct, ReshapedNames DEF off
    <3>19. next - o = new
      BY <2>1, <2>7 DEF next
    <3>20. NewNode(b, c2, o, end, next)
      BY <2>7, <3>9, <3>10, <3>12, <3>13, <3>18, <3>19 DEF NewNode
    <3>21. Kept(b, w.fdt) /\ Added
      <4>1. w.fdt = c2 /\ w.ret = o
        BY <3>1
      <4> HIDE DEF w
      <4>. QED
        BY <2>1, <3>17, <3>20, <4>1
    <3> HIDE DEF w, Added
    <3>. QED
      BY <1>5, <3>21 DEF NOTFOUND
  <2>. QED
    BY <2>9, <2>10, <2>11
<1>. QED
  BY <1>4, <1>5

-----------------------------------------------------------------------------
(* The blob as a whole.                                                    *)

(* What Memmove has written and what it has left.                          *)
MovedTo(w, mem, top, dst, src, len) ==
  /\ DOMAIN w = 0 .. top - 1
  /\ \A i \in 0 .. len - 1 : w[dst + i] = mem[src + i]
  /\ \A a \in 0 .. top - 1 : a < dst \/ a >= dst + len => w[a] = mem[a]

(* memmove within the buffer.                                              *)
LEMMA MemmoveMoves ==
  ASSUME NEW mem, NEW top \in Nat, DOMAIN mem = 0 .. top - 1,
         NEW dst \in Nat, NEW src \in Nat, NEW len \in Nat,
         dst + len <= top,
         NEW w, w = Memmove(mem, dst, src, len)
  PROVE  MovedTo(w, mem, top, dst, src, len)
<1>1. Span(dst, len) = dst .. dst + len - 1
  BY DEF Span
<1>2. /\ DOMAIN w = (dst .. dst + len - 1) \cup (0 .. top - 1)
      /\ \A a \in dst .. dst + len - 1 : w[a] = mem[a - dst + src]
      /\ \A a \in (0 .. top - 1) \ (dst .. dst + len - 1) : w[a] = mem[a]
  BY <1>1 DEF Memmove
<1>3. DOMAIN w = 0 .. top - 1
  <2>1. \A a \in dst .. dst + len - 1 : a \in 0 .. top - 1
    OBVIOUS
  <2>. QED
    BY <1>2, <2>1
<1>4. ASSUME NEW i \in 0 .. len - 1  PROVE w[dst + i] = mem[src + i]
  <2> DEFINE a == dst + i
  <2>1. a \in dst .. dst + len - 1 /\ a - dst + src = src + i
    OBVIOUS
  <2> HIDE DEF a
  <2>2. w[a] = mem[a - dst + src]
    BY <1>2, <2>1
  <2>. QED
    BY <2>1, <2>2 DEF a
<1>5. ASSUME NEW a \in 0 .. top - 1, a < dst \/ a >= dst + len
      PROVE  w[a] = mem[a]
  <2>1. ~(a \in dst .. dst + len - 1)
    BY <1>5
  <2>. QED
    BY <1>2, <2>1
<1>. QED
  BY <1>3, <1>4, <1>5 DEF MovedTo

(* The map of reservations lies between the header and the other blocks.   *)
LEMMA MapSizeIs ==
  ASSUME NEW b, Sound(b)
  PROVE  /\ MapSize(b) \in Nat /\ HEADER_SIZE \in Nat
         /\ HEADER_SIZE <= b.off_mem_rsvmap
         /\ b.off_mem_rsvmap + MapSize(b) <= b.off_dt_struct
         /\ b.off_mem_rsvmap + MapSize(b) <= b.off_dt_strings
<1>1. NumMemRsv(b) \in Nat
  BY DEF Sound, BlocksAreApart
<1>2. MapSize(b) \in Nat
  BY <1>1, EntriesAre, RsvSizeIs DEF MapSize
<1>. QED
  BY <1>2, SizesAssumption DEF Sound, BlocksAreApart

(* The blocks are one behind the other, from address base on.              *)
Packed(b, p, base) ==
  /\ SameBut(b, p, {"mem", "off_mem_rsvmap", "off_dt_struct", "off_dt_strings"})
  /\ p.off_mem_rsvmap = HEADER_SIZE
  /\ p.off_dt_struct = HEADER_SIZE + MapSize(b)
  /\ p.off_dt_strings = HEADER_SIZE + MapSize(b) + b.size_dt_struct
  /\ \A i \in 0 .. MapSize(b) - 1 :
       p.mem[base + HEADER_SIZE + i] = b.mem[b.off_mem_rsvmap + i]
  /\ \A i \in 0 .. b.size_dt_struct - 1 :
       p.mem[base + (HEADER_SIZE + MapSize(b)) + i] = b.mem[b.off_dt_struct + i]
  /\ \A i \in 0 .. b.size_dt_strings - 1 :
       p.mem[base + (HEADER_SIZE + MapSize(b) + b.size_dt_struct) + i]
         = b.mem[b.off_dt_strings + i]

(* The blob at the beginning of a buffer that may be longer.               *)
LiesIn(b, buf, top) ==
  /\ SameBut(b, buf, {"mem"}) /\ DOMAIN buf.mem = 0 .. top - 1
  /\ BUF_SIZE <= top /\ \A a \in 0 .. BUF_SIZE - 1 : buf.mem[a] = b.mem[a]

(* _fdt_packblocks, when no block comes to lie on one not yet moved.       *)
LEMMA PackBlocksPacks ==
  ASSUME NEW b, Sound(b), NEW buf, NEW top \in Nat, LiesIn(b, buf, top),
         NEW base \in Nat, base + PackedSize(b) <= top,
         \/ base + HEADER_SIZE + MapSize(b) <= b.off_dt_struct
         \/ StructTop(b) <= base + HEADER_SIZE,
         \/ base + (HEADER_SIZE + MapSize(b) + b.size_dt_struct) <= b.off_dt_strings
         \/ DataSize(b) <= base + HEADER_SIZE,
         NEW p, p = PackBlocks(buf, base)
  PROVE  Packed(b, p, base) /\ DOMAIN p.mem = 0 .. top - 1
<1> DEFINE H == HEADER_SIZE
           M == MapSize(b)
           n == b.size_dt_struct
           m == b.size_dt_strings
           R0 == b.off_mem_rsvmap
           S0 == b.off_dt_struct
           G0 == b.off_dt_strings
           x1 == base + H
           x2 == base + (H + M)
           x3 == base + (H + M + n)
           mem1 == Memmove(buf.mem, x1, R0, M)
           mem2 == Memmove(mem1, x2, S0, n)
           mem3 == Memmove(mem2, x3, G0, m)
<1>16. /\ Fields \subseteq DOMAIN buf
       /\ buf.off_mem_rsvmap = R0 /\ buf.off_dt_struct = S0
       /\ buf.off_dt_strings = G0 /\ buf.size_dt_struct = n
       /\ buf.size_dt_strings = m /\ buf.totalsize = b.totalsize
       /\ buf.boot_cpuid_phys = b.boot_cpuid_phys
  BY DEF LiesIn, SameBut, Fields
<1>18. R0 \in Nat /\ M \in Nat /\ R0 + M <= BUF_SIZE /\ BUF_SIZE \in Nat
  <2>1. /\ R0 + M <= S0 /\ M \in Nat /\ R0 \in Nat /\ S0 \in Nat
        /\ n \in Nat /\ S0 + n = StructTop(b)
    BY NumbersAre, MapSizeIs
  <2>2. StructTop(b) <= b.totalsize /\ b.totalsize <= BUF_SIZE
    BY NumbersAre
  <2>3. StructTop(b) \in Nat /\ b.totalsize \in Nat /\ BUF_SIZE \in Nat
    BY NumbersAre
  <2> HIDE DEF R0, S0, M, n
  <2>. QED
    BY <2>1, <2>2, <2>3
<1>17. MapSize(buf) = M
  <2>1. NumMemRsv(b) \in Nat /\ RsvSizeAt(b, NumMemRsv(b)) = 0
    BY DEF Sound, BlocksAreApart
  <2> HIDE DEF R0, M
  <2>3. ASSUME NEW i \in 0 .. M - 1  PROVE buf.mem[R0 + i] = b.mem[R0 + i]
    <3>1. R0 + i \in 0 .. BUF_SIZE - 1
      BY <1>18, Within
    <3>. QED
      BY <3>1 DEF LiesIn
  <2>4. \A i \in 0 .. MapSize(b) - 1 :
          buf.mem[buf.off_mem_rsvmap + i] = b.mem[b.off_mem_rsvmap + i]
    BY <1>16, <2>3 DEF R0, M
  <2>5. b.off_mem_rsvmap \in Nat /\ buf.off_mem_rsvmap \in Nat
    BY <1>16, <1>18 DEF R0
  <2>. QED
    BY <2>1, <2>4, <2>5, MapKept DEF M
<1>1. p = [buf EXCEPT !.mem = mem3, !.off_mem_rsvmap = H,
                      !.off_dt_struct = H + M, !.off_dt_strings = H + M + n]
  BY <1>16, <1>17 DEF PackBlocks
<1>2. /\ H \in Nat /\ M \in Nat /\ n \in Nat /\ m \in Nat /\ R0 \in Nat
      /\ S0 \in Nat /\ G0 \in Nat /\ BUF_SIZE \in Nat
      /\ StructTop(b) = S0 + n
      /\ DataSize(b) = G0 + m
      /\ S0 + n <= BUF_SIZE /\ G0 + m <= BUF_SIZE /\ BUF_SIZE <= top
      /\ base + (H + M + n + m) <= top
  <2>1. PackedSize(b) = H + M + n + m
    BY DEF PackedSize
  <2>2. StructTop(b) <= BUF_SIZE /\ StructTop(b) = S0 + n
    BY NumbersAre
  <2>3. DataSize(b) <= BUF_SIZE /\ DataSize(b) = G0 + m
    <3>1. /\ DataSize(b) <= b.totalsize /\ b.totalsize <= BUF_SIZE
          /\ DataSize(b) \in Nat /\ b.totalsize \in Nat /\ BUF_SIZE \in Nat
      BY NumbersAre
    <3>2. DataSize(b) <= BUF_SIZE
      BY <3>1
    <3>. QED
      BY <3>2, NumbersAre
  <2>. QED
    BY <2>1, <2>2, <2>3, NumbersAre, MapSizeIs DEF LiesIn
<1>3. /\ base + H + M <= S0 \/ S0 + n <= base + H
      /\ base + (H + M + n) <= G0 \/ G0 + m <= base + H
  BY <1>2
<1>4. /\ Fields \subseteq DOMAIN buf /\ DOMAIN buf.mem = 0 .. top - 1
      /\ \A a \in 0 .. BUF_SIZE - 1 : buf.mem[a] = b.mem[a]
  BY DEF LiesIn, SameBut
<1> HIDE DEF mem3
<1>5. /\ Fields \subseteq DOMAIN p
      /\ p.mem = mem3 /\ p.off_mem_rsvmap = H
      /\ p.off_dt_struct = H + M /\ p.off_dt_strings = H + M + n
      /\ SameBut(b, p, {"mem", "off_mem_rsvmap", "off_dt_struct", "off_dt_strings"})
  <2> HIDE DEF H, M, n, m, R0, S0, G0
  <2>1. /\ Fields \subseteq DOMAIN p
        /\ p.mem = mem3 /\ p.off_mem_rsvmap = H
        /\ p.off_dt_struct = H + M /\ p.off_dt_strings = H + M + n
    BY <1>1, <1>4 DEF Fields
  <2>2. SameBut(buf, p, {"mem", "off_mem_rsvmap", "off_dt_struct", "off_dt_strings"})
    BY <1>1, <1>4 DEF SameBut, Fields
  <2>3. \A f \in Fields \ {"mem"} : buf[f] = b[f]
    BY DEF LiesIn, SameBut
  <2>. QED
    BY <2>1, <2>2, <2>3 DEF SameBut
<1> HIDE DEF H, M, n, m, R0, S0, G0
<1>6. /\ x1 \in Nat /\ x2 \in Nat /\ x3 \in Nat
      /\ x1 + M = x2 /\ x2 + n = x3 /\ x3 + m <= top
      /\ x1 + M <= top /\ x2 + n <= top
      /\ (x2 <= S0 \/ S0 + n <= x1) /\ (x3 <= G0 \/ G0 + m <= x1)
  BY <1>2, <1>3
<1> HIDE DEF x1, x2, x3
<1>7. MovedTo(mem1, buf.mem, top, x1, R0, M)
  BY <1>2, <1>4, <1>6, MemmoveMoves
<1> HIDE DEF mem1
<1>8. MovedTo(mem2, mem1, top, x2, S0, n)
  <2>1. DOMAIN mem1 = 0 .. top - 1
    BY <1>7 DEF MovedTo
  <2>. QED
    BY <1>2, <1>6, <2>1, MemmoveMoves
<1> HIDE DEF mem2
<1>9. MovedTo(mem3, mem2, top, x3, G0, m)
  <2>1. DOMAIN mem2 = 0 .. top - 1
    BY <1>8 DEF MovedTo
  <2>2. mem3 = Memmove(mem2, x3, G0, m)
    BY DEF mem3
  <2>. QED
    BY <1>2, <1>6, <2>1, <2>2, MemmoveMoves
<1>10. ASSUME NEW i \in 0 .. M - 1  PROVE mem3[x1 + i] = b.mem[R0 + i]
  <2> DEFINE a == x1 + i
  <2>1. a \in 0 .. top - 1 /\ a < x2 /\ a < x3
    BY <1>2, <1>6
  <2>2. mem1[a] = b.mem[R0 + i]
    <3>1. R0 + i \in 0 .. BUF_SIZE - 1
      BY <1>18, Within
    <3>2. mem1[a] = buf.mem[R0 + i]
      BY <1>7 DEF MovedTo
    <3>. QED
      BY <1>4, <3>1, <3>2
  <2> HIDE DEF a
  <2>3. mem2[a] = mem1[a]
    BY <1>8, <2>1 DEF MovedTo
  <2>4. mem3[a] = mem2[a]
    BY <1>9, <2>1 DEF MovedTo
  <2>. QED
    BY <2>2, <2>3, <2>4 DEF a
<1>11. ASSUME NEW i \in 0 .. n - 1  PROVE mem3[x2 + i] = b.mem[S0 + i]
  <2> DEFINE a == x2 + i
             s == S0 + i
  <2>1. a \in 0 .. top - 1 /\ a < x3
    BY <1>2, <1>6
  <2>2. s \in 0 .. BUF_SIZE - 1 /\ (s < x1 \/ s >= x1 + M)
    BY <1>2, <1>6
  <2>3. mem2[a] = mem1[s]
    BY <1>8 DEF MovedTo
  <2> HIDE DEF a, s
  <2>4. mem1[s] = b.mem[s]
    <3>1. s \in 0 .. top - 1
      BY <1>2, <2>2
    <3>. QED
      BY <1>4, <1>7, <2>2, <3>1 DEF MovedTo
  <2>5. mem3[a] = mem2[a]
    BY <1>9, <2>1 DEF MovedTo
  <2>. QED
    BY <2>3, <2>4, <2>5 DEF a, s
<1>15. ASSUME NEW i \in 0 .. m - 1  PROVE mem3[x3 + i] = b.mem[G0 + i]
  <2> DEFINE s == G0 + i
  <2>1. /\ s \in 0 .. BUF_SIZE - 1
        /\ (s < x1 \/ s >= x1 + M) /\ (s < x2 \/ s >= x2 + n)
    BY <1>2, <1>6
  <2>2. mem3[x3 + i] = mem2[s]
    BY <1>9 DEF MovedTo
  <2> HIDE DEF s
  <2>5. s \in 0 .. top - 1
    BY <1>2, <2>1
  <2>3. mem2[s] = mem1[s]
    BY <1>8, <2>1, <2>5 DEF MovedTo
  <2>4. mem1[s] = b.mem[s]
    BY <1>4, <1>7, <2>1, <2>5 DEF MovedTo
  <2>. QED
    BY <2>2, <2>3, <2>4 DEF s
<1>12. DOMAIN mem3 = 0 .. top - 1
  BY <1>9 DEF MovedTo
<1>13. /\ \A i \in 0 .. MapSize(b) - 1 :
            mem3[base + HEADER_SIZE + i] = b.mem[b.off_mem_rsvmap + i]
       /\ \A i \in 0 .. b.size_dt_struct - 1 :
            mem3[base + (HEADER_SIZE + MapSize(b)) + i] = b.mem[b.off_dt_struct + i]
       /\ \A i \in 0 .. b.size_dt_strings - 1 :
            mem3[base + (HEADER_SIZE + MapSize(b) + b.size_dt_struct) + i]
              = b.mem[b.off_dt_strings + i]
  <2>1. \A i \in 0 .. MapSize(b) - 1 :
          mem3[base + HEADER_SIZE + i] = b.mem[b.off_mem_rsvmap + i]
    BY <1>10 DEF x1, H, M, R0
  <2>2. \A i \in 0 .. b.size_dt_struct - 1 :
          mem3[base + (HEADER_SIZE + MapSize(b)) + i] = b.mem[b.off_dt_struct + i]
    BY <1>11 DEF x2, H, M, n, S0
  <2>3. \A i \in 0 .. b.size_dt_strings - 1 :
          mem3[base + (HEADER_SIZE + MapSize(b) + b.size_dt_struct) + i]
            = b.mem[b.off_dt_strings + i]
    BY <1>15 DEF x3, H, M, n, m, G0
  <2>. QED
    BY <2>1, <2>2, <2>3
<1>14. /\ p.off_mem_rsvmap = HEADER_SIZE
       /\ p.off_dt_struct = HEADER_SIZE + MapSize(b)
       /\ p.off_dt_strings = HEADER_SIZE + MapSize(b) + b.size_dt_struct
  BY <1>5 DEF H, M, n
<1>. QED
  BY <1>5, <1>12, <1>13, <1>14 DEF Packed

(* The structure block is the same, in front of as many strings.           *)
SaysSame(b, c) ==
  /\ c.size_dt_struct = b.size_dt_struct /\ c.size_dt_strings = b.size_dt_strings
  /\ \A i \in 0 .. b.size_dt_struct - 1 : Struct(c, i) = Struct(b, i)
  /\ SameNames(b, c) /\ RsvMap(c) = RsvMap(b)

(* A blob that begins where the packed blocks are is sound, and its tags   *)
(* are as they were.                                                       *)
LEMMA PackedIsSound ==
  ASSUME NEW b, Sound(b), NEW base \in Nat, NEW p, Packed(b, p, base), NEW c,
         SameBut(p, c, {"mem", "totalsize", "boot_cpuid_phys"}),
         DOMAIN c.mem = 0 .. BUF_SIZE - 1,
         c.totalsize \in Nat, c.totalsize <= BUF_SIZE,
         PackedSize(b) <= c.totalsize,
         \A a \in 0 .. PackedSize(b) - 1 : c.mem[a] = p.mem[base + a]
  PROVE  Sound(c) /\ (Ordered(b) => Ordered(c)) /\ UsualOrder(c) /\ SaysSame(b, c)
<1> DEFINE H == HEADER_SIZE
           M == MapSize(b)
           n == b.size_dt_struct
           m == b.size_dt_strings
<1>1. /\ H \in Nat /\ M \in Nat /\ n \in Nat /\ m \in Nat /\ BUF_SIZE \in Nat
      /\ PackedSize(b) = H + M + n + m
  BY NumbersAre, MapSizeIs DEF PackedSize
<1>2. /\ Fields \subseteq DOMAIN c
      /\ c.off_mem_rsvmap = H /\ c.off_dt_struct = H + M
      /\ c.off_dt_strings = H + M + n
      /\ c.size_dt_struct = n /\ c.size_dt_strings = m
  BY DEF Packed, SameBut, Fields
<1> HIDE DEF H, M, n, m
<1>3. ASSUME NEW i \in 0 .. M - 1
      PROVE  c.mem[c.off_mem_rsvmap + i] = b.mem[b.off_mem_rsvmap + i]
  <2> DEFINE a == H + i
  <2>4. /\ H \in Nat /\ M \in Nat /\ n \in Nat /\ m \in Nat
        /\ PackedSize(b) = H + M + n + m
    BY <1>1
  <2>1. a \in 0 .. PackedSize(b) - 1 /\ base + a = base + H + i
    BY <2>4
  <2> HIDE DEF a
  <2>2. c.mem[a] = p.mem[base + a]
    BY <2>1
  <2>3. p.mem[base + H + i] = b.mem[b.off_mem_rsvmap + i]
    BY DEF Packed, H, M
  <2>. QED
    BY <1>2, <2>1, <2>2, <2>3 DEF a
<1>4. ASSUME NEW i \in 0 .. n - 1
      PROVE  Struct(c, i) = Struct(b, i)
  <2> DEFINE a == H + M + i
  <2>4. /\ H \in Nat /\ M \in Nat /\ n \in Nat /\ m \in Nat
        /\ PackedSize(b) = H + M + n + m
    BY <1>1
  <2>1. a \in 0 .. PackedSize(b) - 1 /\ base + a = base + (H + M) + i
    BY <2>4
  <2> HIDE DEF a
  <2>2. c.mem[a] = p.mem[base + a]
    BY <2>1
  <2>3. p.mem[base + (H + M) + i] = b.mem[b.off_dt_struct + i]
    BY DEF Packed, H, M, n
  <2>. QED
    BY <1>2, <2>1, <2>2, <2>3 DEF a, Struct
<1>11. ASSUME NEW i \in 0 .. m - 1
       PROVE  String(c, i) = String(b, i)
  <2> DEFINE a == H + M + n + i
  <2>4. /\ H \in Nat /\ M \in Nat /\ n \in Nat /\ m \in Nat
        /\ PackedSize(b) = H + M + n + m
    BY <1>1
  <2>1. a \in 0 .. PackedSize(b) - 1 /\ base + a = base + (H + M + n) + i
    BY <2>4
  <2> HIDE DEF a
  <2>2. c.mem[a] = p.mem[base + a]
    BY <2>1
  <2>3. p.mem[base + (H + M + n) + i] = b.mem[b.off_dt_strings + i]
    BY DEF Packed, H, M, n, m
  <2>. QED
    BY <1>2, <2>1, <2>2, <2>3 DEF a, String
<1>5. HasStruct(c) /\ (Ordered(b) => Ordered(c))
  <2>1. HasStruct(b)
    BY SoundIs
  <2>2. /\ c.size_dt_struct = b.size_dt_struct /\ c.size_dt_strings \in Nat
        /\ c.size_dt_strings >= b.size_dt_strings
    BY <1>1, <1>2 DEF n, m
  <2>3. \A i \in 0 .. b.size_dt_struct - 1 : Struct(c, i) = Struct(b, i)
    BY <1>4 DEF n
  <2>4. SameNames(b, c)
    BY <1>11 DEF SameNames, m
  <2>5. HasStruct(c)
    BY <2>1, <2>2, <2>3, StructKept
  <2>. QED
    BY <2>1, <2>2, <2>3, <2>4, <2>5, OrderKept
<1>6. HasHeader(c)
  <2>1. /\ H + M \in Nat /\ H + M + n \in Nat
    BY <1>1
  <2>. QED
    BY <1>1, <1>2, <2>1 DEF HasHeader
<1>7. StructTop(c) = H + M + n /\ DataSize(c) = H + M + n + m
  BY <1>2 DEF StructTop, DataSize
<1>8. Fits(c)
  <2>1. H + M + n <= c.totalsize /\ H + M + n + m <= c.totalsize
    BY <1>1
  <2>. QED
    BY <1>7, <2>1 DEF Fits
<1>9. /\ HEADER_SIZE <= c.off_mem_rsvmap
      /\ c.off_mem_rsvmap + MapSize(b) <= c.off_dt_struct
      /\ c.off_mem_rsvmap + MapSize(b) <= c.off_dt_strings
      /\ StructTop(c) <= c.off_dt_strings
  <2>1. H <= H /\ H + M <= H + M /\ H + M <= H + M + n /\ H + M + n <= H + M + n
    BY <1>1
  <2>. QED
    BY <1>2, <1>7, <2>1 DEF H, M
<1>10. \A i \in 0 .. MapSize(b) - 1 :
         c.mem[c.off_mem_rsvmap + i] = b.mem[b.off_mem_rsvmap + i]
  BY <1>3 DEF M
<1>12. Sound(c) /\ RsvMap(c) = RsvMap(b)
  BY <1>5, <1>6, <1>8, <1>9, <1>10, LayoutIsSound
<1>13. SaysSame(b, c)
  BY <1>2, <1>4, <1>11, <1>12 DEF SaysSame, SameNames, n, m
<1>. QED
  BY <1>5, <1>9, <1>12, <1>13 DEF UsualOrder

(* A blob lies in its own buffer.                                          *)
LEMMA LiesInItself ==
  ASSUME NEW b, Sound(b)
  PROVE  BUF_SIZE \in Nat /\ LiesIn(b, b, BUF_SIZE)
BY BufferIs, NumbersAre DEF LiesIn, SameBut

(* fdt_pack.                                                               *)
LEMMA PackKeeps ==
  ASSUME NEW b, Sound(b), ~Misordered(b, RsvSize)
  PROVE  Kept(b, fdt_pack(b).fdt) /\ SaysSame(b, fdt_pack(b).fdt)
<1> DEFINE p == PackBlocks(b, 0)
           c == [p EXCEPT !.totalsize = DataSize(p)]
           H == HEADER_SIZE
           M == MapSize(b)
           n == b.size_dt_struct
           m == b.size_dt_strings
<1>1. fdt_pack(b).fdt = c
  BY DEF fdt_pack, Result
<1> HIDE DEF p
<1>2. /\ H \in Nat /\ M \in Nat /\ n \in Nat /\ m \in Nat /\ BUF_SIZE \in Nat
      /\ PackedSize(b) = H + M + n + m
  BY NumbersAre, MapSizeIs DEF PackedSize
<1>3. /\ H + M <= b.off_dt_struct /\ PackedSize(b) <= BUF_SIZE
      /\ H + M + n <= b.off_dt_strings
  <2> DEFINE R0 == b.off_mem_rsvmap
             S0 == b.off_dt_struct
             G0 == b.off_dt_strings
  <2>1. /\ H <= R0 /\ R0 + M <= S0 /\ R0 \in Nat /\ S0 \in Nat /\ G0 \in Nat
    BY NumbersAre, MapSizeIs
  <2>2. S0 + n <= G0 /\ G0 + m <= BUF_SIZE
    <3>1. StructTop(b) <= G0
      BY OrderedIs
    <3>2. /\ StructTop(b) = S0 + n /\ DataSize(b) = G0 + m
          /\ DataSize(b) <= b.totalsize /\ b.totalsize <= BUF_SIZE
          /\ b.totalsize \in Nat
      BY NumbersAre
    <3>. QED
      BY <1>2, <2>1, <3>1, <3>2
  <2> HIDE DEF H, M, n, m, R0, S0, G0
  <2>3. H + M <= S0 /\ H + M + n <= G0 /\ H + M + n + m <= BUF_SIZE
    BY <1>2, <2>1, <2>2
  <2>. QED
    BY <1>2, <2>3 DEF S0, G0
<1>4. Packed(b, p, 0) /\ DOMAIN p.mem = 0 .. BUF_SIZE - 1
  <2> DEFINE base == 0
  <2>1. /\ base \in Nat /\ base + PackedSize(b) <= BUF_SIZE
        /\ base + HEADER_SIZE + MapSize(b) <= b.off_dt_struct
        /\ base + (HEADER_SIZE + MapSize(b) + b.size_dt_struct) <= b.off_dt_strings
    BY <1>2, <1>3
  <2>2. p = PackBlocks(b, base)
    BY DEF p
  <2> HIDE DEF base
  <2>4. BUF_SIZE \in Nat /\ LiesIn(b, b, BUF_SIZE)
    BY LiesInItself
  <2>3. Packed(b, p, base) /\ DOMAIN p.mem = 0 .. BUF_SIZE - 1
    BY <2>1, <2>2, <2>4, PackBlocksPacks
  <2>. QED
    BY <2>3 DEF base
<1>5. DataSize(p) = PackedSize(b)
  <2>1. /\ p.off_dt_strings = H + M + n /\ p.size_dt_strings = m
    BY <1>4 DEF Packed, SameBut, Fields
  <2>. QED
    BY <1>2, <2>1 DEF DataSize
<1>6. /\ SameBut(p, c, {"mem", "totalsize", "boot_cpuid_phys"})
      /\ c.mem = p.mem /\ c.totalsize = DataSize(p)
      /\ c.boot_cpuid_phys = p.boot_cpuid_phys
  <2>1. Fields \subseteq DOMAIN p
    BY <1>4 DEF Packed, SameBut
  <2>. QED
    BY <2>1 DEF SameBut, Fields
<1>7. c.boot_cpuid_phys = b.boot_cpuid_phys
  BY <1>4, <1>6 DEF Packed, SameBut, Fields
<1> HIDE DEF c, H, M, n, m
<1>8. PackedSize(b) \in Nat
  BY <1>2
<1>9. DOMAIN c.mem = 0 .. BUF_SIZE - 1
  BY <1>4, <1>6
<1>10. Sound(c) /\ (Ordered(b) => Ordered(c)) /\ UsualOrder(c) /\ SaysSame(b, c)
  <2> DEFINE base == 0
  <2>1. \A a \in 0 .. PackedSize(b) - 1 : c.mem[a] = p.mem[base + a]
    BY <1>6
  <2>2. base \in Nat /\ Packed(b, p, base)
    BY <1>4
  <2>3. /\ c.totalsize \in Nat /\ c.totalsize <= BUF_SIZE
        /\ PackedSize(b) <= c.totalsize
    BY <1>3, <1>5, <1>6, <1>8
  <2> HIDE DEF base
  <2>. QED
    BY <1>6, <1>9, <2>1, <2>2, <2>3, PackedIsSound
<1>. QED
  BY <1>1, <1>7, <1>10 DEF Kept, StaysSound, SaysSame

(* A blob with the same front and more room.                               *)
LEMMA FrontIsSound ==
  ASSUME NEW b, Sound(b), NEW c, SameBut(b, c, {"mem", "totalsize"}),
         c.totalsize = BUF_SIZE, DOMAIN c.mem = 0 .. BUF_SIZE - 1,
         \A a \in 0 .. b.totalsize - 1 : c.mem[a] = b.mem[a]
  PROVE  Kept(b, c) /\ SaysSame(b, c)
<1> DEFINE size == b.totalsize
           M == MapSize(b)
           n == b.size_dt_struct
           m == b.size_dt_strings
           R0 == b.off_mem_rsvmap
           S0 == b.off_dt_struct
           G0 == b.off_dt_strings
<1>1. /\ Fields \subseteq DOMAIN c
      /\ c.off_mem_rsvmap = R0 /\ c.off_dt_struct = S0
      /\ c.size_dt_struct = n /\ c.off_dt_strings = G0
      /\ c.size_dt_strings = m
      /\ c.boot_cpuid_phys = b.boot_cpuid_phys
  BY DEF SameBut, Fields
<1>2. /\ R0 \in Nat /\ S0 \in Nat /\ n \in Nat /\ G0 \in Nat /\ m \in Nat
      /\ size \in Nat /\ BUF_SIZE \in Nat /\ size <= BUF_SIZE
      /\ S0 + n <= size /\ G0 + m <= size
      /\ StructTop(b) = S0 + n /\ DataSize(b) = G0 + m
  BY NumbersAre
<1>3. /\ M \in Nat /\ HEADER_SIZE <= R0 /\ R0 + M <= S0 /\ R0 + M <= G0
  BY MapSizeIs
<1>4. S0 + n <= G0 \/ G0 + m <= S0
  <2>1. StructTop(b) <= G0 \/ DataSize(b) <= S0
    BY DEF Sound, BlocksAreApart
  <2>. QED
    BY <1>2, <2>1
<1>5. \A a \in 0 .. size - 1 : c.mem[a] = b.mem[a]
  OBVIOUS
<1> HIDE DEF size, M, n, m, R0, S0, G0
<1>6. R0 + M <= size
  BY <1>2, <1>3
<1>7. /\ \A i \in 0 .. M - 1 : c.mem[R0 + i] = b.mem[R0 + i]
      /\ \A i \in 0 .. n - 1 : c.mem[S0 + i] = b.mem[S0 + i]
      /\ \A i \in 0 .. m - 1 : c.mem[G0 + i] = b.mem[G0 + i]
  <2>1. \A i \in 0 .. M - 1 : R0 + i \in 0 .. size - 1
    BY <1>2, <1>3, <1>6, Within
  <2>2. \A i \in 0 .. n - 1 : S0 + i \in 0 .. size - 1
    BY <1>2, Within
  <2>3. \A i \in 0 .. m - 1 : G0 + i \in 0 .. size - 1
    BY <1>2, Within
  <2>. QED
    BY <1>5, <2>1, <2>2, <2>3
<1>13. StructTop(c) = S0 + n /\ DataSize(c) = G0 + m
  BY <1>1 DEF StructTop, DataSize
<1>8. /\ c.size_dt_struct = b.size_dt_struct
      /\ \A i \in 0 .. b.size_dt_struct - 1 : Struct(c, i) = Struct(b, i)
  BY <1>1, <1>7 DEF Struct, n, S0
<1>9. HasStruct(b) /\ c.size_dt_strings \in Nat /\ c.size_dt_strings >= b.size_dt_strings
  <2>1. HasStruct(b)
    BY SoundIs
  <2>. QED
    BY <1>1, <1>2, <2>1 DEF m
<1>10. HasStruct(c)
  BY <1>8, <1>9, StructKept
<1>16. SameNames(b, c)
  BY <1>1, <1>7 DEF SameNames, String, m, G0
<1>11. Ordered(b) => Ordered(c)
  BY <1>8, <1>9, <1>16, OrderKept
<1>17. UsualOrder(b) => UsualOrder(c)
  BY <1>1, <1>2, <1>13 DEF UsualOrder, G0
<1>12. HasHeader(c)
  BY <1>1, <1>2 DEF HasHeader
<1>14. Fits(c)
  <2>1. S0 + n <= BUF_SIZE /\ G0 + m <= BUF_SIZE /\ BUF_SIZE <= BUF_SIZE
    BY <1>2
  <2>. QED
    BY <1>13, <2>1 DEF Fits
<1>15. Sound(c) /\ RsvMap(c) = RsvMap(b)
  <2>1. /\ \A i \in 0 .. MapSize(b) - 1 :
             c.mem[c.off_mem_rsvmap + i] = b.mem[b.off_mem_rsvmap + i]
        /\ HEADER_SIZE <= c.off_mem_rsvmap
        /\ c.off_mem_rsvmap + MapSize(b) <= c.off_dt_struct
        /\ c.off_mem_rsvmap + MapSize(b) <= c.off_dt_strings
        /\ StructTop(c) <= c.off_dt_strings \/ DataSize(c) <= c.off_dt_struct
    BY <1>1, <1>3, <1>4, <1>7, <1>13 DEF M, R0, S0, G0
  <2>. QED
    BY <1>10, <1>12, <1>14, <2>1, LayoutIsSound
<1>18. SaysSame(b, c)
  BY <1>1, <1>8, <1>15, <1>16 DEF SaysSame, n, m
<1>. QED
  BY <1>1, <1>11, <1>15, <1>17, <1>18 DEF Kept, StaysSound

(* fdt_open_into, in whichever order the blocks are.                       *)
LEMMA OpenIntoKeeps ==
  ASSUME NEW b, Sound(b), b.boot_cpuid_phys \in CpuIds,
         NEW r \in fdt_open_into(b, BUF_SIZE)
  PROVE  /\ Sound(r.fdt) /\ r.fdt.boot_cpuid_phys \in CpuIds
         /\ Ordered(b) => Ordered(r.fdt)
         /\ SaysSame(b, r.fdt)
         /\ \/ r.ret = NOSPACE /\ r.fdt = b
            \/ r.ret = 0 /\ UsualOrder(r.fdt)
<1> DEFINE size == b.totalsize
           p == PackBlocks(b, size)
           mem == Memmove(p.mem, 0, size, PackedSize(b))
           Copy(id) == [p EXCEPT !.mem = mem, !.totalsize = BUF_SIZE,
                                 !.boot_cpuid_phys = id]
           longer == [b EXCEPT !.totalsize = BUF_SIZE]
<1>1. /\ size \in Nat /\ BUF_SIZE \in Nat /\ size <= BUF_SIZE
      /\ Fields \subseteq DOMAIN b
  BY NumbersAre, BufferIs
<1>2. \/ r = Result(b, NOSPACE)
      \/ ~Misordered(b, MapSize(b)) /\ r = Result(longer, 0)
      \/ /\ size + PackedSize(b) <= BUF_SIZE
         /\ \E id \in CpuIds : r = Result(Copy(id), 0)
  <2>1. r \in IF ~Misordered(b, MapSize(b))
                THEN IF size > BUF_SIZE THEN {Result(b, NOSPACE)}
                     ELSE {Result(longer, 0)}
              ELSE IF size + PackedSize(b) > BUF_SIZE THEN {Result(b, NOSPACE)}
              ELSE {Result(Copy(id), 0) : id \in CpuIds}
    BY DEF fdt_open_into
  <2>2. PackedSize(b) \in Nat
    BY NumbersAre, MapSizeIs DEF PackedSize
  <2>3. ~(size + PackedSize(b) > BUF_SIZE) => size + PackedSize(b) <= BUF_SIZE
    BY <1>1, <2>2
  <2> HIDE DEF size, Copy, longer
  <2>. QED
    BY <2>1, <2>3
<1>3. CASE r = Result(b, NOSPACE)
  BY <1>3 DEF Result, SaysSame, SameNames
<1>4. CASE ~Misordered(b, MapSize(b)) /\ r = Result(longer, 0)
  <2>1. r.fdt = longer /\ r.ret = 0
    BY <1>4 DEF Result
  <2>5. UsualOrder(b)
    <3>1. StructTop(b) \in Nat /\ b.off_dt_strings \in Nat
      BY NumbersAre
    <3>2. ~(b.off_dt_strings < StructTop(b))
      BY <1>4 DEF Misordered
    <3>. QED
      BY <3>1, <3>2 DEF UsualOrder
  <2>2. /\ SameBut(b, longer, {"mem", "totalsize"})
        /\ longer.totalsize = BUF_SIZE /\ longer.mem = b.mem
    BY <1>1 DEF SameBut, Fields
  <2> HIDE DEF longer
  <2>3. DOMAIN longer.mem = 0 .. BUF_SIZE - 1
    BY <2>2, BufferIs
  <2>4. Kept(b, longer) /\ SaysSame(b, longer)
    BY <2>2, <2>3, FrontIsSound
  <2>. QED
    BY <2>1, <2>4, <2>5 DEF Kept, StaysSound
<1>5. CASE /\ size + PackedSize(b) <= BUF_SIZE
           /\ \E id \in CpuIds : r = Result(Copy(id), 0)
  <2>1. PICK id \in CpuIds : r = Result(Copy(id), 0)
    BY <1>5
  <2> DEFINE c == Copy(id)
  <2>2. r.fdt = c /\ r.ret = 0
    BY <2>1 DEF Result
  <2>3. Packed(b, p, size) /\ DOMAIN p.mem = 0 .. BUF_SIZE - 1
    <3>1. StructTop(b) <= size + HEADER_SIZE /\ DataSize(b) <= size + HEADER_SIZE
      <4>1. /\ StructTop(b) \in Nat /\ StructTop(b) <= size /\ HEADER_SIZE \in Nat
            /\ DataSize(b) \in Nat /\ DataSize(b) <= size
        BY NumbersAre, MapSizeIs
      <4> HIDE DEF size
      <4>. QED
        BY <1>1, <4>1
    <3> HIDE DEF size
    <3>2. p = PackBlocks(b, size)
      OBVIOUS
    <3> HIDE DEF p
    <3>3. LiesIn(b, b, BUF_SIZE)
      BY LiesInItself
    <3>. QED
      BY <1>1, <1>5, <3>1, <3>2, <3>3, PackBlocksPacks
  <2>4. Fields \subseteq DOMAIN p /\ DOMAIN p.mem = 0 .. BUF_SIZE - 1
    BY <2>3 DEF Packed, SameBut
  <2>5. PackedSize(b) \in Nat
    BY NumbersAre, MapSizeIs DEF PackedSize
  <2> HIDE DEF p, size
  <2>6. MovedTo(mem, p.mem, BUF_SIZE, 0, size, PackedSize(b))
    <3> DEFINE dst == 0
    <3>1. dst \in Nat /\ dst + PackedSize(b) <= BUF_SIZE
      BY <1>1, <1>5, <2>5
    <3>2. mem = Memmove(p.mem, dst, size, PackedSize(b))
      OBVIOUS
    <3> HIDE DEF dst, mem
    <3>3. MovedTo(mem, p.mem, BUF_SIZE, dst, size, PackedSize(b))
      BY <1>1, <2>4, <2>5, <3>1, <3>2, MemmoveMoves
    <3>. QED
      BY <3>3 DEF dst
  <2> HIDE DEF mem
  <2>7. /\ c.mem = mem /\ c.totalsize = BUF_SIZE /\ c.boot_cpuid_phys = id
        /\ SameBut(p, c, {"mem", "totalsize", "boot_cpuid_phys"})
    BY <2>4 DEF SameBut, Fields
  <2> HIDE DEF c
  <2>8. \A a \in 0 .. PackedSize(b) - 1 : c.mem[a] = p.mem[size + a]
    <3>1. ASSUME NEW a \in 0 .. PackedSize(b) - 1  PROVE mem[0 + a] = p.mem[size + a]
      BY <2>6 DEF MovedTo
    <3>2. ASSUME NEW a \in 0 .. PackedSize(b) - 1  PROVE 0 + a = a
      BY <2>5
    <3>. QED
      BY <2>7, <3>1, <3>2
  <2>9. DOMAIN c.mem = 0 .. BUF_SIZE - 1
    BY <2>6, <2>7 DEF MovedTo
  <2>10. /\ c.totalsize \in Nat /\ c.totalsize <= BUF_SIZE
         /\ PackedSize(b) <= c.totalsize
    BY <1>1, <1>5, <2>5, <2>7
  <2>11. Sound(c) /\ (Ordered(b) => Ordered(c)) /\ UsualOrder(c) /\ SaysSame(b, c)
    BY <1>1, <2>3, <2>7, <2>8, <2>9, <2>10, PackedIsSound
  <2>. QED
    BY <2>2, <2>7, <2>11
<1>. QED
  BY <1>2, <1>3, <1>4, <1>5

(* fdt_open_into another buffer.                                           *)
LEMMA OpenCopyKeeps ==
  ASSUME NEW b, Sound(b), NEW r, r = fdt_open_copy(b, BUF_SIZE)
  PROVE  Kept(b, r.fdt) /\ SaysSame(b, r.fdt)
<1> DEFINE N == BUF_SIZE
           size == b.totalsize
           top == 2 * N
           far == [a \in 0 .. top - 1 |-> IF a < N THEN b.mem[a] ELSE Junk]
           both == [b EXCEPT !.mem = far]
           p == PackBlocks(both, N)
           moved == [both EXCEPT !.mem = Memmove(@, N, 0, size)]
           Second(x) == [x EXCEPT !.mem = [a \in 0 .. N - 1 |-> @[a + N]],
                                  !.totalsize = N]
<1>1. \/ r = Result(b, NOSPACE)
      \/ r = Result(Second(moved), 0)
      \/ ~(PackedSize(b) > N) /\ r = Result(Second(p), 0)
  BY DEF fdt_open_copy
<1>2. /\ N \in Nat /\ size \in Nat /\ size <= N /\ Fields \subseteq DOMAIN b
      /\ top \in Nat /\ N <= top /\ N + N = top
  <2>1. N \in Nat /\ size \in Nat /\ size <= N
    BY NumbersAre
  <2>2. Fields \subseteq DOMAIN b
    BY BufferIs
  <2> HIDE DEF N, size
  <2>3. top \in Nat /\ N <= top /\ N + N = top
    BY <2>1
  <2>. QED
    BY <2>1, <2>2, <2>3
<1>3. /\ LiesIn(b, both, top) /\ Fields \subseteq DOMAIN both /\ both.mem = far
      /\ \A f \in Fields \ {"mem"} : both[f] = b[f]
  <2>1. /\ Fields \subseteq DOMAIN both /\ both.mem = far
        /\ \A f \in Fields \ {"mem"} : both[f] = b[f]
    <3> HIDE DEF far
    <3>. QED
      BY <1>2 DEF Fields
  <2>2. SameBut(b, both, {"mem"})
    BY <2>1 DEF SameBut
  <2>3. \A a \in 0 .. N - 1 : a \in 0 .. top - 1 /\ a < N
    <3> HIDE DEF N, top
    <3>. QED
      BY <1>2
  <2>4. \A a \in 0 .. N - 1 : far[a] = b.mem[a]
    BY <2>3
  <2>5. DOMAIN far = 0 .. top - 1
    OBVIOUS
  <2> HIDE DEF far, both
  <2>. QED
    BY <1>2, <2>1, <2>2, <2>4, <2>5 DEF LiesIn
<1> HIDE DEF far, both, top
<1>4. ASSUME NEW x, Fields \subseteq DOMAIN x
      PROVE  /\ SameBut(x, Second(x), {"mem", "totalsize"})
             /\ Second(x).totalsize = N
             /\ DOMAIN Second(x).mem = 0 .. N - 1
             /\ \A a \in 0 .. N - 1 : Second(x).mem[a] = x.mem[a + N]
  <2> DEFINE half == [a \in 0 .. N - 1 |-> x.mem[a + N]]
             y == [x EXCEPT !.mem = half, !.totalsize = N]
  <2>1. Second(x) = y
    OBVIOUS
  <2>2. DOMAIN half = 0 .. N - 1 /\ \A a \in 0 .. N - 1 : half[a] = x.mem[a + N]
    OBVIOUS
  <2> HIDE DEF half
  <2>3. y.mem = half /\ y.totalsize = N /\ SameBut(x, y, {"mem", "totalsize"})
    BY <1>4 DEF SameBut, Fields
  <2> HIDE DEF y, Second
  <2>. QED
    BY <2>1, <2>2, <2>3
<1> HIDE DEF Second
<1>5. CASE r = Result(b, NOSPACE)
  <2>1. r.fdt = b
    BY <1>5 DEF Result
  <2>. QED
    BY <2>1 DEF Kept, StaysSound, SaysSame, SameNames
<1>6. CASE r = Result(Second(moved), 0)
  <2> DEFINE c == Second(moved)
             mem == Memmove(far, N, 0, size)
  <2>1. r.fdt = c
    BY <1>6 DEF Result
  <2>2. /\ Fields \subseteq DOMAIN moved /\ moved.mem = mem
        /\ \A f \in Fields \ {"mem"} : moved[f] = b[f]
    <3> HIDE DEF mem
    <3>1. moved = [both EXCEPT !.mem = mem]
      BY <1>3 DEF mem
    <3> HIDE DEF moved
    <3>. QED
      BY <1>3, <3>1 DEF Fields
  <2>3. MovedTo(mem, far, top, N, 0, size)
    <3> DEFINE src == 0
    <3>1. src \in Nat /\ N + size <= top /\ DOMAIN far = 0 .. top - 1
      BY <1>2, <1>3 DEF LiesIn
    <3>2. mem = Memmove(far, N, src, size)
      OBVIOUS
    <3> HIDE DEF src, mem, N, size
    <3>3. MovedTo(mem, far, top, N, src, size)
      BY <1>2, <3>1, <3>2, MemmoveMoves
    <3>. QED
      BY <3>3 DEF src
  <2> HIDE DEF mem, moved
  <2>4. /\ SameBut(moved, c, {"mem", "totalsize"}) /\ c.totalsize = N
        /\ DOMAIN c.mem = 0 .. N - 1
        /\ \A a \in 0 .. N - 1 : c.mem[a] = moved.mem[a + N]
    BY <1>4, <2>2
  <2> HIDE DEF c
  <2>5. ASSUME NEW a \in 0 .. size - 1  PROVE c.mem[a] = b.mem[a]
    <3>1. a \in 0 .. N - 1 /\ a + N = N + a /\ 0 + a = a
      BY <1>2
    <3>2. mem[N + a] = far[0 + a]
      BY <2>3 DEF MovedTo
    <3>3. far[a] = b.mem[a]
      BY <1>3, <3>1 DEF LiesIn
    <3>. QED
      BY <2>2, <2>4, <3>1, <3>2, <3>3
  <2>6. SameBut(b, c, {"mem", "totalsize"})
    BY <2>2, <2>4 DEF SameBut
  <2>7. Kept(b, c) /\ SaysSame(b, c)
    BY <2>4, <2>5, <2>6, FrontIsSound
  <2>. QED
    BY <2>1, <2>7
<1>7. CASE ~(PackedSize(b) > N) /\ r = Result(Second(p), 0)
  <2> DEFINE c == Second(p)
  <2>1. r.fdt = c
    BY <1>7 DEF Result
  <2>2. PackedSize(b) \in Nat /\ PackedSize(b) <= N
    <3>1. PackedSize(b) \in Nat
      BY NumbersAre, MapSizeIs DEF PackedSize
    <3>. QED
      BY <1>2, <1>7, <3>1
  <2>3. Packed(b, p, N) /\ DOMAIN p.mem = 0 .. top - 1
    <3>1. StructTop(b) <= N + HEADER_SIZE /\ DataSize(b) <= N + HEADER_SIZE
      <4>1. /\ StructTop(b) \in Nat /\ StructTop(b) <= size /\ HEADER_SIZE \in Nat
            /\ DataSize(b) \in Nat /\ DataSize(b) <= size
        BY NumbersAre, MapSizeIs
      <4> HIDE DEF size, N
      <4>. QED
        BY <1>2, <4>1
    <3>2. N + PackedSize(b) <= top
      BY <1>2, <2>2
    <3>3. p = PackBlocks(both, N)
      OBVIOUS
    <3> HIDE DEF p, N
    <3>. QED
      BY <1>2, <1>3, <3>1, <3>2, <3>3, PackBlocksPacks
  <2>4. Fields \subseteq DOMAIN p
    BY <2>3 DEF Packed, SameBut
  <2> HIDE DEF p
  <2>5. /\ SameBut(p, c, {"mem", "totalsize"}) /\ c.totalsize = N
        /\ DOMAIN c.mem = 0 .. N - 1
        /\ \A a \in 0 .. N - 1 : c.mem[a] = p.mem[a + N]
    BY <1>4, <2>4
  <2> HIDE DEF c
  <2>6. \A a \in 0 .. PackedSize(b) - 1 : c.mem[a] = p.mem[N + a]
    <3>1. \A a \in 0 .. PackedSize(b) - 1 : a \in 0 .. N - 1 /\ a + N = N + a
      BY <1>2, <2>2
    <3>. QED
      BY <2>5, <3>1
  <2>7. SameBut(p, c, {"mem", "totalsize", "boot_cpuid_phys"})
    BY <2>5 DEF SameBut
  <2>8. c.boot_cpuid_phys = b.boot_cpuid_phys
    BY <2>3, <2>5 DEF Packed, SameBut, Fields
  <2>9. c.totalsize \in Nat /\ c.totalsize <= BUF_SIZE /\ PackedSize(b) <= c.totalsize
    BY <1>2, <2>2, <2>5
  <2>10. Sound(c) /\ (Ordered(b) => Ordered(c)) /\ UsualOrder(c) /\ SaysSame(b, c)
    BY <1>2, <2>3, <2>5, <2>6, <2>7, <2>9, PackedIsSound
  <2>. QED
    BY <2>1, <2>8, <2>10 DEF Kept, StaysSound, SaysSame
<1>. QED
  BY <1>1, <1>5, <1>6, <1>7

-----------------------------------------------------------------------------
(* The paths a reader finds.                                               *)

(* The structure blocks say the same in front of q.                        *)
SameTo(b, c, q) == \A i \in 0 .. q - 1 : Struct(c, i) = Struct(b, i)

(* The tags a reader comes by are further and further on, and it knows     *)
(* what it should.                                                         *)
LEMMA ReaderGoesOn ==
  ASSUME NEW b, HasStruct(b), NEW n, NEW p, NEW g, IsReader(b, n, p, g)
  PROVE  /\ n \in Nat /\ \A i \in 0 .. n : p[i] \in Nat /\ p[i] \in Tags(b)
         /\ \A i \in 0 .. n - 1 :
              /\ i \in 0 .. n /\ i + 1 \in 0 .. n
              /\ TagOf(b, p[i]) # "END" /\ p[i + 1] = Following(b, p[i])
              /\ p[i] < p[i + 1]
              /\ \A t \in Tags(b) : t > p[i] => t >= p[i + 1]
              /\ Reads(b, g[i], p[i], g[i + 1])
<1>1. n \in Nat /\ \A i \in 0 .. n : p[i] \in Nat /\ p[i] \in Tags(b)
  BY DEF IsReader, Tags
<1>2. ASSUME NEW i \in 0 .. n - 1
      PROVE  /\ i \in 0 .. n /\ i + 1 \in 0 .. n
             /\ TagOf(b, p[i]) # "END" /\ p[i + 1] = Following(b, p[i])
             /\ g[i + 1] = Read(b, g[i], p[i])
  <2>1. i \in 0 .. n /\ i + 1 \in 0 .. n
    BY <1>1
  <2>. QED
    BY <2>1 DEF IsReader
<1>3. ASSUME NEW i \in 0 .. n - 1
      PROVE  p[i] < p[i + 1] /\ \A t \in Tags(b) : t > p[i] => t >= p[i + 1]
  <2>1. p[i] \in Tags(b) /\ TagOf(b, p[i]) # "END" /\ p[i + 1] = Following(b, p[i])
    BY <1>1, <1>2
  <2> DEFINE o == p[i]
  <2> HIDE DEF o
  <2>2. o \in Tags(b) /\ TagOf(b, o) # "END" /\ p[i + 1] = Following(b, o)
    BY <2>1 DEF o
  <2>3. Following(b, o) > o /\ \A t \in Tags(b) : t > o => t >= Following(b, o)
    BY <2>2, FollowingIs
  <2>4. p[i + 1] > o /\ \A t \in Tags(b) : t > o => t >= p[i + 1]
    BY <2>2, <2>3
  <2>5. o \in Nat /\ p[i + 1] \in Nat
    BY <1>1, <1>2 DEF o
  <2>. QED
    BY <2>4, <2>5 DEF o
<1> DEFINE T == {i \in 0 .. n : Known \subseteq DOMAIN g[i]}
<1>4. 0 \in T
  <2>1. DOMAIN Blank = Known
    BY DEF Blank, Known
  <2>2. g[0] = Blank
    BY DEF IsReader
  <2>3. 0 \in 0 .. n
    BY <1>1
  <2>. QED
    BY <2>1, <2>2, <2>3
<1>5. ASSUME NEW i \in 0 .. n - 1, Known \subseteq DOMAIN g[i]
      PROVE  Reads(b, g[i], p[i], g[i + 1])
  <2> DEFINE c == g[i]
             r == g[i + 1]
             o == p[i]
  <2>1. r = Read(b, c, o) /\ Known \subseteq DOMAIN c
    BY <1>2, <1>5
  <2> HIDE DEF c, r, o
  <2>2. Reads(b, c, o, r)
    BY <2>1, ReadIs
  <2>. QED
    BY <2>2 DEF c, r, o
<1>6. ASSUME NEW i \in 0 .. n - 1, i \in T  PROVE i + 1 \in T
  BY <1>2, <1>5, <1>6 DEF Reads
<1>7. \A i \in 0 .. n : Known \subseteq DOMAIN g[i]
  <2> HIDE DEF T
  <2>1. 0 .. n \subseteq T
    BY <1>1, <1>4, <1>6, UpTo
  <2>. QED
    BY <2>1 DEF T
<1>. QED
  BY <1>1, <1>2, <1>3, <1>5, <1>7

(* How the tag it is at changes the path that is open.                     *)
LEMMA PathGoesOn ==
  ASSUME NEW b, NEW c, NEW o, NEW r, HasStruct(b), o \in Tags(b), Reads(b, c, o, r)
  PROVE  /\ TagOf(b, o) = "BEGIN_NODE" =>
              /\ r.path = Append(c.path, NodeName(b, o))
              /\ r.at = Put(c.at, o, r.path)
         /\ TagOf(b, o) = "END_NODE" => r.path = Front(c.path)
         /\ TagOf(b, o) # "BEGIN_NODE" => r.at = c.at
         /\ TagOf(b, o) \notin {"BEGIN_NODE", "END_NODE"} => r.path = c.path
<1>1. NextTag(b, o).tag = TagOf(b, o)
  BY NextTagIs
<1>. QED
  BY <1>1 DEF Reads
(* The path of a node is the one that is open at its tag, and its name.    *)
LEMMA NodePathIs ==
  ASSUME NEW b, HasStruct(b), NEW n, NEW p, NEW g, IsReader(b, n, p, g),
         NEW v, v = g[n], NEW i \in 0 .. n, TagOf(b, p[i]) = "BEGIN_NODE"
  PROVE  p[i] \in DOMAIN v.at /\ At(v, p[i]) = Append(g[i].path, NodeName(b, p[i]))
<1> DEFINE o == p[i]
           path == Append(g[i].path, NodeName(b, o))
           T == {j \in 0 .. n :
                   i < j => o \in DOMAIN g[j].at /\ g[j].at[o] = path}
<1>1. /\ n \in Nat /\ o \in Tags(b) /\ p[i] = o
      /\ \A j \in 0 .. n : p[j] \in Tags(b)
      /\ \A j \in 0 .. n - 1 : /\ j \in 0 .. n /\ j + 1 \in 0 .. n
                               /\ Reads(b, g[j], p[j], g[j + 1])
  BY ReaderGoesOn
<1>2. i # n
  BY DEF IsReader
<1>3. 0 \in T
  BY <1>1
<1>4. ASSUME NEW j \in 0 .. n - 1, j \in T  PROVE j + 1 \in T
  <2>1. j + 1 \in 0 .. n /\ j \in 0 .. n /\ (i < j + 1 => i = j \/ i < j)
    BY <1>1
  <2> DEFINE c == g[j]
             r == g[j + 1]
             q == p[j]
  <2>2. /\ q \in Tags(b)
        /\ TagOf(b, q) = "BEGIN_NODE" =>
             /\ r.path = Append(c.path, NodeName(b, q))
             /\ r.at = Put(c.at, q, r.path)
        /\ TagOf(b, q) # "BEGIN_NODE" => r.at = c.at
    <3>1. Reads(b, c, q, r) /\ q \in Tags(b)
      BY <1>1
    <3> HIDE DEF c, r, q
    <3>. QED
      BY <3>1, PathGoesOn
  <2>3. CASE i = j
    <3>1. o = q /\ TagOf(b, q) = "BEGIN_NODE" /\ r.path = path
      BY <2>2, <2>3
    <3> HIDE DEF c, r, q, o, path
    <3>2. o \in DOMAIN r.at /\ r.at[o] = path
      BY <2>2, <3>1 DEF Put
    <3>. QED
      BY <2>1, <3>2 DEF r
  <2>4. CASE i < j
    <3>1. o \in DOMAIN c.at /\ c.at[o] = path
      BY <1>4, <2>4
    <3>2. q # o
      BY <1>1, <2>1, <2>4, EachIsRead
    <3> HIDE DEF c, r, q, o, path
    <3>3. o \in DOMAIN r.at /\ r.at[o] = path
      BY <2>2, <3>1, <3>2 DEF Put
    <3>. QED
      BY <2>1, <3>3 DEF r
  <2>5. CASE ~(i < j + 1)
    BY <2>1, <2>5
  <2>. QED
    BY <2>1, <2>3, <2>4, <2>5
<1>5. n \in T
  <2> HIDE DEF T
  <2>1. 0 .. n \subseteq T
    BY <1>1, <1>3, <1>4, UpTo
  <2>2. n \in 0 .. n
    BY <1>1
  <2>. QED
    BY <2>1, <2>2
<1>6. i < n
  BY <1>1, <1>2
<1>. QED
  BY <1>5, <1>6 DEF At

(* A tag that the blocks have in common.                                   *)
LEMMA CommonTag ==
  ASSUME NEW b, HasStruct(b), NEW c, HasStruct(c), NEW o \in Tags(b),
         SameTo(b, c, Following(b, o))
  PROVE  /\ TagOf(c, o) = TagOf(b, o)
         /\ c.size_dt_strings >= b.size_dt_strings => Following(c, o) = Following(b, o)
         /\ TagOf(b, o) = "BEGIN_NODE" => NodeName(c, o) = NodeName(b, o)
<1> DEFINE next == Following(b, o)
<1>1. /\ o \in Nat /\ IsMultiple(o) /\ next \in Nat
      /\ LengthAt(b, o) \in Nat /\ LengthAt(b, o) >= FDT_TAGSIZE
      /\ o + LengthAt(b, o) <= next
  BY TagAt
<1>2. /\ FDT_TAGSIZE \in Nat /\ FDT_TAGSIZE > 0 /\ IsMultiple(0)
  BY TagSizeIs, Multiples
<1>3. \A i \in 0 .. next - 1 : Struct(c, i) = Struct(b, i)
  BY DEF SameTo
<1> HIDE DEF next
<1>4. o \in 0 .. next - 1
  BY <1>1, <1>2
<1>5. TagOf(c, o) = TagOf(b, o)
  BY <1>3, <1>4 DEF TagOf
<1>6. ASSUME TagOf(b, o) = "BEGIN_NODE"  PROVE NodeName(c, o) = NodeName(b, o)
  <2>1. LengthAt(b, o) = FDT_TAGSIZE + NodeLength[NodeName(b, o)] + 1
    BY <1>6 DEF LengthAt, TagLength
  <2>2. NodeName(b, o) \in NodeNames
    <3>1. TagIsSound(b, o)
      BY DEF HasStruct, StructIsSound
    <3>. QED
      BY <1>6, <3>1 DEF TagIsSound, TagOf
  <2>3. NodeLength[NodeName(b, o)] \in Nat
    BY <2>2, NamesAssumption
  <2> DEFINE len == NodeLength[NodeName(b, o)]
             all == LengthAt(b, o)
  <2>4. len \in Nat /\ all = FDT_TAGSIZE + len + 1 /\ o + all <= next
    BY <1>1, <2>1, <2>3
  <2> HIDE DEF len, all
  <2>5. o + FDT_TAGSIZE \in 0 .. next - 1
    BY <1>1, <1>2, <2>4
  <2>. QED
    BY <1>3, <2>5 DEF NodeName
<1>7. ASSUME c.size_dt_strings >= b.size_dt_strings
      PROVE  Following(c, o) = Following(b, o)
  <2> DEFINE zero == 0
  <2>1. /\ zero \in Int /\ o + zero = o /\ next + zero = next /\ IsMultiple(zero)
    BY <1>1, <1>2
  <2>2. \A i \in o .. next - 1 : i \in 0 .. next - 1 /\ i + zero = i
    BY <1>1
  <2>3. c.size_dt_strings \in Nat
    BY DEF HasStruct
  <2> HIDE DEF zero
  <2>4. \A i \in o .. Following(b, o) - 1 : Struct(c, i + zero) = Struct(b, i)
    BY <1>3, <2>2 DEF next
  <2>5. Following(c, o + zero) = Following(b, o) + zero
    BY <1>7, <2>1, <2>3, <2>4, TagMoves
  <2>. QED
    BY <2>1, <2>5 DEF next
<1>. QED
  BY <1>5, <1>6, <1>7

(* What it comes by later is further on.                                   *)
LEMMA ReaderRises ==
  ASSUME NEW b, HasStruct(b), NEW n, NEW p, NEW g, IsReader(b, n, p, g)
  PROVE  \A i, j \in 0 .. n : p[i] < p[j] <=> i < j
<1>1. /\ n \in Nat /\ \A i \in 0 .. n : p[i] \in Nat
      /\ \A i \in 0 .. n - 1 : i \in 0 .. n /\ i + 1 \in 0 .. n /\ p[i] < p[i + 1]
  BY ReaderGoesOn
<1> DEFINE T == {j \in 0 .. n : \A i \in 0 .. n : i < j => p[i] < p[j]}
<1>2. 0 \in T
  BY <1>1
<1>3. ASSUME NEW j \in 0 .. n - 1, j \in T  PROVE j + 1 \in T
  <2>1. ASSUME NEW i \in 0 .. n, i < j + 1  PROVE p[i] < p[j + 1]
    <3>1. i = j \/ i < j
      BY <1>1, <2>1
    <3>2. CASE i = j
      BY <1>1, <3>2
    <3>3. CASE i < j
      <4>1. p[i] < p[j] /\ p[j] < p[j + 1]
        BY <1>1, <1>3, <3>3
      <4>2. p[i] \in Nat /\ p[j] \in Nat /\ p[j + 1] \in Nat
        BY <1>1
      <4>. QED
        BY <4>1, <4>2
    <3>. QED
      BY <3>1, <3>2, <3>3
  <2>2. j + 1 \in 0 .. n
    BY <1>1
  <2>. QED
    BY <2>1, <2>2
<1>4. 0 .. n \subseteq T
  <2> HIDE DEF T
  <2>. QED
    BY <1>1, <1>2, <1>3, UpTo
<1>5. \A i, j \in 0 .. n : i < j => p[i] < p[j]
  BY <1>4
<1>6. ASSUME NEW i \in 0 .. n, NEW j \in 0 .. n, p[i] < p[j]  PROVE i < j
  <2>1. CASE i = j
    BY <1>1, <1>6, <2>1
  <2>2. CASE j < i
    <3>1. p[j] < p[i] /\ p[i] \in Nat /\ p[j] \in Nat
      BY <1>1, <1>5, <2>2
    <3>. QED
      BY <1>6, <3>1
  <2>. QED
    BY <1>1, <2>1, <2>2
<1>. QED
  BY <1>5, <1>6

(* Two readers come the same way as long as the blocks say the same.       *)
LEMMA FrontIsRead ==
  ASSUME NEW b, HasStruct(b), NEW n, NEW p, NEW g, IsReader(b, n, p, g),
         NEW c, HasStruct(c), NEW m, NEW q, NEW h, IsReader(c, m, q, h),
         c.size_dt_strings >= b.size_dt_strings,
         NEW k \in 0 .. n, SameTo(b, c, p[k])
  PROVE  k \in 0 .. m /\ q[k] = p[k] /\ h[k].path = g[k].path
<1> DEFINE Same(i) == i \in 0 .. m /\ q[i] = p[i] /\ h[i].path = g[i].path
           T == {i \in 0 .. k : Same(i)}
<1>1. /\ n \in Nat /\ m \in Nat /\ k \in Nat
      /\ \A i \in 0 .. n : p[i] \in Nat /\ p[i] \in Tags(b)
      /\ \A i \in 0 .. k - 1 : i \in 0 .. n - 1 /\ i \in 0 .. n /\ i < k
  BY ReaderGoesOn
<1>2. Same(0)
  <2>1. p[0] = q[0] /\ g[0] = Blank /\ h[0] = Blank
    BY DEF IsReader
  <2>2. 0 \in 0 .. m
    BY <1>1
  <2>. QED
    BY <2>1, <2>2
<1>3. ASSUME NEW i \in 0 .. k - 1, Same(i)  PROVE Same(i + 1)
  <2> DEFINE o == p[i]
             next == p[i + 1]
             cb == g[i]
             rb == g[i + 1]
             cc == h[i]
             rc == h[i + 1]
  <2>1. /\ o \in Tags(b) /\ TagOf(b, o) # "END" /\ next = Following(b, o)
        /\ Reads(b, cb, o, rb) /\ \A t \in Tags(b) : t > o => t >= next
    BY <1>1, ReaderGoesOn
  <2>2. p[k] \in Tags(b) /\ p[k] > o /\ p[k] \in Nat /\ o \in Nat
    BY <1>1, ReaderRises
  <2>3. SameTo(b, c, next)
    <3>1. next <= p[k] /\ next \in Nat
      BY <1>1, <2>1, <2>2, TagAt
    <3>2. 0 .. next - 1 \subseteq 0 .. p[k] - 1
      BY <2>2, <3>1
    <3> HIDE DEF next
    <3>. QED
      BY <3>2 DEF SameTo
  <2>4. /\ TagOf(c, o) = TagOf(b, o) /\ Following(c, o) = next
        /\ TagOf(b, o) = "BEGIN_NODE" => NodeName(c, o) = NodeName(b, o)
    <3> HIDE DEF o, next
    <3>1. SameTo(b, c, Following(b, o))
      BY <2>1, <2>3
    <3>. QED
      BY <2>1, <3>1, CommonTag
  <2>5. i \in 0 .. m /\ q[i] = o /\ cc.path = cb.path
    BY <1>3
  <2>6. i # m
    BY <2>1, <2>4, <2>5 DEF IsReader
  <2>7. i \in 0 .. m - 1
    BY <1>1, <2>5, <2>6
  <2>8. /\ o \in Tags(c) /\ i + 1 \in 0 .. m
        /\ q[i + 1] = next /\ Reads(c, cc, o, rc)
    <3>1. /\ q[i] \in Tags(c) /\ i + 1 \in 0 .. m
          /\ q[i + 1] = Following(c, q[i]) /\ Reads(c, h[i], q[i], h[i + 1])
      BY <2>5, <2>7, ReaderGoesOn
    <3>. QED
      BY <2>4, <2>5, <3>1
  <2> HIDE DEF o, next, cb, rb, cc, rc
  <2>9. rc.path = rb.path
    <3>1. /\ TagOf(b, o) = "BEGIN_NODE" => rb.path = Append(cb.path, NodeName(b, o))
          /\ TagOf(b, o) = "END_NODE" => rb.path = Front(cb.path)
          /\ TagOf(b, o) \notin {"BEGIN_NODE", "END_NODE"} => rb.path = cb.path
      BY <2>1, PathGoesOn
    <3>2. /\ TagOf(c, o) = "BEGIN_NODE" => rc.path = Append(cc.path, NodeName(c, o))
          /\ TagOf(c, o) = "END_NODE" => rc.path = Front(cc.path)
          /\ TagOf(c, o) \notin {"BEGIN_NODE", "END_NODE"} => rc.path = cc.path
      BY <2>8, PathGoesOn
    <3>. QED
      BY <2>4, <2>5, <3>1, <3>2
  <2>. QED
    BY <2>8, <2>9 DEF next, rb, rc
<1>4. k \in T
  <2> HIDE DEF Same
  <2>1. 0 \in T /\ \A i \in 0 .. k - 1 : i \in T => i + 1 \in T
    BY <1>1, <1>2, <1>3
  <2> HIDE DEF T
  <2>2. 0 .. k \subseteq T
    BY <1>1, <2>1, UpTo
  <2>. QED
    BY <1>1, <2>2
<1>. QED
  BY <1>4

(* A node that begins where the blocks still say the same is the same.     *)
LEMMA NodeIsKept ==
  ASSUME NEW b, HasStruct(b), NEW c, HasStruct(c),
         c.size_dt_strings >= b.size_dt_strings,
         NEW o \in Tags(b), TagOf(b, o) = "BEGIN_NODE", SameTo(b, c, Following(b, o))
  PROVE  /\ o \in Tags(c) /\ TagOf(c, o) = "BEGIN_NODE"
         /\ At(Contents(c), o) = At(Contents(b), o)
<1>1. PICK n, p, g : IsReader(b, n, p, g) /\ Contents(b) = g[n]
  BY ContentsAreRead
<1>2. PICK m, q, h : IsReader(c, m, q, h) /\ Contents(c) = h[m]
  BY ContentsAreRead
<1>3. PICK k \in 0 .. n : p[k] = o
  BY <1>1, EachIsRead
<1>4. SameTo(b, c, p[k])
  <2>1. Following(b, o) > o /\ Following(b, o) \in Nat /\ o \in Nat
    BY FollowingIs, TagAt
  <2>2. 0 .. o - 1 \subseteq 0 .. Following(b, o) - 1
    BY <2>1
  <2>. QED
    BY <1>3, <2>2 DEF SameTo
<1>5. k \in 0 .. m /\ q[k] = o /\ h[k].path = g[k].path
  BY <1>1, <1>2, <1>3, <1>4, FrontIsRead
<1>6. TagOf(c, o) = "BEGIN_NODE" /\ NodeName(c, o) = NodeName(b, o)
  BY CommonTag
<1>7. o \in Tags(c)
  BY <1>2, <1>5, ReaderGoesOn
<1>8. At(Contents(b), o) = Append(g[k].path, NodeName(b, o))
  <2> DEFINE v == Contents(b)
  <2>1. v = g[n] /\ TagOf(b, p[k]) = "BEGIN_NODE"
    BY <1>1, <1>3
  <2> HIDE DEF v
  <2>2. At(v, p[k]) = Append(g[k].path, NodeName(b, p[k]))
    BY <1>1, <2>1, NodePathIs
  <2>. QED
    BY <1>3, <2>2 DEF v
<1>9. At(Contents(c), o) = Append(h[k].path, NodeName(c, o))
  <2> DEFINE v == Contents(c)
  <2>1. v = h[m] /\ TagOf(c, q[k]) = "BEGIN_NODE" /\ k \in 0 .. m
    BY <1>2, <1>5, <1>6
  <2> HIDE DEF v
  <2>2. At(v, q[k]) = Append(h[k].path, NodeName(c, q[k]))
    BY <1>2, <2>1, NodePathIs
  <2>. QED
    BY <1>5, <2>2 DEF v
<1>. QED
  BY <1>5, <1>6, <1>7, <1>8, <1>9

(* A node that begins where nothing but properties is behind the beginning *)
(* of another is one in that.                                              *)
LEMMA NewNodeIs ==
  ASSUME NEW b, HasStruct(b), NEW c, HasStruct(c),
         c.size_dt_strings >= b.size_dt_strings,
         NEW parent \in Tags(b), TagOf(b, parent) = "BEGIN_NODE",
         NEW place \in Tags(b), parent < place,
         \A t \in Tags(b) : parent < t /\ t < place => TagOf(b, t) \in {"PROP", "NOP"},
         SameTo(b, c, place), TagOf(c, place) = "BEGIN_NODE"
  PROVE  /\ place \in Tags(c)
         /\ At(Contents(c), place)
              = Append(At(Contents(b), parent), NodeName(c, place))
<1>1. PICK n, p, g : IsReader(b, n, p, g) /\ Contents(b) = g[n]
  BY ContentsAreRead
<1>2. PICK m, q, h : IsReader(c, m, q, h) /\ Contents(c) = h[m]
  BY ContentsAreRead
<1>3. PICK i \in 0 .. n, k \in 0 .. n : p[i] = parent /\ p[k] = place
  BY <1>1, EachIsRead
<1>4. i < k /\ n \in Nat /\ i \in Nat /\ k \in Nat
  <2>1. n \in Nat
    BY <1>1 DEF IsReader
  <2>. QED
    BY <1>1, <1>3, <2>1, ReaderRises
<1>5. k \in 0 .. m /\ q[k] = place /\ h[k].path = g[k].path
  BY <1>1, <1>2, <1>3, FrontIsRead
<1> DEFINE path == At(Contents(b), parent)
           T == {j \in 0 .. k : i < j => g[j].path = path}
<1>6. path = Append(g[i].path, NodeName(b, parent))
  <2> DEFINE v == Contents(b)
  <2>1. v = g[n] /\ TagOf(b, p[i]) = "BEGIN_NODE"
    BY <1>1, <1>3
  <2> HIDE DEF v
  <2>2. At(v, p[i]) = Append(g[i].path, NodeName(b, p[i]))
    BY <1>1, <2>1, NodePathIs
  <2>. QED
    BY <1>3, <2>2 DEF v
<1> HIDE DEF path
<1>7. 0 \in T
  BY <1>4
<1>8. ASSUME NEW j \in 0 .. k - 1, j \in T  PROVE j + 1 \in T
  <2>1. j \in 0 .. n - 1 /\ j \in 0 .. n /\ j + 1 \in 0 .. k /\ j < k
    BY <1>3, <1>4
  <2> DEFINE o == p[j]
             x == g[j]
             r == g[j + 1]
  <2>2. o \in Tags(b) /\ Reads(b, x, o, r)
    BY <1>1, <2>1, ReaderGoesOn
  <2>3. o < place /\ (i < j => parent < o)
    BY <1>1, <1>3, <2>1, ReaderRises
  <2>4. CASE i < j
    <3>1. TagOf(b, o) \in {"PROP", "NOP"}
      BY <2>2, <2>3, <2>4
    <3>2. TagOf(b, o) \notin {"BEGIN_NODE", "END_NODE"}
      BY <3>1
    <3>3. x.path = path
      BY <1>8, <2>4
    <3> HIDE DEF o, x, r
    <3>4. r.path = path
      BY <2>2, <3>2, <3>3, PathGoesOn
    <3>. QED
      BY <2>1, <3>4 DEF r
  <2>5. CASE i = j
    <3>1. o = parent /\ x = g[i]
      BY <1>3, <2>5
    <3> HIDE DEF o, x, r
    <3>2. r.path = Append(x.path, NodeName(b, o))
      BY <2>2, <3>1, PathGoesOn
    <3>3. r.path = path
      BY <1>6, <3>1, <3>2
    <3>. QED
      BY <2>1, <3>3 DEF r
  <2>6. CASE ~(i < j + 1)
    BY <2>1, <2>6
  <2>7. i < j \/ i = j \/ ~(i < j + 1)
    BY <1>4, <2>1
  <2>. QED
    BY <2>4, <2>5, <2>6, <2>7
<1>9. g[k].path = path
  <2> HIDE DEF T
  <2>1. 0 .. k \subseteq T
    BY <1>4, <1>7, <1>8, UpTo
  <2>2. k \in T
    BY <1>4, <2>1
  <2>. QED
    BY <1>4, <2>2 DEF T
<1>10. At(Contents(c), place) = Append(h[k].path, NodeName(c, place))
  <2> DEFINE v == Contents(c)
  <2>1. v = h[m] /\ TagOf(c, q[k]) = "BEGIN_NODE" /\ k \in 0 .. m
    BY <1>2, <1>5
  <2> HIDE DEF v
  <2>2. At(v, q[k]) = Append(h[k].path, NodeName(c, q[k]))
    BY <1>2, <2>1, NodePathIs
  <2>. QED
    BY <1>5, <2>2 DEF v
<1>11. place \in Tags(c)
  BY <1>2, <1>5, ReaderGoesOn
<1>. QED
  BY <1>5, <1>9, <1>10, <1>11 DEF path
-----------------------------------------------------------------------------
(* What is in front of an edit.                                            *)

(* As many strings, or more, and the same structure in front of q.         *)
Unmoved(b, c, q) == c.size_dt_strings >= b.size_dt_strings /\ SameTo(b, c, q)

(* The same cells in front of address top.                                 *)
SameBelow(b, c, top) ==
  /\ Fields \subseteq DOMAIN c /\ c.off_dt_struct = b.off_dt_struct
  /\ c.size_dt_strings \in Nat /\ c.size_dt_strings >= b.size_dt_strings
  /\ \A a \in 0 .. top - 1 : a \in DOMAIN c.mem /\ c.mem[a] = b.mem[a]

(* Cells written from top on.                                              *)
LEMMA PokeStays ==
  ASSUME NEW b, NEW c, NEW top \in Nat, SameBelow(b, c, top),
         NEW address \in Nat, address >= top, NEW cells, Len(cells) \in Nat,
         NEW w, w = Poke(c, address, cells)
  PROVE  SameBelow(b, w, top)
<1>1. /\ SameBut(c, w, {"mem"})
      /\ DOMAIN w.mem = Span(address, Len(cells)) \cup DOMAIN c.mem
      /\ \A a \in DOMAIN c.mem \ Span(address, Len(cells)) : w.mem[a] = c.mem[a]
  BY PokedIs DEF SameBelow
<1>2. /\ Fields \subseteq DOMAIN w /\ w.off_dt_struct = c.off_dt_struct
      /\ w.size_dt_strings = c.size_dt_strings
  BY <1>1, SameFields
<1>3. ASSUME NEW a \in 0 .. top - 1  PROVE a \in DOMAIN w.mem /\ w.mem[a] = b.mem[a]
  <2>1. a \notin Span(address, Len(cells))
    BY DEF Span
  <2>2. a \in DOMAIN c.mem /\ c.mem[a] = b.mem[a]
    BY DEF SameBelow
  <2>. QED
    BY <1>1, <2>1, <2>2
<1>. QED
  BY <1>2, <1>3 DEF SameBelow

(* An edit of the structure block.                                         *)
LEMMA SpliceStays ==
  ASSUME NEW b, Sound(b), ~Misordered(b, RsvSize),
         NEW offset \in Nat, NEW old \in Nat, NEW new \in Nat,
         offset + old <= b.size_dt_struct,
         NEW r, r = SpliceStruct(b, offset, old, new)
  PROVE  /\ r.ret = 0 \/ (r.ret = NOSPACE /\ r.fdt = b)
         /\ SameBelow(b, r.fdt, b.off_dt_struct + offset)
<1> DEFINE p == b.off_dt_struct + offset
           c == r.fdt
<1>1. \/ r.ret = NOSPACE /\ c = b
      \/ r.ret = 0 /\ Fitted(b, c, p, old, new)
  BY SpliceStructIs
<1>2. /\ b.off_dt_struct \in Nat /\ b.size_dt_struct \in Nat /\ BUF_SIZE \in Nat
      /\ b.size_dt_strings \in Nat
      /\ b.off_dt_struct + b.size_dt_struct <= BUF_SIZE
      /\ Fields \subseteq DOMAIN b /\ DOMAIN b.mem = 0 .. BUF_SIZE - 1
  <2>1. StructTop(b) <= BUF_SIZE
    BY NumbersAre
  <2>. QED
    BY <2>1, NumbersAre, BufferIs
<1>3. p \in Nat /\ p <= BUF_SIZE
  BY <1>2
<1> HIDE DEF p, c
<1>7. BUF_SIZE \in Nat
  BY <1>2
<1>4. 0 .. p - 1 \subseteq 0 .. BUF_SIZE - 1
  BY <1>3, <1>7
<1>5. ASSUME c = b  PROVE SameBelow(b, c, p)
  <2>1. b.size_dt_strings >= b.size_dt_strings
    BY <1>2
  <2>. QED
    BY <1>2, <1>4, <1>5, <2>1 DEF SameBelow
<1>6. ASSUME Fitted(b, c, p, old, new)  PROVE SameBelow(b, c, p)
  <2>1. Reshaped(b, c, p, old, new)
    BY <1>6 DEF Fitted
  <2>2. /\ Fields \subseteq DOMAIN c /\ c.off_dt_struct = b.off_dt_struct
        /\ c.size_dt_strings = b.size_dt_strings
    BY <2>1, SameFields DEF Reshaped
  <2>3. \A a \in 0 .. p - 1 : a \in DOMAIN c.mem /\ c.mem[a] = b.mem[a]
    BY <1>4, <2>1 DEF Reshaped
  <2>5. b.size_dt_strings \in Nat
    BY <1>2
  <2>4. c.size_dt_strings \in Nat /\ c.size_dt_strings >= b.size_dt_strings
    BY <2>2, <2>5
  <2>. QED
    BY <2>2, <2>3, <2>4 DEF SameBelow
<1>. QED
  BY <1>1, <1>5, <1>6 DEF p, c

(* What the structure says in front of the address.                        *)
LEMMA BelowIsUnmoved ==
  ASSUME NEW b, b.off_dt_struct \in Nat, NEW c, NEW q \in Nat,
         SameBelow(b, c, b.off_dt_struct + q)
  PROVE  Unmoved(b, c, q)
<1> DEFINE base == b.off_dt_struct
           top == base + q
<1>1. base \in Nat /\ top \in Nat /\ base + q <= top
  OBVIOUS
<1>2. \A a \in 0 .. top - 1 : c.mem[a] = b.mem[a]
  BY DEF SameBelow
<1> HIDE DEF base, top
<1>3. \A i \in 0 .. q - 1 : base + i \in 0 .. top - 1
  BY <1>1, Within
<1>4. c.off_dt_struct = base /\ c.size_dt_strings >= b.size_dt_strings
  BY DEF SameBelow, base
<1>5. \A i \in 0 .. q - 1 : c.mem[base + i] = b.mem[base + i]
  BY <1>2, <1>3
<1>. QED
  BY <1>4, <1>5 DEF Unmoved, SameTo, Struct, base

(* What is so to one offset is so to one in front of it.                   *)
LEMMA UnmovedLess ==
  ASSUME NEW b, NEW c, NEW q \in Int, Unmoved(b, c, q), NEW p \in Int, p <= q
  PROVE  Unmoved(b, c, p)
<1>1. 0 .. p - 1 \subseteq 0 .. q - 1
  OBVIOUS
<1>. QED
  BY <1>1 DEF Unmoved, SameTo

(* One edit after another.                                                 *)
LEMMA UnmovedTwice ==
  ASSUME NEW b, NEW c, NEW d, NEW q, Unmoved(b, c, q), Unmoved(c, d, q),
         b.size_dt_strings \in Nat, c.size_dt_strings \in Nat, d.size_dt_strings \in Nat
  PROVE  Unmoved(b, d, q)
BY DEF Unmoved, SameTo

(* The nodes up to this one begin where they did.                          *)
NodesStay(b, c, node) ==
  \A o \in Tags(b) : TagOf(b, o) = "BEGIN_NODE" /\ o <= node =>
    Unmoved(b, c, Following(b, o))

(* An edit behind the tag of a node.                                       *)
LEMMA UnmovedNodesStay ==
  ASSUME NEW b, HasStruct(b), NEW c, NEW node \in Tags(b), TagOf(b, node) # "END",
         Unmoved(b, c, Following(b, node))
  PROVE  NodesStay(b, c, node)
<1>1. SUFFICES ASSUME NEW o \in Tags(b), TagOf(b, o) = "BEGIN_NODE", o <= node
               PROVE  Unmoved(b, c, Following(b, o))
  BY DEF NodesStay
<1> DEFINE p == Following(b, o)
           q == Following(b, node)
<1>2. /\ o \in Nat /\ node \in Nat /\ p \in Nat /\ q \in Nat /\ q > node
      /\ \A t \in Tags(b) : t > o => t >= p
  BY <1>1, FollowingIs, TagAt
<1>3. p <= q
  <2>1. CASE o = node
    BY <1>2, <2>1
  <2>2. CASE o < node
    <3>1. node >= p
      BY <1>2, <2>2
    <3>. QED
      BY <1>2, <3>1
  <2>. QED
    BY <1>1, <1>2, <2>1, <2>2
<1> HIDE DEF p, q
<1>. QED
  BY <1>2, <1>3, UnmovedLess DEF p, q

(* Nothing is edited.                                                      *)
LEMMA AllStay ==
  ASSUME NEW b, Sound(b), NEW node
  PROVE  NodesStay(b, b, node)
<1>1. b.size_dt_strings \in Nat
  BY NumbersAre
<1>. QED
  BY <1>1 DEF NodesStay, Unmoved, SameTo

(* A property is resized.                                                  *)
LEMMA ResizeStays ==
  ASSUME NEW b, Sound(b), ~Misordered(b, RsvSize), NEW node \in Tags(b),
         TagOf(b, node) = "BEGIN_NODE",
         NEW prop \in Tags(b), TagOf(b, prop) = "PROP", prop > node,
         NEW at \in Nat, NEW val, Len(val) \in Nat
  PROVE  NodesStay(b, Resize(b, prop, at, val).fdt, node)
<1> DEFINE L == Len(val)
           len == at + L
           old == TagAlign(PropLen(b, prop))
           new == TagAlign(len)
           r == SpliceStruct(b, prop + PropHeader, old, new)
           c == r.fdt
           d == SetLen(c, prop, len)
           e == PutValue(d, prop, at, val)
           off == b.off_dt_struct
           q == Following(b, node)
<1>1. Resize(b, prop, at, val) = IF r.ret # 0 THEN r ELSE Result(e, 0)
  BY DEF Resize
<1>2. HasStruct(b) /\ off \in Nat /\ b.size_dt_struct \in Nat
  BY SoundIs, NumbersAre
<1>3. /\ prop \in Nat /\ PropHeader \in Nat /\ PropHeader = 3 * FDT_TAGSIZE
      /\ FDT_TAGSIZE \in Nat /\ old \in Nat
      /\ Following(b, prop) = prop + PropHeader + old
      /\ Following(b, prop) <= b.size_dt_struct
  BY <1>2, FoundProperty, TagAt, TagSizeIs
<1>4. L \in Nat /\ len \in Nat /\ new \in Nat
  BY Aligned
<1>5. q \in Nat /\ q <= prop
  <2>1. TagOf(b, node) # "END" /\ prop \in Tags(b) /\ prop > node
    OBVIOUS
  <2>2. \A t \in Tags(b) : t > node => t >= q
    BY <1>2, <2>1, FollowingIs
  <2>3. q \in Nat
    BY <1>2, TagAt
  <2> HIDE DEF q
  <2>4. prop >= q
    BY <2>1, <2>2
  <2>. QED
    BY <1>3, <2>3, <2>4
<1> HIDE DEF q, len, old, new, off
<1>6. /\ r.ret = 0 \/ (r.ret = NOSPACE /\ c = b)
      /\ SameBelow(b, c, off + (prop + PropHeader))
  <2>1. prop + PropHeader \in Nat /\ prop + PropHeader + old <= b.size_dt_struct
    BY <1>2, <1>3
  <2>2. r = SpliceStruct(b, prop + PropHeader, old, new)
    OBVIOUS
  <2> HIDE DEF r
  <2>. QED
    BY <1>3, <1>4, <2>1, <2>2, SpliceStays DEF off
<1> HIDE DEF r
<1> DEFINE top == off + prop
<1>7. top \in Nat
  BY <1>2, <1>3
<1>8. SameBelow(b, c, top)
  <2> DEFINE far == off + (prop + PropHeader)
  <2>1. 0 .. top - 1 \subseteq 0 .. far - 1
    BY <1>2, <1>3
  <2> HIDE DEF far, top
  <2>2. SameBelow(b, c, far)
    BY <1>6 DEF far
  <2> HIDE DEF c
  <2>. QED
    BY <2>1, <2>2 DEF SameBelow
<1>9. c.off_dt_struct = off
  BY <1>6 DEF SameBelow, off
<1>10. SameBelow(b, d, top)
  <2> DEFINE address == off + prop + FDT_TAGSIZE
             cells == Word("len", len)
  <2>1. d = Poke(c, address, cells)
    BY <1>9 DEF SetLen
  <2>2. address \in Nat /\ address >= top
    BY <1>2, <1>3
  <2>3. Len(cells) \in Nat
    BY WordIs, <1>3
  <2> HIDE DEF address, cells, c, d, top
  <2>. QED
    BY <1>7, <1>8, <2>1, <2>2, <2>3, PokeStays
<1> HIDE DEF d
<1>11. SameBelow(b, e, top)
  <2> DEFINE address == off + prop + PropHeader + at
             cells == Bytes(val)
  <2>1. e = Poke(d, address, cells)
    BY <1>10 DEF PutValue, SameBelow, off
  <2>2. address \in Nat /\ address >= top
    BY <1>2, <1>3
  <2>3. Len(cells) \in Nat
    BY BytesAre
  <2> HIDE DEF address, cells, e, top
  <2>. QED
    BY <1>7, <1>10, <2>1, <2>2, <2>3, PokeStays
<1> HIDE DEF e, c
<1>12. SameBelow(b, Resize(b, prop, at, val).fdt, top)
  BY <1>1, <1>8, <1>11 DEF Result, c
<1> DEFINE w == Resize(b, prop, at, val).fdt
<1> HIDE DEF w
<1>13. Unmoved(b, w, prop)
  BY <1>2, <1>3, <1>12, BelowIsUnmoved DEF off, w
<1>14. Unmoved(b, w, q)
  BY <1>3, <1>5, <1>13, UnmovedLess
<1>. QED
  BY <1>2, <1>14, UnmovedNodesStay DEF q, w
(* A property is added.                                                    *)
LEMMA AddPropertyStays ==
  ASSUME NEW b, Sound(b), ~Misordered(b, RsvSize), NEW node \in Tags(b),
         TagOf(b, node) = "BEGIN_NODE",
         NEW name \in PropNames, NEW val, Len(val) \in Nat
  PROVE  NodesStay(b, AddProperty(b, node, name, val).fdt, node)
<1> DEFINE L == Len(val)
           o == CheckNodeOffset(b, node)
           s == FindAddString(b, name)
           d == s.fdt
           new == PropHeader + TagAlign(L)
           r == SpliceStruct(d, o, 0, new)
           head == Tag("PROP") \o Word("len", L) \o Word("nameoff", s.ret)
           c1 == r.fdt
           off == b.off_dt_struct
           c2 == Poke(c1, off + o, head)
           c3 == PutValue(c2, o, 0, val)
           w == AddProperty(b, node, name, val).fdt
<1>1. AddProperty(b, node, name, val) =
        IF o < 0 THEN Result(b, o)
        ELSE IF s.ret < 0 THEN s
        ELSE IF r.ret # 0 THEN r
        ELSE Result(c3, 0)
  BY DEF AddProperty
<1>2. HasStruct(b)
  BY SoundIs
<1>3. MoreStrings(b, d)
  <2>1. s = FindAddString(b, name)
    OBVIOUS
  <2> HIDE DEF s
  <2>. QED
    BY <2>1, FindAddStringIs
<1>4. /\ Sound(d) /\ ~Misordered(d, RsvSize) /\ d.off_dt_struct = off
      /\ d.size_dt_struct = b.size_dt_struct
  BY <1>3 DEF MoreStrings, Kept, StaysSound
<1>5. /\ off \in Nat /\ b.size_dt_struct \in Nat
      /\ b.size_dt_strings \in Nat /\ d.size_dt_strings \in Nat
  BY <1>4, NumbersAre
<1>6. o = BADOFFSET \/ o = Following(b, node)
  BY <1>2, NodeOffsetIs, TagAt
<1>7. Following(b, node) \in Nat /\ Following(b, node) <= b.size_dt_struct
  BY <1>2, TagAt
<1>8. /\ PropHeader \in Nat /\ FDT_TAGSIZE \in Nat /\ L \in Nat /\ new \in Nat
  <2>1. PropHeader \in Nat /\ FDT_TAGSIZE \in Nat
    BY TagSizeIs DEF PropHeader
  <2>2. TagAlign(L) \in Nat
    BY Aligned
  <2>. QED
    BY <2>1, <2>2
<1> HIDE DEF o, s, new, off, L
<1>9. Unmoved(b, b, Following(b, node))
  BY <1>5 DEF Unmoved, SameTo
<1>10. Unmoved(b, d, Following(b, node))
  <2>1. Unmoved(b, d, b.size_dt_struct)
    BY <1>3 DEF MoreStrings, Unmoved, SameTo
  <2>. QED
    BY <1>5, <1>7, <2>1, UnmovedLess
<1>11. CASE o = BADOFFSET
  <2>1. w = b
    BY <1>1, <1>11 DEF BADOFFSET, Result
  <2>. QED
    BY <1>2, <1>9, <2>1, UnmovedNodesStay
<1>12. CASE o = Following(b, node)
  <2>1. o \in Nat /\ o <= b.size_dt_struct
    BY <1>7, <1>12
  <2>2. /\ r.ret = 0 \/ (r.ret = NOSPACE /\ c1 = d)
        /\ SameBelow(d, c1, d.off_dt_struct + o)
    <3>1. r = SpliceStruct(d, o, 0, new) /\ o + 0 <= d.size_dt_struct
      BY <1>4, <1>5, <2>1
    <3> HIDE DEF r, d
    <3>. QED
      BY <1>4, <1>8, <2>1, <3>1, SpliceStays
  <2> HIDE DEF r, d
  <2>3. /\ w = d \/ w = c1 \/ w = c3
    <3>1. ~(o < 0)
      BY <2>1
    <3> HIDE DEF c3
    <3>. QED
      BY <1>1, <3>1 DEF Result, d
  <2> DEFINE top == off + o
  <2>4. top \in Nat /\ SameBelow(d, c1, top)
    BY <1>4, <1>5, <2>1, <2>2
  <2> HIDE DEF c1, top
  <2>5. SameBelow(d, c2, top)
    <3> DEFINE address == off + o
    <3>1. c2 = Poke(c1, address, head) /\ address \in Nat /\ address >= top
      BY <2>4 DEF top
    <3>2. Len(head) \in Nat
      <4>1. head = Tag("PROP") \o Word("len", L) \o Word("nameoff", s.ret)
        OBVIOUS
      <4> HIDE DEF head
      <4>2. IsHead(head, L, s.ret)
        BY <4>1, HeadIs
      <4>. QED
        BY <1>8, <4>2 DEF IsHead
    <3> HIDE DEF head, c2, address
    <3>. QED
      BY <2>4, <3>1, <3>2, PokeStays
  <2> HIDE DEF c2
  <2>6. SameBelow(d, c3, top)
    <3> DEFINE address == off + o + PropHeader + 0
               cells == Bytes(val)
    <3>1. c3 = Poke(c2, address, cells)
      <4>1. c2.off_dt_struct = off
        BY <1>4, <2>5 DEF SameBelow
      <4>. QED
        BY <4>1 DEF PutValue
    <3>2. address \in Nat /\ address >= top
      BY <1>5, <1>8, <2>1 DEF top
    <3>3. Len(cells) \in Nat
      BY BytesAre
    <3> HIDE DEF address, cells, c3
    <3>. QED
      BY <2>4, <2>5, <3>1, <3>2, <3>3, PokeStays
  <2> HIDE DEF c3
  <2>7. ASSUME NEW c, SameBelow(d, c, top)  PROVE Unmoved(b, c, o)
    <3>1. d.off_dt_struct \in Nat /\ top = d.off_dt_struct + o
      BY <1>4, <1>5 DEF top
    <3>2. Unmoved(d, c, o)
      BY <2>1, <2>7, <3>1, BelowIsUnmoved
    <3>3. c.size_dt_strings \in Nat
      BY <2>7 DEF SameBelow
    <3>. QED
      BY <1>5, <1>10, <1>12, <3>2, <3>3, UnmovedTwice
  <2>8. Unmoved(b, w, o)
    BY <1>10, <1>12, <2>3, <2>4, <2>6, <2>7
  <2>. QED
    BY <1>2, <1>12, <2>8, UnmovedNodesStay
<1>. QED
  BY <1>6, <1>11, <1>12

(* fdt_setprop.                                                            *)
LEMMA SetPropStays ==
  ASSUME NEW b, Sound(b), ~Misordered(b, RsvSize), NEW node \in Int,
         NEW name \in PropNames, NEW val, Len(val) \in Nat
  PROVE  NodesStay(b, fdt_setprop(b, node, name, val).fdt, node)
<1> DEFINE prop == GetProperty(b, node, name)
           start == CheckNodeOffset(b, node)
           zero == 0
           a == Resize(b, prop, zero, val)
           n == AddProperty(b, node, name, val)
<1>1. HasStruct(b)
  BY SoundIs
<1>2. fdt_setprop(b, node, name, val) =
        IF prop >= 0 THEN a ELSE IF prop = NOTFOUND THEN n ELSE Result(b, prop)
  BY DEF fdt_setprop
<1>3. \/ prop \in Errors
      \/ prop \in Tags(b) /\ TagOf(b, prop) = "PROP" /\ prop > node
  BY <1>1, GetPropertyIs
<1>4. \/ start = BADOFFSET
      \/ node \in Tags(b) /\ TagOf(b, node) = "BEGIN_NODE"
  BY <1>1, NodeOffsetIs
<1>5. start < 0 => prop = start
  BY DEF GetProperty
<1>8. zero \in Nat
  OBVIOUS
<1> HIDE DEF prop, start, zero
<1>6. CASE start = BADOFFSET
  <2>1. prop = BADOFFSET
    BY <1>5, <1>6 DEF BADOFFSET
  <2> HIDE DEF a, n
  <2>2. fdt_setprop(b, node, name, val).fdt = b
    BY <1>2, <2>1 DEF Result, BADOFFSET, NOTFOUND
  <2>. QED
    BY <2>2, AllStay
<1>7. CASE node \in Tags(b) /\ TagOf(b, node) = "BEGIN_NODE"
  <2>1. NodesStay(b, n.fdt, node)
    BY <1>7, AddPropertyStays
  <2>2. ASSUME prop \in Tags(b), TagOf(b, prop) = "PROP", prop > node
        PROVE  NodesStay(b, a.fdt, node)
    BY <1>7, <1>8, <2>2, ResizeStays
  <2>3. NodesStay(b, Result(b, prop).fdt, node)
    BY AllStay DEF Result
  <2>4. prop \in Errors => ~(prop >= 0)
    BY DEF Errors
  <2>5. prop \in Tags(b) => prop >= 0
    BY DEF Tags
  <2> HIDE DEF a, n
  <2>. QED
    BY <1>2, <1>3, <2>1, <2>2, <2>3, <2>4, <2>5
<1>. QED
  BY <1>4, <1>6, <1>7

(* fdt_appendprop of a node.                                               *)
LEMMA AppendPropStays ==
  ASSUME NEW b, Sound(b), ~Misordered(b, RsvSize), NEW node \in Tags(b),
         TagOf(b, node) = "BEGIN_NODE",
         NEW name \in PropNames, NEW val, Len(val) \in Nat
  PROVE  NodesStay(b, fdt_appendprop(b, node, name, val).fdt, node)
<1> DEFINE prop == GetProperty(b, node, name)
           at == PropLen(b, prop)
           a == Resize(b, prop, at, val)
           n == AddProperty(b, node, name, val)
<1>1. HasStruct(b)
  BY SoundIs
<1>2. fdt_appendprop(b, node, name, val) = IF prop >= 0 THEN a ELSE n
  BY DEF fdt_appendprop
<1>3. \/ prop \in Errors
      \/ prop \in Tags(b) /\ TagOf(b, prop) = "PROP" /\ prop > node
  BY <1>1, GetPropertyIs DEF Tags
<1> HIDE DEF prop
<1>4. NodesStay(b, n.fdt, node)
  BY AddPropertyStays
<1>5. ASSUME prop \in Tags(b), TagOf(b, prop) = "PROP", prop > node
      PROVE  NodesStay(b, a.fdt, node)
  <2>1. at \in Nat
    BY <1>1, <1>5, FoundProperty
  <2> HIDE DEF at
  <2>. QED
    BY <1>5, <2>1, ResizeStays
<1>6. prop \in Errors => ~(prop >= 0)
  BY DEF Errors
<1>7. prop \in Tags(b) => prop >= 0
  BY DEF Tags
<1> HIDE DEF a, n
<1>. QED
  BY <1>2, <1>3, <1>4, <1>5, <1>6, <1>7

(* An edit of the structure block behind a node.                           *)
LEMMA SpliceBehindStays ==
  ASSUME NEW b, Sound(b), ~Misordered(b, RsvSize), NEW node \in Tags(b),
         TagOf(b, node) = "BEGIN_NODE", NEW o \in Tags(b), o > node,
         NEW old \in Nat, NEW new \in Nat, o + old <= b.size_dt_struct
  PROVE  NodesStay(b, SpliceStruct(b, o, old, new).fdt, node)
<1> DEFINE r == SpliceStruct(b, o, old, new)
           q == Following(b, node)
<1>1. HasStruct(b) /\ o \in Nat /\ b.off_dt_struct \in Nat
  BY SoundIs, NumbersAre, TagAt
<1>2. SameBelow(b, r.fdt, b.off_dt_struct + o)
  <2>1. r = SpliceStruct(b, o, old, new)
    OBVIOUS
  <2> HIDE DEF r
  <2>. QED
    BY <1>1, <2>1, SpliceStays
<1> HIDE DEF r
<1>3. Unmoved(b, r.fdt, o)
  BY <1>1, <1>2, BelowIsUnmoved
<1>4. q \in Nat /\ q <= o
  <2>1. TagOf(b, node) # "END"
    OBVIOUS
  <2>2. \A t \in Tags(b) : t > node => t >= q
    BY <1>1, <2>1, FollowingIs
  <2>3. q \in Nat
    BY <1>1, TagAt
  <2> HIDE DEF q
  <2>4. o >= q
    BY <2>2
  <2>. QED
    BY <1>1, <2>3, <2>4
<1> HIDE DEF q
<1>5. Unmoved(b, r.fdt, q)
  BY <1>1, <1>3, <1>4, UnmovedLess
<1>. QED
  BY <1>1, <1>5, UnmovedNodesStay DEF q, r

(* fdt_delprop of a node.                                                  *)
LEMMA DelPropStays ==
  ASSUME NEW b, Sound(b), ~Misordered(b, RsvSize), NEW node \in Tags(b),
         TagOf(b, node) = "BEGIN_NODE", NEW name
  PROVE  NodesStay(b, fdt_delprop(b, node, name).fdt, node)
<1> DEFINE prop == GetProperty(b, node, name)
           old == PropHeader + TagAlign(PropLen(b, prop))
           zero == 0
<1>1. HasStruct(b)
  BY SoundIs
<1>2. fdt_delprop(b, node, name) =
        IF prop < 0 THEN Result(b, prop) ELSE SpliceStruct(b, prop, old, zero)
  BY DEF fdt_delprop
<1>3. \/ prop \in Errors
      \/ prop \in Tags(b) /\ TagOf(b, prop) = "PROP" /\ prop > node
  BY <1>1, GetPropertyIs DEF Tags
<1>4. zero \in Nat
  OBVIOUS
<1> HIDE DEF prop, zero
<1>5. CASE prop \in Errors
  <2>1. fdt_delprop(b, node, name).fdt = b
    BY <1>2, <1>5 DEF Errors, Result
  <2>. QED
    BY <2>1, AllStay
<1>6. CASE prop \in Tags(b) /\ TagOf(b, prop) = "PROP" /\ prop > node
  <2>1. /\ prop \in Nat /\ old \in Nat /\ prop + old = Following(b, prop)
    BY <1>1, <1>6, FoundProperty
  <2>2. Following(b, prop) <= b.size_dt_struct
    BY <1>1, <1>6, TagAt
  <2> HIDE DEF old
  <2>3. fdt_delprop(b, node, name) = SpliceStruct(b, prop, old, zero)
    BY <1>2, <2>1
  <2>4. prop + old <= b.size_dt_struct
    BY <2>1, <2>2
  <2>. QED
    BY <1>4, <1>6, <2>1, <2>3, <2>4, SpliceBehindStays
<1>. QED
  BY <1>3, <1>5, <1>6

(* fdt_del_node, and the nodes in front.                                   *)
LEMMA DelNodeStays ==
  ASSUME NEW b, Sound(b), ~Misordered(b, RsvSize), NEW node \in Int,
         NEW o \in Tags(b), TagOf(b, o) = "BEGIN_NODE", o < node
  PROVE  Unmoved(b, fdt_del_node(b, node).fdt, Following(b, o))
<1> DEFINE end == NodeEndOffset(b, node)
           q == Following(b, o)
<1>1. HasStruct(b)
  BY SoundIs
<1>2. fdt_del_node(b, node) =
        IF end < 0 THEN Result(b, end) ELSE SpliceStruct(b, node, end - node, 0)
  BY DEF fdt_del_node
<1>3. end \in Errors \/ (node \in Tags(b) /\ end \in Tags(b) /\ end > node)
  BY <1>1, NodeEndOffsetIs
<1> HIDE DEF end
<1>4. CASE end \in Errors
  <2>1. fdt_del_node(b, node).fdt = b
    BY <1>2, <1>4 DEF Errors, Result
  <2>2. b.size_dt_strings \in Nat
    BY NumbersAre
  <2>. QED
    BY <2>1, <2>2 DEF Unmoved, SameTo
<1>5. CASE node \in Tags(b) /\ end \in Tags(b) /\ end > node
  <2> DEFINE old == end - node
             r == SpliceStruct(b, node, old, 0)
  <2>1. node \in Nat /\ end \in Nat /\ end + FDT_TAGSIZE <= b.size_dt_struct
    BY <1>1, <1>5, TagAt
  <2>2. /\ b.size_dt_struct \in Nat /\ b.off_dt_struct \in Nat
        /\ FDT_TAGSIZE \in Nat
    BY NumbersAre, TagSizeIs
  <2>3. old \in Nat /\ node + old = end /\ node + old <= b.size_dt_struct
    BY <1>5, <2>1, <2>2
  <2>4. fdt_del_node(b, node).fdt = r.fdt
    BY <1>2, <2>1
  <2> HIDE DEF old
  <2>5. SameBelow(b, r.fdt, b.off_dt_struct + node)
    <3>1. r = SpliceStruct(b, node, old, 0)
      OBVIOUS
    <3> HIDE DEF r
    <3>. QED
      BY <2>1, <2>3, <3>1, SpliceStays
  <2> HIDE DEF r
  <2>6. Unmoved(b, r.fdt, node)
    BY <2>1, <2>2, <2>5, BelowIsUnmoved
  <2>7. q \in Nat /\ q <= node
    <3>1. TagOf(b, o) # "END"
      OBVIOUS
    <3>2. \A t \in Tags(b) : t > o => t >= q
      BY <1>1, <3>1, FollowingIs
    <3>3. q \in Nat /\ o \in Nat
      BY <1>1, TagAt
    <3> HIDE DEF q
    <3>4. node >= q
      BY <1>5, <2>1, <3>2, <3>3
    <3>. QED
      BY <2>1, <3>3, <3>4
  <2> HIDE DEF q
  <2>8. Unmoved(b, r.fdt, q)
    BY <2>1, <2>6, <2>7, UnmovedLess
  <2>. QED
    BY <2>4, <2>8 DEF q
<1>. QED
  BY <1>3, <1>4, <1>5

(* fdt_add_subnode, of a node, adds one or returns an error.               *)
LEMMA AddSubnodeIs ==
  ASSUME NEW b, Sound(b), ~Misordered(b, RsvSize), NEW parent \in Tags(b),
         TagOf(b, parent) = "BEGIN_NODE", NEW name \in NodeNames,
         NEW w, w = fdt_add_subnode(b, parent, name), NEW o, o = Place(b, parent)
  PROVE  \/ w.ret \in Errors /\ w.fdt = b
         \/ /\ w.ret = o /\ Unmoved(b, w.fdt, o)
            /\ TagOf(w.fdt, o) = "BEGIN_NODE" /\ NodeName(w.fdt, o) = name
<1> DEFINE T == FDT_TAGSIZE
           names == NameCells(name)
           cells == Tag("BEGIN_NODE") \o names \o Tag("END_NODE")
           n == Len(names)
           new == Len(cells)
           found == SubnodeOffset(b, parent, name)
           r == SpliceStruct(b, o, 0, new)
           c1 == r.fdt
           off == b.off_dt_struct
           c2 == Poke(c1, off + o, cells)
<1>1. HasStruct(b)
  BY SoundIs
<1>2. w =
        IF found >= 0 THEN Result(b, EXISTS)
        ELSE IF found # NOTFOUND THEN Result(b, found)
        ELSE IF r.ret # 0 THEN r
        ELSE Result(c2, o)
  BY DEF fdt_add_subnode
<1>3. found \in Int
  BY <1>1, SubnodeOffsetIs, TagAt
<1> HIDE DEF found
<1>4. o \in Tags(b) /\ o \in Nat /\ o <= b.size_dt_struct
  <2>1. o \in Tags(b)
    BY <1>1, PlaceIs
  <2>2. o \in Nat /\ o + FDT_TAGSIZE <= b.size_dt_struct
    BY <1>1, <2>1, TagAt
  <2>3. b.size_dt_struct \in Nat /\ FDT_TAGSIZE \in Nat
    BY NumbersAre, TagSizeIs
  <2>. QED
    BY <2>1, <2>2, <2>3
<1>5. NameIs(names, name)
  BY NameCellsIs
<1>6. /\ new = T + n + T
      /\ cells[1] = <<"tag", "BEGIN_NODE">>
      /\ \A i \in 1 .. n : cells[T + i] = names[i]
  <2>1. names = NameCells(name) /\ cells = Tag("BEGIN_NODE") \o names \o Tag("END_NODE")
    OBVIOUS
  <2> HIDE DEF names, cells
  <2>2. /\ Len(cells) = FDT_TAGSIZE + Len(names) + FDT_TAGSIZE
        /\ cells[1] = <<"tag", "BEGIN_NODE">>
        /\ \A i \in 1 .. Len(names) : cells[FDT_TAGSIZE + i] = names[i]
    BY <2>1, SubnodeCellsAre
  <2>. QED
    BY <2>2
<1>7. T \in Nat /\ T > 0
  BY TagSizeIs
<1> HIDE DEF names, cells, T
<1>8. n \in Nat /\ n > 0 /\ names[1] = <<"name", name>>
  BY <1>5 DEF NameIs
<1> HIDE DEF n
<1>9. new \in Nat
  BY <1>6, <1>7, <1>8
<1>10. off \in Nat
  BY NumbersAre
<1>11. /\ r.ret = 0 \/ (r.ret = NOSPACE /\ c1 = b)
       /\ SameBelow(b, c1, off + o)
  <2>1. r = SpliceStruct(b, o, 0, new) /\ o + 0 <= b.size_dt_struct
    BY <1>4
  <2> HIDE DEF r, new
  <2>. QED
    BY <1>4, <1>9, <2>1, SpliceStays
<1> HIDE DEF r
<1>12. CASE found # NOTFOUND
  <2>1. \/ w = Result(b, EXISTS)
        \/ w = Result(b, found) /\ ~(found >= 0)
    BY <1>2, <1>12
  <2>. QED
    BY <1>3, <2>1 DEF Result, Errors, EXISTS
<1>13. CASE found = NOTFOUND /\ r.ret = NOSPACE /\ c1 = b
  <2> HIDE DEF c2
  <2>1. w = r
    BY <1>2, <1>13 DEF NOTFOUND, NOSPACE
  <2>. QED
    BY <1>13, <2>1 DEF Errors, NOSPACE
<1>14. CASE found = NOTFOUND /\ r.ret = 0
  <2> DEFINE top == off + o
  <2>1. w.ret = o /\ w.fdt = c2
    <3> HIDE DEF c2
    <3>. QED
      BY <1>2, <1>14 DEF NOTFOUND, Result
  <2>2. top \in Nat /\ SameBelow(b, c1, top) /\ c2 = Poke(c1, top, cells)
    BY <1>4, <1>10, <1>11
  <2> HIDE DEF c1, c2, top
  <2>3. SameBelow(b, c2, top)
    <3>1. Len(cells) \in Nat /\ top >= top
      BY <1>9, <2>2
    <3>. QED
      BY <2>2, <3>1, PokeStays
  <2>4. Unmoved(b, c2, o)
    BY <1>4, <1>10, <2>3, BelowIsUnmoved DEF top
  <2>5. \A a \in Span(top, new) : c2.mem[a] = cells[a - top + 1]
    BY <2>2, PokedIs DEF SameBelow
  <2>6. c2.off_dt_struct = off
    BY <2>3 DEF SameBelow
  <2>7. /\ off + o \in Span(top, new) /\ (off + o) - top + 1 = 1
        /\ off + (o + T) \in Span(top, new) /\ (off + (o + T)) - top + 1 = T + 1
    <3>1. /\ off \in Nat /\ o \in Nat /\ T \in Nat /\ n \in Nat /\ T > 0 /\ n > 0
          /\ top = off + o /\ new = T + n + T
      BY <1>4, <1>6, <1>7, <1>8, <1>10 DEF top
    <3> HIDE DEF off, new
    <3>. QED
      BY <3>1 DEF Span
  <2>8. Struct(c2, o) = <<"tag", "BEGIN_NODE">>
    <3>1. c2.mem[off + o] = cells[1]
      BY <2>5, <2>7
    <3>. QED
      BY <1>6, <2>6, <3>1 DEF Struct
  <2>9. Struct(c2, o + T) = <<"name", name>>
    <3>1. c2.mem[off + (o + T)] = cells[T + 1]
      BY <2>5, <2>7
    <3>2. 1 \in 1 .. n
      BY <1>8
    <3>3. cells[T + 1] = names[1]
      BY <1>6, <3>2
    <3>. QED
      BY <1>8, <2>6, <3>1, <3>3 DEF Struct
  <2>. QED
    BY <2>1, <2>4, <2>8, <2>9 DEF TagOf, NodeName, T
<1>. QED
  BY <1>11, <1>12, <1>13, <1>14
(* fdt_add_subnode of a node.                                              *)
LEMMA AddSubnodeStays ==
  ASSUME NEW b, Sound(b), ~Misordered(b, RsvSize), NEW parent \in Tags(b),
         TagOf(b, parent) = "BEGIN_NODE", NEW name \in NodeNames
  PROVE  NodesStay(b, fdt_add_subnode(b, parent, name).fdt, parent)
<1> DEFINE c == fdt_add_subnode(b, parent, name).fdt
           o == Place(b, parent)
           q == Following(b, parent)
<1>1. HasStruct(b)
  BY SoundIs
<1>2. c = b \/ Unmoved(b, c, o)
  BY AddSubnodeIs
<1>3. o \in Tags(b) /\ o > parent /\ o \in Nat
  BY <1>1, PlaceIs, TagAt
<1> HIDE DEF c, o
<1>4. q \in Nat /\ q <= o
  <2>1. TagOf(b, parent) # "END"
    OBVIOUS
  <2>2. \A t \in Tags(b) : t > parent => t >= q
    BY <1>1, <2>1, FollowingIs
  <2>3. q \in Nat
    BY <1>1, TagAt
  <2> HIDE DEF q
  <2>4. o >= q
    BY <1>3, <2>2
  <2>. QED
    BY <1>3, <2>3, <2>4
<1> HIDE DEF q
<1>5. CASE c = b
  BY <1>5, AllStay DEF c
<1>6. CASE Unmoved(b, c, o)
  <2>1. Unmoved(b, c, q)
    BY <1>3, <1>4, <1>6, UnmovedLess
  <2>. QED
    BY <1>1, <2>1, UnmovedNodesStay DEF q, c
<1>. QED
  BY <1>2, <1>5, <1>6

-----------------------------------------------------------------------------
(* What edits leave of a blob and of its nodes.                            *)

(* A blob with its tags in order is one that a reader finds whole.         *)
LEMMA SoundIsWhole ==
  ASSUME NEW b, Sound(b), Ordered(b)
  PROVE  Whole(b, Contents(b))
<1>1. BlocksAreApart(b) /\ HasStruct(b)
  BY SoundIs
<1> DEFINE tags == TagOffsets(b)
           end == IF tags = <<>> THEN 0 ELSE NextTag(b, Last(tags)).next
           v == Contents(b)
<1>2. NextTag(b, end) = [tag |-> "END", next |-> b.size_dt_struct]
  BY <1>1, TagOffsetsAre
<1>3. v.ok /\ v.path = Nowhere
  <2>1. v.ok = TRUE /\ v.path = Nowhere
    BY <1>1, OrderedIsWhole
  <2>. QED
    BY <2>1
<1>4. b.off_mem_rsvmap + MapSize(b) <= b.off_dt_struct
  BY <1>1 DEF BlocksAreApart
<1> HIDE DEF tags, end, v
<1>5. Whole(b, v)
  BY <1>2, <1>3, <1>4 DEF Whole, tags, end
<1>. QED
  BY <1>5 DEF v

(* FDT_RW_CHECK_HEADER lets only a call through that keeps the blob sound. *)
LEMMA CheckedKeeps ==
  ASSUME NEW b, Sound(b), Ordered(b), b.boot_cpuid_phys \in CpuIds, NEW r,
         ~Misordered(b, RsvSize) => StaysSound(b, r.fdt)
  PROVE  /\ Sound(Checked(b, r).fdt) /\ Ordered(Checked(b, r).fdt)
         /\ Checked(b, r).fdt.boot_cpuid_phys \in CpuIds
<1>1. CASE Misordered(b, RsvSize)
  <2>1. Checked(b, r).fdt = b
    BY <1>1 DEF Checked, Result
  <2>. QED
    BY <2>1
<1>2. CASE ~Misordered(b, RsvSize)
  <2>1. Checked(b, r) = r
    BY <1>2 DEF Checked
  <2>. QED
    BY <1>2, <2>1 DEF Kept, StaysSound
<1>. QED
  BY <1>1, <1>2

(* The node at o, by its path.                                             *)
IsNode(b, o, path) ==
  /\ o \in Tags(b) /\ TagOf(b, o) = "BEGIN_NODE"
  /\ At(Contents(b), o) = path

Root == <<"">>

(* A blob the root of which is at its beginning.                           *)
Rooted(b) ==
  /\ Sound(b) /\ Ordered(b) /\ b.boot_cpuid_phys \in CpuIds
  /\ IsNode(b, 0, Root)

(* A node in front of an edit.                                             *)
LEMMA NodeIsStill ==
  ASSUME NEW b, Sound(b), NEW c, Sound(c), NEW o, NEW path, IsNode(b, o, path),
         Unmoved(b, c, Following(b, o))
  PROVE  IsNode(c, o, path)
<1>1. HasStruct(b) /\ HasStruct(c)
  BY SoundIs
<1>2. /\ o \in Tags(b) /\ TagOf(b, o) = "BEGIN_NODE"
      /\ SameTo(b, c, Following(b, o)) /\ c.size_dt_strings >= b.size_dt_strings
  BY DEF IsNode, Unmoved
<1>3. /\ o \in Tags(c) /\ TagOf(c, o) = "BEGIN_NODE"
      /\ At(Contents(c), o) = At(Contents(b), o)
  BY <1>1, <1>2, NodeIsKept
<1>. QED
  BY <1>3 DEF IsNode

(* The root is in front of everything.                                     *)
LEMMA RootIs ==
  ASSUME NEW b, Sound(b), TagOf(b, 0) = "BEGIN_NODE"
  PROVE  IsNode(b, 0, <<NodeName(b, 0)>>)
<1>1. HasStruct(b)
  BY SoundIs
<1>2. PICK n, p, g : IsReader(b, n, p, g) /\ Contents(b) = g[n]
  BY <1>1, ContentsAreRead
<1>3. n \in Nat /\ p[0] = 0 /\ g[0] = Blank
  BY <1>2 DEF IsReader
<1>4. 0 \in 0 .. n
  <2>1. n \in Nat
    BY <1>3
  <2>. QED
    BY <2>1
<1>5. 0 \in Tags(b)
  BY <1>2, <1>3, <1>4 DEF IsReader
<1>6. g[0].path = <<>>
  <2>1. Blank.path = <<>>
    BY DEF Blank, Nowhere
  <2>. QED
    BY <1>3, <2>1
<1> DEFINE v == Contents(b)
           i == 0
<1>7. p[i] = 0 /\ g[i].path = <<>>
  BY <1>3, <1>6
<1>8. v = g[n] /\ i \in 0 .. n /\ IsReader(b, n, p, g)
  BY <1>2, <1>4
<1>9. TagOf(b, p[i]) = "BEGIN_NODE"
  BY <1>3
<1> HIDE DEF v, i
<1>10. At(v, p[i]) = Append(g[i].path, NodeName(b, p[i]))
  BY <1>1, <1>8, <1>9, NodePathIs
<1>11. At(v, 0) = Append(<<>>, NodeName(b, 0))
  BY <1>7, <1>10
<1>12. Append(<<>>, NodeName(b, 0)) = <<NodeName(b, 0)>>
  OBVIOUS
<1>. QED
  BY <1>5, <1>11, <1>12 DEF IsNode, v

(* Every node has a path.                                                  *)
LEMMA NodeIsSomewhere ==
  ASSUME NEW b, Sound(b), Ordered(b), NEW o \in Tags(b), TagOf(b, o) = "BEGIN_NODE"
  PROVE  At(Contents(b), o) # Nowhere
<1>1. HasStruct(b)
  BY SoundIs
<1>2. PICK n, p, g : IsReader(b, n, p, g) /\ Contents(b) = g[n]
  BY <1>1, ContentsAreRead
<1>3. PICK k \in 0 .. n : p[k] = o
  BY <1>1, <1>2, EachIsRead
<1> DEFINE v == Contents(b)
<1>4. v.ok = TRUE
  BY <1>1, OrderedIsWhole
<1>5. v = g[n] /\ TagOf(b, p[k]) = "BEGIN_NODE"
  BY <1>2, <1>3
<1> HIDE DEF v
<1>6. At(v, p[k]) = Append(g[k].path, NodeName(b, p[k]))
  BY <1>1, <1>2, <1>5, NodePathIs
<1>7. g[k].path \in Seq(NodeNames)
  <2>1. g[n].ok
    BY <1>4, <1>5
  <2>2. Opened(g[k])
    BY <1>1, <1>2, <2>1, AllIsWell
  <2>. QED
    BY <2>2 DEF Opened
<1>8. Append(g[k].path, NodeName(b, p[k])) # <<>>
  BY <1>7
<1>. QED
  BY <1>3, <1>6, <1>8 DEF Nowhere, v

-----------------------------------------------------------------------------
(* Names of nodes, and edits in place: fdt_set_name, fdt_wip.c.            *)

(* The node at o is named otherwise, and nothing else is written.          *)
Renamed(b, c, o, name) ==
  \E old \in Nat, new \in Nat :
    /\ IsMultiple(new) /\ Following(b, o) = o + old
    /\ Edited(b, c, o, old, new) /\ SameNames(b, c)
    /\ o \in Tags(c) /\ TagOf(c, o) = "BEGIN_NODE" /\ Following(c, o) = o + new
    /\ NodeName(c, o) = name

(* fdt_set_name.                                                           *)
LEMMA SetNameKeeps ==
  ASSUME NEW b, Sound(b), ~Misordered(b, RsvSize), NEW node \in Int,
         NEW name \in NodeNames
  PROVE  LET w == fdt_set_name(b, node, name)
         IN  /\ Kept(b, w.fdt)
             /\ \/ CheckNodeOffset(b, node) = BADOFFSET /\ w = Result(b, BADOFFSET)
                \/ /\ node \in Tags(b) /\ TagOf(b, node) = "BEGIN_NODE"
                   /\ CheckNodeOffset(b, node) = Following(b, node)
                   /\ \/ w.ret = NOSPACE /\ w.fdt = b
                      \/ w.ret = 0 /\ Renamed(b, w.fdt, node, name)
<1> DEFINE T == FDT_TAGSIZE
           was == NameCells(NodeName(b, node))
           cells == NameCells(name)
           m == Len(was)
           n == Len(cells)
           off == b.off_dt_struct
           r == SpliceStruct(b, node + T, m, n)
           c1 == r.fdt
           c2 == Poke(c1, off + node + T, cells)
           check == CheckNodeOffset(b, node)
           old == m + T
           new == n + T
<1>1. HasStruct(b)
  BY SoundIs
<1>2. fdt_set_name(b, node, name) =
        IF check < 0 THEN Result(b, check)
        ELSE IF r.ret # 0 THEN r ELSE Result(c2, 0)
  BY DEF fdt_set_name
<1>3. \/ check = BADOFFSET
      \/ /\ node \in Tags(b) /\ TagOf(b, node) = "BEGIN_NODE"
         /\ check = Following(b, node)
  BY <1>1, NodeOffsetIs
<1> HIDE DEF check
<1>4. CASE check = BADOFFSET
  <2>1. fdt_set_name(b, node, name) = Result(b, check)
    BY <1>2, <1>4 DEF BADOFFSET
  <2>2. CheckNodeOffset(b, node) = BADOFFSET
    BY <1>4 DEF check
  <2>. QED
    BY <1>4, <2>1, <2>2 DEF Result, Kept, StaysSound
<1>5. CASE /\ node \in Tags(b) /\ TagOf(b, node) = "BEGIN_NODE"
           /\ check = Following(b, node)
  <2>0. CheckNodeOffset(b, node) = Following(b, node)
    BY <1>5 DEF check
  <2>1. /\ node \in Nat /\ IsMultiple(node) /\ Following(b, node) \in Tags(b)
        /\ NodeName(b, node) \in NodeNames
    <3>1. TagIsSound(b, node)
      BY <1>1, <1>5 DEF HasStruct, StructIsSound
    <3>2. NodeName(b, node) \in NodeNames
      BY <1>5, <3>1 DEF TagIsSound, TagOf
    <3>. QED
      BY <1>1, <1>5, <3>2, TagAt, FollowingIs
  <2>2. NameIs(was, NodeName(b, node)) /\ NameIs(cells, name)
    BY <2>1, NameCellsIs
  <2> HIDE DEF was, cells
  <2>3. /\ m \in Nat /\ m > 0 /\ n \in Nat /\ n > 0 /\ IsMultiple(n)
        /\ m = TagAlign(NodeLength[NodeName(b, node)] + 1)
    BY <2>2 DEF NameIs
  <2>4. T \in Nat /\ T > 0 /\ off \in Nat /\ b.size_dt_struct \in Nat
        /\ BUF_SIZE \in Nat /\ b.off_dt_strings \in Nat
    BY TagSizeIs, NumbersAre
  <2> HIDE DEF m, n
  <2>5. Following(b, node) = node + T + m
    BY <1>5, <2>1, <2>3, NodeIs
  <2> HIDE DEF T, off
  <2>6. /\ node + T \in Nat /\ node + T + m < b.size_dt_struct
        /\ node + T + m \in Tags(b)
    BY <2>1, <2>4, <2>5 DEF Tags
  <2>7. fdt_set_name(b, node, name) = IF r.ret # 0 THEN r ELSE Result(c2, 0)
    <3>1. ~(check < 0)
      BY <1>5, <2>1, <2>4, <2>5, <2>3
    <3> HIDE DEF r, c2
    <3>. QED
      BY <1>2, <3>1
  <2>8. \/ r.ret = NOSPACE /\ c1 = b
        \/ r.ret = 0 /\ Fitted(b, c1, off + (node + T), m, n)
    <3>1. r = SpliceStruct(b, node + T, m, n) /\ node + T + m <= b.size_dt_struct
      BY <2>1, <2>3, <2>4, <2>6
    <3> HIDE DEF r
    <3>. QED
      BY <2>3, <2>6, <3>1, SpliceStructIs DEF off
  <2> HIDE DEF r
  <2>9. CASE r.ret = NOSPACE /\ c1 = b
    <3>1. fdt_set_name(b, node, name) = r
      BY <2>7, <2>9 DEF NOSPACE
    <3>. QED
      BY <1>5, <2>0, <2>9, <3>1 DEF Kept, StaysSound
  <2>10. CASE r.ret = 0 /\ Fitted(b, c1, off + (node + T), m, n)
    <3>1. /\ fdt_set_name(b, node, name).fdt = c2
          /\ fdt_set_name(b, node, name).ret = 0
      <4>1. fdt_set_name(b, node, name) = Result(c2, 0)
        BY <2>7, <2>10
      <4> HIDE DEF c2
      <4> QED BY <4>1 DEF Result
    <3> DEFINE p == off + (node + T)
    <3>2. p \in Nat /\ T \in 0 .. p /\ p - T = off + node /\ off + node \in Nat
          /\ p + n = off + node + new
      BY <2>1, <2>3, <2>4
    <3> HIDE DEF c1, p
    <3>3. Reshaped(b, c1, p, m, n) /\ p + n <= BUF_SIZE
      BY <2>10 DEF Fitted, p
    <3>4. Reshaped(b, c1, p - T, m + T, n + T)
      BY <2>3, <2>4, <3>2, <3>3, ReshapedMore
    <3>5. old \in Nat /\ new \in Nat /\ off + node + new <= BUF_SIZE
      BY <2>3, <2>4, <3>2, <3>3
    <3>6. IsMultiple(new) /\ node + old = node + T + m
      <4>1. IsMultiple(n + T)
        BY <2>3, Multiples DEF T
      <4>2. node + (m + T) = node + T + m
        BY <2>1, <2>3, <2>4
      <4>. QED
        BY <4>1, <4>2
    <3>7. T + n <= new
      BY <2>3, <2>4
    <3> HIDE DEF old, new
    <3>8. Reshaped(b, c1, off + node, old, new)
      BY <3>2, <3>4 DEF old, new
    <3>9. Struct(c1, node) = Struct(b, node)
      <4>1. node \in 0 .. (node + T) - 1 /\ node + T + m <= b.size_dt_struct
        BY <2>1, <2>4, <2>6, <2>3
      <4>2. Reshaped(b, c1, b.off_dt_struct + (node + T), m, n)
        BY <3>3 DEF p, off
      <4> DEFINE o == node + T
      <4>3. o \in Nat /\ o + m <= b.size_dt_struct
        BY <2>6, <4>1
      <4>4. Reshaped(b, c1, b.off_dt_struct + o, m, n)
        BY <4>2
      <4> HIDE DEF o
      <4>5. \A i \in 0 .. o - 1 : Struct(c1, i) = Struct(b, i)
        <5>1. Edited(b, c1, o, m, n)
          BY <2>3, <4>3, <4>4, ReshapedStruct
        <5>. QED
          BY <5>1 DEF Edited
      <4>. QED
        BY <4>1, <4>5 DEF o
    <3>10. Reshaped(b, c2, off + node, old, new) /\ PutIn(c2, c1, node, new, T, cells)
      <4>1. c2 = Poke(c1, b.off_dt_struct + node + T, cells)
        BY DEF off
      <4>2. Len(cells) \in Nat /\ T + Len(cells) <= new
        BY <2>3, <3>7 DEF n
      <4> HIDE DEF c2
      <4>. QED
        BY <2>1, <2>4, <3>5, <3>8, <4>1, <4>2, StructPoked DEF off
    <3> HIDE DEF c2
    <3>11. Struct(c2, node)[1] = "tag" /\ TagOf(c2, node) = "BEGIN_NODE"
      <4>1. 0 \in 0 .. new - 1 /\ 0 < T /\ node + 0 = node
        BY <2>1, <2>3, <2>4, <3>5, <3>7
      <4>2. Struct(c2, node + 0) = Struct(c1, node + 0)
        BY <3>10, <4>1 DEF PutIn
      <4>3. Struct(c2, node) = Struct(b, node)
        BY <3>9, <4>1, <4>2
      <4>. QED
        BY <1>5, <4>3 DEF Tags, TagOf
    <3>12. \A i \in 1 .. Len(cells) : Struct(c2, node + (T + (i - 1))) = cells[i]
      BY <3>10 DEF PutIn
    <3>13. c2.size_dt_struct = b.size_dt_struct - old + new
      BY <3>10 DEF Reshaped
    <3>14. c2.size_dt_struct \in Nat /\ node + old < b.size_dt_struct
      BY <2>1, <2>4, <2>6, <3>5, <3>6, <3>13
    <3>15. node + new \in Tags(c2)
      <4>1. node + old \in Tags(b)
        BY <2>6, <3>6
      <4>. QED
        BY <2>1, <3>5, <3>6, <3>10, <4>1, ReshapedTag DEF off
    <3> DEFINE next == node + new
    <3>16. next = node + T + Len(cells) /\ next \in Tags(c2)
      <4>1. next = node + T + n
        BY <2>1, <2>3, <2>4 DEF new
      <4>. QED
        BY <3>15, <4>1 DEF n
    <3> HIDE DEF next
    <3>17. /\ node \in Tags(c2) /\ TagIsSound(c2, node) /\ Following(c2, node) = next
           /\ \A t \in Tags(c2) : t \in node .. next - 1 => t = node
      BY <2>1, <2>2, <3>11, <3>12, <3>14, <3>16, NodeWritten DEF T
    <3>18. \A t \in Tags(c2) : t \in node .. node + new - 1 => TagIsSound(c2, t)
      <4>1. node + new = next /\ node + new \in Nat
        BY <2>1, <3>5 DEF next
      <4>. QED
        BY <2>1, <3>5, <3>17, <4>1
    <3>19. node + old \in Tags(b) /\ StructTop(b) <= b.off_dt_strings
      BY <2>6, <3>6, OrderedIs
    <3>20. Ordered(b) => Mended(b, c2, node, old, new)
      <4>1. next = node + new /\ next \in Nat /\ node < next
        BY <2>1, <2>4, <2>3, <3>5, <3>7 DEF next
      <4>2. OnlyTag(c2, node, node + new)
        <5>1. ASSUME NEW t \in Tags(c2), node <= t, t < next  PROVE t = node
          <6>1. t \in Nat
            BY DEF Tags
          <6>2. t \in node .. next - 1
            BY <2>1, <4>1, <5>1, <6>1
          <6>. QED
            BY <3>17, <6>2
        <5>. QED
          BY <3>17, <4>1, <5>1 DEF OnlyTag
      <4>3. Following(b, node) = node + old
        BY <2>5, <3>6
      <4>. QED
        BY <1>1, <1>5, <3>5, <3>11, <4>2, <4>3, SameTagMends
    <3>21. Kept(b, c2)
      BY <1>5, <3>5, <3>6, <3>10, <3>17, <3>18, <3>19, <3>20, ReshapedIsSound DEF off
    <3>22. Edited(b, c2, node, old, new) /\ SameNames(b, c2)
      <4>1. node + old <= b.size_dt_struct
        BY <2>1, <2>4, <3>5, <3>14
      <4> QED BY <2>1, <3>5, <3>10, <3>19, <4>1, ReshapedStruct, ReshapedNames DEF off
    <3>23. NodeName(c2, node) = name
      <4>1. 1 \in 1 .. Len(cells) /\ cells[1] = <<"name", name>>
        BY <2>2 DEF NameIs
      <4>2. node + (T + (1 - 1)) = node + T
        BY <2>1, <2>4
      <4>3. Struct(c2, node + T) = <<"name", name>>
        BY <3>12, <4>1, <4>2
      <4> QED BY <4>3 DEF NodeName, T
    <3>24. Following(b, node) = node + old /\ Following(c2, node) = node + new
      BY <2>5, <3>6, <3>17 DEF next
    <3>25. Renamed(b, c2, node, name)
      BY <3>5, <3>6, <3>11, <3>17, <3>22, <3>23, <3>24 DEF Renamed
    <3>. QED
      BY <1>5, <2>0, <3>1, <3>21, <3>25
  <2>. QED
    BY <2>8, <2>9, <2>10
<1>. QED
  BY <1>3, <1>4, <1>5

-----------------------------------------------------------------------------
(* fdt_wip.c: as many cells are put in as are taken out.                   *)

(* An edit in place.                                                       *)
LEMMA NothingReshaped ==
  ASSUME NEW b, Sound(b), NEW p \in Nat, NEW k \in Nat
  PROVE  Reshaped(b, b, p, k, k)
<1>1. SameBut(b, b, {"mem", "size_dt_struct", "off_dt_strings"})
  BY BufferIs DEF SameBut
<1>2. /\ b.size_dt_struct = b.size_dt_struct - k + k
      /\ b.off_dt_strings = b.off_dt_strings - k + k
      /\ DataSize(b) <= b.totalsize /\ StructTop(b) <= b.totalsize
  BY NumbersAre
<1>3. \A a \in p + k .. BUF_SIZE - 1 : a + (k - k) = a
  BY NumbersAre
<1>4. DOMAIN b.mem = 0 .. BUF_SIZE - 1
  BY BufferIs
<1>. QED
  BY <1>1, <1>2, <1>3, <1>4 DEF Reshaped

SameOrder(b, c) == Misordered(c, RsvSize) <=> Misordered(b, RsvSize)

(* Nor are the blocks anywhere else.                                       *)
LEMMA OrderStays ==
  ASSUME NEW b, Sound(b), NEW c, NEW p, NEW k \in Nat, Reshaped(b, c, p, k, k)
  PROVE  SameOrder(b, c)
<1>1. b.size_dt_struct \in Nat /\ b.off_dt_strings \in Nat
  BY NumbersAre
<1>2. /\ c.size_dt_struct = b.size_dt_struct /\ c.off_dt_strings = b.off_dt_strings
      /\ c.totalsize = b.totalsize /\ c.off_mem_rsvmap = b.off_mem_rsvmap
      /\ c.off_dt_struct = b.off_dt_struct /\ c.size_dt_strings = b.size_dt_strings
  BY <1>1, SameFields DEF Reshaped
<1>. QED
  BY <1>2 DEF SameOrder, Misordered, StructTop, DataSize

(* fdt_setprop_inplace, in whichever order the blocks are.                 *)
LEMMA SetPropInplaceKeeps ==
  ASSUME NEW b, Sound(b), NEW node \in Int, NEW name, NEW val, Len(val) \in Nat
  PROVE  LET w == fdt_setprop_inplace(b, node, name, val)
             prop == GetProperty(b, node, name)
         IN  /\ Kept(b, w.fdt)
             /\ \/ prop \in Errors /\ w = Result(b, prop)
                \/ /\ prop \in Tags(b) /\ PropLen(b, prop) # Len(val)
                   /\ w = Result(b, NOSPACE)
                \/ /\ prop \in Tags(b) /\ PropLen(b, prop) = Len(val) /\ w.ret = 0
                   /\ HasPut(b, w.fdt, prop, Following(b, prop) - prop,
                             PropName(b, prop), [i \in 1 .. Len(val) |-> val[i]])
                   /\ SameOrder(b, w.fdt)
<1> DEFINE T == FDT_TAGSIZE
           H == PropHeader
           L == Len(val)
           A == TagAlign(L)
           prop == GetProperty(b, node, name)
           off == b.off_dt_struct
           new == H + A
           cells == Bytes(val)
           c == PutValue(b, prop, 0, val)
<1>1. HasStruct(b)
  BY SoundIs
<1>2. fdt_setprop_inplace(b, node, name, val) =
        IF prop < 0 THEN Result(b, prop)
        ELSE IF PropLen(b, prop) # L THEN Result(b, NOSPACE)
        ELSE Result(c, 0)
  BY DEF fdt_setprop_inplace
<1>3. prop \in Errors \/ (prop \in Tags(b) /\ TagOf(b, prop) = "PROP")
  BY <1>1, GetPropertyIs
<1> HIDE DEF prop
<1>4. CASE prop \in Errors
  <2>1. fdt_setprop_inplace(b, node, name, val) = Result(b, prop)
    BY <1>2, <1>4 DEF Errors
  <2>. QED
    BY <1>4, <2>1 DEF Result, Kept, StaysSound, prop
<1>5. CASE (prop \in Tags(b) /\ TagOf(b, prop) = "PROP") /\ PropLen(b, prop) # L
  <2>1. prop \in Nat
    BY <1>1, <1>5, TagAt
  <2> HIDE DEF c
  <2>2. fdt_setprop_inplace(b, node, name, val) = Result(b, NOSPACE)
    BY <1>2, <1>5, <2>1
  <2>. QED
    BY <1>5, <2>2 DEF Result, Kept, StaysSound, prop, L
<1>6. CASE (prop \in Tags(b) /\ TagOf(b, prop) = "PROP") /\ PropLen(b, prop) = L
  <2>1. /\ prop \in Nat /\ IsMultiple(prop) /\ H \in Nat /\ H = 3 * T
        /\ L \in Nat /\ A \in Nat /\ L <= A /\ T \in Nat /\ T > 0
        /\ Following(b, prop) = prop + H + A
        /\ Following(b, prop) \in Tags(b)
        /\ NameOff(b, prop) \in 0 .. b.size_dt_strings - 1
    BY <1>1, <1>6, FoundProperty, TagSizeIs
  <2>2. /\ off \in Nat /\ b.size_dt_struct \in Nat /\ BUF_SIZE \in Nat
        /\ off + b.size_dt_struct <= BUF_SIZE
    BY NumbersAre
  <2> HIDE DEF H, L, A, T, off
  <2>3. new \in Nat /\ prop + new = Following(b, prop) /\ prop + new \in Tags(b)
    BY <2>1
  <2>4. off + prop + new <= BUF_SIZE
    <3>1. prop + new < b.size_dt_struct
      BY <2>2, <2>3 DEF Tags
    <3> HIDE DEF new
    <3>. QED
      BY <2>1, <2>2, <2>3, <3>1
  <2>5. /\ fdt_setprop_inplace(b, node, name, val).fdt = c
        /\ fdt_setprop_inplace(b, node, name, val).ret = 0
    <3> HIDE DEF c
    <3>1. fdt_setprop_inplace(b, node, name, val) = Result(c, 0)
      BY <1>2, <1>6, <2>1
    <3>. QED
      BY <3>1 DEF Result
  <2>6. /\ Len(cells) = L
        /\ \A i \in 1 .. L : cells[i][1] = "byte" /\ cells[i][2] = val[i]
    <3>1. \A i \in 1 .. Len(val) : cells[i] = <<"byte", val[i]>>
      BY DEF Bytes
    <3>2. Len(cells) = Len(val)
      BY BytesAre
    <3> HIDE DEF cells
    <3>. QED
      BY <3>1, <3>2 DEF L
  <2>7. c = Poke(b, off + prop + H, cells)
    <3>1. off + prop + H + 0 = off + prop + H
      BY <2>1, <2>2
    <3>. QED
      BY <3>1 DEF PutValue, H, off
  <2>8. H + L <= new
    BY <2>1
  <2> HIDE DEF c, cells
  <2>9. Reshaped(b, b, off + prop, new, new)
    <3>1. off + prop \in Nat
      BY <2>1, <2>2
    <3> HIDE DEF new
    <3>. QED
      BY <2>3, <3>1, NothingReshaped
  <2>10. Reshaped(b, c, off + prop, new, new) /\ PutIn(c, b, prop, new, H, cells)
    <3> HIDE DEF new
    <3>. QED
      BY <2>1, <2>3, <2>4, <2>6, <2>7, <2>8, <2>9, StructPoked DEF off
  <2>11. ASSUME NEW i \in 0 .. H - 1  PROVE Struct(c, prop + i) = Struct(b, prop + i)
    <3>1. i \in 0 .. new - 1 /\ i < H
      BY <2>1
    <3>. QED
      BY <2>10, <3>1 DEF PutIn
  <2>12. /\ Struct(c, prop) = Struct(b, prop)
         /\ Struct(c, prop + T) = Struct(b, prop + T)
         /\ Struct(c, prop + 2 * T) = Struct(b, prop + 2 * T)
    <3>1. /\ 0 \in 0 .. H - 1 /\ T \in 0 .. H - 1 /\ 2 * T \in 0 .. H - 1
          /\ prop + 0 = prop
      BY <2>1
    <3>. QED
      BY <2>11, <3>1
  <2>13. ASSUME NEW t \in prop + H .. prop + H + L - 1  PROVE Struct(c, t)[1] # "tag"
    <3> DEFINE i == t - (prop + H) + 1
    <3>1. i \in 1 .. L /\ prop + (H + (i - 1)) = t
      BY <2>1
    <3> HIDE DEF i
    <3>2. Struct(c, t) = cells[i]
      BY <2>6, <2>10, <3>1 DEF PutIn
    <3>. QED
      BY <2>6, <3>1, <3>2
  <2>14. Struct(b, prop + T)[1] # "tag" /\ Struct(b, prop + 2 * T)[1] # "tag"
    <3>1. /\ prop + T \in prop + 1 .. Following(b, prop) - 1
          /\ prop + 2 * T \in prop + 1 .. Following(b, prop) - 1
          /\ prop + 2 * T = (prop + T) + T
      BY <2>1
    <3>2. IsMultiple(prop + T) /\ IsMultiple(prop + 2 * T)
      BY <2>1, <3>1, Multiples DEF T
    <3>. QED
      BY <1>1, <1>6, <3>1, <3>2, NoTagBetween
  <2>15. /\ Kept(b, c) /\ OneProperty(b, c, prop, new, new)
         /\ PropLen(c, prop) = L /\ TagOf(c, prop) = "PROP"
         /\ PropName(c, prop) = PropName(b, prop)
    <3>1. /\ PropLen(c, prop) = L /\ NameOff(c, prop) = NameOff(b, prop)
          /\ Struct(c, prop)[1] = "tag" /\ TagOf(c, prop) = "PROP"
          /\ Struct(c, prop + FDT_TAGSIZE)[1] # "tag"
          /\ Struct(c, prop + 2 * FDT_TAGSIZE)[1] # "tag"
      BY <1>6, <2>12, <2>14 DEF PropLen, NameOff, TagOf, T, Tags
    <3>2. /\ PropLen(c, prop) \in Nat
          /\ new = PropHeader + TagAlign(PropLen(c, prop))
          /\ NameOff(c, prop) \in 0 .. b.size_dt_strings - 1
      BY <2>1, <3>1 DEF H, A
    <3>3. \A t \in prop + PropHeader .. prop + PropHeader + PropLen(c, prop) - 1 :
            IsMultiple(t) => Struct(c, t)[1] # "tag"
      BY <2>13, <3>1 DEF H
    <3>4. NameFits(b, c, prop, new) /\ PropName(c, prop) = PropName(b, prop)
      <4> HIDE DEF new
      <4>1. prop + new <= b.size_dt_struct
        BY <2>2, <2>3 DEF Tags
      <4>2. SameNames(b, c)
        BY <2>1, <2>3, <2>10, <4>1, ReshapedNames DEF off
      <4>3. PropName(c, prop) = PropName(b, prop)
        BY <2>1, <3>1, <4>2 DEF SameNames, PropName
      <4>. QED
        BY <1>6, <2>3, <4>3 DEF NameFits
    <3> HIDE DEF new
    <3>. QED
      BY <1>6, <2>3, <2>10, <3>1, <3>2, <3>3, <3>4, PropertyPutIn DEF off
  <2>16. PropVal(c, prop) = [i \in 1 .. L |-> val[i]]
    <3>1. PropVal(c, prop) = [i \in 1 .. L |-> Struct(c, prop + H + i - 1)[2]]
      BY <2>15 DEF PropVal, H
    <3>2. ASSUME NEW i \in 1 .. L  PROVE Struct(c, prop + H + i - 1)[2] = val[i]
      <4>1. prop + (H + (i - 1)) = prop + H + i - 1
        BY <2>1
      <4>2. Struct(c, prop + (H + (i - 1))) = cells[i]
        BY <2>6, <2>10, <3>2 DEF PutIn
      <4>. QED
        BY <2>6, <3>2, <4>1, <4>2
    <3>. QED
      BY <3>1, <3>2
  <2>17. new = Following(b, prop) - prop
    BY <2>1
  <2> HIDE DEF new
  <2>18. HasPut(b, c, prop, new, PropName(b, prop), [i \in 1 .. L |-> val[i]])
    BY <2>3, <2>15, <2>16 DEF HasPut
  <2>19. SameOrder(b, c)
    BY <2>3, <2>10, OrderStays
  <2>. QED
    BY <1>6, <2>5, <2>15, <2>17, <2>18, <2>19 DEF L, prop
<1>. QED
  BY <1>3, <1>4, <1>5, <1>6

(* The cells NopRegion writes.                                             *)
Nops(n) == [j \in 1 .. n |-> IF (j - 1) % FDT_TAGSIZE = 0
                               THEN <<"tag", "NOP">> ELSE Rest]

(* The words of _fdt_nop_region.                                           *)
LEMMA WordsAre ==
  ASSUME NEW len \in Nat, len > 0
  PROVE  LET words == (len + FDT_TAGSIZE - 1) \div FDT_TAGSIZE
         IN  words \in Nat /\ words > 0 /\ words * FDT_TAGSIZE = TagAlign(len)
<1> DEFINE T == FDT_TAGSIZE
           m == len + T - 1
           q == m \div T
           x == m % T
<1>1. T \in Nat /\ T > 0
  BY TagSizeIs
<1>2. m \in Int /\ m >= T
  BY <1>1
<1>3. q \in Int /\ x \in 0 .. T - 1 /\ m = T * q + x
  <2> HIDE DEF m
  <2>. QED
    BY <1>2, Divided
<1> HIDE DEF q, x, T
<1> DEFINE k == T * q
<1>4. k \in Int /\ len <= k /\ k < len + T /\ k > 0
  <2>1. k \in Int
    BY <1>1, <1>3
  <2>2. len + T - 1 = k + x
    BY <1>3
  <2> HIDE DEF k
  <2>. QED
    BY <1>1, <1>3, <2>1, <2>2
<1>5. IsMultiple(k)
  BY <1>3, MultipleIs DEF T
<1>6. TagAlign(len) = k
  <2> HIDE DEF k
  <2>. QED
    BY <1>4, <1>5, OneAlignment DEF T
<1>7. q > 0
  <2>1. q <= 0 => T * q <= 0
    <3>1. ASSUME q <= 0  PROVE T * q <= 0
      <4>1. -q \in Nat /\ T * (-q) >= 0 /\ T * q = -(T * (-q))
        BY <1>1, <1>3, <3>1
      <4>. QED
        BY <1>1, <1>3, <4>1
    <3>. QED
      BY <3>1
  <2>. QED
    BY <1>3, <1>4, <2>1
<1>8. q * T = k
  BY <1>1, <1>3
<1>. QED
  BY <1>3, <1>6, <1>7, <1>8 DEF q, T

(* The cells it writes.                                                    *)
LEMMA NopCellsAre ==
  ASSUME NEW words \in Nat, words > 0
  PROVE  FlattenSeq([i \in 1 .. words |-> Tag("NOP")]) = Nops(words * FDT_TAGSIZE)
<1> DEFINE T == FDT_TAGSIZE
           seqs == [i \in 1 .. words |-> Tag("NOP")]
           f == [i \in 1 .. words |-> Nops(i * T)]
<1>1. T \in Nat /\ T > 0
  BY TagSizeIs
<1>2. Len(seqs) = words
  OBVIOUS
<1>3. Tag("NOP") = Nops(T)
  <2>1. Tag("NOP") = [j \in 1 .. T |-> IF j = 1 THEN <<"tag", "NOP">> ELSE Rest]
    BY DEF Tag, Word, Cells
  <2>2. ASSUME NEW j \in 1 .. T  PROVE (j - 1) % T = 0 <=> j = 1
    <3>1. (T * 0 + (j - 1)) % T = j - 1 /\ T * 0 + (j - 1) = j - 1
      BY <1>1, Remainder
    <3>. QED
      BY <1>1, <3>1
  <2>. QED
    BY <2>1, <2>2 DEF Nops
<1>4. f[1] = seqs[1]
  <2>1. 1 \in 1 .. words /\ 1 * T = T
    BY <1>1
  <2>. QED
    BY <1>3, <2>1
<1>5. ASSUME NEW i \in 2 .. Len(seqs)  PROVE f[i] = f[i - 1] \o seqs[i]
  <2> DEFINE a == (i - 1) * T
  <2>1. i \in 1 .. words /\ i - 1 \in 1 .. words
    BY <1>2
  <2>2. a \in Nat /\ i * T = a + T
    BY <1>1, <2>1
  <2>3. IsMultiple(a)
    <3>1. a = FDT_TAGSIZE * (i - 1) /\ i - 1 \in Int
      BY <1>1, <2>1
    <3>. QED
      BY <3>1, MultipleIs
  <2> HIDE DEF a
  <2>4. f[i] = Nops(a + T) /\ f[i - 1] = Nops(a) /\ seqs[i] = Nops(T)
    BY <1>3, <2>1, <2>2 DEF a
  <2>5. Nops(a + T) = Nops(a) \o Nops(T)
    <3> DEFINE S == {<<"tag", "NOP">>, Rest}
               x == Nops(a)
               y == Nops(T)
    <3>1. x \in Seq(S) /\ Len(x) = a
      BY <2>2 DEF Nops
    <3>2. y \in Seq(S) /\ Len(y) = T
      BY <1>1 DEF Nops
    <3>3. Nops(a) \o Nops(T) = [j \in 1 .. a + T |->
            IF j <= a THEN Nops(a)[j] ELSE Nops(T)[j - a]]
      <4> HIDE DEF x, y, S
      <4>1. x \o y = [j \in 1 .. a + T |-> IF j <= a THEN x[j] ELSE y[j - a]]
        <5>1. Len(x \o y) = a + T /\ x \o y \in Seq(S)
          BY <3>1, <3>2
        <5>2. ASSUME NEW j \in 1 .. a + T
              PROVE (x \o y)[j] = IF j <= a THEN x[j] ELSE y[j - a]
          BY <3>1, <3>2
        <5>3. DOMAIN (x \o y) = 1 .. a + T
          BY <5>1
        <5>4. x \o y = [j \in DOMAIN (x \o y) |-> (x \o y)[j]]
          <6> DEFINE z == x \o y
          <6>1. z \in Seq(S)
            BY <5>1
          <6> HIDE DEF z
          <6>2. z \in [1 .. Len(z) -> S]
            BY <6>1
          <6>3. z = [j \in DOMAIN z |-> z[j]]
            BY <6>2
          <6>. QED
            BY <6>3 DEF z
        <5>. QED
          BY <5>2, <5>3, <5>4
      <4>. QED
        BY <4>1 DEF x, y
    <3>4. ASSUME NEW j \in 1 .. a + T
          PROVE  Nops(a + T)[j] = IF j <= a THEN Nops(a)[j] ELSE Nops(T)[j - a]
      <4>1. CASE j <= a
        <5>1. j \in 1 .. a
          BY <1>1, <2>2, <4>1
        <5>. QED
          BY <4>1, <5>1 DEF Nops
      <4>2. CASE ~(j <= a)
        <5>1. j - a \in 1 .. T /\ j - 1 \in Int /\ j - a - 1 \in Int
          BY <1>1, <2>2, <4>2
        <5>2. IsMultiple(j - 1) <=> IsMultiple(j - a - 1)
          <6>1. (j - 1) - a = j - a - 1 /\ (j - a - 1) + a = j - 1
            BY <2>2, <5>1
          <6>2. IsMultiple(j - 1) => IsMultiple((j - 1) - a)
            BY <2>3, Multiples
          <6>3. IsMultiple(j - a - 1) => IsMultiple((j - a - 1) + a)
            BY <2>3, Multiples
          <6>. QED
            BY <6>1, <6>2, <6>3
        <5>3. (j - 1) % T = 0 <=> (j - a - 1) % T = 0
          BY <5>1, <5>2 DEF IsMultiple
        <5>. QED
          BY <4>2, <5>1, <5>3 DEF Nops
      <4>. QED
        BY <4>1, <4>2
    <3>. QED
      BY <3>3, <3>4 DEF Nops
  <2>. QED
    BY <2>4, <2>5
<1> HIDE DEF seqs, f
<1>6. FlattenSeq(seqs) = f[Len(seqs)]
  <2>1. Len(seqs) \in Nat \ {0}
    BY <1>2
  <2>. QED
    BY <1>4, <1>5, <2>1, FlattenIs
<1>7. f[words] = Nops(words * T)
  <2>1. words \in 1 .. words
    OBVIOUS
  <2>. QED
    BY <2>1 DEF f
<1>. QED
  BY <1>2, <1>6, <1>7 DEF seqs

(* In c there are NOP tags from o on, and nothing else where there was more. *)
Nopped(b, c, o, k) ==
  /\ Edited(b, c, o, k, k) /\ SameNames(b, c) /\ k \in Nat /\ IsMultiple(k)
  /\ \A t \in Tags(c) : o <= t /\ t < o + k => TagOf(c, t) = "NOP"

(* The region from a tag to a tag becomes NOP tags.                        *)
LEMMA NopKeeps ==
  ASSUME NEW b, Sound(b), NEW o \in Tags(b), NEW len \in Nat, len > 0,
         o + TagAlign(len) \in Tags(b), Passes(b, o, o + TagAlign(len))
  PROVE  LET c == NopRegion(b, o, len)
         IN  Kept(b, c) /\ Nopped(b, c, o, TagAlign(len)) /\ SameOrder(b, c)
<1> DEFINE T == FDT_TAGSIZE
           k == TagAlign(len)
           off == b.off_dt_struct
           cells == Nops(k)
           c == NopRegion(b, o, len)
<1>1. /\ T \in Nat /\ T > 0 /\ o \in Nat /\ IsMultiple(o)
      /\ k \in Nat /\ IsMultiple(k) /\ len <= k
  <2>1. HasStruct(b)
    BY SoundIs
  <2>2. o \in Nat /\ IsMultiple(o)
    BY <2>1, TagAt
  <2>3. k \in Nat /\ IsMultiple(k) /\ len <= k
    <3>1. IsMultiple(k) /\ len <= k
      BY AlignIs
    <3> HIDE DEF k
    <3>. QED
      BY <3>1 DEF IsMultiple
  <2>. QED
    BY <2>2, <2>3, TagSizeIs
<1>2. Len(cells) = k
  <2> HIDE DEF k
  <2>. QED
    BY <1>1 DEF Nops
<1>3. c = Poke(b, off + o, cells)
  <2> DEFINE words == (len + FDT_TAGSIZE - 1) \div FDT_TAGSIZE
  <2>1. words \in Nat /\ words > 0 /\ words * FDT_TAGSIZE = k
    BY WordsAre
  <2>2. c = Poke(b, off + o, FlattenSeq([i \in 1 .. words |-> Tag("NOP")]))
    BY DEF NopRegion
  <2> HIDE DEF words, c, k
  <2>3. FlattenSeq([i \in 1 .. words |-> Tag("NOP")]) = Nops(k)
    BY <2>1, NopCellsAre
  <2>. QED
    BY <2>2, <2>3
<1>4. /\ off \in Nat /\ b.size_dt_struct \in Nat /\ BUF_SIZE \in Nat
      /\ off + b.size_dt_struct <= BUF_SIZE
  BY NumbersAre
<1>5. o + k < b.size_dt_struct
  BY <1>4 DEF Tags
<1> HIDE DEF k, off, c, cells, T
<1>6. off + o + k <= BUF_SIZE
  BY <1>1, <1>4, <1>5
<1>7. Reshaped(b, b, off + o, k, k)
  <2>1. off + o \in Nat
    BY <1>1, <1>4
  <2>. QED
    BY <1>1, <2>1, NothingReshaped
<1>8. Reshaped(b, c, off + o, k, k) /\ PutIn(c, b, o, k, 0, cells)
  <2>1. 0 \in Nat /\ Len(cells) \in Nat /\ 0 + Len(cells) <= k
    BY <1>1, <1>2
  <2>2. c = Poke(b, off + o + 0, cells)
    BY <1>1, <1>3, <1>4
  <2>. QED
    BY <1>1, <1>6, <1>7, <2>1, <2>2, StructPoked DEF off
<1>9. o + k \in Tags(c)
  BY <1>1, <1>8, ReshapedTag DEF off, k
<1>10. /\ c.size_dt_struct = b.size_dt_struct
       /\ c.size_dt_struct \in Nat
  <2>1. c.size_dt_struct = b.size_dt_struct - k + k
    BY <1>8 DEF Reshaped
  <2>. QED
    BY <1>1, <1>4, <2>1
<1>11. ASSUME NEW t \in o .. o + k - 1, IsMultiple(t)
       PROVE  Struct(c, t) = <<"tag", "NOP">>
  <2> DEFINE i == t - o + 1
  <2>1. i \in 1 .. k /\ o + (0 + (i - 1)) = t /\ i - 1 = t - o /\ t - o \in Int
    BY <1>1
  <2>2. IsMultiple(t - o)
    BY <1>1, <1>11, Multiples
  <2>3. (i - 1) % FDT_TAGSIZE = 0
    BY <2>1, <2>2 DEF IsMultiple
  <2> HIDE DEF i
  <2>4. cells[i] = <<"tag", "NOP">>
    BY <2>1, <2>3 DEF Nops, cells
  <2>5. Struct(c, o + (0 + (i - 1))) = cells[i]
    BY <1>2, <1>8, <2>1 DEF PutIn
  <2>. QED
    BY <2>1, <2>4, <2>5
<1>12. ASSUME NEW t \in o .. o + k, IsMultiple(t)
       PROVE  t \in Tags(c)
  <2>1. CASE t = o + k
    BY <1>9, <2>1
  <2>2. CASE t \in o .. o + k - 1
    <3>1. t \in 0 .. c.size_dt_struct - 1
      BY <1>1, <1>4, <1>5, <1>10, <2>2
    <3>2. Struct(c, t)[1] = "tag"
      BY <1>11, <1>12, <2>2
    <3>. QED
      BY <1>12, <3>1, <3>2 DEF Tags, IsMultiple
  <2>. QED
    BY <1>1, <2>1, <2>2
<1>13. o \in Tags(c)
  <2>1. o \in o .. o + k
    BY <1>1
  <2>. QED
    BY <1>1, <1>12, <2>1
<1>14. ASSUME NEW t \in Tags(c), t \in o .. o + k - 1
       PROVE  TagIsSound(c, t)
  <2> DEFINE next == t + T
  <2>1. t \in Nat /\ IsMultiple(t) /\ t % FDT_TAGSIZE = 0
    BY <1>1, <1>14 DEF Tags, IsMultiple
  <2>2. next \in o .. o + k
    <3>1. IsMultiple(o + k)
      BY <1>1, Multiples
    <3>2. o + k \in Int /\ t \in Int /\ t < o + k /\ t >= o
      BY <1>1, <1>14
    <3>3. t + FDT_TAGSIZE <= o + k
      BY <2>1, <3>1, <3>2, Multiples
    <3>. QED
      BY <1>1, <3>2, <3>3 DEF T
  <2>3. IsMultiple(next)
    BY <2>1, Multiples, TagSizeIs DEF T
  <2>4. next \in Tags(c)
    <3> HIDE DEF next
    <3>. QED
      BY <1>12, <2>2, <2>3
  <2>5. Struct(c, t)[1] = "tag" /\ TagOf(c, t) \in {"END_NODE", "NOP"}
    BY <1>11, <1>14, <2>1 DEF TagOf
  <2>6. next = t + FDT_TAGSIZE
    BY DEF T
  <2> HIDE DEF next
  <2>. QED
    BY <1>10, <2>1, <2>4, <2>5, <2>6, ShortTagWritten
<1>15. HasStruct(b) /\ HasStruct(c) /\ Edited(b, c, o, k, k) /\ SameNames(b, c)
  <2>1. HasStruct(b)
    BY SoundIs
  <2>2. o + k <= b.size_dt_struct
    BY <1>1, <1>4, <1>5
  <2>3. Edited(b, c, o, k, k) /\ c.size_dt_strings = b.size_dt_strings
    BY <1>1, <1>8, <2>2, ReshapedStruct DEF off
  <2>4. o + k \in Tags(b)
    BY DEF k
  <2>5. SameNames(b, c)
    BY <1>1, <1>8, <2>2, ReshapedNames DEF off
  <2>. QED
    BY <1>1, <1>13, <1>14, <2>1, <2>3, <2>4, <2>5, EditedIsSound
<1>16. /\ Ordered(b) => Mended(b, c, o, k, k)
       /\ \A t \in Tags(c) : o <= t /\ t < o + k => TagOf(c, t) = "NOP"
  <2>1. ASSUME NEW t \in Tags(c), o <= t, t < o + k  PROVE TagOf(c, t) = "NOP"
    <3>1. t \in Nat /\ IsMultiple(t)
      BY DEF Tags, IsMultiple
    <3>2. t \in o .. o + k - 1
      BY <1>1, <2>1, <3>1
    <3>. QED
      BY <1>11, <3>1, <3>2 DEF TagOf
  <2>2. Passes(b, o, o + k)
    BY DEF k
  <2>. QED
    BY <1>1, <1>9, <1>15, <2>1, <2>2, NopsMend
<1>17. Kept(b, c)
  BY <1>1, <1>8, <1>13, <1>14, <1>16, ReshapedIsSound DEF off, k
<1>18. Nopped(b, c, o, k)
  BY <1>1, <1>15, <1>16 DEF Nopped
<1>19. SameOrder(b, c)
  BY <1>1, <1>8, OrderStays
<1>. QED
  BY <1>17, <1>18, <1>19 DEF c, k

(* fdt_nop_property.                                                       *)
LEMMA NopPropertyKeeps ==
  ASSUME NEW b, Sound(b), NEW node \in Int, NEW name
  PROVE  LET w == fdt_nop_property(b, node, name)
             prop == GetProperty(b, node, name)
         IN  /\ Kept(b, w.fdt)
             /\ \/ prop \in Errors /\ w = Result(b, prop)
                \/ /\ prop \in Tags(b) /\ w.ret = 0
                   /\ Nopped(b, w.fdt, prop, Following(b, prop) - prop)
                   /\ SameOrder(b, w.fdt)
<1> DEFINE prop == GetProperty(b, node, name)
           len == PropLen(b, prop) + PropHeader
           c == NopRegion(b, prop, len)
<1>1. HasStruct(b)
  BY SoundIs
<1>2. fdt_nop_property(b, node, name) =
        IF prop < 0 THEN Result(b, prop) ELSE Result(c, 0)
  BY DEF fdt_nop_property
<1>3. prop \in Errors \/ (prop \in Tags(b) /\ TagOf(b, prop) = "PROP")
  BY <1>1, GetPropertyIs
<1> HIDE DEF prop
<1>4. CASE prop \in Errors
  <2>1. fdt_nop_property(b, node, name) = Result(b, prop)
    BY <1>2, <1>4 DEF Errors
  <2>. QED
    BY <1>4, <2>1 DEF Result, Kept, StaysSound, prop
<1>5. CASE prop \in Tags(b) /\ TagOf(b, prop) = "PROP"
  <2> DEFINE L == PropLen(b, prop)
             H == PropHeader
  <2>1. /\ prop \in Nat /\ H \in Nat /\ H = 3 * FDT_TAGSIZE /\ L \in Nat
        /\ TagAlign(L) \in Nat
        /\ Following(b, prop) = prop + H + TagAlign(L)
        /\ Following(b, prop) \in Tags(b)
    BY <1>1, <1>5, FoundProperty
  <2>2. FDT_TAGSIZE \in Nat /\ FDT_TAGSIZE > 0
    BY TagSizeIs
  <2> HIDE DEF L, H
  <2>3. H > 0 /\ IsMultiple(H)
    <3>1. IsMultiple(FDT_TAGSIZE * 3) /\ FDT_TAGSIZE * 3 = H
      BY <2>1, <2>2, MultipleIs
    <3>. QED
      BY <2>1, <2>2, <3>1
  <2>4. TagAlign(L + H) = TagAlign(L) + H
    <3>1. TagAlign(H + L) = H + TagAlign(L)
      BY <2>1, <2>3, AlignmentMoves
    <3>2. H + L = L + H /\ H + TagAlign(L) = TagAlign(L) + H
      BY <2>1
    <3>. QED
      BY <3>1, <3>2
  <2>5. len = L + H
    BY DEF L, H
  <2> HIDE DEF len
  <2>6. /\ len \in Nat /\ len > 0 /\ prop + TagAlign(len) \in Tags(b)
        /\ TagAlign(len) = Following(b, prop) - prop
        /\ Passes(b, prop, prop + TagAlign(len))
    <3>1. prop + TagAlign(len) = Following(b, prop)
      BY <2>1, <2>4, <2>5
    <3>2. Passes(b, prop, Following(b, prop))
      BY <1>5, PropertyPasses
    <3>3. TagAlign(len) = Following(b, prop) - prop
      BY <2>1, <2>4, <2>5
    <3>4. len \in Nat /\ len > 0
      BY <2>1, <2>3, <2>5
    <3>. QED
      BY <2>1, <3>1, <3>2, <3>3, <3>4
  <2>7. Kept(b, c) /\ Nopped(b, c, prop, TagAlign(len)) /\ SameOrder(b, c)
    <3> HIDE DEF c
    <3>1. c = NopRegion(b, prop, len)
      BY DEF c
    <3>. QED
      BY <1>5, <2>6, <3>1, NopKeeps
  <2> HIDE DEF c
  <2>8. fdt_nop_property(b, node, name) = Result(c, 0)
    BY <1>2, <2>1
  <2>. QED
    BY <1>5, <2>6, <2>7, <2>8 DEF Result, prop
<1>. QED
  BY <1>3, <1>4, <1>5

(* fdt_nop_node.                                                           *)
LEMMA NopNodeKeeps ==
  ASSUME NEW b, Sound(b), NEW node \in Int
  PROVE  LET w == fdt_nop_node(b, node)
             end == NodeEndOffset(b, node)
         IN  /\ Kept(b, w.fdt)
             /\ \/ end \in Errors /\ w = Result(b, end)
                \/ /\ node \in Tags(b) /\ end \in Tags(b) /\ end > node /\ w.ret = 0
                   /\ Nopped(b, w.fdt, node, end - node)
                   /\ SameOrder(b, w.fdt)
<1> DEFINE end == NodeEndOffset(b, node)
           len == end - node
           c == NopRegion(b, node, len)
<1>1. HasStruct(b)
  BY SoundIs
<1>2. fdt_nop_node(b, node) =
        IF end < 0 THEN Result(b, end) ELSE Result(c, 0)
  BY DEF fdt_nop_node
<1>3. \/ end \in Errors
      \/ /\ node \in Tags(b) /\ end \in Tags(b) /\ end > node
         /\ Passes(b, node, end)
  BY <1>1, NodeEndOffsetIs
<1> HIDE DEF end
<1>4. CASE end \in Errors
  <2>1. fdt_nop_node(b, node) = Result(b, end)
    BY <1>2, <1>4 DEF Errors
  <2>. QED
    BY <1>4, <2>1 DEF Result, Kept, StaysSound, end
<1>5. CASE /\ node \in Tags(b) /\ end \in Tags(b) /\ end > node
           /\ Passes(b, node, end)
  <2>1. node \in Nat /\ IsMultiple(node) /\ end \in Nat /\ IsMultiple(end)
    BY <1>1, <1>5, TagAt
  <2>2. len \in Nat /\ len > 0 /\ node + len = end
    BY <1>5, <2>1
  <2>3. IsMultiple(len)
    BY <2>1, Multiples
  <2>4. fdt_nop_node(b, node) = Result(c, 0)
    <3> HIDE DEF c, len
    <3>. QED
      BY <1>2, <2>1
  <2> HIDE DEF len
  <2>5. TagAlign(len) = len
    BY <2>2, <2>3, AlignedStays
  <2>6. Kept(b, c) /\ Nopped(b, c, node, len) /\ SameOrder(b, c)
    <3> HIDE DEF c
    <3>1. c = NopRegion(b, node, len)
      BY DEF c
    <3>2. Passes(b, node, node + TagAlign(len)) /\ node + TagAlign(len) \in Tags(b)
      BY <1>5, <2>2, <2>5
    <3>. QED
      BY <1>5, <2>2, <2>5, <3>1, <3>2, NopKeeps
  <2> HIDE DEF c
  <2>. QED
    BY <1>5, <2>4, <2>6 DEF Result, len, end
<1>. QED
  BY <1>3, <1>4, <1>5
=============================================================================
