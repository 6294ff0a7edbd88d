------------------------------- MODULE DlMalloc -------------------------------
(***************************************************************************)
(* The allocator of libutils/isoc/dlmalloc.c as it is configured here:     *)
(* sizes of 4 bytes, no mmap, memory from sbrk of malloc_wrapper.c, which  *)
(* is clear.                                                               *)
(*                                                                         *)
(* A heap h has its memory, a number for each word between start and end,  *)
(* and what the code keeps in static variables.  In memory are the heads   *)
(* and feet of chunks and the data of the blocks, so that a word written   *)
(* or read at a wrong time is seen.  The links of a free chunk are there   *)
(* as LINK; the lists they make are sequences, from first to last.  The    *)
(* list of bin 1 is last_remainder.                                        *)
(***************************************************************************)
EXTENDS Integers, Sequences, SequencesExt, FiniteSets, FiniteSetsExt

CONSTANTS
  PAGE,  \* malloc_getpagesize, a multiple of 8
  WORD   \* the integers wrap at: 2^32, or a smaller power of two

SIZE_SZ == 4
ALIGNMENT == 2 * SIZE_SZ
MINSIZE == 4 * SIZE_SZ

NULL == 0
InitialTop == 0  \* the head of bin 0, whose size is that of an empty chunk
NoBase == -1
FAILURE == -1
LINK == -1

Unsigned(x) == x % WORD
Signed(x) == IF x >= WORD \div 2 THEN x - WORD ELSE x

Down(x, n) == n * (x \div n)
Up(x, n) == Down(x + n - 1, n)

Result(h, ret) == [heap |-> h, ret |-> ret]

chunk2mem(p) == p + 2 * SIZE_SZ
mem2chunk(mem) == mem - 2 * SIZE_SZ

request2size(req) ==
  LET padded == Unsigned(req + SIZE_SZ + ALIGNMENT - 1)
  IN  IF Signed(padded) < MINSIZE + ALIGNMENT - 1 THEN MINSIZE
      ELSE Down(padded, ALIGNMENT)

-----------------------------------------------------------------------------
(* Heads and feet.  The lowest bit of a head says whether the chunk in     *)
(* front of this one is in use.                                            *)
Header(h, p) == h.mem[p + SIZE_SZ]

chunksize(h, p) == IF p = InitialTop THEN 0 ELSE Down(Header(h, p), 4)

prev_inuse(h, p) == Header(h, p) % 2 = 1

prev_size(h, p) == h.mem[p]

inuse(h, p) == prev_inuse(h, p + chunksize(h, p))

SetHead(h, p, s, bit) == [h EXCEPT !.mem[p + SIZE_SZ] = s + bit]

SetHeadSize(h, p, s) == SetHead(h, p, s, Header(h, p) % 2)

SetFoot(h, p, s) == [h EXCEPT !.mem[p + s] = s]

SetInuse(h, p, s) ==
  [h EXCEPT !.mem[p + s + SIZE_SZ] = Down(@, 2) + 1]

-----------------------------------------------------------------------------
(* Bins.                                                                   *)
MAX_SMALLBIN_SIZE == 512
BINBLOCKWIDTH == 4

Bins == 1 .. 126

bin_index(size) ==
  LET k == size \div 512
  IN  CASE k = 0             -> size \div 8
        [] k \in 1 .. 4      -> 56 + size \div 64
        [] k \in 5 .. 20     -> 91 + k
        [] k \in 21 .. 84    -> 110 + size \div 4096
        [] k \in 85 .. 340   -> 119 + size \div 32768
        [] k \in 341 .. 1364 -> 124 + size \div 262144
        [] OTHER             -> 126

Block(i) == i \div BINBLOCKWIDTH

Linked(h, i, list, p) ==
  [h EXCEPT !.bins[i] = list, !.mem[p + 2 * SIZE_SZ] = LINK,
            !.mem[p + 3 * SIZE_SZ] = LINK]

(* The chunks of a bin go from the largest to the smallest, the newest of  *)
(* each size first.                                                        *)
frontlink(h, p) ==
  LET s      == chunksize(h, p)
      i      == bin_index(s)
      larger == SelectSeq(h.bins[i], LAMBDA q : s < chunksize(h, q))
      rest   == SubSeq(h.bins[i], Len(larger) + 1, Len(h.bins[i]))
      marks  == s < MAX_SMALLBIN_SIZE \/ h.bins[i] = <<>>
  IN  [Linked(h, i, Append(larger, p) \o rest, p) EXCEPT
         !.binblocks = IF marks THEN @ \cup {Block(i)} ELSE @]

unlink(h, p) ==
  LET i == CHOOSE j \in Bins : Contains(h.bins[j], p)
  IN  [h EXCEPT !.bins[i] = SelectSeq(@, LAMBDA q : q # p)]

IsLastRemainder(h, p) == h.bins[1] = <<p>>

link_last_remainder(h, p) == Linked(h, 1, <<p>>, p)

-----------------------------------------------------------------------------
(* Mutant: what is given back keeps what was written into it.              *)
sbrkUncleared(h, size) ==
  LET brk == Unsigned(h.brk + size)
  IN  IF h.start = NoBase \/ brk < h.start \/ brk > h.end
        THEN Result(h, FAILURE)
      ELSE Result([h EXCEPT !.brk = brk], h.brk)

(* sbrk of malloc_wrapper.c.  What it is given back it clears.             *)
sbrk(h, size) ==
  LET brk == Unsigned(h.brk + size)
  IN  IF h.start = NoBase \/ brk < h.start \/ brk > h.end
        THEN Result(h, FAILURE)
      ELSE Result([h EXCEPT
                     !.brk = brk,
                     !.mem = IF Signed(size) >= 0 THEN @
                             ELSE [a \in DOMAIN @ |->
                                     IF a >= brk /\ a < h.brk THEN 0 ELSE @[a]]],
                  h.brk)

(* What of top is too much, in pages; without sign until it is compared.   *)
Extra(h, pad) ==
  LET size == Unsigned(chunksize(h, h.top) - pad - MINSIZE + PAGE - 1)
  IN  Signed(Unsigned((size \div PAGE - 1) * PAGE))

TopIs(h, size) == SetHead(h, h.top, size, 1)

(* It does not own the end of its memory if someone else called sbrk.      *)
malloc_trim(h, pad) ==
  LET size  == chunksize(h, h.top)
      extra == Extra(h, pad)
  IN  IF extra < PAGE \/ h.brk # h.top + size THEN Result(h, 0)
      ELSE LET r == sbrk(h, Unsigned(-extra))
           IN  IF r.ret = FAILURE
                 THEN Result([TopIs(h, h.brk - h.top) EXCEPT
                                !.sbrked_mem = h.brk - h.sbrk_base], 0)
               ELSE Result([TopIs(r.heap, size - extra) EXCEPT
                              !.sbrked_mem = @ - extra], 1)

-----------------------------------------------------------------------------
(* The chunk that begins at q and ends with the top.                       *)
MergeWithTop(h, q, size) ==
  LET merged == TopIs([h EXCEPT !.top = q], size)
  IN  IF size >= h.trim_threshold THEN malloc_trim(merged, h.top_pad).heap
      ELSE merged

(* Mutant: last_remainder is put into a bin too.                           *)
ConsolidatedTwice(h, q, size, islr) ==
  frontlink(SetFoot(SetHead(h, q, size, 1), q, size), q)

Consolidated(h, q, size, islr) ==
  LET chunk == SetFoot(SetHead(h, q, size, 1), q, size)
  IN  IF islr THEN chunk ELSE frontlink(chunk, q)

(* Joined to the chunk in front of it, q, it ends at next.                 *)
ConsolidateForward(h, q, next, islr) ==
  LET size == next + chunksize(h, next) - q
  IN  IF inuse(h, next) THEN Consolidated(h, q, next - q, islr)
      ELSE IF ~islr /\ IsLastRemainder(h, next)
        THEN Consolidated(link_last_remainder(h, q), q, size, TRUE)
      ELSE Consolidated(unlink(h, next), q, size, islr)

fREe(h, mem) ==
  LET p       == mem2chunk(mem)
      next    == p + chunksize(h, p)
      cleared == SetHead(h, next, chunksize(h, next), 0)
      q       == IF prev_inuse(h, p) THEN p ELSE p - prev_size(h, p)
      islr    == q # p /\ IsLastRemainder(h, q)
  IN  IF mem = NULL THEN h
      ELSE IF next = h.top
        THEN MergeWithTop(IF q = p THEN h ELSE unlink(h, q), q,
                          next + chunksize(h, next) - q)
      ELSE ConsolidateForward(
             IF q = p \/ islr THEN cleared ELSE unlink(cleared, q),
             q, next, islr)

-----------------------------------------------------------------------------
(* The end of malloc_extend_top: the most memory there has been.           *)
Noted(h) ==
  [h EXCEPT !.max_sbrked_mem = Max({@, h.sbrked_mem})]

(* The old top ends with two chunks that are never free.                   *)
Fenced(h, old, size) ==
  LET s == Down(size - 3 * SIZE_SZ, ALIGNMENT)
      f == SetHead(SetHead(SetHeadSize(h, old, s), old + s, SIZE_SZ, 1),
                   old + s + SIZE_SZ, SIZE_SZ, 1)
  IN  IF s >= MINSIZE THEN fREe(f, chunk2mem(old)) ELSE f

(* Mutant: what the second sbrk gave is not counted.                       *)
NewTopUncounted(h, old, oldsize, brk, size, correction) ==
  LET r   == sbrk(h, correction)
      new == SetHead([r.heap EXCEPT !.top = brk], brk, r.ret - brk + correction, 1)
  IN  IF r.ret = FAILURE THEN h
      ELSE IF old = InitialTop THEN Noted(new)
      ELSE IF oldsize < MINSIZE THEN TopIs(new, 0)
      ELSE Noted(Fenced(new, old, oldsize))

(* h: with what the first sbrk gave.  brk: aligned.                        *)
NewTop(h, old, oldsize, brk, size, correction) ==
  LET r   == sbrk(h, correction)
      new == SetHead([r.heap EXCEPT !.top = brk,
                                    !.sbrked_mem = @ + correction],
                     brk, r.ret - brk + correction, 1)
  IN  IF r.ret = FAILURE THEN h
      ELSE IF old = InitialTop THEN Noted(new)
      ELSE IF oldsize < MINSIZE THEN TopIs(new, 0)
      ELSE Noted(Fenced(new, old, oldsize))

(* A top that is not the end of the memory, the first one among them.      *)
OtherTop(h, old, oldsize, brk, size) ==
  LET counted == [h EXCEPT
        !.sbrked_mem = @ + IF h.sbrk_base = NoBase THEN 0 ELSE brk - (old + oldsize),
        !.sbrk_base = IF @ = NoBase THEN brk ELSE @]
      aligned == Up(brk, ALIGNMENT)
  IN  NewTop(counted, old, oldsize, aligned, size,
             aligned - brk + Up(aligned + size, PAGE) - (aligned + size))

ExtendBy(h, size) ==
  LET r       == sbrk(h, size)
      oldsize == chunksize(h, h.top)
      end     == h.top + oldsize
      counted == [r.heap EXCEPT !.sbrked_mem = @ + size]
  IN  IF r.ret = FAILURE \/ (r.ret < end /\ h.top # InitialTop) THEN r.heap
      ELSE IF r.ret = end THEN Noted(TopIs(counted, size + oldsize))
      ELSE OtherTop(counted, h.top, oldsize, r.ret, size)

malloc_extend_top(h, nb) ==
  LET size == Unsigned(nb + h.top_pad + MINSIZE)
  IN  ExtendBy(h, IF h.sbrk_base = NoBase THEN size ELSE Unsigned(Up(size, PAGE)))

-----------------------------------------------------------------------------
(* malloc, from the most exact place to the least.                         *)
is_small_request(nb) == nb < MAX_SMALLBIN_SIZE - 8

LastOf(list) == IF list = <<>> THEN NULL ELSE Last(list)

(* The smallest chunk of a bin that is large enough, the oldest of these.  *)
FirstFit(h, i, nb) ==
  LastOf(SelectSeq(h.bins[i], LAMBDA q : chunksize(h, q) >= nb))

(* A chunk without a remainder that could be one.                          *)
ExactFit(h, nb) ==
  LET i   == bin_index(nb)
      fit == FirstFit(h, i, nb)
  IN  IF is_small_request(nb)
        THEN LastOf(IF h.bins[i] # <<>> THEN h.bins[i] ELSE h.bins[i + 1])
      ELSE IF fit # NULL /\ chunksize(h, fit) - nb < MINSIZE THEN fit
      ELSE NULL

(* Where the search of the bins begins.                                    *)
ScanFrom(h, nb) ==
  LET i == bin_index(nb)
  IN  IF is_small_request(nb) THEN i + 2
      ELSE IF FirstFit(h, i, nb) # NULL THEN i ELSE i + 1

(* Mutant: a block is taken for empty that was not searched from its       *)
(* beginning.                                                              *)
ScanPartial(h, nb) ==
  LET Search[from \in Nat, blocks \in SUBSET (0 .. 31)] ==
        LET left  == {b \in blocks : b >= Block(from)}
            b     == Min(left)
            first == IF b = Block(from) THEN from ELSE BINBLOCKWIDTH * b
            bins  == first .. BINBLOCKWIDTH * (b + 1) - 1
            hits  == {i \in bins \cap Bins : FirstFit(h, i, nb) # NULL}
        IN  IF left = {} THEN [victim |-> NULL, blocks |-> blocks]
            ELSE IF hits # {} THEN [victim |-> FirstFit(h, Min(hits), nb),
                                    blocks |-> blocks]
            ELSE Search[BINBLOCKWIDTH * (b + 1), blocks \ {b}]
  IN  Search[ScanFrom(h, nb), h.binblocks]

(* Block by block of those that are marked.  One with nothing that is      *)
(* large enough is unmarked if the bins of it that were skipped are empty. *)
Scan(h, nb) ==
  LET Search[from \in Nat, blocks \in SUBSET (0 .. 31)] ==
        LET left  == {b \in blocks : b >= Block(from)}
            b     == Min(left)
            first == IF b = Block(from) THEN from ELSE BINBLOCKWIDTH * b
            bins  == first .. BINBLOCKWIDTH * (b + 1) - 1
            hits  == {i \in bins \cap Bins : FirstFit(h, i, nb) # NULL}
            empty == \A i \in BINBLOCKWIDTH * b .. first - 1 : h.bins[i] = <<>>
        IN  IF left = {} THEN [victim |-> NULL, blocks |-> blocks]
            ELSE IF hits # {} THEN [victim |-> FirstFit(h, Min(hits), nb),
                                    blocks |-> blocks]
            ELSE Search[BINBLOCKWIDTH * (b + 1),
                        IF empty THEN blocks \ {b} ELSE blocks]
  IN  Search[ScanFrom(h, nb), h.binblocks]

(* The whole of a chunk that is in no list any more, or all but the rest.  *)
Take(h, p) == Result(SetInuse(h, p, chunksize(h, p)), chunk2mem(p))

Split(h, p, nb) ==
  LET rest == chunksize(h, p) - nb
      r    == p + nb
      cut  == link_last_remainder(SetHead(h, p, nb, 1), r)
  IN  Result(SetFoot(SetHead(cut, r, rest, 1), r, rest), chunk2mem(p))

CutTop(h, nb) ==
  LET rest == chunksize(h, h.top) - nb
      cut  == [SetHead(h, h.top, nb, 1) EXCEPT !.top = @ + nb]
  IN  IF rest < MINSIZE THEN Result(h, NULL)
      ELSE Result(TopIs(cut, rest), chunk2mem(h.top))

FromTop(h, nb) ==
  CutTop(IF chunksize(h, h.top) - nb < MINSIZE THEN malloc_extend_top(h, nb)
                                               ELSE h, nb)

FromVictim(h, v, nb) ==
  IF v = NULL THEN FromTop(h, nb)
  ELSE IF chunksize(h, v) - nb >= MINSIZE THEN Split(unlink(h, v), v, nb)
  ELSE Take(unlink(h, v), v)

FromBins(h, nb) ==
  FromVictim([h EXCEPT !.binblocks = Scan(h, nb).blocks], Scan(h, nb).victim, nb)

(* The remainder of the last split is cut again, taken or put into a bin.  *)
FromRemainder(h, nb) ==
  LET v     == LastOf(h.bins[1])
      clear == [h EXCEPT !.bins[1] = <<>>]
  IN  IF v = NULL THEN FromBins(h, nb)
      ELSE IF chunksize(h, v) - nb >= MINSIZE THEN Split(h, v, nb)
      ELSE IF chunksize(h, v) >= nb THEN Take(clear, v)
      ELSE FromBins(frontlink(clear, v), nb)

FromHeap(h, nb) ==
  IF ExactFit(h, nb) # NULL
    THEN Take(unlink(h, ExactFit(h, nb)), ExactFit(h, nb))
    ELSE FromRemainder(h, nb)

mALLOc(h, bytes) ==
  IF Signed(bytes) < 0 THEN Result(h, NULL)
  ELSE FromHeap(h, request2size(bytes))

-----------------------------------------------------------------------------
(* MALLOC_COPY: one word after the other, from the first on.               *)
Copy(h, to, from, bytes) ==
  [h EXCEPT !.mem = [a \in DOMAIN @ |->
     IF a >= to /\ a < to + bytes THEN @[a - to + from] ELSE @[a]]]

(* The end of realloc: a chunk of which nb is needed.                      *)
SplitOff(h, p, size, nb) ==
  LET r    == p + nb
      rest == size - nb
      cut  == SetInuse(SetHead(SetHeadSize(h, p, nb), r, rest, 1), r, rest)
  IN  Result(IF rest >= MINSIZE THEN fREe(cut, chunk2mem(r))
             ELSE SetInuse(SetHeadSize(h, p, size), p, size), chunk2mem(p))

(* What was a chunk and the top, or more of them, is a chunk and a top.    *)
CutFromTop(h, p, size, nb) ==
  LET cut == TopIs([h EXCEPT !.top = p + nb], size - nb)
  IN  Result(SetHeadSize(cut, p, nb), chunk2mem(p))

(* r: what malloc gave.                                                    *)
MoveTo(r, oldp, oldsize, nb) ==
  LET newp == mem2chunk(r.ret)
  IN  IF r.ret = NULL THEN r
      ELSE IF newp = oldp + oldsize
        THEN SplitOff(r.heap, oldp, oldsize + chunksize(r.heap, newp), nb)
      ELSE Result(fREe(Copy(r.heap, r.ret, chunk2mem(oldp), oldsize - SIZE_SZ),
                       chunk2mem(oldp)), r.ret)

(* Forward, forward and backward, backward, elsewhere.  What is asked of   *)
(* the top is compared as a long: nb is positive and the sum may not be.   *)
Grow(h, p, oldsize, nb, bytes) ==
  LET next     == p + oldsize
      intoTop  == next = h.top
      nextFree == IF intoTop THEN TRUE ELSE ~inuse(h, next)
      forward  == oldsize + IF nextFree THEN chunksize(h, next) ELSE 0
      enough   == IF intoTop THEN Signed(Unsigned(nb + MINSIZE)) ELSE nb
      prevFree == ~prev_inuse(h, p)
      prev     == p - prev_size(h, p)
      prevsize == chunksize(h, prev)
      Joined(g, q, size) == IF intoTop THEN CutFromTop(g, q, size, nb)
                            ELSE SplitOff(unlink(g, next), q, size, nb)
      Back(g) == Copy(unlink(g, prev), chunk2mem(prev), chunk2mem(p),
                      oldsize - SIZE_SZ)
      Shifted == Copy(unlink(unlink(h, next), prev), chunk2mem(prev),
                      chunk2mem(p), oldsize - SIZE_SZ)
  IN  IF nextFree /\ forward >= enough THEN Joined(h, p, forward)
      ELSE IF prevFree /\ nextFree /\ prevsize + forward >= enough
        THEN IF intoTop THEN CutFromTop(Back(h), prev, prevsize + forward, nb)
             ELSE SplitOff(Shifted, prev, prevsize + forward, nb)
      ELSE IF prevFree /\ prevsize + oldsize >= nb
        THEN SplitOff(Back(h), prev, prevsize + oldsize, nb)
      ELSE MoveTo(mALLOc(h, bytes), p, oldsize, nb)

Resize(h, p, nb, bytes) ==
  IF chunksize(h, p) < nb THEN Grow(h, p, chunksize(h, p), nb, bytes)
  ELSE SplitOff(h, p, chunksize(h, p), nb)

rEALLOc(h, oldmem, bytes) ==
  IF Signed(bytes) < 0 THEN Result(h, NULL)
  ELSE IF oldmem = NULL THEN mALLOc(h, bytes)
  ELSE Resize(h, mem2chunk(oldmem), request2size(bytes), bytes)

-----------------------------------------------------------------------------
(* memalign gives back what is in front of and behind the aligned chunk.   *)
GiveBackEnd(h, p, nb) ==
  LET rest == chunksize(h, p) - nb
      cut  == SetHeadSize(SetHead(h, p + nb, rest, 1), p, nb)
  IN  Result(IF rest >= MINSIZE THEN fREe(cut, chunk2mem(p + nb)) ELSE h,
             chunk2mem(p))

GiveBackFront(h, p, newp) ==
  LET size == p + chunksize(h, p) - newp
      cut  == SetInuse(SetHead(h, newp, size, 1), newp, size)
  IN  fREe(SetHeadSize(cut, p, newp - p), chunk2mem(p))

AlignIn(r, alignment, nb) ==
  LET p    == mem2chunk(r.ret)
      brk  == mem2chunk(Up(r.ret, alignment))
      newp == IF brk - p < MINSIZE THEN brk + alignment ELSE brk
  IN  IF r.ret = NULL THEN r
      ELSE IF r.ret % alignment = 0 THEN GiveBackEnd(r.heap, p, nb)
      ELSE GiveBackEnd(GiveBackFront(r.heap, p, newp), newp, nb)

MemalignAt(h, alignment, nb) ==
  AlignIn(mALLOc(h, Unsigned(nb + alignment + MINSIZE)), alignment, nb)

mEMALIGn(h, alignment, bytes) ==
  IF Signed(bytes) < 0 THEN Result(h, NULL)
  ELSE IF alignment <= ALIGNMENT THEN mALLOc(h, bytes)
  ELSE MemalignAt(h, Max({alignment, MINSIZE}), request2size(bytes))

vALLOc(h, bytes) == mEMALIGn(h, PAGE, bytes)

pvALLOc(h, bytes) ==
  mEMALIGn(h, PAGE, Down(Unsigned(bytes + PAGE - 1), PAGE))

(* What sbrk gave is clear, and so is left out if top has just grown.      *)
Cleared(r, oldtop, oldtopsize) ==
  LET p   == mem2chunk(r.ret)
      csz == chunksize(r.heap, p)
      old == IF p = oldtop /\ csz > oldtopsize THEN oldtopsize ELSE csz
  IN  IF r.ret = NULL THEN r
      ELSE Result([r.heap EXCEPT !.mem = [a \in DOMAIN @ |->
                     IF a >= r.ret /\ a < r.ret + old - SIZE_SZ THEN 0
                     ELSE @[a]]], r.ret)

(* The block is lost if n is negative.                                     *)
cALLOc(h, n, elem_size) ==
  LET r == mALLOc(h, Unsigned(n * elem_size))
  IN  IF Signed(n) < 0 THEN Result(r.heap, NULL)
      ELSE Cleared(r, h.top, chunksize(h, h.top))

-----------------------------------------------------------------------------
malloc_usable_size(h, mem) ==
  IF mem = NULL \/ ~inuse(h, mem2chunk(mem)) THEN 0
  ELSE chunksize(h, mem2chunk(mem)) - SIZE_SZ

(* mALLINFo, as far as there is no mmap.                                   *)
mallinfo(h) ==
  LET free == UNION {ToSet(h.bins[i]) : i \in Bins}
      avail == chunksize(h, h.top)
                 + FoldSet(LAMBDA p, sum : chunksize(h, p) + sum, 0, free)
  IN  [arena |-> h.sbrked_mem,
       ordblks |-> Cardinality(free)
                     + IF chunksize(h, h.top) >= MINSIZE THEN 1 ELSE 0,
       uordblks |-> h.sbrked_mem - avail,
       fordblks |-> avail,
       keepcost |-> chunksize(h, h.top)]

mALLOPt(h, param, value) ==
  CASE param = "M_TRIM_THRESHOLD" -> Result([h EXCEPT !.trim_threshold = value], 1)
    [] param = "M_TOP_PAD" -> Result([h EXCEPT !.top_pad = value], 1)
    [] param = "M_MMAP_THRESHOLD" -> Result(h, 1)
    [] param = "M_MMAP_MAX" -> Result(h, IF value # 0 THEN 0 ELSE 1)
    [] OTHER -> Result(h, 0)
=============================================================================
