----------------------------- MODULE MallocWrapper -----------------------------
(***************************************************************************)
(* libutils/isoc/malloc_wrapper.c: malloc and the like, of one of the      *)
(* builds "dl" (TEE_USE_DLMALLOC), "basic" (TEE_USE_BASIC_MALLOC) and      *)
(* "mdbg" (that with ENABLE_MDBG and MDBG_REALLOC_ENABLED; with dlmalloc   *)
(* it has no sbrk).  A heap that stopped is one where an assertion failed. *)
(***************************************************************************)
EXTENDS DlMalloc

CONSTANT HEAPSIZE  \* of basic_malloc

JUNK == -2  \* 0x55, 0xAA, or what a client leaves behind

Stop(h) == Result([h EXCEPT !.stopped = TRUE], NULL)

Filled(h, from, bytes, v) ==
  [h EXCEPT !.mem = [a \in DOMAIN @ |->
     IF a >= from /\ a < from + bytes THEN v ELSE @[a]]]

-----------------------------------------------------------------------------
(* dlmalloc_init.                                                          *)
NewHeap(start, size) ==
  [build |-> "dl", stopped |-> FALSE,
   mem |-> [a \in {start + SIZE_SZ * i : i \in 0 .. size \div SIZE_SZ - 1} |-> 0],
   start |-> start, end |-> start + size, brk |-> start,
   top |-> InitialTop, bins |-> [i \in Bins |-> <<>>], binblocks |-> {},
   sbrk_base |-> NoBase, sbrked_mem |-> 0, max_sbrked_mem |-> 0,
   top_pad |-> 0, trim_threshold |-> 128 * 1024]

NoHeap == [NewHeap(0, 0) EXCEPT !.start = NoBase]

malloc_init(h, start, size) ==
  IF h.build # "dl" THEN h
  ELSE [NewHeap(start, size) EXCEPT !.top_pad = h.top_pad,
                                    !.trim_threshold = h.trim_threshold]

-----------------------------------------------------------------------------
(* A heap from which nothing comes back.                                   *)
_heap_address == 8

BasicHeap(build) ==
  [build |-> build, stopped |-> FALSE,
   mem |-> [a \in {_heap_address + SIZE_SZ * i : i \in 0 .. HEAPSIZE \div SIZE_SZ - 1}
              |-> 0],
   offset |-> 0, tqh_first |-> NULL, tqh_last |-> NULL]

basic_malloc(h, size) ==
  LET offset == Unsigned(h.offset + Down(Unsigned(size + 7), 8))
  IN  Result([h EXCEPT !.offset = offset],
             IF offset > HEAPSIZE THEN NULL ELSE _heap_address + h.offset)

-----------------------------------------------------------------------------
(* The queue of mdbg.  An element has the words tqe_next and tqe_prev, len *)
(* and two more.  The address of a word tqe_next is that of its element,   *)
(* that of tqh_first is NULL.                                              *)
ELEM == 5 * SIZE_SZ

At(h, link) == IF link = NULL THEN h.tqh_first ELSE h.mem[link]

SetAt(h, link, e) ==
  IF link = NULL THEN [h EXCEPT !.tqh_first = e] ELSE [h EXCEPT !.mem[link] = e]

TAILQ_NEXT(h, e) == h.mem[e]

PrevLink(h, e) == IF e = NULL THEN h.tqh_last ELSE h.mem[e + SIZE_SZ]

TAILQ_PREV(h, e) == At(h, PrevLink(h, PrevLink(h, e)))

TAILQ_INSERT_TAIL(h, e) ==
  [SetAt([h EXCEPT !.mem[e] = NULL, !.mem[e + SIZE_SZ] = h.tqh_last],
         h.tqh_last, e) EXCEPT !.tqh_last = e]

TAILQ_REMOVE(h, e) ==
  LET next == TAILQ_NEXT(h, e)
      prev == PrevLink(h, e)
  IN  SetAt(IF next # NULL THEN [h EXCEPT !.mem[next + SIZE_SZ] = prev]
                           ELSE [h EXCEPT !.tqh_last = prev], prev, next)

-----------------------------------------------------------------------------
(* mdbg.  Sizes are multiples of a word; the byte behind the data is one.  *)
Magic(e) == -3 - e

Len4(h, e) == h.mem[e + 2 * SIZE_SZ]

(* mdbg_buf_alloc.  ignore is of no consequence but for what is printed.   *)
mdbg_buf_alloc(h, nbytes) ==
  LET n == nbytes + ELEM + 1
      r == basic_malloc(h, Unsigned(n))
      e == r.ret
  IN  IF nbytes = 0 THEN Stop(h)
      ELSE IF e = NULL THEN r
      ELSE Result([TAILQ_INSERT_TAIL(r.heap, e) EXCEPT
                     !.mem[e + 2 * SIZE_SZ] = n,
                     !.mem[e + ELEM + nbytes] = Magic(e)], e + ELEM)

mdbg_check_buf_end(h, e) == h.mem[e + Len4(h, e) - 1] = Magic(e)

mdbg_check_buf(h, e) ==
  /\ e # NULL
  /\ TAILQ_NEXT(h, e) # NULL => TAILQ_PREV(h, TAILQ_NEXT(h, e)) = e
  /\ TAILQ_PREV(h, e) # NULL => TAILQ_NEXT(h, TAILQ_PREV(h, e)) = e
  /\ mdbg_check_buf_end(h, e)

(* basic_free does nothing.                                                *)
mdbg_free(h, fp) ==
  LET e == fp - ELEM
  IN  IF fp = NULL THEN Result(h, NULL)
      ELSE IF ~mdbg_check_buf(h, e) THEN Stop(h)
      ELSE Result(Filled(TAILQ_REMOVE(h, e), e, Len4(h, e), JUNK), NULL)

Garbage(r, nbytes) ==
  IF r.ret = NULL THEN r
  ELSE Result(Filled(r.heap, r.ret, nbytes, JUNK), r.ret)

mdbg_malloc(h, nbytes) == Garbage(mdbg_buf_alloc(h, nbytes), nbytes)

(* r: what mdbg_malloc gave.                                               *)
MoveData(r, ptr, bytes) ==
  IF r.ret = NULL THEN r
  ELSE Result(mdbg_free(Copy(r.heap, r.ret, ptr, bytes), ptr).heap, r.ret)

mdbg_realloc(h, ptr, size) ==
  LET osize == Len4(h, ptr - ELEM) - ELEM - 1
  IN  IF size = 0 THEN Stop(h)
      ELSE IF ptr = NULL THEN mdbg_malloc(h, size)
      ELSE IF size = osize THEN Result(h, ptr)
      ELSE MoveData(mdbg_malloc(h, size), ptr, Min({size, osize}))

Zeroed(r, bytes) ==
  IF r.ret = NULL THEN r ELSE Result(Filled(r.heap, r.ret, bytes, 0), r.ret)

mdbg_calloc(h, nelem, elsize) ==
  Zeroed(mdbg_buf_alloc(h, Unsigned(nelem * elsize)), Unsigned(nelem * elsize))

(* The elements TAILQ_FOREACH comes to, at most n.                         *)
Queue(h, n) ==
  LET From[e \in Int, k \in Nat] ==
        IF e = NULL \/ k = 0 THEN <<>> ELSE <<e>> \o From[TAILQ_NEXT(h, e), k - 1]
  IN  From[h.tqh_first, n]

mdbg_check(h, n) ==
  IF \A i \in 1 .. Len(Queue(h, n)) : mdbg_check_buf(h, Queue(h, n)[i])
    THEN Result(h, NULL) ELSE Stop(h)

-----------------------------------------------------------------------------
(* The functions a client calls.                                           *)
malloc(h, size) ==
  CASE h.build = "dl"    -> mALLOc(h, size)
    [] h.build = "basic" -> basic_malloc(h, size)
    [] h.build = "mdbg"  -> mdbg_malloc(h, size)

free(h, ptr) ==
  CASE h.build = "dl"    -> Result(fREe(h, ptr), NULL)
    [] h.build = "basic" -> Result(h, NULL)
    [] h.build = "mdbg"  -> mdbg_free(h, ptr)

calloc(h, nmemb, size) ==
  CASE h.build = "dl"    -> cALLOc(h, nmemb, size)
    [] h.build = "basic" -> Zeroed(malloc(h, Unsigned(nmemb * size)),
                                   Unsigned(nmemb * size))
    [] h.build = "mdbg"  -> mdbg_calloc(h, nmemb, size)

realloc(h, ptr, size) ==
  CASE h.build = "dl"    -> rEALLOc(h, ptr, size)
    [] h.build = "basic" -> Stop(h)
    [] h.build = "mdbg"  -> mdbg_realloc(h, ptr, size)

IsPowerOfTwo(a) == \E k \in 0 .. 30 : a = 2 ^ k

memalign(h, a, l) ==
  IF IsPowerOfTwo(a) THEN mEMALIGn(h, a, l) ELSE Result(h, NULL)

valloc(h, l) == IF l # 0 THEN Stop(h) ELSE vALLOc(h, l)

pvalloc(h, l) == IF l # 0 THEN Stop(h) ELSE pvALLOc(h, l)
=============================================================================
