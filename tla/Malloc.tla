-------------------------------- MODULE Malloc --------------------------------
(***************************************************************************)
(* Clients of malloc, who write into all they get, as far as               *)
(* malloc_usable_size goes, and someone else who calls sbrk.  An action is *)
(* one call and what the client writes then.                               *)
(***************************************************************************)
EXTENDS MallocWrapper, TLC

CONSTANT Clients  \* of build, heap (start and size), slots, ops, calls and arguments

VARIABLES
  client,  \* which never changes
  heap,
  blocks,  \* what the client has: slot -> [mem, words]
  call, calls

vars == <<client, heap, blocks, call, calls>>

Init ==
  /\ client \in Clients
  /\ heap = IF client.build = "dl" THEN NoHeap ELSE BasicHeap(client.build)
  /\ blocks = <<>>
  /\ call = <<"none">>
  /\ calls = 0

(* What the client writes into the words of a block.                       *)
Datum(slot, i) == -1000 * slot - i

Written(h, slot, mem, from, upto) ==
  [h EXCEPT !.mem = [a \in DOMAIN @ |->
     LET i == (a - mem) \div SIZE_SZ + 1
     IN  IF a >= mem /\ i > from /\ i <= upto THEN Datum(slot, i) ELSE @[a]]]

Words(h, mem, bytes) ==
  (IF h.build = "dl" THEN malloc_usable_size(h, mem) ELSE bytes) \div SIZE_SZ

Dl == heap.build = "dl"

(* The client does this, has calls left (a bound) and has not stopped.     *)
May(op) ==
  op \in client.ops /\ calls < client.calls /\ ~heap.stopped /\ UNCHANGED client

Calls(c, ret) == call' = Append(c, ret) /\ calls' = calls + 1

(* The slot gets what r returned; kept is how much of it is not written.   *)
Gets(c, slot, r, words, kept) ==
  /\ Calls(c, r.ret)
  /\ IF r.ret = NULL THEN heap' = r.heap /\ UNCHANGED blocks
     ELSE /\ blocks' = (slot :> [mem |-> r.ret, words |-> words]) @@ blocks
          /\ heap' = Written(r.heap, slot, r.ret, kept, words)

Obtains(c, slot, r, bytes) ==
  Gets(c, slot, r, Words(r.heap, r.ret, bytes), 0)

(* The lowest slot without a block.                                        *)
Unused(slot) ==
  slot \notin DOMAIN blocks /\ 1 .. slot - 1 \subseteq DOMAIN blocks

Held == DOMAIN blocks \ {0}

-----------------------------------------------------------------------------
MallocInit ==
  /\ Dl /\ heap.start = NoBase /\ May("malloc_init")
  /\ heap' = malloc_init(heap, client.heap[1], client.heap[2])
  /\ Calls(<<"malloc_init">>, NULL)
  /\ UNCHANGED blocks

Malloc ==
  \E slot \in client.slots, n \in client.requests :
    /\ May("malloc") /\ Unused(slot)
    /\ Obtains(<<"malloc", slot, n>>, slot, malloc(heap, n), n)

Calloc ==
  \E slot \in client.slots, c \in client.counts :
    /\ May("calloc") /\ Unused(slot)
    /\ \E r \in {calloc(heap, c[1], c[2])} :
         \E words \in {Words(r.heap, r.ret, c[1] * c[2])} :
           Gets(<<"calloc", slot, c[1], c[2]>>, slot, r, words, words)

Realloc ==
  \E slot \in Held, n \in client.requests :
    /\ May("realloc")
    /\ \E r \in {realloc(heap, blocks[slot].mem, n)} :
         Gets(<<"realloc", slot, n>>, slot, r, Words(r.heap, r.ret, n),
              blocks[slot].words)

(* The client leaves nothing of worth in the block.                        *)
Free ==
  \E slot \in Held :
    /\ May("free")
    /\ \E b \in {blocks[slot]} :
         \E r \in {free(Filled(heap, b.mem, SIZE_SZ * b.words, JUNK), b.mem)} :
           heap' = r.heap
    /\ blocks' = [s \in DOMAIN blocks \ {slot} |-> blocks[s]]
    /\ Calls(<<"free", slot>>, NULL)

Memalign ==
  \E slot \in client.slots, n \in client.requests, a \in client.aligns :
    /\ May("memalign") /\ Unused(slot)
    /\ Obtains(<<"memalign", slot, n, a>>, slot, memalign(heap, a, n), n)

Valloc ==
  \E slot \in client.slots, l \in {0, 1} :
    /\ May("valloc") /\ Unused(slot)
    /\ \/ Obtains(<<"memalign", slot, l, PAGE>>, slot, valloc(heap, l), l)
       \/ Obtains(<<"memalign", slot, l, PAGE>>, slot, pvalloc(heap, l), l)

MallocTrim ==
  \E pad \in client.pads :
    /\ May("malloc_trim")
    /\ \E r \in {malloc_trim(heap, pad)} :
         heap' = r.heap /\ Calls(<<"malloc_trim", pad>>, r.ret)
    /\ UNCHANGED blocks

Mallopt ==
  \E o \in client.options :
    /\ May("mallopt")
    /\ \E r \in {mALLOPt(heap, o[1], o[2])} :
         heap' = r.heap /\ Calls(<<"mallopt", o>>, r.ret)
    /\ UNCHANGED blocks

(* Someone else, once, who keeps what it gets.                             *)
ForeignSbrk ==
  \E n \in client.foreign :
    /\ May("sbrk") /\ 0 \notin DOMAIN blocks
    /\ \E r \in {sbrk(heap, n)} :
         Gets(<<"sbrk", 0, n>>, 0, [r EXCEPT !.ret = IF @ = FAILURE THEN NULL ELSE @],
              n \div SIZE_SZ, 0)

(* A client of mdbg writes behind its block.                               *)
Overrun ==
  \E slot \in Held :
    /\ May("overrun")
    /\ heap' = [heap EXCEPT
         !.mem[blocks[slot].mem + SIZE_SZ * blocks[slot].words] = JUNK]
    /\ Calls(<<"overrun", slot>>, NULL)
    /\ UNCHANGED blocks

MdbgCheck ==
  /\ May("mdbg_check")
  /\ heap' = mdbg_check(heap, Cardinality(Held) + 1).heap
  /\ Calls(<<"mdbg_check">>, NULL)
  /\ UNCHANGED blocks

Next ==
  \/ MallocInit \/ Malloc \/ Calloc \/ Realloc \/ Free
  \/ Memalign \/ Valloc \/ MallocTrim \/ Mallopt \/ ForeignSbrk
  \/ Overrun \/ MdbgCheck

Spec == Init /\ [][Next]_vars
-----------------------------------------------------------------------------
(* What a client has, and what is in it.                                   *)
View ==
  [s \in DOMAIN blocks |->
     [mem |-> blocks[s].mem,
      data |-> [i \in 1 .. blocks[s].words |->
                  heap.mem[blocks[s].mem + SIZE_SZ * (i - 1)]]]]

(* Blocks of mdbg are aligned like its elements.                           *)
Promise == INSTANCE Blocks
             WITH view <- View,
                  align <- IF heap.build = "mdbg" THEN SIZE_SZ ELSE ALIGNMENT

(* Whatever the allocator splits, joins, moves and links, its clients see  *)
(* nothing but blocks of their own, with what they wrote in them.          *)
GivesBlocks == Promise!Spec

-----------------------------------------------------------------------------
(* The checks of the code, which it makes if DEBUG is set.                 *)
do_check_chunk(h, p) ==
  LET end == p + Down(Header(h, p), 2)
  IN  /\ Header(h, p) % 4 < 2
      /\ p >= h.sbrk_base
      /\ end <= IF p # h.top THEN h.top ELSE h.sbrk_base + h.sbrked_mem

do_check_free_chunk(h, p) ==
  LET size == chunksize(h, p)
      next == p + size
  IN  /\ do_check_chunk(h, p)
      /\ ~inuse(h, p)
      /\ size >= MINSIZE /\ size % ALIGNMENT = 0 /\ p % ALIGNMENT = 0
      /\ prev_size(h, next) = size
      /\ prev_inuse(h, p)
      /\ next # h.top => inuse(h, next)
      /\ h.mem[p + 2 * SIZE_SZ] = LINK /\ h.mem[p + 3 * SIZE_SZ] = LINK

do_check_inuse_chunk(h, p) ==
  LET next == p + chunksize(h, p)
      prev == p - prev_size(h, p)
  IN  /\ do_check_chunk(h, p)
      /\ inuse(h, p)
      /\ ~prev_inuse(h, p) => /\ prev + chunksize(h, prev) = p
                              /\ do_check_free_chunk(h, prev)
      /\ next = h.top => prev_inuse(h, next) /\ chunksize(h, next) >= MINSIZE
      /\ next # h.top /\ ~inuse(h, next) => do_check_free_chunk(h, next)

do_check_malloced_chunk(h, p, nb) ==
  /\ do_check_inuse_chunk(h, p)
  /\ chunksize(h, p) - nb \in 0 .. MINSIZE - 1
  /\ chunksize(h, p) % ALIGNMENT = 0 /\ p % ALIGNMENT = 0
  /\ prev_inuse(h, p)

(* The chunks from the first to the top, without the two of size SIZE_SZ   *)
(* in front of memory that is someone else's.                              *)
Chunks(h) ==
  LET From[p \in Nat] ==
        IF p = h.top THEN {}
        ELSE IF chunksize(h, p) = SIZE_SZ
          THEN From[Up(blocks[0].mem + SIZE_SZ * blocks[0].words, ALIGNMENT)]
        ELSE {p} \cup From[p + chunksize(h, p)]
  IN  IF h.top = InitialTop THEN {} ELSE From[Up(h.sbrk_base, ALIGNMENT)]

FreeChunks(h) == UNION {ToSet(h.bins[i]) : i \in Bins}

(* Those that are in use are the client's; what is left of a top that was  *)
(* too small to be free is in use too.                                     *)
InUse(h, chunks) ==
  {mem2chunk(blocks[s].mem) : s \in DOMAIN blocks \ {0}}
    \cup {p \in chunks : chunksize(h, p) < MINSIZE}

Filed(h, i) ==
  LET bin == h.bins[i]
  IN  /\ IsInjective(bin)
      /\ i = 1 => Len(bin) < 2
      /\ i # 1 =>
           /\ \A k \in 1 .. Len(bin) : bin_index(chunksize(h, bin[k])) = i
           /\ \A k \in 2 .. Len(bin) :
                chunksize(h, bin[k]) <= chunksize(h, bin[k - 1])
           /\ bin # <<>> => Block(i) \in h.binblocks

(* The memory is chunks from the first to the last word, each the client's *)
(* or in the list where it is looked for, no two free ones side by side;   *)
(* nothing is lost.  The assertions of the code hold.                      *)
ChunksTile(h) ==
  \A chunks \in {Chunks(h)}, unused \in {FreeChunks(h)} :
    /\ \A p \in unused : do_check_free_chunk(h, p)
    /\ unused \subseteq chunks
    /\ \A p \in chunks \ unused : do_check_inuse_chunk(h, p)
    /\ chunks \ unused = InUse(h, chunks)
    /\ \A used \in {{i \in Bins : h.bins[i] # <<>>}} : \A i \in used :
         /\ Filed(h, i)
         /\ \A j \in used \ {i} : ToSet(h.bins[i]) \cap ToSet(h.bins[j]) = {}
    /\ h.top # InitialTop => /\ do_check_chunk(h, h.top)
                            /\ (h.top + chunksize(h, h.top)) % PAGE = 0
    /\ call[1] = "malloc" /\ Last(call) # NULL =>
         do_check_malloced_chunk(h, mem2chunk(Last(call)), request2size(call[3]))

(* The queue is that of the blocks, in the order they are in memory, and   *)
(* each is found to be as the client left it.                              *)
QueueTrue(h) ==
  LET tracked == {blocks[s].mem - ELEM : s \in DOMAIN blocks}
      queue   == Queue(h, Cardinality(tracked) + 1)
  IN  /\ ToSet(queue) = tracked
      /\ \A i, j \in 1 .. Len(queue) : i < j => queue[i] < queue[j]
      /\ \A s \in DOMAIN blocks :
           LET b == blocks[s]
           IN  mdbg_check_buf(h, b.mem - ELEM) <=>
                 h.mem[b.mem + SIZE_SZ * b.words] # JUNK

(* After every call the structures of the build are whole: dlmalloc's      *)
(* chunks and bins, or the queue of mdbg.                                  *)
HeapWhole ==
  CASE heap.build = "dl"    -> ChunksTile(heap)
    [] heap.build = "mdbg"  -> ~heap.stopped => QueueTrue(heap)
    [] heap.build = "basic" -> TRUE

(* The bytes a call asks the bins and the top for.                         *)
Asked(c) ==
  CASE c[1] \in {"malloc", "realloc"} -> c[3]
    [] c[1] = "calloc" -> c[3] * c[4]
    [] c[1] = "memalign" ->
         IF c[4] <= ALIGNMENT THEN c[3]
         ELSE request2size(c[3]) + Max({c[4], MINSIZE}) + MINSIZE

TopEnd(h) == h.top + chunksize(h, h.top)

(* A top that is not where the top was begins aligned and ends with a page.*)
NoSpace(h, nb) ==
  LET size == nb + h.top_pad + MINSIZE
      more == IF h.sbrk_base = NoBase THEN size ELSE Up(size, PAGE)
  IN  \/ h.start = NoBase
      \/ IF h.brk = TopEnd(h) THEN h.brk + more > h.end
         ELSE Up(Up(h.brk, ALIGNMENT) + more, PAGE) > h.end

Allocating ==
  \/ call'[1] \in {"malloc", "realloc", "calloc"}
  \/ call'[1] = "memalign" /\ IsPowerOfTwo(call'[4])

(* No call takes more memory, or fails, while there is a free chunk that   *)
(* is large enough, and none fails while there is memory to take.          *)
FailsForCause ==
  [][Dl /\ Allocating /\ ~heap'.stopped =>
       LET nb     == request2size(Asked(call'))
           failed == Last(call') = NULL /\ Signed(Asked(call')) >= 0
       IN  failed \/ heap'.brk > heap.brk =>
             /\ \A p \in FreeChunks(heap) : chunksize(heap, p) < nb
             /\ chunksize(heap, heap.top) < nb + MINSIZE
             /\ failed => NoSpace(heap, nb)]_vars

(* The memory the code thinks it has ends with the top, and what it says   *)
(* is in use is that of the chunks in use.  Once the second sbrk of        *)
(* malloc_extend_top has failed, what the code thinks it has ends where    *)
(* the first did, and sbrk has no page left to give.                       *)
Accounted ==
  Dl /\ heap.sbrk_base # NoBase =>
    LET counted == heap.sbrk_base + heap.sbrked_mem
        used    == FoldSet(LAMBDA p, sum : chunksize(heap, p) + sum,
                           Up(heap.sbrk_base, ALIGNMENT) - heap.sbrk_base,
                           Chunks(heap) \ FreeChunks(heap))
    IN  IF counted = TopEnd(heap)
          THEN /\ heap.max_sbrked_mem >= heap.sbrked_mem
               /\ 0 \notin DOMAIN blocks =>
                    heap.brk = counted /\ mallinfo(heap).uordblks = used
          ELSE /\ counted = heap.brk
               /\ Up(heap.brk, PAGE) > heap.end

=============================================================================
