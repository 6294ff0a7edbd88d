------------------------------- MODULE MCMalloc -------------------------------
(***************************************************************************)
(* Clients: each does a few things many times, so that the lists, the      *)
(* splits and the joins of chunks come in every order.                     *)
(***************************************************************************)
EXTENDS Malloc

Client(build, area, slots, ops, requests, n) ==
  [build |-> build, heap |-> area, slots |-> 1 .. slots,
   ops |-> ops \cup {"malloc_init", "malloc", "free"},
   requests |-> requests, calls |-> n,
   counts |-> {<<1, 20>>, <<4, 30>>}, aligns |-> {4, 24, 32}, pads |-> {0, 70},
   options |-> {<<"M_TRIM_THRESHOLD", 128>>, <<"M_TOP_PAD", 40>>,
                <<"M_MMAP_MAX", 1>>},
   foreign |-> {12, 60}]

Small == Client("dl", <<64, 256>>, 4, {}, {12, 20, 44}, 9)

Growing == Client("dl", <<64, 384>>, 3, {"realloc"}, {4, 24, 100}, 7)

Large == Client("dl", <<64, 2560>>, 4, {}, {4, 500, 560}, 7)

(* A request of 8180 is the largest that is still positive when padded.    *)
Clearing == Client("dl", <<64, 512>>, 3,
                   {"calloc", "mallopt", "malloc_trim"}, {4, 100, 8180}, 6)

Shared == Client("dl", <<64, 512>>, 3, {"sbrk", "realloc"}, {4, 44}, 6)

(* Neither end of this heap is that of a page.                             *)
Aligned == Client("dl", <<68, 408>>, 2, {"memalign", "valloc"}, {4, 40}, 6)

Basic == Client("basic", <<>>, 3, {"calloc", "realloc"}, {4, 24, 100}, 5)

Debugged == Client("mdbg", <<>>, 3,
                   {"calloc", "realloc", "overrun", "mdbg_check"}, {4, 12}, 5)

(* The heap ends within a page, where nothing is given of it any more once *)
(* a request has failed there: the first, or one after a foreign sbrk.     *)
Cornered == Client("dl", <<64, 100>>, 2, {"realloc"}, {4, 68, 100}, 5)

CutOff == Client("dl", <<64, 228>>, 3, {"sbrk", "realloc"}, {4, 44}, 6)

(* Sizes are negative from 8192 on, which no call takes.  8164 is the      *)
(* largest for which realloc still finds that the top is too small.        *)
Greedy == Client("dl", <<64, 192>>, 2, {"realloc"}, {4, 8164, 8192}, 6)

MCClients == {Small, Growing, Large, Clearing, Shared, Aligned, Cornered,
              CutOff, Greedy, Basic, Debugged}
=============================================================================
