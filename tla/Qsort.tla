------------------------------- MODULE Qsort -------------------------------
(***************************************************************************)
(* qsort of libutils/isoc/qsort.c: quicksort that gathers the elements     *)
(* equal to the pivot at both ends, and insertion sort for few elements    *)
(* and for those it did not have to swap.                                  *)
(*                                                                         *)
(* The array is a function from 0, 1, ... to elements, Cmp(x, y) negative, *)
(* 0 or positive; pointers are indices.  An element is swapped as a whole, *)
(* by longs or by bytes.                                                   *)
(***************************************************************************)
EXTENDS Integers

CONSTANT Cmp(_, _)

Swapped(a, i, j) == [a EXCEPT ![i] = a[j], ![j] = a[i]]

(* vecswap: n elements from i and from j.                                  *)
VecSwapped(a, i, j, n) ==
  [k \in DOMAIN a |-> IF k \in i..i + n - 1 THEN a[k - i + j]
                      ELSE IF k \in j..j + n - 1 THEN a[k - j + i] ELSE a[k]]

Lesser(i, j) == IF i < j THEN i ELSE j

(* The index of the median of three.                                       *)
med3(a, i, j, k) ==
  IF Cmp(a[i], a[j]) < 0
  THEN IF Cmp(a[j], a[k]) < 0 THEN j ELSE IF Cmp(a[i], a[k]) < 0 THEN k ELSE i
  ELSE IF Cmp(a[j], a[k]) > 0 THEN j ELSE IF Cmp(a[i], a[k]) < 0 THEN i ELSE k

(* The element at pl goes down as long as the one in front of it is larger.*)
RECURSIVE Sink(_, _, _)
Sink(a, lo, pl) ==
  IF pl > lo /\ Cmp(a[pl - 1], a[pl]) > 0
  THEN Sink(Swapped(a, pl, pl - 1), lo, pl - 1) ELSE a

InsertionSort(a, lo, n) ==
  LET Sorted[m \in 0..n] ==
        IF m <= 1 THEN a ELSE Sink(Sorted[m - 1], lo, lo + m - 1)
  IN  Sorted[n]

(* The element that becomes the pivot, of n from lo.                       *)
Pivot(a, lo, n) ==
  LET mid == lo + n \div 2
      hi  == lo + n - 1
      d   == n \div 8
  IN  IF n = 7 THEN mid
      ELSE IF n <= 40 THEN med3(a, lo, mid, hi)
      ELSE med3(a, med3(a, lo, lo + d, lo + 2 * d),
                   med3(a, mid - d, mid, mid + d),
                   med3(a, hi - 2 * d, hi - d, hi))

(* s is [a, lo, pa, pb, pc, pd, swap_cnt]; the pivot is at lo, what equals *)
(* it is below pa and above pd, what is smaller below pb, and what is      *)
(* larger above pc.                                                        *)
RECURSIVE Up(_), Down(_), Partition(_)
Up(s) ==
  IF s.pb > s.pc \/ Cmp(s.a[s.pb], s.a[s.lo]) > 0 THEN s
  ELSE Up(IF Cmp(s.a[s.pb], s.a[s.lo]) < 0 THEN [s EXCEPT !.pb = @ + 1]
          ELSE [s EXCEPT !.a = Swapped(@, s.pa, s.pb), !.pa = @ + 1,
                         !.pb = @ + 1, !.swap_cnt = 1])

Down(s) ==
  IF s.pb > s.pc \/ Cmp(s.a[s.pc], s.a[s.lo]) < 0 THEN s
  ELSE Down(IF Cmp(s.a[s.pc], s.a[s.lo]) > 0 THEN [s EXCEPT !.pc = @ - 1]
            ELSE [s EXCEPT !.a = Swapped(@, s.pc, s.pd), !.pd = @ - 1,
                           !.pc = @ - 1, !.swap_cnt = 1])

SwapAndGoOn(s) ==
  IF s.pb > s.pc THEN s
  ELSE Partition([s EXCEPT !.a = Swapped(@, s.pb, s.pc), !.pb = @ + 1,
                           !.pc = @ - 1, !.swap_cnt = 1])
Partition(s) == SwapAndGoOn(Down(Up(s)))

Partitioned(a, lo, n) ==
  Partition([a |-> a, lo |-> lo, pa |-> lo + 1, pb |-> lo + 1,
             pc |-> lo + n - 1, pd |-> lo + n - 1, swap_cnt |-> 0])

(* The elements equal to the pivot from both ends to the middle.           *)
Gathered(s, n) ==
  LET r == Lesser(s.pa - s.lo, s.pb - s.pa)
      q == Lesser(s.pd - s.pc, s.lo + n - s.pd - 1)
  IN  VecSwapped(VecSwapped(s.a, s.lo, s.pb - r, r), s.pb, s.lo + n - q, q)

(* The smaller elements are sorted by a call, then the larger by going     *)
(* round again.                                                            *)
RECURSIVE qsort(_, _, _)
SortParts(s, n) ==
  LET smaller == s.pb - s.pa
      larger  == s.pd - s.pc
      a == IF smaller > 1 THEN qsort(Gathered(s, n), s.lo, smaller)
           ELSE Gathered(s, n)
  IN  IF larger > 1 THEN qsort(a, s.lo + n - larger, larger) ELSE a

SortPartitioned(s, n) ==
  IF s.swap_cnt = 0 THEN InsertionSort(s.a, s.lo, n) ELSE SortParts(s, n)

qsort(a, lo, n) ==
  IF n < 7 THEN InsertionSort(a, lo, n)
  ELSE SortPartitioned(Partitioned(Swapped(a, lo, Pivot(a, lo, n)), lo, n), n)
=============================================================================
