-------------------------------- MODULE Blocks --------------------------------
(***************************************************************************)
(* What malloc and the like promise: the blocks a client has are apart     *)
(* from each other, as large and as aligned as it asked for, clear if they *)
(* are from calloc, and what is in them stays there until it gives them    *)
(* back; realloc takes it along.  A call that returns NULL changes no      *)
(* block.                                                                  *)
(***************************************************************************)
EXTENDS Integers, Sequences

VARIABLES
  align, \* of the addresses of blocks, which never changes
  view,  \* the blocks: their address, and the words in them
  call   \* the operation, what it is for, its arguments and what it returned

vars == <<align, view, call>>

Range1(b) == b.mem .. b.mem + 4 * Len(b.data) - 1

Apart(v) ==
  \A s, t \in DOMAIN v : s = t \/ Range1(v[s]) \cap Range1(v[t]) = {}

Others(slot) ==
  \A s \in DOMAIN view \ {slot} : s \in DOMAIN view' /\ view'[s] = view[s]

(* A new block for n bytes.                                                *)
New(slot, n, alignment) ==
  /\ slot \notin DOMAIN view
  /\ DOMAIN view' = DOMAIN view \cup {slot}
  /\ Others(slot)
  /\ Apart(view')
  /\ view'[slot].mem % alignment = 0
  /\ 4 * Len(view'[slot].data) >= n

Malloc(slot, n) == New(slot, n, align)

Memalign(slot, n, alignment) == New(slot, n, alignment)

Calloc(slot, n, size) ==
  /\ New(slot, n * size, align)
  /\ \A i \in 1 .. Len(view'[slot].data) : view'[slot].data[i] = 0

Realloc(slot, n) ==
  /\ slot \in DOMAIN view
  /\ DOMAIN view' = DOMAIN view
  /\ Others(slot)
  /\ Apart(view')
  /\ view'[slot].mem % align = 0
  /\ LET old == view[slot].data
         new == view'[slot].data
     IN  /\ 4 * Len(new) >= n
         /\ \A i \in 1 .. Len(old) : i <= Len(new) => new[i] = old[i]

Free(slot) ==
  /\ DOMAIN view' = DOMAIN view \ {slot}
  /\ Others(slot)

Allocates == {"malloc", "memalign", "calloc", "realloc", "sbrk"}

Does(c) ==
  CASE c[1] \in Allocates /\ Len(c) > 3 /\ c[Len(c)] = 0 -> view' = view
    [] c[1] = "malloc"   -> Malloc(c[2], c[3])
    [] c[1] = "sbrk"     -> New(c[2], c[3], 1)
    [] c[1] = "memalign" -> Memalign(c[2], c[3], c[4])
    [] c[1] = "calloc"   -> Calloc(c[2], c[3], c[4])
    [] c[1] = "realloc"  -> Realloc(c[2], c[3])
    [] c[1] = "free"     -> Free(c[2])
    [] OTHER             -> view' = view

Init == view = <<>>

Next == align' = align /\ Does(call')

Spec == Init /\ [][Next]_vars
=============================================================================
