------------------------------ MODULE FdtWriter ------------------------------
(***************************************************************************)
(* What the sequential functions promise one who calls them in order: each *)
(* call has its whole effect on the tree that is being written or returns  *)
(* an error with the tree as it was.  Whether there is space is left open. *)
(***************************************************************************)
EXTENDS Integers, Sequences

CONSTANTS NodeNames, PropNames, Values, Addresses, Sizes, BufSizes,
          NOSPACE, BADSTATE, BADMAGIC

VARIABLES
  state,    \* "none", "writing", "done"
  rsv,      \* the reservations
  mapped,   \* the map of them is finished
  tree,     \* as in FdtTree
  open,     \* the path of the node that is open
  children, \* the node last begun has been ended: no more properties
  call

vars == <<state, rsv, mapped, tree, open, children, call>>

written == <<state, rsv, mapped, tree, open, children>>

(* Function f, with value v at k.                                          *)
Put(f, k, v) == [x \in DOMAIN f \cup {k} |-> IF x = k THEN v ELSE f[x]]

Fails(c, error) == call' = Append(c, error) /\ UNCHANGED written

(* The call is for a tree that is being written.                           *)
Writes(c, effect) ==
  \/ state = "done" /\ Fails(c, BADMAGIC)
  \/ state = "writing" /\ Fails(c, NOSPACE)
  \/ state = "writing" /\ call' = Append(c, 0) /\ effect

Empty ==
  rsv' = <<>> /\ mapped' = FALSE /\ tree' = <<>> /\ open' = <<>>
    /\ children' = FALSE

Create(size) ==
  \/ Fails(<<"create", size>>, NOSPACE)
  \/ state' = "writing" /\ Empty /\ call' = <<"create", size, 0>>

(* A failure leaves a buffer that is no tree.                              *)
CreateEmptyTree(size) ==
  LET c == <<"create_empty_tree", size>>
  IN  \/ call' = Append(c, NOSPACE) /\ state' = "none" /\ Empty
      \/ /\ state' = "done" /\ tree' = Put(<<>>, <<"">>, <<>>)
         /\ rsv' = <<>> /\ mapped' = TRUE /\ open' = <<>> /\ children' = TRUE
         /\ call' = Append(c, 0)

(* An entry behind the end of the map is accepted, and lost.               *)
AddReservemapEntry(address, size) ==
  LET c == <<"add_reservemap_entry", address, size>>
  IN  \/ tree # <<>> /\ state = "writing" /\ Fails(c, BADSTATE)
      \/ /\ tree = <<>> \/ state = "done"
         /\ Writes(c, /\ rsv' = IF mapped THEN rsv
                                ELSE Append(rsv, <<address, size>>)
                      /\ UNCHANGED <<state, mapped, tree, open, children>>)

FinishReservemap ==
  LET c == <<"finish_reservemap">>
  IN  \/ tree # <<>> /\ state = "writing" /\ Fails(c, BADSTATE)
      \/ /\ tree = <<>> \/ state = "done"
         /\ Writes(c, mapped' /\ UNCHANGED <<state, rsv, tree, open, children>>)

BeginNode(name) ==
  Writes(<<"begin_node", name>>,
         /\ open' = Append(open, name)
         /\ tree' = Put(tree, open', <<>>)
         /\ children' = FALSE
         /\ UNCHANGED <<state, rsv, mapped>>)

EndNode ==
  Writes(<<"end_node">>,
         /\ open' = SubSeq(open, 1, Len(open) - 1)
         /\ children' = TRUE
         /\ UNCHANGED <<state, rsv, mapped, tree>>)

Property(name, val) ==
  Writes(<<"property", name, val>>,
         /\ tree' = [tree EXCEPT ![open] = Put(@, name, val)]
         /\ UNCHANGED <<state, rsv, mapped, open, children>>)

Finish ==
  Writes(<<"finish">>, state' = "done" /\ UNCHANGED <<rsv, mapped, tree, open,
                                                      children>>)

Move(size) ==
  \/ call' = <<"move", size, 0>> /\ UNCHANGED written
  \/ Fails(<<"move", size>>, NOSPACE)
  \/ tree = <<>> /\ Fails(<<"move", size>>, BADSTATE)

Next ==
  \/ \E size \in BufSizes : Create(size) \/ CreateEmptyTree(size) \/ Move(size)
  \/ \E address \in Addresses, size \in Sizes :
       AddReservemapEntry(address, size)
  \/ FinishReservemap
  \/ \E name \in NodeNames : BeginNode(name)
  \/ EndNode
  \/ \E name \in PropNames, val \in Values : Property(name, val)
  \/ Finish

Init == state \in {"none", "done"}

Spec == Init /\ [][Next]_vars
=============================================================================
