------------------------------- MODULE FdtTree -------------------------------
(***************************************************************************)
(* What the editing functions of libfdt promise, without the blob: a tree  *)
(* is a function from the paths of its nodes to what their properties      *)
(* are, and the reservations are a sequence.  A call either has its whole  *)
(* effect or returns an error that is due, with the tree as it was; only   *)
(* whether there is space is left open.                                    *)
(*                                                                         *)
(* A path is the names from the root's on; Nowhere stands for any offset   *)
(* at which there is no node.                                              *)
(***************************************************************************)
EXTENDS Integers, Sequences

CONSTANTS NodeNames, PropNames, Values, Addresses, Sizes,
          Fits(_, _),   \* a node name, and one that a search finds it by
          NOTFOUND, EXISTS, NOSPACE, BADOFFSET, BADLAYOUT

VARIABLES tree, rsv,
          ordered,      \* the blocks of the blob are in the usual order
          call          \* the last call: function, arguments, what it returned

vars == <<tree, rsv, ordered, call>>

Nowhere == <<>>

Nodes == DOMAIN tree

Targets == Nodes \cup {Nowhere}

Below(path) ==
  {q \in Nodes : Len(q) >= Len(path) /\ SubSeq(q, 1, Len(path)) = path}

Children(path) == {q \in Below(path) : Len(q) = Len(path) + 1}

NameOf(path) == path[Len(path)]

Siblings(path) ==
  {q \in Nodes : Len(q) = Len(path)
                   /\ SubSeq(q, 1, Len(q) - 1) = SubSeq(path, 1, Len(q) - 1)}

-----------------------------------------------------------------------------
(* The call returns an error and does nothing.                             *)
Fails(c, error) ==
  /\ call' = Append(c, error)
  /\ UNCHANGED <<tree, rsv, ordered>>

(* The functions that move things want the blocks in order.                *)
Moves(c, effect) ==
  \/ ~ordered /\ Fails(c, BADLAYOUT)
  \/ ordered /\ effect

Becomes(c, newTree) ==
  /\ tree' = newTree
  /\ call' = Append(c, 0)
  /\ UNCHANGED <<rsv, ordered>>

At(path, c, effect) ==
  \/ path = Nowhere /\ Fails(c, BADOFFSET)
  \/ path # Nowhere /\ effect

Has(path, name) == name \in DOMAIN tree[path]

(* Function f, with value v at k.                                          *)
Put(f, k, v) == [x \in DOMAIN f \cup {k} |-> IF x = k THEN v ELSE f[x]]

With(path, name, val) == [tree EXCEPT ![path] = Put(@, name, val)]

Without(path, name) ==
  [tree EXCEPT ![path] = [n \in DOMAIN @ \ {name} |-> @[n]]]

Pruned(path) == [q \in Nodes \ Below(path) |-> tree[q]]

SetProp(path, name, val) ==
  LET c == <<"setprop", path, name, val>>
  IN  Moves(c, At(path, c, \/ Becomes(c, With(path, name, val))
                           \/ Fails(c, NOSPACE)))

AppendProp(path, name, val) ==
  LET c   == <<"appendprop", path, name, val>>
      old == IF Has(path, name) THEN tree[path][name] ELSE <<>>
  IN  Moves(c, At(path, c, \/ Becomes(c, With(path, name, old \o val))
                           \/ Fails(c, NOSPACE)))

DelProp(path, name) ==
  LET c == <<"delprop", path, name>>
  IN  Moves(c, At(path, c,
        IF Has(path, name) THEN Becomes(c, Without(path, name))
                           ELSE Fails(c, NOTFOUND)))

(* The caller sees to it that no sibling has the name.                     *)
SetName(path, name) ==
  LET c       == <<"set_name", path, name>>
      k       == Len(path)
      Old(q)  == [q EXCEPT ![k] = NameOf(path)]
      Kept    == Nodes \ Below(path)
      Moved   == {[q EXCEPT ![k] = name] : q \in Below(path)}
  IN  Moves(c, At(path, c,
        \/ Becomes(c, [q \in Kept \cup Moved |->
                         IF q \in Kept THEN tree[q] ELSE tree[Old(q)]])
        \/ Fails(c, NOSPACE)))

(* The call also tells the path of the node it returns.                    *)
AddSubnode(path, name) ==
  LET c     == <<"add_subnode", path, name>>
      child == Append(path, name)
  IN  Moves(Append(c, Nowhere), At(path, Append(c, Nowhere),
        IF \E q \in Children(path) : Fits(NameOf(q), name)
          THEN Fails(Append(c, Nowhere), EXISTS)
          ELSE \/ Becomes(Append(c, child), Put(tree, child, <<>>))
               \/ Fails(Append(c, Nowhere), NOSPACE)))

DelNode(path) ==
  LET c == <<"del_node", path>>
  IN  Moves(c, At(path, c, Becomes(c, Pruned(path))))

-----------------------------------------------------------------------------
(* In place: fdt_wip.c.                                                    *)

SetPropInplace(path, name, val) ==
  LET c == <<"setprop_inplace", path, name, val>>
  IN  At(path, c,
        IF ~Has(path, name) THEN Fails(c, NOTFOUND)
        ELSE IF Len(tree[path][name]) # Len(val) THEN Fails(c, NOSPACE)
        ELSE Becomes(c, With(path, name, val)))

NopProperty(path, name) ==
  LET c == <<"nop_property", path, name>>
  IN  At(path, c, IF Has(path, name) THEN Becomes(c, Without(path, name))
                                     ELSE Fails(c, NOTFOUND))

NopNode(path) ==
  LET c == <<"nop_node", path>>
  IN  At(path, c, Becomes(c, Pruned(path)))

-----------------------------------------------------------------------------
(* Reservations.  One of size 0 is none.                                   *)
AddMemRsv(address, size) ==
  LET c == <<"add_mem_rsv", address, size>>
  IN  Moves(c,
        \/ /\ rsv' = IF size = 0 THEN rsv ELSE Append(rsv, <<address, size>>)
           /\ call' = Append(c, 0)
           /\ UNCHANGED <<tree, ordered>>
        \/ Fails(c, NOSPACE))

DelMemRsv(n) ==
  LET c == <<"del_mem_rsv", n>>
  IN  Moves(c,
        IF n >= Len(rsv) THEN Fails(c, NOTFOUND)
        ELSE /\ rsv' = SubSeq(rsv, 1, n) \o SubSeq(rsv, n + 2, Len(rsv))
             /\ call' = Append(c, 0)
             /\ UNCHANGED <<tree, ordered>>)

(* The blob as a whole: none of what it says changes.                      *)
Pack ==
  Moves(<<"pack">>, call' = <<"pack", 0>> /\ UNCHANGED <<tree, rsv, ordered>>)

OpenInto ==
  \/ /\ ordered'
     /\ call' = <<"open_into", 0>>
     /\ UNCHANGED <<tree, rsv>>
  \/ Fails(<<"open_into">>, NOSPACE)

-----------------------------------------------------------------------------
Next ==
  \/ \E path \in Targets :
       \/ \E name \in PropNames :
            \/ \E val \in Values : \/ SetProp(path, name, val)
                                   \/ AppendProp(path, name, val)
                                   \/ SetPropInplace(path, name, val)
            \/ DelProp(path, name)
            \/ NopProperty(path, name)
       \/ \E name \in NodeNames : SetName(path, name) \/ AddSubnode(path, name)
       \/ DelNode(path)
       \/ NopNode(path)
  \/ \E address \in Addresses, size \in Sizes : AddMemRsv(address, size)
  \/ \E n \in 0 .. Len(rsv) : DelMemRsv(n)
  \/ Pack
  \/ OpenInto

(* Any tree to begin with, and nothing called.                             *)
Init == call = <<"none">>

Spec == Init /\ [][Next]_vars
=============================================================================
