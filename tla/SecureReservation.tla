-------------------------- MODULE SecureReservation --------------------------
(***************************************************************************)
(* What tz_res_mem() of bios/main.c promises, without regions, cells or    *)
(* passes: there is a set of addresses the tree calls memory; either the   *)
(* addresses kept for the secure world are all in it and exactly they are  *)
(* taken out, or the boot stops and the tree is as it was.                 *)
(***************************************************************************)

CONSTANTS
  Address, \* the addresses a region can name
  Secure   \* those kept for the secure world, some of Address

VARIABLES
  memory,  \* the addresses the tree describes as memory
  outcome  \* "pending" until tz_res_mem returns or the boot stops

vars == <<memory, outcome>>

Init ==
  /\ memory \in SUBSET Address
  /\ outcome = "pending"

(* tz_res_mem returns.                                                     *)
Reserve ==
  /\ outcome = "pending"
  /\ Secure \subseteq memory
  /\ memory' = memory \ Secure
  /\ outcome' = "reserved"

(* "Can't find secure memory".                                             *)
Refuse ==
  /\ outcome = "pending"
  /\ ~(Secure \subseteq memory)
  /\ outcome' = "refused"
  /\ UNCHANGED memory

(* A tree without what tz_res_mem needs, or without room for the result.   *)
Halt ==
  /\ outcome = "pending"
  /\ outcome' = "halted"
  /\ UNCHANGED memory

Next == Reserve \/ Refuse \/ Halt

Safety == Init /\ [][Next]_vars

Spec == Safety /\ <>(outcome # "pending")
=============================================================================
