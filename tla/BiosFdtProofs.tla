---------------------------- MODULE BiosFdtProofs ----------------------------
(***************************************************************************)
(* Whatever tree the BIOS is started with, the blob it works on stays      *)
(* whole, and the offsets it holds from one call to the next are those of  *)
(* the nodes they were, as an edit moves only what is behind it.           *)
(***************************************************************************)
EXTENDS BiosFdt, FdtRwProofs, SequenceTheorems

-----------------------------------------------------------------------------
(* What a call leaves.                                                     *)

(* The nodes up to this one are where they were.                           *)
StillThere(b, c, node) ==
  \A o, path : IsNode(b, o, path) /\ o <= node => IsNode(c, o, path)

(* An edit behind a node leaves that, and the root.                        *)
LEMMA EditStays ==
  ASSUME NEW b, Rooted(b), NEW c, Kept(b, c), NEW node \in Nat, NodesStay(b, c, node)
  PROVE  Rooted(c) /\ StillThere(b, c, node)
<1>1. Sound(b) /\ Sound(c) /\ Ordered(c) /\ c.boot_cpuid_phys \in CpuIds
  BY DEF Rooted, Kept, StaysSound
<1>2. ASSUME NEW o, NEW path, IsNode(b, o, path), o <= node
      PROVE  IsNode(c, o, path)
  <2>1. Unmoved(b, c, Following(b, o))
    BY <1>2 DEF NodesStay, IsNode
  <2>. QED
    BY <1>1, <1>2, <2>1, NodeIsStill
<1>3. IsNode(c, 0, Root)
  <2>1. 0 <= node
    OBVIOUS
  <2>2. IsNode(b, 0, Root)
    BY DEF Rooted
  <2>. QED
    BY <1>2, <2>1, <2>2
<1>. QED
  BY <1>1, <1>2, <1>3 DEF Rooted, StillThere

(* A blob that says the same.                                              *)
LEMMA SameStays ==
  ASSUME NEW b, Rooted(b), NEW c, SaysSame(b, c), Sound(c), Ordered(c),
         c.boot_cpuid_phys \in CpuIds
  PROVE  Rooted(c)
<1>1. Sound(b) /\ IsNode(b, 0, Root) /\ 0 \in Tags(b)
  BY DEF Rooted, IsNode
<1>2. b.size_dt_strings \in Nat /\ b.size_dt_struct \in Nat /\ HasStruct(b)
  BY <1>1, NumbersAre, SoundIs
<1>3. Unmoved(b, c, b.size_dt_struct)
  BY <1>2 DEF SaysSame, Unmoved, SameTo
<1>4. Following(b, 0) \in Nat /\ Following(b, 0) <= b.size_dt_struct
  BY <1>1, <1>2, TagAt
<1>5. Unmoved(b, c, Following(b, 0))
  BY <1>2, <1>3, <1>4, UnmovedLess
<1>6. IsNode(c, 0, Root)
  BY <1>1, <1>5, NodeIsStill
<1>. QED
  BY <1>6 DEF Rooted

(* FDT_RW_CHECK_HEADER.                                                    *)
LEMMA CheckedIs ==
  ASSUME NEW b, NEW r
  PROVE  \/ /\ Misordered(b, RsvSize) /\ Checked(b, r).fdt = b
            /\ Checked(b, r).ret \in Int /\ Checked(b, r).ret < 0
         \/ ~Misordered(b, RsvSize) /\ Checked(b, r) = r
BY DEF Checked, Result, BADLAYOUT

(* Nothing is edited.                                                      *)
LEMMA NothingMoves ==
  ASSUME NEW b, Rooted(b), NEW node
  PROVE  Rooted(b) /\ StillThere(b, b, node)
BY DEF StillThere

(* fdt_setprop.                                                            *)
LEMMA SetPropIs ==
  ASSUME NEW b, Rooted(b), NEW node \in Nat, NEW name \in PropNames,
         NEW val, Len(val) \in Nat,
         NEW r, r = Checked(b, fdt_setprop(b, node, name, val))
  PROVE  Rooted(r.fdt) /\ StillThere(b, r.fdt, node)
<1> DEFINE s == fdt_setprop(b, node, name, val)
<1>1. Sound(b) /\ node \in Int
  BY DEF Rooted
<1>2. CASE Misordered(b, RsvSize) /\ r.fdt = b
  BY <1>2, NothingMoves
<1>3. CASE ~Misordered(b, RsvSize) /\ r = s
  <2>1. Kept(b, s.fdt) /\ NodesStay(b, s.fdt, node)
    BY <1>1, <1>3, SetPropKeeps, SetPropStays
  <2> HIDE DEF s
  <2>. QED
    BY <1>3, <2>1, EditStays
<1>. QED
  BY <1>2, <1>3, CheckedIs

(* fdt_del_node of a node that is not the root.                            *)
LEMMA DelNodeIs ==
  ASSUME NEW b, Rooted(b), NEW node \in Int, node > 0,
         NEW r, r = Checked(b, fdt_del_node(b, node))
  PROVE  Rooted(r.fdt)
<1> DEFINE s == fdt_del_node(b, node)
           zero == 0
<1>1. Sound(b) /\ zero \in Nat /\ zero < node
  BY DEF Rooted
<1>2. CASE Misordered(b, RsvSize) /\ r.fdt = b
  BY <1>2
<1>3. CASE ~Misordered(b, RsvSize) /\ r = s
  <2>1. Kept(b, s.fdt)
    BY <1>1, <1>3, DelNodeKeeps
  <2>2. IsNode(b, zero, Root)
    BY DEF Rooted
  <2> HIDE DEF zero
  <2>3. zero \in Tags(b) /\ TagOf(b, zero) = "BEGIN_NODE"
    BY <2>2 DEF IsNode
  <2>4. Unmoved(b, s.fdt, Following(b, zero))
    BY <1>1, <1>3, <2>3, DelNodeStays
  <2> HIDE DEF s
  <2>5. IsNode(s.fdt, zero, Root)
    BY <1>1, <2>1, <2>2, <2>4, NodeIsStill DEF Kept, StaysSound
  <2>. QED
    BY <1>3, <2>1, <2>5 DEF Rooted, Kept, StaysSound, zero
<1>. QED
  BY <1>2, <1>3, CheckedIs

(* fdt_add_subnode of a node.                                              *)
LEMMA AddsNode ==
  ASSUME NEW b, Rooted(b), NEW parent, NEW path, IsNode(b, parent, path),
         NEW name \in NodeNames,
         NEW r, r = Checked(b, fdt_add_subnode(b, parent, name))
  PROVE  /\ Rooted(r.fdt) /\ r.ret \in Int
         /\ r.ret >= 0 => IsNode(r.fdt, r.ret, Append(path, name))
<1> DEFINE s == fdt_add_subnode(b, parent, name)
           o == Place(b, parent)
<1>1. /\ Sound(b) /\ HasStruct(b)
      /\ parent \in Tags(b) /\ TagOf(b, parent) = "BEGIN_NODE"
      /\ At(Contents(b), parent) = path
  BY SoundIs DEF Rooted, IsNode
<1>2. parent \in Nat
  BY <1>1, TagAt
<1>3. CASE Misordered(b, RsvSize) /\ r.fdt = b /\ r.ret \in Int /\ r.ret < 0
  BY <1>3
<1>4. CASE ~Misordered(b, RsvSize) /\ r = s
  <2>1. Kept(b, s.fdt)
    <3>1. parent \in Int /\ parent # NOTFOUND
      BY <1>2 DEF NOTFOUND
    <3>. QED
      BY <1>1, <1>4, <3>1, AddSubnodeKeeps
  <2>2. \/ s.ret \in Errors /\ s.fdt = b
        \/ /\ s.ret = o /\ Unmoved(b, s.fdt, o)
           /\ TagOf(s.fdt, o) = "BEGIN_NODE" /\ NodeName(s.fdt, o) = name
    BY <1>1, <1>4, AddSubnodeIs
  <2>3. /\ o \in Tags(b) /\ o > parent /\ o \in Nat
        /\ \A t \in Tags(b) : parent < t /\ t < o => TagOf(b, t) \in {"PROP", "NOP"}
    BY <1>1, PlaceIs, TagAt
  <2> HIDE DEF s, o
  <2>4. CASE s.ret \in Errors /\ s.fdt = b
    BY <1>4, <2>4 DEF Errors
  <2>5. CASE /\ s.ret = o /\ Unmoved(b, s.fdt, o)
             /\ TagOf(s.fdt, o) = "BEGIN_NODE" /\ NodeName(s.fdt, o) = name
    <3> DEFINE c == s.fdt
    <3>1. Sound(c) /\ HasStruct(c)
      BY <2>1, SoundIs DEF Kept, StaysSound
    <3>2. SameTo(b, c, o) /\ c.size_dt_strings >= b.size_dt_strings
      BY <2>5 DEF Unmoved
    <3> HIDE DEF c
    <3>3. o \in Tags(c) /\ At(Contents(c), o) = Append(path, name)
      <4>1. TagOf(c, o) = "BEGIN_NODE" /\ NodeName(c, o) = name /\ parent < o
        BY <1>2, <2>3, <2>5 DEF c
      <4>2. /\ o \in Tags(c)
            /\ At(Contents(c), o) = Append(At(Contents(b), parent), NodeName(c, o))
        BY <1>1, <2>3, <3>1, <3>2, <4>1, NewNodeIs
      <4>. QED
        BY <1>1, <4>1, <4>2
    <3>4. Rooted(c)
      <4> DEFINE zero == 0
                 q == Following(b, zero)
      <4>1. IsNode(b, zero, Root) /\ zero \in Tags(b) /\ TagOf(b, zero) # "END"
        BY DEF Rooted, IsNode
      <4>2. zero < o /\ \A t \in Tags(b) : t > zero => t >= q
        BY <1>1, <1>2, <2>3, <4>1, FollowingIs
      <4>3. q \in Nat
        BY <1>1, <4>1, TagAt
      <4> HIDE DEF zero, q
      <4>4. q <= o
        <5>1. o >= q
          BY <2>3, <4>2
        <5>. QED
          BY <2>3, <4>3, <5>1
      <4>5. Unmoved(b, c, q)
        BY <2>3, <2>5, <4>3, <4>4, UnmovedLess DEF c
      <4>6. IsNode(c, zero, Root)
        BY <1>1, <3>1, <4>1, <4>5, NodeIsStill DEF q
      <4>. QED
        BY <2>1, <3>1, <4>6 DEF Rooted, Kept, StaysSound, c, zero
    <3>5. IsNode(c, o, Append(path, name))
      BY <2>5, <3>3 DEF IsNode, c
    <3>. QED
      BY <1>4, <2>3, <2>5, <3>4, <3>5 DEF c
  <2>. QED
    BY <2>2, <2>4, <2>5
<1>. QED
  BY <1>3, <1>4, CheckedIs
-----------------------------------------------------------------------------
(* The offsets the BIOS holds.                                             *)

(* tz_res_uart's is that of a node, and tz_add_optee_node's of what it has *)
(* added; all other edits begin at the root.                               *)
Held ==
  /\ pc \in PcValues
  /\ Rooted(fdt) /\ view = Contents(fdt)
  /\ pc \in {"open", "memory"} => offs = 0
  /\ pc = "uart" => \E path : IsNode(fdt, offs, path)
  /\ pc = "optee" => IsNode(fdt, offs, Firmware)
  /\ pc \in {"compatible", "method"} => IsNode(fdt, offs, Optee)

(* The states in which no offset is held.                                  *)
Free ==
  {"firmware", "pack", "copy", "reopen", "initrd-start", "initrd-end",
   "bootargs", "repack", "hang", "entered"}

(* A call after which no offset is held.                                   *)
LEMMA CallFrees ==
  ASSUME NEW r, Rooted(r.fdt), NEW next \in Free, Call(r, next)
  PROVE  Held'
BY DEF Call, Free, Held, PcValues

(* A call that keeps what is held next.                                    *)
LEMMA CallHolds ==
  ASSUME NEW r, Rooted(r.fdt), NEW next \in PcValues, Call(r, next),
         ~(r.ret < 0) =>
           /\ next \in {"open", "memory"} => offs' = 0
           /\ next = "uart" => \E path : IsNode(r.fdt, offs', path)
           /\ next = "optee" => IsNode(r.fdt, offs', Firmware)
           /\ next \in {"compatible", "method"} => IsNode(r.fdt, offs', Optee)
  PROVE  Held'
<1>1. fdt' = r.fdt /\ view' = Contents(fdt')
  BY DEF Call
<1>2. CASE r.ret < 0
  <2>1. pc' = "hang"
    BY <1>2 DEF Call
  <2>. QED
    BY <1>1, <2>1 DEF Held, PcValues
<1>3. CASE ~(r.ret < 0)
  <2>1. pc' = next
    BY <1>3 DEF Call
  <2>. QED
    BY <1>1, <1>3, <2>1 DEF Held
<1>. QED
  BY <1>2, <1>3

(* A sequence with something behind it.                                    *)
LEMMA OneMore ==
  ASSUME NEW s, NEW t, NEW S, s \in Seq(S), t \in Seq(S), NEW e \in S,
         Len(t) = Len(s) + 1, \A i \in 1 .. Len(s) : t[i] = s[i],
         t[Len(s) + 1] = e
  PROVE  Append(s, e) = t
<1> DEFINE a == Append(s, e)
<1>1. /\ a \in Seq(S) /\ Len(a) = Len(s) + 1 /\ Len(s) \in Nat
      /\ \A i \in 1 .. Len(s) : a[i] = s[i]
      /\ a[Len(s) + 1] = e
  BY AppendProperties, LenProperties
<1> HIDE DEF a
<1>2. ASSUME NEW i \in 1 .. Len(a)  PROVE a[i] = t[i]
  <2>1. i \in 1 .. Len(s) \/ i = Len(s) + 1
    BY <1>1
  <2>. QED
    BY <1>1, <2>1
<1>3. a = t
  BY <1>1, <1>2, SeqEqual
<1>. QED
  BY <1>3 DEF a

(* One path goes on to another.                                            *)
LEMMA PathsAre ==
  /\ Append(Root, "firmware") = Firmware
  /\ Append(Firmware, "optee") = Optee
  /\ Root # Nowhere /\ Firmware # Nowhere /\ Optee # Nowhere
<1>1. ASSUME NEW r, NEW f, NEW o
      PROVE  /\ Append(<<r>>, f) = <<r, f>> /\ Append(<<r, f>>, o) = <<r, f, o>>
             /\ <<r>> # << >> /\ <<r, f>> # << >> /\ <<r, f, o>> # << >>
  <2> DEFINE S == {r, f, o}
  <2>1. /\ <<r>> \in Seq(S) /\ <<r, f>> \in Seq(S) /\ <<r, f, o>> \in Seq(S)
        /\ f \in S /\ o \in S
    OBVIOUS
  <2> HIDE DEF S
  <2>2. Append(<<r>>, f) = <<r, f>>
    <3> DEFINE s == <<r>>
               t == <<r, f>>
    <3>1. /\ Len(t) = Len(s) + 1 /\ t[Len(s) + 1] = f
          /\ \A i \in 1 .. Len(s) : t[i] = s[i]
      OBVIOUS
    <3>2. s \in Seq(S) /\ t \in Seq(S)
      BY <2>1
    <3> HIDE DEF s, t
    <3>3. Append(s, f) = t
      BY <2>1, <3>1, <3>2, OneMore
    <3>. QED
      BY <3>3 DEF s, t
  <2>3. Append(<<r, f>>, o) = <<r, f, o>>
    <3> DEFINE s == <<r, f>>
               t == <<r, f, o>>
    <3>1. /\ Len(t) = Len(s) + 1 /\ t[Len(s) + 1] = o
          /\ \A i \in 1 .. Len(s) : t[i] = s[i]
      OBVIOUS
    <3>2. s \in Seq(S) /\ t \in Seq(S)
      BY <2>1
    <3> HIDE DEF s, t
    <3>3. Append(s, o) = t
      BY <2>1, <3>1, <3>2, OneMore
    <3>. QED
      BY <3>3 DEF s, t
  <2>4. Len(<<r>>) = 1 /\ Len(<<r, f>>) = 2 /\ Len(<<r, f, o>>) = 3 /\ Len(<< >>) = 0
    OBVIOUS
  <2>5. <<r>> # << >> /\ <<r, f>> # << >> /\ <<r, f, o>> # << >>
    BY <2>4
  <2>. QED
    BY <2>2, <2>3, <2>5
<1>. QED
  BY <1>1, Zenon DEF Root, Firmware, Optee, Nowhere

(* The tree the BIOS is started with.                                      *)
LEMMA HoldsFromInit ==
  ASSUME Init
  PROVE  Held
<1>1. PICK b \in Dtbs : dtb = [blob |-> b, view |-> Contents(b)]
  BY DEF Init
<1>2. fdt = b /\ view = Contents(b) /\ pc = "open" /\ offs = 0
  BY <1>1 DEF Init
<1>3. /\ Sound(b) /\ Whole(b, Contents(b)) /\ b.boot_cpuid_phys \in CpuIds
      /\ TagOf(b, 0) = "BEGIN_NODE" /\ <<NodeName(b, 0)>> = Root
  BY DtbsAssumption, Zenon DEF TagOf, Root
<1>4. Ordered(b)
  <2>1. HasStruct(b)
    BY <1>3, SoundIs
  <2> DEFINE v == Contents(b)
  <2>2. v.ok /\ v.path = Nowhere
    BY <1>3 DEF Whole
  <2> HIDE DEF v
  <2>3. v = Contents(b)
    BY DEF v
  <2>. QED
    BY <2>1, <2>2, <2>3, WholeIsOrdered
<1>5. IsNode(b, 0, <<NodeName(b, 0)>>)
  BY <1>3, RootIs
<1>6. IsNode(b, 0, Root)
  BY <1>3, <1>5, Zenon
<1>7. Rooted(b)
  BY <1>3, <1>4, <1>6 DEF Rooted
<1>. QED
  BY <1>2, <1>7 DEF Held, PcValues

(* fdt_open_into, into the same buffer or another, and fdt_pack.           *)
LEMMA WholesAre ==
  ASSUME NEW b, Rooted(b)
  PROVE  /\ \A r \in fdt_open_into(b, BUF_SIZE) : Rooted(r.fdt)
         /\ Rooted(fdt_open_copy(b, BUF_SIZE).fdt)
         /\ Rooted(Checked(b, fdt_pack(b)).fdt)
<1>1. Sound(b) /\ Ordered(b) /\ b.boot_cpuid_phys \in CpuIds
  BY DEF Rooted
<1>2. ASSUME NEW r \in fdt_open_into(b, BUF_SIZE)  PROVE Rooted(r.fdt)
  <2> DEFINE c == r.fdt
  <2>1. /\ Sound(c) /\ c.boot_cpuid_phys \in CpuIds /\ Ordered(c)
        /\ SaysSame(b, c)
    BY <1>1, OpenIntoKeeps
  <2> HIDE DEF c
  <2>2. Rooted(c)
    BY <2>1, SameStays
  <2>. QED
    BY <2>2 DEF c
<1>3. Rooted(fdt_open_copy(b, BUF_SIZE).fdt)
  <2> DEFINE c == fdt_open_copy(b, BUF_SIZE).fdt
  <2>1. Kept(b, c) /\ SaysSame(b, c)
    BY <1>1, OpenCopyKeeps
  <2> HIDE DEF c
  <2>2. Rooted(c)
    BY <1>1, <2>1, SameStays DEF Kept, StaysSound
  <2>. QED
    BY <2>2 DEF c
<1>4. Rooted(Checked(b, fdt_pack(b)).fdt)
  <2> DEFINE s == fdt_pack(b)
             c == s.fdt
  <2>1. CASE Misordered(b, RsvSize) /\ Checked(b, s).fdt = b
    BY <2>1
  <2>2. CASE ~Misordered(b, RsvSize) /\ Checked(b, s) = s
    <3>1. Kept(b, c) /\ SaysSame(b, c)
      BY <1>1, <2>2, PackKeeps
    <3> HIDE DEF c
    <3>2. Rooted(c)
      BY <1>1, <3>1, SameStays DEF Kept, StaysSound
    <3>. QED
      BY <2>2, <3>2 DEF c
  <2>. QED
    BY <2>1, <2>2, CheckedIs
<1>. QED
  BY <1>2, <1>3, <1>4

(* The names and lengths of what is written.                               *)
LEMMA WrittenIs ==
  /\ "firmware" \in NodeNames /\ "optee" \in NodeNames
  /\ "reg" \in PropNames /\ "compatible" \in PropNames /\ "method" \in PropNames
  /\ "linux,initrd-start" \in PropNames /\ "linux,initrd-end" \in PropNames
  /\ "bootargs" \in PropNames
  /\ \A val \in Carved : Len(val) \in Nat
  /\ Len(OPTEE_TZ) \in Nat /\ Len(SMC) \in Nat /\ Len(COMMAND_LINE) \in Nat
  /\ Len(ROOTFS_START) \in Nat /\ Len(ROOTFS_END) \in Nat
BY WrittenAssumption, Zenon

(* setprop_cell and setprop_string.                                        *)
LEMMA SetsChosenHolds ==
  ASSUME Held, NEW name \in PropNames, NEW val, Len(val) \in Nat,
         NEW next \in Free, SetsChosen(name, val, next)
  PROVE  Held'
<1> DEFINE b == fdt
           node == SubnodeOffset(b, 0, "chosen")
           r == Checked(b, fdt_setprop(b, node, name, val))
<1>1. Rooted(b) /\ view = Contents(b)
  BY DEF Held
<1>2. node \in Int
  <2>1. HasStruct(b)
    BY <1>1, SoundIs DEF Rooted
  <2>. QED
    BY <2>1, SubnodeOffsetIs
<1>3. IF node < 0 THEN pc' = "hang" /\ UNCHANGED <<fdt, view>> ELSE Call(r, next)
  BY DEF SetsChosen
<1>4. CASE node < 0
  BY <1>1, <1>3, <1>4 DEF Held, PcValues
<1>5. CASE ~(node < 0)
  <2>1. node \in Nat
    BY <1>2, <1>5
  <2>2. Call(r, next)
    BY <1>3, <1>5
  <2> HIDE DEF b, node
  <2>3. Rooted(r.fdt)
    BY <1>1, <2>1, SetPropIs
  <2> HIDE DEF r
  <2>. QED
    BY <2>2, <2>3, CallFrees
<1>. QED
  BY <1>4, <1>5

(* Nothing is done but hang.                                               *)
LEMMA HangKeeps ==
  ASSUME Held, pc' = "hang", UNCHANGED <<fdt, view>>
  PROVE  Held'
BY DEF Held, PcValues

(* The fdt_setprop of tz_res_mem, after which the walk of tz_res_uart      *)
(* begins at the root.                                                     *)
LEMMA TzResMemHolds ==
  ASSUME Held, TzResMem
  PROVE  Held'
<1> DEFINE b == fdt
           node == SubnodeOffset(b, 0, "memory")
           Edit(val) == Checked(b, fdt_setprop(b, node, "reg", val))
           next == "uart"
<1>1. Rooted(b) /\ offs' = 0
  BY DEF Held, TzResMem
<1>2. node \in Int
  <2>1. HasStruct(b)
    BY <1>1, SoundIs DEF Rooted
  <2>. QED
    BY <2>1, SubnodeOffsetIs
<1>3. \/ pc' = "hang" /\ UNCHANGED <<fdt, view>>
      \/ node >= 0 /\ \E val \in Carved : Call(Edit(val), next)
  BY DEF TzResMem
<1> HIDE DEF b, node
<1>4. ASSUME node >= 0, NEW val \in Carved, Call(Edit(val), next)
      PROVE  Held'
  <2> DEFINE r == Edit(val)
  <2>1. node \in Nat
    BY <1>2, <1>4
  <2>2. "reg" \in PropNames /\ Len(val) \in Nat
    BY WrittenIs, Zenon
  <2>3. Rooted(r.fdt)
    BY <1>1, <2>1, <2>2, SetPropIs
  <2>4. Call(r, next)
    BY <1>4
  <2> HIDE DEF r
  <2>5. IsNode(r.fdt, offs', Root)
    BY <1>1, <2>3 DEF Rooted
  <2>. QED
    BY <2>3, <2>4, <2>5, CallHolds DEF PcValues
<1>. QED
  BY <1>3, <1>4, HangKeeps

(* One iteration of the loop of tz_res_uart.                               *)
LEMMA WalkIs ==
  ASSUME Held, NEW found, NextUart(found)
  PROVE  /\ offs \in Nat /\ offs' \in Int
         /\ offs' >= 0 =>
              /\ offs < offs' /\ offs' \in Tags(fdt)
              /\ TagOf(fdt, offs') = "BEGIN_NODE"
<1> DEFINE n == offs'
<1>1. HasStruct(fdt) /\ offs \in Tags(fdt)
  <2>1. pc = "uart"
    BY DEF NextUart
  <2>. QED
    BY <2>1, SoundIs DEF Held, Rooted, IsNode
<1>2. offs \in Nat
  BY <1>1, TagAt
<1>3. n = NextNodeFlat(fdt, offs)
  BY DEF NextUart
<1>4. \/ n \in Errors
      \/ n \in Tags(fdt) /\ TagOf(fdt, n) = "BEGIN_NODE" /\ n > offs
  BY <1>1, <1>2, <1>3, NextNodeFlatIs
<1> HIDE DEF n
<1>5. CASE n \in Errors
  <2>1. n \in Int /\ ~(n >= 0)
    BY <1>5 DEF Errors
  <2>. QED
    BY <1>2, <2>1 DEF n
<1>6. CASE n \in Tags(fdt) /\ TagOf(fdt, n) = "BEGIN_NODE" /\ n > offs
  <2>1. n \in Nat
    BY <1>1, <1>6, TagAt
  <2>2. n \in Int /\ offs < n
    BY <1>2, <1>6, <2>1
  <2>. QED
    BY <1>2, <1>6, <2>2 DEF n
<1>. QED
  BY <1>4, <1>5, <1>6

(* A step of the BIOS.                                                     *)
LEMMA NextKeepsHeld ==
  ASSUME Held, [Next]_vars
  PROVE  Held'
<1> DEFINE b == fdt
<1>1. Rooted(b) /\ pc \in PcValues /\ view = Contents(b)
  BY DEF Held
<1>2. CASE OpenFdt
  <2>1. \/ \E r \in fdt_open_into(b, BUF_SIZE) : Call(r, "memory")
        \/ Call(fdt_open_copy(b, BUF_SIZE), "memory")
    BY <1>2 DEF OpenFdt, Opens
  <2>2. offs' = 0
    BY <1>2 DEF OpenFdt, Held
  <2>3. ASSUME NEW r, Rooted(r.fdt), Call(r, "memory")
        PROVE  Held'
    BY <2>2, <2>3, CallHolds DEF PcValues
  <2> HIDE DEF b
  <2>. QED
    BY <1>1, <2>1, <2>3, WholesAre
<1>3. CASE TzResMem
  BY <1>3, TzResMemHolds
<1>4. CASE PassNode
  <2>1. offs' \in Tags(b) /\ TagOf(b, offs') = "BEGIN_NODE" /\ pc = "uart"
    BY <1>4, WalkIs DEF PassNode, NextUart
  <2>2. IsNode(b, offs', At(Contents(b), offs'))
    BY <2>1 DEF IsNode
  <2>3. UNCHANGED <<pc, fdt, view>>
    BY <1>4 DEF PassNode
  <2>. QED
    BY <1>1, <2>1, <2>2, <2>3 DEF Held
<1>5. CASE DeleteUart1
  <2> DEFINE node == offs'
             r == Checked(b, fdt_del_node(b, node))
  <2>1. node >= 0 /\ Call(r, "firmware")
    BY <1>5 DEF DeleteUart1, NextUart
  <2>2. node \in Int /\ offs \in Nat /\ offs < node
    BY <1>5, <2>1, WalkIs DEF DeleteUart1
  <2> HIDE DEF b, node
  <2>3. node > 0
    BY <2>2
  <2>4. Rooted(r.fdt)
    BY <1>1, <2>2, <2>3, DelNodeIs
  <2> HIDE DEF r
  <2>. QED
    BY <2>1, <2>4, CallFrees DEF Free
<1>6. CASE NoMoreNodes
  BY <1>1, <1>6 DEF NoMoreNodes, Held, PcValues
<1>7. CASE AddFirmware
  <2> DEFINE r == Checked(b, fdt_add_subnode(b, 0, "firmware"))
  <2>1. Call(r, "optee") /\ offs' = r.ret
    BY <1>7 DEF AddFirmware, AddsSubnode
  <2> HIDE DEF b
  <2>2. IsNode(b, 0, Root) /\ "firmware" \in NodeNames
    BY <1>1, WrittenIs DEF Rooted
  <2>3. /\ Rooted(r.fdt) /\ r.ret \in Int
        /\ r.ret >= 0 => IsNode(r.fdt, r.ret, Append(Root, "firmware"))
    BY <1>1, <2>2, AddsNode
  <2> HIDE DEF r
  <2>4. r.ret >= 0 => IsNode(r.fdt, offs', Firmware)
    BY <2>1, <2>3, PathsAre, Zenon
  <2>5. ~(r.ret < 0) => r.ret >= 0
    BY <2>3
  <2>. QED
    BY <2>1, <2>3, <2>4, <2>5, CallHolds DEF PcValues
<1>8. CASE AddOptee
  <2> DEFINE r == Checked(b, fdt_add_subnode(b, offs, "optee"))
  <2>1. Call(r, "compatible") /\ offs' = r.ret
    BY <1>8 DEF AddOptee, AddsSubnode
  <2>2. IsNode(b, offs, Firmware) /\ "optee" \in NodeNames
    BY <1>8, WrittenIs DEF AddOptee, Held
  <2> HIDE DEF b
  <2>3. /\ Rooted(r.fdt) /\ r.ret \in Int
        /\ r.ret >= 0 => IsNode(r.fdt, r.ret, Append(Firmware, "optee"))
    BY <1>1, <2>2, AddsNode
  <2> HIDE DEF r
  <2>4. r.ret >= 0 => IsNode(r.fdt, offs', Optee)
    BY <2>1, <2>3, PathsAre, Zenon
  <2>5. ~(r.ret < 0) => r.ret >= 0
    BY <2>3
  <2>. QED
    BY <2>1, <2>3, <2>4, <2>5, CallHolds DEF PcValues
<1>9. CASE SetCompatible \/ SetMethod
  <2>1. IsNode(b, offs, Optee) /\ offs' = offs
    BY <1>9 DEF SetCompatible, SetMethod, SetsProp, Held
  <2>2. offs \in Nat
    <3>1. HasStruct(b) /\ offs \in Tags(b)
      BY <1>1, <2>1, SoundIs DEF Rooted, IsNode
    <3>. QED
      BY <3>1, TagAt
  <2>3. ASSUME NEW name \in PropNames, NEW val, Len(val) \in Nat
        PROVE  LET c == Checked(b, fdt_setprop(b, offs, name, val)).fdt
               IN  Rooted(c) /\ IsNode(c, offs', Optee)
    <3> DEFINE r == Checked(b, fdt_setprop(b, offs, name, val))
    <3> HIDE DEF b
    <3>1. Rooted(r.fdt) /\ StillThere(b, r.fdt, offs)
      BY <1>1, <2>2, <2>3, SetPropIs
    <3> HIDE DEF r
    <3>2. IsNode(r.fdt, offs', Optee)
      BY <2>1, <2>2, <3>1 DEF StillThere
    <3>. QED
      BY <3>1, <3>2 DEF r
  <2>4. CASE SetCompatible
    <3> DEFINE r == Checked(b, fdt_setprop(b, offs, "compatible", OPTEE_TZ))
    <3>1. Call(r, "method")
      BY <2>4 DEF SetCompatible, SetsProp
    <3>2. Rooted(r.fdt) /\ IsNode(r.fdt, offs', Optee)
      BY <2>3, WrittenIs
    <3> HIDE DEF b, r
    <3>. QED
      BY <3>1, <3>2, CallHolds DEF PcValues
  <2>5. CASE SetMethod
    <3> DEFINE r == Checked(b, fdt_setprop(b, offs, "method", SMC))
    <3>1. Call(r, "pack")
      BY <2>5 DEF SetMethod, SetsProp
    <3>2. Rooted(r.fdt)
      BY <2>3, WrittenIs
    <3> HIDE DEF b, r
    <3>. QED
      BY <3>1, <3>2, CallFrees DEF Free
  <2>. QED
    BY <1>9, <2>4, <2>5
<1>10. CASE Pack \/ EnterKernel
  <2> DEFINE r == Checked(b, fdt_pack(b))
  <2>1. Call(r, "copy") \/ Call(r, "entered")
    BY <1>10 DEF Pack, EnterKernel, Packs
  <2> HIDE DEF b
  <2>2. Rooted(r.fdt)
    BY <1>1, WholesAre
  <2> HIDE DEF r
  <2>. QED
    BY <2>1, <2>2, CallFrees DEF Free
<1>11. CASE CopyDtb
  <2> DEFINE r == fdt_open_copy(b, BUF_SIZE)
  <2>1. Call(r, "reopen")
    BY <1>11 DEF CopyDtb
  <2> HIDE DEF b
  <2>2. Rooted(r.fdt)
    BY <1>1, WholesAre
  <2> HIDE DEF r
  <2>. QED
    BY <2>1, <2>2, CallFrees DEF Free
<1>12. CASE ReopenFdt
  <2>1. PICK r \in fdt_open_into(b, BUF_SIZE) : Call(r, "initrd-start")
    BY <1>12 DEF ReopenFdt, Opens
  <2>2. Rooted(r.fdt)
    BY <1>1, WholesAre
  <2>. QED
    BY <2>1, <2>2, CallFrees DEF Free
<1>13. CASE SetInitrdStart \/ SetInitrdEnd \/ SetBootargs
  <2>1. ASSUME NEW name, NEW val, NEW next, SetsChosen(name, val, next),
               name \in PropNames, Len(val) \in Nat, next \in Free
        PROVE  Held'
    BY <2>1, SetsChosenHolds
  <2>2. "initrd-end" \in Free /\ "bootargs" \in Free /\ "repack" \in Free
    BY Zenon DEF Free
  <2>3. CASE SetInitrdStart
    BY <2>1, <2>2, <2>3, WrittenIs, Zenon DEF SetInitrdStart
  <2>4. CASE SetInitrdEnd
    BY <2>1, <2>2, <2>4, WrittenIs, Zenon DEF SetInitrdEnd
  <2>5. CASE SetBootargs
    BY <2>1, <2>2, <2>5, WrittenIs, Zenon DEF SetBootargs
  <2>. QED
    BY <1>13, <2>3, <2>4, <2>5
<1>14. CASE Stopped \/ UNCHANGED vars
  BY <1>14 DEF Stopped, vars, Held
<1>. QED
  BY <1>2, <1>3, <1>4, <1>5, <1>6, <1>7, <1>8, <1>9, <1>10, <1>11, <1>12,
     <1>13, <1>14 DEF Next

-----------------------------------------------------------------------------
(* What is held says what the run checks.                                  *)
LEMMA HeldIsRight ==
  ASSUME Held
  PROVE  HeldOffsets
<1>1. Rooted(fdt) /\ view = Contents(fdt) /\ pc \in PcValues
  BY DEF Held
<1>2. Sound(fdt) /\ Ordered(fdt)
  BY <1>1 DEF Rooted
<1>3. Fits(fdt) /\ Whole(fdt, view)
  BY <1>1, <1>2, SoundIs, SoundIsWhole
<1>4. pc = "uart" => At(view, offs) # Nowhere
  BY <1>1, <1>2, NodeIsSomewhere DEF Held, IsNode
<1>5. pc = "optee" => At(view, offs) = Firmware
  BY <1>1 DEF Held, IsNode
<1>6. pc \in {"compatible", "method"} => At(view, offs) = Optee
  BY <1>1 DEF Held, IsNode
<1>. QED
  BY <1>1, <1>3, <1>4, <1>5, <1>6, Zenon DEF HeldOffsets, Firmware, Optee

(* Whatever tree the BIOS is started with, the blob it works on stays in   *)
(* its buffer and whole, tz_res_uart is at a node while it walks, and      *)
(* tz_add_optee_node gives its properties to /firmware/optee, wherever the *)
(* edits have moved the rest.                                              *)
THEOREM OffsetsStayHeld == Spec => []HeldOffsets
<1>1. Init => Held
  BY HoldsFromInit
<1>2. Held /\ [Next]_vars => Held'
  BY NextKeepsHeld
<1>3. Held => HeldOffsets
  BY HeldIsRight
<1>. QED
  BY <1>1, <1>2, <1>3, PTL DEF Spec

(* In every tree the walk of tz_res_uart goes on to a node behind the one  *)
(* it is at, without an edit, and every other step is the last of its      *)
(* kind.                                                                   *)
THEOREM TheWalkAdvances == Spec => WalkAdvances
<1>1. Init => Held
  BY HoldsFromInit
<1>2. Held /\ [Next]_vars => Held'
  BY NextKeepsHeld
<1>3. ASSUME Held, [Next]_vars
      PROVE  [pc' = pc => pc = "uart" /\ offs < offs' /\ fdt' = fdt]_vars
  <2>1. ASSUME NEW r, NEW next, Call(r, next)
        PROVE  pc' \in {"hang", next}
    BY <2>1 DEF Call
  <2>2. CASE PassNode
    <3>1. offs < offs'
      BY <1>3, <2>2, WalkIs DEF PassNode
    <3>. QED
      BY <2>2, <3>1 DEF PassNode, NextUart
  <2>3. CASE OpenFdt \/ TzResMem
    BY <2>1, <2>3 DEF OpenFdt, Opens, TzResMem
  <2>4. CASE DeleteUart1 \/ NoMoreNodes
    BY <2>1, <2>4 DEF DeleteUart1, NoMoreNodes, NextUart
  <2>5. CASE AddFirmware \/ AddOptee
    BY <2>1, <2>5 DEF AddFirmware, AddOptee, AddsSubnode
  <2>6. CASE SetCompatible \/ SetMethod
    BY <2>1, <2>6 DEF SetCompatible, SetMethod, SetsProp
  <2>7. CASE Pack \/ CopyDtb \/ ReopenFdt \/ EnterKernel
    BY <2>1, <2>7 DEF Pack, EnterKernel, Packs, CopyDtb, ReopenFdt, Opens
  <2>8. CASE SetInitrdStart \/ SetInitrdEnd \/ SetBootargs
    <3>1. ASSUME NEW name, NEW val, NEW next, SetsChosen(name, val, next)
          PROVE  pc' \in {"hang", next}
      BY <2>1, <3>1 DEF SetsChosen
    <3>2. \/ pc = "initrd-start" /\ pc' \in {"hang", "initrd-end"}
          \/ pc = "initrd-end" /\ pc' \in {"hang", "bootargs"}
          \/ pc = "bootargs" /\ pc' \in {"hang", "repack"}
      BY <2>8, <3>1, Zenon DEF SetInitrdStart, SetInitrdEnd, SetBootargs
    <3>. QED
      BY <3>2
  <2>9. CASE Stopped \/ UNCHANGED vars
    BY <2>9 DEF Stopped
  <2>. QED
    BY <1>3, <2>2, <2>3, <2>4, <2>5, <2>6, <2>7, <2>8, <2>9 DEF Next
<1>. QED
  BY <1>1, <1>2, <1>3, PTL DEF Spec, WalkAdvances
=============================================================================
