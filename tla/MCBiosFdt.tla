------------------------------ MODULE MCBiosFdt ------------------------------
(***************************************************************************)
(* Trees with uart1 in different places, things that are like it, things   *)
(* that are missing, and from plenty to no space.                          *)
(***************************************************************************)
EXTENDS BiosFdt, MCBlob

MCNodeLength ==
  "" :> 0 @@ "memory@4" :> 8 @@ "memory" :> 6 @@ "chosen" :> 6
    @@ "firmware" :> 8 @@ "optee" :> 5 @@ "bus" :> 3
    @@ "uart@1" :> 6 @@ "uart@2" :> 6

MCBaseName ==
  [n \in DOMAIN MCNodeLength |->
     IF n = "memory@4" THEN "memory"
     ELSE IF n \in {"uart@1", "uart@2"} THEN "uart" ELSE n]

(* The names the trees have to begin with, in the order of the strings;    *)
(* "method" and the like are added.                                        *)
OldNames == <<"#address-cells", "#size-cells", "reg", "compatible", "filler">>

MCTails ==
  [n \in Range(OldNames)
         \cup {"method", "linux,initrd-start", "linux,initrd-end", "bootargs"}
     |-> <<n, "", "">>]

Off(name) == 3 * ((CHOOSE i \in DOMAIN OldNames : OldNames[i] = name) - 1)

P(name, val) == Prop(Off(name), val)

Cell(n) == <<0, 0, 0, n>>

MCPL011 == <<8, 0>>
MCOpteeTz == <<9, 9, 9, 9, 0>>
MCSmc == <<7, 7, 7, 0>>
MCCommandLine == <<6, 6, 0>>
MCUart1 == Cell(3)
MCRootfsStart == Cell(4)
MCRootfsEnd == Cell(5)
MCCarved == {<<>>, Cell(1) \o Cell(1), Cell(1) \o Cell(1) \o Cell(1) \o Cell(1)}

OtherCompat == <<5, 0>>

Uart(name, compat, reg, inside) ==
  Node(name, P("compatible", compat) \o P("reg", reg) \o inside)

(* What is where the UARTs may be.  Two cells: uart1 has a high cell.      *)
Devices(two) ==
  LET At1(n) == IF two THEN Cell(0) \o Cell(n) ELSE Cell(n)
      Both   == Uart("uart@1", MCPL011, At1(2), <<>>)
                  \o Uart("uart@2", OtherCompat \o MCPL011, At1(3), <<>>)
  IN  {<<>>,
       Uart("uart@1", OtherCompat, At1(3), <<>>),
       Node("uart@1", P("compatible", MCPL011)),
       Uart("uart@1", MCPL011, At1(3) \o Cell(3), Node("bus", <<>>)),
       Both, Node("bus", Both) \o Node("uart@1", <<>>),
       Node("bus", Both) \o Uart("uart@1", MCPL011, Cell(3) \o Cell(3), <<>>)}

Root(cells, memory, devices, chosen, filler) ==
  Node("", P("#address-cells", Cell(cells)) \o P("#size-cells", Cell(1))
             \o P("filler", [i \in 1 .. filler |-> 1])
             \o memory \o devices \o chosen)

GoodMemory == Node("memory@4", P("reg", Cell(1) \o Cell(1)))

Chosen == Node("chosen", P("compatible", OtherCompat))

Strings == FlattenSeq([i \in DOMAIN OldNames |-> StringCells(OldNames[i])])

Places ==
  {Blob(<<>>, Root(1 + IF two THEN 1 ELSE 0, GoodMemory, d, Chosen, 0),
        Strings, 0, 0, swapped) :
     two \in BOOLEAN, d \in Devices(TRUE) \cup Devices(FALSE),
     swapped \in BOOLEAN}

Lacking ==
  {Blob(<<>>, Root(cells, memory, <<>>, chosen, 0), Strings, 0, 0, FALSE) :
     cells \in {1, 3},
     memory \in {GoodMemory, <<>>, Node("memory", <<>>)},
     chosen \in {Chosen, <<>>, Node("firmware", <<>>) \o Chosen}}

Fillers ==
  {Blob(<< <<1, 1>> >>, Root(1, GoodMemory, d, Chosen, n), Strings, 0, 0,
        swapped) :
     d \in {<<>>, Uart("uart@1", MCPL011, Cell(3), <<>>)},
     n \in {4 * k : k \in 0 .. 60}, swapped \in BOOLEAN}

MCDtbs == {d \in Places \cup Lacking \cup Fillers : d.totalsize <= BUF_SIZE}
=============================================================================
