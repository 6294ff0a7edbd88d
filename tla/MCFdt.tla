-------------------------------- MODULE MCFdt --------------------------------
(***************************************************************************)
(* Instances of Fdt for TLC.  One of the node names has a unit address   *)
(* and one of the property names ends like the other; values and names     *)
(* fill their last word or do not.                                         *)
(***************************************************************************)
EXTENDS Fdt, MCBlob

MCNodeLength == "" :> 0 @@ "n" :> 1 @@ "m@1" :> 3 @@ "m" :> 1

MCBaseName == "" :> "" @@ "n" :> "n" @@ "m@1" :> "m" @@ "m" :> "m"

MCTails == "p" :> <<"p", "">> @@ "qp" :> <<"qp", "p", "">>

MCValues == {<<1>>, <<2, 1, 1, 1, 2>>}

FewValues == {<<1>>}

(* An error instead of an offset, and one in the name of the root.         *)
MCBadOffsets == {BADOFFSET, FDT_TAGSIZE}

NoOffsets == {}

(* The error a search that found nothing returns, not looked at.           *)
NotFoundOffset == {NOTFOUND}

(* A root with a property and two subnodes, and NOPs here and there.       *)
Plain == Node("", Prop(0, <<1>>) \o Node("m@1", Prop(0, <<2, 1>>)) \o Node("n", <<>>))

Nopped == Node("", Tag("NOP") \o Prop(1, <<1>>) \o Tag("NOP") \o Node("m", <<>>))

MCBlobs ==
  {Blob(<<>>, Plain, StringCells("p"), 0, 18, FALSE),
   Blob(<< <<1, 1>> >>, Nopped, StringCells("qp"), 4, 36, FALSE),
   Blob(<< <<1, 1>>, <<0, 1>> >>, Node("", Prop(0, <<1>>)), StringCells("p"),
        0, 0, TRUE)}
=============================================================================
