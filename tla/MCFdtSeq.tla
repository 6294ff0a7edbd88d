------------------------------ MODULE MCFdtSeq ------------------------------
(***************************************************************************)
(* Small buffers to write into, and blobs with all that the readers look   *)
(* for: aliases, phandles of both kinds, lists of strings, names with and  *)
(* without unit addresses, NOPs, and nodes that are deeper than others.    *)
(***************************************************************************)
EXTENDS FdtSeq, MCBlob

MCNodeLength ==
  "" :> 0 @@ "n" :> 1 @@ "m@1" :> 3 @@ "m@2" :> 3 @@ "m" :> 1 @@ "aliases" :> 7

MCBaseName ==
  [n \in DOMAIN MCNodeLength |-> IF n \in {"m@1", "m@2"} THEN "m" ELSE n]

Whole1(name) == <<name, "">>

MCTails ==
  [n \in {"p", "phandle", "linux,phandle", "compatible"} |-> Whole1(n)]
    @@ "qp" :> <<"qp", "p", "">>

(* "/m@1/n", which is what the property p of aliases says.                 *)
AliasPath == <<7, 7, 7, 0>>

MCPathOf == AliasPath :> <<"m@1", "n">>

MCAliasPaths == {<<>>, <<"n">>, <<"m">>, <<"m@2">>, <<"m", "n">>, <<"n", "m">>}

Handle(n) == <<0, 0, 0, n>>

MCPhandles == {NoPhandle, AllOnes, Handle(1), Handle(2), Handle(3)}

MCCompatibles == {<<5, 0>>, <<6, 0>>, <<5, 6, 0>>}

MCValues == {<<1>>, <<2, 1, 1, 1, 2>>}

FewValues == {<<1>>}

MCBlobs ==
  LET strings == StringCells("qp") \o StringCells("phandle")
                   \o StringCells("linux,phandle") \o StringCells("compatible")
      qp == 0
      p  == 1
      phandle == 3
      linux   == 5
      compat  == 7
      Deep == Node("n", Prop(compat, <<6, 0>>) \o Prop(phandle, Handle(2)))
      Rich == Node("", Prop(p, <<1>>) \o Tag("NOP")
                \o Node("m@1", Prop(compat, <<5, 0, 5, 6, 0>>)
                                 \o Tag("NOP") \o Prop(linux, Handle(1))
                                 \o Node("m", Deep) \o Deep)
                \o Tag("NOP")
                \o Node("aliases", Prop(p, AliasPath))
                \o Node("m@2", Prop(phandle, <<1>>) \o Prop(linux, Handle(3))
                                 \o Prop(qp, <<2, 1, 1, 1, 2>>)
                                 \o Prop(compat, <<6, 0>>)))
      Poor == Node("", Node("n", Node("m@2", <<>>)) \o Node("m", <<>>))
  IN  {Blob(<<>>, Rich, strings, 0, 0, FALSE),
       Blob(<< <<1, 1>> >>, Poor, <<>>, 0, 4, FALSE)}
=============================================================================
