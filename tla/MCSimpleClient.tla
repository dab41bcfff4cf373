--------------------------- MODULE MCSimpleClient ---------------------------
(***************************************************************************)
(* The instance of SimpleClient that TLC checks: a directory d with a file *)
(* in it beside a file f at the top, and files of one message and of more. *)
(***************************************************************************)
EXTENDS SimpleClient

NameSet == {"d", "f"}

Node(kind, name, data, d, f) ==
    [kind |-> kind, name |-> name, data |-> data,
     entries |-> [nm \in NameSet |-> IF nm = "d" THEN d ELSE f]]
MCTree == 0 :> Node("dir", "/", <<>>, 1, 2)
       @@ 1 :> Node("dir", "d", <<>>, None, 3)
       @@ 2 :> Node("file", "f", <<1, 2, 3>>, None, None)
       @@ 3 :> Node("file", "f", <<>>, None, None)

MCContents == {<<7>>, <<7, 8, 9, 10>>, <<7, 8, 9>>}

MCArgs == [abs : BOOLEAN, names : {<<>>, <<"d">>, <<"f">>, <<"d", "f">>}]
          \union [abs : {FALSE}, names : {<<"..">>, <<"d", "..", "f">>}]
=============================================================================
