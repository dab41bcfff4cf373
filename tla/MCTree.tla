-------------------------------- MODULE MCTree --------------------------------
(***************************************************************************)
(* Instances of Tree for TLC.  A scene is a tree ramfs can have and the    *)
(* requests its clients send: the scenes share one run, one at a time.     *)
(***************************************************************************)
EXTENDS Tree

Two     == 1..2
Users   == <<"u1", "u2">>
NameSet == {"a", "b", "c", "d"}

All     == {"owner", "other"} \X {"r", "w", "x"}
Mine    == {"owner"} \X {"r", "w", "x"}
ReadAll == {"owner", "other"} \X {"r", "x"}

RootDir == NewDir("/", All, "u1", None)
WalkTo(ns) == [op |-> "walk", names |-> ns]
MakeFile(nm, p) == [op |-> "create", name |-> nm, dir |-> FALSE, perm |-> p, mode |-> "OWRITE"]
MakeDir(nm, p)  == [op |-> "create", name |-> nm, dir |-> TRUE, perm |-> p, mode |-> "OREAD"]
OpenAs(m, tr) == [op |-> "open", mode |-> m, trunc |-> tr]
Simple(o) == [op |-> o]
Access(o) == {[op |-> o, negative |-> b] : b \in BOOLEAN}
Same == [perm |-> None, uid |-> None, name |-> None, len |-> None]
SetStat(st) == [op |-> "wstat", stat |-> st]

\* Names: both users create, walk, rename and remove in a tree that is empty at first.
NameMenu ==
    {WalkTo(<<"a">>), WalkTo(<<"a", "a">>), WalkTo(<<"a", "..", "..">>), Simple("clunk"),
     Simple("remove"), MakeFile("a", All), MakeDir("a", All), SetStat([Same EXCEPT !.name = "b"])}
NameScene ==
    [apart |-> TRUE, nodes |-> 3, mix |-> <<>>, node |-> [n \in {Root} |-> RootDir],
     calls |-> 5, menu |-> [t \in Threads |-> NameMenu]]

\* Rights: two users work on one file of u1 that the other may write, too.
FileOf(d, p) == [NewFile("a", p, "u1", d) EXCEPT !.len = Size]
StatMenu ==
    {SetStat(st) : st \in {[Same EXCEPT !.perm = Mine], [Same EXCEPT !.perm = ReadAll],
        [Same EXCEPT !.uid = "u2", !.len = 0], [Same EXCEPT !.perm = Mine, !.name = "b"],
        [Same EXCEPT !.name = "b", !.len = 0], [Same EXCEPT !.perm = Mine, !.len = 1]}}
RightsMenu ==
    StatMenu \union {WalkTo(<<"a">>), OpenAs("ORDWR", TRUE), OpenAs("OEXEC", TRUE),
                     MakeFile("b", ReadAll)} \union Access("write")
RightsScene ==
    [apart |-> TRUE, nodes |-> 3, mix |-> <<>>,
     node |-> (Root :> RootDir @@ 1 :> FileOf(Root, All)),
     calls |-> 5, menu |-> [t \in Threads |-> RightsMenu]]

\* The root of the server is a file of u1.
RootScene ==
    [apart |-> TRUE, nodes |-> 3, mix |-> <<>>, node |-> [n \in {Root} |-> FileOf(None, Mine)],
     calls |-> 3,
     menu |-> [t \in Threads |-> StatMenu \union Access("write") \union Access("read")
                \union {OpenAs("ORDWR", FALSE), OpenAs("OWRITE", TRUE), Simple("remove"),
                        WalkTo(<<"..">>)}]]

\* Two directories of u1 shown as one.
MixRoot == [RootDir EXCEPT !.kind = "mix"]
InPart(nm, d) == NewFile(nm, All, "u1", d)
Part0(nm) == [RootDir EXCEPT !.name = nm]
PrivatePart(nm) == [Part0(nm) EXCEPT !.perm = Mine]
MixOf(low) == 0 :> [top |-> 1, bottom |-> 2, createAtBottom |-> low]

\* Thread 1 works on the names of Top, thread 2 on those of Bottom.
ApartMenu == <<
    {WalkTo(<<"a">>), WalkTo(<<"b">>), Simple("remove"), Simple("clunk"), MakeFile("a", All),
     SetStat([Same EXCEPT !.name = "b"])},
    {WalkTo(<<"c">>), WalkTo(<<"d", "..">>), Simple("remove"), Simple("clunk"),
     OpenAs("OREAD", FALSE), SetStat([Same EXCEPT !.name = "d", !.len = 0])}
        \union Access("read") >>
ApartScene ==
    [apart |-> TRUE, nodes |-> 5, mix |-> MixOf(FALSE), calls |-> 5, menu |-> ApartMenu,
     node |-> (0 :> MixRoot @@ 1 :> Part0("top") @@ 2 :> Part0("bottom")
               @@ 3 :> InPart("a", 1) @@ 4 :> InPart("c", 2))]

\* Both work on names that both directories have, or come to have.
SameMenu ==
    {WalkTo(<<"a">>), WalkTo(<<"b">>), Simple("remove"), MakeFile("a", All), MakeFile("b", All),
     SetStat([Same EXCEPT !.name = "b"]), Simple("clunk")}
SameScene(low) ==
    [apart |-> FALSE, nodes |-> 5, mix |-> MixOf(low),
     calls |-> 4, menu |-> [t \in Threads |-> SameMenu],
     node |-> (0 :> MixRoot @@ 1 :> Part0("top") @@ 3 :> InPart("a", 2)
               @@ 2 :> IF low THEN Part0("bottom") ELSE PrivatePart("bottom"))]

MCScenes == {NameScene, RightsScene, RootScene, ApartScene, SameScene(TRUE), SameScene(FALSE)}
=============================================================================
