--------------------------- MODULE MCNoteMutations ---------------------------
(* Two notes in folder "d", one linked to the other, and a third outside.   *)
(* The first is tagged and moved to a folder that does not exist yet, while *)
(* "d" is renamed to that very folder, and removed; or it is linked to the  *)
(* third while that one is removed and "d" renamed and removed; or it is    *)
(* linked to both while both are removed, and the graph viewed.             *)
EXTENDS NoteMutations

D == <<"d">>
E == <<"e">>
DA == <<"d", "a">>
DB == <<"d", "b">>
C == <<"c">>
EB == <<"e", "b">>

MCPaths ==
    {C, D, E, DA, DB, <<"e", "a">>, EB}
      \cup { <<"graph-target">>, LinkTarget("n2"), LinkTarget("n3"), LinkTargetPath("n2", "n1"),
             LinkTargetPath("n3", "n1"), LinkTarget("n1") }

MCWhere == [n \in NoteIds |-> CASE n = "n1" -> DA [] n = "n2" -> DB [] n = "n3" -> C]
MCBody == [n \in NoteIds |-> CASE n = "n1" -> {"n2"} [] n = "n2" -> {} [] n = "n3" -> {"n1"}]
MCDirs == {D}
MCMethodOf == [c \in Calls |-> "runStable"]

Tag == [op |-> "tags", note |-> "n1"]
LinkTo(notes) == [op |-> "write", note |-> "n1", links |-> notes]
Move == [op |-> "move", note |-> "n1", to |-> EB]
Rename == [op |-> "moveFolder", from |-> D, to |-> E]
Drop == [op |-> "removeDir", from |-> E]
RemoveOf(n) == [op |-> "remove", note |-> n]

MCScenarios ==
    { [c \in Calls |-> CASE c = 1 -> Tag [] c = 2 -> Move [] c = 3 -> Rename [] c = 4 -> Drop],
      [c \in Calls |-> CASE c = 1 -> LinkTo({"n3"}) [] c = 2 -> RemoveOf("n3")
                         [] c = 3 -> Rename [] c = 4 -> Drop],
      [c \in Calls |-> CASE c = 1 -> LinkTo({"n2", "n3"}) [] c = 2 -> RemoveOf("n3")
                         [] c = 3 -> RemoveOf("n2") [] c = 4 -> [op |-> "recover"]] }

=============================================================================
