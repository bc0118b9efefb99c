---------------------------- MODULE MCStoreLocks ----------------------------
EXTENDS StoreLocks

MCKindOf == [op \in Callers |->
    CASE op = "rm" -> "remove" [] op = "rs" -> "restore" [] op = "po" -> "poll"
      [] op = "fe" -> "fetch" [] op = "le" -> "lease" [] op = "rd" -> "read"
      [] op = "jo" -> "journal" [] op = "wr" -> "write" [] op = "st" -> "stop"
      [] op = "su" -> "surface" [] op = "pr" -> "preview"]

MCModeOf == [op \in Callers |-> IF op \in {"rm", "rs", "le", "wr"} THEN "mutation" ELSE "read"]
MCPaths == { <<"t">>, <<"n">>, <<"m">>, <<"t", "n">>, <<"t", "m">> }
MCNoteOf == [op \in Callers |-> IF op = "rs" THEN <<"m">> ELSE <<"n">>]
MCTrashRoot == <<"t">>

=============================================================================
