------------------------ MODULE MCMutationCoordinator ------------------------
(* A stable call, whose derivation moves between a note, its folder and the  *)
(* whole store, against a plain one and a host that holds a lease across a   *)
(* publication of its own.                                                   *)
EXTENDS MutationCoordinator

MCPaths == { <<"d">>, <<"d", "a">> }

MCMethodOf ==
    [c \in Calls |-> CASE c = "host" -> "acquire" [] c = "r1" -> "run" [] OTHER -> "runStable"]

MCRequests ==
    { [EmptyClaim EXCEPT !.global = TRUE],
      [EmptyClaim EXCEPT !.prefixes = {<<"d">>}],
      [EmptyClaim EXCEPT !.paths = {<<"d", "a">>}] }

=============================================================================
