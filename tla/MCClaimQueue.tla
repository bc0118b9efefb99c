---------------------------- MODULE MCClaimQueue ----------------------------
(* A small instance of ClaimQueue: one note, a two-level folder tree and a  *)
(* source locator, so that every axis on which claims conflict occurs.      *)
EXTENDS ClaimQueue

\* Folder "d", the two notes in it, and an unrelated path.
MCPaths == { <<"d">>, <<"d", "a">>, <<"d", "b">> }

MCRequests ==
    { [EmptyClaim EXCEPT !.global = TRUE],
      [EmptyClaim EXCEPT !.resources = {"src"}, !.paths = {<<"d", "b">>}],
      [EmptyClaim EXCEPT !.noteIds = {"n"}, !.paths = {<<"d", "a">>}],
      [EmptyClaim EXCEPT !.prefixes = {<<"d">>}],
      [EmptyClaim EXCEPT !.noteIds = {"n"}],
      [EmptyClaim EXCEPT !.resources = {"src"}, !.prefixes = {<<"d", "b">>}] }

=============================================================================
