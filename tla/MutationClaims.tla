--------------------------- MODULE MutationClaims ---------------------------
(***************************************************************************)
(* The claim algebra of core/src/libs/mutationCoordinator/claimQueue.ts:   *)
(* what a mutation claims, when two claims conflict, when a held claim     *)
(* covers a fresh one, and the keys under which the queue indexes a claim. *)
(*                                                                         *)
(* A path is the sequence of its segments.  `cleanPath` strips leading and *)
(* trailing separators and `values` drops what becomes empty, so a         *)
(* normalised path is never the empty sequence.                            *)
(***************************************************************************)
EXTENDS Integers, Sequences, FiniteSets

CONSTANTS
    Resources,   \* opaque domain resources (source locators)
    NoteIds,     \* stable note ids
    Segments,    \* path segments
    Paths        \* the normalised paths claims may name

ASSUME PathsAssumption ==
    /\ Paths \subseteq Seq(Segments)
    /\ <<>> \notin Paths

-----------------------------------------------------------------------------
(* Normalised claims.                                                      *)

Claim == [ global    : BOOLEAN,
           resources : SUBSET Resources,
           noteIds   : SUBSET NoteIds,
           paths     : SUBSET Paths,
           prefixes  : SUBSET Paths ]

EmptyClaim == [ global |-> FALSE, resources |-> {}, noteIds |-> {},
                paths |-> {}, prefixes |-> {} ]

\* unionMutationClaims: every axis observed so far is retained.
UnionClaims(left, right) ==
    [ global    |-> left.global \/ right.global,
      resources |-> left.resources \cup right.resources,
      noteIds   |-> left.noteIds \cup right.noteIds,
      paths     |-> left.paths \cup right.paths,
      prefixes  |-> left.prefixes \cup right.prefixes ]

-----------------------------------------------------------------------------
(* The path hierarchy.                                                     *)

\* isUnder: path === prefix || path.startsWith(prefix + "/").
IsUnder(path, prefix) ==
    /\ Len(prefix) <= Len(path)
    /\ \A i \in 1 .. Len(prefix) : path[i] = prefix[i]

\* pathAncestors: the path itself and its truncation at every separator.
PathAncestors(path) == { SubSeq(path, 1, n) : n \in 1 .. Len(path) }

PathsCover(held, paths) ==
    \A path \in paths :
        \/ path \in held.paths
        \/ \E prefix \in held.prefixes : IsUnder(path, prefix)

\* claimCovers: a task derived under `current` may run on the lease of `held`.
ClaimCovers(held, current) ==
    \/ held.global
    \/ /\ ~current.global
       /\ current.resources \subseteq held.resources
       /\ current.noteIds \subseteq held.noteIds
       /\ PathsCover(held, current.paths)
       /\ current.prefixes \subseteq held.prefixes

ReachesInto(paths, prefixes) ==
    \E path \in paths, prefix \in prefixes : IsUnder(path, prefix)

\* claimsConflict: the two claims may not be held at the same time.
ClaimsConflict(left, right) ==
    \/ left.global
    \/ right.global
    \/ left.resources \cap right.resources # {}
    \/ left.noteIds \cap right.noteIds # {}
    \/ left.paths \cap right.paths # {}
    \/ ReachesInto(left.paths, right.prefixes)
    \/ ReachesInto(right.paths, left.prefixes)
    \/ ReachesInto(left.prefixes, right.prefixes)
    \/ ReachesInto(right.prefixes, left.prefixes)

-----------------------------------------------------------------------------
(* Index keys.  The tag keeps the axes apart, as the key prefixes do.      *)

GlobalKey == <<"global", "">>
PrefixKey(path) == <<"prefix", path>>

ExactKey == ({"resource"} \X Resources) \cup ({"note"} \X NoteIds)
                \cup ({"path"} \X Paths)
Key == {GlobalKey} \cup ExactKey \cup ({"prefix"} \X Paths)

ExactKeys(claim) ==
    ({"resource"} \X claim.resources) \cup ({"note"} \X claim.noteIds)
        \cup ({"path"} \X claim.paths)

PrefixKeys(claim) == {"prefix"} \X claim.prefixes

MembershipKeys(claim) ==
    (IF claim.global THEN {GlobalKey} ELSE {})
        \cup ExactKeys(claim) \cup PrefixKeys(claim)

=============================================================================
