------------------------ MODULE NoteMutationsProofs ------------------------
(***************************************************************************)
(* What a callback of NoteMutations looked up stays true until it acts, and*)
(* the edges of the notes follow their bodies, for any scenarios, notes and*)
(* paths.                                                                  *)
(*                                                                         *)
(* The steps are steps of the coordinator, so two callbacks never run under*)
(* claims that conflict (MutationCoordinatorProofs).  The invariant says   *)
(* what the claim of a running callback keeps others from touching         *)
(* (Covered), what the callback may rely on (Looked), and where its repair *)
(* of edges stands (Passing).                                              *)
(***************************************************************************)
EXTENDS NoteMutations, MutationCoordinatorProofs

-----------------------------------------------------------------------------
(* The invariant.                                                          *)

Holds(c, n) == HeldClaim(c).global \/ n \in HeldClaim(c).noteIds

\* The live notes that no claim has missed.
SoundNotes == LiveNotes \ astray

PathCovered(h, path) == path \in h.paths \/ \E prefix \in h.prefixes : IsUnder(path, prefix)

HoldsNote(h, n) == n \in h.noteIds /\ (where[n] # NoPath => PathCovered(h, where[n]))

\* A removal claims the links to the note, and every source that has one.
CoversRemoval(h, target) ==
    /\ LinkTarget(target) \in h.prefixes
    /\ \A s \in KnownSources(target) : HoldsNote(h, s)

\* What the claim of a running call covers, of what it would claim now.
Covered(c) ==
    LET p == plan[c]
        h == HeldClaim(c) IN
    \/ h.global
    \/ /\ p.op \in AboutANote
       /\ HoldsNote(h, p.note)
       /\ p.op = "write" =>
             \A t \in p.links \cap LiveNotes : PathCovered(h, LinkTargetPath(t, p.note))
       /\ p.op = "move" =>
             /\ PathCovered(h, p.to)
             /\ DirectoryOf(p.to) = <<>> \/ DirectoryOf(p.to) \in dirs
       /\ p.op = "remove" => CoversRemoval(h, p.note)

\* The pairs found before a removal: the note until it is gone, with all its
\* sources, where they are, that did not go astray.
SawRemoval(target, pairs) ==
    /\ pairs = {} <=> where[target] = NoPath
    /\ pairs # {} => \A s \in {target} \cup KnownSources(target) : <<s, where[s]>> \in pairs

\* What a running call looked up is still there.
Looked(c) ==
    LET p == plan[c] IN
    seen[c] # Unseen =>
       \/ p.op = "removeDir" /\ seen[c] = At(NotesUnder(p.from))
       \/ /\ p.op \in AboutANote \ {"remove"}
          /\ where[p.note] # NoPath /\ seen[c] = {<<p.note, where[p.note]>>}
       \/ p.op = "remove" /\ SawRemoval(p.note, seen[c])

\* A pass resolves against no note that is gone, at least for the bodies that
\* its call holds, and leaves each source of its batch due or in order.  What
\* the engine answers for a source stays true while the call holds it.
Passing(c) ==
    LET r == repair[c] IN
    r # NoPass =>
       /\ plan[c].op \in {"remove", "removeDir", "recover"}
       /\ plan[c].op = "remove" => seen[c] = {}
       /\ LiveNotes \subseteq r.index
       /\ HeldClaim(c).global => r.index \subseteq LiveNotes
       /\ \A s \in SoundNotes : Holds(c, s) => body[s] \cap r.index \subseteq LiveNotes
       /\ \A s \in SoundNotes \cap r.batch :
             \/ s \in r.todo \cup r.baseline
             \/ Holds(c, s) /\ edges[s] = body[s] \cap LiveNotes
       /\ r.read # Unseen /\ Holds(c, r.read[1]) => r.read[2] = body[r.read[1]]
       /\ r.graph # Unseen /\ HeldClaim(c).global
             => r.graph.links = body /\ r.graph.places = where

Fresh(c) == seen[c] = Unseen /\ repair[c] = NoPass

NoteTypes ==
    /\ plan \in Scenarios
    /\ where \in [NoteIds -> Paths \cup {NoPath}]
    /\ dirs \subseteq Paths
    /\ body \in [NoteIds -> SUBSET NoteIds] /\ edges \in [NoteIds -> SUBSET NoteIds]
    /\ seen \in [Calls -> {Unseen} \cup SUBSET (NoteIds \X Paths)]
    /\ owed \subseteq NoteIds /\ astray \subseteq NoteIds
    /\ repair \in [Calls -> {NoPass} \cup Passes]

\* A note that is gone has no edges, and among the notes that are there the
\* edges of a sound note are its links.
Linked ==
    /\ \A s \in NoteIds \ LiveNotes : edges[s] = {}
    /\ \A s \in SoundNotes : edges[s] \cap LiveNotes = body[s] \cap LiveNotes

CallInv(c) ==
    /\ phase[c] \in {"idle", "queued"} => Fresh(c)
    /\ phase[c] = "running" => Covered(c) /\ Looked(c) /\ Passing(c)

NoteInv ==
    /\ IInv
    /\ NoteTypes
    /\ Linked
    /\ LinksFollow
    /\ \A c \in Calls : CallInv(c)

-----------------------------------------------------------------------------
(* Paths and plans.                                                        *)

\* The arguments of a plan.
LEMMA PlanArguments ==
  ASSUME NEW p \in Plans
  PROVE  /\ p.op \in {"tags", "remove", "write", "move", "moveFolder", "removeDir", "recover"}
         /\ p.op \in AboutANote => p.note \in NoteIds
         /\ p.op = "write" => p.links \subseteq NoteIds
         /\ p.op \in {"move", "moveFolder"} => p.to \in Paths
         /\ p.op \in {"moveFolder", "removeDir"} => p.from \in Paths
  <1> USE DEF AboutANote
  <1>1. CASE p \in [ op : {"tags", "remove"}, note : NoteIds ]
    BY <1>1
  <1>2. CASE p \in [ op : {"write"}, note : NoteIds, links : SUBSET NoteIds ]
    BY <1>2
  <1>3. CASE p \in [ op : {"move"}, note : NoteIds, to : Paths ]
    BY <1>3
  <1>4. CASE p \in [ op : {"moveFolder"}, from : Paths, to : Paths ]
    BY <1>4
  <1>5. CASE p \in [ op : {"removeDir"}, from : Paths ]
    BY <1>5
  <1>6. CASE p \in [ op : {"recover"} ]
    BY <1>6
  <1> QED
    BY <1>1, <1>2, <1>3, <1>4, <1>5, <1>6 DEF Plans

\* What the plan of a call may be.
LEMMA PlanFields ==
  ASSUME NoteTypes, NEW c \in Calls
  PROVE  LET p == plan[c] IN
         /\ p.op \in {"tags", "remove", "write", "move", "moveFolder", "removeDir", "recover"}
         /\ p.op \in AboutANote => p.note \in NoteIds
         /\ p.op = "write" => p.links \subseteq NoteIds
         /\ p.op \in {"move", "moveFolder"} => p.to \in Paths
         /\ p.op \in {"moveFolder", "removeDir"} => p.from \in Paths
         /\ PathsSuffice(p)
  <1>1. plan[c] \in Plans /\ PathsSuffice(plan[c])
    BY PlansAssumption DEF NoteTypes
  <1> QED
    BY <1>1, PlanArguments

\* The links to a note lie under its prefix.
LEMMA LinkUnderTarget ==
  ASSUME NEW t, NEW s
  PROVE  IsUnder(LinkTargetPath(t, s), LinkTarget(t))
  BY DEF IsUnder, LinkTargetPath, LinkTarget

\* Two prefixes of one path are comparable.
LEMMA PrefixesComparable ==
  ASSUME NEW x \in Paths, NEW y \in Paths, NEW z \in Paths, IsUnder(x, y), IsUnder(x, z)
  PROVE  IsUnder(y, z) \/ IsUnder(z, y)
  BY PathsAssumption DEF IsUnder

\* The folders of a path that is known are among the paths.
LEMMA FoldersAbove ==
  ASSUME NEW path \in Paths
  PROVE  PathAncestors(DirectoryOf(path)) \subseteq Paths
  <1> DEFINE d == SubSeq(path, 1, Len(path) - 1)
  <1>1. path \in Seq(Segments) /\ Len(path) \in Nat
    BY PathsAssumption
  <1>2. ASSUME NEW n \in 1 .. Len(d)
        PROVE  SubSeq(d, 1, n) \in Paths
    <2>1. Len(d) = (IF Len(path) - 1 >= 0 THEN Len(path) - 1 ELSE 0)
      BY <1>1
    <2>2. n \in 1 .. Len(path) - 1 /\ d \in Seq(Segments)
      BY <1>1, <1>2, <2>1
    <2>3. /\ SubSeq(d, 1, n) \in Seq(Segments) /\ SubSeq(path, 1, n) \in Seq(Segments)
          /\ Len(SubSeq(d, 1, n)) = n /\ Len(SubSeq(path, 1, n)) = n
          /\ \A i \in 1 .. n : SubSeq(d, 1, n)[i] = path[i] /\ SubSeq(path, 1, n)[i] = path[i]
      BY <1>1, <2>1, <2>2
    <2>4. SubSeq(d, 1, n) = SubSeq(path, 1, n)
      BY <2>3
    <2>5. SubSeq(path, 1, n) \in PathAncestors(path)
      BY <1>1, <2>2 DEF PathAncestors
    <2> QED
      BY <2>4, <2>5, SnapshotAssumption
  <1> QED
    BY <1>2 DEF PathAncestors, DirectoryOf

\* The claims that claims of the snapshot start from, field by field.
LEMMA EmptyClaimFields ==
  /\ EmptyClaim \in Claim /\ EmptyClaim.global = FALSE /\ EmptyClaim.resources = {}
  /\ EmptyClaim.noteIds = {} /\ EmptyClaim.paths = {} /\ EmptyClaim.prefixes = {}
  BY DEF EmptyClaim, Claim

\* The claim of everything (globalClaim).
LEMMA GlobalClaimFields == GlobalClaim \in Claim /\ GlobalClaim.global
  <1> DEFINE e == EmptyClaim
  <1>1. e \in Claim /\ GlobalClaim = [e EXCEPT !.global = TRUE]
    BY EmptyClaimFields DEF GlobalClaim
  <1> HIDE DEF e
  <1> QED
    BY <1>1 DEF Claim

\* The paths of some notes that are there, with some others.
ClaimedPaths(notes, paths) == ({ where[n] : n \in notes } \ {NoPath}) \cup paths

\* The claim of some notes, where they are, and of some paths.
LEMMA NotesClaimFields ==
  ASSUME NoteTypes, NEW notes \in SUBSET NoteIds, NEW paths \in SUBSET Paths
  PROVE  LET d == NotesClaim(notes, paths) IN
         /\ d \in Claim
         /\ ~d.global /\ d.resources = {} /\ d.noteIds = notes /\ d.prefixes = {}
         /\ d.paths = ClaimedPaths(notes, paths)
  <1> DEFINE e == EmptyClaim
             x == ClaimedPaths(notes, paths)
             d == NotesClaim(notes, paths)
  <1>1. d = [e EXCEPT !.noteIds = notes, !.paths = x]
    BY DEF NotesClaim, ClaimedPaths
  <1>2. x \subseteq Paths
    BY DEF NoteTypes, ClaimedPaths
  <1> HIDE DEF x, d, e
  <1>3. /\ e \in Claim /\ e.global = FALSE /\ e.resources = {} /\ e.prefixes = {}
    BY EmptyClaimFields DEF e
  <1>4. /\ d \in Claim
        /\ ~d.global /\ d.resources = {} /\ d.noteIds = notes /\ d.prefixes = {}
        /\ d.paths = x
    BY <1>1, <1>2, <1>3 DEF Claim
  <1> QED
    BY <1>4 DEF x, d

\* The claim of a removal: the note, its sources, and the links to it.
LEMMA RemovalClaimFields ==
  ASSUME NoteTypes, NEW target \in NoteIds, NEW sources \in SUBSET NoteIds,
         LinkTarget(target) \in Paths
  PROVE  LET d == RemovalClaim(target, sources) IN
         /\ d \in Claim
         /\ ~d.global /\ d.resources = {} /\ d.noteIds = {target} \cup sources
         /\ d.paths = ClaimedPaths({target} \cup sources, {})
         /\ d.prefixes = {LinkTarget(target)}
  <1> DEFINE notes == {target} \cup sources
             none == {}
             m == NotesClaim(notes, none)
             d == RemovalClaim(target, sources)
  <1>1. d = [m EXCEPT !.prefixes = {LinkTarget(target)}]
    BY DEF RemovalClaim
  <1>2. notes \in SUBSET NoteIds /\ none \in SUBSET Paths
    OBVIOUS
  <1> HIDE DEF d, notes, none
  <1>3. /\ m \in Claim
        /\ ~m.global /\ m.resources = {} /\ m.noteIds = notes
        /\ m.paths = ClaimedPaths(notes, none)
    BY <1>2, NotesClaimFields
  <1> HIDE DEF m
  <1>4. /\ d \in Claim
        /\ ~d.global /\ d.resources = {} /\ d.noteIds = m.noteIds
        /\ d.paths = m.paths /\ d.prefixes = {LinkTarget(target)}
    BY <1>1, <1>3 DEF Claim
  <1> QED
    BY <1>3, <1>4 DEF d, notes, none

\* The sources of a note are notes.
LEMMA SourcesAreNotes ==
  ASSUME NEW target
  PROVE  SourcesOf(target) \in SUBSET NoteIds /\ KnownSources(target) \in SUBSET NoteIds
  BY DEF SourcesOf, KnownSources

\* A claim is derived from the paths of the notes and those of the plan.
LEMMA DerivedClaim ==
  ASSUME NoteTypes, NEW c \in Calls
  PROVE  Derive(plan[c]) \in Claim
  <1> DEFINE p == plan[c]
  <1>1. /\ p.op \in {"tags", "remove", "write", "move", "moveFolder", "removeDir", "recover"}
        /\ p.op \in AboutANote => p.note \in NoteIds
        /\ p.op = "write" => p.links \subseteq NoteIds
        /\ p.op \in {"move", "moveFolder"} => p.to \in Paths
        /\ PathsSuffice(p)
    BY PlanFields
  <1> SUFFICES Derive(p) \in Claim
    OBVIOUS
  <1> HIDE DEF p
  <1>2. \A notes \in SUBSET NoteIds, paths \in SUBSET Paths : NotesClaim(notes, paths) \in Claim
    BY NotesClaimFields
  <1>3. CASE p.op = "tags"
    <2>1. Derive(p) = NotesClaim({p.note}, {}) /\ p.note \in NoteIds
      BY <1>1, <1>3 DEF Derive, AboutANote
    <2> QED
      BY <1>2, <2>1
  <1>4. CASE p.op = "write"
    <2> DEFINE paths == { LinkTargetPath(t, p.note) : t \in p.links \cap LiveNotes }
    <2>1. paths \in SUBSET Paths
      BY <1>1, <1>4 DEF PathsSuffice
    <2>2. Derive(p) = NotesClaim({p.note}, paths) /\ p.note \in NoteIds
      BY <1>1, <1>4 DEF Derive, WriteClaim, AboutANote
    <2> HIDE DEF paths
    <2> QED
      BY <1>2, <2>1, <2>2
  <1>5. CASE p.op = "move"
    <2>1. /\ Derive(p) \in {GlobalClaim, NotesClaim({p.note}, {p.to})}
          /\ p.note \in NoteIds /\ p.to \in Paths
      BY <1>1, <1>5 DEF Derive, MoveClaim, AboutANote
    <2> QED
      BY <1>2, <2>1, GlobalClaimFields
  <1>6. CASE p.op = "remove"
    <2>1. /\ Derive(p) = RemovalClaim(p.note, SourcesOf(p.note))
          /\ p.note \in NoteIds /\ LinkTarget(p.note) \in Paths
      BY <1>1, <1>6 DEF Derive, AboutANote, PathsSuffice
    <2> DEFINE sources == SourcesOf(p.note)
    <2>2. sources \in SUBSET NoteIds
      BY SourcesAreNotes
    <2> HIDE DEF sources
    <2>3. RemovalClaim(p.note, sources) \in Claim
      BY <2>1, <2>2, RemovalClaimFields
    <2> QED
      BY <2>1, <2>3 DEF sources
  <1>7. CASE p.op \in {"moveFolder", "removeDir", "recover"}
    <2>1. Derive(p) = GlobalClaim
      BY <1>7 DEF Derive
    <2> QED
      BY <2>1, GlobalClaimFields
  <1> QED
    BY <1>1, <1>3, <1>4, <1>5, <1>6, <1>7

-----------------------------------------------------------------------------
(* What a claim covers, note by note.                                      *)

\* A claim covers the paths of some notes when it covers each that is there.
LEMMA NotesCovered ==
  ASSUME NEW h, NEW notes, NEW paths
  PROVE  PathsCover(h, ClaimedPaths(notes, paths)) <=>
            /\ \A n \in notes : where[n] # NoPath => PathCovered(h, where[n])
            /\ \A path \in paths : PathCovered(h, path)
  BY DEF PathsCover, ClaimedPaths, PathCovered

\* A call enters when its claim covers what it derives now.
LEMMA EnteredCovered ==
  ASSUME NoteTypes, NEW c \in Calls, ClaimCovers(HeldClaim(c), Derive(plan[c]))
  PROVE  Covered(c)
  <1> DEFINE p == plan[c]
             h == HeldClaim(c)
  <1>1. /\ p.op \in {"tags", "remove", "write", "move", "moveFolder", "removeDir", "recover"}
        /\ p.op \in AboutANote => p.note \in NoteIds
        /\ p.op = "write" => p.links \subseteq NoteIds
        /\ p.op \in {"move", "moveFolder"} => p.to \in Paths
        /\ PathsSuffice(p)
    BY PlanFields
  <1>2. ClaimCovers(h, Derive(p))
    OBVIOUS
  <1> SUFFICES ASSUME ~h.global
               PROVE  /\ p.op \in AboutANote
                      /\ HoldsNote(h, p.note)
                      /\ p.op = "write" =>
                            \A t \in p.links \cap LiveNotes :
                               PathCovered(h, LinkTargetPath(t, p.note))
                      /\ p.op = "move" =>
                            /\ PathCovered(h, p.to)
                            /\ DirectoryOf(p.to) = <<>> \/ DirectoryOf(p.to) \in dirs
                      /\ p.op = "remove" => CoversRemoval(h, p.note)
    BY DEF Covered
  <1> HIDE DEF p, h
  <1>3. ASSUME NEW notes \in SUBSET NoteIds, NEW paths \in SUBSET Paths,
               ClaimCovers(h, NotesClaim(notes, paths))
        PROVE  /\ \A n \in notes : HoldsNote(h, n)
               /\ \A path \in paths : PathCovered(h, path)
    <2>1. notes \subseteq h.noteIds /\ PathsCover(h, ClaimedPaths(notes, paths))
      BY <1>3, NotesClaimFields DEF ClaimCovers
    <2> QED
      BY <2>1, NotesCovered DEF HoldsNote
  <1>4. CASE p.op = "tags"
    <2>1. Derive(p) = NotesClaim({p.note}, {}) /\ p.note \in NoteIds
      BY <1>1, <1>4 DEF Derive, AboutANote
    <2> QED
      BY <1>2, <1>3, <1>4, <2>1 DEF AboutANote
  <1>5. CASE p.op = "write"
    <2> DEFINE paths == { LinkTargetPath(t, p.note) : t \in p.links \cap LiveNotes }
    <2>1. paths \in SUBSET Paths
      BY <1>1, <1>5 DEF PathsSuffice
    <2>2. Derive(p) = NotesClaim({p.note}, paths) /\ p.note \in NoteIds
      BY <1>1, <1>5 DEF Derive, WriteClaim, AboutANote
    <2>3. HoldsNote(h, p.note) /\ \A path \in paths : PathCovered(h, path)
      <3> HIDE DEF paths
      <3> QED
        BY <1>2, <1>3, <2>1, <2>2
    <2> QED
      BY <1>5, <2>3 DEF AboutANote
  <1>6. CASE p.op = "move"
    <2>1. ~ClaimCovers(h, GlobalClaim)
      BY GlobalClaimFields DEF ClaimCovers
    <2>2. /\ Derive(p) = NotesClaim({p.note}, {p.to})
          /\ DirectoryOf(p.to) = <<>> \/ DirectoryOf(p.to) \in dirs
          /\ p.note \in NoteIds /\ p.to \in Paths
      BY <1>1, <1>2, <1>6, <2>1 DEF Derive, MoveClaim, AboutANote
    <2> QED
      BY <1>2, <1>3, <1>6, <2>2 DEF AboutANote
  <1>7. CASE p.op = "remove"
    <2> DEFINE sources == SourcesOf(p.note)
               notes == {p.note} \cup sources
    <2>1. /\ Derive(p) = RemovalClaim(p.note, sources)
          /\ p.note \in NoteIds /\ LinkTarget(p.note) \in Paths
      BY <1>1, <1>7 DEF Derive, AboutANote, PathsSuffice
    <2>2. sources \in SUBSET NoteIds /\ KnownSources(p.note) \subseteq sources
      BY SourcesAreNotes DEF KnownSources
    <2> HIDE DEF sources
    <2>3. /\ notes \subseteq h.noteIds /\ {LinkTarget(p.note)} \subseteq h.prefixes
          /\ PathsCover(h, ClaimedPaths(notes, {}))
      BY <1>2, <2>1, <2>2, RemovalClaimFields DEF ClaimCovers
    <2>4. \A n \in notes : HoldsNote(h, n)
      BY <2>3, NotesCovered DEF HoldsNote
    <2> QED
      BY <1>7, <2>2, <2>3, <2>4 DEF AboutANote, CoversRemoval
  <1>8. CASE p.op \in {"moveFolder", "removeDir", "recover"}
    <2>1. Derive(p) = GlobalClaim
      BY <1>8 DEF Derive
    <2> QED
      BY <1>2, <2>1, GlobalClaimFields DEF ClaimCovers
  <1> QED
    BY <1>1, <1>4, <1>5, <1>6, <1>7, <1>8

\* What a running call would claim now, but for the sources that went astray.
Owes(p) ==
    IF p.op = "remove" THEN RemovalClaim(p.note, KnownSources(p.note)) ELSE Derive(p)

\* And what is covered is what it would derive.
LEMMA CoveredCovers ==
  ASSUME NoteTypes, NEW c \in Calls, Covered(c)
  PROVE  ClaimCovers(HeldClaim(c), Owes(plan[c]))
  <1> DEFINE p == plan[c]
             h == HeldClaim(c)
  <1>1. /\ p.op \in {"tags", "remove", "write", "move", "moveFolder", "removeDir", "recover"}
        /\ p.op \in AboutANote => p.note \in NoteIds
        /\ p.op = "write" => p.links \subseteq NoteIds
        /\ p.op \in {"move", "moveFolder"} => p.to \in Paths
        /\ PathsSuffice(p)
    BY PlanFields
  <1> SUFFICES ASSUME ~h.global
               PROVE  ClaimCovers(h, Owes(p))
    BY DEF ClaimCovers
  <1>2. /\ p.op \in AboutANote
        /\ HoldsNote(h, p.note)
        /\ p.op = "write" =>
              \A t \in p.links \cap LiveNotes : PathCovered(h, LinkTargetPath(t, p.note))
        /\ p.op = "move" =>
              /\ PathCovered(h, p.to)
              /\ DirectoryOf(p.to) = <<>> \/ DirectoryOf(p.to) \in dirs
        /\ p.op = "remove" => CoversRemoval(h, p.note)
    BY DEF Covered
  <1> HIDE DEF p, h
  <1>3. ASSUME NEW notes \in SUBSET NoteIds, NEW paths \in SUBSET Paths,
               \A n \in notes : HoldsNote(h, n),
               \A path \in paths : PathCovered(h, path)
        PROVE  ClaimCovers(h, NotesClaim(notes, paths))
    <2>1. notes \subseteq h.noteIds /\ PathsCover(h, ClaimedPaths(notes, paths))
      BY <1>3, NotesCovered DEF HoldsNote
    <2>2. LET d == NotesClaim(notes, paths) IN
          /\ ~d.global /\ d.resources = {} /\ d.noteIds = notes /\ d.prefixes = {}
          /\ d.paths = ClaimedPaths(notes, paths)
      BY NotesClaimFields
    <2> QED
      BY <2>1, <2>2 DEF ClaimCovers
  <1>4. CASE p.op = "tags"
    <2>1. Owes(p) = NotesClaim({p.note}, {}) /\ p.note \in NoteIds
      BY <1>1, <1>4 DEF Owes, Derive, AboutANote
    <2> QED
      BY <1>2, <1>3, <2>1
  <1>5. CASE p.op = "write"
    <2> DEFINE paths == { LinkTargetPath(t, p.note) : t \in p.links \cap LiveNotes }
    <2>1. paths \in SUBSET Paths
      BY <1>1, <1>5 DEF PathsSuffice
    <2>2. Owes(p) = NotesClaim({p.note}, paths) /\ p.note \in NoteIds
      BY <1>1, <1>5 DEF Owes, Derive, WriteClaim, AboutANote
    <2>3. \A path \in paths : PathCovered(h, path)
      BY <1>2, <1>5
    <2> HIDE DEF paths
    <2> QED
      BY <1>2, <1>3, <2>1, <2>2, <2>3
  <1>6. CASE p.op = "move"
    <2>1. Owes(p) = NotesClaim({p.note}, {p.to}) /\ p.note \in NoteIds /\ p.to \in Paths
      BY <1>1, <1>2, <1>6 DEF Owes, Derive, MoveClaim, AboutANote
    <2> QED
      BY <1>2, <1>3, <1>6, <2>1
  <1>7. CASE p.op = "remove"
    <2> DEFINE sources == KnownSources(p.note)
               notes == {p.note} \cup sources
    <2>1. /\ Owes(p) = RemovalClaim(p.note, sources)
          /\ p.note \in NoteIds /\ LinkTarget(p.note) \in Paths
      BY <1>1, <1>7 DEF Owes, AboutANote, PathsSuffice
    <2>2. /\ \A n \in notes : HoldsNote(h, n)
          /\ LinkTarget(p.note) \in h.prefixes
      BY <1>2, <1>7 DEF CoversRemoval
    <2>3. sources \in SUBSET NoteIds
      BY SourcesAreNotes
    <2> HIDE DEF sources
    <2>4. notes \subseteq h.noteIds /\ PathsCover(h, ClaimedPaths(notes, {}))
      BY <2>2, NotesCovered DEF HoldsNote
    <2>5. LET d == RemovalClaim(p.note, sources) IN
          /\ ~d.global /\ d.resources = {} /\ d.noteIds = notes
          /\ d.paths = ClaimedPaths(notes, {}) /\ d.prefixes = {LinkTarget(p.note)}
      BY <2>1, <2>3, RemovalClaimFields
    <2> QED
      BY <2>1, <2>2, <2>4, <2>5 DEF ClaimCovers
  <1> QED
    BY <1>1, <1>2, <1>4, <1>5, <1>6, <1>7 DEF AboutANote

-----------------------------------------------------------------------------
(* The steps and the coordinator.                                          *)

\* What the callbacks do between entering and unwinding.
CallbackSteps(c) == Look(c) \/ Apply(c) \/ Removal(c) \/ Repair(c)

\* A callback that returns leaves the coordinator's running phase.
LEMMA CallbackPhases ==
  ASSUME FieldTypes, NEW c \in Calls, CallbackSteps(c)
  PROVE  /\ phase[c] = "running" /\ UNCHANGED <<queue, ticket, parent, plan>>
         /\ phase' \in {phase, [phase EXCEPT ![c] = "settled"]}
  <1> USE DEF Flush, Runs, coordinatorVars
  <1>1. CASE Look(c)
    BY <1>1 DEF Look
  <1>2. CASE Apply(c)
    BY <1>2 DEF Apply, ApplyWrite, ApplyMove, ApplyMoveFolder, ApplyRemoveDir
  <1>3. CASE Remove(c)
    BY <1>3 DEF Remove, RemoveOne
  <1>4. CASE RemoveVictim(c)
    BY <1>4 DEF RemoveVictim, RemoveOne
  <1>5. CASE Recover(c)
    BY <1>5 DEF Recover
  <1>6. CASE Repair(c)
    BY <1>6 DEF Repair, ReadSource, PatchSource, FailSource, AskGraph, AdoptGraph, EndPass
  <1> QED
    BY <1>1, <1>2, <1>3, <1>4, <1>5, <1>6 DEF CallbackSteps, Removal

\* Every step is one the coordinator may take.
LEMMA StepsCoordinated ==
  ASSUME IInv, NoteTypes, [NoteNext]_noteVars
  PROVE  [ClaimNext]_vars
  <1>1. CASE UNCHANGED noteVars
    BY <1>1 DEF noteVars, coordinatorVars, vars
  <1>2. ASSUME NEW c \in Calls, Call(c)
        PROVE  ClaimNext
    BY <1>2, DerivedClaim DEF Call, ClaimNext
  <1>3. ASSUME NEW c \in Calls, Rederive(c)
        PROVE  ClaimNext
    BY <1>3, DerivedClaim DEF Rederive, ClaimNext, ClaimCallSteps
  <1>4. ASSUME NEW c \in Calls, CallbackSteps(c)
        PROVE  [ClaimNext]_vars
    <2>1. /\ phase[c] = "running" /\ UNCHANGED <<queue, ticket, parent>>
          /\ phase' \in {phase, [phase EXCEPT ![c] = "settled"]}
      BY <1>4, CallbackPhases DEF IInv
    <2>2. CASE phase' = phase
      BY <2>1, <2>2 DEF vars
    <2>3. CASE phase' = [phase EXCEPT ![c] = "settled"]
      <3>1. c \in Callbacks
        BY PlansAssumption DEF Callbacks
      <3>2. SettleTask(c)
        BY <2>1, <2>3, <3>1 DEF SettleTask
      <3> QED
        BY <3>2 DEF ClaimNext, ScopeSteps, Scopes
    <2> QED
      BY <2>1, <2>2, <2>3
  <1>5. ASSUME NEW c \in Calls, Unwind(c)
        PROVE  ClaimNext
    BY <1>5 DEF Unwind, ClaimNext, ClaimCallSteps, Scopes
  <1> QED
    BY <1>1, <1>2, <1>3, <1>4, <1>5 DEF NoteNext, CallbackSteps

\* What another call is doing stays as it is, with the claim that it holds.
LEMMA OthersStay ==
  ASSUME IInv, NoteTypes, NEW c \in Calls, NEW d \in Calls, d # c,
         \/ Call(c) \/ Rederive(c) \/ CallbackSteps(c) \/ Unwind(c)
  PROVE  /\ phase'[d] = phase[d] /\ seen'[d] = seen[d] /\ repair'[d] = repair[d]
         /\ plan' = plan
         /\ phase[d] = "running" => HeldClaim(d)' = HeldClaim(d)
  <1> USE DEF IInv, FieldTypes, NoteTypes, Scopes
  <1>1. [ClaimNext]_vars
    BY StepsCoordinated DEF NoteNext, CallbackSteps
  <1>2. phase'[d] = phase[d] /\ plan' = plan
    <2>1. CASE Call(c)
      BY <2>1 DEF Call, Start
    <2>2. CASE Rederive(c)
      BY <2>2 DEF Rederive, ResumeStable, FailStable, EnterStable, RetryStable
    <2>3. CASE CallbackSteps(c)
      BY <2>3, CallbackPhases
    <2>4. CASE Unwind(c)
      BY <2>4 DEF Unwind, ScopeSteps, SettleTask, Deactivate, SettleChild, Finish
    <2> QED
      BY <2>1, <2>2, <2>3, <2>4
  <1>3. seen'[d] = seen[d] /\ repair'[d] = repair[d]
    <2>1. CASE Call(c) \/ Rederive(c)
      BY <2>1 DEF Call, Rederive, links
    <2>2. CASE Look(c) \/ Apply(c)
      BY <2>2 DEF Look, Apply, ApplyWrite, ApplyMove, ApplyMoveFolder, ApplyRemoveDir, links
    <2>3. CASE Removal(c)
      BY <2>3 DEF Removal, Remove, RemoveVictim, Recover, RemoveOne, Flush
    <2>4. CASE Repair(c)
      BY <2>4 DEF Repair, ReadSource, PatchSource, FailSource, AskGraph, AdoptGraph, EndPass, Flush
    <2>5. CASE Unwind(c)
      BY <2>5 DEF Unwind
    <2> QED
      BY <2>1, <2>2, <2>3, <2>4, <2>5 DEF CallbackSteps
  <1> QED
    BY <1>1, <1>2, <1>3, LeaseStays

-----------------------------------------------------------------------------
(* A running call undisturbed by another.                                  *)

\* Two running calls hold no note in common, and while one removes a note the
\* other has no claim to link to it.
LEMMA RunnersApart ==
  ASSUME IInv, NEW c \in Calls, NEW d \in Calls, c # d,
         phase[c] = "running", phase[d] = "running"
  PROVE  /\ ~HeldClaim(c).global /\ ~HeldClaim(d).global
         /\ HeldClaim(c).noteIds \cap HeldClaim(d).noteIds = {}
         /\ \A t, s :
               LinkTargetPath(t, s) \in Paths /\ PathCovered(HeldClaim(c), LinkTargetPath(t, s))
                  => LinkTarget(t) \notin HeldClaim(d).prefixes
  <1> DEFINE h == HeldClaim(c)
             g == HeldClaim(d)
  <1>1. ~ClaimsConflict(h, g)
    BY LeasesCompatible
  <1>2. h \in Claim /\ g \in Claim
    BY HeldRuns, ClaimOfTicket DEF IInv, HeldClaim
  <1> HIDE DEF h, g
  <1>3. ASSUME NEW t, NEW s, LinkTargetPath(t, s) \in Paths,
               PathCovered(h, LinkTargetPath(t, s)), LinkTarget(t) \in g.prefixes
        PROVE  FALSE
    <2> DEFINE x == LinkTargetPath(t, s)
               y == LinkTarget(t)
    <2>1. x \in Paths /\ y \in Paths /\ IsUnder(x, y) /\ y \in g.prefixes
      BY <1>2, <1>3, LinkUnderTarget DEF Claim
    <2>2. x \in h.paths \/ \E z \in h.prefixes : IsUnder(x, z)
      BY <1>3 DEF PathCovered
    <2> HIDE DEF x, y
    <2>3. CASE x \in h.paths
      BY <1>1, <2>1, <2>3 DEF ClaimsConflict, ReachesInto
    <2>4. ASSUME NEW z \in h.prefixes, IsUnder(x, z)
          PROVE  FALSE
      <3>1. IsUnder(y, z) \/ IsUnder(z, y)
        BY <1>2, <2>1, <2>4, PrefixesComparable DEF Claim
      <3> QED
        BY <1>1, <2>1, <3>1 DEF ClaimsConflict, ReachesInto
    <2> QED
      BY <2>2, <2>3, <2>4
  <1>4. ~h.global /\ ~g.global /\ h.noteIds \cap g.noteIds = {}
    BY <1>1 DEF ClaimsConflict
  <1>5. \A t, s : LinkTargetPath(t, s) \in Paths /\ PathCovered(h, LinkTargetPath(t, s))
                     => LinkTarget(t) \notin g.prefixes
    BY <1>3
  <1> QED
    BY <1>4, <1>5 DEF h, g

\* A step of c while d runs.
BothRun(c, d) ==
    /\ c # d /\ phase[c] = "running" /\ phase[d] = "running"
    /\ plan' = plan /\ seen'[d] = seen[d] /\ repair'[d] = repair[d]
    /\ HeldClaim(d)' = HeldClaim(d)

\* What leaves the invariant of d alone: the notes it holds stay, no note it
\* may link to appears, the note it removes gets no source, and no source that
\* it holds, or has taken into its pass, is found again.
Undisturbed(d) ==
    /\ \A s \in HeldClaim(d).noteIds : where'[s] = where[s] /\ body'[s] = body[s]
    /\ LiveNotes' \subseteq LiveNotes /\ dirs \subseteq dirs'
    /\ plan[d].op = "remove" => KnownSources(plan[d].note)' \subseteq KnownSources(plan[d].note)
    /\ \A s \in SoundNotes' :
          s \in HeldClaim(d).noteIds \/ (repair[d] # NoPass /\ s \in repair[d].batch)
             => s \in SoundNotes
    /\ \A s \in SoundNotes' :
          s \in HeldClaim(d).noteIds =>
             edges'[s] = edges[s] /\ body[s] \cap LiveNotes \subseteq LiveNotes'

\* A running call that a step leaves undisturbed keeps what it relies on.
LEMMA UndisturbedKeeps ==
  ASSUME NoteInv, NoteTypes', NEW c \in Calls, NEW d \in Calls, BothRun(c, d), Undisturbed(d)
  PROVE  Covered(d)' /\ Looked(d)' /\ Passing(d)'
  <1> DEFINE p == plan[d]
             h == HeldClaim(d)
             r == repair[d]
  <1>1. /\ ~h.global /\ p.op \in AboutANote /\ HoldsNote(h, p.note)
        /\ p.op = "write" =>
              \A t \in p.links \cap LiveNotes : PathCovered(h, LinkTargetPath(t, p.note))
        /\ p.op = "move" =>
              /\ PathCovered(h, p.to)
              /\ DirectoryOf(p.to) = <<>> \/ DirectoryOf(p.to) \in dirs
        /\ p.op = "remove" => CoversRemoval(h, p.note)
    BY RunnersApart DEF NoteInv, CallInv, BothRun, Covered
  <1>2. plan'[d] = p /\ HeldClaim(d)' = h /\ seen'[d] = seen[d] /\ repair'[d] = r
    BY DEF BothRun
  <1>3. p.op \in AboutANote => p.note \in NoteIds
    BY PlanFields DEF NoteInv
  <1>4. /\ \A s \in h.noteIds : where'[s] = where[s] /\ body'[s] = body[s]
        /\ LiveNotes' \subseteq LiveNotes /\ dirs \subseteq dirs'
        /\ p.op = "remove" => KnownSources(p.note)' \subseteq KnownSources(p.note)
        /\ \A s \in SoundNotes' :
              s \in h.noteIds \/ (r # NoPass /\ s \in r.batch) => s \in SoundNotes
        /\ \A s \in SoundNotes' :
              s \in h.noteIds => edges'[s] = edges[s] /\ body[s] \cap LiveNotes \subseteq LiveNotes'
    BY DEF Undisturbed
  <1>5. Looked(d) /\ Passing(d)
    BY DEF NoteInv, CallInv, BothRun
  <1>6. Covered(d)'
    <2>1. \A s : HoldsNote(h, s) => HoldsNote(h, s)'
      BY <1>2, <1>4 DEF HoldsNote, PathCovered
    <2>2. p.op = "write" =>
             \A t \in p.links \cap LiveNotes' : PathCovered(h, LinkTargetPath(t, p.note))
      BY <1>1, <1>4
    <2>3. p.op = "move" =>
             /\ PathCovered(h, p.to)
             /\ DirectoryOf(p.to) = <<>> \/ DirectoryOf(p.to) \in dirs'
      BY <1>1, <1>4
    <2>4. p.op = "remove" => CoversRemoval(h, p.note)'
      BY <1>1, <1>2, <1>4, <2>1 DEF CoversRemoval
    <2> QED
      BY <1>1, <1>2, <2>1, <2>2, <2>3, <2>4 DEF Covered
  <1>7. Looked(d)'
    <2>1. CASE p.op # "remove"
      BY <1>1, <1>2, <1>4, <1>5, <2>1 DEF Looked, HoldsNote, AboutANote
    <2>2. CASE p.op = "remove"
      <3>1. where'[p.note] = where[p.note]
        BY <1>1, <1>4 DEF HoldsNote
      <3>2. \A s \in {p.note} \cup KnownSources(p.note)' :
               s \in {p.note} \cup KnownSources(p.note) /\ where'[s] = where[s]
        BY <1>1, <1>4, <2>2, <3>1 DEF CoversRemoval, HoldsNote
      <3>3. SawRemoval(p.note, seen[d]) => SawRemoval(p.note, seen[d])'
        BY <1>2, <3>1, <3>2 DEF SawRemoval
      <3> QED
        BY <1>2, <1>5, <2>2, <3>3 DEF Looked, AboutANote
    <2> QED
      BY <2>1, <2>2
  <1>8. Passing(d)'
    <2>1. (\A s : Holds(d, s) <=> s \in h.noteIds) /\ \A s : Holds(d, s)' <=> s \in h.noteIds
      BY <1>1, <1>2 DEF Holds
    <2> SUFFICES ASSUME r # NoPass
                 PROVE  /\ p.op \in {"remove", "removeDir", "recover"}
                        /\ p.op = "remove" => seen[d] = {}
                        /\ LiveNotes' \subseteq r.index
                        /\ \A s \in SoundNotes' :
                              s \in h.noteIds => body'[s] \cap r.index \subseteq LiveNotes'
                        /\ \A s \in SoundNotes' \cap r.batch :
                              \/ s \in r.todo \cup r.baseline
                              \/ s \in h.noteIds /\ edges'[s] = body'[s] \cap LiveNotes'
                        /\ r.read # Unseen /\ r.read[1] \in h.noteIds
                              => r.read[2] = body'[r.read[1]]
      BY <1>1, <1>2, <2>1 DEF Passing
    <2>2. /\ p.op \in {"remove", "removeDir", "recover"}
          /\ p.op = "remove" => seen[d] = {}
          /\ LiveNotes \subseteq r.index
          /\ \A s \in SoundNotes : s \in h.noteIds => body[s] \cap r.index \subseteq LiveNotes
          /\ \A s \in SoundNotes \cap r.batch :
                \/ s \in r.todo \cup r.baseline
                \/ s \in h.noteIds /\ edges[s] = body[s] \cap LiveNotes
          /\ r.read # Unseen /\ r.read[1] \in h.noteIds => r.read[2] = body[r.read[1]]
      BY <1>5, <2>1 DEF Passing
    <2> HIDE DEF p, h, r
    <2> QED
      BY <1>4, <2>2
  <1> QED
    BY <1>6, <1>7, <1>8

-----------------------------------------------------------------------------
(* The types.                                                              *)

\* The pairs are those of the notes that are there.
LEMMA AtPairs ==
  ASSUME NEW notes
  PROVE  \A s, x : <<s, x>> \in At(notes) <=> s \in notes /\ x = where[s]
  BY DEF At

\* What a callback looks up: its note, if it is there, with its sources if it
\* is to be removed, or the notes under its folder.
LEMMA LookedUpNotes ==
  ASSUME NoteTypes, NEW c \in Calls
  PROVE  LET p == plan[c] IN
         /\ p.op \in AboutANote /\ where[p.note] = NoPath => LookedUp(p) = {}
         /\ p.op \in AboutANote \ {"remove"} /\ where[p.note] # NoPath
               => LookedUp(p) = {<<p.note, where[p.note]>>}
         /\ p.op = "remove" /\ where[p.note] # NoPath
               => LookedUp(p) = At({p.note} \cup SourcesOf(p.note))
         /\ p.op = "removeDir" => LookedUp(p) = At(NotesUnder(p.from))
         /\ p.op \in {"moveFolder", "recover"} => LookedUp(p) = {}
  <1> DEFINE p == plan[c]
  <1>1. /\ p.op \in {"tags", "remove", "write", "move", "moveFolder", "removeDir", "recover"}
        /\ p.op \in AboutANote => p.note \in NoteIds
    BY PlanFields
  <1>2. p.op \in AboutANote => (p.note \in LiveNotes <=> where[p.note] # NoPath)
    BY <1>1 DEF LiveNotes, NotesIn
  <1>3. \A n : At({n}) = {<<n, where[n]>>}
    BY DEF At
  <1> SUFFICES /\ p.op \in AboutANote /\ where[p.note] = NoPath => LookedUp(p) = {}
               /\ p.op \in AboutANote \ {"remove"} /\ where[p.note] # NoPath
                     => LookedUp(p) = {<<p.note, where[p.note]>>}
               /\ p.op = "remove" /\ where[p.note] # NoPath
                     => LookedUp(p) = At({p.note} \cup SourcesOf(p.note))
               /\ p.op = "removeDir" => LookedUp(p) = At(NotesUnder(p.from))
               /\ p.op \in {"moveFolder", "recover"} => LookedUp(p) = {}
    OBVIOUS
  <1> HIDE DEF p
  <1>4. p.op \in AboutANote /\ where[p.note] = NoPath => LookedUp(p) = {}
    BY <1>1, <1>2 DEF LookedUp
  <1>5. ASSUME p.op \in AboutANote \ {"remove"}, where[p.note] # NoPath
        PROVE  LookedUp(p) = At({p.note})
    <2> DEFINE own == At({p.note})
    <2>1. ~(p.op \in AboutANote /\ p.note \notin LiveNotes)
      BY <1>2, <1>5
    <2>2. p.op \in AboutANote /\ p.op # "remove" /\ p.op # "removeDir"
      BY <1>5 DEF AboutANote
    <2> HIDE DEF own
    <2> QED
      BY <2>1, <2>2 DEF LookedUp, own
  <1>6. ASSUME p.op = "remove", where[p.note] # NoPath
        PROVE  LookedUp(p) = At({p.note} \cup SourcesOf(p.note))
    <2> DEFINE pairs == At({p.note} \cup SourcesOf(p.note))
    <2>1. ~(p.op \in AboutANote /\ p.note \notin LiveNotes)
      BY <1>2, <1>6
    <2> HIDE DEF pairs
    <2> QED
      BY <1>6, <2>1 DEF LookedUp, pairs
  <1>7. /\ p.op = "removeDir" => LookedUp(p) = At(NotesUnder(p.from))
        /\ p.op \in {"moveFolder", "recover"} => LookedUp(p) = {}
    BY DEF LookedUp, AboutANote
  <1> QED
    BY <1>3, <1>4, <1>5, <1>6, <1>7

\* They are at paths.
LEMMA LookedUpTyped ==
  ASSUME NoteTypes, Linked, NEW c \in Calls
  PROVE  LookedUp(plan[c]) \in SUBSET (NoteIds \X Paths)
  <1> DEFINE p == plan[c]
  <1>1. \A n \in LiveNotes : n \in NoteIds /\ where[n] \in Paths
    BY DEF NoteTypes, LiveNotes, NotesIn
  <1>2. ASSUME NEW notes, notes \subseteq LiveNotes
        PROVE  At(notes) \in SUBSET (NoteIds \X Paths)
    BY <1>1, <1>2 DEF At
  <1>3. /\ p.op \in {"tags", "remove", "write", "move", "moveFolder", "removeDir", "recover"}
        /\ p.op \in AboutANote => p.note \in NoteIds
    BY PlanFields
  <1>4. CASE p.op \in AboutANote /\ where[p.note] = NoPath
    BY <1>4, LookedUpNotes
  <1>5. CASE p.op \in AboutANote /\ where[p.note] # NoPath
    <2>1. p.note \in LiveNotes
      BY <1>3, <1>5 DEF LiveNotes, NotesIn
    <2>2. SourcesOf(p.note) \subseteq LiveNotes
      BY DEF Linked, SourcesOf
    <2>3. \/ LookedUp(p) = {<<p.note, where[p.note]>>}
          \/ LookedUp(p) = At({p.note} \cup SourcesOf(p.note))
      BY <1>5, LookedUpNotes DEF AboutANote
    <2>4. {<<p.note, where[p.note]>>} \in SUBSET (NoteIds \X Paths)
      BY <1>1, <2>1
    <2>5. At({p.note} \cup SourcesOf(p.note)) \in SUBSET (NoteIds \X Paths)
      BY <1>2, <2>1, <2>2
    <2> QED
      BY <2>3, <2>4, <2>5
  <1>6. CASE p.op = "removeDir"
    <2> DEFINE victims == NotesUnder(p.from)
    <2>1. victims \subseteq LiveNotes
      BY DEF NotesUnder
    <2>2. LookedUp(p) = At(victims)
      BY <1>6, LookedUpNotes
    <2> HIDE DEF victims
    <2>3. At(victims) \in SUBSET (NoteIds \X Paths)
      BY <1>2, <2>1
    <2> QED
      BY <2>2, <2>3
  <1>7. CASE p.op \in {"moveFolder", "recover"}
    BY <1>7, LookedUpNotes
  <1> QED
    BY <1>3, <1>4, <1>5, <1>6, <1>7 DEF AboutANote

\* A move keeps the known folders among the paths.
LEMMA FoldersTyped ==
  ASSUME NoteTypes, NEW c \in Calls, Apply(c)
  PROVE  where' \in [NoteIds -> Paths \cup {NoPath}] /\ dirs' \subseteq Paths
  <1> DEFINE p == plan[c]
  <1>1. /\ p.op \in AboutANote => p.note \in NoteIds
        /\ p.op \in {"move", "moveFolder"} => p.to \in Paths
        /\ p.op \in {"moveFolder", "removeDir"} => p.from \in Paths
        /\ PathsSuffice(p)
    BY PlanFields
  <1>2. where \in [NoteIds -> Paths \cup {NoPath}] /\ dirs \subseteq Paths
    BY DEF NoteTypes
  <1>3. CASE ApplyWrite(c)
    BY <1>2, <1>3 DEF ApplyWrite, places
  <1>4. CASE ApplyMove(c)
    <2>1. /\ p.op = "move" /\ where' = [where EXCEPT ![p.note] = p.to]
          /\ dirs' = dirs \cup PathAncestors(DirectoryOf(p.to))
      BY <1>4 DEF ApplyMove, Runs, WithDirectory
    <2> QED
      BY <1>1, <1>2, <2>1, FoldersAbove
  <1>5. CASE ApplyMoveFolder(c)
    <2>1. /\ p.op = "moveFolder"
          /\ where' = [n \in NoteIds |-> IF n \in NotesUnder(p.from)
                          THEN Rebased(where[n], p.from, p.to) ELSE where[n]]
          /\ dirs' = MovedSubtree(dirs, p.from, p.to)
      BY <1>5 DEF ApplyMoveFolder, Runs
    <2>2. \A path \in Paths : IsUnder(path, p.from) => Rebased(path, p.from, p.to) \in Paths
      BY <1>1, <2>1 DEF PathsSuffice, Rebased
    <2>3. \A n \in NotesUnder(p.from) : where[n] \in Paths /\ IsUnder(where[n], p.from)
      BY <1>2 DEF NotesUnder, LiveNotes, NotesIn
    <2> HIDE DEF p
    <2>4. where' \in [NoteIds -> Paths \cup {NoPath}]
      BY <1>2, <2>1, <2>2, <2>3
    <2>5. \A path \in Paths : PathAncestors(path) \subseteq Paths
      BY SnapshotAssumption
    <2>6. dirs' \subseteq Paths
      <3>1. \A d \in dirs : IsUnder(d, p.from) =>
               PathAncestors(Rebased(d, p.from, p.to)) \subseteq Paths
        BY <1>2, <2>2, <2>5
      <3>2. PathAncestors(p.to) \subseteq Paths
        BY <1>1, <2>1, <2>5
      <3> SUFFICES ASSUME NEW x \in dirs' PROVE x \in Paths
        OBVIOUS
      <3>3. \/ x \in dirs
            \/ \E d \in dirs : /\ IsUnder(d, p.from)
                               /\ x \in PathAncestors(Rebased(d, p.from, p.to))
            \/ x \in PathAncestors(p.to)
        BY <2>1 DEF MovedSubtree
      <3> QED
        BY <1>2, <3>1, <3>2, <3>3
    <2> QED
      BY <2>4, <2>6
  <1>6. CASE ApplyRemoveDir(c)
    BY <1>2, <1>6 DEF ApplyRemoveDir, WithoutSubtree
  <1> QED
    BY <1>3, <1>4, <1>5, <1>6 DEF Apply

\* A pass over what is due.
LEMMA FlushTyped ==
  ASSUME NoteTypes, NEW c \in Calls, NEW due \in SUBSET NoteIds, NEW live \in SUBSET NoteIds,
         Flush(c, due, live)
  PROVE  owed' \subseteq NoteIds /\ repair' \in [Calls -> {NoPass} \cup Passes]
  <1> DEFINE r == [index |-> live, batch |-> due, todo |-> due \cap live, read |-> Unseen,
                   baseline |-> {}, graph |-> Unseen]
  <1>1. r \in Passes
    BY DEF Passes
  <1>2. repair' = [repair EXCEPT ![c] = IF due = {} THEN NoPass ELSE r] /\ owed' = due
    BY DEF Flush
  <1> HIDE DEF r
  <1> QED
    BY <1>1, <1>2 DEF NoteTypes

\* The types hold after every step.
LEMMA TypesInductive ==
  ASSUME NoteTypes, Linked, [NoteNext]_noteVars
  PROVE  NoteTypes'
  <1>1. CASE UNCHANGED noteVars
    BY <1>1 DEF noteVars, places, links, NoteTypes
  <1>2. ASSUME NEW c \in Calls, Call(c) \/ Rederive(c)
        PROVE  NoteTypes'
    BY <1>2 DEF Call, Rederive, places, links, NoteTypes
  <1>3. ASSUME NEW c \in Calls, Look(c)
        PROVE  NoteTypes'
    <2>1. LookedUp(plan[c]) \in SUBSET (NoteIds \X Paths)
      BY LookedUpTyped
    <2>2. seen' \in [Calls -> {Unseen} \cup SUBSET (NoteIds \X Paths)]
      <3> DEFINE l == LookedUp(plan[c])
      <3>1. seen' = seen \/ seen' = [seen EXCEPT ![c] = l]
        BY <1>3 DEF Look
      <3>2. l \in SUBSET (NoteIds \X Paths)
        BY <2>1
      <3> HIDE DEF l
      <3> QED
        BY <3>1, <3>2 DEF NoteTypes
    <2> QED
      BY <1>3, <2>2 DEF Look, places, links, NoteTypes
  <1>4. ASSUME NEW c \in Calls, Apply(c)
        PROVE  NoteTypes'
    <2>1. where' \in [NoteIds -> Paths \cup {NoPath}] /\ dirs' \subseteq Paths
      BY <1>4, FoldersTyped
    <2>2. body' \in [NoteIds -> SUBSET NoteIds] /\ edges' \in [NoteIds -> SUBSET NoteIds]
      <3>1. plan[c].op = "write" => plan[c].links \subseteq NoteIds
        BY PlanFields
      <3> QED
        BY <1>4, <3>1 DEF Apply, ApplyWrite, ApplyMove, ApplyMoveFolder, ApplyRemoveDir,
           Runs, links, NoteTypes
    <2>3. /\ UNCHANGED <<plan, seen, owed, repair>>
          /\ astray' \subseteq astray
      BY <1>4 DEF Apply, ApplyWrite, ApplyMove, ApplyMoveFolder, ApplyRemoveDir, links
    <2> QED
      BY <2>1, <2>2, <2>3 DEF NoteTypes
  <1>5. ASSUME NEW c \in Calls, NEW target, NEW sources, RemoveOne(c, target, sources),
               seen' \in [Calls -> {Unseen} \cup SUBSET (NoteIds \X Paths)]
        PROVE  NoteTypes'
    <2>1. /\ UNCHANGED <<plan, dirs, body, astray>>
          /\ where' = [where EXCEPT ![target] = NoPath]
          /\ edges' = [edges EXCEPT ![target] = {}]
          /\ Flush(c, owed \cup (sources \cap NotesIn(where')), NotesIn(where'))
      BY <1>5 DEF RemoveOne
    <2>2. owed' \subseteq NoteIds /\ repair' \in [Calls -> {NoPass} \cup Passes]
      <3> DEFINE live == NotesIn(where')
                 due == owed \cup (sources \cap live)
      <3>1. live \in SUBSET NoteIds /\ due \in SUBSET NoteIds /\ Flush(c, due, live)
        BY <2>1 DEF NotesIn, NoteTypes
      <3> HIDE DEF live, due
      <3> QED
        BY <3>1, FlushTyped
    <2> QED
      BY <1>5, <2>1, <2>2 DEF NoteTypes
  <1>6. ASSUME NEW c \in Calls, Remove(c)
        PROVE  NoteTypes'
    BY <1>5, <1>6 DEF Remove, NoteTypes
  <1>7. ASSUME NEW c \in Calls, RemoveVictim(c)
        PROVE  NoteTypes'
    <2>1. PICK victim \in seen[c] :
             /\ RemoveOne(c, victim[1], SourcesOf(victim[1]))
             /\ seen' = [seen EXCEPT ![c] = @ \ {victim}]
      BY <1>7 DEF RemoveVictim
    <2>2. seen[c] # Unseen
      BY <1>7 DEF RemoveVictim
    <2>3. seen' \in [Calls -> {Unseen} \cup SUBSET (NoteIds \X Paths)]
      BY <2>1, <2>2 DEF NoteTypes
    <2> QED
      BY <1>5, <2>1, <2>3
  <1>8. ASSUME NEW c \in Calls, Recover(c) \/ EndPass(c)
        PROVE  NoteTypes'
    <2>1. \E due \in SUBSET NoteIds, live \in SUBSET NoteIds : Flush(c, due, live)
      BY <1>8 DEF Recover, EndPass, LiveNotes, NotesIn, NoteTypes
    <2>2. owed' \subseteq NoteIds /\ repair' \in [Calls -> {NoPass} \cup Passes]
      BY <2>1, FlushTyped
    <2>3. UNCHANGED <<plan, where, dirs, seen, body, edges, astray>>
      BY <1>8 DEF Recover, EndPass, places
    <2> QED
      BY <2>2, <2>3 DEF NoteTypes
  <1>9. ASSUME NEW c \in Calls, ReadSource(c) \/ AskGraph(c)
        PROVE  NoteTypes'
    <2>1. repair[c] \in Passes
      BY <1>9 DEF ReadSource, AskGraph, NoteTypes
    <2>2. repair' \in [Calls -> {NoPass} \cup Passes]
      <3>1. CASE ReadSource(c)
        <4>1. PICK s \in repair[c].todo \cap LiveNotes :
                 repair' = [repair EXCEPT ![c].read = <<s, body[s]>>]
          BY <3>1 DEF ReadSource
        <4>2. <<s, body[s]>> \in NoteIds \X SUBSET NoteIds
          BY <4>1 DEF LiveNotes, NotesIn, NoteTypes
        <4> QED
          BY <2>1, <4>1, <4>2 DEF NoteTypes, Passes
      <3>2. CASE AskGraph(c)
        <4> DEFINE g == [links |-> body, places |-> where]
        <4>1. g \in Answers /\ repair' = [repair EXCEPT ![c].graph = g]
          BY <3>2 DEF AskGraph, Answers, NoteTypes
        <4> HIDE DEF g
        <4> QED
          BY <2>1, <4>1 DEF NoteTypes, Passes
      <3> QED
        BY <1>9, <3>1, <3>2
    <2> QED
      BY <1>9, <2>2 DEF ReadSource, AskGraph, places, NoteTypes
  <1>10. ASSUME NEW c \in Calls, PatchSource(c) \/ FailSource(c)
         PROVE  NoteTypes'
    <2> DEFINE r == repair[c]
               s == r.read[1]
    <2>1. r \in Passes /\ r.read # Unseen
      BY <1>10 DEF PatchSource, FailSource, NoteTypes
    <2>2. s \in NoteIds /\ r.read[2] \in SUBSET NoteIds
      BY <2>1 DEF Passes
    <2>3. /\ \/ edges' = [edges EXCEPT ![s] =
                   IF s \in LiveNotes THEN r.read[2] \cap r.index ELSE {}]
             \/ edges' = [edges EXCEPT ![s] = {}]
          /\ \/ repair' = [repair EXCEPT ![c].todo = @ \ {s}, ![c].read = Unseen]
             \/ repair' = [repair EXCEPT ![c].todo = @ \ {s}, ![c].read = Unseen,
                                         ![c].baseline = @ \cup {s}]
          /\ astray' \subseteq astray \cup {s}
          /\ UNCHANGED <<plan, where, dirs, seen, body, owed>>
      BY <1>10 DEF PatchSource, FailSource, places
    <2>4. edges' \in [NoteIds -> SUBSET NoteIds]
      BY <2>2, <2>3 DEF NoteTypes
    <2>5. repair' \in [Calls -> {NoPass} \cup Passes]
      BY <2>1, <2>2, <2>3 DEF NoteTypes, Passes
    <2> QED
      BY <2>2, <2>3, <2>4, <2>5 DEF NoteTypes
  <1>12. ASSUME NEW c \in Calls, AdoptGraph(c)
         PROVE  NoteTypes'
    <2> DEFINE r == repair[c]
    <2>1. r \in Passes /\ r.graph # Unseen
      BY <1>12 DEF AdoptGraph, NoteTypes
    <2>2. r.baseline \in SUBSET NoteIds /\ r.graph.links \in [NoteIds -> SUBSET NoteIds]
      BY <2>1 DEF Passes, Answers
    <2>3. /\ edges' = [s \in NoteIds |->
                IF s \notin r.baseline THEN edges[s]
                ELSE IF s \in Recognized(r.graph)
                     THEN r.graph.links[s] \cap Recognized(r.graph) ELSE {}]
          /\ repair' = [repair EXCEPT ![c].baseline = {}, ![c].graph = Unseen]
          /\ astray' \subseteq astray \cup r.baseline
          /\ UNCHANGED <<plan, where, dirs, seen, body, owed>>
      BY <1>12 DEF AdoptGraph, places
    <2>4. edges' \in [NoteIds -> SUBSET NoteIds]
      <3> HIDE DEF r
      <3> QED
        BY <2>2, <2>3 DEF NoteTypes
    <2>5. repair' \in [Calls -> {NoPass} \cup Passes]
      BY <2>1, <2>3 DEF NoteTypes, Passes
    <2> QED
      BY <2>2, <2>3, <2>4, <2>5 DEF NoteTypes
  <1>11. ASSUME NEW c \in Calls, Unwind(c)
        PROVE  NoteTypes'
    BY <1>11 DEF Unwind, places, NoteTypes
  <1> QED
    BY <1>1, <1>2, <1>3, <1>4, <1>6, <1>7, <1>8, <1>9, <1>10, <1>11, <1>12
    DEF NoteNext, Removal, Repair

-----------------------------------------------------------------------------
(* The steps, one by one: what each does to the snapshot, to the call that *)
(* takes it, and to the others that run.                                   *)

\* What holds of a running call.
LEMMA Runner ==
  ASSUME NoteInv, NEW c \in Calls, phase[c] = "running"
  PROVE  Covered(c) /\ Looked(c) /\ Passing(c)
  BY DEF NoteInv, CallInv

\* Nobody runs beside a call that claims everything.
LEMMA GlobalAlone ==
  ASSUME NoteInv, NEW c \in Calls, HeldClaim(c).global
  PROVE  \A d \in Calls : ~BothRun(c, d)
  BY RunnersApart DEF NoteInv, BothRun

\* A step that leaves the snapshot alone, and what a call holds and found.
LEMMA SnapshotKept ==
  ASSUME UNCHANGED <<plan, where, dirs, body, edges, astray>>, NEW d \in Calls,
         seen'[d] = seen[d], repair'[d] = repair[d], HeldClaim(d)' = HeldClaim(d)
  PROVE  /\ Covered(d) => Covered(d)'
         /\ Looked(d) => Looked(d)'
         /\ Passing(d) => Passing(d)'
  <1>1. Covered(d) => Covered(d)'
    BY DEF Covered, CoversRemoval, HoldsNote, KnownSources, SourcesOf, LiveNotes, NotesIn
  <1>2. Looked(d) => Looked(d)'
    BY DEF Looked, SawRemoval, KnownSources, SourcesOf, At, NotesUnder, LiveNotes, NotesIn
  <1>3. Passing(d) => Passing(d)'
    BY DEF Passing, Holds, SoundNotes, LiveNotes, NotesIn
  <1> QED
    BY <1>1, <1>2, <1>3

\* A call is made, or queues again, or enters.
LEMMA EnterStep ==
  ASSUME NoteInv, NoteTypes', NEW c \in Calls, Call(c) \/ Rederive(c)
  PROVE  CallInv(c)'
  <1>1. /\ phase[c] \in {"idle", "queued"} /\ Fresh(c)
        /\ UNCHANGED <<plan, where, dirs, body, edges, astray, seen, repair>>
    BY DEF Call, Rederive, Start, ResumeStable, places, links, NoteInv, CallInv
  <1>2. Fresh(c)'
    BY <1>1 DEF Fresh
  <1>3. ASSUME phase'[c] = "running"
        PROVE  Covered(c)'
    <2>1. /\ Rederive(c) /\ Derive(plan[c]) # Thrown
          /\ ClaimCovers(HeldClaim(c), Derive(plan[c])) /\ EnterStable(c)
          /\ ticket' = ticket
      <3>1. phase \in [Scopes -> {"idle", "queued", "running", "settled",
                                  "joining", "done", "failed"}] /\ c \in Scopes
        BY DEF NoteInv, IInv, FieldTypes, Scopes
      <3>2. CASE Call(c)
        BY <1>3, <3>1, <3>2 DEF Call, Start
      <3>3. CASE Rederive(c)
        <4>1. phase[c] = "queued"
          BY <3>3 DEF Rederive, ResumeStable
        <4> QED
          BY <1>3, <3>1, <3>3, <4>1
          DEF Rederive, ResumeStable, FailStable, RetryStable
      <3> QED
        BY <3>2, <3>3
    <2>2. Covered(c)
      BY <2>1, EnteredCovered DEF NoteInv
    <2>3. HeldClaim(c)' = HeldClaim(c)
      BY <2>1 DEF EnterStable, HeldClaim
    <2> QED
      BY <1>1, <2>2, <2>3, SnapshotKept
  <1> QED
    BY <1>2, <1>3 DEF CallInv, Fresh, Looked, Passing

\* A callback looks its target up.
LEMMA LookStep ==
  ASSUME NoteInv, NEW c \in Calls, Look(c)
  PROVE  CallInv(c)'
  <1> DEFINE p == plan[c]
  <1>1. /\ phase[c] = "running" /\ p.op \in AboutANote \cup {"removeDir"}
        /\ UNCHANGED <<plan, where, dirs, body, edges, astray, repair, queue, ticket>>
        /\ \/ phase' = [phase EXCEPT ![c] = "settled"]
           \/ /\ ~(p.op \in AboutANote /\ LookedUp(p) = {})
              /\ seen' = [seen EXCEPT ![c] = LookedUp(p)] /\ UNCHANGED phase
    BY DEF Look, places, links
  <1>2. phase \in [Scopes -> {"idle", "queued", "running", "settled",
                              "joining", "done", "failed"}] /\ c \in Scopes
    BY DEF NoteInv, IInv, FieldTypes, Scopes
  <1>3. CASE phase' = [phase EXCEPT ![c] = "settled"]
    BY <1>2, <1>3 DEF CallInv
  <1>4. CASE /\ ~(p.op \in AboutANote /\ LookedUp(p) = {})
             /\ seen' = [seen EXCEPT ![c] = LookedUp(p)] /\ UNCHANGED phase
    <2>1. NoteTypes /\ seen'[c] = LookedUp(p)
      BY <1>4 DEF NoteInv, NoteTypes
    <2>2. Covered(c)' /\ Passing(c)'
      <3>1. HeldClaim(c)' = HeldClaim(c)
        BY <1>1 DEF HeldClaim
      <3>2. Covered(c) => Covered(c)'
        BY <1>1, <3>1 DEF Covered, CoversRemoval, HoldsNote, KnownSources, SourcesOf, LiveNotes, NotesIn
      <3>3. plan[c].op = "remove" /\ repair[c] # NoPass => ~Passing(c)
        BY SnapshotAssumption DEF Look, Passing
      <3>4. Passing(c) => Passing(c)'
        BY <1>1, <3>1, <3>3 DEF Passing, Holds, SoundNotes, LiveNotes, NotesIn
      <3> QED
        BY <1>1, <3>2, <3>4, Runner
    <2>3. CASE p.op = "removeDir"
      <3>1. seen'[c] = At(NotesUnder(p.from))
        BY <2>1, <2>3, LookedUpNotes
      <3>2. Looked(c)'
        BY <1>1, <2>3, <3>1 DEF Looked, At, NotesUnder, LiveNotes, NotesIn
      <3> QED
        BY <1>1, <1>4, <2>2, <3>2 DEF CallInv
    <2>4. CASE p.op \in AboutANote
      <3>1. where[p.note] # NoPath
        BY <1>4, <2>1, <2>4, LookedUpNotes
      <3>2. CASE p.op # "remove"
        <4>1. seen'[c] = {<<p.note, where[p.note]>>}
          BY <2>1, <2>4, <3>1, <3>2, LookedUpNotes
        <4>2. Looked(c)'
          BY <1>1, <2>4, <3>1, <3>2, <4>1 DEF Looked
        <4> QED
          BY <1>1, <1>4, <2>2, <4>2 DEF CallInv
      <3>3. CASE p.op = "remove"
        <4> DEFINE pairs == seen'[c]
        <4>1. pairs = At({p.note} \cup SourcesOf(p.note))
          BY <2>1, <3>1, <3>3, LookedUpNotes
        <4>2. \A s, x : <<s, x>> \in pairs <=> s \in {p.note} \cup SourcesOf(p.note) /\ x = where[s]
          <5> DEFINE notes == {p.note} \cup SourcesOf(p.note)
          <5>1. pairs = At(notes)
            BY <4>1
          <5> HIDE DEF pairs, notes
          <5>2. \A s, x : <<s, x>> \in pairs <=> s \in notes /\ x = where[s]
            BY <5>1, AtPairs
          <5> QED
            BY <5>2 DEF notes
        <4>3. <<p.note, where[p.note]>> \in pairs
          BY <4>2
        <4>4. KnownSources(p.note)' \subseteq SourcesOf(p.note)
          BY <1>1 DEF KnownSources, SourcesOf
        <4>5. SawRemoval(p.note, seen[c])'
          <5> HIDE DEF pairs
          <5>1. \A s \in {p.note} \cup KnownSources(p.note)' : <<s, where'[s]>> \in pairs
            BY <1>1, <4>2, <4>4
          <5>2. <<p.note, where'[p.note]>> \in pairs /\ where'[p.note] # NoPath
            BY <1>1, <3>1, <4>3
          <5>3. plan'[c].note = p.note
            BY <1>1
          <5> QED
            BY <5>1, <5>2, <5>3 DEF SawRemoval, pairs
        <4>6. Looked(c)'
          BY <1>1, <3>3, <4>5 DEF Looked
        <4> QED
          BY <1>1, <1>4, <2>2, <4>6 DEF CallInv
      <3> QED
        BY <3>2, <3>3
    <2> QED
      BY <1>1, <2>3, <2>4
  <1> QED
    BY <1>1, <1>3, <1>4

\* What a step must keep, of the snapshot and of the others that run.
Kept(c) ==
    /\ Linked' /\ LinksFollow'
    /\ \A d \in Calls : BothRun(c, d) => Undisturbed(d)

\* Every removal that runs beside a call is of a note whose sources the call
\* does not hold.
LEMMA NotASource ==
  ASSUME NoteInv, NEW c \in Calls, NEW d \in Calls, BothRun(c, d), plan[d].op = "remove",
         NEW s \in NoteIds, s \in HeldClaim(c).noteIds
  PROVE  s # plan[d].note /\ s \notin KnownSources(plan[d].note)
  <1>1. /\ HeldClaim(c).noteIds \cap HeldClaim(d).noteIds = {} /\ ~HeldClaim(d).global
    BY RunnersApart DEF NoteInv, BothRun
  <1>2. Covered(d)
    BY Runner DEF BothRun
  <1> QED
    BY <1>1, <1>2 DEF Covered, HoldsNote, CoversRemoval

\* A write sets the edges of its note, which it holds, to the live notes it
\* now links to; it claims each of those links, so none of them is removed, and
\* every claim reckons with the note again, unless a pass has it already.
LEMMA WriteStep ==
  ASSUME NoteInv, NEW c \in Calls, ApplyWrite(c), UNCHANGED plan
  PROVE  Kept(c)
  <1> DEFINE p == plan[c]
             h == HeldClaim(c)
  <1>1. /\ phase[c] = "running" /\ p.op = "write" /\ seen[c] # Unseen
        /\ body' = [body EXCEPT ![p.note] = p.links]
        /\ edges' = [edges EXCEPT ![p.note] = p.links \cap LiveNotes]
        /\ astray' = IF InAnotherPass(c, p.note) THEN astray ELSE astray \ {p.note}
        /\ UNCHANGED <<where, dirs, owed>>
    BY DEF ApplyWrite, Runs, places
  <1>2. /\ p.note \in NoteIds /\ p.links \subseteq NoteIds
        /\ \A t \in p.links : LinkTargetPath(t, p.note) \in Paths
    BY <1>1, PlanFields DEF NoteInv, AboutANote, PathsSuffice
  <1>3. Covered(c) /\ Looked(c)
    BY <1>1, Runner
  <1>4. where[p.note] # NoPath
    BY <1>1, <1>3 DEF Looked
  <1>5. /\ edges \in [NoteIds -> SUBSET NoteIds] /\ body \in [NoteIds -> SUBSET NoteIds]
        /\ \A s \in NoteIds : where[s] = NoPath => edges[s] = {}
        /\ \A s \in SoundNotes : edges[s] \cap LiveNotes = body[s] \cap LiveNotes
        /\ \A s \in LiveNotes \ (owed \cup astray) : edges[s] = body[s] \cap LiveNotes
    BY DEF NoteInv, NoteTypes, Linked, LinksFollow, LiveNotes, NotesIn
  <1>6. /\ LiveNotes' = LiveNotes
        /\ \A s : s # p.note => (s \in astray' <=> s \in astray)
        /\ \A s : s # p.note => (s \in SoundNotes' <=> s \in SoundNotes)
    BY <1>1 DEF SoundNotes, LiveNotes, NotesIn
  <1>7. LiveNotes \subseteq NoteIds /\ SoundNotes \subseteq LiveNotes /\ SoundNotes' \subseteq LiveNotes
    BY <1>6 DEF SoundNotes, LiveNotes, NotesIn
  <1>8. Linked'
    <2>1. \A s \in NoteIds : where[s] = NoPath => edges'[s] = {}
      BY <1>1, <1>2, <1>4, <1>5
    <2>2. \A s \in SoundNotes' : edges'[s] \cap LiveNotes = body'[s] \cap LiveNotes
      BY <1>1, <1>2, <1>5, <1>6, <1>7
    <2> QED
      BY <1>1, <1>6, <2>1, <2>2 DEF Linked, LiveNotes, NotesIn
  <1>9. LinksFollow'
    <2>1. \A s \in LiveNotes \ (owed \cup astray') : edges'[s] = body'[s] \cap LiveNotes
      BY <1>1, <1>2, <1>5, <1>6, <1>7
    <2> QED
      BY <1>1, <1>6, <2>1 DEF LinksFollow
  <1>10. ASSUME NEW d \in Calls, BothRun(c, d)
         PROVE  Undisturbed(d)
    <2> DEFINE g == HeldClaim(d)
    <2>1. /\ ~h.global /\ ~g.global /\ h.noteIds \cap g.noteIds = {}
          /\ \A t, s : LinkTargetPath(t, s) \in Paths /\ PathCovered(h, LinkTargetPath(t, s))
                         => LinkTarget(t) \notin g.prefixes
      BY <1>10, RunnersApart DEF NoteInv, BothRun
    <2>2. p.note \in h.noteIds /\ p.note \notin g.noteIds
      BY <1>1, <1>3, <2>1 DEF Covered, HoldsNote
    <2>3. \A t \in p.links \cap LiveNotes : PathCovered(h, LinkTargetPath(t, p.note))
      BY <1>1, <1>3, <2>1 DEF Covered
    <2>4. ASSUME plan[d].op = "remove"
          PROVE  KnownSources(plan[d].note)' \subseteq KnownSources(plan[d].note)
      <3>1. LinkTarget(plan[d].note) \in g.prefixes
        BY <1>10, <2>1, <2>4, Runner DEF BothRun, Covered, CoversRemoval
      <3>2. plan[d].note \notin p.links \cap LiveNotes
        BY <1>2, <2>1, <2>3, <3>1
      <3>3. plan[d].note \notin edges'[p.note] /\ \A s \in NoteIds : s # p.note => edges'[s] = edges[s]
        BY <1>1, <1>2, <1>5, <3>2
      <3>4. plan'[d].note = plan[d].note
        OBVIOUS
      <3> QED
        BY <1>6, <3>3, <3>4 DEF KnownSources, SourcesOf
    <2>5. \A s \in g.noteIds : where'[s] = where[s] /\ body'[s] = body[s]
      <3>1. \A s : s # p.note => body'[s] = body[s]
        BY <1>1, <1>5
      <3> QED
        BY <1>1, <2>2, <3>1
    <2>6. \A s \in SoundNotes' : s \in g.noteIds => edges'[s] = edges[s]
      BY <1>1, <1>5, <1>7, <2>2
    <2>7. \A s \in SoundNotes' :
             s \in g.noteIds \/ (repair[d] # NoPass /\ s \in repair[d].batch) => s \in SoundNotes
      <3>1. CASE InAnotherPass(c, p.note)
        BY <1>1, <1>6, <3>1 DEF SoundNotes
      <3>2. CASE ~InAnotherPass(c, p.note)
        <4>1. repair[d] # NoPass => p.note \notin repair[d].batch
          BY <1>10, <3>2 DEF InAnotherPass, BothRun
        <4> QED
          BY <1>6, <2>2, <4>1
      <3> QED
        BY <3>1, <3>2
    <2> QED
      BY <1>1, <1>6, <2>4, <2>5, <2>6, <2>7 DEF Undisturbed
  <1> QED
    BY <1>8, <1>9, <1>10 DEF Kept

\* As long as the same notes are there, the links are as they were.
LEMMA SameNotesKept ==
  ASSUME NoteInv, NEW c \in Calls, LiveNotes' = LiveNotes, UNCHANGED <<body, edges, astray>>,
         owed \cap SoundNotes \subseteq owed',
         \A d \in Calls : BothRun(c, d) =>
            /\ \A s \in HeldClaim(d).noteIds : where'[s] = where[s]
            /\ dirs \subseteq dirs'
  PROVE  Kept(c)
  <1>1. SoundNotes' = SoundNotes
    BY DEF SoundNotes
  <1>2. Linked'
    BY <1>1 DEF NoteInv, Linked
  <1>3. LinksFollow'
    BY DEF NoteInv, LinksFollow, SoundNotes
  <1>4. \A d \in Calls : BothRun(c, d) => Undisturbed(d)
    BY <1>1 DEF Undisturbed, BothRun, KnownSources, SourcesOf
  <1> QED
    BY <1>2, <1>3, <1>4 DEF Kept

\* A move takes a note that is there to another path; the note is held, and a
\* folder that it creates is not one whose absence another call relies on.
LEMMA MoveStep ==
  ASSUME NoteInv, NEW c \in Calls, ApplyMove(c), UNCHANGED plan
  PROVE  Kept(c)
  <1> DEFINE p == plan[c]
             h == HeldClaim(c)
  <1>1. /\ phase[c] = "running" /\ p.op = "move" /\ seen[c] # Unseen
        /\ where' = [where EXCEPT ![p.note] = p.to]
        /\ dirs \subseteq dirs'
        /\ UNCHANGED <<body, edges, owed, astray>>
    BY DEF ApplyMove, Runs, WithDirectory, links
  <1>2. p.note \in NoteIds /\ p.to \in Paths /\ NoPath \notin Paths
    BY <1>1, PlanFields, SnapshotAssumption DEF NoteInv, AboutANote
  <1>3. Covered(c) /\ Looked(c)
    BY <1>1, Runner
  <1>4. where[p.note] # NoPath
    BY <1>1, <1>3 DEF Looked
  <1>5. LiveNotes' = LiveNotes
    BY <1>1, <1>2, <1>4 DEF LiveNotes, NotesIn, NoteInv, NoteTypes
  <1>6. ASSUME NEW d \in Calls, BothRun(c, d)
        PROVE  \A s \in HeldClaim(d).noteIds : where'[s] = where[s]
    <2>1. ~h.global /\ h.noteIds \cap HeldClaim(d).noteIds = {}
      BY <1>6, RunnersApart DEF NoteInv, BothRun
    <2>2. p.note \in h.noteIds
      BY <1>1, <1>3, <2>1 DEF Covered, HoldsNote
    <2>3. \A s : s # p.note => where'[s] = where[s]
      BY <1>1 DEF NoteInv, NoteTypes
    <2> QED
      BY <2>1, <2>2, <2>3
  <1> QED
    BY <1>1, <1>5, <1>6, SameNotesKept

\* A folder is moved while nobody else runs, and its notes stay notes.
LEMMA MoveFolderStep ==
  ASSUME NoteInv, NEW c \in Calls, ApplyMoveFolder(c), UNCHANGED plan
  PROVE  Kept(c)
  <1> DEFINE p == plan[c]
  <1>1. /\ phase[c] = "running" /\ p.op = "moveFolder"
        /\ where' = [n \in NoteIds |-> IF n \in NotesUnder(p.from)
                        THEN Rebased(where[n], p.from, p.to) ELSE where[n]]
        /\ UNCHANGED <<body, edges, owed, astray>>
    BY DEF ApplyMoveFolder, Runs, links
  <1>2. HeldClaim(c).global
    BY <1>1, Runner DEF Covered, AboutANote
  <1>3. \A path \in Paths : IsUnder(path, p.from) => Rebased(path, p.from, p.to) \in Paths
    BY <1>1, PlanFields DEF NoteInv, PathsSuffice, Rebased
  <1>4. \A n \in NotesUnder(p.from) : /\ n \in NoteIds /\ where[n] \in Paths
                                      /\ IsUnder(where[n], p.from) /\ where[n] # NoPath
    BY DEF NoteInv, NoteTypes, NotesUnder, LiveNotes, NotesIn
  <1>5. \A n \in NoteIds : where'[n] = NoPath <=> where[n] = NoPath
    <2> HIDE DEF p
    <2> QED
      BY <1>1, <1>3, <1>4, SnapshotAssumption
  <1>6. LiveNotes' = LiveNotes
    BY <1>5 DEF LiveNotes, NotesIn
  <1> QED
    BY <1>1, <1>2, <1>6, GlobalAlone, SameNotesKept

\* A folder is removed when none of its notes is left.
LEMMA RemoveDirStep ==
  ASSUME NoteInv, NEW c \in Calls, ApplyRemoveDir(c), UNCHANGED plan
  PROVE  Kept(c)
  <1> DEFINE p == plan[c]
  <1>1. /\ phase[c] = "running" /\ p.op = "removeDir" /\ seen[c] = {}
        /\ where' = [n \in NoteIds |-> IF n \in NotesUnder(p.from) THEN NoPath ELSE where[n]]
        /\ UNCHANGED <<body, edges, owed, astray>>
    BY DEF ApplyRemoveDir, Runs, links
  <1>2. HeldClaim(c).global
    BY <1>1, Runner DEF Covered, AboutANote
  <1>3. NotesUnder(p.from) = {}
    <2>1. Unseen # {}
      BY SnapshotAssumption
    <2>2. At(NotesUnder(p.from)) = {}
      BY <1>1, <2>1, Runner DEF Looked, AboutANote
    <2> QED
      BY <2>2 DEF At
  <1>4. LiveNotes' = LiveNotes
    BY <1>1, <1>3 DEF LiveNotes, NotesIn
  <1> QED
    BY <1>1, <1>2, <1>4, GlobalAlone, SameNotesKept

\* The effect of a call that settles with it.
LEMMA ApplyStep ==
  ASSUME NoteInv, NEW c \in Calls, Apply(c)
  PROVE  Kept(c) /\ CallInv(c)'
  <1>1. phase' = [phase EXCEPT ![c] = "settled"] /\ UNCHANGED plan
    BY DEF Apply
  <1>2. CallInv(c)'
    BY <1>1 DEF CallInv, NoteInv, IInv, FieldTypes, Scopes
  <1> QED
    BY <1>1, <1>2, WriteStep, MoveStep, MoveFolderStep, RemoveDirStep DEF Apply

\* A step that patches nothing.
LEMMA NothingPatched ==
  ASSUME NoteInv, NEW c \in Calls, UNCHANGED <<where, dirs, body, edges, astray>>,
         owed \cap SoundNotes \subseteq owed'
  PROVE  Kept(c)
  BY SameNotesKept DEF LiveNotes, NotesIn

\* A pass begins with every source that is due and there, and resolves
\* against the notes that are there; otherwise nothing is due.
LEMMA FlushStep ==
  ASSUME NoteInv, NoteTypes', NEW c \in Calls, phase[c] = "running",
         plan[c].op \in {"remove", "removeDir", "recover"}, UNCHANGED plan,
         plan[c].op = "remove" => seen'[c] = {},
         NEW due \in SUBSET NoteIds, Flush(c, due, LiveNotes')
  PROVE  /\ Passing(c)'
         /\ phase'[c] \in {"running", "settled"}
         /\ owed' = due
  <1> DEFINE r == [index |-> LiveNotes', batch |-> due, todo |-> due \cap LiveNotes',
                   read |-> Unseen, baseline |-> {}, graph |-> Unseen]
  <1>1. repair'[c] \in {NoPass, r} /\ owed' = due
    BY DEF Flush, NoteInv, NoteTypes
  <1>2. /\ r.index = LiveNotes' /\ r.batch = due /\ r.todo = due \cap LiveNotes'
        /\ r.read = Unseen /\ r.graph = Unseen
    OBVIOUS
  <1>3. phase'[c] \in {"running", "settled"}
    BY DEF Flush, NoteInv, IInv, FieldTypes, Scopes
  <1> HIDE DEF r
  <1>4. Passing(c)'
    BY <1>1, <1>2 DEF Passing, SoundNotes
  <1> QED
    BY <1>1, <1>3, <1>4

\* What the removal of a note changes.
LEMMA RemoveOneEffect ==
  ASSUME NoteInv, NEW c \in Calls, NEW target \in LiveNotes, NEW sources,
         RemoveOne(c, target, sources)
  PROVE  /\ UNCHANGED <<queue, ticket, plan, dirs, body, astray>>
         /\ \A s \in NoteIds : where'[s] = IF s = target THEN NoPath ELSE where[s]
         /\ \A s \in NoteIds : edges'[s] = IF s = target THEN {} ELSE edges[s]
         /\ LiveNotes' = LiveNotes \ {target} /\ SoundNotes' = SoundNotes \ {target}
         /\ Flush(c, owed \cup (sources \cap LiveNotes'), LiveNotes')
  <1>1. /\ UNCHANGED <<queue, ticket, plan, dirs, body, astray>>
        /\ where' = [where EXCEPT ![target] = NoPath]
        /\ edges' = [edges EXCEPT ![target] = {}]
        /\ Flush(c, owed \cup (sources \cap NotesIn(where')), NotesIn(where'))
    BY DEF RemoveOne
  <1>2. /\ \A s \in NoteIds : where'[s] = IF s = target THEN NoPath ELSE where[s]
        /\ \A s \in NoteIds : edges'[s] = IF s = target THEN {} ELSE edges[s]
    BY <1>1 DEF NoteInv, NoteTypes
  <1>3. LiveNotes' = LiveNotes \ {target}
    BY <1>2 DEF LiveNotes, NotesIn
  <1>4. SoundNotes' = SoundNotes \ {target}
    BY <1>1, <1>3 DEF SoundNotes
  <1> QED
    BY <1>1, <1>2, <1>3, <1>4 DEF LiveNotes

\* The sources of a note that is removed are due, and nobody else holds one.
LEMMA RemoveOneStep ==
  ASSUME NoteInv, NoteTypes', NEW c \in Calls, phase[c] = "running",
         plan[c].op \in {"remove", "removeDir"}, plan[c].op = "remove" => seen'[c] = {},
         NEW target \in LiveNotes, NEW sources, RemoveOne(c, target, sources),
         \A s \in SoundNotes : target \in edges[s] => s \in sources,
         \/ HeldClaim(c).global
         \/ HoldsNote(HeldClaim(c), target) /\ CoversRemoval(HeldClaim(c), target)
  PROVE  Kept(c) /\ Passing(c)' /\ phase'[c] \in {"running", "settled"}
  <1> DEFINE h == HeldClaim(c)
             due == owed \cup (sources \cap LiveNotes')
  <1>1. /\ UNCHANGED <<queue, ticket, plan, dirs, body, astray>>
        /\ \A s \in NoteIds : where'[s] = IF s = target THEN NoPath ELSE where[s]
        /\ \A s \in NoteIds : edges'[s] = IF s = target THEN {} ELSE edges[s]
        /\ LiveNotes' = LiveNotes \ {target} /\ SoundNotes' = SoundNotes \ {target}
        /\ Flush(c, due, LiveNotes')
    BY RemoveOneEffect
  <1>2. LiveNotes \subseteq NoteIds /\ SoundNotes \subseteq LiveNotes
    BY DEF SoundNotes, LiveNotes, NotesIn
  <1>3. /\ \A s \in NoteIds \ LiveNotes : edges[s] = {}
        /\ \A s \in SoundNotes : edges[s] \cap LiveNotes = body[s] \cap LiveNotes
        /\ \A s \in LiveNotes \ (owed \cup astray) : edges[s] = body[s] \cap LiveNotes
    BY DEF NoteInv, Linked, LinksFollow
  <1>4. \A s \in SoundNotes : target \in body[s] => target \in edges[s]
    BY <1>3
  <1>5. Passing(c)' /\ phase'[c] \in {"running", "settled"} /\ owed' = due
    <2>1. due \in SUBSET NoteIds
      BY <1>1, <1>2 DEF NoteInv, NoteTypes
    <2> HIDE DEF due
    <2> QED
      BY <1>1, <2>1, FlushStep
  <1>6. Linked'
    <2>1. \A s \in NoteIds \ LiveNotes' : edges'[s] = {}
      BY <1>1, <1>3
    <2>2. \A s \in SoundNotes' : edges'[s] \cap LiveNotes' = body'[s] \cap LiveNotes'
      <3> SUFFICES ASSUME NEW s \in SoundNotes'
                   PROVE  edges'[s] \cap LiveNotes' = body'[s] \cap LiveNotes'
        OBVIOUS
      <3>1. s \in SoundNotes /\ s \in NoteIds /\ s # target
        BY <1>1, <1>2
      <3>2. edges'[s] = edges[s] /\ body'[s] = body[s]
        BY <1>1, <3>1
      <3>3. edges[s] \cap LiveNotes = body[s] \cap LiveNotes
        BY <1>3, <3>1
      <3> QED
        BY <1>1, <3>2, <3>3
    <2> QED
      BY <2>1, <2>2 DEF Linked
  <1>7. LinksFollow'
    <2> SUFFICES ASSUME NEW s \in LiveNotes' \ (due \cup astray)
                 PROVE  edges'[s] = body'[s] \cap LiveNotes'
      BY <1>1, <1>5 DEF LinksFollow
    <2>1. s \in SoundNotes /\ s \in NoteIds /\ s # target /\ s \notin sources /\ s \notin owed
      BY <1>1, <1>2 DEF SoundNotes
    <2>2. edges'[s] = edges[s] /\ body'[s] = body[s] /\ edges[s] = body[s] \cap LiveNotes
      BY <1>1, <1>2, <1>3, <2>1 DEF SoundNotes
    <2>3. target \notin body[s]
      BY <1>4, <2>1
    <2> QED
      BY <1>1, <2>2, <2>3
  <1>8. ASSUME NEW d \in Calls, BothRun(c, d)
        PROVE  Undisturbed(d)
    <2> DEFINE g == HeldClaim(d)
    <2>1. /\ ~h.global /\ h.noteIds \cap g.noteIds = {}
      BY <1>8, RunnersApart DEF NoteInv, BothRun
    <2>2. /\ target \in h.noteIds /\ target \notin g.noteIds
          /\ \A s \in KnownSources(target) : s \in h.noteIds
      BY <2>1 DEF HoldsNote, CoversRemoval
    <2>3. \A s \in g.noteIds : where'[s] = where[s] /\ body'[s] = body[s]
      <3>1. \A s : s # target => where'[s] = where[s]
        BY DEF RemoveOne, NoteInv, NoteTypes
      <3> QED
        BY <1>1, <2>2, <3>1
    <2>4. KnownSources(plan[d].note)' \subseteq KnownSources(plan[d].note)
      BY <1>1, <1>8 DEF BothRun, KnownSources, SourcesOf
    <2>5. ASSUME NEW s \in SoundNotes', s \in g.noteIds
          PROVE  edges'[s] = edges[s] /\ body[s] \cap LiveNotes \subseteq LiveNotes'
      <3>1. s \in SoundNotes /\ s \in NoteIds /\ s # target
        BY <1>1, <1>2
      <3>2. s \notin SourcesOf(target)
        BY <2>1, <2>2, <2>5, <3>1 DEF SoundNotes, KnownSources
      <3>3. target \notin body[s]
        BY <1>4, <3>1, <3>2 DEF SourcesOf
      <3> QED
        BY <1>1, <3>1, <3>3
    <2> QED
      BY <1>1, <2>3, <2>4, <2>5 DEF Undisturbed
  <1> QED
    BY <1>5, <1>6, <1>7, <1>8 DEF Kept

\* The removal of a note takes what was looked up for it.
LEMMA RemoveStep ==
  ASSUME NoteInv, NoteTypes', NEW c \in Calls, Remove(c)
  PROVE  Kept(c) /\ CallInv(c)'
  <1> DEFINE p == plan[c]
             h == HeldClaim(c)
             t == p.note
             sources == { pair[1] : pair \in seen[c] }
  <1>1. /\ phase[c] = "running" /\ p.op = "remove" /\ seen[c] # Unseen /\ seen[c] # {}
        /\ RemoveOne(c, t, sources) /\ seen' = [seen EXCEPT ![c] = {}]
    BY DEF Remove, Runs
  <1>2. Covered(c) /\ Looked(c) /\ t \in NoteIds
    BY <1>1, Runner, PlanFields DEF NoteInv, AboutANote
  <1>3. SawRemoval(t, seen[c])
    BY <1>1, <1>2 DEF Looked, AboutANote
  <1>4. t \in LiveNotes
    BY <1>1, <1>2, <1>3 DEF SawRemoval, LiveNotes, NotesIn
  <1>5. ASSUME NEW s \in SoundNotes, t \in edges[s]
        PROVE  s \in sources
    <2>1. s \in KnownSources(t)
      BY <1>5 DEF SoundNotes, LiveNotes, NotesIn, KnownSources, SourcesOf
    <2>2. <<s, where[s]>> \in seen[c]
      BY <1>1, <1>3, <2>1 DEF SawRemoval
    <2> QED
      BY <2>2
  <1>6. \/ h.global
        \/ HoldsNote(h, t) /\ CoversRemoval(h, t)
    BY <1>1, <1>2 DEF Covered
  <1>7. Kept(c) /\ Passing(c)' /\ phase'[c] \in {"running", "settled"}
    <2>1. seen'[c] = {}
      BY <1>1 DEF NoteInv, NoteTypes
    <2> HIDE DEF sources
    <2> QED
      BY <1>1, <1>4, <1>5, <1>6, <2>1, RemoveOneStep
  <1>8. /\ UNCHANGED <<queue, ticket, plan, astray>>
        /\ \A s \in NoteIds : where'[s] = IF s = t THEN NoPath ELSE where[s]
        /\ \A s \in NoteIds : edges'[s] = IF s = t THEN {} ELSE edges[s]
    <2> HIDE DEF sources
    <2> QED
      BY <1>1, <1>4, RemoveOneEffect
  <1>9. Looked(c)'
    <2>1. seen'[c] = {} /\ where'[t] = NoPath /\ plan'[c] = p
      BY <1>1, <1>2, <1>8 DEF NoteInv, NoteTypes
    <2>2. SawRemoval(t, {})'
      BY <2>1 DEF SawRemoval
    <2> QED
      BY <1>1, <2>1, <2>2 DEF Looked, SawRemoval
  <1>10. Covered(c)'
    <2>1. HeldClaim(c)' = h /\ plan'[c] = p
      BY <1>8 DEF HeldClaim
    <2>2. \A s \in NoteIds : HoldsNote(h, s) => s \in h.noteIds /\
                              (where'[s] # NoPath => PathCovered(h, where'[s]))
      BY <1>8 DEF HoldsNote
    <2>3. CoversRemoval(h, t) => CoversRemoval(h, t)'
      <3>1. KnownSources(t)' \subseteq KnownSources(t) \cap NoteIds
        BY <1>1, <1>8 DEF KnownSources, SourcesOf
      <3> QED
        BY <1>1, <1>8, <2>1, <2>2, <3>1 DEF CoversRemoval, HoldsNote, PathCovered
    <2> QED
      BY <1>1, <1>2, <1>6, <2>1, <2>2, <2>3 DEF Covered, HoldsNote, AboutANote
  <1> QED
    BY <1>7, <1>9, <1>10 DEF CallInv

\* A folder's notes are removed one after the other, while nobody else runs.
LEMMA RemoveVictimStep ==
  ASSUME NoteInv, NoteTypes', NEW c \in Calls, RemoveVictim(c)
  PROVE  Kept(c) /\ CallInv(c)'
  <1> DEFINE p == plan[c]
  <1>1. phase[c] = "running" /\ p.op = "removeDir" /\ seen[c] # Unseen
    BY DEF RemoveVictim, Runs
  <1>2. PICK victim \in seen[c] :
           /\ RemoveOne(c, victim[1], SourcesOf(victim[1]))
           /\ seen' = [seen EXCEPT ![c] = @ \ {victim}]
    BY DEF RemoveVictim
  <1>3. HeldClaim(c).global
    BY <1>1, Runner DEF Covered, AboutANote
  <1>4. seen[c] = At(NotesUnder(p.from))
    BY <1>1, Runner DEF Looked, AboutANote
  <1>5. PICK t \in NotesUnder(p.from) : victim = <<t, where[t]>>
    BY <1>4 DEF At
  <1>6. t \in LiveNotes /\ victim[1] = t
    BY <1>5 DEF NotesUnder
  <1>7. Kept(c) /\ Passing(c)' /\ phase'[c] \in {"running", "settled"}
    <2>1. \A s \in SoundNotes : t \in edges[s] => s \in SourcesOf(t)
      BY DEF SourcesOf, SoundNotes, LiveNotes, NotesIn
    <2> QED
      BY <1>1, <1>2, <1>3, <1>6, <2>1, RemoveOneStep
  <1>8. /\ UNCHANGED <<queue, ticket, plan>>
        /\ \A s \in NoteIds : where'[s] = IF s = t THEN NoPath ELSE where[s]
        /\ LiveNotes' = LiveNotes \ {t}
    <2>1. RemoveOne(c, t, SourcesOf(t))
      BY <1>2, <1>6
    <2>2. /\ UNCHANGED <<queue, ticket, plan>>
          /\ \A s \in NoteIds : where'[s] = IF s = t THEN NoPath ELSE where[s]
      BY <2>1 DEF RemoveOne, NoteInv, NoteTypes
    <2>3. LiveNotes' = LiveNotes \ {t}
      BY <2>2 DEF LiveNotes, NotesIn
    <2> QED
      BY <2>2, <2>3
  <1>9. Covered(c)'
    BY <1>3, <1>8 DEF Covered, HeldClaim
  <1>10. Looked(c)'
    <2>1. seen'[c] = seen[c] \ {victim} /\ plan'[c] = p
      BY <1>1, <1>2, <1>8 DEF NoteInv, NoteTypes
    <2>2. \A n : n \in NotesUnder(p.from)' <=> n \in NotesUnder(p.from) /\ n # t
      BY <1>8 DEF NotesUnder, LiveNotes, NotesIn
    <2>3. seen'[c] = At(NotesUnder(p.from))'
      <3>1. At(NotesUnder(p.from))' = { <<n, where'[n]>> : n \in NotesUnder(p.from)' }
        BY DEF At
      <3>2. \A n \in NotesUnder(p.from)' : where'[n] = where[n]
        BY <1>8, <2>2 DEF NotesUnder, LiveNotes, NotesIn
      <3>3. At(NotesUnder(p.from)) = { <<n, where[n]>> : n \in NotesUnder(p.from) }
        BY DEF At
      <3> QED
        BY <1>4, <1>5, <2>1, <2>2, <3>1, <3>2, <3>3
    <2> QED
      BY <1>1, <2>1, <2>3 DEF Looked
  <1> QED
    BY <1>7, <1>9, <1>10 DEF CallInv

\* A step of a repair leaves what its call covers and found as it was.
LEMMA RepairerKept ==
  ASSUME NoteInv, NEW c \in Calls, phase[c] = "running",
         UNCHANGED <<queue, ticket, plan, where, dirs, seen, body, edges, astray>>
  PROVE  Covered(c)' /\ Looked(c)'
  <1>1. HeldClaim(c)' = HeldClaim(c)
    BY DEF HeldClaim
  <1>2. Covered(c)'
    BY <1>1, Runner DEF Covered, CoversRemoval, HoldsNote, KnownSources, SourcesOf, LiveNotes, NotesIn
  <1>3. Looked(c)'
    BY Runner DEF Looked, SawRemoval, KnownSources, SourcesOf, At, NotesUnder, LiveNotes, NotesIn
  <1> QED
    BY <1>2, <1>3

\* A recovery begins, or a pass ends: what it took on is in order by then.
LEMMA PassStep ==
  ASSUME NoteInv, NoteTypes', NEW c \in Calls, Recover(c) \/ EndPass(c)
  PROVE  Kept(c) /\ CallInv(c)'
  <1>1. /\ phase[c] = "running"
        /\ UNCHANGED <<queue, ticket, plan, where, dirs, seen, body, edges, astray>>
    BY DEF Recover, EndPass, Runs, places, coordinatorVars
  <1>2. LiveNotes' = LiveNotes
    BY <1>1 DEF LiveNotes, NotesIn
  <1>3. PICK due \in SUBSET NoteIds :
           /\ Flush(c, due, LiveNotes') /\ owed \cap SoundNotes \subseteq due \cup
                 { s \in SoundNotes : edges[s] = body[s] \cap LiveNotes }
           /\ plan[c].op \in {"remove", "removeDir", "recover"}
           /\ plan[c].op = "remove" => seen[c] = {}
    <2>1. CASE Recover(c)
      BY <1>2, <2>1 DEF Recover, Runs, NoteInv, NoteTypes
    <2>2. CASE EndPass(c)
      <3> DEFINE r == repair[c]
      <3>1. /\ r # NoPass /\ r.todo \cap LiveNotes = {} /\ r.baseline = {}
            /\ Flush(c, owed \ r.batch, LiveNotes')
        BY <1>2, <2>2 DEF EndPass, AllRead
      <3>2. /\ plan[c].op \in {"remove", "removeDir", "recover"}
            /\ plan[c].op = "remove" => seen[c] = {}
            /\ \A s \in SoundNotes \cap r.batch :
                  \/ s \in r.todo \cup r.baseline
                  \/ Holds(c, s) /\ edges[s] = body[s] \cap LiveNotes
        BY <1>1, <3>1, Runner DEF Passing
      <3>3. SoundNotes \subseteq LiveNotes /\ owed \ r.batch \in SUBSET NoteIds
        BY DEF SoundNotes, NoteInv, NoteTypes
      <3>4. \A s \in owed \cap SoundNotes :
               s \in owed \ r.batch \/ edges[s] = body[s] \cap LiveNotes
        BY <3>1, <3>2, <3>3
      <3> QED
        BY <3>1, <3>2, <3>3, <3>4
    <2> QED
      BY <2>1, <2>2
  <1>4. Passing(c)' /\ phase'[c] \in {"running", "settled"} /\ owed' = due
    BY <1>1, <1>3, FlushStep
  <1>5. Linked'
    BY <1>1, <1>2 DEF NoteInv, Linked, SoundNotes
  <1>6. LinksFollow'
    <2>1. \A s \in LiveNotes \ (due \cup astray) : edges[s] = body[s] \cap LiveNotes
      BY <1>3 DEF NoteInv, LinksFollow, SoundNotes
    <2> QED
      BY <1>1, <1>2, <1>4, <2>1 DEF LinksFollow
  <1>7. \A d \in Calls : BothRun(c, d) => Undisturbed(d)
    BY <1>1, <1>2 DEF Undisturbed, SoundNotes, KnownSources, SourcesOf, BothRun
  <1> QED
    BY <1>1, <1>4, <1>5, <1>6, <1>7, RepairerKept DEF Kept, CallInv

\* A source is read, or the engine is asked for its graph.
LEMMA ReadStep ==
  ASSUME NoteInv, NEW c \in Calls, ReadSource(c) \/ AskGraph(c)
  PROVE  Kept(c) /\ CallInv(c)'
  <1> DEFINE r == repair[c]
             q == repair'[c]
             g == [links |-> body, places |-> where]
  <1>1. /\ phase[c] = "running" /\ r # NoPass
        /\ UNCHANGED <<queue, ticket, phase, plan, where, dirs, seen, body, edges, owed,
                       astray>>
    BY DEF ReadSource, AskGraph, places, coordinatorVars
  <1>2. \/ \E s \in r.todo \cap LiveNotes : q = [r EXCEPT !.read = <<s, body[s]>>]
        \/ q = [r EXCEPT !.graph = g]
    BY DEF ReadSource, AskGraph, NoteInv, NoteTypes
  <1>3. r \in Passes /\ g.links = body /\ g.places = where
    BY <1>1 DEF NoteInv, NoteTypes
  <1>4. /\ q.index = r.index /\ q.batch = r.batch /\ q.todo = r.todo /\ q.baseline = r.baseline
        /\ q.read = r.read \/ \E s : q.read = <<s, body[s]>>
        /\ q.graph = r.graph \/ q.graph = g
    <2> HIDE DEF r, g, q
    <2> QED
      BY <1>2, <1>3 DEF Passes
  <1>5. Kept(c)
    BY <1>1, NothingPatched
  <1>6. Passing(c)'
    <2>1. HeldClaim(c)' = HeldClaim(c) /\ LiveNotes' = LiveNotes /\ SoundNotes' = SoundNotes
      BY <1>1 DEF HeldClaim, SoundNotes, LiveNotes, NotesIn
    <2>2. Passing(c)
      BY <1>1, Runner
    <2> HIDE DEF g
    <2> QED
      BY <1>1, <1>3, <1>4, <2>1, <2>2 DEF Passing, Holds
  <1> QED
    BY <1>1, <1>5, <1>6, RepairerKept DEF CallInv

\* What a repair does to the edges.  Every source that it leaves sound either
\* was, with the same edges, or is held and now has its links for edges; only
\* under a claim of everything does one become sound again.
Repairs(c) ==
    LET r == repair[c]
        q == repair'[c] IN
    /\ phase[c] = "running" /\ r # NoPass
    /\ UNCHANGED <<queue, ticket, phase, plan, where, dirs, seen, body, owed>>
    /\ q.index = r.index /\ q.batch = r.batch
    /\ q.read \in {Unseen, r.read} /\ q.graph \in {Unseen, r.graph}
    /\ \A s \in NoteIds \ LiveNotes : edges'[s] = {}
    /\ \A s \in LiveNotes \ astray' :
          \/ /\ s \notin astray /\ edges'[s] = edges[s]
             /\ s \in r.todo \cup r.baseline => s \in q.todo \cup q.baseline
          \/ Holds(c, s) /\ edges'[s] = body[s] \cap LiveNotes
    /\ HeldClaim(c).global \/ astray \subseteq astray'

\* Such a step keeps the edges of all in order, and disturbs nobody.
LEMMA RepairStep ==
  ASSUME NoteInv, NEW c \in Calls, Repairs(c)
  PROVE  Kept(c) /\ CallInv(c)'
  <1> DEFINE r == repair[c]
             q == repair'[c]
             h == HeldClaim(c)
  <1>1. /\ phase[c] = "running" /\ r # NoPass
        /\ UNCHANGED <<queue, ticket, phase, plan, where, dirs, seen, body, owed>>
        /\ q.index = r.index /\ q.batch = r.batch
        /\ q.read \in {Unseen, r.read} /\ q.graph \in {Unseen, r.graph}
        /\ \A s \in NoteIds \ LiveNotes : edges'[s] = {}
        /\ \A s \in LiveNotes \ astray' :
              \/ /\ s \notin astray /\ edges'[s] = edges[s]
                 /\ s \in r.todo \cup r.baseline => s \in q.todo \cup q.baseline
              \/ Holds(c, s) /\ edges'[s] = body[s] \cap LiveNotes
        /\ h.global \/ astray \subseteq astray'
    BY DEF Repairs
  <1>2. Covered(c) /\ Looked(c) /\ Passing(c)
    BY <1>1, Runner
  <1>3. /\ \A s \in SoundNotes : edges[s] \cap LiveNotes = body[s] \cap LiveNotes
        /\ \A s \in LiveNotes \ (owed \cup astray) : edges[s] = body[s] \cap LiveNotes
    BY DEF NoteInv, Linked, LinksFollow
  <1>4. /\ h' = h /\ LiveNotes' = LiveNotes /\ LiveNotes \subseteq NoteIds
        /\ SoundNotes' = LiveNotes \ astray' /\ SoundNotes = LiveNotes \ astray
        /\ \A s : Holds(c, s)' <=> Holds(c, s)
    BY <1>1 DEF HeldClaim, SoundNotes, LiveNotes, NotesIn, Holds
  <1> HIDE DEF r, q, h
  <1>5. Linked'
    <2>1. \A s \in SoundNotes' : edges'[s] \cap LiveNotes = body[s] \cap LiveNotes
      BY <1>1, <1>3, <1>4
    <2> QED
      BY <1>1, <1>4, <2>1 DEF Linked
  <1>6. LinksFollow'
    <2>1. \A s \in LiveNotes \ (owed \cup astray') : edges'[s] = body[s] \cap LiveNotes
      BY <1>1, <1>3
    <2> QED
      BY <1>1, <1>4, <2>1 DEF LinksFollow
  <1>7. ASSUME ~h.global, NEW t
        PROVE  KnownSources(t)' \subseteq KnownSources(t)
    <2> SUFFICES ASSUME NEW s \in NoteIds \ astray', t \in edges'[s]
                 PROVE  t \in edges[s] /\ s \notin astray
      BY DEF KnownSources, SourcesOf
    <2>1. s \in LiveNotes \ astray' /\ s \notin astray
      BY <1>1, <1>7
    <2>2. edges'[s] = edges[s] \/ edges'[s] = edges[s] \cap LiveNotes
      BY <1>1, <1>3, <1>4, <2>1
    <2> QED
      BY <2>1, <2>2
  <1>8. ASSUME NEW d \in Calls, BothRun(c, d)
        PROVE  Undisturbed(d)
    <2>1. ~h.global /\ h.noteIds \cap HeldClaim(d).noteIds = {} /\ plan'[d] = plan[d]
      BY <1>8, RunnersApart DEF NoteInv, BothRun, h
    <2>2. KnownSources(plan[d].note)' \subseteq KnownSources(plan[d].note)
      BY <1>7, <2>1
    <2>3. SoundNotes' \subseteq SoundNotes
      BY <1>1, <1>4, <2>1
    <2>4. \A s \in SoundNotes' : s \in HeldClaim(d).noteIds => edges'[s] = edges[s]
      BY <1>1, <1>4, <2>1 DEF Holds, h
    <2> QED
      BY <1>1, <1>4, <2>2, <2>3, <2>4 DEF Undisturbed
  <1>9. Covered(c)'
    <2>1. CASE h.global
      BY <1>4, <2>1 DEF Covered, h
    <2>2. CASE ~h.global
      <3>1. \A s : HoldsNote(h, s)' <=> HoldsNote(h, s)
        BY <1>1, <1>4 DEF HoldsNote, PathCovered
      <3>2. KnownSources(plan[c].note)' \subseteq KnownSources(plan[c].note)
        <4>1. plan'[c].note = plan[c].note
          BY <1>1
        <4> QED
          BY <1>7, <2>2, <4>1
      <3>3. CoversRemoval(h, plan[c].note) => CoversRemoval(h, plan[c].note)'
        BY <1>1, <1>4, <3>1, <3>2 DEF CoversRemoval
      <3> QED
        BY <1>1, <1>2, <1>4, <2>2, <3>1, <3>3 DEF Covered, h, AboutANote
    <2> QED
      BY <2>1, <2>2
  <1>10. Looked(c)'
    <2>1. CASE plan[c].op # "remove"
      BY <1>1, <1>2, <2>1 DEF Looked, At, NotesUnder, LiveNotes, NotesIn
    <2>2. CASE plan[c].op = "remove"
      <3>1. seen[c] = {}
        BY <1>1, <1>2, <2>2 DEF Passing, r
      <3> QED
        BY <1>1, <1>2, <2>2, <3>1 DEF Looked, SawRemoval, AboutANote
    <2> QED
      BY <2>1, <2>2
  <1>11. Passing(c)'
    <2>1. /\ plan[c].op \in {"remove", "removeDir", "recover"}
          /\ plan[c].op = "remove" => seen[c] = {}
          /\ LiveNotes \subseteq r.index
          /\ h.global => r.index \subseteq LiveNotes
          /\ \A s \in SoundNotes : Holds(c, s) => body[s] \cap r.index \subseteq LiveNotes
          /\ \A s \in SoundNotes \cap r.batch :
                \/ s \in r.todo \cup r.baseline
                \/ Holds(c, s) /\ edges[s] = body[s] \cap LiveNotes
          /\ r.read # Unseen /\ Holds(c, r.read[1]) => r.read[2] = body[r.read[1]]
          /\ r.graph # Unseen /\ h.global => r.graph.links = body /\ r.graph.places = where
      BY <1>1, <1>2 DEF Passing, r, h
    <2>2. \A s \in SoundNotes' : Holds(c, s) => body[s] \cap r.index \subseteq LiveNotes
      BY <1>1, <1>4, <2>1
    <2>3. \A s \in SoundNotes' \cap r.batch :
             \/ s \in q.todo \cup q.baseline
             \/ Holds(c, s) /\ edges'[s] = body[s] \cap LiveNotes
      BY <1>1, <1>4, <2>1
    <2>4. /\ q.read # Unseen /\ Holds(c, q.read[1]) => q.read[2] = body[q.read[1]]
          /\ q.graph # Unseen /\ h.global => q.graph.links = body /\ q.graph.places = where
      BY <1>1, <2>1
    <2> QED
      BY <1>1, <1>4, <2>1, <2>2, <2>3, <2>4 DEF Passing, q, h
  <1> QED
    BY <1>1, <1>5, <1>6, <1>8, <1>9, <1>10, <1>11 DEF Kept, CallInv

\* A source is patched: if its call holds it, its edges become its links; or
\* its read failed, and it goes astray with no edges.
LEMMA PatchStep ==
  ASSUME NoteInv, NEW c \in Calls, PatchSource(c) \/ FailSource(c)
  PROVE  Repairs(c)
  <1> DEFINE r == repair[c]
             q == repair'[c]
             s == r.read[1]
             h == HeldClaim(c)
  <1>1. /\ phase[c] = "running" /\ r # NoPass /\ r.read # Unseen
        /\ UNCHANGED <<queue, ticket, phase, plan, where, dirs, seen, body, owed>>
    BY DEF PatchSource, FailSource, places, coordinatorVars
  <1>2. r \in Passes /\ s \in NoteIds
    <2>1. r \in Passes
      BY <1>1 DEF NoteInv, NoteTypes
    <2> QED
      BY <1>1, <2>1 DEF Passes
  <1>3. /\ q.index = r.index /\ q.batch = r.batch /\ q.todo = r.todo \ {s}
        /\ q.read = Unseen /\ q.graph = r.graph
        /\ r.baseline \subseteq q.baseline
    <2>1. \/ q = [r EXCEPT !.todo = @ \ {s}, !.read = Unseen]
          \/ q = [r EXCEPT !.todo = @ \ {s}, !.read = Unseen, !.baseline = @ \cup {s}]
      BY DEF PatchSource, FailSource, NoteInv, NoteTypes
    <2> HIDE DEF r, q, s
    <2> QED
      BY <1>2, <2>1 DEF Passes
  <1>4. /\ \A n \in NoteIds \ LiveNotes : edges[n] = {}
        /\ edges \in [NoteIds -> SUBSET NoteIds]
    BY DEF NoteInv, NoteTypes, Linked
  <1>5. /\ \A n \in NoteIds : n # s => edges'[n] = edges[n]
        /\ s \notin LiveNotes => edges'[s] = {}
        /\ \A n : n # s => (n \in astray' <=> n \in astray)
        /\ h.global \/ astray \subseteq astray'
    BY <1>2, <1>4 DEF PatchSource, FailSource
  <1>6. ASSUME s \in LiveNotes \ astray'
        PROVE  Holds(c, s) /\ edges'[s] = body[s] \cap LiveNotes
    <2>1. /\ PatchSource(c) /\ Holds(c, s)
          /\ h.global \/ s \notin astray
          /\ edges'[s] = r.read[2] \cap r.index
      BY <1>2, <1>4, <1>6 DEF PatchSource, FailSource, Holds
    <2>2. /\ LiveNotes \subseteq r.index /\ r.read[2] = body[s]
          /\ h.global => r.index \subseteq LiveNotes
          /\ s \notin astray => body[s] \cap r.index \subseteq LiveNotes
      BY <1>1, <1>6, <2>1, Runner DEF Passing, SoundNotes
    <2> HIDE DEF r, s, h
    <2> QED
      BY <2>1, <2>2
  <1> HIDE DEF s
  <1>7. LiveNotes \subseteq NoteIds
    BY DEF LiveNotes, NotesIn
  <1> QED
    BY <1>1, <1>3, <1>4, <1>5, <1>6, <1>7 DEF Repairs

\* The sources that failed come back from the graph of the engine: under a
\* claim of everything with their links, otherwise astray.
LEMMA AdoptStep ==
  ASSUME NoteInv, NEW c \in Calls, AdoptGraph(c)
  PROVE  Repairs(c)
  <1> DEFINE r == repair[c]
             q == repair'[c]
             h == HeldClaim(c)
             known == Recognized(r.graph)
  <1>1. /\ phase[c] = "running" /\ r # NoPass /\ r.graph # Unseen
        /\ edges' = [s \in NoteIds |->
              IF s \notin r.baseline THEN edges[s]
              ELSE IF s \in known THEN r.graph.links[s] \cap known ELSE {}]
        /\ astray' = IF h.global THEN astray \ r.baseline ELSE astray \cup r.baseline
        /\ UNCHANGED <<queue, ticket, phase, plan, where, dirs, seen, body, owed>>
    BY DEF AdoptGraph, places, coordinatorVars
  <1>2. /\ q.index = r.index /\ q.batch = r.batch /\ q.todo = r.todo
        /\ q.read = r.read /\ q.graph = Unseen
    <2>1. r \in Passes
      BY <1>1 DEF NoteInv, NoteTypes
    <2>2. q = [r EXCEPT !.baseline = {}, !.graph = Unseen]
      BY DEF AdoptGraph, NoteInv, NoteTypes
    <2> HIDE DEF r, q
    <2> QED
      BY <2>1, <2>2 DEF Passes
  <1>3. /\ known \subseteq LiveNotes /\ LiveNotes \subseteq NoteIds
        /\ \A n \in NoteIds \ LiveNotes : edges[n] = {}
    BY DEF Recognized, LiveNotes, NotesIn, NoteInv, Linked
  <1>4. ASSUME h.global
        PROVE  known = LiveNotes /\ r.graph.links = body /\ \A n : Holds(c, n)
    BY <1>1, <1>4, Runner DEF Passing, Recognized, Holds
  <1> HIDE DEF r, q, h, known
  <1>5. \A s \in NoteIds \ LiveNotes : edges'[s] = {}
    BY <1>1, <1>3
  <1>6. \A s \in LiveNotes \ astray' :
           \/ /\ s \notin astray /\ edges'[s] = edges[s]
              /\ s \in r.todo \cup r.baseline => s \in q.todo \cup q.baseline
           \/ Holds(c, s) /\ edges'[s] = body[s] \cap LiveNotes
    <2> SUFFICES ASSUME NEW s \in LiveNotes \ astray'
                 PROVE  \/ /\ s \notin astray /\ edges'[s] = edges[s]
                           /\ s \in r.todo \cup r.baseline => s \in q.todo \cup q.baseline
                        \/ Holds(c, s) /\ edges'[s] = body[s] \cap LiveNotes
      OBVIOUS
    <2>1. CASE s \in r.baseline
      <3>1. h.global
        BY <1>1, <2>1
      <3> QED
        BY <1>1, <1>3, <1>4, <2>1, <3>1
    <2>2. CASE s \notin r.baseline
      BY <1>1, <1>2, <1>3, <2>2
    <2> QED
      BY <2>1, <2>2
  <1> QED
    BY <1>1, <1>2, <1>5, <1>6 DEF Repairs, r, q, h

-----------------------------------------------------------------------------
(* The invariant is inductive.                                             *)

\* A callback that returns or throws, and what follows it, holds nothing that
\* it found.
LEMMA UnwindStep ==
  ASSUME NoteInv, NEW c \in Calls, Unwind(c)
  PROVE  CallInv(c)'
  <1>1. c \notin Children
    BY PlansAssumption
  <1>2. phase \in [Scopes -> {"idle", "queued", "running", "settled", "joining", "done", "failed"}]
    BY DEF NoteInv, IInv, FieldTypes
  <1>3. phase'[c] \in {"settled", "joining", "done"}
    BY <1>1, <1>2 DEF Unwind, ScopeSteps, SettleTask, Deactivate, SettleChild, Finish, Scopes
  <1> QED
    BY <1>3 DEF CallInv

\* A step patches the snapshot from a callback that runs, or leaves it alone.
LEMMA StepOfOne ==
  ASSUME NoteInv, NoteTypes', NEW c \in Calls,
         \/ Call(c) \/ Rederive(c) \/ CallbackSteps(c) \/ Unwind(c)
  PROVE  /\ CallInv(c)' /\ Linked' /\ LinksFollow'
         /\ \/ UNCHANGED <<where, dirs, body, edges, astray>>
            \/ phase[c] = "running" /\ \A d \in Calls : BothRun(c, d) => Undisturbed(d)
  <1>1. CASE Call(c) \/ Rederive(c) \/ Look(c) \/ Unwind(c)
    <2>1. UNCHANGED <<where, dirs, body, edges, owed, astray>>
      BY <1>1 DEF Call, Rederive, Look, Unwind, places, links
    <2>2. Linked' /\ LinksFollow'
      BY <2>1 DEF NoteInv, Linked, LinksFollow, SoundNotes, LiveNotes, NotesIn
    <2>3. CallInv(c)'
      BY <1>1, EnterStep, LookStep, UnwindStep
    <2> QED
      BY <2>1, <2>2, <2>3
  <1>2. CASE Apply(c) \/ Removal(c) \/ Repair(c)
    <2>1. Kept(c) /\ CallInv(c)'
      BY <1>2, ApplyStep, RemoveStep, RemoveVictimStep, PassStep, ReadStep, PatchStep,
         AdoptStep, RepairStep
      DEF Removal, Repair
    <2>2. phase[c] = "running"
      BY <1>2, CallbackPhases DEF CallbackSteps, NoteInv, IInv
    <2> QED
      BY <2>1, <2>2 DEF Kept
  <1> QED
    BY <1>1, <1>2 DEF CallbackSteps

\* Every step keeps the invariant: the call that steps by StepOfOne, any
\* other because its claim keeps the step away from what it relies on.
LEMMA NoteInvInductive == NoteInv /\ [NoteNext]_noteVars => NoteInv'
  <1> SUFFICES ASSUME NoteInv, [NoteNext]_noteVars
               PROVE  NoteInv'
    OBVIOUS
  <1>1. IInv'
    BY StepsCoordinated, ClaimInductive DEF NoteInv
  <1>2. NoteTypes'
    BY TypesInductive DEF NoteInv
  <1>3. CASE UNCHANGED noteVars
    <2>1. UNCHANGED <<queue, ticket, phase, plan, where, dirs, body, edges, seen, owed, repair,
                      astray>>
      BY <1>3 DEF noteVars, coordinatorVars, places, links
    <2>2. Linked' /\ LinksFollow'
      BY <2>1 DEF NoteInv, Linked, LinksFollow, SoundNotes, LiveNotes, NotesIn
    <2>3. ASSUME NEW d \in Calls
          PROVE  CallInv(d)'
      <3>1. /\ seen'[d] = seen[d] /\ repair'[d] = repair[d] /\ HeldClaim(d)' = HeldClaim(d)
            /\ phase'[d] = phase[d]
        BY <2>1 DEF HeldClaim
      <3> QED
        BY <2>1, <3>1, SnapshotKept DEF NoteInv, CallInv, Fresh
    <2> QED
      BY <1>1, <1>2, <2>2, <2>3 DEF NoteInv
  <1>4. ASSUME NEW c \in Calls,
               \/ Call(c) \/ Rederive(c) \/ CallbackSteps(c) \/ Unwind(c)
        PROVE  NoteInv'
    <2>1. /\ CallInv(c)' /\ Linked' /\ LinksFollow'
          /\ \/ UNCHANGED <<where, dirs, body, edges, astray>>
             \/ phase[c] = "running" /\ \A d \in Calls : BothRun(c, d) => Undisturbed(d)
      BY <1>2, <1>4, StepOfOne
    <2>2. ASSUME NEW d \in Calls, d # c
          PROVE  CallInv(d)'
      <3>1. /\ phase'[d] = phase[d] /\ seen'[d] = seen[d] /\ repair'[d] = repair[d]
            /\ plan' = plan
            /\ phase[d] = "running" => HeldClaim(d)' = HeldClaim(d)
        BY <1>4, <2>2, OthersStay DEF NoteInv
      <3>2. CallInv(d)
        BY DEF NoteInv
      <3>3. phase'[d] \in {"idle", "queued"} => Fresh(d)'
        BY <3>1, <3>2 DEF CallInv, Fresh
      <3>4. ASSUME phase[d] = "running"
            PROVE  Covered(d)' /\ Looked(d)' /\ Passing(d)'
        <4>1. CASE UNCHANGED <<where, dirs, body, edges, astray>>
          BY <3>1, <3>2, <3>4, <4>1, SnapshotKept DEF CallInv
        <4>2. CASE phase[c] = "running" /\ \A e \in Calls : BothRun(c, e) => Undisturbed(e)
          <5>1. BothRun(c, d)
            BY <2>2, <3>1, <3>4, <4>2 DEF BothRun
          <5> QED
            BY <1>2, <4>2, <5>1, UndisturbedKeeps
        <4> QED
          BY <2>1, <4>1, <4>2
      <3> QED
        BY <3>1, <3>3, <3>4 DEF CallInv
    <2> QED
      BY <1>1, <1>2, <2>1, <2>2 DEF NoteInv
  <1> QED
    BY <1>3, <1>4 DEF NoteNext, CallbackSteps

\* At the start every edge is known and nobody runs.
LEMMA NoteInvInit == NoteInit => NoteInv
  <1> SUFFICES ASSUME NoteInit
               PROVE  NoteInv
    OBVIOUS
  <1>1. IInv /\ \A c \in Calls : phase[c] = "idle"
    BY InvInit DEF NoteInit, Init, Scopes
  <1>2. NoteTypes
    BY SnapshotAssumption DEF NoteInit, NoteTypes, LiveNotes, NotesIn
  <1>3. Linked /\ LinksFollow
    BY SnapshotAssumption DEF NoteInit, Linked, LinksFollow, SoundNotes, LiveNotes, NotesIn
  <1>4. \A c \in Calls : CallInv(c)
    BY <1>1 DEF NoteInit, CallInv, Fresh
  <1> QED
    BY <1>1, <1>2, <1>3, <1>4 DEF NoteInv

\* The invariant holds in every state.
LEMMA NoteInvHolds == NoteSpec => []NoteInv
  BY NoteInvInit, NoteInvInductive, PTL DEF NoteSpec

-----------------------------------------------------------------------------
(* What follows from it.                                                   *)

\* A call that relies on what it looked up would look the same up now.
LEMMA LookedIsLookedUp ==
  ASSUME NoteTypes, NEW c \in Calls, Looked(c), seen[c] # Unseen, plan[c].op # "remove"
  PROVE  seen[c] = LookedUp(plan[c])
  BY LookedUpNotes DEF Looked, AboutANote

\* And one that removes a note found all its sources that did not go astray.
LEMMA LookedForRemoval ==
  ASSUME NoteTypes, NEW c \in Calls, Looked(c), seen[c] # Unseen, plan[c].op = "remove"
  PROVE  IF plan[c].note \in LiveNotes
         THEN At({plan[c].note} \cup KnownSources(plan[c].note)) \subseteq seen[c]
         ELSE seen[c] = {}
  <1> DEFINE t == plan[c].note
  <1>1. SawRemoval(t, seen[c]) /\ t \in NoteIds
    BY PlanFields DEF Looked, AboutANote
  <1>2. t \in LiveNotes <=> where[t] # NoPath
    BY <1>1 DEF LiveNotes, NotesIn
  <1> QED
    BY <1>1, <1>2 DEF SawRemoval, At

\* The types, with those of the coordinator.
LEMMA NoteInvType == NoteInv => NoteTypeOK
  <1> SUFFICES ASSUME NoteInv
               PROVE  NoteTypeOK
    OBVIOUS
  <1>1. plan \in [Calls -> Plans]
    BY PlansAssumption DEF NoteInv, NoteTypes
  <1>2. \A c \in Calls : repair[c] = NoPass \/ repair[c] \in Passes
    BY DEF NoteInv, NoteTypes
  <1>3. \A c \in Calls : seen[c] \in {Unseen} \cup SUBSET (NoteIds \X Paths)
    BY DEF NoteInv, NoteTypes
  <1> QED
    BY <1>1, <1>2, <1>3, InvType DEF NoteInv, NoteTypes, NoteTypeOK

\* What a call found and claimed is what it would find and claim now.
LEMMA NoteInvPremise == NoteInv => PremiseHolds
  <1> SUFFICES ASSUME NoteInv, NEW c \in Calls, phase[c] = "running"
               PROVE  LET p == plan[c] IN
                      IF p.op = "remove"
                      THEN /\ ClaimCovers(HeldClaim(c), RemovalClaim(p.note, KnownSources(p.note)))
                           /\ seen[c] # Unseen =>
                                 IF p.note \in LiveNotes
                                 THEN At({p.note} \cup KnownSources(p.note)) \subseteq seen[c]
                                 ELSE seen[c] = {}
                      ELSE /\ ClaimCovers(HeldClaim(c), Derive(p))
                           /\ seen[c] # Unseen => seen[c] = LookedUp(p)
    BY DEF PremiseHolds
  <1>1. NoteTypes /\ Covered(c) /\ Looked(c)
    BY Runner DEF NoteInv
  <1>2. ClaimCovers(HeldClaim(c), Owes(plan[c]))
    BY <1>1, CoveredCovers
  <1>3. CASE plan[c].op = "remove"
    BY <1>1, <1>2, <1>3, LookedForRemoval DEF Owes
  <1>4. CASE plan[c].op # "remove"
    BY <1>1, <1>2, <1>4, LookedIsLookedUp DEF Owes
  <1> QED
    BY <1>3, <1>4

-----------------------------------------------------------------------------
(* The theorems.                                                           *)

\* The types of the snapshot and of what the callbacks hold
\* (writeEngine.ts, cachedStore.ts, directoryIndex.ts).
THEOREM NoteTypesCorrect == NoteSpec => []NoteTypeOK
  BY NoteInvHolds, NoteInvType, PTL

\* What write, mutateTags, move, remove and removeDir looked up under their
\* claims is still so at their effects, and their claims still cover what they
\* would claim then, whatever runs, fails and is repaired beside them; of the
\* sources of a note to be removed this is said of those that did not go astray
\* (writeEngine.ts, runStable and removalClaim).
THEOREM PremisesHold == NoteSpec => []PremiseHolds
  BY NoteInvHolds, NoteInvPremise, PTL

\* The edges of a live note that is not owed a repair, and that no failed read
\* or unclaimed patch has led astray, are the live notes that its file links to
\* (cachedStore.ts, rederiveSourceEdges; writeEngine.ts, applyWrite).
THEOREM EdgesFollowLinks == NoteSpec => []LinksFollow
  <1>1. NoteInv => LinksFollow
    BY DEF NoteInv
  <1> QED
    BY <1>1, NoteInvHolds, PTL

\* What the coordinator promises, it keeps for these callers, although what
\* they claim follows the notes: their work stays under their leases ...
THEOREM MutationsStayFenced == NoteSpec => [](WorkIsFenced /\ NoLeakedLease)
  <1>1. NoteInv => WorkIsFenced /\ NoLeakedLease
    BY InvFenced, InvNoLeak DEF NoteInv
  <1> QED
    BY <1>1, NoteInvHolds, PTL

\* ... and they get them when the drain scheduler would grant them.
THEOREM MutationsAreDrained == NoteSpec => QP!MatchesDrainScheduler
  <1>1. NoteInv /\ [NoteNext]_noteVars => [QP!Next]_queue
    BY StepsCoordinated, StepUsesQueue DEF NoteInv
  <1>2. NoteInit => QP!Init
    BY QueueInit DEF NoteInit
  <1>3. NoteSpec => QP!Spec
    BY <1>1, <1>2, NoteInvHolds, PTL DEF NoteSpec, QP!Spec
  <1> QED
    BY <1>3, PathsAssumption, QueueConstants, QP!ImplementsDrainScheduler, PTL

=============================================================================
