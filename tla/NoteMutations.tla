--------------------------- MODULE NoteMutations ---------------------------
(***************************************************************************)
(* The callers whose claims depend on where notes lie and which notes link *)
(* to which, on top of MutationCoordinator: WriteEngine's write, mutateTags*)
(* move (of a note, of a folder), remove and removeDir, and CachedStore's  *)
(* recoverGraphContextForSurface.  Each derives its claim from the         *)
(* snapshot, waits, and then works in several asynchronous steps from what *)
(* it looked up under the claim.                                           *)
(*                                                                         *)
(* The snapshot is where[n], the path the registry binds to note n; dirs,  *)
(* the folders the DirectoryIndex knows; and edges[n], the live notes that *)
(* n is known to link to, next to body[n], what its file says.  Notes are  *)
(* of a class the graph shows, and a link names its target itself, so that *)
(* moves do not redirect it.  The storage engine is external: a physical   *)
(* effect either happens, with the snapshot patch that follows it, or      *)
(* throws.  The trash coordinator around remove and removeDir is in        *)
(* StoreLocks.                                                             *)
(***************************************************************************)
EXTENDS MutationCoordinator

CONSTANTS
    Scenarios,  \* what the calls of one behaviour are made for, per call
    WhereAtStart,
    DirsAtStart,
    BodyAtStart,
    NoPath,     \* of a note that is gone
    Unseen,     \* nothing looked up yet
    NoPass      \* no repair of edges under way

VARIABLES
    plan,       \* per call: its operation and arguments
    where,      \* per note: its path, or NoPath
    dirs,       \* the known folders
    body,       \* per note: the notes its file links to
    edges,      \* per note: edgesBySource, without ghosts
    seen,       \* per call: what its callback looked up, or Unseen
    owed,       \* bulkGraphContextSources, the sources whose edges are due
    repair,     \* per call: its pass of rederiveSourceEdges, or NoPass
    astray      \* sources whose edges the claims of others may have missed

coordinatorVars == <<queue, ticket, phase, parent>>
places == <<where, dirs>>
links == <<body, edges, owed, repair, astray>>
noteVars == <<coordinatorVars, plan, places, seen, links>>

Plans ==
    [ op : {"tags", "remove"}, note : NoteIds ]
      \cup [ op : {"write"}, note : NoteIds, links : SUBSET NoteIds ]
      \cup [ op : {"move"}, note : NoteIds, to : Paths ]
      \cup [ op : {"moveFolder"}, from : Paths, to : Paths ]
      \cup [ op : {"removeDir"}, from : Paths ]
      \cup [ op : {"recover"} ]

AboutANote == {"tags", "write", "move", "remove"}

-----------------------------------------------------------------------------
(* Paths.                                                                  *)

DirectoryOf(path) == SubSeq(path, 1, Len(path) - 1)

\* Mutant: the old prefix is not cut off.
RebasedWhole(path, src, dest) == dest \o path

\* dest + path.slice(src.length)
Rebased(path, src, dest) == dest \o SubSeq(path, Len(src) + 1, Len(path))

\* DirectoryIndex.add: the directory and its ancestors.
WithDirectory(index, dir) == index \cup PathAncestors(dir)

\* DirectoryIndex.moveSubtree, removeSubtree.
MovedSubtree(index, src, dest) ==
    LET moved == { d \in index : IsUnder(d, src) } IN
    (index \ moved) \cup PathAncestors(dest)
       \cup UNION { PathAncestors(Rebased(d, src, dest)) : d \in moved }

WithoutSubtree(index, dir) == { d \in index : ~IsUnder(d, dir) }

\* linkTargetPrefix, linkTargetPath: no folder of notes has this name.
LinkTarget(target) == << "graph-target", target >>
LinkTargetPath(target, source) == << "graph-target", target, source >>

\* Every path that a call of a scenario may name or make is one of Paths.
PathsSuffice(p) ==
    /\ p.op = "write" => \A t \in p.links : LinkTargetPath(t, p.note) \in Paths
    /\ p.op = "remove" => LinkTarget(p.note) \in Paths
    /\ p.op = "moveFolder" =>
          \A path \in Paths :
             IsUnder(path, p.from) => p.to \o SubSeq(path, Len(p.from) + 1, Len(path)) \in Paths

ASSUME PlansAssumption ==
    /\ Scenarios \subseteq [Calls -> Plans]
    /\ MethodOf = [c \in Calls |-> "runStable"]
    /\ Children = {}
    /\ \A scenario \in Scenarios, c \in Calls : PathsSuffice(scenario[c])

\* The snapshot read at the start: a note without a path has no body either.
ASSUME SnapshotAssumption ==
    /\ NoPath \notin Paths
    /\ Unseen # {}
    /\ \A path \in Paths : PathAncestors(path) \subseteq Paths
    /\ WhereAtStart \in [NoteIds -> Paths \cup {NoPath}]
    /\ DirsAtStart \subseteq Paths
    /\ BodyAtStart \in [NoteIds -> SUBSET NoteIds]
    /\ \A n \in NoteIds : WhereAtStart[n] = NoPath => BodyAtStart[n] = {}

NotesIn(place) == { n \in NoteIds : place[n] # NoPath }
LiveNotes == NotesIn(where)

NotesUnder(dir) == { n \in LiveNotes : IsUnder(where[n], dir) }

-----------------------------------------------------------------------------
(* Claims derived from the snapshot.                                       *)

GlobalClaim == [EmptyClaim EXCEPT !.global = TRUE]

\* Notes that are gone have no path to claim.
NotesClaim(notes, paths) ==
    [EmptyClaim EXCEPT !.noteIds = notes,
                       !.paths = ({ where[n] : n \in notes } \ {NoPath}) \cup paths]

\* Mutant: a write does not claim the notes it links to.
WriteClaimAlone(p) == NotesClaim({p.note}, {})

\* writeClaim, of a note that keeps its place.
WriteClaim(p) ==
    NotesClaim({p.note}, { LinkTargetPath(t, p.note) : t \in p.links \cap LiveNotes })

\* sourceIdsTargeting
SourcesOf(target) == { s \in NoteIds : target \in edges[s] }

\* removalClaim
RemovalClaim(target, sources) ==
    [NotesClaim({target} \cup sources, {}) EXCEPT !.prefixes = {LinkTarget(target)}]

\* A move that creates its folder changes how names resolve everywhere.
MoveClaim(n, to) ==
    IF DirectoryOf(to) # <<>> /\ DirectoryOf(to) \notin dirs THEN GlobalClaim
    ELSE NotesClaim({n}, {to})

Derive(p) ==
    CASE p.op = "tags" -> NotesClaim({p.note}, {})
      [] p.op = "write" -> WriteClaim(p)
      [] p.op = "move" -> MoveClaim(p.note, p.to)
      [] p.op = "remove" -> RemovalClaim(p.note, SourcesOf(p.note))
      [] OTHER -> GlobalClaim

-----------------------------------------------------------------------------

NoteInit ==
    /\ Init
    /\ plan \in Scenarios
    /\ where = WhereAtStart
    /\ dirs = DirsAtStart
    /\ body = BodyAtStart
    /\ edges = [n \in NoteIds |-> body[n] \cap LiveNotes]
    /\ seen = [c \in Calls |-> Unseen]
    /\ owed = {}
    /\ repair = [c \in Calls |-> NoPass]
    /\ astray = {}

Call(c) == Start(c, Derive(plan[c])) /\ UNCHANGED <<plan, places, seen, links>>

Rederive(c) == ResumeStable(c, Derive(plan[c])) /\ UNCHANGED <<plan, places, seen, links>>

At(notes) == { <<n, where[n]>> : n \in notes }

\* The notes a callback reads first, with the paths it finds them at: its
\* note, with the notes that link to it when it is to be removed; or the
\* `victims` under its folder.
LookedUp(p) ==
    IF p.op \in AboutANote /\ p.note \notin LiveNotes THEN {}
    ELSE CASE p.op = "remove" -> At({p.note} \cup SourcesOf(p.note))
           [] p.op \in AboutANote \ {"remove"} -> At({p.note})
           [] p.op = "removeDir" -> At(NotesUnder(p.from))
           [] OTHER -> {}

Runs(c, op) == phase[c] = "running" /\ plan[c].op = op

\* A callback looks its target up; a note that is gone makes it throw.
Look(c) ==
    /\ phase[c] = "running" /\ plan[c].op \in AboutANote \cup {"removeDir"}
    /\ seen[c] = Unseen
    /\ IF plan[c].op \in AboutANote /\ LookedUp(plan[c]) = {}
       THEN phase' = [phase EXCEPT ![c] = "settled"] /\ UNCHANGED seen
       ELSE seen' = [seen EXCEPT ![c] = LookedUp(plan[c])] /\ UNCHANGED phase
    /\ UNCHANGED <<queue, ticket, parent, plan, places, links>>

-----------------------------------------------------------------------------
(* Operations with one effect.                                             *)

\* A pass of another call over this source has not ended.
InAnotherPass(c, s) == \E d \in Calls \ {c} : repair[d] # NoPass /\ s \in repair[d].batch

\* mutateTags writes the file where it found it, which changes nothing here.
\* write: the file, then applyWrite, which resolves the links anew.
ApplyWrite(c) ==
    LET p == plan[c] IN
    /\ Runs(c, "write") /\ seen[c] # Unseen
    /\ body' = [body EXCEPT ![p.note] = p.links]
    /\ edges' = [edges EXCEPT ![p.note] = p.links \cap LiveNotes]
    /\ astray' = IF InAnotherPass(c, p.note) THEN astray ELSE astray \ {p.note}
    /\ UNCHANGED <<places, owed, repair>>

\* move takes the file from the path it looked up to a destination that the
\* engine refuses when it is occupied, and the callback then throws.
ApplyMove(c) ==
    LET p == plan[c] IN
    /\ Runs(c, "move") /\ seen[c] # Unseen
    /\ \A n \in NoteIds : where[n] # p.to
    /\ where' = [where EXCEPT ![p.note] = p.to]
    /\ dirs' = WithDirectory(dirs, DirectoryOf(p.to))
    /\ UNCHANGED links

\* moveFolderClaimed: the subtree's notes and folders are relocated.
ApplyMoveFolder(c) ==
    LET p == plan[c] IN
    /\ Runs(c, "moveFolder")
    /\ p.from \in dirs /\ p.to \notin dirs
    /\ where' = [n \in NoteIds |->
          IF n \in NotesUnder(p.from) THEN Rebased(where[n], p.from, p.to) ELSE where[n]]
    /\ dirs' = MovedSubtree(dirs, p.from, p.to)
    /\ UNCHANGED links

\* removeDir, its victims removed, erases the folder from storage, whatever
\* else lies there.
ApplyRemoveDir(c) ==
    LET p == plan[c] IN
    /\ Runs(c, "removeDir") /\ seen[c] = {} /\ repair[c] = NoPass
    /\ where' = [n \in NoteIds |-> IF n \in NotesUnder(p.from) THEN NoPath ELSE where[n]]
    /\ dirs' = WithoutSubtree(dirs, p.from)
    /\ UNCHANGED links

\* The physical effect and the snapshot patch that follows it.
Apply(c) ==
    /\ ApplyWrite(c) \/ ApplyMove(c) \/ ApplyMoveFolder(c) \/ ApplyRemoveDir(c)
    /\ phase' = [phase EXCEPT ![c] = "settled"]
    /\ UNCHANGED <<queue, ticket, parent, plan, seen>>

-----------------------------------------------------------------------------
(* Removals and the repair of the edges they leave behind.                 *)

\* The loop of flushGraphContextClaimed: `due` is all that is owed now, with
\* what other calls owe, and a pass over it resolves against the notes `live`
\* at its start.  With nothing due, removal and recovery are over, and
\* removeDir goes on.
Flush(c, due, live) ==
    /\ owed' = due
    /\ repair' = [repair EXCEPT ![c] =
          IF due = {} THEN NoPass
          ELSE [index |-> live, batch |-> due, todo |-> due \cap live, read |-> Unseen,
                baseline |-> {}, graph |-> Unseen]]
    /\ phase' = IF due = {} /\ plan[c].op # "removeDir"
                THEN [phase EXCEPT ![c] = "settled"] ELSE phase

\* removeClaimed, for the note of remove or a victim of removeDir: file,
\* tombstone, snapshot; then the captured sources are due.
RemoveOne(c, target, sources) ==
    /\ repair[c] = NoPass
    /\ where' = [where EXCEPT ![target] = NoPath]
    /\ edges' = [edges EXCEPT ![target] = {}]
    /\ Flush(c, owed \cup (sources \cap NotesIn(where')), NotesIn(where'))
    /\ UNCHANGED <<queue, ticket, parent, plan, dirs, body, astray>>

Remove(c) ==
    /\ Runs(c, "remove") /\ seen[c] \notin {Unseen, {}}
    /\ RemoveOne(c, plan[c].note, { pair[1] : pair \in seen[c] })
    /\ seen' = [seen EXCEPT ![c] = {}]

RemoveVictim(c) ==
    /\ Runs(c, "removeDir") /\ seen[c] # Unseen
    /\ \E victim \in seen[c] :
          /\ RemoveOne(c, victim[1], SourcesOf(victim[1]))
          /\ seen' = [seen EXCEPT ![c] = @ \ {victim}]

\* recoverGraphContextForSurface, before a view of the graph.
Recover(c) ==
    /\ Runs(c, "recover") /\ repair[c] = NoPass
    /\ Flush(c, owed, LiveNotes)
    /\ UNCHANGED <<queue, ticket, parent, plan, places, seen, body, edges, astray>>

\* rederiveSourceEdges reads the body of each source that is still there ...
ReadSource(c) ==
    /\ phase[c] = "running" /\ repair[c] # NoPass
    /\ repair[c].read = Unseen
    /\ \E s \in repair[c].todo \cap LiveNotes :
          repair' = [repair EXCEPT ![c].read = <<s, body[s]>>]
    /\ UNCHANGED <<coordinatorVars, plan, places, seen, body, edges, owed, astray>>

\* ... and patches its edges when the answer arrives (patchNoteEdges).  Under
\* a claim of everything nobody can have missed them; without any claim of
\* the source, others may.
PatchSource(c) ==
    /\ phase[c] = "running" /\ repair[c] # NoPass
    /\ repair[c].read # Unseen
    /\ LET s == repair[c].read[1] IN
       /\ edges' = [edges EXCEPT ![s] =
             IF s \in LiveNotes THEN repair[c].read[2] \cap repair[c].index ELSE {}]
       /\ repair' = [repair EXCEPT ![c].todo = @ \ {s}, ![c].read = Unseen]
       /\ astray' = IF HeldClaim(c).global THEN astray \ {s}
                    ELSE IF s \in HeldClaim(c).noteIds THEN astray
                    ELSE astray \cup {s}
    /\ UNCHANGED <<coordinatorVars, plan, places, seen, body, owed>>

\* A read that fails empties the edges of its source at once; they are to
\* come back with the engine's graph.
FailSource(c) ==
    /\ phase[c] = "running" /\ repair[c] # NoPass
    /\ repair[c].read # Unseen
    /\ LET s == repair[c].read[1] IN
       /\ edges' = [edges EXCEPT ![s] = {}]
       /\ repair' = [repair EXCEPT ![c].todo = @ \ {s}, ![c].read = Unseen,
                                   ![c].baseline = @ \cup {s}]
       /\ astray' = astray \cup {s}
    /\ UNCHANGED <<coordinatorVars, plan, places, seen, body, owed>>

AllRead(c) == repair[c].read = Unseen /\ repair[c].todo \cap LiveNotes = {}

\* After the last read the engine is asked for its graph, which tells notes
\* by their paths ...
AskGraph(c) ==
    /\ phase[c] = "running" /\ repair[c] # NoPass
    /\ AllRead(c) /\ repair[c].baseline # {} /\ repair[c].graph = Unseen
    /\ repair' = [repair EXCEPT ![c].graph = [links |-> body, places |-> where]]
    /\ UNCHANGED <<coordinatorVars, plan, places, seen, body, edges, owed, astray>>

\* The notes that lie where the graph has them.
Recognized(graph) == { n \in LiveNotes : graph.places[n] = where[n] }

\* ... from which adoptSourceEdgeBaseline takes the sources that failed, with
\* the links between notes that it recognizes when the answer arrives.
AdoptGraph(c) ==
    /\ phase[c] = "running" /\ repair[c] # NoPass
    /\ repair[c].graph # Unseen
    /\ LET failed == repair[c].baseline
           known == Recognized(repair[c].graph) IN
       /\ edges' = [s \in NoteIds |->
             IF s \notin failed THEN edges[s]
             ELSE IF s \in known THEN repair[c].graph.links[s] \cap known ELSE {}]
       /\ repair' = [repair EXCEPT ![c].baseline = {}, ![c].graph = Unseen]
       /\ astray' = IF HeldClaim(c).global THEN astray \ failed ELSE astray \cup failed
    /\ UNCHANGED <<coordinatorVars, plan, places, seen, body, owed>>

\* Only a pass that went through takes its batch off what is owed.
EndPass(c) ==
    /\ phase[c] = "running" /\ repair[c] # NoPass
    /\ AllRead(c) /\ repair[c].baseline = {}
    /\ Flush(c, owed \ repair[c].batch, LiveNotes)
    /\ UNCHANGED <<queue, ticket, parent, plan, places, seen, body, edges, astray>>

Removal(c) == Remove(c) \/ RemoveVictim(c) \/ Recover(c)
Repair(c) ==
    \/ ReadSource(c) \/ PatchSource(c) \/ FailSource(c)
    \/ AskGraph(c) \/ AdoptGraph(c) \/ EndPass(c)

-----------------------------------------------------------------------------

\* A callback returns, or throws at any of its awaits; its locals are gone.
Unwind(c) ==
    /\ ScopeSteps(c) \/ Finish(c)
    /\ seen' = [seen EXCEPT ![c] = Unseen]
    /\ repair' = [repair EXCEPT ![c] = NoPass]
    /\ UNCHANGED <<plan, places, body, edges, owed, astray>>

NoteNext ==
    \E c \in Calls :
        \/ Call(c) \/ Rederive(c) \/ Look(c) \/ Apply(c)
        \/ Removal(c) \/ Repair(c) \/ Unwind(c)

NoteFairness == \A c \in Calls : WF_noteVars(Rederive(c)) /\ WF_noteVars(Unwind(c))

NoteSpec == NoteInit /\ [][NoteNext]_noteVars

FairNoteSpec == NoteSpec /\ NoteFairness

-----------------------------------------------------------------------------
(* Properties.                                                             *)

\* What the engine answers with its graph.
Answers == [ links : [NoteIds -> SUBSET NoteIds], places : [NoteIds -> Paths \cup {NoPath}] ]

Passes == [ index : SUBSET NoteIds, batch : SUBSET NoteIds, todo : SUBSET NoteIds,
            read : {Unseen} \cup (NoteIds \X SUBSET NoteIds),
            baseline : SUBSET NoteIds, graph : {Unseen} \cup Answers ]

NoteTypeOK ==
    /\ TypeOK
    /\ plan \in [Calls -> Plans]
    /\ where \in [NoteIds -> Paths \cup {NoPath}]
    /\ dirs \subseteq Paths
    /\ body \in [NoteIds -> SUBSET NoteIds] /\ edges \in [NoteIds -> SUBSET NoteIds]
    /\ \A c \in Calls : seen[c] \in {Unseen} \cup SUBSET (NoteIds \X Paths)
    /\ owed \subseteq NoteIds /\ astray \subseteq NoteIds
    /\ \A c \in Calls : repair[c] = NoPass \/ repair[c] \in Passes

\* The sources of a note that every claim of a removal must reckon with.
KnownSources(target) == SourcesOf(target) \ astray

\* THE PREMISE SURVIVES THE AWAITS.  What a callback looked up under its
\* claim is still so when it acts on it, and its claim still covers what it
\* would claim now.  For removeDir this says that no note is erased that was
\* not among the victims that get a tombstone ("the prefix/source fence now
\* keeps this set stable", writeEngine.ts, removeDir).  For remove it says
\* that no link to the note appears between its look and its effect that it
\* has neither captured nor claimed; the sources that a failed read or an
\* unclaimed patch has led astray are left out, for there the code does not
\* keep this.
PremiseHolds ==
    \A c \in Calls :
        LET p == plan[c] IN
        phase[c] = "running" =>
           IF p.op = "remove"
           THEN /\ ClaimCovers(HeldClaim(c), RemovalClaim(p.note, KnownSources(p.note)))
                /\ seen[c] # Unseen =>
                      IF p.note \in LiveNotes
                      THEN At({p.note} \cup KnownSources(p.note)) \subseteq seen[c]
                      ELSE seen[c] = {}
           ELSE /\ ClaimCovers(HeldClaim(c), Derive(p))
                /\ seen[c] # Unseen => seen[c] = LookedUp(p)

\* LINKS FOLLOW BODIES.  The edges of a live note that is not owed a repair
\* are the live notes its file links to, whatever was written, removed, failed
\* and repaired meanwhile: "closing the phantom window" (writeEngine.ts,
\* removalClaim).  A source that went astray is left out until it is written
\* or repaired under a claim of everything.
LinksFollow ==
    \A s \in LiveNotes \ (owed \cup astray) : edges[s] = body[s] \cap LiveNotes

\* Every caller that keeps its claim up with a moving snapshot gets to run; it
\* does not chase its note forever.
EveryMutationReturns ==
    \A c \in Calls : phase[c] = "queued" ~> phase[c] \in {"done", "failed"}

=============================================================================
