----------------------------- MODULE StoreLocks -----------------------------
(***************************************************************************)
(* The locks of one CachedStore over a bare engine and the operations that *)
(* take them: the admission gate (PhaseGate), the mutation barrier of the  *)
(* boot scan, the trash coordinator and the storage coordinator, in this   *)
(* order; and the stop of the store, which drains them.                    *)
(*                                                                         *)
(* An operation is one call, made again and again.  Its kind says what it  *)
(* takes:                                                                  *)
(*   write      admission handed on at once, storage                       *)
(*   remove     admission handed on at once, trash, storage                *)
(*   restore    admission kept, trash, storage (runMutationScope)          *)
(*   lease      admission kept, storage (beginCausalPublication)           *)
(*   read       raw read: admission, storage                               *)
(*   surface    storage of everything, without admission (the recoveries   *)
(*              before a public surface, adoptCausalIdentity)              *)
(*   preview    storage of a note, without admission                       *)
(*   poll       the boot scan, its retry, or a reconcile under admission   *)
(*   fetch      body chase left behind by a poll: admission, trash, storage*)
(*   journal    journal entry left behind by a poll: trash, storage        *)
(*   stop       the drain of stop(): trash, storage, once                  *)
(* Left out: the purge of the trash, which takes the trash coordinator only*)
(* and leaves the engine alone; the recovery of identities that a mutation *)
(* may run under its admission; rescan, a hook of tests and demo hosts; and*)
(* the last waits of the drain, for bulk imports and the graph cache.      *)
(*                                                                         *)
(* A coordinator is the sequence of its live waiters in ticket order.  The *)
(* claims of an operation do not change here, so a waiter runs exactly     *)
(* when no earlier live one conflicts with it (FairClaims).                *)
(*                                                                         *)
(*   at[op]    idle, gate (waiting for admission or let in), trash and     *)
(*             main (queued there or granted), work (inside its storage    *)
(*             claim), leave (storage released); the stop: gone through    *)
(*             settling, idling and externals to stopped                   *)
(*   task[op]  what the storage claim is for: body, scan or graph          *)
(*   revoked   the leases that stop() released while their hosts, which    *)
(*             are not told, go on calling the engine                      *)
(***************************************************************************)
EXTENDS PhaseGate, MutationClaims

CONSTANTS
    KindOf,      \* the kind of each caller
    NoteOf,      \* the path of the note it is about
    TrashRoot    \* TRASH_MUTATION_PREFIX

Kinds == {"write", "remove", "restore", "lease", "read", "surface", "preview",
          "poll", "fetch", "journal", "stop"}
IsMutation(op) == KindOf[op] \in {"write", "remove", "restore", "lease"}
IsUnadmitted(op) == KindOf[op] \in {"surface", "preview"}

ASSUME StoreLocksAssumption ==
    /\ KindOf \in [Callers -> Kinds]
    /\ \A op \in Callers : ModeOf[op] = IF IsMutation(op) THEN "mutation" ELSE "read"
    /\ NoteOf \in [Callers -> Paths]
    /\ TrashRoot \in Paths

VARIABLES
    trash, main,   \* the live waiters of the two coordinators
    at, task,      \* per operation, see above
    scan,          \* phase: "cold" until the boot graph is there, "ready" or "error"
    inventory,     \* mutationInventoryReady
    barrier,       \* the mutation barrier: "shut" or "open"
    stopped,
    revoked        \* see above

storeVars == <<trash, main, at, task, scan, inventory, barrier, stopped, revoked>>
vars == <<gateVars, storeVars>>

OfKind(kind) == { op \in Callers : KindOf[op] = kind }

PathClaim(path) == [EmptyClaim EXCEPT !.paths = {path}]
PrefixClaim(path) == [EmptyClaim EXCEPT !.prefixes = {path}]
GlobalClaim == [EmptyClaim EXCEPT !.global = TRUE]

TakesTrash(op) == KindOf[op] \in {"remove", "restore", "fetch", "journal", "stop"}

TrashClaim(op) ==
    IF KindOf[op] \in {"fetch", "stop"} THEN PrefixClaim(TrashRoot)
    ELSE PathClaim(TrashRoot \o NoteOf[op])

MainClaim(op) ==
    IF KindOf[op] \in {"lease", "surface", "poll", "fetch", "stop"} THEN GlobalClaim
    ELSE PathClaim(NoteOf[op])

Live(queue) == { queue[i] : i \in 1 .. Len(queue) }

\* The pairs of operations whose claims conflict.
TrashConflicts ==
    { pair \in Callers \X Callers : ClaimsConflict(TrashClaim(pair[1]), TrashClaim(pair[2])) }
MainConflicts ==
    { pair \in Callers \X Callers : ClaimsConflict(MainClaim(pair[1]), MainClaim(pair[2])) }

\* The lease of op is granted: nothing queued before it conflicts.
Granted(queue, op, conflicts) ==
    \E i \in 1 .. Len(queue) :
        /\ queue[i] = op
        /\ \A j \in 1 .. i - 1 : <<queue[j], op>> \notin conflicts

\* Mutant: a release takes the head of the queue away.
WithoutHead(queue, op) == Tail(queue)

\* removeLive, of a waiter that is there.
Without(queue, op) ==
    LET i == CHOOSE i \in 1 .. Len(queue) : queue[i] = op IN
    SubSeq(queue, 1, i - 1) \o SubSeq(queue, i + 1, Len(queue))

GoTo(op, place) == at' = [at EXCEPT ![op] = place]

-----------------------------------------------------------------------------

\* start() has queued the boot scan.
Init ==
    /\ GateInit
    /\ \E boot \in OfKind("poll") :
          /\ main = <<boot>>
          /\ at = [op \in Callers |-> IF op = boot THEN "main" ELSE "idle"]
          /\ task = [op \in Callers |-> IF op = boot THEN "scan" ELSE "body"]
    /\ trash = << >>
    /\ scan = "cold" /\ inventory = FALSE /\ barrier = "shut" /\ stopped = FALSE
    /\ revoked = {}

-----------------------------------------------------------------------------
(* Calls.                                                                  *)

\* Nobody let in has a continuation ready to run.
AdmittedAreThrough ==
    \A op \in holders :
        at[op] = "gate" => IsMutation(op) /\ ~inventory /\ barrier = "shut"

\* Public calls queue for admission.  They may come after a stop, but they are
\* made by requests, between which the refusals that are ready run.
CallGated(op) ==
    /\ at[op] = "idle"
    /\ stopped => AdmittedAreThrough
    /\ IsMutation(op) \/ KindOf[op] = "read"
    /\ Acquire(op)
    /\ GoTo(op, "gate")
    /\ UNCHANGED <<trash, main, task, scan, inventory, barrier, stopped, revoked>>

\* The recoveries before a public surface, a preview and the adoption of an
\* identity queue for storage as they are: nobody admits them, nobody asks
\* whether the store has stopped.
CallUnadmitted(op) ==
    /\ at[op] = "idle"
    /\ IsUnadmitted(op)
    /\ main' = Append(main, op)
    /\ GoTo(op, "main")
    /\ UNCHANGED <<gateVars, trash, task, scan, inventory, barrier, stopped, revoked>>

PollTakes(op, work) ==
    /\ task' = [task EXCEPT ![op] = work]
    /\ IF work = "body"
       THEN /\ Acquire(op)
            /\ GoTo(op, "gate")
            /\ UNCHANGED main
       ELSE /\ main' = Append(main, op)
            /\ GoTo(op, "main")
            /\ UNCHANGED gateVars

\* poll: what it does depends on the phase; during a boot scan, nothing.  It
\* is called by a timer, so after the continuations that are ready.
Poll(op) ==
    /\ at[op] = "idle"
    /\ ~stopped
    /\ AdmittedAreThrough
    /\ \/ /\ scan = "error" /\ ~inventory
          /\ barrier' = "shut"
          /\ PollTakes(op, "scan")
       \/ /\ scan = "error" /\ inventory
          /\ PollTakes(op, "graph")
          /\ UNCHANGED barrier
       \/ /\ scan = "ready"
          /\ PollTakes(op, "body")
          /\ UNCHANGED barrier
    /\ UNCHANGED <<trash, scan, inventory, stopped, revoked>>

\* A reconcile leaves an external task behind.
CallExternal(op) ==
    /\ at[op] = "idle"
    /\ \E p \in OfKind("poll") : at[p] = "work" /\ task[p] = "body"
    /\ IF KindOf[op] = "fetch"
       THEN Acquire(op) /\ GoTo(op, "gate") /\ UNCHANGED trash
       ELSE trash' = Append(trash, op) /\ GoTo(op, "trash") /\ UNCHANGED gateVars
    /\ UNCHANGED <<main, task, scan, inventory, barrier, stopped, revoked>>

-----------------------------------------------------------------------------
(* Inside the gate.                                                        *)

Refuse(op) ==
    /\ Release(op)
    /\ GoTo(op, "idle")
    /\ UNCHANGED <<trash, main>>

\* The first claim is queued in the step that leaves the barrier.
QueueFirst(op) ==
    IF TakesTrash(op)
    THEN trash' = Append(trash, op) /\ GoTo(op, "trash") /\ UNCHANGED main
    ELSE main' = Append(main, op) /\ GoTo(op, "main") /\ UNCHANGED trash

\* runMutation, unlike runMutationScope and beginCausalPublication.
HandsOn(op) == KindOf[op] \in {"write", "remove"}

\* ensureMutationReady, then the first claim.  A store that stops has opened
\* the barrier, so that those who wait there see it.
EnterMutation(op) ==
    /\ at[op] = "gate" /\ op \in holders
    /\ IsMutation(op)
    /\ \/ stopped /\ barrier = "open" /\ Refuse(op)
       \/ /\ ~stopped /\ inventory
          /\ QueueFirst(op)
          /\ IF HandsOn(op) THEN Release(op) ELSE UNCHANGED gateVars
       \/ ~stopped /\ ~inventory /\ barrier = "open" /\ Refuse(op)
    /\ UNCHANGED <<task, scan, inventory, barrier, stopped, revoked>>

RefusesRead(op) == stopped /\ KindOf[op] \in {"read", "poll"}

EnterRead(op) ==
    /\ at[op] = "gate" /\ op \in holders
    /\ ~IsMutation(op)
    /\ IF RefusesRead(op) THEN Refuse(op) ELSE QueueFirst(op) /\ UNCHANGED gateVars
    /\ UNCHANGED <<task, scan, inventory, barrier, stopped, revoked>>

-----------------------------------------------------------------------------
(* Inside the coordinators.                                                *)

\* Mutant: a restore writes through `write`, which asks for admission again.
TrashGrantedReadmitted(op) ==
    /\ at[op] = "trash"
    /\ Granted(trash, op, TrashConflicts)
    /\ KindOf[op] = "restore" => MayEnter(op)
    /\ main' = Append(main, op)
    /\ GoTo(op, "main")
    /\ UNCHANGED <<gateVars, trash, task, scan, inventory, barrier, stopped, revoked>>

TrashGranted(op) ==
    /\ at[op] = "trash"
    /\ Granted(trash, op, TrashConflicts)
    /\ main' = Append(main, op)
    /\ GoTo(op, "main")
    /\ UNCHANGED <<gateVars, trash, task, scan, inventory, barrier, stopped, revoked>>

\* A boot scan or a poll granted after the stop leaves the engine alone.
MainGranted(op) ==
    /\ at[op] = "main"
    /\ Granted(main, op, MainConflicts)
    /\ IF KindOf[op] = "poll" /\ stopped
       THEN /\ main' = Without(main, op)
            /\ GoTo(op, "leave")
            /\ UNCHANGED scan
       ELSE /\ GoTo(op, "work")
            /\ scan' = IF task[op] = "body" THEN scan ELSE "cold"
            /\ UNCHANGED main
    /\ UNCHANGED <<gateVars, trash, task, inventory, barrier, stopped, revoked>>

\* The body of an operation ends, by returning or by throwing.
WorkEnds(op) ==
    /\ at[op] = "work" /\ task[op] = "body"
    /\ KindOf[op] # "lease"
    /\ main' = Without(main, op)
    /\ GoTo(op, "leave")
    /\ UNCHANGED <<gateVars, trash, task, scan, inventory, barrier, stopped, revoked>>

\* failBoot: the waiters are woken, and refused if there is no inventory.
ScanFails(op) ==
    /\ at[op] = "work" /\ task[op] # "body"
    /\ scan' = "error"
    /\ barrier' = "open"
    /\ main' = Without(main, op)
    /\ GoTo(op, "leave")
    /\ UNCHANGED <<gateVars, trash, task, inventory, stopped, revoked>>

\* The inventory is published and the graph gets a claim of its own.
ScanSucceeds(op) ==
    /\ at[op] = "work" /\ task[op] = "scan"
    /\ IF stopped
       THEN /\ main' = Without(main, op)
            /\ GoTo(op, "leave")
            /\ UNCHANGED <<task, inventory, barrier>>
       ELSE /\ inventory' = TRUE
            /\ barrier' = "open"
            /\ main' = Append(Without(main, op), op)
            /\ task' = [task EXCEPT ![op] = "graph"]
            /\ GoTo(op, "main")
    /\ UNCHANGED <<gateVars, trash, scan, stopped, revoked>>

GraphSucceeds(op) ==
    /\ at[op] = "work" /\ task[op] = "graph"
    /\ scan' = IF stopped THEN scan ELSE "ready"
    /\ main' = Without(main, op)
    /\ GoTo(op, "leave")
    /\ UNCHANGED <<gateVars, trash, task, inventory, barrier, stopped, revoked>>

\* The scopes around the storage claim end, innermost first.
Unwind(op) ==
    /\ at[op] = "leave"
    /\ IF op \in Live(trash)
       THEN trash' = Without(trash, op) /\ UNCHANGED <<gateVars, at, task>>
       ELSE /\ IF op \in holders THEN Release(op) ELSE UNCHANGED gateVars
            /\ GoTo(op, IF KindOf[op] = "stop" THEN "externals" ELSE "idle")
            /\ task' = [task EXCEPT ![op] = "body"]
            /\ UNCHANGED trash
    /\ UNCHANGED <<main, scan, inventory, barrier, stopped, revoked>>

\* The release function of a causal publication, the first time it is called.
EndLease(op) ==
    /\ main' = Without(main, op)
    /\ Release(op)

\* The host is through with its lease.  It may keep it for as long as it likes,
\* and the release function does nothing if stop() has called it.
HostReleases(op) ==
    /\ KindOf[op] = "lease" /\ at[op] = "work"
    /\ IF op \in revoked THEN UNCHANGED <<gateVars, main>> ELSE EndLease(op)
    /\ revoked' = revoked \ {op}
    /\ GoTo(op, "idle")
    /\ UNCHANGED <<trash, task, scan, inventory, barrier, stopped>>

-----------------------------------------------------------------------------
(* stop().                                                                 *)

\* causalPublicationReleases
LeasesHeld == { op \in OfKind("lease") \ revoked : at[op] = "work" }

\* Mutant: the causal leases are left to their hosts.
StopKeepsLeases(s) ==
    /\ KindOf[s] = "stop" /\ at[s] = "idle"
    /\ stopped' = TRUE
    /\ barrier' = "open"
    /\ GoTo(s, "settling")
    /\ UNCHANGED <<gateVars, trash, main, task, scan, inventory, revoked>>

\* The causal leases handed out so far are released (each holds everything, so
\* there is at most one), and the barrier lets its waiters fail.
Stop(s) ==
    /\ KindOf[s] = "stop" /\ at[s] = "idle"
    /\ stopped' = TRUE
    /\ barrier' = "open"
    /\ IF LeasesHeld = {} THEN UNCHANGED <<gateVars, main>>
       ELSE \E op \in LeasesHeld : EndLease(op)
    /\ revoked' = revoked \cup LeasesHeld
    /\ GoTo(s, "settling")
    /\ UNCHANGED <<trash, task, scan, inventory>>

\* drainBeforeInnerStop: the boot and the poll in flight, then the gate.
StopSettles(s) ==
    /\ at[s] = "settling"
    /\ \A op \in OfKind("poll") : at[op] = "idle"
    /\ Settle(s)
    /\ GoTo(s, "idling")
    /\ UNCHANGED <<trash, main, task, scan, inventory, barrier, stopped, revoked>>

\* Mutant: the drain crosses the storage queue only.
StopCrossesStorage(s) ==
    /\ at[s] = "idling" /\ s \notin idleWaiters
    /\ main' = Append(main, s)
    /\ GoTo(s, "main")
    /\ UNCHANGED <<gateVars, trash, task, scan, inventory, barrier, stopped, revoked>>

\* The gate is idle: the drain queues behind the trash producers, then (as
\* every holder of trash does) behind the storage queue.
StopCrosses(s) ==
    /\ at[s] = "idling" /\ s \notin idleWaiters
    /\ trash' = Append(trash, s)
    /\ GoTo(s, "trash")
    /\ UNCHANGED <<gateVars, main, task, scan, inventory, barrier, stopped, revoked>>

ExternalsDone == \A op \in OfKind("fetch") \cup OfKind("journal") : at[op] = "idle"

\* drainExternalTasks is through; the inner engine is stopped.
StopInner(s) ==
    /\ at[s] = "externals"
    /\ ExternalsDone
    /\ GoTo(s, "stopped")
    /\ UNCHANGED <<gateVars, trash, main, task, scan, inventory, barrier, stopped, revoked>>

-----------------------------------------------------------------------------

Call(op) ==
    \/ CallGated(op) \/ CallUnadmitted(op)
    \/ KindOf[op] = "poll" /\ Poll(op)
    \/ KindOf[op] \in {"fetch", "journal"} /\ CallExternal(op)

\* What goes on by itself once a call was made.
Proceed(op) ==
    \/ EnterMutation(op) \/ EnterRead(op) \/ TrashGranted(op) \/ MainGranted(op)
    \/ WorkEnds(op) \/ ScanFails(op) \/ ScanSucceeds(op) \/ GraphSucceeds(op)
    \/ Unwind(op)
    \/ StopSettles(op) \/ StopCrosses(op) \/ StopInner(op)

Next == \E op \in Callers : Call(op) \/ Proceed(op) \/ HostReleases(op) \/ Stop(op)

Spec == Init /\ [][Next]_vars

\* Engine calls return and continuations run.  Nobody is obliged to call, calls
\* may come without end, and a host may keep its lease for good.
Fairness == \A op \in Callers : WF_vars(Proceed(op))

FairSpec == Spec /\ Fairness

-----------------------------------------------------------------------------
(* Properties.                                                             *)

Places == {"idle", "gate", "trash", "main", "work", "leave", "settling", "idling",
           "externals", "stopped"}

TypeOK ==
    /\ GateTypeOK
    /\ trash \in Seq(Callers) /\ Len(trash) = Cardinality(Live(trash))
    /\ main \in Seq(Callers) /\ Len(main) = Cardinality(Live(main))
    /\ at \in [Callers -> Places]
    /\ task \in [Callers -> {"body", "scan", "graph"}]
    /\ scan \in {"cold", "ready", "error"} /\ inventory \in BOOLEAN
    /\ barrier \in {"shut", "open"} /\ stopped \in BOOLEAN
    /\ revoked \subseteq OfKind("lease")

\* THE ENGINE IS LEFT ALONE.  While the drain holds everything, nobody is at
\* work in the engine but the host of a lease that stop() took away; and once
\* the inner engine may stop, only such a host is, or a caller that nobody
\* admits: no mutation, read, poll or external task that was admitted before,
\* that waited at the gate, the barrier or a coordinator through the stop, or
\* that is called later.
EngineLeftAlone ==
    \A s \in OfKind("stop"), op \in Callers \ OfKind("stop") :
        at[op] = "work" =>
           /\ at[s] = "work" => op \in revoked
           /\ at[s] = "stopped" => op \in revoked \/ IsUnadmitted(op)

\* A host that keeps its lease keeps everybody waiting.
KeepsLease(l) == at[l] = "work" /\ l \notin revoked

Waits(op) == at[op] \in {"gate", "trash", "main"}

Returned(op) == at[op] \in {"idle", "stopped"} \/ (KindOf[op] = "lease" /\ at[op] = "work")

\* NO DEADLOCK, NO STARVATION.  If no host keeps its lease for good, every call
\* returns (that of a lease with the lease), whatever the others do and
\* however many calls of the other phase keep coming.
EveryCallReturns ==
    (\A l \in OfKind("lease") : []<>~KeepsLease(l))
       => \A op \in Callers : Waits(op) ~> Returned(op)

\* THE STOP RETURNS, whatever the hosts do with the leases they had: it takes
\* these away.  Only a lease that is granted after the stop can hold it up.
StopReturns ==
    [](\A l \in OfKind("lease") : stopped => at[l] # "main")
       => \A s \in OfKind("stop") : at[s] = "settling" ~> at[s] = "stopped"

=============================================================================
