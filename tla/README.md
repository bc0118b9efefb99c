# A verification of Notarium's write fence and job runner

TLA+ modules, TLC configurations and TLAPS proofs for the parts of Notarium where
several actors meet on shared state: the locks and claims through which every call
of a space passes (`packages/core`), and the durable jobs, imports and backups of the
server (`packages/server`). Paths below are relative to `packages/` unless they start
with `docs/`.

Run a model with `tlc -workers 2 -config <run>.cfg <module>` and a proof with
`tlapm <module>.tla`.

## 1. The system

Notarium is a note server. A *space* is a folder of Markdown files behind a storage
engine; a `CachedStore` keeps a read-model of it in memory. A Node process serves
spaces over HTTP and MCP, stores its own records in a meta-database (SQLite or
Postgres), and runs exports, imports and provider calls as background jobs. Inside one
process everything is interleaved at `await`; across processes and crashes only the
meta-database and the files survive.

### Inventory

| component | state | operations | what is hard | what makes it correct |
|---|---|---|---|---|
| **claim queue** `core/src/libs/mutationCoordinator/claimQueue.ts` | live waiters in ticket order, a queue per key, maps of active keys and prefixes, counters | acquire, retry, release | decisions from partial indexes; wakeups restricted to candidates; claims that grow under an old ticket | conflicting claims never run together; nobody waits for nothing, overtakes or starves; indexes do not leak |
| **mutation coordinator** `…/mutationCoordinator.ts` | scopes with an `active` flag and children | run, runStable, acquire, runWithinHeld | claims derived before a wait; derivations that throw; work left behind by a callback | work stays inside its lease; leases are given back; calls return |
| **write engine** `core/src/cachedStore/helpers/writeEngine` | none of its own; acts on the snapshot, the directory index and the engine | write, mutateTags, move, remove, makeDir, removeDir | look-ups used after awaits; folders renamed under queued calls; links written while a removal runs | the premise of a callback holds when it acts; edges follow bodies |
| **phase gate** `core/src/cachedStore/helpers/phaseGate` | active mode, waiting cohort | acquire, settle | batching without starvation | modes exclude each other, both progress |
| **cached store** `core/src/cachedStore/cachedStore.ts` | snapshot, caches, change feed; phases, the boot barrier, graph repairs owed | admission of calls, boot scan, polls, causal publications, stop; reconciliation, reads | three locks in an order; a barrier inside the gate; a stop among all this | no deadlock, nobody starves, the engine is stopped when nobody uses it; the snapshot converges to disk |
| **trash and history surface** `…/helpers/historySurface` | tombstones under a second coordinator | restore, purge, list | lock order trash → storage | no deadlock, no lost tombstone |
| **identity registry, revision journal, causal metadata** `core/src/identity`, `revisionJournal`, `causalMetadata` | path/id bindings, histories, intents | mint, rename, append, settle | crash between file and record | a note keeps its id and history |
| **background scheduler** `core/src/libs/backgroundScheduler` | in-flight count, two timestamps | awaitTurn, enter/exitInteractive | real time | drip floor: a worker always gets a turn |
| **job queue** `server/src/services/metaDb/drivers/*/jobs.ts` | the `jobs` table | enqueue, claimNext, heartbeat, succeed, fail, release, cancel, reapStale, clearArtifact, prune | workers that lost their job but do not know it | the lease fences; budget; terminal rows are final |
| **job runner** `server/src/apps/server/consumers/jobRunner.ts` | `running`, `shuttingDown`, `claiming`, in-flight runs | claim loop, runs, maintenance, start, stop | reap-reclaim races, cancel in the last window, crash, shutdown | artifacts served, slots bounded, jobs end |
| **export and import handlers** `…/consumers/exportJob.ts`, `importJob.ts`, `server/src/services/import` | temp part, artifact, plan file, reservation | build, rename; plan, claim, write | two runs of a job; a plan file that is gone | no half or missing artifact; all notes from one plan |
| **import reservations** `server/src/services/metaDb/drivers/sqlite/importReservations.ts` | a FIFO guard per job, reservations with a fence | adopt, reserve, withFencedWrite, closeForJob, guarded job statements | a write that holds a superseded fence; a cleanup that is late | bytes move only under the current lease and fence |
| **mutation gate** `server/src/libs/mutationGate` | `active`, `blocked`, waiting entrants and drains | enter, run, checkpoint | cancellation at every wait, tasks that outlive their answer | no mutation during a checkpoint's task, one task at a time |
| **outbox projector, note restore, keyrings, provider runtime** `server/src/services/…` | durable steps and attempts | project, resume, rotate, call | retries after partial failure | at-least-once steps are idempotent |
| **auth, OAuth, authorization, sessions, spaces, backup** | request-scoped | | little concurrency of their own | |
| **engines, importers, Markdown, graph, views, contract, web, desktop, CLI** | data transformations, user interfaces | | | best tested on examples |

How they interact: an HTTP or MCP call enters `CachedStore`, which admits it through
the phase gate, takes the trash coordinator where a tombstone is concerned, and lets the
write engine run it under a claim of the storage coordinator; both coordinators are
claim queues. The runner enters the mutation gate, claims a row of the job queue, and
runs a handler which reads or writes a store; an import writes under the guard of its
job, through which cancel, reap and cleanup go too. A backup is a checkpoint of the
mutation gate.

The components without a module are listed in `PROJECT.json` with the reason.

## 2. The modules

```
MutationClaims            claims: union, coverage, conflict, keys
  FairClaims              abstract drain scheduler          (specification)
  ClaimQueue              the indexed queue                 implements FairClaims
    MutationCoordinator   scopes and calls over one queue   (INSTANCE ClaimQueue)
      NoteMutations       callers whose claims follow notes and links
PhaseGate                 cohorts of reads and mutations
  StoreLocks              gate, boot barrier, two coordinators, stop   (+ MutationClaims)
JobQueue                  the jobs table                    (specification of the runner)
  JobRunner               a process with crash and restart  implements JobQueue
  ImportRuns              import runs, reservation, plan file
MutationGate              mutations and backup checkpoints
```

`MC*` modules give small instances, `*Proofs` modules hold the proofs.

### MutationClaims, ClaimQueue, FairClaims

A path is a sequence of segments, so "under a folder" is "has it as a prefix". The queue
object is one record; its methods are operators from a record to a record. A linked list
in ticket order is the set of its members with the least ticket as head: `addMemberships`
inserts in ticket order and `retry` keeps the node, so nothing else about the order is
observable. `tryStart` on several candidates is written as the set of those that start:
in ticket order, each is judged by the indexes as the earlier ones left them
(`TryCandidates`). Acquire, retry and release are one synchronous call each, hence one
action each, wakeups included.

`FairClaims` has no index. It is `ReferenceQueue`, the reference in `claimQueue.test.ts`:
after every operation, a waiter runs iff nothing active and nothing earlier conflicts
with it. The test compares the two on random operations; `MatchesDrainScheduler` does so
for every behaviour of the instance.

### MutationCoordinator

One action per piece of code between awaits. `Start` is a call up to its wait;
`ResumeStable` one turn of `runStable`'s loop (fail, enter, or retry with the union);
`SettleTask`, `Deactivate`, `SettleChild` and `Finish` are the steps of `runHeld` and its
callers. A derivation returns any request, or throws. A child scope may be asked for in
any phase of its parent, because detached work keeps the async-local scope; the `active`
flag and coverage decide.

### NoteMutations

Extends the coordinator with the snapshot: where each note lies, which folders exist,
and which live notes each note links to (`edges`, next to `body`, what its file says).
Calls derive claims from it as the write engine does: `write` of an existing note (the
note, its path, and a link-target path for every live note it links to), `mutateTags`,
`move` of a note (global when the folder is new), `move` of a folder, `remove` (the note,
the sources that link to it, and the link-target prefix) and `removeDir`; and
`recoverGraphContextForSurface`, which a view of the graph runs. Each callback looks its
target up and acts later on what it saw; `removeDir` removes its victims one by one and
then erases the folder.

A removal makes its sources due in `bulkGraphContextSources` (`owed`) and flushes *all*
that is owed: a pass resolves against the notes live at its start, reads the sources one
by one and patches their edges when the answers arrive; only a complete pass takes its
batch off. A source whose body cannot be read loses its edges at once (`FailSource`); after
the last read the engine is asked for its graph (`AskGraph`), and when the answer arrives
the sources that failed take their edges from it (`AdoptGraph`), those between notes that
the snapshot still has where the graph has them (`Recognized`; that another note has come
to lie at such a path is left out). Any callback may throw between two steps, the request
for the graph included, and what it owed stays owed. The file and the snapshot patch after it are one step: between them the code does
nothing that a claim does not cover. `Scenarios` are the sets of calls made together.

### PhaseGate and StoreLocks

`PhaseGate` is `acquire`, the release function and `settle`; a release lets the first
contiguous cohort of one mode in. `StoreLocks` extends it with the callers that take the
locks of one store, by kind: a *write* or a *remove* hands its admission on once its first
claim is queued (`runMutation`), a *restore* and a *lease* (`beginCausalPublication`) keep
it; a raw *read*; the *poll*, which is the boot scan, its retry, the graph scan or a
reconcile; *fetch* and *journal*, the external tasks a reconcile leaves behind; *surface*
and *preview*, who take storage without admission and without asking whether the store
has stopped (`recoverGraphContextForSurface`, `recoverUnsettledIdentity`,
`adoptCausalIdentity` and the close of an import bracket, globally; `preview` and its like
for one note); and *stop*. Mutations wait for the boot scan at a barrier
inside the gate.

The two coordinators are the sequences of their live waiters: claims do not change here,
so a waiter runs iff no earlier one conflicts, which is what `FairClaims` promises and
`ClaimQueue` implements. Timers and requests run after the continuations that are ready
(`AdmittedAreThrough`), as Node's queues have it. `stop()` releases the causal leases that
are out, but the host of such a lease is not told: it stays at work (`revoked`), and when
it is through, its release function does nothing. A lease that is still waiting for its
claim is granted later, and the drain then waits for its host (`cachedStore.ts:1009-1016`).
A host may keep its lease for good: the restore coordinator does in every outcome that is
pending or can be recovered, until a client asks again (`server/src/services/noteRestore/
restoreCoordinator.ts:655-719`). The engine is bare (it has no identity of its own). Left
out are the purge of the trash, which takes the trash coordinator alone and leaves the
engine to others; the recovery of identities inside a mutation, under its admission;
`rescan`, a hook of tests and demo hosts; and the last waits of the drain, for the close of
import brackets and for the graph cache.

### MutationGate

One action per piece of code between awaits, and per continuation of a settled promise:
`enter` parks or admits; a woken entrant tests `blocked` again; a checkpoint drains, runs
its task, lifts the barrier in its `finally`, and then two reactions follow its answer:
`responseObserved` and, when the task has stopped, `settlement`. Both may reset
`checkpointInProgress`. Callers abort at any wait; a task that was given up goes on.
`Chained` says whether a reaction to one checkpoint may ask for the next before the
continuations that are ready have run. The one caller in production
(`server/src/libs/backupControl`) is a socket handler and may not.

### JobQueue

One action per statement. Timestamps become the booleans the statements compare them for
(`due`, `stale`, `expired`, `old`), and `TimePasses` sets one at any moment. Statements
take a lease, and any lease handed out may issue any statement at any time: this is the
contract against slow workers. `Reap` is one candidate of `reapStale`, which re-checks
each row when its turn comes; the candidates' list read before it adds nothing.

### JobRunner

One process with `Concurrency` slots over `JobQueue`. A run is keyed by its lease and
passes stages which are the awaits of `runJob`: `handling` (the handler works, reserves,
reports), `reported` (the last report proved the lease), `published` or `finished`,
then the terminal write, or after an exception `Judge`, `RecordFailure`, `ReleaseRun`;
`closing` is `afterTerminal`. `loops` counts claim loops between their test and the
launch. Maintenance steps are separate actions in any order, because the interval timer
does not wait for the previous tick. `Crash`, `Stop`, `StopReturns`, `StopTimesOut`,
`Exit` and `Restart` are the life of the process: only rows, files and reservations
survive. Meta-database calls do not fail; removals of files may. Closing the reservations
of ended jobs is one step: a terminal row stays terminal, so closing them one after the
other shows nothing else.

### ImportRuns

Runs of Markdown-tree imports over `JobQueue`. `guard[j]` is `withJobGuard`, the FIFO of
the calls of one job that hold or await it; a call at the head is one step, but a fenced
write stays inside between its check (`Premise`) and the landing of its bytes. Through it
go `adopt`, `reserve`, the publication of the plan, each entry, and from outside cancel,
reap and `closeForJob`. A run loads the plan file or scans and settles a plan of its own,
takes the reservation, publishes the plan or reads back the one that stands, reports
`writing`, and writes entry by entry; its reports are heartbeats and take no guard. Plan
and fence are named by the lease that made them. The plan file may disappear at any
time, a run may throw at any await, and a crash may cut `closeForJob` between its two
statements. What `JobRunner` says of slots, artifacts and the drain is not repeated.

## 3. What the runs check

| run | instance | properties | shows |
|---|---|---|---|
| `claim_queue` | 4 tickets, 6 kinds of claim over a folder, two notes' paths, one note id, one resource | `TypeOK`, `MutualExclusion`, `IndexesExact`, `MatchesDrainScheduler`, `NoOvertaking` | the indexed queue is the drain scheduler, and leaks nothing |
| `coordinator` | a `runStable`, a `run` and an `acquire`, two child scopes; global, folder and path claims | `WorkIsFenced`, `NoLeakedLease`, `NoStarvation`, `EveryCallReturns` | work does not outlive its lease, a throwing derivation gives it back, no wakeup is missed |
| `note_mutations` | 3 notes, 3 scenarios of 4 racing calls | `NoteTypeOK`, `PremiseHolds`, `LinksFollow`, `EveryMutationReturns` | look-ups survive the awaits; edges follow bodies; `runStable` does not chase its note forever |
| `store_locks` | 7 callers: remove, restore, lease, surface, poll, fetch, stop | `TypeOK`, `PhasesExclude`, `EngineLeftAlone`, `NobodyPassed`, `EveryCallReturns`, `StopReturns` | the lock order has no deadlock, neither phase starves, the drain leaves behind it only those it does not wait for |
| `mutation_gate` | 3 mutations, 2 checkpoints, used again and again | `TypeOK`, `TaskRunsAlone`, `OneTask`, `EntrantsAdmitted` | an awaited task has a quiet store, tasks never overlap, who was held back gets in |
| `job_queue` | 2 jobs, 4 leases, budget 2 | `TypeOK`, `LeaseMatchesClaim`, `AttemptsLeft`, `TerminalIsFinal` | a stale worker changes nothing |
| `job_runner` | 1 job, 3 claims, budget 3, 2 slots, 1 crash or stop | `RunnerTypeOK`, `ArtifactServed`, `ConcurrencyCap`, `EvidenceKept`, `StopReleases`, `QueueContract` | safety of the runner, and that it implements the queue |
| `job_runner_fair` | 1 job, 3 claims, budget 2, 1 slot, 1 crash or stop | `JobsEnd`, `ClaimsClosed` | jobs end and reservations are freed |
| `import_runs` | 1 import, 2 runs, 1 crash or stop | `ImportTypeOK`, `WritesAreFenced`, `OwnerKeepsClaim`, `OnePlanUnlessReplanned`, `CancelReturns` | bytes move under the current lease and fence only, and from one plan |
| `orphans` | as `job_runner`, budget 2 | `OrphansAreTempsOnly` violated | finding 1 |
| `stop_drain` | as `job_runner`, budget 2 | `StopDrains` violated | finding 2 |
| `import_replan` | 1 import, 3 runs | `OnePlan` violated | finding 3 |

**Why the bounds are enough.** Conflicts are between two claims and fairness concerns a
third that waits; the fourth ticket lets a claim grow by retry between a holder, an earlier
and a later waiter. The claims meet on every axis (global, resource, note, path against path,
path under prefix, prefix under prefix). Two children give a child of a child and siblings.
In the note model one scenario renames the folder away while the tag change, the move and
the removal of the destination wait, so that claims have to be derived again; one writes
a link to a note that is being removed, with a rename and a folder removal around it; one
has two removals whose claims do not meet, a write to the source of one, and a view of
the graph. The store instance has the callers that differ most in what they take, each calling again
and again (a write takes what a removal takes without trash, a journal task what a removal
takes without admission, a preview what a surface takes for one note, a raw read what a
poll takes under admission; the invariants are proved for these too); two modes with three or four callers each
give cohorts. Two checkpoints are enough for one to settle while the other asks, three
mutations for one that runs, one that waits and one that is woken. Two leases
make a reap-reclaim race, a third lets a stale worker meet a job that was
released or retried and claimed again; with two slots both runs live in one process. Two
import runs are one that wrote and one that finds what it left; the third of
`import_replan` is the one that plans anew.
Symmetry (jobs, leases) is used for safety only; no property tells one lease from another.
`CHECK_DEADLOCK FALSE` everywhere: tickets, calls and leases are finite, a stopped store
rests, so each instance may come to rest.

**Fairness.** Safety is checked without any. Liveness assumes what the runtime gives: in
`MutationCoordinator` and `NoteMutations`, that continuations run
and callbacks return or throw (`acquire` obliges its caller to release); in `StoreLocks`,
that continuations run and engine calls return, while calls of every kind may keep coming.
Nothing is assumed there of hosts in the fairness; the two liveness properties say what
they need of them instead: `EveryCallReturns` that none keeps a lease for good (without
it, a lease that waits for a client to come back makes every call wait), `StopReturns` that
no lease is granted after the stop (observation 7). In `MutationGate`, that continuations run and a checkpoint
has a deadline, while tasks and mutations may hang; in `ImportRuns`, that a call which has
the guard runs to its end; in `JobRunner`, that ready continuations run, handlers
return or throw, timers fire, time passes and a supervisor restarts the process. Never
assumed: that a client acts, that a handler succeeds, that a removal succeeds. All of it
is weak fairness.

**Mutants.** Each property is paired in `PROJECT.json` with a change of a definition that
a plausible bug would make (a dropped guard, a forgotten count, a stale premise); the
definition stands before the real one, marked "Mutant", and the run fails with it.

### Findings

1. *Published files can be orphans.* `docs/jobs.md:46` calls temp parts "the one
   artifact class the row-driven GC cannot see". An export renames its temp over the final
   name (`exportJob.ts:166`) before `succeed` records it (`jobRunner.ts:314`). If the
   process dies between the two and the job is then canceled or runs out of attempts, or a
   cancel arrives there and the removal at `jobRunner.ts:329` fails, the file is there and
   no row points to it. Only the purge of the space removes it.
2. *A claim in progress escapes `stop()`.* `jobRunner.ts:122`: "Stop: abort in-flight
   handlers, release their jobs, await the drain." A claim loop that passed its test and
   waits in `enterMutation` or `claimNext` launches its job without testing again
   (`jobRunner.ts:187-197`). `stop()` aborts and awaits only what was in flight before
   (`509-512`), so that run starts afterwards and is neither aborted nor awaited. The
   reaper recovers the job later (`JobsEnd` holds), at the price of an attempt.
3. *An import can mix two plans.* `docs/import.md:163`: "Once writing can have started,
   even a corrupt sidecar is terminal rather than replaceable." A run that finds the plan
   file missing scans first, and its scan reports `planning` over the persisted `writing`
   (`importService.ts:256`). It would then be refused (`importService.ts:274`), but if it
   is interrupted before, the next run reads `planning` and plans anew, with notes of the
   first plan on disk. `OnePlanUnlessReplanned` says that this is the only way.

Four more observations have no run of their own; each can be seen by a small change.

4. *A removal misses sources, or repairs some it has not claimed.* `writeEngine.ts:1906-1909`:
   "Claim those sources with the victims". There are two ways around it. (a)
   `flushGraphContextClaimed` (`cachedStore.ts:3270-3290`) repairs all of
   `bulkGraphContextSources`, other removals' sources included. Remove `t` while another
   removal owes the repair of `s`: the flush for `t` reads `s`; the owner finishes and
   releases its claim; a `write` of `s` that was queued behind it publishes new links; the
   answer of the read arrives and the old links are patched over the new ones. (b) A read
   that fails empties the edges of its source (`cachedStore.ts:3570`), and they come back
   only with the answer of `graph()` (`3586`). A removal of `u` that is queued or granted
   meanwhile does not find that `s` links to `u`, and does not claim `s`; the graph puts the
   link back while that removal waits; `u` is removed with no repair due, and the edge
   dangles. Either way the edges of `s` stay wrong until something else derives them again.
   `LinksFollow` and `PremiseHolds` leave such sources out (`astray`: a read of it failed, or
   it was patched by a holder that does not claim it), until they are written or repaired
   under a claim of everything. Without the exception TLC shows both races in the third
   scenario of `note_mutations`.
5. *Checkpoints that are chained can overlap.* `mutationGate.ts:51`: "A concurrent
   checkpoint fails fast". `responseObserved` resets `checkpointInProgress` with the answer;
   a caller that asks again at once starts a second checkpoint, and then the `settlement` of
   the first (`mutationGate.ts:163-173`) resets the flag of the second, so that a third is
   admitted while it runs. With `Chained = TRUE`, `OneTask` is violated. The production
   caller is not exposed to this.
6. *The engine can be used after it was stopped.* The drain waits for whoever was admitted.
   The host of a causal lease that `stop()` released was, but goes on: the restore
   coordinator calls `adoptPublishedResource` (`restoreCoordinator.ts:1224`, by way of
   `spaceManager.ts:820-833`), which goes to the inner store without a lock and without
   asking for `stopped` (`cachedStore.ts:250-256`). And `recoverGraphContextForSurface`, the
   previews and `adoptCausalIdentity` take the storage coordinator without admission, before
   and after a stop. `EngineLeftAlone` names both as exceptions; without either TLC finds it
   violated, that of the host also while the drain holds everything.
7. *A stop can wait for a host.* `cachedStore.ts:1012-1013`: "release those process-local
   leases so settle can drain". Only the leases that are out when `stop()` is called are
   released. A publication that was past the boot barrier and waited for its claim then is
   granted afterwards, and its lease ends by its host alone; the drain is behind it. Without
   its premise `StopReturns` is violated.

## 4. What is proved

For all values of the constants, from the named assumptions only (`QueueAssumption`,
`PathsAssumption`, `CoordinatorAssumption`, `PlansAssumption`, `SnapshotAssumption`,
`JobQueueAssumption`, `JobRunnerAssumption`, `ImportAssumption`, `PhaseGateAssumption`,
`StoreLocksAssumption`, `GateAssumption`), which the runs evaluate. Every invariant and
action property of the runs that pass is among the theorems.

**ClaimQueueProofs** — `TypeCorrect`, `IndexesHold`, `ConflictsExclude`. `canStart` reads
indexes, so exclusion is not inductive without them. The invariant asks less than
`ActiveIndexed`: an entry of an active map names *some* holder of its key, and a held key
*has* an entry. Both survive the activation of any set of waiters, conflicting or not, so
the waiters that one wake-up starts can be compared with each other afterwards, without an
induction over the order in which they started: of two that conflict, the later one was
judged with the earlier one active, and `canStart` refuses that on each of the axes on
which claims conflict. The exact indexes then follow from exclusion.

Its second part relates the queue to `FairClaims`: `ImplementsDrainScheduler` (refinement)
and `NobodyIsOvertaken`. On indexes that are in order `canStart` holds exactly of the waiters the drain would start
(`CanStartExact`): no check is missing and none is too strict. A wake-up then starts every
startable candidate in whatever order it tries them, since those it started before are
earlier and were in the way, or not, as waiters already (`WakeUpStarts`). What is left is
that the candidates suffice. The invariant adds that nobody startable waits; so who becomes
startable waited for the claim given back alone, conflicts with it, and `wakeAfter` finds
it at the head of a key queue or in the scan of the live list (`CandidatesSuffice`). A
`retry` tries its own waiter first; what that one takes, it takes from no earlier waiter.

**MutationCoordinatorProofs** — `TypeCorrect`, `WorkStaysFenced`, `LeasesAreUsed`. The
lemmas of `ClaimQueueProofs` are instantiated for the coordinator's queue (with as many
tickets as there are calls) and say what an operation does to the waiters: `acquire` adds
one under a fresh ticket, `release` takes one away, `retry` keeps all, and none stops
another runner. The invariant adds that calls do not share waiters, that a call at work
has a running one, that each live one has its call, and that an unsettled child has an
unsettled parent. The children form a tree of any depth, and the root of a scope is a
recursive function; where an induction would be needed, the invariant carries two
witnesses that every `OpenChild` extends: a rank that grows from parent to child, and a
root for every scope (`Forest`). A working scope of least rank whose root does not work
cannot exist, as its parent works too. `CallsAreDrained` and `CallsKeepOrder`: a step of a
call, whatever its derivation returns, is an acquire, a retry or a release of the queue, or
leaves it alone, and it never acquires more tickets than there are calls (`StepUsesQueue`),
so the coordinator's queue implements the drain scheduler too.

**NoteMutationsProofs** — `NoteTypesCorrect`, `PremisesHold`, `EdgesFollowLinks`,
`MutationsStayFenced`, `MutationsAreDrained`. Every step is a step of the coordinator, so
its theorems hold here, and two callbacks that run hold claims that do not conflict. The
invariant says of each running callback what its claim keeps others from touching
(`Covered`: the note, the path where it lies *now*, for a removal every source that was not
led astray), what it may rely on (`Looked`: what it saw is what it would see;
for a removal, note and sources where they are), and where its repair stands (`Passing`: it
resolves against every note that lives and, for the sources it holds, against none that is
gone; each of its sources is still to do, in order, or astray until the engine's graph is
adopted under a claim of everything). The proof takes each effect and shows
that another running callback is either not concerned or would have had to hold a
conflicting claim: a note moves only under its id, a folder only under its prefix or
globally, and a link to a note appears only under the link-target path that the removal of
the note claims as a prefix. `Linked` says that the edges of a source agree with its body on
the notes that live; that is what a write by somebody else leaves true while a repair
waits for its answer. A source goes astray in the step that empties its edges or patches
them unclaimed, so that whoever looks for the sources of its note afterwards is told
(`LookedForRemoval`); it returns by a write of its own, when no other pass has it, or by a
pass that holds everything. These are the exceptions of the properties (section 3,
observation 4). `PathsSuffice` in the assumptions says only that what the calls name or
make are `Paths`: the link-target paths of a write, the target of a removal, and where a
renamed folder's contents land; the program has no such limit.

**StoreLocksProofs** — `PhasesExcludeTheorem`, `SomebodyInsideTheorem`,
`NobodyPassedTheorem`, for `PhaseGate` with any callers, transferred to `StoreLocks`. The
invariant says where a caller may stand: all inside are of the active mode, a caller
stands in one place, and the head of the queue is of the other mode. From the last,
nobody waits for nothing, and nobody is let in past a waiter that stays.
Then `StoreTypesCorrect`, `WorkExcludesTheorem` and `EngineLeftAloneTheorem`, for any
number of operations of each of the eleven kinds, stops included. `Standing` says which gate, queue and
waiter set an operation is in at each of its places (the host of a revoked lease: in none),
and `Exclusive` that an operation at
work has no earlier conflicting one before it in the storage queue. `Stopping` follows a
stop through the drain, one lock after the other: once it has waited for the polls none
starts again, since all of them test `stopped`; once it is past the gate whoever comes in
is refused; it is then the last in the trash queue, and when it leaves it nobody but stops
is there; in the storage queue nobody is behind it but stops and callers without admission
(`Unawaited`), and these alone are there when it leaves. While it holds everything, nobody
else is granted at all. Each clause needs the one before it: an operation joins a queue only from
the previous lock.

**MutationGateProofs** — `GateTypeCorrect`, and, for callers that do not chain and names
that are not both mutation and checkpoint, `TaskRunsAloneTheorem` and `OneTaskTheorem`. The
invariant says that `active` counts the admitted mutations, that at most one checkpoint
has reactions left and keeps the flag up until its task has stopped, that the barrier stays
up until its `finally` has run, and that after a drain nobody is counted.

**JobQueueProofs** — `TypeCorrect`, `LeaseIsTheJob`, `BudgetHolds`, `TerminalStays`. The
inductive invariant joins type, lease and budget: a refund can only take an attempt back
that the claim counted because the lease proves the claim, and a fenced retry is below the
budget because the lease's attempt is the row's.

**JobRunnerProofs** — `RunnerImplementsQueue` (refinement: every step of the runner is a
statement of the queue or leaves the table alone), then on top of it `RunnerTypeCorrect`,
`SlotsAreBounded`, `ArtifactsAreServed`, `EvidenceIsKept`, `StopGivesBack`. The
interesting one is `ArtifactServed`: the invariant says that a run which still owns its
row after publishing has its file, and that a run which lost its row never owns it again
(`LostStays`, from the uniqueness of leases). So the run that cleans up is never the one
whose row succeeds, and it only cleans up behind a cancel, which is final
(`TerminalStays`).

**ImportRunsProofs** — `ImportTypeCorrect`, `OwnerKeepsClaimTheorem`,
`WritesAreFencedTheorem`, `OnePlanTheorem`, and `ImportsImplementQueue`: every step of the
imports is a statement of `JobQueue` or leaves its table alone, so `TerminalIsFinal` and
the lease invariants hold under them. Three invariants, each on the one before:
`Shaped` (type and who may stand in a guard), `Fenced` (the reservation of a run that owns
its job is its own; a cleanup that is queued or judged belongs to a job that has ended and
stays so; who is inside a fenced write is at the head of the guard and owns the job), and
`Planned` (a plan in use is the one on disk or the one notes were written under; once notes
are there and the phase did not fall back, nobody settles another).

**Only model-checked**: liveness, which this prover does not reach (`NoStarvation`,
`EveryCallReturns`, `EveryMutationReturns`, `StopReturns`, `EntrantsAdmitted`,
`CancelReturns`, `JobsEnd`, `ClaimsClosed`), and the three violations of section 3.

## 5. What is not modelled

Inside the modelled parts: creates and renames by `write` with their collisions and
names that several notes compete for, `makeDir`, import brackets, the whole-corpus graph
refresh (under a global claim), the journal; archive streams, foreign importers (they
write without plan or fence), classification; adoption of a reservation from another job,
the guards of a space purge, path rows one by one; failing meta-database calls; two server
processes on one database as two runners (a stale worker of another process is covered by
`JobQueue`, where any lease may act at any time); in the store, the purge of the trash,
`rescan`, the identity recovery inside a mutation, and the waits of the drain for bulk
imports and the graph cache. The
`drivers/pg` files are not read line by line; their statements carry the same guards.

Without a module: the identity registry, revision journal, causal metadata with its outbox
projector, note restore, keyrings, providers, authentication, spaces; the background
scheduler, whose content is real time; storage engines, importers, Markdown, graph, views
and user interfaces, which transform data and are best tested on examples.

## 6. Plan

1. Outbox projector and note restore: resumption after a crash at every step.
2. Reconciliation of external edits against in-flight writes: the snapshot converges.
3. Background scheduler with an explicit clock.
4. Creates and renames in `NoteMutations`: uniquified names, ghosts that resolve.

Proofs to add: that the two coordinators of `StoreLocks`, sequences of waiters whose claims
stay, implement `FairClaims` (now read off its definition); the safety half of
`EveryMutationReturns`, a bound on how often a waiter derives its claim again; and the
invariants of the modules above as they are written.
