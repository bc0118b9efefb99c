----------------------------- MODULE JobRunner -----------------------------
(***************************************************************************)
(* The job runner of one server process (apps/server/consumers/            *)
(* jobRunner.ts) over the durable queue of `JobQueue`, with the two kinds  *)
(* of handler it runs: an export publishes an artifact by renaming a       *)
(* per-run temp over a file named from the job id (exportJob.ts), an       *)
(* import takes a reservation first (importJob.ts).                        *)
(*                                                                         *)
(* A run is keyed by its lease: while a job is reaped and claimed again,   *)
(* two runs of it are in flight.  Calls to the meta-DB are atomic and do   *)
(* not fail; file removal may fail.  The maintenance steps are separate    *)
(* actions in no fixed order: the interval timer starts a tick whether or  *)
(* not the previous one is done, so the steps of two ticks interleave.     *)
(***************************************************************************)
EXTENDS JobQueue

CONSTANTS
    Concurrency,   \* jobs running at once in the process
    MaxRestarts    \* bound on the crashes and graceful stops together

ASSUME JobRunnerAssumption ==
    /\ Concurrency \in Nat \ {0}
    /\ MaxRestarts \in Nat

VARIABLES
    proc,       \* "up", "stopping", "stopped", "abandoned" or "down"
    loops,      \* claim loops past the entry test of claimLoop
    stage,      \* per lease: where its run stands
    aborted,    \* leases whose AbortSignal fired
    awaited,    \* leases whose runs stop() waits for
    file,       \* jobs whose artifact file exists under its final name
    held,       \* jobs with a row in import_reservations
    collecting, \* jobs whose expired file is deleted, the pointer not yet cleared
    restarts

runnerVars == <<proc, loops, stage, aborted, awaited, file, held, collecting, restarts>>
vars == <<queueVars, runnerVars>>

\* The handler is at work, or what it returned or threw is being recorded.
AtWork == {"handling", "reported"}
Thrown == {"aborted", "doomed", "faulty"}
Stages == AtWork \cup Thrown
          \cup {"none", "published", "finished", "lost", "releasing", "failing",
                "failingFast", "closing", "gone"}

JobOf(l) == claim[l].job
Inflight == {l \in Leases : stage[l] \notin {"none", "gone"}}
Ended(j) == row[j].status \in Terminal \cup {"absent"}

Alive == proc # "down"
Serving == proc = "up"

Init2 ==
    /\ Init
    /\ proc = "up" /\ loops = 0 /\ restarts = 0
    /\ stage = [l \in Leases |-> "none"]
    /\ aborted = {} /\ awaited = {} /\ file = {} /\ held = {} /\ collecting = {}

GoTo(l, s) == stage' = [stage EXCEPT ![l] = s]

-----------------------------------------------------------------------------
(* The claim loop.                                                         *)

\* Mutant: no `claiming` flag keeps a second loop out.
EnterClaimLoopAgain ==
    /\ Serving
    /\ loops < 2
    /\ Cardinality(Inflight) < Concurrency
    /\ loops' = loops + 1
    /\ UNCHANGED <<queueVars, proc, stage, aborted, awaited, file, held, collecting, restarts>>

\* The tests at the entry and at the head of the while loop; the loop then
\* waits for the mutation gate and for claimNext.
EnterClaimLoop ==
    /\ Serving
    /\ loops = 0
    /\ Cardinality(Inflight) < Concurrency
    /\ loops' = loops + 1
    /\ UNCHANGED <<queueVars, proc, stage, aborted, awaited, file, held, collecting, restarts>>

\* claimNext returns a job; it is launched without another look at the flags,
\* and only then the head of the loop is tested again.
ClaimAndLaunch(l, j) ==
    /\ Alive /\ loops > 0
    /\ ClaimNext(l, j)
    /\ GoTo(l, "handling")
    /\ loops' = IF Serving /\ Cardinality(Inflight) + 1 < Concurrency THEN loops ELSE loops - 1
    /\ UNCHANGED <<proc, aborted, awaited, file, held, collecting, restarts>>

ClaimNothing ==
    /\ Alive /\ loops > 0
    /\ \A j \in Jobs : ~(row[j].status = "pending" /\ row[j].due)
    /\ loops' = loops - 1
    /\ UNCHANGED <<queueVars, proc, stage, aborted, awaited, file, held, collecting, restarts>>

-----------------------------------------------------------------------------
(* One run.                                                                *)

\* Mutant: a shutdown is handled like any other time.
CaughtAsUsual(error) == error

\* The catch block: a shutdown releases whatever the error was.
Caught(error) == IF Serving THEN error ELSE "releasing"

\* The timer: a heartbeat that finds the row taken aborts the handler.
HeartbeatTick(l) ==
    /\ Alive
    /\ stage[l] \in AtWork \cup {"published", "finished"}
    /\ l \notin aborted
    /\ Heartbeat(l)
    /\ aborted' = IF Holds(row[JobOf(l)], l) THEN aborted ELSE aborted \cup {l}
    /\ UNCHANGED <<proc, loops, stage, awaited, file, held, collecting, restarts>>

\* An import reserves its destinations, under the lease.
Reserve(l) ==
    /\ Alive
    /\ stage[l] = "handling"
    /\ Holds(row[JobOf(l)], l)
    /\ held' = held \cup {JobOf(l)}
    /\ UNCHANGED <<queueVars, proc, loops, stage, aborted, awaited, file, collecting, restarts>>

\* The handler fails: on its signal, on bad input, or on a transient fault,
\* which may also meet the rename or the stat that follows it.
Throw(l, error) ==
    /\ Alive
    /\ \/ stage[l] = "handling"
       \/ stage[l] \in {"reported", "published"} /\ error = "faulty"
    /\ error = "aborted" => l \in aborted
    /\ GoTo(l, Caught(error))
    /\ UNCHANGED <<queueVars, proc, loops, aborted, awaited, file, held, collecting, restarts>>

\* The handler's last report proves the lease once more.
FinalReport(l) ==
    /\ Alive
    /\ stage[l] = "handling"
    /\ Heartbeat(l)
    /\ IF Holds(row[JobOf(l)], l)
         THEN GoTo(l, "reported") /\ UNCHANGED aborted
         ELSE GoTo(l, Caught("aborted")) /\ aborted' = aborted \cup {l}
    /\ UNCHANGED <<proc, loops, awaited, file, held, collecting, restarts>>

\* An export renames its temp over the final name.
Publish(l) ==
    /\ Alive
    /\ stage[l] = "reported"
    /\ file' = file \cup {JobOf(l)}
    /\ GoTo(l, "published")
    /\ UNCHANGED <<queueVars, proc, loops, aborted, awaited, held, collecting, restarts>>

\* An import returns a result and no artifact.
Finish(l) ==
    /\ Alive
    /\ stage[l] = "reported"
    /\ GoTo(l, "finished")
    /\ UNCHANGED <<queueVars, proc, loops, aborted, awaited, file, held, collecting, restarts>>

RecordSuccess(l) ==
    /\ Alive
    /\ stage[l] \in {"published", "finished"}
    /\ Succeed(l, stage[l] = "published")
    /\ GoTo(l, IF stage[l] = "published" /\ ~Holds(row[JobOf(l)], l) THEN "lost" ELSE "closing")
    /\ UNCHANGED <<proc, loops, aborted, awaited, file, held, collecting, restarts>>

\* Mutant: every run that lost its lease takes its artifact away.
DropAnyArtifact(l) ==
    /\ Alive
    /\ stage[l] = "lost"
    /\ \/ file' = file \ {JobOf(l)}
       \/ UNCHANGED file
    /\ GoTo(l, "closing")
    /\ UNCHANGED <<queueVars, proc, loops, aborted, awaited, held, collecting, restarts>>

\* Published, but the lease was lost: only a cancel takes the file away.
DropCanceledArtifact(l) ==
    /\ Alive
    /\ stage[l] = "lost"
    /\ \/ row[JobOf(l)].status = "canceled" /\ file' = file \ {JobOf(l)}
       \/ UNCHANGED file
    /\ GoTo(l, "closing")
    /\ UNCHANGED <<queueVars, proc, loops, aborted, awaited, held, collecting, restarts>>

\* The catch block reads the row before it decides.
Judge(l) ==
    /\ Alive
    /\ stage[l] \in Thrown
    /\ GoTo(l, IF stage[l] = "aborted" \/ row[JobOf(l)].status = "canceled" THEN "closing"
               ELSE IF stage[l] = "doomed" THEN "failingFast" ELSE "failing")
    /\ UNCHANGED <<queueVars, proc, loops, aborted, awaited, file, held, collecting, restarts>>

RecordFailure(l) ==
    /\ Alive
    /\ stage[l] \in {"failing", "failingFast"}
    /\ Fail(l, stage[l] = "failing" /\ MayRetry(l))
    /\ GoTo(l, "closing")
    /\ UNCHANGED <<proc, loops, aborted, awaited, file, held, collecting, restarts>>

\* Mutant: the row is given back without proving the lease.
ReleaseRunUnfenced(l) ==
    /\ Alive
    /\ stage[l] = "releasing"
    /\ row' = [row EXCEPT ![JobOf(l)] = Released(@)]
    /\ GoTo(l, "gone")
    /\ UNCHANGED <<claim, proc, loops, aborted, awaited, file, held, collecting, restarts>>

ReleaseRun(l) ==
    /\ Alive
    /\ stage[l] = "releasing"
    /\ Release(l)
    /\ GoTo(l, "gone")
    /\ UNCHANGED <<proc, loops, aborted, awaited, file, held, collecting, restarts>>

\* Mutant: a canceled job is taken for a live one.
OpenUnlessRecorded == {j \in held : row[j].status \notin {"succeeded", "failed", "absent"}}

\* closeTerminalImportReservations: a pending or running job keeps its claims.
OpenReservations == {j \in held : ~Ended(j)}

\* afterTerminal, the last thing a recorded run does.
CloseRun(l) ==
    /\ Alive
    /\ stage[l] = "closing"
    /\ held' = OpenReservations
    /\ GoTo(l, "gone")
    /\ UNCHANGED <<queueVars, proc, loops, aborted, awaited, file, collecting, restarts>>

RunStep(l) ==
    \/ \E error \in Thrown : Throw(l, error)
    \/ Reserve(l) \/ FinalReport(l) \/ Publish(l) \/ Finish(l)
    \/ RecordSuccess(l) \/ DropCanceledArtifact(l) \/ Judge(l) \/ RecordFailure(l)
    \/ ReleaseRun(l) \/ CloseRun(l)

-----------------------------------------------------------------------------
(* The maintenance tick.                                                   *)

ReapStale(j) ==
    /\ Alive
    /\ Reap(j)
    /\ UNCHANGED runnerVars

CloseTerminalReservations ==
    /\ Alive
    /\ held' = OpenReservations
    /\ UNCHANGED <<queueVars, proc, loops, stage, aborted, awaited, file, collecting, restarts>>

\* Delete the file; on a failure the pointer stays for a later tick.
CollectArtifact(j) ==
    /\ Alive
    /\ row[j].ref /\ row[j].expired
    /\ file' = file \ {j}
    /\ collecting' = collecting \cup {j}
    /\ UNCHANGED <<queueVars, proc, loops, stage, aborted, awaited, held, restarts>>

ClearPointer(j) ==
    /\ Alive
    /\ j \in collecting
    /\ ClearArtifact(j)
    /\ collecting' = collecting \ {j}
    /\ UNCHANGED <<proc, loops, stage, aborted, awaited, file, held, restarts>>

\* Mutant: retention does not ask for reservations.
PruneAnyRow ==
    /\ Alive
    /\ Prune({})
    /\ UNCHANGED runnerVars

PruneRows ==
    /\ Alive
    /\ Prune(held)
    /\ UNCHANGED runnerVars

-----------------------------------------------------------------------------
(* The process and its environment.                                        *)

Dies ==
    /\ proc' = "down"
    /\ loops' = 0
    /\ stage' = [l \in Leases |-> IF l \in Inflight THEN "gone" ELSE stage[l]]
    /\ aborted' = {} /\ awaited' = {} /\ collecting' = {}
    /\ UNCHANGED <<queueVars, file, held>>

\* stop(): the runs in flight at this moment are aborted and awaited.
Stop ==
    /\ Serving
    /\ restarts < MaxRestarts
    /\ restarts' = restarts + 1
    /\ proc' = "stopping"
    /\ aborted' = aborted \cup Inflight
    /\ awaited' = Inflight
    /\ UNCHANGED <<queueVars, loops, stage, file, held, collecting>>

StopReturns ==
    /\ proc = "stopping"
    /\ awaited \cap Inflight = {}
    /\ proc' = "stopped"
    /\ UNCHANGED <<queueVars, loops, stage, aborted, awaited, file, held, collecting, restarts>>

\* stopTimeoutMs: a handler that ignores its signal is left behind.
StopTimesOut ==
    /\ proc = "stopping"
    /\ awaited \cap Inflight # {}
    /\ proc' = "abandoned"
    /\ UNCHANGED <<queueVars, loops, stage, aborted, awaited, file, held, collecting, restarts>>

\* Only rows and files survive.
Crash ==
    /\ Alive
    /\ restarts < MaxRestarts
    /\ restarts' = restarts + 1
    /\ Dies

Exit ==
    /\ proc \in {"stopped", "abandoned"}
    /\ Dies
    /\ UNCHANGED restarts

Restart ==
    /\ proc = "down"
    /\ proc' = "up"
    /\ UNCHANGED <<queueVars, loops, stage, aborted, awaited, file, held, collecting, restarts>>

\* The API: POST jobs, POST cancel.
Client(j) ==
    /\ Enqueue(j) \/ Cancel(j)
    /\ UNCHANGED runnerVars

Clock(j) ==
    /\ TimePasses(j)
    /\ UNCHANGED runnerVars

RunnerNext ==
    \/ EnterClaimLoop \/ ClaimNothing
    \/ \E l \in Leases, j \in Jobs : ClaimAndLaunch(l, j)
    \/ \E l \in Leases : RunStep(l) \/ HeartbeatTick(l)
    \/ \E j \in Jobs : ReapStale(j) \/ CollectArtifact(j) \/ ClearPointer(j)
                         \/ Client(j) \/ Clock(j)
    \/ CloseTerminalReservations \/ PruneRows
    \/ Stop \/ StopReturns \/ StopTimesOut \/ Crash \/ Exit \/ Restart

RunnerSpec == Init2 /\ [][RunnerNext]_vars

\* The event loop runs what is ready, handlers return or throw, timers fire,
\* and a supervisor brings a process back that was told to stop or that died.
RunnerFairness ==
    /\ WF_vars(EnterClaimLoop) /\ WF_vars(ClaimNothing)
    /\ WF_vars(\E l \in Leases, j \in Jobs : ClaimAndLaunch(l, j))
    /\ \A l \in Leases :
          /\ WF_vars(FinalReport(l)) /\ WF_vars(Publish(l) \/ Finish(l))
          /\ WF_vars(RecordSuccess(l)) /\ WF_vars(DropCanceledArtifact(l))
          /\ WF_vars(Judge(l)) /\ WF_vars(RecordFailure(l))
          /\ WF_vars(ReleaseRun(l)) /\ WF_vars(CloseRun(l))
    /\ \A j \in Jobs : WF_vars(ReapStale(j)) /\ WF_vars(Clock(j))
    /\ WF_vars(CloseTerminalReservations)
    /\ WF_vars(StopReturns \/ StopTimesOut) /\ WF_vars(Exit) /\ WF_vars(Restart)

FairRunnerSpec == RunnerSpec /\ RunnerFairness

-----------------------------------------------------------------------------
(* Properties.                                                             *)

RunnerTypeOK ==
    /\ proc \in {"up", "stopping", "stopped", "abandoned", "down"}
    /\ loops \in 0 .. 1 /\ restarts \in 0 .. MaxRestarts
    /\ stage \in [Leases -> Stages]
    /\ aborted \subseteq Inflight \cup {l \in Leases : stage[l] = "gone"}
    /\ awaited \in SUBSET Leases
    /\ file \in SUBSET Jobs /\ held \in SUBSET Jobs /\ collecting \in SUBSET Jobs

\* WHAT THE ROW PROMISES IS THERE.  A success whose artifact has not expired
\* can be downloaded, although a run that lost the same job may still publish
\* over the file or clean up after itself.
ArtifactServed ==
    \A j \in Jobs :
        row[j].status = "succeeded" /\ row[j].ref /\ ~row[j].expired => j \in file

\* `concurrency` bounds the runs in flight, those of lost leases included: the
\* test of the bound and the launch are two awaits apart.
ConcurrencyCap == Cardinality(Inflight) <= Concurrency

\* Retention never deletes the row that proves an import ended while its
\* reservation is open.
EvidenceKept == \A j \in held : row[j].status # "absent"

\* GIVEN BACK.  When stop() returns because the drain won, no run it waited for
\* still owns its job: each was recorded or released with its attempt refunded.
StopReleases ==
    proc = "stopped" => \A l \in awaited : ~Holds(row[JobOf(l)], l)

\* Under a live process, an interrupted one and a new one alike, the runner
\* drives the table only through the statements' contract.
QueueContract == Spec

\* Every job that is enqueued ends, whatever restarts, faults and lost leases
\* its runs meet: it is not retried forever and not left running by the dead.
JobsEnd ==
    \A j \in Jobs : row[j].status = "pending" ~> Ended(j)

\* The destinations of an import that ended are given free.
ClaimsClosed ==
    \A j \in Jobs : (j \in held /\ Ended(j)) ~> (j \notin held)

\* docs/jobs.md: the temp parts are "the one artifact class the row-driven GC
\* cannot see".  So a published file of a job that ended belongs to a row that
\* points at it, once no run of the job is left to take it away.
OrphansAreTempsOnly ==
    \A j \in file :
        Ended(j) /\ (\A l \in Inflight : JobOf(l) # j) /\ proc = "up" => row[j].ref

\* jobRunner.ts: "Stop: abort in-flight handlers, release their jobs, await the
\* drain."  When the drain won, no handler is at work.
StopDrains == proc = "stopped" => Inflight = {}

=============================================================================
