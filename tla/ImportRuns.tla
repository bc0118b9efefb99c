----------------------------- MODULE ImportRuns -----------------------------
(***************************************************************************)
(* The runs of Markdown-tree imports over the durable queue of `JobQueue`: *)
(*   services/metaDb/drivers/sqlite/importReservations.ts  the per-job     *)
(*       guard, the reservation of destinations and its fence;             *)
(*   apps/server/consumers/importJob.ts, services/import/importService.ts  *)
(*       what one run does: load the plan or settle and publish one, claim *)
(*       the destinations, report `writing`, write each entry fenced;      *)
(*   libs/importStaging/importStaging.ts                   the plan file.  *)
(*                                                                         *)
(* A run is keyed by its lease, and so are the plan it settles and the     *)
(* fence it takes, of which it makes at most one.  The guard of a job is   *)
(* the FIFO of the calls that hold or await it; every call but a fenced    *)
(* write is one synchronous step once it is at the head.  The importer of  *)
(* a foreign archive has neither plan nor fence and is not modelled.       *)
(***************************************************************************)
EXTENDS JobQueue, Sequences

CONSTANTS
    Cancelable,    \* jobs that a user may cancel
    MaxRestarts    \* bound on the crashes and graceful stops together

Outside == {"cancel", "reap", "close"}     \* the guarded calls that no run makes

ASSUME ImportAssumption ==
    /\ Cancelable \subseteq Jobs
    /\ MaxRestarts \in Nat
    /\ Leases \cap Outside = {}

VARIABLES
    phase,      \* per job: the persisted jobs.phase, "none" for NULL
    header,     \* per job: its row of import_reservations
    sidecar,    \* per job: the usable plan file, NoLease when missing or torn
    landed,     \* per job: the plans its notes on disk were written under
    replanned,  \* jobs whose persisted phase fell back from writing to planning
    guard,      \* per job: withJobGuard's calls, the holder first
    at,         \* per lease: where its run stands
    base,       \* per lease: persistedPhase, the phase its claim returned
    plan,       \* per lease: the plan in its hands
    fence,      \* per lease: the fence its claim of the destinations returned
    judged,     \* jobs a pass of the terminal cleanup has read as ended
    stopping,   \* stop() was called
    restarts

store == <<phase, header, sidecar, landed, replanned>>
run == <<at, base, plan, fence>>
proc == <<guard, judged, stopping, restarts>>
vars == <<queueVars, store, run, proc>>

Phases == {"none", "planning", "writing", "done"}
Free == [fence |-> NoLease, status |-> "free"]
Headers == {Free} \cup [fence : Leases, status : {"active", "closing"}]

\* Inside the guard: the premise was proved, bytes may be on their way.
Entered == {"placing", "published", "landing"}
Asking == {"claiming", "reserving", "publishing", "writing"}
Unguarded == {"loading", "scanning", "starting"}
Stages == Entered \cup Asking \cup Unguarded
          \cup {"none", "finished", "doomed", "faulty", "ended"}

JobOf(l) == claim[l].job
InFlight(l) == at[l] \notin {"none", "ended"}
Mine(l) == Holds(row[JobOf(l)], l)
Ended(j) == row[j].status \in Terminal

Queued(j, call) == \E i \in 1 .. Len(guard[j]) : guard[j][i] = call
AtHead(j, call) == guard[j] # <<>> /\ Head(guard[j]) = call
Calls(j, call) == guard' = [guard EXCEPT ![j] = Append(@, call)]

\* Mutant: the guard is not handed on when the call is refused.
LeavesUnlessRefused(j) ==
    guard' = IF row[j].status = "running" THEN [guard EXCEPT ![j] = Tail(@)] ELSE guard

Leaves(j) == guard' = [guard EXCEPT ![j] = Tail(@)]

\* A run between two calls.
Idle(l) == at[l] \in Unguarded \cup Asking /\ ~Queued(JobOf(l), l)

GoTo(l, stage) == at' = [at EXCEPT ![l] = stage]

\* The run is over, and what it held in its hands is forgotten.
Ends(over) ==
    /\ at' = [l \in Leases |-> IF l \in over THEN "ended" ELSE at[l]]
    /\ base' = [l \in Leases |-> IF l \in over THEN "none" ELSE base[l]]
    /\ plan' = [l \in Leases |-> IF l \in over THEN NoLease ELSE plan[l]]
    /\ fence' = [l \in Leases |-> IF l \in over THEN NoLease ELSE fence[l]]

ImportInit ==
    /\ Init
    /\ phase = [j \in Jobs |-> "none"] /\ header = [j \in Jobs |-> Free]
    /\ sidecar = [j \in Jobs |-> NoLease] /\ landed = [j \in Jobs |-> {}]
    /\ replanned = {}
    /\ guard = [j \in Jobs |-> <<>>]
    /\ at = [l \in Leases |-> "none"] /\ base = [l \in Leases |-> "none"]
    /\ plan = [l \in Leases |-> NoLease] /\ fence = [l \in Leases |-> NoLease]
    /\ judged = {} /\ stopping = FALSE /\ restarts = 0

-----------------------------------------------------------------------------
(* Reports.  A heartbeat takes no guard; it writes only under the lease.   *)

\* Proves the lease, persists `newPhase` and goes on; or aborts the run.
Reports(l, newPhase, next) ==
    LET j == JobOf(l) IN
    /\ Heartbeat(l)
    /\ IF Mine(l) THEN GoTo(l, next) /\ UNCHANGED <<base, plan, fence>> ELSE Ends({l})
    /\ phase' = IF Mine(l) THEN [phase EXCEPT ![j] = newPhase] ELSE phase
    /\ replanned' = IF Mine(l) /\ newPhase = "planning" /\ phase[j] \in {"writing", "done"}
                      THEN replanned \cup {j} ELSE replanned
    /\ UNCHANGED <<header, sidecar, landed, proc>>

\* The runner's timer keeps the lease of a slow run, inside the guard too.
HeartbeatTick(l) ==
    /\ InFlight(l)
    /\ Heartbeat(l)
    /\ UNCHANGED <<store, run, proc>>

-----------------------------------------------------------------------------
(* The plan.                                                               *)

ClaimJob(l, j) ==
    /\ ~stopping
    /\ ClaimNext(l, j)
    /\ GoTo(l, "loading")
    /\ base' = [base EXCEPT ![l] = phase[j]]
    /\ UNCHANGED <<store, plan, fence, proc>>

LoadPlan(l) ==
    /\ at[l] = "loading"
    /\ IF sidecar[JobOf(l)] # NoLease
         THEN plan' = [plan EXCEPT ![l] = sidecar[JobOf(l)]] /\ GoTo(l, "claiming")
         ELSE GoTo(l, "scanning") /\ UNCHANGED plan
    /\ UNCHANGED <<queueVars, store, base, fence, proc>>

\* onScanProgress, after every batch of members of the archive.
ReportScan(l) ==
    /\ at[l] = "scanning"
    /\ Reports(l, "planning", "scanning")

\* Mutant: a denylist of `writing`.
MayPlanUnlessWriting(l) == base[l] # "writing"

\* PHASES_BEFORE_WRITING
MayPlan(l) == base[l] \in {"none", "planning"}

\* Classification ended on a tree; a missing plan is settled anew, or refused.
SettlePlan(l) ==
    /\ at[l] = "scanning"
    /\ IF MayPlan(l)
         THEN plan' = [plan EXCEPT ![l] = l] /\ GoTo(l, "claiming")
         ELSE GoTo(l, "doomed") /\ UNCHANGED plan
    /\ UNCHANGED <<queueVars, store, base, fence, proc>>

-----------------------------------------------------------------------------
(* The reservation.                                                        *)

AskGuard(l) ==
    /\ at[l] \in Asking /\ Idle(l)
    /\ Calls(JobOf(l), l)
    /\ UNCHANGED <<queueVars, store, run, judged, stopping, restarts>>

\* A plan the run settled itself is still to be published.
HasClaim(l) == IF plan[l] = l THEN "publishing" ELSE "starting"

\* adopt: take the reservation of this upload over, under a new fence.  With
\* none to adopt, or one that is being closed, the run goes on to reserve.
Adopt(l) ==
    LET j == JobOf(l) IN
    /\ at[l] = "claiming" /\ AtHead(j, l)
    /\ \/ /\ ~Mine(l)
          /\ GoTo(l, "doomed")
          /\ UNCHANGED <<header, fence>>
       \/ /\ Mine(l) /\ header[j].status # "active"
          /\ GoTo(l, "reserving")
          /\ UNCHANGED <<header, fence>>
       \/ /\ Mine(l) /\ header[j].status = "active"
          /\ header' = [header EXCEPT ![j] = [fence |-> l, status |-> "active"]]
          /\ fence' = [fence EXCEPT ![l] = l]
          /\ GoTo(l, HasClaim(l))
    /\ Leaves(j)
    /\ UNCHANGED <<queueVars, phase, sidecar, landed, replanned, base, plan, judged, stopping, restarts>>

\* reserve: the reservation of this very job is read back as it stands.  A
\* new one is refused when another import has one of the destinations `taken`.
Reserve(l, taken) ==
    LET j == JobOf(l)
        refused == \/ ~Mine(l)
                   \/ header[j].status = "closing"
                   \/ header[j].status = "free" /\ taken IN
    /\ at[l] = "reserving" /\ AtHead(j, l)
    /\ \/ /\ refused
          /\ GoTo(l, "doomed")
          /\ UNCHANGED <<header, fence>>
       \/ /\ ~refused
          /\ header' = IF header[j].status = "free"
                         THEN [header EXCEPT ![j] = [fence |-> l, status |-> "active"]]
                         ELSE header
          /\ fence' = [fence EXCEPT ![l] = header'[j].fence]
          /\ GoTo(l, HasClaim(l))
    /\ Leaves(j)
    /\ UNCHANGED <<queueVars, phase, sidecar, landed, replanned, base, plan, judged, stopping, restarts>>

\* What withFencedWrite proves before it lets the caller's write go.
Premise(l) ==
    /\ Mine(l)
    /\ header[JobOf(l)] = [fence |-> fence[l], status |-> "active"]

\* Refused, it throws and leaves the guard; granted, it stays inside.
EnterFence(l, from, inside, refused) ==
    /\ at[l] = from /\ AtHead(JobOf(l), l)
    /\ IF Premise(l) THEN GoTo(l, inside) /\ UNCHANGED guard
                     ELSE GoTo(l, refused) /\ Leaves(JobOf(l))
    /\ UNCHANGED <<queueVars, store, base, plan, fence, judged, stopping, restarts>>

-----------------------------------------------------------------------------
(* The publication of the plan, inside the fence of one destination.       *)

\* Not an ImportError: the attempt is retried.
EnterPublication(l) == EnterFence(l, "publishing", "placing", "faulty")

\* publishPlan: linked, or renamed over an unusable file; a plan that another
\* run could execute is never clobbered.
PublishPlan(l) ==
    LET j == JobOf(l) IN
    /\ at[l] = "placing"
    /\ sidecar' = IF sidecar[j] = NoLease THEN [sidecar EXCEPT ![j] = l] ELSE sidecar
    /\ GoTo(l, "published")
    /\ UNCHANGED <<queueVars, phase, header, landed, replanned, base, plan, fence, proc>>

\* Mutant: what is read back is not looked at.
ReadBackBlindly(l) ==
    /\ at[l] = "published"
    /\ plan' = [plan EXCEPT ![l] = sidecar[JobOf(l)]] /\ GoTo(l, "starting")
    /\ Leaves(JobOf(l))
    /\ UNCHANGED <<queueVars, store, base, fence, judged, stopping, restarts>>

\* The run executes what is on disk, whoever put it there.
ReadBack(l) ==
    LET standing == sidecar[JobOf(l)] IN
    /\ at[l] = "published"
    /\ IF standing # NoLease
         THEN plan' = [plan EXCEPT ![l] = standing] /\ GoTo(l, "starting")
         ELSE GoTo(l, "faulty") /\ UNCHANGED plan
    /\ Leaves(JobOf(l))
    /\ UNCHANGED <<queueVars, store, base, fence, judged, stopping, restarts>>

-----------------------------------------------------------------------------
(* The writes.                                                             *)

\* The first report of the writing phase comes before the first write.
StartWriting(l) ==
    /\ at[l] = "starting"
    /\ Reports(l, "writing", "writing")

EnterWrite(l) == EnterFence(l, "writing", "landing", "doomed")

\* One entry is written, skipped, or recorded as failed; the rest go on.
Land(l) ==
    LET j == JobOf(l) IN
    /\ at[l] = "landing"
    /\ landed' \in {landed, [landed EXCEPT ![j] = @ \cup {plan[l]}]}
    /\ GoTo(l, "writing")
    /\ Leaves(j)
    /\ UNCHANGED <<queueVars, phase, header, sidecar, replanned, base, plan, fence,
                   judged, stopping, restarts>>

\* The handler's last report, after the last entry.
FinishWriting(l) ==
    /\ at[l] = "writing" /\ Idle(l)
    /\ Reports(l, "done", "finished")

-----------------------------------------------------------------------------
(* The end of a run.                                                       *)

\* The signal fired because the row was taken, and the run comes by a check.
NoticeAbort(l) ==
    /\ Idle(l) /\ ~Mine(l)
    /\ Ends({l})
    /\ UNCHANGED <<queueVars, store, proc>>

\* A transient fault, or the signal of stop().
Throw(l) ==
    /\ Idle(l)
    /\ GoTo(l, "faulty")
    /\ UNCHANGED <<queueVars, store, base, plan, fence, proc>>

\* The runner records what the handler returned or threw, under the lease.
Record(l) ==
    /\ at[l] \in {"finished", "doomed", "faulty"}
    /\ \/ at[l] = "finished" /\ Succeed(l, FALSE)
       \/ at[l] # "finished" /\ stopping /\ Release(l)
       \/ at[l] # "finished" /\ ~stopping /\ Fail(l, at[l] = "faulty" /\ MayRetry(l))
    /\ Ends({l})
    /\ UNCHANGED <<store, proc>>

RunStep(l) ==
    \/ LoadPlan(l) \/ ReportScan(l) \/ SettlePlan(l)
    \/ AskGuard(l) \/ Adopt(l) \/ (\E taken \in BOOLEAN : Reserve(l, taken))
    \/ EnterPublication(l) \/ PublishPlan(l) \/ ReadBack(l)
    \/ StartWriting(l) \/ EnterWrite(l) \/ Land(l) \/ FinishWriting(l)
    \/ NoticeAbort(l) \/ Throw(l) \/ Record(l)

-----------------------------------------------------------------------------
(* The guarded calls from outside a run.  A second call of the same kind   *)
(* that waits behind the first is left out: it finds nothing left to do.   *)

Call(j, call) ==
    /\ ~Queued(j, call)
    /\ Calls(j, call)
    /\ UNCHANGED <<queueVars, store, run, judged, stopping, restarts>>

\* Mutant: the cancel does not wait for the guard.
CancelAtOnce(j) ==
    /\ j \in Cancelable
    /\ Cancel(j)
    /\ UNCHANGED <<store, run, proc>>

AskCancel(j) ==
    /\ j \in Cancelable
    /\ row[j].status \in {"pending", "running"}
    /\ Call(j, "cancel")

CancelLands(j) ==
    /\ AtHead(j, "cancel")
    /\ UpdateIf(j, row[j].status \in {"pending", "running"}, Unlocked(row[j], "canceled"))
    /\ Leaves(j)
    /\ UNCHANGED <<claim, store, run, judged, stopping, restarts>>

AskReap(j) ==
    /\ ~stopping
    /\ row[j].status = "running" /\ row[j].stale
    /\ Call(j, "reap")

\* Judged again under the guard: a heartbeat may have come in between.
ReapLands(j) ==
    /\ AtHead(j, "reap")
    /\ Reap(j)
    /\ Leaves(j)
    /\ UNCHANGED <<store, run, judged, stopping, restarts>>

\* Mutant: whatever does not run has ended.
JudgeIdle(j) ==
    /\ header[j].status # "free" /\ row[j].status # "running"
    /\ judged' = judged \cup {j}
    /\ UNCHANGED <<queueVars, store, run, guard, stopping, restarts>>

\* closeTerminalImportReservations, after a run and in every tick, reads the
\* row of a job with a reservation, outside the guard ...
JudgeEnded(j) ==
    /\ header[j].status # "free" /\ Ended(j)
    /\ judged' = judged \cup {j}
    /\ UNCHANGED <<queueVars, store, run, guard, stopping, restarts>>

\* ... and then calls closeForJob.
AskClose(j) ==
    /\ j \in judged
    /\ ~Queued(j, "close")
    /\ Calls(j, "close")
    /\ judged' = judged \ {j}
    /\ UNCHANGED <<queueVars, store, run, stopping, restarts>>

\* closeForJob
CloseLands(j) ==
    /\ AtHead(j, "close")
    /\ header' = [header EXCEPT ![j] = Free]
    /\ Leaves(j)
    /\ UNCHANGED <<queueVars, phase, sidecar, landed, replanned, run, judged, stopping, restarts>>

GuardedCall(j) == CancelLands(j) \/ ReapLands(j) \/ CloseLands(j)

-----------------------------------------------------------------------------
(* The environment.                                                        *)

Submit(j) ==
    /\ Enqueue(j)
    /\ UNCHANGED <<store, run, proc>>

Clock(j) ==
    /\ row[j].status \in {"pending", "running"}
    /\ TimePasses(j)
    /\ UNCHANGED <<store, run, proc>>

\* The plan file is missing or no longer readable.
LosePlan(j) ==
    /\ sidecar' = [sidecar EXCEPT ![j] = NoLease]
    /\ UNCHANGED <<queueVars, phase, header, landed, replanned, run, proc>>

Stop ==
    /\ ~stopping /\ restarts < MaxRestarts
    /\ stopping' = TRUE /\ restarts' = restarts + 1
    /\ UNCHANGED <<queueVars, store, run, guard, judged>>

\* Runs and guards are gone; a close may be cut between its two statements.
Dies ==
    /\ Ends({l \in Leases : InFlight(l)})
    /\ guard' = [j \in Jobs |-> <<>>] /\ judged' = {}
    /\ \E cut \in SUBSET {j \in Jobs : AtHead(j, "close") /\ header[j].status # "free"} :
          header' = [j \in Jobs |-> IF j \in cut
                                        THEN [fence |-> header[j].fence, status |-> "closing"]
                                        ELSE header[j]]

\* A crash, or the exit that ends a graceful stop; the process comes up again.
Restart ==
    /\ stopping \/ restarts < MaxRestarts
    /\ restarts' = IF stopping THEN restarts ELSE restarts + 1
    /\ stopping' = FALSE
    /\ Dies
    /\ UNCHANGED <<queueVars, phase, sidecar, landed, replanned>>

ImportNext ==
    \/ \E l \in Leases : RunStep(l) \/ HeartbeatTick(l)
    \/ \E l \in Leases, j \in Jobs : ClaimJob(l, j)
    \/ \E j \in Jobs :
          \/ AskCancel(j) \/ AskReap(j) \/ JudgeEnded(j) \/ AskClose(j) \/ GuardedCall(j)
          \/ Submit(j) \/ Clock(j) \/ LosePlan(j)
    \/ Stop \/ Restart

ImportSpec == ImportInit /\ [][ImportNext]_vars

\* A call that has the guard runs to its end.
InGuard(l) ==
    \/ Adopt(l) \/ (\E taken \in BOOLEAN : Reserve(l, taken)) \/ EnterWrite(l) \/ Land(l)
    \/ EnterPublication(l) \/ PublishPlan(l) \/ ReadBack(l)

FairImportSpec ==
    /\ ImportSpec
    /\ \A l \in Leases : WF_vars(InGuard(l))
    /\ \A j \in Jobs : WF_vars(GuardedCall(j))

-----------------------------------------------------------------------------
(* Properties.                                                             *)

ImportTypeOK ==
    /\ TypeOK
    /\ phase \in [Jobs -> Phases] /\ header \in [Jobs -> Headers]
    /\ sidecar \in [Jobs -> Leases \cup {NoLease}]
    /\ landed \in [Jobs -> SUBSET Leases] /\ replanned \in SUBSET Jobs
    /\ guard \in [Jobs -> Seq(Leases \cup Outside)]
    /\ at \in [Leases -> Stages] /\ base \in [Leases -> Phases]
    /\ plan \in [Leases -> Leases \cup {NoLease}]
    /\ fence \in [Leases -> Leases \cup {NoLease}]
    /\ judged \in SUBSET Jobs /\ stopping \in BOOLEAN /\ restarts \in 0 .. MaxRestarts
    /\ \A l \in Leases :
          at[l] \in Entered \cup {"publishing", "starting", "writing"}
             => plan[l] \in Leases /\ fence[l] \in Leases

\* NO WRITE OUTLIVES ITS RIGHT.  While the bytes of a note or of the plan are
\* on their way, the job still runs under the writer's lease and its
\* reservation still carries the writer's fence: a cancel, a reap, a later
\* claim or a close that comes meanwhile waits for the entry to land.
WritesAreFenced ==
    \A l \in Leases : at[l] \in Entered => Premise(l)

\* A run that owns its job is never refused by its own fence: nothing of an
\* earlier run or of a cleanup that was late takes the reservation from it.
OwnerKeepsClaim ==
    \A l \in Leases :
        InFlight(l) /\ Mine(l) /\ fence[l] # NoLease
           => header[JobOf(l)] = [fence |-> fence[l], status |-> "active"]

\* ONE PLAN.  All notes of an import come from one plan, whichever runs wrote
\* them and whenever the plan file was lost, as long as the persisted phase
\* did not fall back from writing to planning.
OnePlanUnlessReplanned ==
    \A j \in Jobs \ replanned : Cardinality(landed[j]) <= 1

\* The FIFO of a job's guard never gets stuck: a user's cancel comes through,
\* whatever the calls before it are and come to.
CancelReturns ==
    \A j \in Jobs : Queued(j, "cancel") ~> ~Queued(j, "cancel")

\* docs/import.md: "Once writing can have started, even a corrupt sidecar is
\* terminal rather than replaceable."  So no import mixes two plans.
OnePlan == \A j \in Jobs : Cardinality(landed[j]) <= 1

=============================================================================
