--------------------------- MODULE JobRunnerProofs ---------------------------
(***************************************************************************)
(* The runner implements the contract of the jobs table, and its own       *)
(* safety, for any number of jobs, claims, slots and restarts.             *)
(*                                                                         *)
(* The runner knows only what it last heard: a run goes on after its lease *)
(* is lost.  So the invariant says, stage by stage, what a run that is     *)
(* past some decision may still believe (`RunsOK`), and the proof rests on *)
(* one fact of the table: a lease that was lost is never held again        *)
(* (LostStays).                                                            *)
(***************************************************************************)
EXTENDS JobRunner, JobQueueProofs, FiniteSetTheorems

\* A run exists only for a lease that was handed out.
Launched ==
    /\ stage \in [Leases -> Stages]
    /\ \A l \in Leases : stage[l] # "none" => claim[l] # NoClaim

-----------------------------------------------------------------------------
(* Refinement.                                                             *)

\* The statements that neither record a success nor delete rows, or none.
OtherStatement ==
    \/ \E j \in Jobs : Enqueue(j) \/ Cancel(j) \/ Reap(j) \/ ClearArtifact(j)
                         \/ TimePasses(j)
    \/ \E l \in Leases, j \in Jobs : ClaimNext(l, j)
    \/ \E l \in Leases :
          /\ claim[l] # NoClaim
          /\ Heartbeat(l) \/ Release(l) \/ \E retry \in BOOLEAN : Fail(l, retry)
    \/ UNCHANGED queueVars

\* What the runner does to the table is always one statement or nothing; only
\* RecordSuccess records a success, and only PruneRows deletes rows.
LEMMA StepIsStatement ==
  ASSUME Launched, [RunnerNext]_vars
  PROVE  OtherStatement \/ PruneRows \/ \E l \in Leases : RecordSuccess(l)
  <1> USE DEF OtherStatement
  <1>1. ASSUME NEW l \in Leases, NEW j \in Jobs, ClaimAndLaunch(l, j)
        PROVE  OtherStatement
    BY <1>1 DEF ClaimAndLaunch
  <1>2. ASSUME NEW l \in Leases, RunStep(l) \/ HeartbeatTick(l)
        PROVE  OtherStatement \/ RecordSuccess(l)
    <2>1. CASE HeartbeatTick(l)
      <3>1. stage[l] # "none" /\ Heartbeat(l)
        BY <2>1 DEF HeartbeatTick, AtWork
      <3> QED
        BY <3>1 DEF Launched
    <2>2. CASE FinalReport(l)
      BY <2>2 DEF FinalReport, Launched
    <2>3. CASE RecordSuccess(l)
      BY <2>3
    <2>4. CASE RecordFailure(l)
      <3> DEFINE retry == stage[l] = "failing" /\ MayRetry(l)
      <3>1. stage[l] # "none" /\ Fail(l, retry) /\ retry \in BOOLEAN
        BY <2>4 DEF RecordFailure
      <3> HIDE DEF retry
      <3>2. \E r \in BOOLEAN : Fail(l, r)
        BY <3>1
      <3> QED
        BY <3>1, <3>2 DEF Launched
    <2>5. CASE ReleaseRun(l)
      BY <2>5 DEF ReleaseRun, Launched
    <2>6. CASE \/ \E error \in Thrown : Throw(l, error)
               \/ Reserve(l) \/ Publish(l) \/ Finish(l)
               \/ DropCanceledArtifact(l) \/ Judge(l) \/ CloseRun(l)
      BY <2>6 DEF Throw, Reserve, Publish, Finish, DropCanceledArtifact, Judge, CloseRun
    <2> QED
      BY <1>2, <2>1, <2>2, <2>3, <2>4, <2>5, <2>6 DEF RunStep
  <1>3. ASSUME NEW j \in Jobs,
               \/ ReapStale(j) \/ CollectArtifact(j) \/ ClearPointer(j)
               \/ Client(j) \/ Clock(j)
        PROVE  OtherStatement
    BY <1>3 DEF ReapStale, CollectArtifact, ClearPointer, Client, Clock
  <1>4. CASE \/ EnterClaimLoop \/ ClaimNothing \/ CloseTerminalReservations
             \/ Stop \/ StopReturns \/ StopTimesOut \/ Crash \/ Exit \/ Restart
             \/ UNCHANGED vars
    BY <1>4 DEF EnterClaimLoop, ClaimNothing, CloseTerminalReservations, Stop,
                StopReturns, StopTimesOut, Crash, Exit, Restart, Dies, vars, queueVars
  <1> QED
    BY <1>1, <1>2, <1>3, <1>4 DEF RunnerNext

\* The success of a run in flight is a Succeed under its lease.
LEMMA SuccessIsStatement ==
  ASSUME NEW l \in Leases, RecordSuccess(l)
  PROVE  \E artifact \in BOOLEAN : Succeed(l, artifact)
  <1>1. Succeed(l, stage[l] = "published") /\ (stage[l] = "published") \in BOOLEAN
    BY DEF RecordSuccess
  <1> QED
    BY <1>1

\* Retention is a Prune that keeps the rows of open reservations.
LEMMA PruneIsStatement ==
  ASSUME PruneRows
  PROVE  \E evidence \in SUBSET Jobs : Prune(evidence)
  <1>1. Prune(Jobs \cap held)
    BY DEF PruneRows, Prune, Prunable
  <1> QED
    BY <1>1

\* The runner implements the contract step by step.
LEMMA StepRefines ==
  ASSUME Launched, [RunnerNext]_vars
  PROVE  [Next]_queueVars
  <1>1. ASSUME NEW l \in Leases, RecordSuccess(l) PROVE Next
    <2>1. stage[l] # "none"
      BY <1>1 DEF RecordSuccess
    <2> QED
      BY <1>1, <2>1, SuccessIsStatement DEF Launched, Next
  <1>2. OtherStatement => Next \/ UNCHANGED queueVars
    BY DEF OtherStatement, Next
  <1>3. PruneRows => Next
    BY PruneIsStatement DEF Next
  <1> QED
    BY <1>1, <1>2, <1>3, StepIsStatement

-----------------------------------------------------------------------------
(* The invariant of the runner.                                            *)

\* Whether lease l still owns its job.
Lost(l) == ~Holds(row[JobOf(l)], l)

\* A lease that was lost stays lost.
LEMMA LostStays ==
  ASSUME IInv, [Next]_queueVars, NEW l \in Leases, claim[l] # NoClaim, Lost(l)
  PROVE  Lost(l)'
  BY LocksMove, LeaseStaysLost DEF Lost, JobOf

RunOK(l) ==
    /\ stage[l] \in {"aborted", "lost", "closing"} => Lost(l)
    /\ stage[l] = "published" /\ ~Lost(l) => JobOf(l) \in file
    /\ l \in aborted /\ proc \in {"up", "down"} => Lost(l)
    /\ l \in awaited => stage[l] # "none"
    /\ l \in awaited /\ stage[l] = "gone" => Lost(l)
    /\ l \in awaited /\ proc = "stopped" => stage[l] = "gone"

RunsOK == \A l \in Leases : RunOK(l)

SlotsOK ==
    /\ IsFiniteSet(Inflight)
    /\ Cardinality(Inflight) + loops <= Concurrency

RefsOK == \A j \in Jobs : row[j].ref => row[j].status = "succeeded"

Shaped == IInv /\ RunnerTypeOK /\ Launched

RInv ==
    /\ Shaped
    /\ RunsOK
    /\ SlotsOK
    /\ RefsOK /\ ArtifactServed
    /\ EvidenceKept

\* The three ways the stages of the runs change in one step.
Moves(l, s) == l \in Inflight /\ s \in Stages \ {"none"} /\ GoTo(l, s)

\* A step of a run moves its own stage only.
LEMMA RunStepMoves ==
  ASSUME NEW l \in Leases, RunStep(l)
  PROVE  \/ UNCHANGED stage
         \/ \E s \in Stages \ {"none"} : Moves(l, s)
  <1> USE DEF Stages, AtWork, Thrown, Moves, Inflight
  <1>1. ASSUME NEW error \in Thrown, Throw(l, error)
      PROVE  Moves(l, Caught(error)) /\ Caught(error) \in Stages \ {"none"}
    BY <1>1 DEF Throw, Caught
  <1>2. CASE Reserve(l)
    BY <1>2 DEF Reserve
  <1>3. CASE FinalReport(l)
    BY <1>3 DEF FinalReport, Caught
  <1>4. CASE Publish(l) \/ Finish(l)
    BY <1>4 DEF Publish, Finish
  <1>5. CASE RecordSuccess(l)
    BY <1>5 DEF RecordSuccess, GoTo
  <1>6. CASE DropCanceledArtifact(l)
    BY <1>6 DEF DropCanceledArtifact
  <1>7. CASE Judge(l)
    BY <1>7 DEF Judge, GoTo
  <1>8. CASE RecordFailure(l) \/ ReleaseRun(l) \/ CloseRun(l)
    BY <1>8 DEF RecordFailure, ReleaseRun, CloseRun
  <1> QED
    BY <1>1, <1>2, <1>3, <1>4, <1>5, <1>6, <1>7, <1>8 DEF RunStep

\* A step of the process moves one stage, launches one run, or ends them all.
LEMMA StageMoves ==
  ASSUME Shaped, [RunnerNext]_vars
  PROVE  \/ UNCHANGED stage
         \/ \E l \in Leases, s \in Stages \ {"none"} : Moves(l, s)
         \/ \E l \in Leases, j \in Jobs : ClaimAndLaunch(l, j)
         \/ Dies
  <1>1. ASSUME NEW l \in Leases, RunStep(l)
        PROVE  \/ UNCHANGED stage
               \/ \E s \in Stages \ {"none"} : Moves(l, s)
    BY <1>1, RunStepMoves
  <1>2. ASSUME NEW l \in Leases, HeartbeatTick(l) PROVE UNCHANGED stage
    BY <1>2 DEF HeartbeatTick
  <1>3. ASSUME NEW j \in Jobs,
               \/ ReapStale(j) \/ CollectArtifact(j) \/ ClearPointer(j)
               \/ Client(j) \/ Clock(j)
        PROVE  UNCHANGED stage
    BY <1>3 DEF ReapStale, CollectArtifact, ClearPointer, Client, Clock, runnerVars
  <1>4. CASE \/ EnterClaimLoop \/ ClaimNothing \/ CloseTerminalReservations \/ PruneRows
             \/ Stop \/ StopReturns \/ StopTimesOut \/ Restart \/ UNCHANGED vars
    BY <1>4 DEF EnterClaimLoop, ClaimNothing, CloseTerminalReservations, PruneRows, Stop,
                StopReturns, StopTimesOut, Restart, vars, runnerVars
  <1>5. CASE Crash \/ Exit
    BY <1>5 DEF Crash, Exit
  <1> QED
    BY <1>1, <1>2, <1>3, <1>4, <1>5 DEF RunnerNext

\* Runs are launched under fresh leases and never unlaunched.
LEMMA LaunchedStays ==
  ASSUME Shaped, [RunnerNext]_vars
  PROVE  /\ IInv' /\ Launched'
         /\ \A l \in Leases : stage[l] # "none" => stage'[l] # "none"
  <1>1. [Next]_queueVars /\ IInv'
    BY StepRefines, InvInductive DEF Shaped
  <1>2. \A l \in Leases : claim[l] # NoClaim => claim'[l] = claim[l]
    BY <1>1, LocksMove DEF Shaped
  <1>3. stage \in [Leases -> Stages] /\ \A l \in Leases : stage[l] # "none" => claim[l] # NoClaim
    BY DEF Shaped, Launched
  <1>4. CASE UNCHANGED stage
    BY <1>1, <1>2, <1>3, <1>4 DEF Launched
  <1>5. ASSUME NEW l \in Leases, NEW s \in Stages \ {"none"}, Moves(l, s)
        PROVE  Launched' /\ \A m \in Leases : stage[m] # "none" => stage'[m] # "none"
    BY <1>2, <1>3, <1>5 DEF Moves, GoTo, Launched, Inflight
  <1>6. ASSUME NEW l \in Leases, NEW j \in Jobs, ClaimAndLaunch(l, j)
        PROVE  Launched' /\ \A m \in Leases : stage[m] # "none" => stage'[m] # "none"
    <2>1. stage' = [stage EXCEPT ![l] = "handling"] /\ "handling" \in Stages
      BY <1>6 DEF ClaimAndLaunch, GoTo, Stages, AtWork
    <2>2. claim'[l] # NoClaim
      <3>1. row'[j].lockedBy = l /\ row[j].lockedBy # l
        <4>1. row \in [Jobs -> Row] /\ row[j].status = "pending"
              /\ row' = [row EXCEPT ![j] = Claimed(row[j], l)]
          BY <1>6 DEF ClaimAndLaunch, ClaimNext, Shaped, IInv
        <4>2. row'[j].lockedBy = l
          BY <4>1 DEF Claimed, Row
        <4>3. row[j].lockedBy = NoLease
          BY <4>1 DEF Shaped, IInv, RowOK
        <4> QED
          BY <4>2, <4>3, JobQueueAssumption
      <3> QED
        BY <1>1, <3>1, LocksMove DEF Shaped
    <2> QED
      BY <1>2, <1>3, <2>1, <2>2 DEF Launched
  <1>7. CASE Dies
    <2>1. stage' = [l \in Leases |-> IF l \in Inflight THEN "gone" ELSE stage[l]]
          /\ "gone" \in Stages /\ claim' = claim
      BY <1>7 DEF Dies, Stages, queueVars
    <2> QED
      BY <1>1, <1>2, <1>3, <2>1 DEF Launched, Inflight
  <1> QED
    BY <1>1, <1>4, <1>5, <1>6, <1>7, StageMoves

\* The types of the runner are kept.
LEMMA TypeStays ==
  ASSUME Shaped, [RunnerNext]_vars
  PROVE  RunnerTypeOK'
  <1>1. RunnerTypeOK /\ JobRunnerAssumption
    BY JobRunnerAssumption DEF Shaped
  <1>2. Launched' /\ \A l \in Leases : stage[l] # "none" => stage'[l] # "none"
    BY LaunchedStays
  <1>3. stage' \in [Leases -> Stages]
    BY <1>2 DEF Launched
  <1> DEFINE Kept == {l \in Leases : stage[l] # "none"}
             KeptNext == {l \in Leases : stage'[l] # "none"}
  <1>4. /\ aborted \subseteq Kept
        /\ aborted' \subseteq KeptNext
              => aborted' \subseteq Inflight' \cup {l \in Leases : stage'[l] = "gone"}
        /\ Kept \subseteq KeptNext
    BY <1>1, <1>2 DEF RunnerTypeOK, Inflight
  <1>5. ASSUME NEW l \in Leases, RunStep(l)
        PROVE  /\ UNCHANGED <<proc, loops, restarts, awaited, collecting>>
               /\ aborted' \subseteq aborted \cup {l} /\ (aborted' # aborted => l \in Kept)
               /\ file' \subseteq file \cup {JobOf(l)}
               /\ held' \subseteq held \cup {JobOf(l)}
               /\ l \in Kept
    <2>1. ASSUME NEW error \in Thrown, Throw(l, error)
          PROVE  /\ UNCHANGED <<proc, loops, restarts, awaited, collecting, aborted, file, held>>
                 /\ l \in Kept
      BY <2>1 DEF Throw
    <2>2. CASE \/ Reserve(l) \/ FinalReport(l) \/ Publish(l) \/ Finish(l)
               \/ RecordSuccess(l) \/ DropCanceledArtifact(l)
      BY <2>2 DEF Reserve, FinalReport, Publish, Finish, RecordSuccess, DropCanceledArtifact
    <2>3. CASE Judge(l) \/ RecordFailure(l) \/ ReleaseRun(l)
      BY <2>3 DEF Judge, RecordFailure, ReleaseRun, Thrown
    <2>4. CASE CloseRun(l)
      BY <2>4 DEF CloseRun, OpenReservations
    <2> QED
      BY <1>5, <2>1, <2>2, <2>3, <2>4 DEF RunStep
  <1>6. ASSUME NEW l \in Leases, RunStep(l) PROVE RunnerTypeOK'
    <2>1. JobOf(l) \in Jobs
      BY <1>5, <1>6, ClaimedJob DEF Shaped, Launched, JobOf
    <2>2. aborted' \subseteq KeptNext
      BY <1>4, <1>5, <1>6
    <2> QED
      BY <1>1, <1>3, <1>4, <1>5, <1>6, <2>1, <2>2 DEF RunnerTypeOK
  <1>7. ASSUME NEW l \in Leases, HeartbeatTick(l) PROVE RunnerTypeOK'
    <2>1. aborted' \subseteq aborted \cup {l} /\ l \in Kept
      BY <1>7 DEF HeartbeatTick, AtWork
    <2>2. aborted' \subseteq KeptNext
      BY <1>4, <2>1
    <2> QED
      BY <1>1, <1>3, <1>4, <1>7, <2>2 DEF RunnerTypeOK, HeartbeatTick
  <1>8. ASSUME NEW l \in Leases, NEW j \in Jobs, ClaimAndLaunch(l, j) PROVE RunnerTypeOK'
    <2>1. aborted' \subseteq KeptNext
      BY <1>4, <1>8 DEF ClaimAndLaunch
    <2> QED
      BY <1>1, <1>3, <1>4, <1>8, <2>1 DEF RunnerTypeOK, ClaimAndLaunch
  <1>9. ASSUME NEW j \in Jobs,
               \/ ReapStale(j) \/ CollectArtifact(j) \/ ClearPointer(j)
               \/ Client(j) \/ Clock(j)
        PROVE  RunnerTypeOK'
    <2>1. /\ UNCHANGED <<proc, loops, restarts, aborted, awaited, held>>
          /\ file' \subseteq file /\ collecting' \subseteq collecting \cup {j}
      BY <1>9 DEF ReapStale, CollectArtifact, ClearPointer, Client, Clock, runnerVars
    <2>2. aborted' \subseteq KeptNext
      BY <1>4, <2>1
    <2> QED
      BY <1>1, <1>3, <1>4, <2>1, <2>2 DEF RunnerTypeOK
  <1>10. CASE EnterClaimLoop \/ ClaimNothing \/ CloseTerminalReservations \/ PruneRows
    <2>1. /\ UNCHANGED <<proc, restarts, aborted, awaited, file, collecting>>
          /\ held' \subseteq held /\ loops' \in 0 .. 1
      BY <1>1, <1>10 DEF EnterClaimLoop, ClaimNothing, CloseTerminalReservations, PruneRows,
                         runnerVars, OpenReservations, RunnerTypeOK
    <2>2. aborted' \subseteq KeptNext
      BY <1>4, <2>1
    <2> QED
      BY <1>1, <1>3, <1>4, <2>1, <2>2 DEF RunnerTypeOK
  <1>11. CASE Stop
    <2>1. aborted' \subseteq KeptNext /\ awaited' \in SUBSET Leases /\ restarts' \in 0 .. MaxRestarts
      BY <1>1, <1>4, <1>11 DEF Stop, Inflight, RunnerTypeOK, JobRunnerAssumption
    <2> QED
      BY <1>1, <1>3, <1>4, <1>11, <2>1 DEF RunnerTypeOK, Stop
  <1>12. CASE StopReturns \/ StopTimesOut \/ Restart \/ UNCHANGED vars
    <2>1. UNCHANGED <<loops, restarts, aborted, awaited, file, held, collecting, stage>>
          /\ proc' \in {"up", "stopped", "abandoned", proc}
      BY <1>12 DEF StopReturns, StopTimesOut, Restart, vars, runnerVars
    <2>2. aborted' \subseteq KeptNext
      BY <1>4, <2>1
    <2> QED
      BY <1>1, <1>3, <1>4, <2>1, <2>2 DEF RunnerTypeOK
  <1>13. CASE Crash \/ Exit
    <2>1. Dies /\ restarts' \in 0 .. MaxRestarts
      BY <1>1, <1>13 DEF Crash, Exit, RunnerTypeOK, JobRunnerAssumption
    <2> QED
      BY <1>1, <1>3, <1>4, <2>1 DEF RunnerTypeOK, Dies
  <1> QED
    BY <1>6, <1>7, <1>8, <1>9, <1>10, <1>11, <1>12, <1>13 DEF RunnerNext

\* The bound holds from the test of the claim loop to the launch, since only
\* one loop at a time is between the two.
LEMMA SlotsStay ==
  ASSUME Shaped, SlotsOK, [RunnerNext]_vars
  PROVE  SlotsOK'
  <1>1. /\ IsFiniteSet(Inflight) /\ Cardinality(Inflight) \in Nat
        /\ loops \in 0 .. 1 /\ Concurrency \in Nat
        /\ Cardinality(Inflight) + loops <= Concurrency
        /\ stage \in [Leases -> Stages]
    BY JobRunnerAssumption, FS_CardinalityType DEF SlotsOK, Shaped, RunnerTypeOK
  <1>2. ASSUME Inflight' \subseteq Inflight, loops' \in Int, loops' <= loops PROVE SlotsOK'
    <2>1. /\ IsFiniteSet(Inflight') /\ Cardinality(Inflight') \in Nat
          /\ Cardinality(Inflight') <= Cardinality(Inflight)
      BY <1>1, <1>2, FS_Subset, FS_CardinalityType
    <2> QED
      BY <1>1, <1>2, <2>1 DEF SlotsOK
  <1>3. CASE EnterClaimLoop
    <2>1. Inflight' = Inflight /\ loops' = 1 /\ Cardinality(Inflight) < Concurrency
      BY <1>1, <1>3 DEF EnterClaimLoop, Inflight
    <2> HIDE DEF Inflight
    <2> QED
      BY <1>1, <2>1 DEF SlotsOK
  <1>4. ASSUME NEW l \in Leases, NEW j \in Jobs, ClaimAndLaunch(l, j) PROVE SlotsOK'
    <2>1. stage[l] = "none" /\ stage' = [stage EXCEPT ![l] = "handling"]
      BY <1>4 DEF ClaimAndLaunch, ClaimNext, GoTo, Shaped, Launched
    <2>2. Inflight' = Inflight \cup {l} /\ l \notin Inflight
      BY <1>1, <2>1 DEF Inflight
    <2>3. IsFiniteSet(Inflight') /\ Cardinality(Inflight') = Cardinality(Inflight) + 1
      BY <1>1, <2>2, FS_AddElement
    <2>4. /\ loops = 1
          /\ \/ loops' = 0
             \/ loops' = 1 /\ Cardinality(Inflight) + 1 < Concurrency
      BY <1>1, <1>4 DEF ClaimAndLaunch
    <2> QED
      BY <1>1, <2>3, <2>4 DEF SlotsOK
  <1>5. CASE UNCHANGED stage /\ loops' \in Int /\ loops' <= loops
    BY <1>2, <1>5 DEF Inflight
  <1>6. ASSUME NEW l \in Leases, RunStep(l) PROVE SlotsOK'
    <2>1. loops' = loops
      BY <1>6 DEF RunStep, Throw, Reserve, FinalReport, Publish, Finish, RecordSuccess,
                  DropCanceledArtifact, Judge, RecordFailure, ReleaseRun, CloseRun
    <2>2. Inflight' \subseteq Inflight
      <3>1. UNCHANGED stage \/ \E m \in Leases, s \in Stages \ {"none"} : Moves(m, s)
        BY <1>6, RunStepMoves DEF Shaped
      <3> QED
        BY <1>1, <3>1 DEF Moves, GoTo, Inflight
    <2> QED
      BY <1>1, <1>2, <2>1, <2>2
  <1>7. CASE Crash \/ Exit
    <2>1. loops' = 0 /\ Inflight' = {}
      BY <1>1, <1>7 DEF Crash, Exit, Dies, Inflight
    <2> QED
      BY <1>1, <1>2, <2>1
  <1>8. CASE UNCHANGED <<stage, loops>>
    BY <1>1, <1>5, <1>8
  <1>9. CASE ClaimNothing
    BY <1>1, <1>5, <1>9 DEF ClaimNothing
  <1>10. ASSUME NEW l \in Leases, HeartbeatTick(l) PROVE UNCHANGED <<stage, loops>>
    BY <1>10 DEF HeartbeatTick
  <1>11. ASSUME NEW j \in Jobs,
               \/ ReapStale(j) \/ CollectArtifact(j) \/ ClearPointer(j)
               \/ Client(j) \/ Clock(j)
         PROVE UNCHANGED <<stage, loops>>
    BY <1>11 DEF ReapStale, CollectArtifact, ClearPointer, Client, Clock, runnerVars
  <1>12. CASE \/ CloseTerminalReservations \/ PruneRows
              \/ Stop \/ StopReturns \/ StopTimesOut \/ Restart \/ UNCHANGED vars
    BY <1>8, <1>12 DEF CloseTerminalReservations, PruneRows, Stop,
                StopReturns, StopTimesOut, Restart, vars, runnerVars
  <1> QED
    BY <1>3, <1>4, <1>6, <1>7, <1>8, <1>9, <1>10, <1>11, <1>12 DEF RunnerNext

-----------------------------------------------------------------------------
(* What a run may believe at each stage.                                   *)

\* The statements that end a run leave its lease behind.
LEMMA GivesUp ==
  ASSUME IInv, NEW l \in Leases, claim[l] # NoClaim,
         \/ Release(l)
         \/ \E artifact \in BOOLEAN : Succeed(l, artifact)
         \/ \E retry \in BOOLEAN : Fail(l, retry)
  PROVE  Lost(l)'
  <1> DEFINE j == claim[l].job
  <1>1. j \in Jobs /\ row \in [Jobs -> Row] /\ row[j] \in Row
    BY ClaimedJob DEF IInv
  <1>2. CASE Release(l)
    BY <1>1, <1>2 DEF Release, UpdateIf, Released, Unlocked, Lost, JobOf, Holds, Row
  <1>3. ASSUME NEW artifact \in BOOLEAN, Succeed(l, artifact) PROVE Lost(l)'
    BY <1>1, <1>3 DEF Succeed, UpdateIf, Succeeded, Unlocked, Lost, JobOf, Holds, Row
  <1>4. ASSUME NEW retry \in BOOLEAN, Fail(l, retry) PROVE Lost(l)'
    BY <1>1, <1>4 DEF Fail, UpdateIf, Retried, Unlocked, Lost, JobOf, Holds, Row
  <1> QED
    BY <1>2, <1>3, <1>4

\* A run nothing happens to keeps what it believes.
LEMMA OthersKeep ==
  ASSUME Shaped, RunsOK, [RunnerNext]_vars, NEW m \in Leases,
         stage'[m] = stage[m], proc' = proc,
         m \in aborted' => m \in aborted,
         m \in awaited' => m \in awaited,
         stage[m] = "published" /\ ~Lost(m)' /\ JobOf(m) \in file => JobOf(m) \in file'
  PROVE  RunOK(m)'
  <1>1. CASE stage[m] # "none"
    <2>1. claim[m] # NoClaim /\ [Next]_queueVars /\ IInv
      BY <1>1, StepRefines DEF Shaped, Launched
    <2>2. JobOf(m)' = JobOf(m) /\ (Lost(m) => Lost(m)')
      BY <2>1, LocksMove, LostStays DEF JobOf
    <2> QED
      BY <1>1, <2>2 DEF RunsOK, RunOK
  <1>2. CASE stage[m] = "none"
    <2>1. m \notin aborted /\ m \notin awaited
      BY <1>2 DEF RunsOK, RunOK, Shaped, RunnerTypeOK, Inflight
    <2> QED
      BY <1>2, <2>1 DEF RunOK
  <1> QED
    BY <1>1, <1>2

\* A step of one run keeps what it and the others may believe.
LEMMA RunStepKeeps ==
  ASSUME Shaped, RunsOK, NEW l \in Leases, RunStep(l)
  PROVE  RunsOK'
  <1>1. [RunnerNext]_vars
    BY DEF RunnerNext
  <1>2. stage \in [Leases -> Stages] /\ IInv /\ [Next]_queueVars
    BY <1>1, StepRefines DEF Shaped, Launched
  <1>3. /\ UNCHANGED <<proc, awaited>> /\ l \in Inflight /\ claim[l] # NoClaim
        /\ \A m \in Leases : m # l => stage'[m] = stage[m]
        /\ \A m \in Leases : m # l /\ m \in aborted' => m \in aborted
    <2>1. UNCHANGED <<proc, awaited>> /\ l \in Inflight
          /\ \A m \in Leases : m # l /\ m \in aborted' => m \in aborted
      BY DEF RunStep, Throw, Reserve, FinalReport, Publish, Finish, RecordSuccess, Inflight,
             DropCanceledArtifact, Judge, RecordFailure, ReleaseRun, CloseRun, Thrown
    <2>2. \A m \in Leases : m # l => stage'[m] = stage[m]
      BY <1>2 DEF RunStep, Throw, Reserve, FinalReport, Publish, Finish, RecordSuccess, GoTo,
             DropCanceledArtifact, Judge, RecordFailure, ReleaseRun, CloseRun
    <2> QED
      BY <2>1, <2>2 DEF Shaped, Launched, Inflight
  <1>4. JobOf(l)' = JobOf(l) /\ (Lost(l) => Lost(l)')
    BY <1>2, <1>3, LocksMove, LostStays DEF JobOf
  \* the other runs: only a removed artifact could matter to them
  <1>5. ASSUME NEW m \in Leases, stage[m] = "published", ~Lost(m)', JobOf(m) \in file
        PROVE  JobOf(m) \in file'
    <2>1. CASE DropCanceledArtifact(l)
      <3>1. UNCHANGED <<row, claim>>
        BY <2>1 DEF DropCanceledArtifact, queueVars
      <3>2. row[JobOf(m)].status = "running"
        BY <1>5, <3>1 DEF Lost, Holds, JobOf
      <3> QED
        BY <1>5, <2>1, <3>2 DEF DropCanceledArtifact
    <2>2. CASE ~DropCanceledArtifact(l)
      BY <1>5, <2>2 DEF RunStep, Throw, Reserve, FinalReport, Publish, Finish, RecordSuccess,
             Judge, RecordFailure, ReleaseRun, CloseRun
    <2> QED
      BY <2>1, <2>2
  <1>6. \A m \in Leases : m # l => RunOK(m)'
    BY <1>1, <1>3, <1>5, OthersKeep
  <1>7. RunOK(l)'
    <2> USE DEF GoTo
    <2>1. RunOK(l) /\ (proc = "stopped" => l \notin awaited)
      BY <1>3 DEF RunsOK, RunOK, Inflight
    <2>2. ASSUME NEW error \in Thrown, Throw(l, error) PROVE RunOK(l)'
      <3>1. /\ stage'[l] \in {"aborted", "doomed", "faulty", "releasing"}
            /\ stage'[l] = "aborted" => l \in aborted /\ proc = "up"
            /\ aborted' = aborted
        BY <1>2, <2>2 DEF Throw, Caught, Serving, Thrown
      <3> QED
        BY <1>3, <1>4, <2>1, <3>1 DEF RunOK
    <2>3. CASE Reserve(l)
      BY <1>3, <1>4, <2>1, <2>3 DEF RunOK, Reserve
    <2>4. CASE FinalReport(l)
      <3>1. /\ stage'[l] \in {"reported", "aborted", "releasing"}
            /\ stage'[l] = "aborted" => Lost(l)
            /\ l \in aborted' => l \in aborted \/ Lost(l)
        BY <1>2, <2>4 DEF FinalReport, Caught, Lost
      <3> QED
        BY <1>3, <1>4, <2>1, <3>1 DEF RunOK
    <2>5. CASE Publish(l)
      <3>1. stage'[l] = "published" /\ JobOf(l) \in file' /\ aborted' = aborted
        BY <1>2, <2>5 DEF Publish
      <3> QED
        BY <1>3, <1>4, <2>1, <3>1 DEF RunOK
    <2>6. CASE Finish(l)
      <3>1. stage'[l] = "finished" /\ aborted' = aborted
        BY <1>2, <2>6 DEF Finish
      <3> QED
        BY <1>3, <1>4, <2>1, <3>1 DEF RunOK
    <2>7. CASE RecordSuccess(l)
      <3>1. stage'[l] \in {"lost", "closing"} /\ aborted' = aborted
        BY <1>2, <2>7 DEF RecordSuccess
      <3>2. Lost(l)'
        BY <1>2, <1>3, <2>7, SuccessIsStatement, GivesUp
      <3> QED
        BY <1>3, <1>4, <2>1, <3>1, <3>2 DEF RunOK
    <2>8. CASE DropCanceledArtifact(l)
      <3>1. stage'[l] = "closing" /\ aborted' = aborted /\ Lost(l)
        BY <1>2, <2>1, <2>8 DEF DropCanceledArtifact, RunOK
      <3> QED
        BY <1>3, <1>4, <2>1, <3>1 DEF RunOK
    <2>9. CASE Judge(l)
      <3>1. /\ stage'[l] \in {"closing", "failingFast", "failing"} /\ aborted' = aborted
            /\ stage'[l] = "closing" => Lost(l)
        BY <1>2, <2>1, <2>9 DEF Judge, RunOK, Lost, Holds
      <3> QED
        BY <1>3, <1>4, <2>1, <3>1 DEF RunOK
    <2>10. CASE RecordFailure(l)
      <3>1. stage'[l] = "closing" /\ aborted' = aborted
        BY <1>2, <2>10 DEF RecordFailure
      <3>2. Lost(l)'
        <4> DEFINE retry == stage[l] = "failing" /\ MayRetry(l)
        <4>1. Fail(l, retry) /\ retry \in BOOLEAN
          BY <2>10 DEF RecordFailure
        <4> HIDE DEF retry
        <4> QED
          BY <1>2, <1>3, <4>1, GivesUp
      <3> QED
        BY <1>3, <1>4, <2>1, <3>1, <3>2 DEF RunOK
    <2>11. CASE ReleaseRun(l)
      <3>1. stage'[l] = "gone" /\ aborted' = aborted
        BY <1>2, <2>11 DEF ReleaseRun
      <3>2. Lost(l)'
        BY <1>2, <1>3, <2>11, GivesUp DEF ReleaseRun
      <3> QED
        BY <1>3, <1>4, <2>1, <3>1, <3>2 DEF RunOK
    <2>12. CASE CloseRun(l)
      <3>1. stage'[l] = "gone" /\ aborted' = aborted /\ Lost(l)
        BY <1>2, <2>1, <2>12 DEF CloseRun, RunOK
      <3> QED
        BY <1>3, <1>4, <2>1, <3>1 DEF RunOK
    <2> QED
      BY <2>2, <2>3, <2>4, <2>5, <2>6, <2>7, <2>8, <2>9, <2>10, <2>11, <2>12 DEF RunStep
  <1> QED
    BY <1>6, <1>7 DEF RunsOK

\* Every step does.
LEMMA RunsStay ==
  ASSUME Shaped, RunsOK, RefsOK, [RunnerNext]_vars
  PROVE  RunsOK'
  <1>1. /\ stage \in [Leases -> Stages] /\ IInv /\ [Next]_queueVars
        /\ \A m \in Leases : stage[m] # "none" => claim[m] # NoClaim
    BY StepRefines DEF Shaped, Launched
  <1>2. \A m \in Leases : m \in aborted \cup awaited => stage[m] # "none"
    BY DEF Shaped, RunnerTypeOK, Inflight, RunsOK, RunOK
  <1>3. \A m \in Leases : claim[m] # NoClaim => JobOf(m)' = JobOf(m) /\ (Lost(m) => Lost(m)')
    BY <1>1, LocksMove, LostStays DEF JobOf
  <1>4. ASSUME UNCHANGED <<stage, proc, awaited, aborted>>, file \subseteq file'
        PROVE  RunsOK'
    BY <1>4, OthersKeep DEF RunsOK
  <1>5. ASSUME NEW l \in Leases, RunStep(l) PROVE RunsOK'
    BY <1>5, RunStepKeeps
  <1>6. ASSUME NEW l \in Leases, HeartbeatTick(l) PROVE RunsOK'
    <2>1. UNCHANGED <<stage, proc, awaited, file>> /\ stage[l] # "none"
          /\ stage[l] # "gone"
      BY <1>6 DEF HeartbeatTick, AtWork
    <2>2. aborted' = IF Lost(l) THEN aborted \cup {l} ELSE aborted
      BY <1>6 DEF HeartbeatTick, Lost
    <2>3. \A m \in Leases : m # l => RunOK(m)'
      BY <2>1, <2>2, OthersKeep
    <2>4. RunOK(l)'
      BY <1>1, <1>3, <2>1, <2>2 DEF RunsOK, RunOK
    <2> QED
      BY <2>3, <2>4 DEF RunsOK
  <1>7. ASSUME NEW l \in Leases, NEW j \in Jobs, ClaimAndLaunch(l, j) PROVE RunsOK'
    <2>1. /\ UNCHANGED <<proc, awaited, aborted, file>> /\ stage[l] = "none"
          /\ stage' = [stage EXCEPT ![l] = "handling"]
      BY <1>1, <1>7 DEF ClaimAndLaunch, ClaimNext, GoTo
    <2>2. \A m \in Leases : m # l => RunOK(m)'
      BY <1>1, <2>1, OthersKeep
    <2>3. RunOK(l)'
      BY <1>1, <1>2, <2>1 DEF RunOK
    <2> QED
      BY <2>2, <2>3 DEF RunsOK
  <1>8. ASSUME NEW j \in Jobs, CollectArtifact(j) PROVE RunsOK'
    \* the file of a recorded success: no run of the job holds it
    <2>1. /\ UNCHANGED <<proc, awaited, aborted, stage, row, claim>> /\ file' = file \ {j}
          /\ row[j].status = "succeeded"
      BY <1>8 DEF CollectArtifact, RefsOK, queueVars
    <2>2. ASSUME NEW m \in Leases, ~Lost(m)', JobOf(m) \in file PROVE JobOf(m) \in file'
      <3>1. row[JobOf(m)].status = "running"
        BY <2>1, <2>2 DEF Lost, Holds, JobOf
      <3> QED
        BY <2>1, <2>2, <3>1
    <2> QED
      BY <2>1, <2>2, OthersKeep DEF RunsOK
  <1>9. ASSUME NEW j \in Jobs, ReapStale(j) \/ ClearPointer(j) \/ Client(j) \/ Clock(j)
        PROVE  RunsOK'
    BY <1>4, <1>9 DEF ReapStale, ClearPointer, Client, Clock, runnerVars
  <1>10. CASE \/ EnterClaimLoop \/ ClaimNothing \/ CloseTerminalReservations \/ PruneRows
              \/ UNCHANGED vars
    BY <1>4, <1>10 DEF EnterClaimLoop, ClaimNothing, CloseTerminalReservations, PruneRows,
                       vars, runnerVars
  <1>11. ASSUME UNCHANGED <<queueVars, stage, file>>
         PROVE  \A m \in Leases : Lost(m)' = Lost(m) /\ JobOf(m)' = JobOf(m)
    BY <1>11 DEF queueVars, Lost, JobOf, Holds
  <1>12. CASE Stop
    <2>1. /\ UNCHANGED <<queueVars, stage, file>> /\ proc' = "stopping"
          /\ awaited' = {m \in Leases : stage[m] \notin {"none", "gone"}}
      BY <1>12 DEF Stop, Inflight
    <2> QED
      BY <1>11, <2>1 DEF RunsOK, RunOK
  <1>13. CASE StopReturns \/ StopTimesOut
    <2>1. /\ UNCHANGED <<queueVars, stage, file, awaited, aborted>>
          /\ \/ proc' = "abandoned"
             \/ proc' = "stopped" /\ \A m \in Leases : m \in awaited => stage[m] \in {"none", "gone"}
      BY <1>13 DEF StopReturns, StopTimesOut, Inflight
    <2> QED
      BY <1>2, <1>11, <2>1 DEF RunsOK, RunOK
  <1>14. CASE Restart
    <2>1. UNCHANGED <<queueVars, stage, file, awaited, aborted>> /\ proc = "down" /\ proc' = "up"
      BY <1>14 DEF Restart
    <2> QED
      BY <1>11, <2>1 DEF RunsOK, RunOK
  <1>15. CASE Crash \/ Exit
    <2>1. /\ UNCHANGED <<queueVars, file>> /\ awaited' = {} /\ aborted' = {}
          /\ \A m \in Leases : stage'[m] \in {"none", "gone"}
      BY <1>1, <1>15 DEF Crash, Exit, Dies, Inflight
    <2> QED
      BY <2>1 DEF RunsOK, RunOK
  <1> QED
    BY <1>5, <1>6, <1>7, <1>8, <1>9, <1>10, <1>12, <1>13, <1>14, <1>15 DEF RunnerNext

-----------------------------------------------------------------------------
(* Artifacts and evidence.                                                 *)

\* A pointer is written by a success only, and stays with its terminal row; an
\* expired one stays expired until it is cleared.
LEMMA PointersKept ==
  ASSUME IInv, RefsOK, OtherStatement \/ PruneRows, NEW k \in Jobs, row'[k].ref
  PROVE  /\ row'[k].status = "succeeded" /\ row[k].ref
         /\ ~row'[k].expired => ~row[k].expired
  <1> DEFINE Kept == row'[k].ref => /\ row'[k].status = "succeeded" /\ row[k].ref
                                    /\ ~row'[k].expired => ~row[k].expired
  <1>1. row \in [Jobs -> Row] /\ \A j \in Jobs : row[j].ref => row[j].status = "succeeded"
    BY DEF IInv, RefsOK
  <1>2. ASSUME NEW j \in Jobs,
               \/ Enqueue(j) \/ Cancel(j) \/ Reap(j) \/ ClearArtifact(j) \/ TimePasses(j)
        PROVE  Kept
    <2>1. row[j] \in Row
      BY <1>1
    <2>2. CASE Enqueue(j)
      BY <1>1, <2>1, <2>2 DEF Enqueue, AbsentRow
    <2>3. CASE Cancel(j)
      BY <1>1, <2>1, <2>3 DEF Cancel, Unlocked, Row
    <2>4. CASE Reap(j)
      BY <1>1, <2>1, <2>4 DEF Reap, UpdateIf, Reaped, Unlocked, Row
    <2>5. CASE ClearArtifact(j)
      BY <1>1, <2>1, <2>5 DEF ClearArtifact, UpdateIf, Row
    <2>6. CASE TimePasses(j)
      BY <1>1, <2>1, <2>6 DEF TimePasses, Row
    <2> QED
      BY <1>2, <2>2, <2>3, <2>4, <2>5, <2>6
  <1>3. ASSUME NEW l \in Leases, NEW j \in Jobs, ClaimNext(l, j) PROVE Kept
    <2>1. row[j] \in Row /\ row[j].status = "pending"
      BY <1>1, <1>3 DEF ClaimNext
    <2> QED
      BY <1>1, <1>3, <2>1 DEF ClaimNext, Claimed, Row
  <1>4. ASSUME NEW l \in Leases, claim[l] # NoClaim
        PROVE  claim[l].job \in Jobs /\ row[claim[l].job] \in Row
    BY <1>1, <1>4, ClaimedJob
  <1>5. ASSUME NEW l \in Leases, claim[l] # NoClaim, Heartbeat(l) PROVE Kept
    BY <1>1, <1>4, <1>5 DEF Heartbeat, UpdateIf, Row
  <1>6. ASSUME NEW l \in Leases, claim[l] # NoClaim, Release(l) PROVE Kept
    BY <1>1, <1>4, <1>6 DEF Release, UpdateIf, Released, Unlocked, Row, Holds
  <1>7. ASSUME NEW l \in Leases, claim[l] # NoClaim, NEW retry \in BOOLEAN, Fail(l, retry)
        PROVE  Kept
    BY <1>1, <1>4, <1>7 DEF Fail, UpdateIf, Retried, Unlocked, Row, Holds
  <1>8. CASE PruneRows
    BY <1>1, <1>8 DEF PruneRows, Prune, AbsentRow
  <1>9. CASE UNCHANGED queueVars
    BY <1>1, <1>9 DEF queueVars
  <1> QED
    BY <1>2, <1>3, <1>5, <1>6, <1>7, <1>8, <1>9 DEF OtherStatement

\* No step takes away the file of a success that has not expired.
LEMMA ArtifactsStay ==
  ASSUME Shaped, RunsOK, RefsOK, ArtifactServed, [RunnerNext]_vars
  PROVE  RefsOK' /\ ArtifactServed'
  <1>1. ASSUME NEW l \in Leases, RecordSuccess(l) PROVE RefsOK' /\ ArtifactServed'
    <2> DEFINE j == JobOf(l)
    <2>1. /\ row \in [Jobs -> Row] /\ claim[l] # NoClaim /\ j \in Jobs /\ row[j] \in Row
      BY <1>1, ClaimedJob DEF RecordSuccess, Shaped, Launched, IInv, JobOf
    <2>2. /\ file' = file
          /\ row' = IF Holds(row[j], l)
                    THEN [row EXCEPT ![j] = Succeeded(row[j], stage[l] = "published")] ELSE row
      BY <1>1 DEF RecordSuccess, Succeed, UpdateIf, JobOf
    <2>3. /\ Succeeded(row[j], stage[l] = "published").status = "succeeded"
          /\ Succeeded(row[j], stage[l] = "published").ref => stage[l] = "published"
      BY <2>1 DEF Succeeded, Unlocked, Row
    \* whoever publishes and still holds the lease has its file in place
    <2>4. Holds(row[j], l) /\ stage[l] = "published" => j \in file
      BY DEF RunsOK, RunOK, Lost
    <2> QED
      BY <2>1, <2>2, <2>3, <2>4 DEF RefsOK, ArtifactServed
  <1>2. CASE OtherStatement \/ PruneRows
    <2>1. RefsOK'
      BY <1>2, PointersKept DEF Shaped, RefsOK
    <2>2. ASSUME NEW j \in Jobs, row'[j].status = "succeeded", row'[j].ref, ~row'[j].expired
          PROVE  j \in file'
      <3>1. row[j].ref /\ ~row[j].expired /\ row[j].status = "succeeded" /\ j \in file
        BY <1>2, <2>2, PointersKept DEF Shaped, RefsOK, ArtifactServed
      <3>2. ASSUME NEW l \in Leases, RunStep(l) PROVE j \in file'
        <4>1. CASE DropCanceledArtifact(l)
          BY <3>1, <4>1 DEF DropCanceledArtifact
        <4>2. CASE ~DropCanceledArtifact(l)
          BY <3>1, <3>2, <4>2 DEF RunStep, Throw, Reserve, FinalReport, Publish, Finish,
                 RecordSuccess, Judge, RecordFailure, ReleaseRun, CloseRun
        <4> QED
          BY <4>1, <4>2
      <3>3. ASSUME NEW i \in Jobs,
                   \/ ReapStale(i) \/ CollectArtifact(i) \/ ClearPointer(i)
                   \/ Client(i) \/ Clock(i)
            PROVE  j \in file'
        BY <3>1, <3>3 DEF ReapStale, CollectArtifact, ClearPointer, Client, Clock, runnerVars
      <3>4. ASSUME NEW l \in Leases,
                   HeartbeatTick(l) \/ \E i \in Jobs : ClaimAndLaunch(l, i)
            PROVE  j \in file'
        BY <3>1, <3>4 DEF HeartbeatTick, ClaimAndLaunch
      <3>5. CASE \/ EnterClaimLoop \/ ClaimNothing \/ CloseTerminalReservations \/ PruneRows
                 \/ Stop \/ StopReturns \/ StopTimesOut \/ Crash \/ Exit \/ Restart
                 \/ UNCHANGED vars
        BY <3>1, <3>5 DEF EnterClaimLoop, ClaimNothing, CloseTerminalReservations, PruneRows,
             Stop, StopReturns, StopTimesOut, Crash, Exit, Restart, Dies, vars, runnerVars
      <3> QED
        BY <3>2, <3>3, <3>4, <3>5 DEF RunnerNext
    <2> QED
      BY <2>1, <2>2 DEF ArtifactServed
  <1> QED
    BY <1>1, <1>2, StepIsStatement DEF Shaped

\* A row that is there stays there, or is pruned.
LEMMA RowsKept ==
  ASSUME IInv, NEW j \in Jobs, row[j].status # "absent",
         OtherStatement \/ \E l \in Leases : claim[l] # NoClaim /\ RecordSuccess(l)
  PROVE  row'[j].status # "absent"
  <1>1. row \in [Jobs -> Row]
    BY DEF IInv
  <1>2. ASSUME NEW i \in Jobs,
               \/ Enqueue(i) \/ Cancel(i) \/ Reap(i) \/ ClearArtifact(i) \/ TimePasses(i)
        PROVE  row'[j].status # "absent"
    <2>1. row[i] \in Row
      BY <1>1
    <2>2. CASE Enqueue(i)
      BY <1>1, <2>1, <2>2 DEF Enqueue, AbsentRow
    <2>3. CASE Cancel(i)
      BY <1>1, <2>1, <2>3 DEF Cancel, Unlocked, Row
    <2>4. CASE Reap(i)
      BY <1>1, <2>1, <2>4 DEF Reap, UpdateIf, Reaped, Unlocked, Row
    <2>5. CASE ClearArtifact(i)
      BY <1>1, <2>1, <2>5 DEF ClearArtifact, UpdateIf, Row
    <2>6. CASE TimePasses(i)
      BY <1>1, <2>1, <2>6 DEF TimePasses, Row
    <2> QED
      BY <1>2, <2>2, <2>3, <2>4, <2>5, <2>6
  <1>3. ASSUME NEW l \in Leases, NEW i \in Jobs, ClaimNext(l, i)
        PROVE  row'[j].status # "absent"
    <2>1. row[i] \in Row
      BY <1>1
    <2> QED
      BY <1>1, <1>3, <2>1 DEF ClaimNext, Claimed, Row
  <1>4. ASSUME NEW l \in Leases, claim[l] # NoClaim
        PROVE  claim[l].job \in Jobs /\ row[claim[l].job] \in Row
    BY <1>1, <1>4, ClaimedJob
  <1>5. ASSUME NEW l \in Leases, claim[l] # NoClaim, Heartbeat(l)
        PROVE  row'[j].status # "absent"
    BY <1>1, <1>4, <1>5 DEF Heartbeat, UpdateIf, Row
  <1>6. ASSUME NEW l \in Leases, claim[l] # NoClaim, Release(l)
        PROVE  row'[j].status # "absent"
    BY <1>1, <1>4, <1>6 DEF Release, UpdateIf, Released, Unlocked, Row
  <1>7. ASSUME NEW l \in Leases, claim[l] # NoClaim, NEW retry \in BOOLEAN, Fail(l, retry)
        PROVE  row'[j].status # "absent"
    BY <1>1, <1>4, <1>7 DEF Fail, UpdateIf, Retried, Unlocked, Row
  <1>8. ASSUME NEW l \in Leases, claim[l] # NoClaim, RecordSuccess(l)
        PROVE  row'[j].status # "absent"
    <2>1. PICK artifact \in BOOLEAN : Succeed(l, artifact)
      BY <1>8, SuccessIsStatement
    <2> QED
      BY <1>1, <1>4, <1>8, <2>1 DEF Succeed, UpdateIf, Succeeded, Unlocked, Row
  <1>9. CASE UNCHANGED queueVars
    BY <1>9 DEF queueVars
  <1> QED
    BY <1>2, <1>3, <1>5, <1>6, <1>7, <1>8, <1>9 DEF OtherStatement

\* No step deletes the row of an open reservation.
LEMMA EvidenceStays ==
  ASSUME Shaped, EvidenceKept, [RunnerNext]_vars
  PROVE  EvidenceKept'
  <1>1. row \in [Jobs -> Row] /\ held \subseteq Jobs
        /\ \A j \in held : row[j].status # "absent"
    BY DEF Shaped, IInv, RunnerTypeOK, EvidenceKept
  <1>2. CASE PruneRows
    BY <1>1, <1>2 DEF PruneRows, Prune, Prunable, runnerVars, EvidenceKept
  <1>3. ASSUME NEW l \in Leases, Reserve(l) PROVE EvidenceKept'
    <2>1. UNCHANGED row /\ held' = held \cup {JobOf(l)} /\ row[JobOf(l)].status = "running"
      BY <1>3 DEF Reserve, Holds, queueVars
    <2> QED
      BY <1>1, <2>1 DEF EvidenceKept
  <1>4. CASE ~PruneRows /\ held' \subseteq held
    <2>1. OtherStatement \/ \E l \in Leases : claim[l] # NoClaim /\ RecordSuccess(l)
      <3>1. ASSUME NEW l \in Leases, RecordSuccess(l) PROVE claim[l] # NoClaim
        BY <3>1 DEF RecordSuccess, Shaped, Launched
      <3> QED
        BY <1>4, <3>1, StepIsStatement DEF Shaped
    <2> QED
      BY <1>1, <1>4, <2>1, RowsKept DEF EvidenceKept, Shaped
  <1>5. ASSUME NEW l \in Leases, RunStep(l), ~Reserve(l) PROVE held' \subseteq held
    BY <1>5 DEF RunStep, Throw, FinalReport, Publish, Finish, RecordSuccess, OpenReservations,
                DropCanceledArtifact, Judge, RecordFailure, ReleaseRun, CloseRun
  <1>6. ASSUME NEW j \in Jobs,
               \/ ReapStale(j) \/ CollectArtifact(j) \/ ClearPointer(j)
               \/ Client(j) \/ Clock(j)
        PROVE  held' \subseteq held
    BY <1>6 DEF ReapStale, CollectArtifact, ClearPointer, Client, Clock, runnerVars
  <1>7. ASSUME NEW l \in Leases,
               HeartbeatTick(l) \/ \E i \in Jobs : ClaimAndLaunch(l, i)
        PROVE  held' \subseteq held
    BY <1>7 DEF HeartbeatTick, ClaimAndLaunch
  <1>8. CASE \/ EnterClaimLoop \/ ClaimNothing \/ CloseTerminalReservations
             \/ Stop \/ StopReturns \/ StopTimesOut \/ Crash \/ Exit \/ Restart
             \/ UNCHANGED vars
    <2>1. held' \subseteq held
      BY <1>8 DEF EnterClaimLoop, ClaimNothing, CloseTerminalReservations, OpenReservations,
             Stop, StopReturns, StopTimesOut, Crash, Exit, Restart, Dies, vars, runnerVars
    <2> QED
      BY <1>2, <1>4, <2>1
  <1> QED
    BY <1>2, <1>3, <1>4, <1>5, <1>6, <1>7, <1>8 DEF RunnerNext

-----------------------------------------------------------------------------
(* The theorems.                                                           *)

\* The process at its first start.
LEMMA RunnerInit == Init2 => RInv
  <1> SUFFICES ASSUME Init2 PROVE RInv
    OBVIOUS
  <1>1. IInv /\ \A j \in Jobs : row[j] = AbsentRow
    BY InvInit DEF Init2, Init
  <1>2. /\ proc = "up" /\ loops = 0 /\ restarts = 0 /\ stage = [l \in Leases |-> "none"]
        /\ aborted = {} /\ awaited = {} /\ file = {} /\ held = {} /\ collecting = {}
    BY DEF Init2
  <1>3. Inflight = {} /\ Launched
    BY <1>2 DEF Inflight, Launched, Stages
  <1>4. RunnerTypeOK
    BY <1>2, <1>3, JobRunnerAssumption DEF RunnerTypeOK, Launched
  <1>5. SlotsOK
    BY <1>2, <1>3, FS_EmptySet, JobRunnerAssumption DEF SlotsOK
  <1>6. RefsOK /\ ArtifactServed
    BY <1>1 DEF RefsOK, ArtifactServed, AbsentRow
  <1>7. RunsOK /\ EvidenceKept
    BY <1>2 DEF RunsOK, RunOK, EvidenceKept
  <1> QED
    BY <1>1, <1>3, <1>4, <1>5, <1>6, <1>7 DEF RInv, Shaped

\* Every step keeps the invariant of the runner.
LEMMA RunnerInductive == RInv /\ [RunnerNext]_vars => RInv'
  BY LaunchedStays, TypeStays, SlotsStay, RunsStay, ArtifactsStay, EvidenceStays
     DEF RInv, Shaped

\* The runner drives the table only through the statements' contract, while it
\* runs, when it dies at any step and after it is back (jobRunner.ts over
\* jobs.ts); what is proved of the table therefore holds under the runner.
THEOREM RunnerImplementsQueue == RunnerSpec => QueueContract
  <1>1. Init2 => Init
    BY DEF Init2
  <1>2. RInv /\ [RunnerNext]_vars => [Next]_queueVars
    BY StepRefines DEF RInv, Shaped
  <1> QED
    BY RunnerInit, RunnerInductive, <1>1, <1>2, PTL DEF RunnerSpec, QueueContract, Spec

\* A success that has not expired can be downloaded, whatever runs of the same
\* job that lost their lease still do to its file (runJob, exportJob.ts).
THEOREM ArtifactsAreServed == RunnerSpec => []ArtifactServed
  <1>1. RInv => ArtifactServed
    BY DEF RInv
  <1> QED
    BY RunnerInit, RunnerInductive, <1>1, PTL DEF RunnerSpec

\* The process never runs more handlers than `concurrency`, although the test
\* and the launch are two awaits apart (claimLoop).
THEOREM SlotsAreBounded == RunnerSpec => []ConcurrencyCap
  <1>1. RInv => ConcurrencyCap
    <2> SUFFICES ASSUME RInv PROVE ConcurrencyCap
      OBVIOUS
    <2>1. /\ Cardinality(Inflight) \in Nat /\ loops \in 0 .. 1 /\ Concurrency \in Nat
          /\ Cardinality(Inflight) + loops <= Concurrency
      BY JobRunnerAssumption, FS_CardinalityType DEF RInv, SlotsOK, Shaped, RunnerTypeOK
    <2> QED
      BY <2>1 DEF ConcurrencyCap
  <1> QED
    BY RunnerInit, RunnerInductive, <1>1, PTL DEF RunnerSpec

\* Retention keeps the row an open reservation needs as evidence (prune).
THEOREM EvidenceIsKept == RunnerSpec => []EvidenceKept
  <1>1. RInv => EvidenceKept
    BY DEF RInv
  <1> QED
    BY RunnerInit, RunnerInductive, <1>1, PTL DEF RunnerSpec

\* When the drain of stop() won, no run it waited for owns a job any more.
THEOREM StopGivesBack == RunnerSpec => []StopReleases
  <1>1. RInv => StopReleases
    BY DEF RInv, Shaped, RunnerTypeOK, RunsOK, RunOK, StopReleases, Lost
  <1> QED
    BY RunnerInit, RunnerInductive, <1>1, PTL DEF RunnerSpec

\* The types of the runner's state.
THEOREM RunnerTypeCorrect == RunnerSpec => []RunnerTypeOK
  <1>1. RInv => RunnerTypeOK
    BY DEF RInv, Shaped
  <1> QED
    BY RunnerInit, RunnerInductive, <1>1, PTL DEF RunnerSpec

=============================================================================
