-------------------------- MODULE ImportRunsProofs --------------------------
(***************************************************************************)
(* The fence of import writes, for any number of jobs, claims and          *)
(* restarts.  The proof rests on the table (JobQueueProofs: a lease that   *)
(* was lost is never held again) and on the guard: whoever is inside it is *)
(* the head of the job's FIFO, so that the calls that could take the job   *)
(* or the reservation away are not.                                        *)
(***************************************************************************)
EXTENDS ImportRuns, JobQueueProofs, FiniteSetTheorems

\* A run exists only for a lease that was handed out; a run that claims has a
\* plan in its hands and no fence yet; and who is inside a guard is its head.
RunsShaped ==
    \A l \in Leases :
        /\ at[l] # "none" => claim[l] # NoClaim
        /\ at[l] \in {"none", "loading", "scanning", "claiming", "reserving"}
              => fence[l] = NoLease
        /\ at[l] \in {"claiming", "reserving"} => plan[l] \in Leases
        /\ at[l] \in Entered => AtHead(JobOf(l), l)

Shaped == IInv /\ ImportTypeOK /\ RunsShaped

-----------------------------------------------------------------------------
(* The table under the runs.                                               *)

\* A step of a run makes one statement under its lease, or none.
LEMMA RunIsStatement ==
  ASSUME RunsShaped, NEW l \in Leases, RunStep(l) \/ HeartbeatTick(l)
  PROVE  [Next]_queueVars
  <1>1. CASE HeartbeatTick(l)
    BY <1>1 DEF HeartbeatTick, InFlight, RunsShaped, Next
  <1>2. ASSUME NEW p, NEW s, Reports(l, p, s), at[l] # "none" PROVE Next
    BY <1>2 DEF Reports, RunsShaped, Next
  <1>3. CASE ReportScan(l) \/ StartWriting(l) \/ FinishWriting(l)
    BY <1>2, <1>3 DEF ReportScan, StartWriting, FinishWriting
  <1>4. CASE Record(l)
    <2>1. at[l] # "none"
      BY <1>4 DEF Record
    <2>2. CASE Succeed(l, FALSE)
      BY <2>1, <2>2 DEF RunsShaped, Next
    <2>3. CASE Release(l)
      BY <2>1, <2>3 DEF RunsShaped, Next
    <2>4. CASE Fail(l, at[l] = "faulty" /\ MayRetry(l))
      <3> DEFINE retry == at[l] = "faulty" /\ MayRetry(l)
      <3>1. Fail(l, retry) /\ retry \in BOOLEAN
        BY <2>4
      <3> HIDE DEF retry
      <3> QED
        BY <2>1, <3>1 DEF RunsShaped, Next
    <2> QED
      BY <1>4, <2>2, <2>3, <2>4 DEF Record
  <1>5. CASE \/ LoadPlan(l) \/ SettlePlan(l) \/ AskGuard(l) \/ Adopt(l)
             \/ (\E taken \in BOOLEAN : Reserve(l, taken))
             \/ EnterPublication(l) \/ PublishPlan(l) \/ ReadBack(l)
             \/ EnterWrite(l) \/ Land(l) \/ NoticeAbort(l) \/ Throw(l)
    BY <1>5 DEF LoadPlan, SettlePlan, AskGuard, Adopt, Reserve, EnterPublication,
                PublishPlan, ReadBack, EnterWrite, EnterFence, Land, NoticeAbort, Throw
  <1> QED
    BY <1>1, <1>3, <1>4, <1>5 DEF RunStep

\* The imports drive the table only through its statements.
LEMMA ImportsUseQueue ==
  ASSUME RunsShaped, [ImportNext]_vars
  PROVE  [Next]_queueVars
  <1>1. ASSUME NEW l \in Leases, NEW j \in Jobs, ClaimJob(l, j) PROVE Next
    BY <1>1 DEF ClaimJob, Next
  <1>2. ASSUME NEW j \in Jobs, CancelLands(j) PROVE [Next]_queueVars
    <2>1. CASE row[j].status \in {"pending", "running"}
      BY <1>2, <2>1 DEF CancelLands, UpdateIf, Cancel, Next
    <2>2. CASE row[j].status \notin {"pending", "running"}
      BY <1>2, <2>2 DEF CancelLands, UpdateIf, queueVars
    <2> QED
      BY <2>1, <2>2
  <1>3. ASSUME NEW j \in Jobs, ReapLands(j) \/ Submit(j) \/ Clock(j) PROVE Next
    BY <1>3 DEF ReapLands, Submit, Clock, Next
  <1>4. ASSUME NEW j \in Jobs,
               \/ AskCancel(j) \/ AskReap(j) \/ JudgeEnded(j) \/ AskClose(j)
               \/ CloseLands(j) \/ LosePlan(j)
        PROVE  UNCHANGED queueVars
    BY <1>4 DEF AskCancel, AskReap, Call, JudgeEnded, AskClose, CloseLands, LosePlan
  <1>5. CASE Stop \/ Restart \/ UNCHANGED vars
    BY <1>5 DEF Stop, Restart, vars
  <1> QED
    BY <1>1, <1>2, <1>3, <1>4, <1>5, RunIsStatement DEF ImportNext, GuardedCall

\* A lease keeps what it was handed out for.
LEMMA ClaimsStay ==
  ASSUME Shaped, [ImportNext]_vars
  PROVE  /\ IInv'
         /\ \A l \in Leases : claim[l] # NoClaim
               => /\ claim'[l] = claim[l] /\ claim'[l] # NoClaim
                  /\ JobOf(l)' = JobOf(l) /\ JobOf(l) \in Jobs
                  /\ Mine(l)' => Mine(l)
  BY ImportsUseQueue, InvInductive, LocksMove, LeaseStaysLost, ClaimedJob
     DEF Shaped, JobOf, Mine

-----------------------------------------------------------------------------
(* Types.                                                                  *)

CallsOf == Leases \cup Outside

\* The two ways a guard changes keep it a sequence of calls.
LEMMA GuardSteps ==
  ASSUME guard \in [Jobs -> Seq(CallsOf)], NEW j \in Jobs,
         \/ \E call \in CallsOf : Calls(j, call)
         \/ guard[j] # <<>> /\ Leaves(j)
  PROVE  guard' \in [Jobs -> Seq(CallsOf)]
  <1>1. guard[j] \in Seq(CallsOf)
    OBVIOUS
  <1>2. ASSUME NEW call \in CallsOf, Calls(j, call) PROVE guard' \in [Jobs -> Seq(CallsOf)]
    <2>1. Append(guard[j], call) \in Seq(CallsOf)
      BY <1>1
    <2> QED
      BY <1>2, <2>1 DEF Calls
  <1>3. CASE guard[j] # <<>> /\ Leaves(j)
    <2>1. Tail(guard[j]) \in Seq(CallsOf)
      BY <1>1, <1>3
    <2> QED
      BY <1>3, <2>1 DEF Leaves
  <1> QED
    BY <1>2, <1>3

\* A step of a run moves that run only, and it leaves a guard only from the
\* head and enters one only at the head.
LEMMA RunMoves ==
  ASSUME Shaped, NEW l \in Leases, RunStep(l)
  PROVE  /\ at[l] # "none"
         /\ \A m \in Leases \ {l} : /\ at'[m] = at[m] /\ base'[m] = base[m]
                                    /\ plan'[m] = plan[m] /\ fence'[m] = fence[m]
         /\ \/ UNCHANGED guard
            \/ Calls(JobOf(l), l)
            \/ AtHead(JobOf(l), l) /\ Leaves(JobOf(l)) /\ at'[l] \notin Entered
         /\ at'[l] \in Entered /\ at[l] \notin Entered
               => AtHead(JobOf(l), l) /\ UNCHANGED guard
         /\ UNCHANGED <<judged, stopping, restarts>>
  <1> USE DEF Shaped, ImportTypeOK, RunsShaped, GoTo, Ends, Entered, Asking, Unguarded,
              run, proc, Idle
  <1>1. CASE LoadPlan(l) \/ SettlePlan(l)
    BY <1>1 DEF LoadPlan, SettlePlan
  <1>2. CASE ReportScan(l) \/ StartWriting(l) \/ FinishWriting(l)
    BY <1>2 DEF ReportScan, StartWriting, FinishWriting, Reports
  <1>3. CASE AskGuard(l)
    BY <1>3 DEF AskGuard
  <1>4. CASE Adopt(l)
    BY <1>4 DEF Adopt, HasClaim
  <1>5. ASSUME NEW taken \in BOOLEAN, Reserve(l, taken)
        PROVE  /\ at[l] = "reserving" /\ AtHead(JobOf(l), l) /\ Leaves(JobOf(l))
               /\ \A m \in Leases \ {l} : at'[m] = at[m] /\ fence'[m] = fence[m]
               /\ base' = base /\ plan' = plan /\ at'[l] \notin Entered
               /\ UNCHANGED <<judged, stopping, restarts>>
    BY <1>5 DEF Reserve, HasClaim
  <1>6. CASE EnterPublication(l) \/ EnterWrite(l)
    BY <1>6 DEF EnterPublication, EnterWrite, EnterFence
  <1>7. CASE PublishPlan(l) \/ ReadBack(l) \/ Land(l)
    <2>1. CASE PublishPlan(l)
      BY <2>1 DEF PublishPlan
    <2>2. CASE ReadBack(l)
      BY <2>2 DEF ReadBack
    <2>3. CASE Land(l)
      BY <2>3 DEF Land
    <2> QED
      BY <1>7, <2>1, <2>2, <2>3
  <1>8. CASE NoticeAbort(l) \/ Throw(l) \/ Record(l)
    <2>1. CASE NoticeAbort(l)
      BY <2>1 DEF NoticeAbort
    <2>2. CASE Throw(l)
      BY <2>2 DEF Throw
    <2>3. CASE Record(l)
      BY <2>3 DEF Record
    <2> QED
      BY <1>8, <2>1, <2>2, <2>3
  <1>9. CASE \E taken \in BOOLEAN : Reserve(l, taken)
    BY <1>5, <1>9
  <1> QED
    BY <1>1, <1>2, <1>3, <1>4, <1>6, <1>7, <1>8, <1>9 DEF RunStep

\* What any step does to the stages of the runs and to the guards.
LEMMA StepMoves ==
  ASSUME Shaped, [ImportNext]_vars
  PROVE  \/ \E l \in Leases : RunStep(l)
         \/ \E l \in Leases : /\ at[l] = "none" /\ at' = [at EXCEPT ![l] = "loading"]
                              /\ UNCHANGED <<plan, fence, proc>>
         \/ /\ UNCHANGED run
            /\ \/ UNCHANGED guard
               \/ \E j \in Jobs, call \in Outside : Calls(j, call)
               \/ \E j \in Jobs, call \in Outside : AtHead(j, call) /\ Leaves(j)
         \/ Restart
  <1>1. ASSUME NEW l \in Leases, NEW j \in Jobs, ClaimJob(l, j)
        PROVE  /\ at[l] = "none" /\ at' = [at EXCEPT ![l] = "loading"]
               /\ UNCHANGED <<plan, fence, proc>>
    BY <1>1 DEF ClaimJob, ClaimNext, GoTo, Shaped, RunsShaped
  <1>2. ASSUME NEW l \in Leases, HeartbeatTick(l) PROVE UNCHANGED run /\ UNCHANGED guard
    BY <1>2 DEF HeartbeatTick, proc
  <1>3. ASSUME NEW j \in Jobs,
               \/ AskCancel(j) \/ AskReap(j) \/ AskClose(j)
        PROVE  UNCHANGED run /\ \E call \in Outside : Calls(j, call)
    BY <1>3 DEF AskCancel, AskReap, AskClose, Call, Outside
  <1>4. ASSUME NEW j \in Jobs, GuardedCall(j)
        PROVE  UNCHANGED run /\ \E call \in Outside : AtHead(j, call) /\ Leaves(j)
    BY <1>4 DEF GuardedCall, CancelLands, ReapLands, CloseLands, Outside
  <1>5. ASSUME NEW j \in Jobs, JudgeEnded(j) \/ Submit(j) \/ Clock(j) \/ LosePlan(j)
        PROVE  UNCHANGED run /\ UNCHANGED guard
    BY <1>5 DEF JudgeEnded, Submit, Clock, LosePlan, proc
  <1>6. CASE Stop \/ UNCHANGED vars
    BY <1>6 DEF Stop, vars, proc
  <1> QED
    BY <1>1, <1>2, <1>3, <1>4, <1>5, <1>6 DEF ImportNext

\* Inside the guard means at its head.
LEMMA InsideIsHead ==
  ASSUME Shaped, [ImportNext]_vars, NEW l \in Leases, at'[l] \in Entered
  PROVE  AtHead(JobOf(l), l)'
  <1> USE DEF Shaped, RunsShaped
  <1>0. guard \in [Jobs -> Seq(CallsOf)]
    BY DEF ImportTypeOK, CallsOf
  <1>1. ASSUME at[l] \in Entered, UNCHANGED guard PROVE AtHead(JobOf(l), l)'
    BY <1>1, ClaimsStay DEF AtHead, Entered
  <1>2. ASSUME at[l] \in Entered, NEW j \in Jobs, NEW call \in CallsOf, Calls(j, call)
        PROVE  AtHead(JobOf(l), l)'
    <2>1. AtHead(JobOf(l), l) /\ JobOf(l)' = JobOf(l) /\ JobOf(l) \in Jobs
      BY <1>2, ClaimsStay DEF Entered
    <2>2. \A q \in Seq(CallsOf) :
             q # <<>> => Append(q, call) # <<>> /\ Head(Append(q, call)) = Head(q)
      OBVIOUS
    <2> QED
      BY <1>0, <1>2, <2>1, <2>2 DEF AtHead, Calls
  <1>3. ASSUME at[l] \in Entered, NEW j \in Jobs, NEW call \in CallsOf, call # l,
               AtHead(j, call), Leaves(j)
        PROVE  AtHead(JobOf(l), l)'
    <2>1. AtHead(JobOf(l), l) /\ JobOf(l)' = JobOf(l) /\ JobOf(l) \in Jobs
      BY <1>3, ClaimsStay DEF Entered
    <2>2. j # JobOf(l)
      BY <1>3, <2>1 DEF AtHead
    <2> QED
      BY <1>0, <1>3, <2>1, <2>2 DEF AtHead, Leaves
  <1>4. CASE \E m \in Leases : RunStep(m)
    <2>1. PICK m \in Leases : RunStep(m)
      BY <1>4
    <2>2. JobOf(m) \in Jobs
      BY <2>1, RunMoves, ClaimsStay
    <2>3. CASE at[l] \notin Entered
      <3>1. m = l /\ AtHead(JobOf(l), l) /\ UNCHANGED guard
        BY <2>1, <2>3, RunMoves
      <3> QED
        BY <2>1, <3>1, RunMoves, ClaimsStay DEF AtHead
    <2>4. CASE at[l] \in Entered
      BY <1>1, <1>2, <1>3, <2>1, <2>2, <2>4, RunMoves DEF CallsOf
    <2> QED
      BY <2>3, <2>4
  <1>5. CASE Restart
    BY <1>5 DEF Restart, Dies, Ends, InFlight, Entered, ImportTypeOK
  <1> QED
    BY <1>1, <1>2, <1>3, <1>4, <1>5, StepMoves, ImportAssumption
       DEF CallsOf, run, proc, Entered, ImportTypeOK

\* The guards stay sequences of calls.
LEMMA GuardsTyped ==
  ASSUME Shaped, [ImportNext]_vars
  PROVE  guard' \in [Jobs -> Seq(CallsOf)]
  <1>1. guard \in [Jobs -> Seq(CallsOf)] /\ Outside \subseteq CallsOf /\ Leases \subseteq CallsOf
    BY DEF Shaped, ImportTypeOK, CallsOf
  <1>2. ASSUME NEW l \in Leases, RunStep(l) PROVE guard' \in [Jobs -> Seq(CallsOf)]
    <2>1. JobOf(l) \in Jobs
      BY <1>2, RunMoves, ClaimsStay DEF Shaped, RunsShaped
    <2> QED
      BY <1>1, <1>2, <2>1, RunMoves, GuardSteps DEF AtHead
  <1>3. CASE Restart
    BY <1>3 DEF Restart, Dies
  <1> QED
    BY <1>1, <1>2, <1>3, StepMoves, GuardSteps DEF AtHead, proc

\* The persisted state stays typed.
LEMMA StoreTyped ==
  ASSUME Shaped, [ImportNext]_vars
  PROVE  /\ phase' \in [Jobs -> Phases] /\ replanned' \in SUBSET Jobs
         /\ header' \in [Jobs -> Headers]
         /\ sidecar' \in [Jobs -> Leases \cup {NoLease}]
         /\ landed' \in [Jobs -> SUBSET Leases]
  <1> USE DEF store
  <1>0. /\ phase \in [Jobs -> Phases] /\ replanned \in SUBSET Jobs
        /\ header \in [Jobs -> Headers]
        /\ sidecar \in [Jobs -> Leases \cup {NoLease}]
        /\ landed \in [Jobs -> SUBSET Leases]
    BY DEF Shaped, ImportTypeOK
  <1>1. ASSUME NEW l \in Leases, NEW p \in Phases, NEW next, Reports(l, p, next), JobOf(l) \in Jobs
        PROVE  /\ phase' \in [Jobs -> Phases] /\ replanned' \in SUBSET Jobs
               /\ UNCHANGED <<header, sidecar, landed>>
    BY <1>0, <1>1 DEF Reports
  <1>2. ASSUME NEW l \in Leases, RunStep(l)
        PROVE  /\ phase' \in [Jobs -> Phases] /\ replanned' \in SUBSET Jobs
               /\ header' \in [Jobs -> Headers]
               /\ sidecar' \in [Jobs -> Leases \cup {NoLease}]
               /\ landed' \in [Jobs -> SUBSET Leases]
    <2>1. JobOf(l) \in Jobs
      BY <1>2, RunMoves, ClaimsStay DEF Shaped, RunsShaped
    <2>2. CASE ReportScan(l) \/ StartWriting(l) \/ FinishWriting(l)
      BY <1>0, <1>1, <2>1, <2>2 DEF ReportScan, StartWriting, FinishWriting, Phases
    <2>3. CASE Adopt(l)
      <3>1. [fence |-> l, status |-> "active"] \in Headers
        BY DEF Headers
      <3>2. header' \in {header, [header EXCEPT ![JobOf(l)] = [fence |-> l, status |-> "active"]]}
        BY <2>3 DEF Adopt
      <3>3. UNCHANGED <<phase, sidecar, landed, replanned>>
        BY <2>3 DEF Adopt
      <3> QED
        BY <1>0, <2>1, <3>1, <3>2, <3>3
    <2>4. ASSUME NEW taken \in BOOLEAN, Reserve(l, taken)
          PROVE  header' \in [Jobs -> Headers] /\ UNCHANGED <<phase, sidecar, landed, replanned>>
      <3>1. [fence |-> l, status |-> "active"] \in Headers
        BY DEF Headers
      <3>2. header' \in {header, [header EXCEPT ![JobOf(l)] = [fence |-> l, status |-> "active"]]}
        BY <2>4 DEF Reserve
      <3> QED
        BY <1>0, <2>1, <2>4, <3>1, <3>2 DEF Reserve
    <2>5. CASE PublishPlan(l)
      BY <1>0, <2>1, <2>5 DEF PublishPlan
    <2>6. CASE Land(l)
      <3>1. plan[l] \in Leases
        BY <2>6 DEF Land, Entered, Shaped, ImportTypeOK
      <3>2. landed' \in {landed, [landed EXCEPT ![JobOf(l)] = landed[JobOf(l)] \cup {plan[l]}]}
        BY <2>6 DEF Land
      <3> QED
        BY <1>0, <2>1, <2>6, <3>1, <3>2 DEF Land
    <2>7. CASE \/ LoadPlan(l) \/ SettlePlan(l) \/ AskGuard(l) \/ EnterPublication(l)
               \/ ReadBack(l) \/ EnterWrite(l) \/ NoticeAbort(l) \/ Throw(l) \/ Record(l)
      <3>1. UNCHANGED store
        BY <2>7 DEF LoadPlan, SettlePlan, AskGuard, EnterPublication, ReadBack, EnterWrite,
                    EnterFence, NoticeAbort, Throw, Record
      <3> QED
        BY <1>0, <3>1
    <2>8. CASE \E taken \in BOOLEAN : Reserve(l, taken)
      BY <1>0, <2>4, <2>8
    <2> QED
      BY <1>2, <2>2, <2>3, <2>5, <2>6, <2>7, <2>8 DEF RunStep
  <1>3. ASSUME NEW j \in Jobs, CloseLands(j)
        PROVE  header' \in [Jobs -> Headers] /\ UNCHANGED <<phase, sidecar, landed, replanned>>
    BY <1>0, <1>3 DEF CloseLands, Headers
  <1>4. ASSUME NEW j \in Jobs, LosePlan(j)
        PROVE  /\ sidecar' \in [Jobs -> Leases \cup {NoLease}]
               /\ UNCHANGED <<phase, header, landed, replanned>>
    BY <1>0, <1>4 DEF LosePlan
  <1>5. CASE Restart
    <2>1. \A j \in Jobs : header[j].status # "free"
                            => [fence |-> header[j].fence, status |-> "closing"] \in Headers
      BY <1>0 DEF Headers, Free
    <2>2. header' \in [Jobs -> Headers]
      BY <1>0, <1>5, <2>1 DEF Restart, Dies
    <2> QED
      BY <1>0, <1>5, <2>2 DEF Restart
  <1>6. ASSUME NEW l \in Leases, NEW j \in Jobs, ClaimJob(l, j) PROVE UNCHANGED store
    BY <1>6 DEF ClaimJob
  <1>7. ASSUME NEW j \in Jobs,
               \/ AskCancel(j) \/ AskReap(j) \/ AskClose(j) \/ JudgeEnded(j)
               \/ CancelLands(j) \/ ReapLands(j) \/ Submit(j) \/ Clock(j)
        PROVE  UNCHANGED store
    BY <1>7 DEF AskCancel, AskReap, AskClose, Call, JudgeEnded, CancelLands, ReapLands,
                Submit, Clock
  <1>8. ASSUME Stop \/ UNCHANGED vars PROVE UNCHANGED store
    <2>1. CASE Stop
      BY <2>1 DEF Stop
    <2>2. CASE UNCHANGED vars
      <3> HIDE DEF store
      <3> QED
        BY <2>2 DEF vars
    <2> QED
      BY <1>8, <2>1, <2>2
  <1>9. ASSUME NEW l \in Leases, HeartbeatTick(l) PROVE UNCHANGED store
    BY <1>9 DEF HeartbeatTick
  <1>10. CASE UNCHANGED store
    BY <1>0, <1>10
  <1>11. ASSUME NEW j \in Jobs, GuardedCall(j)
         PROVE  \/ UNCHANGED store
                \/ header' \in [Jobs -> Headers] /\ UNCHANGED <<phase, sidecar, landed, replanned>>
    BY <1>3, <1>7, <1>11 DEF GuardedCall
  <1> QED
    <2>1. CASE \E l \in Leases : RunStep(l)
      BY <1>2, <2>1
    <2>2. CASE \E j \in Jobs : GuardedCall(j)
      BY <1>0, <1>10, <1>11, <2>2
    <2>3. CASE \E j \in Jobs : LosePlan(j)
      BY <1>0, <1>4, <2>3
    <2>4. CASE Stop \/ UNCHANGED vars \/ \E l \in Leases : HeartbeatTick(l) \/ \E j \in Jobs : ClaimJob(l, j)
      BY <1>6, <1>8, <1>9, <1>10, <2>4
    <2>5. CASE \E j \in Jobs : \/ AskCancel(j) \/ AskReap(j) \/ AskClose(j) \/ JudgeEnded(j)
                                \/ Submit(j) \/ Clock(j)
      BY <1>7, <1>10, <2>5
    <2> QED
      BY <1>5, <2>1, <2>2, <2>3, <2>4, <2>5 DEF ImportNext

\* What a run has in its hands, per stage.
HandsTyped ==
    /\ at \in [Leases -> Stages] /\ base \in [Leases -> Phases]
    /\ plan \in [Leases -> Leases \cup {NoLease}]
    /\ fence \in [Leases -> Leases \cup {NoLease}]

HandsFull(l) ==
    /\ at[l] \in Entered \cup {"publishing", "starting", "writing"}
          => plan[l] \in Leases /\ fence[l] \in Leases
    /\ at[l] \in {"none", "loading", "scanning", "claiming", "reserving"}
          => fence[l] = NoLease
    /\ at[l] \in {"claiming", "reserving"} => plan[l] \in Leases

\* A run's own step keeps its hands as they should be.
LEMMA RunHands ==
  ASSUME Shaped, NEW l \in Leases, RunStep(l)
  PROVE  HandsTyped' /\ HandsFull(l)'
  <1>0. /\ HandsTyped /\ HandsFull(l)
        /\ header \in [Jobs -> Headers]
        /\ sidecar \in [Jobs -> Leases \cup {NoLease}]
    BY DEF Shaped, ImportTypeOK, RunsShaped, HandsTyped, HandsFull
  <1>00. JobOf(l) \in Jobs
    BY RunMoves, ClaimedJob DEF Shaped, RunsShaped, JobOf
  <1> USE DEF HandsTyped, HandsFull, GoTo, Stages, Entered, Asking, Unguarded, Phases
  <1>1. CASE LoadPlan(l)
    BY <1>0, <1>00, <1>1 DEF LoadPlan
  <1>2. CASE SettlePlan(l)
    BY <1>0, <1>2 DEF SettlePlan
  <1>3. ASSUME Ends({l}) PROVE HandsTyped' /\ HandsFull(l)'
    BY <1>0, <1>3 DEF Ends
  <1>4. CASE ReportScan(l)
    BY <1>0, <1>3, <1>4 DEF ReportScan, Reports
  <1>5. CASE StartWriting(l)
    BY <1>0, <1>3, <1>5 DEF StartWriting, Reports
  <1>6. CASE FinishWriting(l)
    BY <1>0, <1>3, <1>6 DEF FinishWriting, Reports
  <1>7. CASE AskGuard(l)
    BY <1>0, <1>7 DEF AskGuard, run
  <1>8. CASE Adopt(l)
    BY <1>0, <1>8 DEF Adopt, HasClaim
  <1>9. ASSUME NEW taken \in BOOLEAN, Reserve(l, taken) PROVE HandsTyped' /\ HandsFull(l)'
    <2>1. CASE UNCHANGED fence /\ GoTo(l, "doomed") /\ UNCHANGED <<base, plan>>
      BY <1>0, <2>1
    <2>2. CASE /\ header'[JobOf(l)].fence \in Leases /\ at[l] = "reserving"
               /\ fence' = [fence EXCEPT ![l] = header'[JobOf(l)].fence]
               /\ GoTo(l, HasClaim(l)) /\ UNCHANGED <<base, plan>>
      BY <1>0, <2>2 DEF HasClaim
    <2>3. header[JobOf(l)].status # "free" => header[JobOf(l)].fence \in Leases
      BY <1>0, <1>00 DEF Headers, Free
    <2> QED
      BY <1>0, <1>00, <1>9, <2>1, <2>2, <2>3 DEF Reserve
  <1>10. CASE EnterPublication(l)
    BY <1>0, <1>10 DEF EnterPublication, EnterFence
  <1>11. CASE EnterWrite(l)
    BY <1>0, <1>11 DEF EnterWrite, EnterFence
  <1>12. CASE PublishPlan(l)
    BY <1>0, <1>12 DEF PublishPlan
  <1>13. CASE ReadBack(l)
    BY <1>0, <1>00, <1>13 DEF ReadBack
  <1>14. CASE Land(l)
    BY <1>0, <1>14 DEF Land
  <1>15. CASE NoticeAbort(l)
    BY <1>3, <1>15 DEF NoticeAbort
  <1>16. CASE Throw(l)
    BY <1>0, <1>16 DEF Throw
  <1>17. CASE Record(l)
    BY <1>3, <1>17 DEF Record
  <1> QED
    BY <1>1, <1>2, <1>4, <1>5, <1>6, <1>7, <1>8, <1>9, <1>10, <1>11, <1>12, <1>13, <1>14,
       <1>15, <1>16, <1>17 DEF RunStep

\* The whole state stays typed, and the runs in shape.
\* The runs change by a step of one of them, a claim, or the end of all.
LEMMA RunsChange ==
  ASSUME [ImportNext]_vars
  PROVE  \/ \E l \in Leases : RunStep(l)
         \/ \E l \in Leases, j \in Jobs : ClaimJob(l, j)
         \/ UNCHANGED run
         \/ Restart
  <1>1. ASSUME NEW l \in Leases, HeartbeatTick(l) PROVE UNCHANGED run
    BY <1>1 DEF HeartbeatTick
  <1>2. ASSUME NEW j \in Jobs, \/ AskCancel(j) \/ AskReap(j) \/ JudgeEnded(j) \/ AskClose(j)
                               \/ GuardedCall(j) \/ Submit(j) \/ Clock(j) \/ LosePlan(j)
        PROVE  UNCHANGED run
    BY <1>2 DEF AskCancel, AskReap, JudgeEnded, AskClose, GuardedCall, Submit, Clock,
                LosePlan, Call, CancelLands, ReapLands, CloseLands
  <1>3. CASE Stop \/ UNCHANGED vars
    BY <1>3 DEF Stop, vars
  <1> QED
    BY <1>1, <1>2, <1>3 DEF ImportNext

LEMMA ShapeStays ==
  ASSUME Shaped, [ImportNext]_vars
  PROVE  Shaped'
  <1>1. IInv' /\ TypeOK'
    <2>1. IInv'
      BY ClaimsStay
    <2>2. IInv' => TypeOK'
      BY DEF IInv, RowOK, ClaimsOK, TypeOK
    <2> QED
      BY <2>1, <2>2
  <1>2. \A l \in Leases : claim[l] # NoClaim => claim'[l] # NoClaim
    BY ClaimsStay
  <1>3. HandsTyped /\ \A l \in Leases : HandsFull(l)
    BY DEF Shaped, ImportTypeOK, RunsShaped, HandsTyped, HandsFull
  <1>4. HandsTyped' /\ \A l \in Leases : HandsFull(l)'
    <2>1. ASSUME NEW l \in Leases, RunStep(l)
          PROVE  HandsTyped' /\ \A m \in Leases : HandsFull(m)'
      <3>1. ASSUME NEW m \in Leases \ {l} PROVE HandsFull(m)'
        BY <1>3, <2>1, RunMoves DEF HandsFull
      <3> QED
        BY <2>1, <3>1, RunHands
    <2>2. ASSUME NEW l \in Leases, NEW j \in Jobs, ClaimJob(l, j)
          PROVE  HandsTyped' /\ \A m \in Leases : HandsFull(m)'
      <3>1. at[l] = "none" /\ fence[l] = NoLease
        BY <1>3, <2>2 DEF ClaimJob, ClaimNext, Shaped, RunsShaped, HandsFull
      <3>2. phase[j] \in Phases
        BY DEF Shaped, ImportTypeOK
      <3>3. at' = [at EXCEPT ![l] = "loading"] /\ base' = [base EXCEPT ![l] = phase[j]]
            /\ UNCHANGED <<plan, fence>>
        BY <2>2 DEF ClaimJob, GoTo
      <3> QED
        BY <1>3, <3>1, <3>2, <3>3 DEF HandsTyped, HandsFull, Stages, Unguarded, Entered
    <2>3. CASE UNCHANGED run
      BY <1>3, <2>3 DEF run, HandsTyped, HandsFull
    <2>4. CASE Restart
      BY <1>3, <2>4 DEF Restart, Dies, Ends, InFlight, HandsTyped, HandsFull, Stages, Entered,
                        Phases
    <2> QED
      BY <2>1, <2>2, <2>3, <2>4, RunsChange
  <1>5. \A l \in Leases : at'[l] # "none" => claim'[l] # NoClaim
    <2>1. ASSUME NEW l \in Leases, RunStep(l), NEW m \in Leases, at'[m] # "none"
          PROVE  claim'[m] # NoClaim
      BY <1>2, <2>1, RunMoves DEF Shaped, RunsShaped
    <2>2. ASSUME NEW l \in Leases, NEW j \in Jobs, ClaimJob(l, j), NEW m \in Leases,
                 at'[m] # "none"
          PROVE  claim'[m] # NoClaim
      <3>1. CASE m = l
        <4>1. claim' = [claim EXCEPT ![l] = [job |-> j, attempts |-> row[j].attempts + 1]]
          BY <2>2 DEF ClaimJob, ClaimNext
        <4>2. row[j].attempts + 1 \in Nat
          BY IInvMeaning DEF Shaped, TypeOK, Row
        <4>3. claim \in [Leases -> {NoClaim} \cup [job : Jobs, attempts : 1 .. MaxAttempts]]
          BY IInvMeaning DEF Shaped, TypeOK
        <4> QED
          BY <3>1, <4>1, <4>2, <4>3, JobQueueAssumption
      <3>2. CASE m # l
        BY <1>2, <2>2, <3>2, <1>3 DEF ClaimJob, GoTo, Shaped, RunsShaped, HandsTyped
      <3> QED
        BY <3>1, <3>2
    <2>3. CASE Restart
      BY <1>2, <2>3 DEF Restart, Dies, Ends, InFlight, Shaped, RunsShaped
    <2>4. CASE UNCHANGED run
      BY <1>2, <2>4 DEF run, Shaped, RunsShaped
    <2> QED
      BY <2>1, <2>2, <2>3, <2>4, RunsChange
  <1>6. /\ judged' \in SUBSET Jobs /\ stopping' \in BOOLEAN /\ restarts' \in 0 .. MaxRestarts
    <2>0. judged \in SUBSET Jobs /\ stopping \in BOOLEAN /\ restarts \in 0 .. MaxRestarts
      BY DEF Shaped, ImportTypeOK
    <2>1. ASSUME NEW l \in Leases, RunStep(l) PROVE UNCHANGED <<judged, stopping, restarts>>
      BY <2>1, RunMoves
    <2>2. CASE Restart
      <3>1. judged' = {} /\ stopping' = FALSE
        BY <2>2 DEF Restart, Dies
      <3>2. /\ stopping \/ restarts < MaxRestarts
            /\ restarts' = IF stopping THEN restarts ELSE restarts + 1
        BY <2>2 DEF Restart
      <3>3. restarts' \in 0 .. MaxRestarts
        <4>1. CASE stopping
          BY <2>0, <3>2, <4>1
        <4>2. CASE ~stopping
          BY <2>0, <3>2, <4>2, ImportAssumption
        <4> QED
          BY <4>1, <4>2
      <3> QED
        BY <3>1, <3>3
    <2>3. CASE Stop
      BY <2>0, <2>3, ImportAssumption DEF Stop
    <2>4. ASSUME NEW j \in Jobs, JudgeEnded(j) \/ AskClose(j)
          PROVE  judged' \in SUBSET Jobs /\ UNCHANGED <<stopping, restarts>>
      BY <2>0, <2>4 DEF JudgeEnded, AskClose
    <2>5. ASSUME NEW j \in Jobs, \/ AskCancel(j) \/ AskReap(j) \/ GuardedCall(j) \/ Submit(j)
                                 \/ Clock(j) \/ LosePlan(j)
          PROVE  UNCHANGED <<judged, stopping, restarts>>
      <3>1. CASE AskCancel(j) \/ AskReap(j)
        BY <3>1 DEF AskCancel, AskReap, Call
      <3>2. CASE GuardedCall(j)
        BY <3>2 DEF GuardedCall, CancelLands, ReapLands, CloseLands
      <3>3. CASE Submit(j) \/ Clock(j) \/ LosePlan(j)
        BY <3>3 DEF Submit, Clock, LosePlan, proc
      <3> QED
        BY <2>5, <3>1, <3>2, <3>3
    <2>6. ASSUME NEW l \in Leases, NEW j \in Jobs, ClaimJob(l, j)
          PROVE  UNCHANGED <<judged, stopping, restarts>>
      BY <2>6 DEF ClaimJob, proc
    <2>7. ASSUME NEW l \in Leases, HeartbeatTick(l) PROVE UNCHANGED <<judged, stopping, restarts>>
      BY <2>7 DEF HeartbeatTick, proc
    <2>8. CASE UNCHANGED vars
      BY <2>0, <2>8 DEF vars, proc
    <2> QED
      BY <2>0, <2>1, <2>2, <2>3, <2>4, <2>5, <2>6, <2>7, <2>8 DEF ImportNext
  <1>7. \A l \in Leases : at'[l] \in Entered => AtHead(JobOf(l), l)'
    BY InsideIsHead
  <1>8. RunsShaped'
    BY <1>4, <1>5, <1>7 DEF RunsShaped, HandsFull
  <1>9. ImportTypeOK'
    BY <1>1, <1>4, <1>6, GuardsTyped, StoreTyped DEF ImportTypeOK, HandsTyped, HandsFull, CallsOf
  <1> QED
    BY <1>1, <1>8, <1>9 DEF Shaped

\* Before the first step nothing runs.
LEMMA ShapedAtFirst ==
  ASSUME ImportInit
  PROVE  Shaped
  <1>1. IInv
    BY InvInit DEF ImportInit
  <1>2. RunsShaped
    BY DEF ImportInit, RunsShaped, Entered
  <1>3. ImportTypeOK
    <2>1. TypeOK
      BY <1>1, IInvMeaning
    <2>2. \A j \in Jobs : <<>> \in Seq(Leases \cup Outside)
      OBVIOUS
    <2>3. guard \in [Jobs -> Seq(Leases \cup Outside)]
      BY <2>2 DEF ImportInit
    <2>4. /\ phase \in [Jobs -> Phases] /\ header \in [Jobs -> Headers]
          /\ sidecar \in [Jobs -> Leases \cup {NoLease}]
          /\ landed \in [Jobs -> SUBSET Leases] /\ replanned \in SUBSET Jobs
      BY DEF ImportInit, Phases, Headers
    <2>5. /\ at \in [Leases -> Stages] /\ base \in [Leases -> Phases]
          /\ plan \in [Leases -> Leases \cup {NoLease}]
          /\ fence \in [Leases -> Leases \cup {NoLease}]
      BY DEF ImportInit, Phases, Stages
    <2>6. judged \in SUBSET Jobs /\ stopping \in BOOLEAN
      BY DEF ImportInit
    <2>7. restarts \in 0 .. MaxRestarts
      BY ImportAssumption DEF ImportInit
    <2>8. \A l \in Leases : at[l] \notin Entered \cup {"publishing", "starting", "writing"}
      BY DEF ImportInit, Entered
    <2> QED
      BY <2>1, <2>3, <2>4, <2>5, <2>6, <2>7, <2>8 DEF ImportTypeOK
  <1> QED
    BY <1>1, <1>2, <1>3 DEF Shaped

\* Every state the imports reach is typed, and their runs are in shape.
LEMMA AlwaysShaped == ImportSpec => []Shaped
  BY ShapedAtFirst, ShapeStays, PTL DEF ImportSpec

\* The state of the imports, of their runs and of their guards stays typed,
\* and no run comes to a write without a plan and a fence.
THEOREM ImportTypeCorrect == ImportSpec => []ImportTypeOK
  <1>1. Shaped => ImportTypeOK
    BY DEF Shaped
  <1> QED
    BY <1>1, AlwaysShaped, PTL

\* The imports drive the table only through its statements, whatever is asked
\* of them from outside and when the process restarts; what is proved of the
\* table holds under them (importReservations.ts over jobs.ts).
THEOREM ImportsImplementQueue == ImportSpec => Spec
  <1>1. ImportInit => Init
    BY DEF ImportInit
  <1>2. Shaped /\ [ImportNext]_vars => [Next]_queueVars
    BY ImportsUseQueue DEF Shaped
  <1> QED
    BY <1>1, <1>2, AlwaysShaped, PTL DEF ImportSpec, Spec

-----------------------------------------------------------------------------
(* The fence.                                                              *)

\* A cleanup is under way only for jobs that have ended.
ClosersOK ==
    \A j \in Jobs : j \in judged \/ Queued(j, "close") => Ended(j)

\* Inside the guard the job is the run's own.
InsideIsMine ==
    \A l \in Leases : at[l] \in Entered => Mine(l)

Fenced == Shaped /\ OwnerKeepsClaim /\ ClosersOK /\ InsideIsMine

\* Statements under a lease touch the row only of the job they still own.
LEMMA LeaseStatements ==
  ASSUME Shaped, NEW l \in Leases, JobOf(l) \in Jobs, NEW i \in Jobs,
         \/ Heartbeat(l) \/ Succeed(l, FALSE) \/ Release(l)
         \/ \E retry \in BOOLEAN : Fail(l, retry)
  PROVE  \/ row'[i] = row[i]
         \/ i = JobOf(l) /\ Mine(l)
  <1>1. row \in [Jobs -> Row]
    BY IInvMeaning DEF Shaped, TypeOK
  <1> QED
    BY <1>1 DEF Heartbeat, Succeed, Release, Fail, UpdateIf, JobOf, Mine

\* What a step of a run does to the table.
LEMMA RunRows ==
  ASSUME Shaped, NEW l \in Leases, RunStep(l)
  PROVE  \/ UNCHANGED row
         \/ Heartbeat(l)
         \/ /\ at'[l] = "ended"
            /\ \/ Succeed(l, FALSE) \/ Release(l)
               \/ \E retry \in BOOLEAN : Fail(l, retry)
  <1>1. CASE Record(l)
    <2>1. at \in [Leases -> Stages] /\ at'[l] = "ended"
      BY <1>1 DEF Record, Ends, Shaped, ImportTypeOK
    <2>2. (at[l] = "faulty" /\ MayRetry(l)) \in BOOLEAN
      OBVIOUS
    <2> QED
      BY <1>1, <2>1, <2>2 DEF Record
  <1>2. CASE ReportScan(l) \/ StartWriting(l) \/ FinishWriting(l)
    BY <1>2 DEF ReportScan, StartWriting, FinishWriting, Reports
  <1>3. CASE \/ LoadPlan(l) \/ SettlePlan(l) \/ AskGuard(l) \/ Adopt(l)
             \/ (\E taken \in BOOLEAN : Reserve(l, taken))
             \/ EnterPublication(l) \/ PublishPlan(l) \/ ReadBack(l)
             \/ EnterWrite(l) \/ Land(l) \/ NoticeAbort(l) \/ Throw(l)
    BY <1>3 DEF LoadPlan, SettlePlan, AskGuard, Adopt, Reserve, EnterPublication,
                PublishPlan, ReadBack, EnterWrite, EnterFence, Land, NoticeAbort, Throw, queueVars
  <1> QED
    BY <1>1, <1>2, <1>3 DEF RunStep

\* A job that ended is not reopened, nor is its row deleted.
LEMMA EndedStays ==
  ASSUME Shaped, [ImportNext]_vars, NEW j \in Jobs, Ended(j)
  PROVE  Ended(j)'
  <1>0. row \in [Jobs -> Row] /\ row[j].status \in Terminal
    BY IInvMeaning DEF Shaped, TypeOK, Ended
  <1>1. ASSUME row'[j] = row[j] PROVE Ended(j)'
    BY <1>0, <1>1 DEF Ended
  <1>2. ASSUME NEW l \in Leases, RunStep(l) \/ HeartbeatTick(l) PROVE row'[j] = row[j]
    <2>1. JobOf(l) \in Jobs
      BY <1>2, RunMoves, ClaimedJob DEF Shaped, RunsShaped, JobOf, HeartbeatTick, InFlight
    <2>2. j = JobOf(l) => ~Mine(l)
      BY <1>0 DEF Mine, Holds, Terminal
    <2>3. CASE UNCHANGED row
      BY <2>3
    <2> QED
      BY <1>2, <2>1, <2>2, <2>3, RunRows, LeaseStatements DEF HeartbeatTick
  <1>3. ASSUME NEW l \in Leases, NEW i \in Jobs, ClaimJob(l, i) PROVE row'[j] = row[j]
    BY <1>0, <1>3 DEF ClaimJob, ClaimNext, Terminal
  <1>4. ASSUME NEW i \in Jobs, CancelLands(i) PROVE row'[j] = row[j]
    BY <1>0, <1>4 DEF CancelLands, UpdateIf, Terminal
  <1>5. ASSUME NEW i \in Jobs, ReapLands(i) PROVE row'[j] = row[j]
    BY <1>0, <1>5 DEF ReapLands, Reap, UpdateIf, Terminal
  <1>6. ASSUME NEW i \in Jobs, Submit(i) PROVE row'[j] = row[j]
    BY <1>0, <1>6 DEF Submit, Enqueue, AbsentRow, Terminal
  <1>7. ASSUME NEW i \in Jobs, Clock(i) PROVE Ended(j)'
    <2>1. i # j
      BY <1>0, <1>7 DEF Clock, Terminal
    <2> QED
      BY <1>0, <1>1, <1>7, <2>1 DEF Clock, TimePasses
  <1>8. ASSUME NEW i \in Jobs, \/ AskCancel(i) \/ AskReap(i) \/ JudgeEnded(i) \/ AskClose(i)
                               \/ CloseLands(i) \/ LosePlan(i)
        PROVE  UNCHANGED row
    BY <1>8 DEF AskCancel, AskReap, Call, JudgeEnded, AskClose, CloseLands, LosePlan, queueVars
  <1>9. CASE Stop \/ Restart \/ UNCHANGED vars
    BY <1>1, <1>9 DEF Stop, Restart, vars, queueVars
  <1> QED
    BY <1>1, <1>2, <1>3, <1>4, <1>5, <1>6, <1>7, <1>8, <1>9 DEF ImportNext, GuardedCall

\* The guard protects the row of the job whose run is inside it.
LEMMA LeaseKept ==
  ASSUME Shaped, [ImportNext]_vars, NEW l \in Leases,
         at[l] \in Entered, at'[l] \in Entered, Mine(l)
  PROVE  Mine(l)'
  <1> DEFINE j == JobOf(l)
  <1>0. /\ row \in [Jobs -> Row] /\ j \in Jobs /\ JobOf(l)' = j
        /\ row[j].lockedBy = l /\ row[j].status = "running"
        /\ AtHead(j, l) /\ l \notin Outside
    BY ClaimsStay, IInvMeaning, ImportAssumption
       DEF Shaped, TypeOK, RunsShaped, Entered, Mine, Holds
  <1> HIDE DEF j
  <1>1. ASSUME row'[j] = row[j] PROVE Mine(l)'
    BY <1>0, <1>1 DEF Mine, Holds
  <1>2. ASSUME NEW m \in Leases, Heartbeat(m), JobOf(m) \in Jobs PROVE Mine(l)'
    <2>1. row' \in {row, [row EXCEPT ![JobOf(m)] = [row[JobOf(m)] EXCEPT !.stale = FALSE]]}
      BY <1>2 DEF Heartbeat, UpdateIf, JobOf
    <2>2. row[j] \in Row
      BY <1>0
    <2> QED
      BY <1>0, <2>1, <2>2 DEF Mine, Holds, Row
  <1>3. ASSUME NEW m \in Leases, RunStep(m) \/ HeartbeatTick(m) PROVE Mine(l)'
    <2>1. JobOf(m) \in Jobs
      BY <1>3, RunMoves, ClaimedJob DEF Shaped, RunsShaped, JobOf, HeartbeatTick, InFlight
    <2>2. CASE Heartbeat(m)
      BY <1>2, <2>1, <2>2
    <2>3. CASE /\ at'[m] = "ended"
               /\ \/ Succeed(m, FALSE) \/ Release(m)
                  \/ \E retry \in BOOLEAN : Fail(m, retry)
      <3>1. m # l
        BY <2>3 DEF Entered
      <3>2. j = JobOf(m) => ~Mine(m)
        BY <1>0, <3>1 DEF Mine, Holds
      <3> QED
        BY <1>0, <1>1, <2>1, <2>3, <3>2, LeaseStatements
    <2> QED
      BY <1>1, <1>3, <2>2, <2>3, RunRows DEF HeartbeatTick
  <1>4. ASSUME NEW m \in Leases, NEW i \in Jobs, ClaimJob(m, i) PROVE row'[j] = row[j]
    BY <1>0, <1>4 DEF ClaimJob, ClaimNext
  <1>5. ASSUME NEW i \in Jobs, GuardedCall(i) PROVE row'[j] = row[j]
    <2>1. CASE CloseLands(i)
      BY <2>1 DEF CloseLands, queueVars
    <2>2. CASE CancelLands(i)
      <3>1. i # j
        BY <1>0, <2>2 DEF CancelLands, AtHead, Outside
      <3> QED
        BY <1>0, <2>2, <3>1 DEF CancelLands, UpdateIf
    <2>3. CASE ReapLands(i)
      <3>1. i # j
        BY <1>0, <2>3 DEF ReapLands, AtHead, Outside
      <3> QED
        BY <1>0, <2>3, <3>1 DEF ReapLands, Reap, UpdateIf
    <2> QED
      BY <1>5, <2>1, <2>2, <2>3 DEF GuardedCall
  <1>6. ASSUME NEW i \in Jobs, Submit(i) PROVE row'[j] = row[j]
    BY <1>0, <1>6 DEF Submit, Enqueue, AbsentRow
  <1>7. ASSUME NEW i \in Jobs, Clock(i) PROVE Mine(l)'
    <2>1. row[j] \in Row
      BY <1>0
    <2>2. i = j => row'[j].lockedBy = row[j].lockedBy /\ row'[j].status = row[j].status
      BY <1>0, <1>7, <2>1 DEF Clock, TimePasses, Row
    <2>3. i # j => row'[j] = row[j]
      BY <1>0, <1>7 DEF Clock, TimePasses
    <2> QED
      BY <1>0, <1>1, <2>2, <2>3 DEF Mine, Holds
  <1>8. ASSUME NEW i \in Jobs, \/ AskCancel(i) \/ AskReap(i) \/ JudgeEnded(i) \/ AskClose(i)
                               \/ LosePlan(i)
        PROVE  UNCHANGED row
    BY <1>8 DEF AskCancel, AskReap, Call, JudgeEnded, AskClose, LosePlan, queueVars
  <1>9. CASE Stop \/ Restart \/ UNCHANGED vars
    BY <1>1, <1>9 DEF Stop, Restart, vars, queueVars
  <1> QED
    BY <1>1, <1>3, <1>4, <1>5, <1>6, <1>7, <1>8, <1>9 DEF ImportNext

\* The reservation of a job changes only by the run that owns the job, by a
\* close at the head of the guard, and at a restart.
LEMMA HeaderMoves ==
  ASSUME Shaped, [ImportNext]_vars, NEW j \in Jobs, header'[j] # header[j]
  PROVE  \/ \E l \in Leases : JobOf(l) = j /\ Mine(l) /\ at[l] \in {"claiming", "reserving"}
                              /\ RunStep(l)
         \/ AtHead(j, "close") /\ UNCHANGED run /\ UNCHANGED row
         \/ Restart
  <1>0. header \in [Jobs -> Headers]
    BY DEF Shaped, ImportTypeOK
  <1>1. ASSUME NEW l \in Leases, RunStep(l)
        PROVE  JobOf(l) = j /\ Mine(l) /\ at[l] \in {"claiming", "reserving"}
    <2>1. CASE Adopt(l)
      BY <1>0, <2>1 DEF Adopt
    <2>2. ASSUME NEW taken \in BOOLEAN, Reserve(l, taken)
          PROVE  JobOf(l) = j /\ Mine(l) /\ at[l] = "reserving"
      BY <1>0, <2>2 DEF Reserve
    <2>3. CASE ReportScan(l) \/ StartWriting(l) \/ FinishWriting(l)
      BY <2>3 DEF ReportScan, StartWriting, FinishWriting, Reports
    <2>4. CASE \/ LoadPlan(l) \/ SettlePlan(l) \/ AskGuard(l) \/ EnterPublication(l)
               \/ ReadBack(l) \/ EnterWrite(l) \/ NoticeAbort(l) \/ Throw(l) \/ Record(l)
      BY <2>4 DEF LoadPlan, SettlePlan, AskGuard, EnterPublication, ReadBack, EnterWrite,
                  EnterFence, NoticeAbort, Throw, Record, store
    <2>5. CASE PublishPlan(l) \/ Land(l)
      BY <2>5 DEF PublishPlan, Land
    <2> QED
      BY <1>1, <2>1, <2>2, <2>3, <2>4, <2>5 DEF RunStep
  <1>2. ASSUME NEW i \in Jobs, CloseLands(i)
        PROVE  AtHead(j, "close") /\ UNCHANGED run /\ UNCHANGED row
    BY <1>0, <1>2 DEF CloseLands, queueVars
  <1>3. ASSUME NEW i \in Jobs,
               \/ AskCancel(i) \/ AskReap(i) \/ AskClose(i) \/ JudgeEnded(i)
               \/ CancelLands(i) \/ ReapLands(i) \/ Submit(i) \/ Clock(i) \/ LosePlan(i)
        PROVE  UNCHANGED header
    BY <1>3 DEF AskCancel, AskReap, AskClose, Call, JudgeEnded, CancelLands, ReapLands,
                Submit, Clock, LosePlan, store
  <1>4. ASSUME NEW l \in Leases, NEW i \in Jobs, ClaimJob(l, i) PROVE UNCHANGED header
    BY <1>4 DEF ClaimJob, store
  <1>5. ASSUME NEW l \in Leases, HeartbeatTick(l) PROVE UNCHANGED header
    BY <1>5 DEF HeartbeatTick, store
  <1>6. ASSUME Stop \/ UNCHANGED vars PROVE UNCHANGED header
    <2>1. CASE Stop
      BY <2>1 DEF Stop, store
    <2>2. CASE UNCHANGED vars
      <3>1. UNCHANGED store
        BY <2>2 DEF vars
      <3> QED
        BY <3>1 DEF store
    <2> QED
      BY <1>6, <2>1, <2>2
  <1> QED
    BY <1>1, <1>2, <1>3, <1>4, <1>5, <1>6 DEF ImportNext, GuardedCall

\* A call is queued only by the call itself.
LEMMA QueuedMoves ==
  ASSUME guard \in [Jobs -> Seq(CallsOf)], NEW j \in Jobs, NEW call, Queued(j, call)',
         NEW i \in Jobs, NEW other \in CallsOf,
         Calls(i, other) \/ (guard[i] # <<>> /\ Leaves(i))
  PROVE  Queued(j, call) \/ (i = j /\ other = call /\ Calls(i, other))
  <1>0. guard[j] \in Seq(CallsOf) /\ guard[i] \in Seq(CallsOf)
    OBVIOUS
  <1>1. PICK k \in 1 .. Len(guard'[j]) : guard'[j][k] = call
    BY DEF Queued
  <1>2. CASE i # j
    <2>1. guard'[j] = guard[j]
      BY <1>2 DEF Calls, Leaves
    <2> QED
      BY <1>1, <2>1 DEF Queued
  <1>3. CASE i = j /\ Calls(i, other)
    <2>1. guard'[j] = Append(guard[j], other)
      BY <1>3 DEF Calls
    <2>2. /\ Len(guard'[j]) = Len(guard[j]) + 1
          /\ k <= Len(guard[j]) => guard'[j][k] = guard[j][k]
          /\ k = Len(guard[j]) + 1 => guard'[j][k] = other
      BY <1>0, <1>1, <2>1
    <2> QED
      BY <1>0, <1>1, <1>3, <2>2 DEF Queued
  <1>4. CASE i = j /\ guard[i] # <<>> /\ Leaves(i)
    <2>1. guard'[j] = Tail(guard[j])
      BY <1>4 DEF Leaves
    <2>2. Len(guard'[j]) = Len(guard[j]) - 1 /\ guard'[j][k] = guard[j][k + 1]
      BY <1>0, <1>1, <1>4, <2>1
    <2> QED
      BY <1>0, <1>1, <2>2 DEF Queued
  <1> QED
    BY <1>2, <1>3, <1>4

\* A cleanup starts from the row of a job that ended, and such a row stays.
LEMMA ClosersStay ==
  ASSUME Shaped, ClosersOK, [ImportNext]_vars
  PROVE  ClosersOK'
  <1>0. guard \in [Jobs -> Seq(CallsOf)] /\ Outside \subseteq CallsOf /\ Leases \subseteq CallsOf
        /\ "close" \notin Leases
    BY ImportAssumption DEF Shaped, ImportTypeOK, CallsOf, Outside
  <1> SUFFICES ASSUME NEW j \in Jobs, j \in judged' \/ Queued(j, "close")'
               PROVE  Ended(j)'
    BY DEF ClosersOK
  <1>1. SUFFICES ASSUME ~(j \in judged \/ Queued(j, "close")) PROVE Ended(j)'
    BY EndedStays DEF ClosersOK
  <1>2. UNCHANGED guard => ~Queued(j, "close")'
    BY <1>1 DEF Queued
  <1>12. ASSUME NEW i \in Jobs, NEW other \in CallsOf, other # "close" \/ i # j,
                Calls(i, other) \/ (guard[i] # <<>> /\ Leaves(i))
         PROVE  ~Queued(j, "close")'
    <2> SUFFICES ASSUME Queued(j, "close")' PROVE FALSE
      OBVIOUS
    <2>1. Queued(j, "close") \/ (i = j /\ other = "close")
      BY <1>0, <1>12, QueuedMoves
    <2> QED
      BY <1>1, <1>12, <2>1
  <1>3. ASSUME NEW l \in Leases, RunStep(l) PROVE FALSE
    <2>1. JobOf(l) \in Jobs /\ l \in CallsOf /\ l # "close"
      BY <1>0, <1>3, RunMoves, ClaimedJob DEF Shaped, RunsShaped, JobOf
    <2>2. UNCHANGED judged
      BY <1>3, RunMoves
    <2>3. Queued(j, "close")'
      BY <1>1, <2>2
    <2> QED
      BY <1>2, <1>3, <1>12, <2>1, <2>3, RunMoves DEF AtHead
  <1>4. ASSUME NEW i \in Jobs, AskCancel(i) \/ AskReap(i) \/ GuardedCall(i) PROVE FALSE
    <2>1. CASE AskCancel(i)
      BY <1>0, <1>1, <1>12, <2>1 DEF AskCancel, Call, Outside
    <2>2. CASE AskReap(i)
      BY <1>0, <1>1, <1>12, <2>2 DEF AskReap, Call, Outside
    <2>3. CASE GuardedCall(i)
      <3>1. guard[i] # <<>> /\ Leaves(i) /\ UNCHANGED judged
        BY <2>3 DEF GuardedCall, CancelLands, ReapLands, CloseLands, AtHead
      <3>2. "cancel" \in CallsOf
        BY <1>0 DEF Outside
      <3> QED
        BY <1>1, <1>12, <3>1, <3>2
    <2> QED
      BY <1>4, <2>1, <2>2, <2>3
  <1>5. ASSUME NEW i \in Jobs, JudgeEnded(i) PROVE Ended(j)'
    <2>1. i = j /\ Ended(j)
      BY <1>1, <1>2, <1>5 DEF JudgeEnded
    <2> QED
      BY <2>1, EndedStays
  <1>6. ASSUME NEW i \in Jobs, AskClose(i) PROVE FALSE
    <2>1. "close" \in CallsOf /\ Calls(i, "close") /\ judged' \subseteq judged /\ i \in judged
      BY <1>0, <1>6 DEF AskClose, Outside
    <2>2. i # j
      BY <1>1, <2>1
    <2> QED
      BY <1>1, <1>12, <2>1, <2>2
  <1>7. ASSUME NEW i \in Jobs, Submit(i) \/ Clock(i) \/ LosePlan(i) PROVE FALSE
    BY <1>1, <1>2, <1>7 DEF Submit, Clock, LosePlan, proc
  <1>8. ASSUME NEW l \in Leases, NEW i \in Jobs, ClaimJob(l, i) PROVE FALSE
    BY <1>1, <1>2, <1>8 DEF ClaimJob, proc
  <1>9. ASSUME NEW l \in Leases, HeartbeatTick(l) PROVE FALSE
    BY <1>1, <1>2, <1>9 DEF HeartbeatTick, proc
  <1>10. ~Restart
    BY <1>1 DEF Restart, Dies, Queued
  <1>11. ~(Stop \/ UNCHANGED vars)
    BY <1>1, <1>2 DEF Stop, vars, proc
  <1> QED
    BY <1>3, <1>4, <1>5, <1>6, <1>7, <1>8, <1>9, <1>10, <1>11 DEF ImportNext

\* What a run's own step means for the fence in its hands.
LEMMA OwnStep ==
  ASSUME Fenced, NEW l \in Leases, RunStep(l)
  PROVE  /\ at'[l] \in Entered => Mine(l) /\ (at[l] \notin Entered => UNCHANGED row)
         /\ \/ at'[l] = "ended"
            \/ fence'[l] = NoLease
            \/ fence'[l] = fence[l] /\ (Mine(l) => header'[JobOf(l)] = header[JobOf(l)])
            \/ header'[JobOf(l)] = [fence |-> fence'[l], status |-> "active"]
  <1>0. /\ HandsTyped /\ HandsFull(l) /\ JobOf(l) \in Jobs
        /\ header \in [Jobs -> Headers]
        /\ at[l] \in Entered => Mine(l)
    BY RunMoves, ClaimedJob DEF Fenced, InsideIsMine, Shaped, ImportTypeOK, RunsShaped,
       HandsTyped, HandsFull, JobOf
  <1> USE DEF GoTo, Entered, HandsTyped, HandsFull
  <1>1. CASE \/ LoadPlan(l) \/ SettlePlan(l) \/ AskGuard(l) \/ Throw(l)
    <2>1. at'[l] \notin Entered /\ UNCHANGED <<fence, header>>
      BY <1>0, <1>1 DEF LoadPlan, SettlePlan, AskGuard, Throw, Idle, Unguarded, Asking, store, run
    <2> QED
      BY <2>1
  <1>2. CASE NoticeAbort(l) \/ Record(l)
    BY <1>0, <1>2 DEF NoticeAbort, Record, Ends
  <1>3. CASE ReportScan(l) \/ StartWriting(l) \/ FinishWriting(l)
    <2>1. PICK p, next : /\ next \in {"scanning", "writing", "finished"}
                         /\ Reports(l, p, next)
      BY <1>3 DEF ReportScan, StartWriting, FinishWriting
    <2>2. CASE Mine(l)
      BY <1>0, <2>1, <2>2 DEF Reports
    <2>3. CASE ~Mine(l)
      BY <1>0, <2>1, <2>3 DEF Reports, Ends
    <2> QED
      BY <2>2, <2>3
  <1>4. CASE Adopt(l)
    <2>1. at'[l] \notin Entered /\ fence[l] = NoLease
      BY <1>0, <1>4 DEF Adopt, HasClaim
    <2> QED
      BY <1>0, <1>4, <2>1 DEF Adopt
  <1>5. ASSUME NEW taken \in BOOLEAN, Reserve(l, taken)
        PROVE  /\ at'[l] \notin Entered
               /\ \/ fence'[l] = NoLease
                  \/ header'[JobOf(l)] = [fence |-> fence'[l], status |-> "active"]
    <2>0. at'[l] \notin Entered /\ fence[l] = NoLease
      BY <1>0, <1>5 DEF Reserve, HasClaim
    <2>1. CASE UNCHANGED fence
      BY <2>0, <2>1
    <2>2. CASE /\ header[JobOf(l)].status # "closing"
               /\ header' = IF header[JobOf(l)].status = "free"
                              THEN [header EXCEPT ![JobOf(l)] = [fence |-> l, status |-> "active"]]
                              ELSE header
               /\ fence' = [fence EXCEPT ![l] = header'[JobOf(l)].fence]
      <3>1. fence'[l] = header'[JobOf(l)].fence
        BY <1>0, <2>2
      <3>2. CASE header[JobOf(l)].status = "free"
        <4>1. header'[JobOf(l)] = [fence |-> l, status |-> "active"]
          BY <1>0, <2>2, <3>2
        <4> QED
          BY <2>0, <3>1, <4>1
      <3>3. CASE header[JobOf(l)].status # "free"
        <4>1. header'[JobOf(l)] = header[JobOf(l)]
          BY <2>2, <3>3
        <4>2. header[JobOf(l)] \in [fence : Leases, status : {"active"}]
          BY <1>0, <2>2, <3>3 DEF Headers, Free
        <4> QED
          BY <2>0, <3>1, <4>1, <4>2
      <3> QED
        BY <3>2, <3>3
    <2> QED
      BY <1>5, <2>1, <2>2 DEF Reserve
  <1>6. CASE EnterPublication(l) \/ EnterWrite(l)
    <2>1. UNCHANGED <<fence, header, row>> /\ (at'[l] \in Entered => Premise(l))
      BY <1>0, <1>6 DEF EnterPublication, EnterWrite, EnterFence, store, queueVars
    <2> QED
      BY <2>1 DEF Premise
  <1>7. CASE PublishPlan(l) \/ ReadBack(l) \/ Land(l)
    <2>1. UNCHANGED <<fence, header>> /\ at[l] \in Entered
      BY <1>7 DEF PublishPlan, ReadBack, Land, store
    <2> QED
      BY <1>0, <2>1
  <1>8. CASE \E taken \in BOOLEAN : Reserve(l, taken)
    BY <1>5, <1>8
  <1> QED
    BY <1>1, <1>2, <1>3, <1>4, <1>6, <1>7, <1>8 DEF RunStep

\* The owner's reservation stays the owner's.
LEMMA OwnerStays ==
  ASSUME Fenced, [ImportNext]_vars
  PROVE  OwnerKeepsClaim'
  <1> SUFFICES ASSUME NEW l \in Leases, InFlight(l)', Mine(l)', fence'[l] # NoLease
               PROVE  (header[JobOf(l)] = [fence |-> fence[l], status |-> "active"])'
    BY DEF OwnerKeepsClaim
  <1> DEFINE j == JobOf(l)
  <1>0. Shaped /\ OwnerKeepsClaim /\ ClosersOK
    BY DEF Fenced
  <1>1. ~Restart
    BY DEF Restart, Dies, Ends, InFlight
  <1>2. at[l] # "none"
    <2>1. CASE at[l] = "none"
      <3>1. fence[l] = NoLease
        BY <1>0, <2>1 DEF Shaped, RunsShaped
      <3>2. UNCHANGED fence \/ \E m \in Leases : RunStep(m) /\ m # l
        BY <1>0, <1>1, <2>1, StepMoves, RunMoves DEF run
      <3>3. fence'[l] = NoLease
        BY <1>0, <3>1, <3>2, RunMoves
      <3> QED
        BY <3>3
    <2> QED
      BY <2>1
  <1>3. claim[l] # NoClaim /\ j \in Jobs /\ JobOf(l)' = j /\ Mine(l)
    BY <1>0, <1>2, ClaimsStay DEF Shaped, RunsShaped
  <1>4. InFlight(l)
    <2>1. at[l] # "ended"
      <3>1. ASSUME at[l] = "ended", RunStep(l) PROVE FALSE
        BY <3>1 DEF RunStep, LoadPlan, ReportScan, SettlePlan, AskGuard, Adopt, Reserve,
                    EnterPublication, EnterFence, PublishPlan, ReadBack, StartWriting, EnterWrite,
                    Land, FinishWriting, NoticeAbort, Throw, Record, Idle, Unguarded, Asking
      <3>2. ASSUME at[l] = "ended" PROVE at'[l] = "ended"
        BY <1>0, <1>1, <3>1, <3>2, StepMoves, RunMoves DEF run, Shaped, ImportTypeOK
      <3> QED
        BY <3>2 DEF InFlight
    <2> QED
      BY <1>2, <2>1 DEF InFlight
  <1>5. CASE header'[j] = header[j] /\ fence'[l] = fence[l]
    BY <1>0, <1>3, <1>4, <1>5 DEF OwnerKeepsClaim
  <1>6. CASE RunStep(l)
    BY <1>3, <1>5, <1>6, OwnStep DEF InFlight
  <1>7. CASE ~RunStep(l)
    <2>1. fence'[l] = fence[l]
      BY <1>0, <1>1, <1>7, StepMoves, RunMoves DEF run
    <2>2. ASSUME header'[j] # header[j] PROVE FALSE
      <3>1. CASE \E m \in Leases : JobOf(m) = j /\ Mine(m) /\ RunStep(m)
        BY <1>3, <1>7, <3>1 DEF Mine, Holds
      <3>2. CASE AtHead(j, "close")
        <4>1. guard[j] \in Seq(CallsOf)
          BY <1>0, <1>3 DEF Shaped, ImportTypeOK, CallsOf
        <4>2. Queued(j, "close")
          BY <3>2, <4>1 DEF AtHead, Queued
        <4> QED
          BY <1>0, <1>3, <4>2 DEF ClosersOK, Ended, Mine, Holds, Terminal
      <3> QED
        BY <1>0, <1>1, <1>3, <2>2, <3>1, <3>2, HeaderMoves
    <2> QED
      BY <1>5, <2>1, <2>2
  <1> QED
    BY <1>6, <1>7

\* Whoever is inside the guard owns the job.
LEMMA InsideStaysMine ==
  ASSUME Fenced, [ImportNext]_vars
  PROVE  InsideIsMine'
  <1> SUFFICES ASSUME NEW l \in Leases, at'[l] \in Entered PROVE Mine(l)'
    BY DEF InsideIsMine
  <1>1. CASE at[l] \in Entered
    BY <1>1, LeaseKept DEF Fenced, InsideIsMine
  <1>2. CASE at[l] \notin Entered
    <2>1. RunStep(l)
      <3>1. at \in [Leases -> Stages]
        BY DEF Fenced, Shaped, ImportTypeOK
      <3>2. ~Restart
        BY <3>1 DEF Restart, Dies, Ends, InFlight, Entered
      <3> QED
        BY <1>2, <3>1, <3>2, StepMoves, RunMoves DEF Fenced, run, Entered
    <2>2. Mine(l) /\ UNCHANGED row /\ claim[l] # NoClaim
      BY <1>2, <2>1, OwnStep, RunMoves DEF Fenced, Shaped, RunsShaped
    <2>3. JobOf(l)' = JobOf(l)
      BY <2>2, ClaimsStay DEF Fenced
    <2> QED
      BY <2>2, <2>3 DEF Mine
  <1> QED
    BY <1>1, <1>2

\* Before the first step nothing holds a fence.
LEMMA FencedAtFirst ==
  ASSUME ImportInit
  PROVE  Fenced
  <1>1. Shaped
    BY ShapedAtFirst
  <1>2. OwnerKeepsClaim /\ InsideIsMine
    BY DEF ImportInit, OwnerKeepsClaim, InsideIsMine, InFlight, Entered
  <1>3. ClosersOK
    BY DEF ImportInit, ClosersOK, Queued
  <1> QED
    BY <1>1, <1>2, <1>3 DEF Fenced

\* The fence is inductive.
LEMMA AlwaysFenced == ImportSpec => []Fenced
  <1>1. ImportInit => Fenced
    BY FencedAtFirst
  <1>2. Fenced /\ [ImportNext]_vars => Fenced'
    BY ShapeStays, OwnerStays, ClosersStay, InsideStaysMine DEF Fenced
  <1> QED
    BY <1>1, <1>2, PTL DEF ImportSpec

\* OwnerKeepsClaim for every number of jobs, claims and restarts: neither an
\* earlier run nor a late cleanup takes the reservation of the run that owns
\* the job.
THEOREM OwnerKeepsClaimTheorem == ImportSpec => []OwnerKeepsClaim
  <1>1. Fenced => OwnerKeepsClaim
    BY DEF Fenced
  <1> QED
    BY <1>1, AlwaysFenced, PTL

\* WritesAreFenced for every number of jobs, claims and restarts: the premise
\* of withFencedWrite holds from its check until the bytes have landed.
THEOREM WritesAreFencedTheorem == ImportSpec => []WritesAreFenced
  <1>1. Fenced => WritesAreFenced
    <2> SUFFICES ASSUME Fenced, NEW l \in Leases, at[l] \in Entered PROVE Premise(l)
      BY DEF WritesAreFenced
    <2>1. Mine(l) /\ InFlight(l)
      BY DEF Fenced, InsideIsMine, InFlight, Entered
    <2>2. fence[l] # NoLease
      BY JobQueueAssumption DEF Fenced, Shaped, ImportTypeOK
    <2> QED
      BY <2>1, <2>2 DEF Fenced, OwnerKeepsClaim, Premise
  <1> QED
    BY <1>1, AlwaysFenced, PTL

-----------------------------------------------------------------------------
(* One plan.                                                               *)

\* The notes of a job come from one plan, which is the plan on disk if there
\* is one; and the persisted phase betrays that there are some.
JobOK(j) ==
    /\ landed[j] # {} => phase[j] \in {"writing", "done"}
    /\ sidecar[j] # NoLease => landed[j] \subseteq {sidecar[j]}
    /\ \E p \in Leases \cup {NoLease} : landed[j] \subseteq {p}

\* What the owner of a job has in its hands agrees with what is on disk.
HandsOK(l, j) ==
    /\ at[l] \in {"loading", "scanning"} /\ landed[j] # {} => base[l] \in {"writing", "done"}
    /\ at[l] \in {"claiming", "reserving"} /\ plan[l] = l => landed[j] = {}
    /\ at[l] \in {"publishing", "placing", "published"} => landed[j] = {}
    /\ \/ at[l] \in {"claiming", "reserving"} /\ plan[l] # l
       \/ at[l] \in {"starting", "writing", "landing"}
       => landed[j] \subseteq {plan[l]} /\ sidecar[j] \in {NoLease, plan[l]}
    /\ at[l] \in {"writing", "landing", "finished"} => phase[j] \in {"writing", "done"}

\* Both, for the jobs that were never planned anew.
PlansOK ==
    \A j \in Jobs \ replanned :
        /\ JobOK(j)
        /\ \A l \in Leases :
              at[l] # "none" /\ JobOf(l) = j /\ Mine(l) => HandsOK(l, j)

\* Nobody has published a plan of a run that has none.
PlansSettled ==
    \A l \in Leases, j \in Jobs :
        at[l] \in {"none", "loading", "scanning"} => sidecar[j] # l

Planned == Fenced /\ PlansOK /\ PlansSettled

\* A step of a run: what it does to the plans of its own job, if it owns it.
LEMMA OwnPlan ==
  ASSUME Planned, NEW l \in Leases, RunStep(l), NEW j \in Jobs,
         j \notin replanned, j \notin replanned', JobOf(l) = j, Mine(l)
  PROVE  JobOK(j)' /\ HandsOK(l, j)'
  <1>0. /\ HandsTyped /\ HandsFull(l) /\ JobOK(j) /\ HandsOK(l, j)
        /\ phase \in [Jobs -> Phases] /\ sidecar \in [Jobs -> Leases \cup {NoLease}]
        /\ landed \in [Jobs -> SUBSET Leases] /\ NoLease \notin Leases
    BY RunMoves, JobQueueAssumption DEF Planned, Fenced, Shaped, ImportTypeOK, RunsShaped,
       HandsTyped, HandsFull, PlansOK
  <1> USE DEF GoTo, Entered, HandsTyped, HandsFull
  <1>1. CASE LoadPlan(l)
    <2>1. sidecar[j] # l
      BY <1>1 DEF LoadPlan, Planned, PlansSettled
    <2>2. UNCHANGED <<phase, sidecar, landed>>
      BY <1>1 DEF LoadPlan, store
    <2> QED
      BY <1>0, <1>1, <2>1, <2>2 DEF LoadPlan, JobOK, HandsOK
  <1>2. CASE SettlePlan(l)
    <2>1. UNCHANGED <<phase, sidecar, landed>>
      BY <1>2 DEF SettlePlan, store
    <2> QED
      BY <1>0, <1>2, <2>1 DEF SettlePlan, MayPlan, JobOK, HandsOK
  <1>3. CASE ReportScan(l)
    <2>1. /\ at[l] = "scanning" /\ at' = [at EXCEPT ![l] = "scanning"]
          /\ UNCHANGED <<base, plan, sidecar, landed>>
          /\ phase' = [phase EXCEPT ![j] = "planning"]
          /\ phase[j] \notin {"writing", "done"}
      BY <1>3 DEF ReportScan, Reports
    <2> QED
      BY <1>0, <2>1 DEF JobOK, HandsOK
  <1>4. CASE StartWriting(l)
    <2>1. /\ at[l] = "starting" /\ at' = [at EXCEPT ![l] = "writing"]
          /\ UNCHANGED <<base, plan, sidecar, landed>>
          /\ phase' = [phase EXCEPT ![j] = "writing"]
      BY <1>4 DEF StartWriting, Reports
    <2> QED
      BY <1>0, <2>1 DEF JobOK, HandsOK
  <1>5. CASE FinishWriting(l)
    <2>1. /\ at[l] = "writing" /\ at' = [at EXCEPT ![l] = "finished"]
          /\ UNCHANGED <<base, plan, sidecar, landed>>
          /\ phase' = [phase EXCEPT ![j] = "done"]
      BY <1>5 DEF FinishWriting, Reports
    <2> QED
      BY <1>0, <2>1 DEF JobOK, HandsOK
  <1>6. CASE AskGuard(l)
    BY <1>0, <1>6 DEF AskGuard, run, store, JobOK, HandsOK
  <1>7. CASE Adopt(l) \/ \E taken \in BOOLEAN : Reserve(l, taken)
    <2>1. /\ at[l] \in {"claiming", "reserving"}
          /\ UNCHANGED <<base, plan, phase, sidecar, landed>>
          /\ \/ GoTo(l, "doomed") \/ GoTo(l, HasClaim(l))
             \/ GoTo(l, "reserving")
      <3>1. CASE Adopt(l)
        BY <3>1 DEF Adopt
      <3>2. ASSUME NEW taken \in BOOLEAN, Reserve(l, taken)
            PROVE  /\ at[l] = "reserving" /\ UNCHANGED <<base, plan, phase, sidecar, landed>>
                   /\ GoTo(l, "doomed") \/ GoTo(l, HasClaim(l))
        BY <3>2 DEF Reserve
      <3> QED
        BY <1>7, <3>1, <3>2
    <2>2. /\ at'[l] \in {"doomed", "reserving", "publishing", "starting"}
          /\ at'[l] = "publishing" => plan[l] = l
          /\ at'[l] = "starting" => plan[l] # l
      BY <1>0, <2>1 DEF HasClaim
    <2>3. JobOK(j)'
      BY <1>0, <2>1 DEF JobOK
    <2>4. HandsOK(l, j)'
      <3>1. CASE plan[l] = l
        BY <1>0, <2>1, <2>2, <3>1 DEF HandsOK
      <3>2. CASE plan[l] # l
        <4>1. landed[j] \subseteq {plan[l]} /\ sidecar[j] \in {NoLease, plan[l]}
          BY <1>0, <2>1, <3>2 DEF HandsOK
        <4>2. (landed[j] \subseteq {plan[l]} /\ sidecar[j] \in {NoLease, plan[l]})'
          BY <2>1, <4>1
        <4>3. plan'[l] # l
          BY <2>1, <3>2
        <4>4. at'[l] \in {"doomed", "reserving", "starting"}
          BY <2>2, <3>2
        <4> HIDE DEF GoTo, Entered, HandsTyped, HandsFull
        <4> QED
          BY <4>2, <4>3, <4>4 DEF HandsOK
      <3> QED
        BY <3>1, <3>2
    <2> QED
      BY <2>3, <2>4
  <1>8. CASE EnterPublication(l)
    BY <1>0, <1>8 DEF EnterPublication, EnterFence, store, JobOK, HandsOK
  <1>9. CASE EnterWrite(l)
    BY <1>0, <1>9 DEF EnterWrite, EnterFence, store, JobOK, HandsOK
  <1>10. CASE PublishPlan(l)
    <2>1. /\ at[l] = "placing" /\ at' = [at EXCEPT ![l] = "published"]
          /\ UNCHANGED <<base, plan, phase, landed>>
      BY <1>10 DEF PublishPlan
    <2> QED
      BY <1>0, <2>1 DEF JobOK, HandsOK
  <1>11. CASE ReadBack(l)
    <2>1. UNCHANGED <<phase, sidecar, landed>>
      BY <1>11 DEF ReadBack, store
    <2> QED
      BY <1>0, <1>11, <2>1 DEF ReadBack, JobOK, HandsOK
  <1>12. CASE Land(l)
    <2>1. /\ at[l] = "landing" /\ at' = [at EXCEPT ![l] = "writing"]
          /\ UNCHANGED <<base, plan, phase, sidecar>>
          /\ landed'[j] \in {landed[j], landed[j] \cup {plan[l]}}
      BY <1>0, <1>12 DEF Land
    <2>2. landed'[j] \subseteq {plan[l]} /\ plan[l] \in Leases
      BY <1>0, <2>1 DEF HandsOK
    <2> QED
      BY <1>0, <2>1, <2>2 DEF JobOK, HandsOK
  <1>13. CASE NoticeAbort(l)
    BY <1>13 DEF NoticeAbort
  <1>14. CASE Throw(l)
    <2>1. at' = [at EXCEPT ![l] = "faulty"] /\ UNCHANGED <<base, plan, phase, sidecar, landed>>
      BY <1>14 DEF Throw, store
    <2> QED
      BY <1>0, <2>1 DEF JobOK, HandsOK
  <1>15. CASE Record(l)
    <2>1. at'[l] = "ended" /\ UNCHANGED <<phase, sidecar, landed>>
      BY <1>0, <1>15 DEF Record, Ends, store
    <2> QED
      BY <1>0, <2>1 DEF JobOK, HandsOK
  <1> QED
    BY <1>1, <1>2, <1>3, <1>4, <1>5, <1>6, <1>7, <1>8, <1>9, <1>10, <1>11, <1>12, <1>13,
       <1>14, <1>15 DEF RunStep

\* Apart from its owner's steps, a job keeps its phase and its notes, and its
\* plan can only be lost.
LEMMA StoreMoves ==
  ASSUME Planned, [ImportNext]_vars, NEW j \in Jobs,
         ~\E l \in Leases : RunStep(l) /\ JobOf(l) = j /\ Mine(l)
  PROVE  /\ phase'[j] = phase[j] /\ landed'[j] = landed[j]
         /\ sidecar'[j] \in {sidecar[j], NoLease}
  <1>0. /\ phase \in [Jobs -> Phases] /\ sidecar \in [Jobs -> Leases \cup {NoLease}]
        /\ landed \in [Jobs -> SUBSET Leases]
        /\ \A l \in Leases : at[l] \in Entered => Mine(l)
    BY DEF Planned, Fenced, Shaped, ImportTypeOK, InsideIsMine
  <1>1. ASSUME NEW l \in Leases, RunStep(l)
        PROVE  phase'[j] = phase[j] /\ landed'[j] = landed[j] /\ sidecar'[j] = sidecar[j]
    <2>1. CASE ReportScan(l) \/ StartWriting(l) \/ FinishWriting(l)
      <3>1. PICK p, next : Reports(l, p, next)
        BY <2>1 DEF ReportScan, StartWriting, FinishWriting
      <3>2. UNCHANGED <<landed, sidecar>> /\ (JobOf(l) = j => UNCHANGED phase)
        BY <1>1, <3>1 DEF Reports
      <3>3. JobOf(l) # j => phase'[j] = phase[j]
        BY <1>0, <3>1 DEF Reports
      <3> QED
        BY <3>2, <3>3
    <2>2. CASE PublishPlan(l) \/ Land(l)
      <3>1. JobOf(l) # j
        BY <1>0, <1>1, <2>2 DEF PublishPlan, Land, Entered
      <3> QED
        BY <1>0, <2>2, <3>1 DEF PublishPlan, Land
    <2>3. CASE Adopt(l) \/ \E taken \in BOOLEAN : Reserve(l, taken)
      BY <2>3 DEF Adopt, Reserve
    <2>4. CASE \/ LoadPlan(l) \/ SettlePlan(l) \/ AskGuard(l) \/ EnterPublication(l)
               \/ ReadBack(l) \/ EnterWrite(l) \/ NoticeAbort(l) \/ Throw(l) \/ Record(l)
      BY <2>4 DEF LoadPlan, SettlePlan, AskGuard, EnterPublication, ReadBack, EnterWrite,
                  EnterFence, NoticeAbort, Throw, Record, store
    <2> QED
      BY <1>1, <2>1, <2>2, <2>3, <2>4 DEF RunStep
  <1>2. ASSUME NEW i \in Jobs, LosePlan(i)
        PROVE  /\ phase' = phase /\ landed' = landed
               /\ sidecar'[j] \in {sidecar[j], NoLease}
    BY <1>0, <1>2 DEF LosePlan
  <1>3. ASSUME NEW i \in Jobs,
               \/ AskCancel(i) \/ AskReap(i) \/ AskClose(i) \/ JudgeEnded(i)
               \/ CancelLands(i) \/ ReapLands(i) \/ CloseLands(i) \/ Submit(i) \/ Clock(i)
        PROVE  UNCHANGED <<phase, sidecar, landed>>
    BY <1>3 DEF AskCancel, AskReap, AskClose, Call, JudgeEnded, CancelLands, ReapLands,
                CloseLands, Submit, Clock, store
  <1>4. ASSUME NEW l \in Leases, NEW i \in Jobs, ClaimJob(l, i)
        PROVE  UNCHANGED <<phase, sidecar, landed>>
    BY <1>4 DEF ClaimJob, store
  <1>5. ASSUME NEW l \in Leases, HeartbeatTick(l) PROVE UNCHANGED <<phase, sidecar, landed>>
    BY <1>5 DEF HeartbeatTick, store
  <1>6. ASSUME Stop \/ Restart \/ UNCHANGED vars PROVE UNCHANGED <<phase, sidecar, landed>>
    <2>1. CASE Stop
      BY <2>1 DEF Stop, store
    <2>2. CASE Restart
      BY <2>2 DEF Restart
    <2>3. CASE UNCHANGED vars
      <3>1. UNCHANGED store
        BY <2>3 DEF vars
      <3> QED
        BY <3>1 DEF store
    <2> QED
      BY <1>6, <2>1, <2>2, <2>3
  <1> QED
    BY <1>1, <1>2, <1>3, <1>4, <1>5, <1>6 DEF ImportNext, GuardedCall

\* A job once planned anew is remembered as such.
LEMMA ReplannedGrows ==
  ASSUME Planned, [ImportNext]_vars
  PROVE  replanned \subseteq replanned'
  <1>1. ASSUME NEW l \in Leases, RunStep(l) PROVE replanned \subseteq replanned'
    <2>1. CASE ReportScan(l) \/ StartWriting(l) \/ FinishWriting(l)
      BY <2>1 DEF ReportScan, StartWriting, FinishWriting, Reports
    <2>2. CASE PublishPlan(l) \/ Land(l) \/ Adopt(l) \/ \E taken \in BOOLEAN : Reserve(l, taken)
      BY <2>2 DEF PublishPlan, Land, Adopt, Reserve
    <2>3. CASE \/ LoadPlan(l) \/ SettlePlan(l) \/ AskGuard(l) \/ EnterPublication(l)
               \/ ReadBack(l) \/ EnterWrite(l) \/ NoticeAbort(l) \/ Throw(l) \/ Record(l)
      BY <2>3 DEF LoadPlan, SettlePlan, AskGuard, EnterPublication, ReadBack, EnterWrite,
                  EnterFence, NoticeAbort, Throw, Record, store
    <2> QED
      BY <1>1, <2>1, <2>2, <2>3 DEF RunStep
  <1>2. ASSUME NEW i \in Jobs,
               \/ AskCancel(i) \/ AskReap(i) \/ AskClose(i) \/ JudgeEnded(i) \/ LosePlan(i)
               \/ CancelLands(i) \/ ReapLands(i) \/ CloseLands(i) \/ Submit(i) \/ Clock(i)
        PROVE  UNCHANGED replanned
    BY <1>2 DEF AskCancel, AskReap, AskClose, Call, JudgeEnded, LosePlan, CancelLands,
                ReapLands, CloseLands, Submit, Clock, store
  <1>3. ASSUME NEW l \in Leases, NEW i \in Jobs, ClaimJob(l, i) PROVE UNCHANGED replanned
    BY <1>3 DEF ClaimJob, store
  <1>4. ASSUME NEW l \in Leases, HeartbeatTick(l) PROVE UNCHANGED replanned
    BY <1>4 DEF HeartbeatTick, store
  <1>5. ASSUME Stop \/ Restart \/ UNCHANGED vars PROVE UNCHANGED replanned
    <2>1. CASE Stop
      BY <2>1 DEF Stop, store
    <2>2. CASE Restart
      BY <2>2 DEF Restart
    <2>3. CASE UNCHANGED vars
      <3>1. UNCHANGED store
        BY <2>3 DEF vars
      <3> QED
        BY <3>1 DEF store
    <2> QED
      BY <1>5, <2>1, <2>2, <2>3
  <1> QED
    BY <1>1, <1>2, <1>3, <1>4, <1>5 DEF ImportNext, GuardedCall

\* Plans are published by the runs that settled them.
LEMMA SettledStays ==
  ASSUME Planned, [ImportNext]_vars
  PROVE  PlansSettled'
  <1> SUFFICES ASSUME NEW l \in Leases, NEW j \in Jobs, sidecar'[j] = l,
                      at'[l] \in {"none", "loading", "scanning"}
               PROVE  FALSE
    BY DEF PlansSettled
  <1>0. /\ sidecar \in [Jobs -> Leases \cup {NoLease}] /\ at \in [Leases -> Stages]
        /\ NoLease \notin Leases
    BY JobQueueAssumption DEF Planned, Fenced, Shaped, ImportTypeOK
  <1>1. at[l] \in {"none", "loading", "scanning"}
    <2>1. ASSUME RunStep(l) PROVE at[l] \in {"none", "loading", "scanning"}
      BY <1>0, <2>1 DEF RunStep, LoadPlan, ReportScan, SettlePlan, AskGuard, Adopt, Reserve,
         EnterPublication, EnterFence, PublishPlan, ReadBack, StartWriting, EnterWrite, Land,
         FinishWriting, NoticeAbort, Throw, Record, Reports, Ends, GoTo, HasClaim, run
    <2>2. CASE Restart
      BY <2>2 DEF Restart, Dies, Ends, InFlight
    <2> QED
      BY <1>0, <2>1, <2>2, StepMoves, RunMoves DEF Planned, Fenced, run
  <1>2. sidecar[j] # l
    BY <1>1 DEF Planned, PlansSettled
  <1>3. PICK m \in Leases : RunStep(m)
    BY <1>0, <1>2, StoreMoves
  <1>4. CASE PublishPlan(m)
    <2>1. sidecar' = [sidecar EXCEPT ![JobOf(m)] = m] /\ at[m] = "placing"
      BY <1>2, <1>4 DEF PublishPlan
    <2>2. m = l
      BY <1>0, <1>2, <2>1
    <2> QED
      BY <1>1, <2>1, <2>2
  <1>5. CASE ~PublishPlan(m)
    <2>1. UNCHANGED sidecar
      BY <1>3, <1>5 DEF RunStep, LoadPlan, ReportScan, SettlePlan, AskGuard, Adopt, Reserve,
         EnterPublication, EnterFence, ReadBack, StartWriting, EnterWrite, Land,
         FinishWriting, NoticeAbort, Throw, Record, Reports, store
    <2> QED
      BY <1>2, <2>1
  <1> QED
    BY <1>4, <1>5

\* The plans stay in order: the owner's step keeps them so, and nobody else's
\* touches them.
LEMMA PlansStay ==
  ASSUME Planned, [ImportNext]_vars
  PROVE  PlansOK'
  <1> SUFFICES ASSUME NEW j \in Jobs, j \notin replanned'
               PROVE  /\ JobOK(j)'
                      /\ \A l \in Leases :
                            (at[l] # "none" /\ JobOf(l) = j /\ Mine(l))' => HandsOK(l, j)'
    BY DEF PlansOK
  <1>0. /\ j \notin replanned /\ JobOK(j)
        /\ \A l \in Leases :
              at[l] # "none" /\ JobOf(l) = j /\ Mine(l) => HandsOK(l, j)
    BY ReplannedGrows DEF Planned, PlansOK
  <1>1. ASSUME NEW l \in Leases, at[l] # "none", (JobOf(l) = j /\ Mine(l))'
        PROVE  JobOf(l) = j /\ Mine(l)
    BY <1>1, ClaimsStay DEF Planned, Fenced, Shaped, RunsShaped
  <1>2. CASE \E l \in Leases : RunStep(l) /\ JobOf(l) = j /\ Mine(l)
    <2>1. PICK l \in Leases : RunStep(l) /\ JobOf(l) = j /\ Mine(l)
      BY <1>2
    <2>2. JobOK(j)' /\ HandsOK(l, j)'
      BY <1>0, <2>1, OwnPlan
    <2>3. ASSUME NEW m \in Leases, (at[m] # "none" /\ JobOf(m) = j /\ Mine(m))' PROVE m = l
      <3>1. m # l => at[m] # "none"
        BY <2>1, <2>3, RunMoves DEF Planned, Fenced
      <3> QED
        BY <1>1, <2>1, <2>3, <3>1 DEF Mine, Holds
    <2> QED
      BY <2>2, <2>3
  <1>3. CASE ~\E l \in Leases : RunStep(l) /\ JobOf(l) = j /\ Mine(l)
    <2>1. /\ phase'[j] = phase[j] /\ landed'[j] = landed[j]
          /\ sidecar'[j] \in {sidecar[j], NoLease}
      BY <1>3, StoreMoves
    <2>2. JobOK(j)'
      BY <1>0, <2>1 DEF JobOK
    <2>3. ASSUME NEW l \in Leases, (at[l] # "none" /\ JobOf(l) = j /\ Mine(l))'
          PROVE  HandsOK(l, j)'
      <3>1. CASE at'[l] = at[l] /\ base'[l] = base[l] /\ plan'[l] = plan[l]
        <4>1. HandsOK(l, j)
          BY <1>0, <1>1, <2>3, <3>1
        <4> QED
          BY <2>1, <3>1, <4>1 DEF HandsOK
      <3>2. CASE at'[l] = "loading" /\ base'[l] = phase[j]
        BY <1>0, <2>1, <3>2 DEF HandsOK, JobOK
      <3>3. CASE at'[l] = "ended"
        BY <3>3 DEF HandsOK
      <3>4. ~RunStep(l)
        <4>1. ASSUME RunStep(l) PROVE FALSE
          <5>1. at[l] # "none"
            BY <4>1, RunMoves DEF Planned, Fenced
          <5> QED
            BY <1>1, <1>3, <2>3, <4>1, <5>1
        <4> QED
          BY <4>1
      <3>5. ASSUME NEW m \in Leases, RunStep(m)
            PROVE  at'[l] = at[l] /\ base'[l] = base[l] /\ plan'[l] = plan[l]
        BY <3>4, <3>5, RunMoves DEF Planned, Fenced
      <3>6. ASSUME NEW m \in Leases, NEW i \in Jobs, ClaimJob(m, i)
            PROVE  \/ at'[l] = at[l] /\ base'[l] = base[l] /\ plan'[l] = plan[l]
                   \/ at'[l] = "loading" /\ base'[l] = phase[j]
        <4>0. at \in [Leases -> Stages] /\ base \in [Leases -> Phases]
              /\ claim \in [Leases -> {NoClaim} \cup [job : Jobs, attempts : 1 .. MaxAttempts]]
          BY IInvMeaning DEF Planned, Fenced, Shaped, ImportTypeOK, TypeOK
        <4>1. CASE m = l
          <5>1. claim'[l].job = i
            BY <3>6, <4>0, <4>1 DEF ClaimJob, ClaimNext
          <5>2. i = j
            BY <2>3, <5>1 DEF JobOf
          <5> QED
            BY <3>6, <4>0, <4>1, <5>2 DEF ClaimJob, GoTo
        <4>2. CASE m # l
          BY <3>6, <4>0, <4>2 DEF ClaimJob, GoTo
        <4> QED
          BY <4>1, <4>2
      <3>7. CASE Restart
        <4>1. at'[l] = "ended" \/ (at'[l] = at[l] /\ base'[l] = base[l] /\ plan'[l] = plan[l])
          BY <3>7 DEF Restart, Dies, Ends
        <4> QED
          BY <3>1, <3>3, <4>1
      <3> QED
        BY <3>1, <3>2, <3>5, <3>6, <3>7, RunsChange DEF run
    <2> QED
      BY <2>2, <2>3
  <1> QED
    BY <1>2, <1>3

\* OnePlanUnlessReplanned for every number of jobs, claims and restarts: as
\* long as the persisted phase does not fall back, the notes of an import come
\* from one plan, however often its runs and its plan file were lost.
THEOREM OnePlanTheorem == ImportSpec => []OnePlanUnlessReplanned
  <1>1. ImportInit => Planned
    <2> SUFFICES ASSUME ImportInit PROVE Planned
      OBVIOUS
    <2>1. Fenced
      BY FencedAtFirst
    <2>2. PlansOK
      BY DEF ImportInit, PlansOK, JobOK
    <2>3. PlansSettled
      BY JobQueueAssumption DEF ImportInit, PlansSettled
    <2> QED
      BY <2>1, <2>2, <2>3 DEF Planned
  <1>2. Planned /\ [ImportNext]_vars => Planned'
    <2> SUFFICES ASSUME Planned, [ImportNext]_vars PROVE Planned'
      OBVIOUS
    <2>1. Fenced'
      BY ShapeStays, OwnerStays, ClosersStay, InsideStaysMine DEF Planned, Fenced
    <2> QED
      BY <2>1, SettledStays, PlansStay DEF Planned
  <1>3. Planned => OnePlanUnlessReplanned
    <2> SUFFICES ASSUME Planned, NEW j \in Jobs \ replanned PROVE Cardinality(landed[j]) <= 1
      BY DEF OnePlanUnlessReplanned
    <2>1. PICK p \in Leases \cup {NoLease} : landed[j] \subseteq {p}
      BY DEF Planned, PlansOK, JobOK
    <2>2. landed[j] = {} \/ landed[j] = {p}
      BY <2>1
    <2>3. Cardinality({}) = 0 /\ Cardinality({p}) = 1
      BY FS_EmptySet, FS_Singleton
    <2> QED
      BY <2>2, <2>3
  <1> QED
    BY <1>1, <1>2, <1>3, PTL DEF ImportSpec

=============================================================================
