------------------------- MODULE MutationGateProofs -------------------------
(***************************************************************************)
(* Proofs about MutationGate, for callers that do not chain checkpoints.   *)
(* The inductive invariant ties the three flags to the one call they speak *)
(* for: at most one checkpoint has reactions left, it holds the barrier    *)
(* until its `finally`, and `active` counts the admitted mutations.        *)
(***************************************************************************)
EXTENDS MutationGate, FiniteSetTheorems, TLAPS

Admitted == { m \in Mutations : phase[m] = "active" }

\* The counter is the number of admitted mutations.
CountInv == active = Cardinality(Admitted)

\* A call whose reactions are not all run is the only one.
OneCall == \A c, d \in Checkpoints : stage[c] # "none" /\ stage[d] # "none" => c = d

\* The flag is up until the task of the call has stopped.
FlagInv ==
    \A c \in Checkpoints :
        stage[c] # "none" /\ (stage[c] # "observed" \/ c \in working) => inProgress

\* A task still running belongs to a call, which gave it up if it has ended.
WorkingInv ==
    \A c \in working :
        /\ c \in started
        /\ stage[c] \in {"task", "rejected", "failed", "observed"}
        /\ stage[c] # "task" => c \in aborted

BarrierInv == \A c \in Checkpoints : stage[c] \in Open => blocked

DrainedInv == \A c \in Checkpoints : stage[c] \in {"drained", "task"} => active = 0

IInv == TypeOK /\ CountInv /\ OneCall /\ FlagInv /\ WorkingInv /\ BarrierInv /\ DrainedInv

-----------------------------------------------------------------------------

LEMMA AdmittedFinite == IsFiniteSet(Admitted) /\ Cardinality(Admitted) \in Nat
  BY GateAssumption, FS_Subset, FS_CardinalityType DEF Admitted

\* With nobody counted, nobody is admitted.
LEMMA NobodyAdmitted ==
  ASSUME CountInv, active = 0
  PROVE  \A m \in Mutations : phase[m] # "active"
<1>1. Admitted = {}
  BY AdmittedFinite, FS_EmptySet DEF CountInv
<1> QED BY <1>1 DEF Admitted

LEMMA InitIInv == Init => IInv
<1> SUFFICES ASSUME Init PROVE IInv
  OBVIOUS
<1>1. Admitted = {}
  BY DEF Init, Admitted
<1>2. CountInv
  BY <1>1, FS_EmptySet DEF CountInv, Init
<1>3. TypeOK
  BY DEF Init, TypeOK, Stages
<1> QED BY <1>2, <1>3 DEF Init, IInv, OneCall, FlagInv, WorkingInv, BarrierInv, DrainedInv, Open

-----------------------------------------------------------------------------
(* Steps of mutations.                                                     *)

\* One test of the while loop, of a mutation that is not inside.
LEMMA TryEnterCount ==
  ASSUME NEW m \in Mutations, TypeOK, CountInv, phase[m] # "active", TryEnter(m)
  PROVE  CountInv'
<1>1. CASE blocked
  <2>1. Admitted' = Admitted
    BY <1>1 DEF TryEnter, Admitted, TypeOK
  <2> QED BY <1>1, <2>1 DEF TryEnter, CountInv
<1>2. CASE ~blocked
  <2>1. Admitted' = Admitted \cup {m}
    BY <1>2 DEF TryEnter, Admitted, TypeOK
  <2>2. m \notin Admitted
    BY DEF Admitted
  <2>3. Cardinality(Admitted \cup {m}) = Cardinality(Admitted) + 1
    BY <2>2, AdmittedFinite, FS_AddElement
  <2> QED BY <1>2, <2>1, <2>3 DEF TryEnter, CountInv
<1> QED BY <1>1, <1>2

\* A mutation is let in only while no checkpoint is open.
LEMMA TryEnterInv ==
  ASSUME NEW m \in Mutations, IInv, phase[m] # "active", TryEnter(m),
         aborted' \in SUBSET (Mutations \cup Checkpoints),
         \A c \in Checkpoints : c \in aborted => c \in aborted',
         UNCHANGED <<blocked, inProgress, stage, working, started>>
  PROVE  IInv'
<1>1. CountInv'
  BY TryEnterCount DEF IInv
<1>2. TypeOK'
  BY DEF TryEnter, IInv, TypeOK
<1>3. DrainedInv'
  BY DEF TryEnter, IInv, DrainedInv, BarrierInv, Open
<1>4. OneCall' /\ FlagInv' /\ BarrierInv'
  BY DEF IInv, OneCall, FlagInv, BarrierInv
<1>5. WorkingInv'
  BY DEF IInv, WorkingInv, TypeOK
<1> QED BY <1>1, <1>2, <1>3, <1>4, <1>5 DEF IInv

LEMMA ReleaseInv ==
  ASSUME NEW m \in Mutations, IInv, Release(m)
  PROVE  IInv'
<1> USE DEF IInv
<1>1. Admitted' = Admitted \ {m} /\ m \in Admitted
  BY DEF Release, Admitted, TypeOK
<1>2. Cardinality(Admitted') = Cardinality(Admitted) - 1
  BY <1>1, AdmittedFinite, FS_RemoveElement
<1>3. CountInv' /\ active \in Nat \ {0}
  <2>1. Cardinality(Admitted) # 0
    BY <1>1, AdmittedFinite, FS_EmptySet
  <2> QED BY <1>2, <2>1, AdmittedFinite DEF Release, CountInv
<1>4. TypeOK'
  BY <1>3 DEF Release, TypeOK, Stages, Open
<1>5. \A c \in Checkpoints :
         /\ stage'[c] # stage[c] => stage[c] = "draining" /\ stage'[c] = "drained" /\ active' = 0
         /\ stage[c] \notin {"drained", "task"}
  BY <1>3 DEF Release, TypeOK, DrainedInv
<1>6. DrainedInv'
  BY <1>5 DEF DrainedInv
<1>7. OneCall' /\ FlagInv' /\ BarrierInv' /\ WorkingInv'
  BY <1>5 DEF Release, OneCall, FlagInv, BarrierInv, WorkingInv, Open, TypeOK
<1> QED BY <1>3, <1>4, <1>6, <1>7

LEMMA MutationSteps ==
  ASSUME NEW m \in Mutations, IInv,
         Enter(m) \/ Reenter(m) \/ AbortMutation(m) \/ Release(m),
         Mutations \cap Checkpoints = {}
  PROVE  IInv'
<1>1. CASE Enter(m)
  BY <1>1, TryEnterInv DEF Enter, IInv, TypeOK
<1>2. CASE Reenter(m) /\ m \notin aborted
  BY <1>2, TryEnterInv DEF Reenter, IInv, TypeOK
<1>3. CASE (Reenter(m) /\ m \in aborted) \/ AbortMutation(m)
  <2>1. Admitted' = Admitted
    BY <1>3 DEF Reenter, AbortMutation, Admitted, IInv, TypeOK
  <2>2. TypeOK'
    BY <1>3 DEF Reenter, AbortMutation, IInv, TypeOK
  <2> QED BY <1>3, <2>1, <2>2 DEF Reenter, AbortMutation, IInv, CountInv, OneCall, FlagInv,
                                  WorkingInv, BarrierInv, DrainedInv
<1>4. CASE Release(m)
  BY <1>4, ReleaseInv
<1> QED BY <1>1, <1>2, <1>3, <1>4

-----------------------------------------------------------------------------
(* Steps of checkpoints.                                                   *)

\* A new call finds no other one with reactions left.
LEMMA CheckpointInv ==
  ASSUME NEW c \in Checkpoints, IInv, ~Chained, Checkpoint(c)
  PROVE  IInv'
<1> USE DEF IInv
<1>1. \A d \in Checkpoints : stage[d] = "none" /\ d \notin working
  <2> SUFFICES ASSUME NEW d \in Checkpoints, stage[d] # "none" PROVE FALSE
    BY DEF WorkingInv
  <2>1. stage[d] \in {"draining", "task"} \/ (stage[d] = "observed" /\ d \in working)
    BY DEF Checkpoint, Quiet
  <2> QED BY <2>1 DEF Checkpoint, FlagInv
<1>2. stage' = [stage EXCEPT ![c] = IF active > 0 THEN "draining" ELSE "task"]
  BY DEF Checkpoint, StartTask
<1>3. TypeOK'
  BY DEF Checkpoint, StartTask, TypeOK, Stages, Open
<1>4. CountInv'
  BY DEF Checkpoint, CountInv, Admitted
<1>5. OneCall' /\ BarrierInv' /\ FlagInv'
  BY <1>1, <1>2 DEF Checkpoint, OneCall, BarrierInv, FlagInv, TypeOK, Open
<1>6. DrainedInv'
  BY <1>1, <1>2 DEF Checkpoint, DrainedInv, TypeOK
<1>7. WorkingInv'
  BY <1>1, <1>2 DEF Checkpoint, StartTask, WorkingInv, TypeOK
<1> QED BY <1>3, <1>4, <1>5, <1>6, <1>7

\* What any step of a call that is under way must respect.
LEMMA StepOfOpenCall ==
  ASSUME NEW c \in Checkpoints, IInv, NEW s \in Stages, stage[c] # "none",
         stage' = [stage EXCEPT ![c] = s],
         working' \subseteq working \cup {c}, \A d \in Checkpoints : d # c => (d \in working' <=> d \in working),
         started \subseteq started', started' \subseteq started \cup {c},
         aborted \subseteq aborted', aborted' \subseteq aborted \cup {c},
         inProgress' \in BOOLEAN, blocked' \in BOOLEAN,
         UNCHANGED active, phase' \in [Mutations -> {"out", "parked", "woken", "active"}],
         \A m \in Mutations : phase'[m] = "active" <=> phase[m] = "active",
         s # "none" /\ (s # "observed" \/ c \in working') => inProgress',
         s \in Open => blocked',
         s \in {"drained", "task"} => active = 0,
         c \in working' => /\ c \in started'
                           /\ s \in {"task", "rejected", "failed", "observed"}
                           /\ s # "task" => c \in aborted'
  PROVE  IInv'
<1> USE DEF IInv
<1>1. \A d \in Checkpoints : d # c => stage[d] = "none" /\ stage'[d] = "none" /\ d \notin working'
  BY DEF OneCall, TypeOK, WorkingInv
<1>2. stage'[c] = s
  BY DEF TypeOK
<1>3. Admitted' = Admitted
  BY DEF Admitted
<1>4. CountInv'
  BY <1>3 DEF CountInv
<1>5. TypeOK'
  BY DEF TypeOK
<1>6. OneCall' /\ FlagInv' /\ BarrierInv' /\ DrainedInv'
  BY <1>1, <1>2 DEF OneCall, FlagInv, BarrierInv, DrainedInv, Open
<1>7. WorkingInv'
  BY <1>1, <1>2 DEF WorkingInv, TypeOK
<1> QED BY <1>4, <1>5, <1>6, <1>7

LEMMA CheckpointSteps ==
  ASSUME NEW c \in Checkpoints, NEW outcome \in {"resolved", "rejected"}, IInv, ~Chained,
         Checkpoint(c) \/ AbortCheckpoint(c) \/ Reactions(c) \/ TaskEnds(c, outcome)
  PROVE  IInv'
<1> USE DEF IInv
<1>1. CASE Checkpoint(c)
  BY <1>1, CheckpointInv
<1>2. CASE AbortCheckpoint(c)
  <2> DEFINE s == IF stage[c] \in {"draining", "task"} THEN "rejected" ELSE stage[c]
  <2>1. s \in Stages /\ stage' = [stage EXCEPT ![c] = s] /\ stage[c] # "none"
    BY <1>2 DEF AbortCheckpoint, TypeOK, Stages, Open
  <2> QED BY <1>2, <2>1, StepOfOpenCall
          DEF AbortCheckpoint, TypeOK, FlagInv, BarrierInv, DrainedInv, WorkingInv, Open
<1>3. CASE Drained(c)
  <2> DEFINE s == IF c \in aborted THEN "rejected" ELSE "task"
  <2>1. s \in Stages /\ stage' = [stage EXCEPT ![c] = s] /\ stage[c] # "none"
    BY <1>3 DEF Drained, StartTask, TypeOK, Stages, Open
  <2> QED BY <1>3, <2>1, StepOfOpenCall
          DEF Drained, StartTask, TypeOK, FlagInv, BarrierInv, DrainedInv, WorkingInv, Open
<1>4. CASE ReleaseBarrier(c)
  <2> DEFINE s == IF stage[c] = "resolved" THEN "fulfilled" ELSE "failed"
  <2>1. s \in Stages /\ stage' = [stage EXCEPT ![c] = s] /\ stage[c] # "none"
    BY <1>4 DEF ReleaseBarrier, TypeOK, Stages, Open
  <2>2. /\ phase' \in [Mutations -> {"out", "parked", "woken", "active"}]
        /\ \A m \in Mutations : phase'[m] = "active" <=> phase[m] = "active"
    BY <1>4 DEF ReleaseBarrier, Woken, TypeOK
  <2> QED BY <1>4, <2>1, <2>2, StepOfOpenCall
          DEF ReleaseBarrier, TypeOK, FlagInv, WorkingInv, Open
<1>5. CASE ObserveResponse(c)
  <2>1. "observed" \in Stages /\ stage[c] # "none"
    BY <1>5 DEF ObserveResponse, Stages
  <2>2. c \in working => inProgress'
    BY <1>5 DEF ObserveResponse, FreedByResponse, WorkingInv, FlagInv
  <2>3. inProgress' \in BOOLEAN
    BY <1>5 DEF ObserveResponse, TypeOK
  <2> QED BY <1>5, <2>1, <2>2, <2>3, StepOfOpenCall
          DEF ObserveResponse, TypeOK, WorkingInv, Open
<1>6. CASE Settle(c)
  BY <1>6, StepOfOpenCall DEF Settle, TypeOK, Stages, Open
<1>7. CASE TaskEnds(c, outcome)
  <2> DEFINE s == IF stage[c] = "task" THEN outcome ELSE stage[c]
  <2>1. s \in Stages /\ stage' = [stage EXCEPT ![c] = s] /\ stage[c] # "none"
    BY <1>7 DEF TaskEnds, TypeOK, Stages, Open, WorkingInv
  <2> QED BY <1>7, <2>1, StepOfOpenCall
          DEF TaskEnds, TypeOK, FlagInv, BarrierInv, DrainedInv, WorkingInv, Open
<1> QED BY <1>1, <1>2, <1>3, <1>4, <1>5, <1>6, <1>7 DEF Reactions

-----------------------------------------------------------------------------

LEMMA InductiveIInv ==
  ASSUME ~Chained, Mutations \cap Checkpoints = {}
  PROVE  Spec => []IInv
<1>1. IInv /\ [Next]_vars => IInv'
  <2> SUFFICES ASSUME IInv, [Next]_vars PROVE IInv'
    OBVIOUS
  <2>1. CASE Next
    BY <2>1, MutationSteps, CheckpointSteps DEF Next
  <2>2. CASE UNCHANGED vars
    BY <2>2 DEF vars, IInv, TypeOK, CountInv, Admitted, OneCall, FlagInv, WorkingInv,
                BarrierInv, DrainedInv, Open, Stages
  <2> QED BY <2>1, <2>2
<1> QED BY <1>1, InitIInv, PTL DEF Spec

\* Type correctness of the gate.
THEOREM GateTypeCorrect ==
  ASSUME ~Chained, Mutations \cap Checkpoints = {}
  PROVE  Spec => []TypeOK
<1>1. IInv => TypeOK
  BY DEF IInv
<1> QED BY <1>1, InductiveIInv, PTL

\* The store is quiet under a checkpoint somebody waits for, for any number of
\* mutations and checkpoints (the drain and the barrier of mutationGate.ts).
THEOREM TaskRunsAloneTheorem ==
  ASSUME ~Chained, Mutations \cap Checkpoints = {}
  PROVE  Spec => []TaskRunsAlone
<1>1. IInv => TaskRunsAlone
  BY NobodyAdmitted DEF IInv, DrainedInv, TaskRunsAlone
<1> QED BY <1>1, InductiveIInv, PTL

\* No two checkpoint tasks overlap, a canceled one included, as long as a
\* checkpoint is asked for from outside the reactions of an earlier one.
THEOREM OneTaskTheorem ==
  ASSUME ~Chained, Mutations \cap Checkpoints = {}
  PROVE  Spec => []OneTask
<1>1. IInv => OneTask
  BY DEF IInv, OneTask, OneCall, WorkingInv, TypeOK
<1> QED BY <1>1, InductiveIInv, PTL

=============================================================================
