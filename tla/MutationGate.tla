---------------------------- MODULE MutationGate ----------------------------
(***************************************************************************)
(* The write barrier of an online backup (libs/mutationGate): mutations    *)
(* run concurrently, a checkpoint holds new ones back, waits for the       *)
(* active ones and runs its task on a quiet store.                         *)
(*                                                                         *)
(* The code is single threaded; an action is what runs up to the next      *)
(* await, and the continuation of a settled promise is an action of its    *)
(* own.  Mutations and checkpoints are recycled: a name stands for one     *)
(* call after another.                                                     *)
(*                                                                         *)
(*   phase[m]  out      not inside: never called, released or refused      *)
(*             parked   its `admitted` is in `entrants`                    *)
(*             woken    admitted, its turn of the while loop still to run  *)
(*             active   holds a release function                           *)
(*   stage[c]  none, draining (its `drained` is in `drains`), drained,     *)
(*             task (awaits its task), resolved or rejected (what it       *)
(*             awaited settled, the `finally` still to run), then the      *)
(*             reactions of its promise: fulfilled or failed, observed     *)
(***************************************************************************)
EXTENDS Integers, FiniteSets

CONSTANTS
    Mutations,
    Checkpoints,
    Chained     \* a checkpoint may be asked for by a reaction to an earlier one

ASSUME GateAssumption ==
    /\ IsFiniteSet(Mutations)
    /\ Chained \in BOOLEAN

VARIABLES
    active,      \* the counter of admitted mutations
    blocked,
    inProgress,  \* checkpointInProgress
    phase,       \* per mutation
    stage,       \* per checkpoint
    working,     \* checkpoints whose task is running, awaited or not
    started,     \* checkpoints whose taskPromise is set
    aborted      \* callers whose signal has fired

vars == <<active, blocked, inProgress, phase, stage, working, started, aborted>>

Open == {"draining", "drained", "task", "resolved", "rejected"}
Stages == Open \cup {"none", "fulfilled", "failed", "observed"}

Init ==
    /\ active = 0 /\ blocked = FALSE /\ inProgress = FALSE
    /\ phase = [m \in Mutations |-> "out"]
    /\ stage = [c \in Checkpoints |-> "none"]
    /\ working = {} /\ started = {} /\ aborted = {}

-----------------------------------------------------------------------------
(* Mutations.                                                              *)

\* enter, from the test of its while loop: park, or be admitted.
TryEnter(m) ==
    /\ phase' = [phase EXCEPT ![m] = IF blocked THEN "parked" ELSE "active"]
    /\ active' = IF blocked THEN active ELSE active + 1

Enter(m) ==
    /\ phase[m] = "out"
    /\ TryEnter(m)
    /\ aborted' = aborted \ {m}
    /\ UNCHANGED <<blocked, inProgress, stage, working, started>>

\* The next turn of the loop, or its throwIfAborted.
Reenter(m) ==
    /\ phase[m] = "woken"
    /\ IF m \in aborted
       THEN phase' = [phase EXCEPT ![m] = "out"] /\ UNCHANGED active
       ELSE TryEnter(m)
    /\ UNCHANGED <<blocked, inProgress, stage, working, started, aborted>>

\* The signal of a waiting request fires: it leaves `entrants` at once.
AbortMutation(m) ==
    /\ phase[m] \in {"parked", "woken"}
    /\ aborted' = aborted \cup {m}
    /\ phase' = [phase EXCEPT ![m] = IF @ = "parked" THEN "out" ELSE @]
    /\ UNCHANGED <<active, blocked, inProgress, stage, working, started>>

\* Mutant: a second call of the release function counts again.
ReleaseEveryTime(m) ==
    /\ phase[m] \in {"out", "active"}
    /\ phase' = [phase EXCEPT ![m] = "out"]
    /\ active' = active - 1
    /\ stage' = [c \in Checkpoints |->
          IF active' = 0 /\ stage[c] = "draining" THEN "drained" ELSE stage[c]]
    /\ UNCHANGED <<blocked, inProgress, working, started, aborted>>

\* The first call of the release function; the last mutation ends the drain.
Release(m) ==
    /\ phase[m] = "active"
    /\ phase' = [phase EXCEPT ![m] = "out"]
    /\ active' = active - 1
    /\ stage' = [c \in Checkpoints |->
          IF active' = 0 /\ stage[c] = "draining" THEN "drained" ELSE stage[c]]
    /\ UNCHANGED <<blocked, inProgress, working, started, aborted>>

-----------------------------------------------------------------------------
(* Checkpoints.                                                            *)

\* No continuation is waiting to run.
Quiet ==
    /\ \A m \in Mutations : phase[m] # "woken"
    /\ \A c \in Checkpoints :
          \/ stage[c] \in {"none", "draining", "task"}
          \/ stage[c] = "observed" /\ c \in working

\* What follows the drain: the task starts and is awaited.
StartTask(c) ==
    /\ stage' = [stage EXCEPT ![c] = "task"]
    /\ working' = working \cup {c}
    /\ started' = started \cup {c}

\* checkpoint.  The one caller is a socket handler (backupControl.ts), which
\* runs when no continuation is pending; a caller that awaits the answer and
\* asks again at once is Chained.  A checkpoint in progress refuses the call.
Checkpoint(c) ==
    /\ Chained \/ Quiet
    /\ stage[c] = "none"
    /\ ~inProgress
    /\ inProgress' = TRUE
    /\ blocked' = TRUE
    /\ aborted' = aborted \ {c}
    /\ IF active > 0
       THEN /\ stage' = [stage EXCEPT ![c] = "draining"]
            /\ started' = started \ {c}
            /\ UNCHANGED working
       ELSE StartTask(c)
    /\ UNCHANGED <<active, phase>>

Drained(c) ==
    /\ stage[c] = "drained"
    /\ IF c \in aborted
       THEN stage' = [stage EXCEPT ![c] = "rejected"] /\ UNCHANGED <<working, started>>
       ELSE StartTask(c)
    /\ UNCHANGED <<active, blocked, inProgress, phase, aborted>>

\* The deadline passes or the client disconnects.  A wait is given up at once,
\* a task that runs goes on unattended.
AbortCheckpoint(c) ==
    /\ stage[c] # "none"
    /\ c \notin aborted
    /\ aborted' = aborted \cup {c}
    /\ stage' = [stage EXCEPT ![c] = IF @ \in {"draining", "task"} THEN "rejected" ELSE @]
    /\ UNCHANGED <<active, blocked, inProgress, phase, working, started>>

TaskEnds(c, outcome) ==
    /\ c \in working
    /\ working' = working \ {c}
    /\ stage' = [stage EXCEPT ![c] = IF @ = "task" THEN outcome ELSE @]
    /\ UNCHANGED <<active, blocked, inProgress, phase, started, aborted>>

\* Mutant: the entrants are let in only when the checkpoint went well.
WokenOnSuccess(c) == { m \in Mutations : phase[m] = "parked" /\ stage[c] = "resolved" }

\* releaseBarrier empties `entrants`.
Woken(c) == { m \in Mutations : phase[m] = "parked" }

ReleaseBarrier(c) ==
    /\ stage[c] \in {"resolved", "rejected"}
    /\ blocked' = FALSE
    /\ phase' = [m \in Mutations |-> IF m \in Woken(c) THEN "woken" ELSE phase[m]]
    /\ stage' = [stage EXCEPT ![c] = IF @ = "resolved" THEN "fulfilled" ELSE "failed"]
    /\ UNCHANGED <<active, inProgress, working, started, aborted>>

\* Mutant: the answer alone makes way for the next checkpoint.
FreedByAnswer(c) == TRUE

\* Whether the answer also means that the task has stopped.
FreedByResponse(c) == stage[c] = "fulfilled" \/ c \notin started \/ c \notin aborted

\* responseObserved.
ObserveResponse(c) ==
    /\ stage[c] \in {"fulfilled", "failed"}
    /\ stage' = [stage EXCEPT ![c] = "observed"]
    /\ inProgress' = (inProgress /\ ~FreedByResponse(c))
    /\ UNCHANGED <<active, blocked, phase, working, started, aborted>>

\* settlement, after the task it waits for.
Settle(c) ==
    /\ stage[c] = "observed"
    /\ c \notin working
    /\ stage' = [stage EXCEPT ![c] = "none"]
    /\ inProgress' = FALSE
    /\ UNCHANGED <<active, blocked, phase, working, started, aborted>>

-----------------------------------------------------------------------------

Reactions(c) == Drained(c) \/ ReleaseBarrier(c) \/ ObserveResponse(c) \/ Settle(c)

Next ==
    \/ \E m \in Mutations : Enter(m) \/ Reenter(m) \/ AbortMutation(m) \/ Release(m)
    \/ \E c \in Checkpoints : Checkpoint(c) \/ AbortCheckpoint(c) \/ Reactions(c)
    \/ \E c \in Checkpoints, outcome \in {"resolved", "rejected"} : TaskEnds(c, outcome)

Spec == Init /\ [][Next]_vars

\* Continuations run, and a checkpoint has a deadline.  Neither tasks nor
\* mutations are taken to end.
Fairness ==
    /\ \A m \in Mutations : WF_vars(Reenter(m))
    /\ \A c \in Checkpoints : WF_vars(Reactions(c)) /\ WF_vars(AbortCheckpoint(c))

FairSpec == Spec /\ Fairness

-----------------------------------------------------------------------------
(* Properties.                                                             *)

TypeOK ==
    /\ active \in Nat
    /\ blocked \in BOOLEAN /\ inProgress \in BOOLEAN
    /\ phase \in [Mutations -> {"out", "parked", "woken", "active"}]
    /\ stage \in [Checkpoints -> Stages]
    /\ working \in SUBSET Checkpoints /\ started \in SUBSET Checkpoints
    /\ aborted \in SUBSET (Mutations \cup Checkpoints)

\* A QUIET STORE.  As long as somebody waits for the task of a checkpoint no
\* mutation is under way, those included that were woken by the checkpoint
\* before it or counted down by a release function called twice.
TaskRunsAlone ==
    \A c \in Checkpoints :
        stage[c] = "task" => \A m \in Mutations : phase[m] # "active"

\* "A concurrent checkpoint fails fast" (mutationGate.ts): the task of a
\* checkpoint that was canceled keeps the next one out until it has stopped.
OneTask == \A c, d \in working : c = d

\* A mutation held back by a checkpoint, or by one checkpoint after another,
\* is let in or was given up by its caller: neither a drain that never ends
\* nor a hanging task keeps it out.
EntrantsAdmitted == \A m \in Mutations : phase[m] = "parked" ~> phase[m] \in {"active", "out"}

=============================================================================
