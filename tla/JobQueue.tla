------------------------------ MODULE JobQueue ------------------------------
(***************************************************************************)
(* The durable `jobs` table and the statements of its persistence facet    *)
(* (services/metaDb/drivers/sqlite/jobs.ts; drivers/pg/jobs.ts has the     *)
(* same guards).  Every statement is atomic.  Its callers are workers that *)
(* may be slow or believe they still own a job they have lost, so a caller *)
(* may issue a statement under any lease ever handed out, at any time.     *)
(*                                                                         *)
(* Timestamps are reduced to what the statements compare them for:         *)
(*   due      run_at <= now                  (claimNext)                   *)
(*   stale    locked_at < staleBefore        (reapStale)                   *)
(*   expired  expires_at < now               (findExpired)                 *)
(*   old      updated_at < before            (prune)                       *)
(***************************************************************************)
EXTENDS Integers, FiniteSets

CONSTANTS
    Jobs,
    Leases,       \* bound on the per-claim lease tokens ever made
    MaxAttempts,  \* max_attempts of every job
    NoLease,      \* locked_by IS NULL
    NoClaim       \* of a lease not handed out yet

ASSUME JobQueueAssumption ==
    /\ MaxAttempts \in Nat \ {0}
    /\ NoLease \notin Leases
    /\ NoClaim \notin [job : Jobs, attempts : Nat]

VARIABLES
    row,     \* per job: its row; status "absent" before insert and after delete
    claim    \* per lease: the JobRecord claimNext returned, or NoClaim

queueVars == <<row, claim>>

Terminal == {"succeeded", "failed", "canceled"}
Status == {"absent", "pending", "running"} \cup Terminal

Row == [ status   : Status,
         lockedBy : Leases \cup {NoLease},
         attempts : 0 .. MaxAttempts,
         ref      : BOOLEAN,     \* artifact_ref IS NOT NULL
         due      : BOOLEAN,
         stale    : BOOLEAN,
         expired  : BOOLEAN,
         old      : BOOLEAN ]

AbsentRow == [ status |-> "absent", lockedBy |-> NoLease, attempts |-> 0,
               ref |-> FALSE, due |-> FALSE, stale |-> FALSE,
               expired |-> FALSE, old |-> FALSE ]

-----------------------------------------------------------------------------
(* Guards and effects of the statements, on one row.                       *)

\* Mutant: any claim of the job speaks for it while it runs.
HoldsByStatus(r, l) == r.status = "running"

\* WHERE locked_by = ? AND status = 'running'
Holds(r, l) == r.lockedBy = l /\ r.status = "running"

Claimed(r, l) ==
    [r EXCEPT !.status = "running", !.lockedBy = l, !.stale = FALSE,
              !.attempts = @ + 1, !.old = FALSE]

\* Mutant: locked_by is not reset.
UnlockedKeepingLease(r, status) ==
    [r EXCEPT !.status = status, !.stale = FALSE, !.old = FALSE]

\* status = ?, locked_at = NULL, locked_by = NULL, updated_at = now
Unlocked(r, status) ==
    [r EXCEPT !.status = status, !.lockedBy = NoLease, !.stale = FALSE, !.old = FALSE]

Succeeded(r, artifact) ==
    [Unlocked(r, "succeeded") EXCEPT !.ref = artifact, !.expired = FALSE]

Retried(r) == [Unlocked(r, "pending") EXCEPT !.due = FALSE]

\* attempts = MAX(attempts - 1, 0)
Released(r) ==
    [Unlocked(r, "pending") EXCEPT !.attempts = IF @ > 0 THEN @ - 1 ELSE 0]

\* Mutant: only the statement that reopens a job with an attempt left is there.
ReapedBelowBudget(r) == IF r.attempts < MaxAttempts THEN Unlocked(r, "pending") ELSE r

Reaped(r) == Unlocked(r, IF r.attempts < MaxAttempts THEN "pending" ELSE "failed")

\* row[j] becomes r when the guard holds; otherwise no row changes.
UpdateIf(j, guard, r) ==
    row' = IF guard THEN [row EXCEPT ![j] = r] ELSE row

-----------------------------------------------------------------------------
(* The statements.                                                         *)

Init ==
    /\ row = [j \in Jobs |-> AbsentRow]
    /\ claim = [l \in Leases |-> NoClaim]

Enqueue(j) ==
    /\ row[j] = AbsentRow
    /\ \A l \in Leases : claim[l] # NoClaim => claim[l].job # j
    /\ row' = [row EXCEPT ![j] = [AbsentRow EXCEPT !.status = "pending", !.due = TRUE]]
    /\ UNCHANGED claim

\* One of the due jobs goes to a lease never used before.
ClaimNext(l, j) ==
    /\ claim[l] = NoClaim
    /\ row[j].status = "pending" /\ row[j].due
    /\ row' = [row EXCEPT ![j] = Claimed(@, l)]
    /\ claim' = [claim EXCEPT ![l] = [job |-> j, attempts |-> row[j].attempts + 1]]

Heartbeat(l) ==
    LET j == claim[l].job IN
    /\ UpdateIf(j, Holds(row[j], l), [row[j] EXCEPT !.stale = FALSE])
    /\ UNCHANGED claim

Succeed(l, artifact) ==
    LET j == claim[l].job IN
    /\ UpdateIf(j, Holds(row[j], l), Succeeded(row[j], artifact))
    /\ UNCHANGED claim

\* Mutant: off by one against the budget.
MayRetryOnceMore(l) == claim[l].attempts <= MaxAttempts

\* The caller asks for a retry only below the budget it was claimed with.
MayRetry(l) == claim[l].attempts < MaxAttempts

Fail(l, retry) ==
    LET j == claim[l].job IN
    /\ retry => MayRetry(l)
    /\ UpdateIf(j, Holds(row[j], l),
                IF retry THEN Retried(row[j]) ELSE Unlocked(row[j], "failed"))
    /\ UNCHANGED claim

Release(l) ==
    LET j == claim[l].job IN
    /\ UpdateIf(j, Holds(row[j], l), Released(row[j]))
    /\ UNCHANGED claim

\* Mutant: the statement does not ask for the status.
CancelAny(j) ==
    /\ row[j].status # "absent"
    /\ row' = [row EXCEPT ![j] = Unlocked(@, "canceled")]
    /\ UNCHANGED claim

Cancel(j) ==
    /\ row[j].status \in {"pending", "running"}
    /\ row' = [row EXCEPT ![j] = Unlocked(@, "canceled")]
    /\ UNCHANGED claim

\* reapStale, one candidate: it is judged again when its turn comes.
Reap(j) ==
    /\ UpdateIf(j, row[j].status = "running" /\ row[j].stale, Reaped(row[j]))
    /\ UNCHANGED claim

ClearArtifact(j) ==
    /\ UpdateIf(j, row[j].status # "absent",
                [row[j] EXCEPT !.ref = FALSE, !.expired = FALSE, !.old = FALSE])
    /\ UNCHANGED claim

\* `evidence`: the jobs a live import reservation still references.
Prunable(j, evidence) ==
    /\ row[j].status \in Terminal
    /\ ~row[j].ref
    /\ row[j].old
    /\ j \notin evidence

Prune(evidence) ==
    /\ row' = [j \in Jobs |-> IF Prunable(j, evidence) THEN AbsentRow ELSE row[j]]
    /\ UNCHANGED claim

\* The clock moves a row past one of the four comparisons.
TimePasses(j) ==
    /\ \/ row[j].status = "pending" /\ row' = [row EXCEPT ![j].due = TRUE]
       \/ row[j].status = "running" /\ row' = [row EXCEPT ![j].stale = TRUE]
       \/ row[j].ref /\ row' = [row EXCEPT ![j].expired = TRUE]
       \/ row[j].status \in Terminal /\ row' = [row EXCEPT ![j].old = TRUE]
    /\ UNCHANGED claim

Next ==
    \/ \E j \in Jobs : Enqueue(j) \/ Cancel(j) \/ Reap(j) \/ ClearArtifact(j)
                         \/ TimePasses(j)
    \/ \E l \in Leases, j \in Jobs : ClaimNext(l, j)
    \/ \E l \in Leases :
          /\ claim[l] # NoClaim
          /\ \/ Heartbeat(l) \/ Release(l)
             \/ \E artifact \in BOOLEAN : Succeed(l, artifact)
             \/ \E retry \in BOOLEAN : Fail(l, retry)
    \/ \E evidence \in SUBSET Jobs : Prune(evidence)

Spec == Init /\ [][Next]_queueVars

-----------------------------------------------------------------------------
(* Properties.                                                             *)

TypeOK ==
    /\ row \in [Jobs -> Row]
    /\ claim \in [Leases -> {NoClaim} \cup [job : Jobs, attempts : 1 .. MaxAttempts]]

\* THE LEASE IS THE JOB.  A row is locked exactly while it runs, by a lease
\* that was handed out for this very job with the attempt the row counts; so
\* a token a slow worker still carries never matches a later claim.
LeaseMatchesClaim ==
    \A j \in Jobs :
        /\ row[j].status = "running" <=> row[j].lockedBy # NoLease
        /\ \A l \in Leases :
              row[j].lockedBy = l
                 => claim[l] = [job |-> j, attempts |-> row[j].attempts]

\* THE BUDGET.  Whatever mix of retries, refunds and reaps a job went through,
\* it waits only while an attempt is left, so claimNext cannot overrun it.
AttemptsLeft ==
    \A j \in Jobs : row[j].status = "pending" => row[j].attempts < MaxAttempts

\* A TERMINAL ROW IS FINAL.  No late statement of any worker moves a row that
\* ended: a cancel in the final window is honoured, not overwritten by a late
\* success (docs/jobs.md), and such a row only ever leaves by retention.
TerminalIsFinal ==
    [][\A j \in Jobs :
          row[j].status \in Terminal
             => row'[j].status \in {row[j].status, "absent"}]_queueVars

=============================================================================
