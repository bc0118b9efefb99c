--------------------------- MODULE JobQueueProofs ---------------------------
(***************************************************************************)
(* The safety of the jobs table for every number of jobs and leases and    *)
(* every retry budget.  The three invariants are inductive only together:  *)
(* the budget of a retry is read from the claim, and only the match of     *)
(* lease and claim carries it over to the row.                             *)
(***************************************************************************)
EXTENDS JobQueue, TLAPS

\* What the three invariants say of the row `r` of job `j`.
RowOK(j, r, c) ==
    /\ r \in Row
    /\ r.status = "running" <=> r.lockedBy # NoLease
    /\ \A l \in Leases : r.lockedBy = l => c[l] = [job |-> j, attempts |-> r.attempts]
    /\ r.status = "pending" => r.attempts < MaxAttempts

ClaimsOK(c) == c \in [Leases -> {NoClaim} \cup [job : Jobs, attempts : 1 .. MaxAttempts]]

IInv ==
    /\ row \in [Jobs -> Row]
    /\ ClaimsOK(claim)
    /\ \A j \in Jobs : RowOK(j, row[j], claim)

\* The invariant is the conjunction of the three properties.
LEMMA IInvMeaning == IInv <=> TypeOK /\ LeaseMatchesClaim /\ AttemptsLeft
  BY DEF IInv, RowOK, ClaimsOK, TypeOK, LeaseMatchesClaim, AttemptsLeft

-----------------------------------------------------------------------------
(* The effects of the statements keep a row in order.                      *)

\* A row that is not there is in order.
LEMMA AbsentOK == ASSUME NEW j \in Jobs, NEW c PROVE RowOK(j, AbsentRow, c)
  BY JobQueueAssumption DEF RowOK, Row, AbsentRow, Status, Terminal

\* A row that gives its lease up is in order if it waits with an attempt left.
LEMMA UnlockedOK ==
  ASSUME NEW j \in Jobs, NEW c, NEW r, RowOK(j, r, c),
         NEW status \in Status \ {"running"},
         status = "pending" => r.attempts < MaxAttempts
  PROVE  RowOK(j, Unlocked(r, status), c)
  BY JobQueueAssumption DEF RowOK, Row, Unlocked, Status, Terminal

\* A claimed row is in order under the claim that was just handed out.
LEMMA ClaimedOK ==
  ASSUME NEW j \in Jobs, NEW c, ClaimsOK(c), NEW r, RowOK(j, r, c),
         r.status = "pending", NEW l \in Leases
  PROVE  RowOK(j, Claimed(r, l),
               [c EXCEPT ![l] = [job |-> j, attempts |-> r.attempts + 1]])
  <1> DEFINE s == Claimed(r, l)
             d == [c EXCEPT ![l] = [job |-> j, attempts |-> r.attempts + 1]]
  <1>1. /\ r \in Row /\ r.attempts \in 0 .. MaxAttempts /\ r.attempts < MaxAttempts
    BY DEF RowOK, Row
  <1>2. r.attempts + 1 \in 0 .. MaxAttempts
    BY <1>1, JobQueueAssumption
  <1>3. s \in Row /\ s.status = "running" /\ s.lockedBy = l /\ s.attempts = r.attempts + 1
    BY <1>1, <1>2 DEF Claimed, Row, Status
  <1>4. d[l] = [job |-> j, attempts |-> r.attempts + 1]
    BY DEF ClaimsOK
  <1> HIDE DEF s, d
  <1>5. RowOK(j, s, d)
    BY <1>3, <1>4, JobQueueAssumption DEF RowOK
  <1> QED
    BY <1>5 DEF s, d

\* A recorded success is in order.
LEMMA SucceededOK ==
  ASSUME NEW j \in Jobs, NEW c, NEW r, RowOK(j, r, c), NEW artifact \in BOOLEAN
  PROVE  RowOK(j, Succeeded(r, artifact), c)
  <1> DEFINE s == Unlocked(r, "succeeded")
             t == [s EXCEPT !.ref = artifact, !.expired = FALSE]
  <1>1. RowOK(j, s, c)
    BY UnlockedOK DEF Status, Terminal
  <1>1a. r \in Row
    BY DEF RowOK
  <1>1b. s.status = "succeeded"
    BY <1>1a DEF Unlocked, Row
  <1> HIDE DEF s
  <1>2. /\ t \in Row
        /\ t.status = s.status /\ t.lockedBy = s.lockedBy /\ t.attempts = s.attempts
    BY <1>1 DEF RowOK, Row
  <1>3. RowOK(j, t, c)
    BY <1>1, <1>1b, <1>2 DEF RowOK
  <1> QED
    BY <1>3 DEF Succeeded, s

\* A job put back to be retried is in order if an attempt is left.
LEMMA RetriedOK ==
  ASSUME NEW j \in Jobs, NEW c, NEW r, RowOK(j, r, c), r.attempts < MaxAttempts
  PROVE  RowOK(j, Retried(r), c)
  BY JobQueueAssumption DEF RowOK, Row, Retried, Unlocked, Status, Terminal

\* A released job is in order: the refunded attempt is left to it.
LEMMA ReleasedOK ==
  ASSUME NEW j \in Jobs, NEW c, NEW r, RowOK(j, r, c)
  PROVE  RowOK(j, Released(r), c)
  <1> DEFINE n == IF r.attempts > 0 THEN r.attempts - 1 ELSE 0
  <1>1. r \in Row /\ r.attempts \in 0 .. MaxAttempts
    BY DEF RowOK, Row
  <1>2. n \in 0 .. MaxAttempts /\ n < MaxAttempts
    BY <1>1, JobQueueAssumption
  <1>3. Released(r) = [r EXCEPT !.status = "pending", !.lockedBy = NoLease,
                                !.stale = FALSE, !.old = FALSE, !.attempts = n]
    BY <1>1 DEF Released, Unlocked, Row
  <1> HIDE DEF n
  <1> DEFINE s == [r EXCEPT !.status = "pending", !.lockedBy = NoLease,
                            !.stale = FALSE, !.old = FALSE, !.attempts = n]
  <1>4. /\ s \in Row
        /\ s.status = "pending" /\ s.lockedBy = NoLease /\ s.attempts = n
    BY <1>1, <1>2 DEF Row, Status
  <1> HIDE DEF s
  <1>5. RowOK(j, s, c)
    BY <1>2, <1>4, JobQueueAssumption DEF RowOK
  <1> QED
    BY <1>3, <1>5 DEF s

\* A reaped job is in order: it waits below the budget and fails at it.
LEMMA ReapedOK ==
  ASSUME NEW j \in Jobs, NEW c, NEW r, RowOK(j, r, c)
  PROVE  RowOK(j, Reaped(r), c)
  BY UnlockedOK, JobQueueAssumption DEF Reaped, RowOK, Row, Status, Terminal

\* A statement that leaves status, lease and attempts alone keeps a row in order.
LEMMA RefreshedOK ==
  ASSUME NEW j \in Jobs, NEW c, NEW r, RowOK(j, r, c), NEW s \in Row,
         s.status = r.status, s.lockedBy = r.lockedBy, s.attempts = r.attempts
  PROVE  RowOK(j, s, c)
  BY DEF RowOK

-----------------------------------------------------------------------------
(* Changing one row, or none, keeps all of them in order.                  *)

\* A statement that puts at most one row in order keeps the invariant.
LEMMA UpdateOK ==
  ASSUME IInv, UNCHANGED claim, NEW j \in Jobs, NEW g, NEW r,
         UpdateIf(j, g, r), g => RowOK(j, r, claim)
  PROVE  IInv'
  BY DEF IInv, UpdateIf, RowOK, ClaimsOK

\* A claim names a job and, while it holds it, the attempt the row counts.
LEMMA ClaimedJob ==
  ASSUME IInv, NEW l \in Leases, claim[l] # NoClaim
  PROVE  /\ claim[l].job \in Jobs
         /\ claim[l].attempts \in 1 .. MaxAttempts
         /\ Holds(row[claim[l].job], l) => row[claim[l].job].attempts = claim[l].attempts
  <1>1. claim[l].job \in Jobs /\ claim[l].attempts \in 1 .. MaxAttempts
    BY DEF IInv, ClaimsOK
  <1>2. RowOK(claim[l].job, row[claim[l].job], claim)
    BY <1>1 DEF IInv
  <1> QED
    BY <1>1, <1>2 DEF RowOK, Holds

\* Every statement keeps the invariant: one step per statement, each by the
\* effect it has on the one row it may change.
LEMMA InvInductive == IInv /\ [Next]_queueVars => IInv'
  <1> SUFFICES ASSUME IInv, [Next]_queueVars PROVE IInv'
    OBVIOUS
  <1> USE DEF IInv
  <1>1. ASSUME NEW j \in Jobs, Enqueue(j) PROVE IInv'
    <2> DEFINE s == [AbsentRow EXCEPT !.status = "pending", !.due = TRUE]
    <2>1. s \in Row /\ s.status = "pending" /\ s.lockedBy = NoLease /\ s.attempts = 0
      <3>1. AbsentRow.lockedBy = NoLease /\ AbsentRow.attempts = 0
        BY DEF AbsentRow
      <3>2. AbsentRow \in Row
        BY AbsentOK DEF RowOK
      <3> QED
        BY <3>1, <3>2 DEF Row, Status
    <2>2. row' = [row EXCEPT ![j] = s] /\ claim' = claim
      BY <1>1 DEF Enqueue
    <2> HIDE DEF s
    <2>3. RowOK(j, s, claim)
      BY <2>1, JobQueueAssumption DEF RowOK
    <2> QED
      BY <2>2, <2>3, UpdateOK DEF UpdateIf
  <1>2. ASSUME NEW j \in Jobs, Cancel(j) PROVE IInv'
    <2>1. RowOK(j, Unlocked(row[j], "canceled"), claim)
      BY UnlockedOK DEF Status, Terminal
    <2> QED
      BY <1>2, <2>1, UpdateOK DEF Cancel, UpdateIf
  <1>3. ASSUME NEW j \in Jobs, Reap(j) PROVE IInv'
    BY <1>3, ReapedOK, UpdateOK DEF Reap
  <1>4. ASSUME NEW j \in Jobs, ClearArtifact(j) PROVE IInv'
    <2>1. [row[j] EXCEPT !.ref = FALSE, !.expired = FALSE, !.old = FALSE] \in Row
      BY DEF Row
    <2>2. RowOK(j, [row[j] EXCEPT !.ref = FALSE, !.expired = FALSE, !.old = FALSE], claim)
      BY <2>1, RefreshedOK DEF Row
    <2> QED
      BY <1>4, <2>2, UpdateOK DEF ClearArtifact
  <1>5. ASSUME NEW j \in Jobs, TimePasses(j) PROVE IInv'
    <2>1. PICK s \in Row : /\ row' = [row EXCEPT ![j] = s]
                           /\ s.status = row[j].status
                           /\ s.lockedBy = row[j].lockedBy
                           /\ s.attempts = row[j].attempts
      <3>1. row[j] \in Row
        OBVIOUS
      <3>2. CASE row' = [row EXCEPT ![j].due = TRUE]
        <4> DEFINE s == [row[j] EXCEPT !.due = TRUE]
        <4>1. s \in Row /\ s.status = row[j].status
              /\ s.lockedBy = row[j].lockedBy /\ s.attempts = row[j].attempts
          BY <3>1 DEF Row
        <4>2. row' = [row EXCEPT ![j] = s]
          BY <3>2
        <4> HIDE DEF s
        <4> QED
          BY <4>1, <4>2
      <3>3. CASE row' = [row EXCEPT ![j].stale = TRUE]
        <4> DEFINE s == [row[j] EXCEPT !.stale = TRUE]
        <4>1. s \in Row /\ s.status = row[j].status
              /\ s.lockedBy = row[j].lockedBy /\ s.attempts = row[j].attempts
          BY <3>1 DEF Row
        <4>2. row' = [row EXCEPT ![j] = s]
          BY <3>3
        <4> HIDE DEF s
        <4> QED
          BY <4>1, <4>2
      <3>4. CASE row' = [row EXCEPT ![j].expired = TRUE]
        <4> DEFINE s == [row[j] EXCEPT !.expired = TRUE]
        <4>1. s \in Row /\ s.status = row[j].status
              /\ s.lockedBy = row[j].lockedBy /\ s.attempts = row[j].attempts
          BY <3>1 DEF Row
        <4>2. row' = [row EXCEPT ![j] = s]
          BY <3>4
        <4> HIDE DEF s
        <4> QED
          BY <4>1, <4>2
      <3>5. CASE row' = [row EXCEPT ![j].old = TRUE]
        <4> DEFINE s == [row[j] EXCEPT !.old = TRUE]
        <4>1. s \in Row /\ s.status = row[j].status
              /\ s.lockedBy = row[j].lockedBy /\ s.attempts = row[j].attempts
          BY <3>1 DEF Row
        <4>2. row' = [row EXCEPT ![j] = s]
          BY <3>5
        <4> HIDE DEF s
        <4> QED
          BY <4>1, <4>2
      <3> QED
        BY <1>5, <3>2, <3>3, <3>4, <3>5 DEF TimePasses
    <2>2. RowOK(j, s, claim)
      BY <2>1, RefreshedOK
    <2> QED
      BY <1>5, <2>1, <2>2, UpdateOK DEF TimePasses, UpdateIf
  <1>6. ASSUME NEW l \in Leases, NEW j \in Jobs, ClaimNext(l, j) PROVE IInv'
    <2>1. RowOK(j, row'[j], claim')
      BY <1>6, ClaimedOK DEF ClaimNext
    <2>2. ASSUME NEW k \in Jobs, k # j PROVE RowOK(k, row'[k], claim')
      <3>1. RowOK(k, row[k], claim) /\ row'[k] = row[k]
        BY <1>6, <2>2 DEF ClaimNext
      <3>2. row[k].lockedBy # l
        \* the lease is fresh: no other row can carry it
        <4>1. SUFFICES ASSUME row[k].lockedBy = l PROVE FALSE
          OBVIOUS
        <4>2. claim[l] = [job |-> k, attempts |-> row[k].attempts]
          BY <3>1, <4>1 DEF RowOK
        <4>3. row[k].status = "running" /\ row[k].attempts \in 0 .. MaxAttempts
          BY <3>1, <4>1, JobQueueAssumption DEF RowOK, Row
        <4> QED
          BY <1>6, <4>2, <4>3, JobQueueAssumption DEF ClaimNext, ClaimsOK
      <3>3. \A m \in Leases : m # l => claim'[m] = claim[m]
        BY <1>6 DEF ClaimNext, ClaimsOK
      <3> QED
        BY <3>1, <3>2, <3>3 DEF RowOK
    <2>3. row'[j] \in Row
      BY <2>1 DEF RowOK
    <2>4. row[j].attempts + 1 \in 1 .. MaxAttempts
      <3>1. row[j].attempts \in 0 .. MaxAttempts /\ row[j].attempts < MaxAttempts
        BY <1>6 DEF ClaimNext, RowOK, Row
      <3> QED
        BY <3>1, JobQueueAssumption
    <2> QED
      BY <1>6, <2>1, <2>2, <2>3, <2>4 DEF ClaimNext, ClaimsOK
  <1>7. ASSUME NEW l \in Leases, claim[l] # NoClaim,
               \/ Heartbeat(l) \/ Release(l)
               \/ \E artifact \in BOOLEAN : Succeed(l, artifact)
               \/ \E retry \in BOOLEAN : Fail(l, retry)
        PROVE  IInv'
    <2> DEFINE j == claim[l].job
    <2>1. j \in Jobs /\ RowOK(j, row[j], claim)
      BY <1>7, ClaimedJob
    <2>2. CASE Heartbeat(l)
      <3>1. row[j] \in Row
        BY <2>1 DEF RowOK
      <3>2. /\ [row[j] EXCEPT !.stale = FALSE] \in Row
            /\ [row[j] EXCEPT !.stale = FALSE].status = row[j].status
            /\ [row[j] EXCEPT !.stale = FALSE].lockedBy = row[j].lockedBy
            /\ [row[j] EXCEPT !.stale = FALSE].attempts = row[j].attempts
        BY <3>1 DEF Row
      <3>3. RowOK(j, [row[j] EXCEPT !.stale = FALSE], claim)
        BY <2>1, <3>2, RefreshedOK
      <3> QED
        BY <2>1, <2>2, <3>3, UpdateOK DEF Heartbeat
    <2>3. CASE Release(l)
      BY <2>1, <2>3, ReleasedOK, UpdateOK DEF Release
    <2>4. ASSUME NEW artifact \in BOOLEAN, Succeed(l, artifact) PROVE IInv'
      BY <2>1, <2>4, SucceededOK, UpdateOK DEF Succeed
    <2>5. ASSUME NEW retry \in BOOLEAN, Fail(l, retry) PROVE IInv'
      <3> DEFINE s == IF retry THEN Retried(row[j]) ELSE Unlocked(row[j], "failed")
      <3>1. Holds(row[j], l) => RowOK(j, s, claim)
        <4>1. CASE retry
          BY <1>7, <2>1, <2>5, <4>1, ClaimedJob, RetriedOK, JobQueueAssumption
             DEF Fail, MayRetry
        <4>2. CASE ~retry
          BY <2>1, <4>2, UnlockedOK DEF Status, Terminal
        <4> QED
          BY <4>1, <4>2
      <3> QED
        BY <2>1, <2>5, <3>1, UpdateOK DEF Fail
    <2> QED
      BY <1>7, <2>2, <2>3, <2>4, <2>5
  <1>8. ASSUME NEW evidence \in SUBSET Jobs, Prune(evidence) PROVE IInv'
    <2>1. \A j \in Jobs : row'[j] = AbsentRow \/ row'[j] = row[j]
      BY <1>8 DEF Prune
    <2>2. \A j \in Jobs : RowOK(j, row'[j], claim)
      BY <2>1, AbsentOK
    <2>3. row' \in [Jobs -> Row]
      <3>1. \A j \in Jobs : row'[j] \in Row
        BY <2>2 DEF RowOK
      <3> QED
        BY <1>8, <3>1 DEF Prune
    <2>4. claim' = claim
      BY <1>8 DEF Prune
    <2> QED
      BY <2>2, <2>3, <2>4
  <1>9. CASE UNCHANGED queueVars
    <2>1. row' = row /\ claim' = claim
      BY <1>9 DEF queueVars
    <2>2. \A j \in Jobs : RowOK(j, row'[j], claim')
      BY <2>1
    <2> QED
      BY <2>1, <2>2 DEF ClaimsOK, RowOK
  <1> QED
    BY <1>1, <1>2, <1>3, <1>4, <1>5, <1>6, <1>7, <1>8, <1>9 DEF Next

-----------------------------------------------------------------------------
(* What a statement can do to leases and rows.                             *)

\* A claim is handed out once, and a row gets a lease only by being claimed.
LEMMA LocksMove ==
  ASSUME IInv, [Next]_queueVars
  PROVE  /\ \A l \in Leases : claim[l] # NoClaim => claim'[l] = claim[l]
         /\ \A j \in Jobs, l \in Leases :
               row'[j].lockedBy = l
                  => \/ row[j].lockedBy = l
                     \/ claim[l] = NoClaim /\ claim'[l] # NoClaim
  <1>1. row \in [Jobs -> Row] /\ ClaimsOK(claim) /\ NoLease \notin Leases
    BY JobQueueAssumption DEF IInv
  <1>2. ASSUME NEW j \in Jobs,
               \/ Enqueue(j) \/ Cancel(j) \/ Reap(j) \/ ClearArtifact(j) \/ TimePasses(j)
        PROVE  /\ claim' = claim
               /\ \A k \in Jobs : row'[k].lockedBy \in {row[k].lockedBy, NoLease}
    <2>1. row[j] \in Row
      BY <1>1
    <2>2. CASE Enqueue(j)
      BY <1>1, <2>1, <2>2 DEF Enqueue, AbsentRow
    <2>3. CASE Cancel(j)
      BY <1>1, <2>1, <2>3 DEF Cancel, Unlocked, Row
    <2>4. CASE Reap(j)
      BY <1>1, <2>1, <2>4 DEF Reap, UpdateIf, Reaped, Unlocked, Row
    <2>5. CASE ClearArtifact(j)
      BY <1>1, <2>1, <2>5 DEF ClearArtifact, UpdateIf, Row
    <2>6. CASE TimePasses(j)
      BY <1>1, <2>1, <2>6 DEF TimePasses, Row
    <2> QED
      BY <1>2, <2>2, <2>3, <2>4, <2>5, <2>6
  <1>3. ASSUME NEW l \in Leases, NEW j \in Jobs, ClaimNext(l, j)
        PROVE  /\ \A m \in Leases : claim[m] # NoClaim => claim'[m] = claim[m]
               /\ claim[l] = NoClaim /\ claim'[l] # NoClaim
               /\ \A k \in Jobs : row'[k].lockedBy \in {row[k].lockedBy, l}
    <2>1. row[j] \in Row /\ row[j].attempts \in Nat
      BY <1>1, JobQueueAssumption DEF Row
    <2>2. [job |-> j, attempts |-> row[j].attempts + 1] \in [job : Jobs, attempts : Nat]
      BY <2>1
    <2>3. claim' = [claim EXCEPT ![l] = [job |-> j, attempts |-> row[j].attempts + 1]]
      BY <1>3 DEF ClaimNext
    <2>4. row' = [row EXCEPT ![j] = Claimed(row[j], l)] /\ claim[l] = NoClaim
      BY <1>3 DEF ClaimNext
    <2>5. Claimed(row[j], l).lockedBy = l
      BY <2>1 DEF Claimed, Row
    <2>6. claim'[l] # NoClaim /\ \A m \in Leases : m # l => claim'[m] = claim[m]
      BY <1>1, <2>2, <2>3, JobQueueAssumption DEF ClaimsOK
    <2> QED
      BY <1>1, <2>4, <2>5, <2>6
  <1>4. ASSUME NEW l \in Leases, claim[l] # NoClaim,
               \/ Heartbeat(l) \/ Release(l)
               \/ \E artifact \in BOOLEAN : Succeed(l, artifact)
               \/ \E retry \in BOOLEAN : Fail(l, retry)
        PROVE  /\ claim' = claim
               /\ \A k \in Jobs : row'[k].lockedBy \in {row[k].lockedBy, NoLease}
    <2>1. claim[l].job \in Jobs /\ row[claim[l].job] \in Row
      BY <1>1, <1>4, ClaimedJob
    <2>2. CASE Heartbeat(l)
      BY <1>1, <2>1, <2>2 DEF Heartbeat, UpdateIf, Row
    <2>3. CASE Release(l)
      BY <1>1, <2>1, <2>3 DEF Release, UpdateIf, Released, Unlocked, Row
    <2>4. ASSUME NEW artifact \in BOOLEAN, Succeed(l, artifact)
          PROVE  /\ claim' = claim
                 /\ \A k \in Jobs : row'[k].lockedBy \in {row[k].lockedBy, NoLease}
      BY <1>1, <2>1, <2>4 DEF Succeed, UpdateIf, Succeeded, Unlocked, Row
    <2>5. ASSUME NEW retry \in BOOLEAN, Fail(l, retry)
          PROVE  /\ claim' = claim
                 /\ \A k \in Jobs : row'[k].lockedBy \in {row[k].lockedBy, NoLease}
      BY <1>1, <2>1, <2>5 DEF Fail, UpdateIf, Retried, Unlocked, Row
    <2> QED
      BY <1>4, <2>2, <2>3, <2>4, <2>5
  <1>5. ASSUME NEW evidence \in SUBSET Jobs, Prune(evidence)
        PROVE  /\ claim' = claim
               /\ \A k \in Jobs : row'[k].lockedBy \in {row[k].lockedBy, NoLease}
    BY <1>5 DEF Prune, AbsentRow
  <1>6. CASE UNCHANGED queueVars
    BY <1>6 DEF queueVars
  <1> QED
    BY <1>1, <1>2, <1>3, <1>4, <1>5, <1>6 DEF Next

\* A lease that was lost is never held again.
LEMMA LeaseStaysLost ==
  ASSUME IInv, [Next]_queueVars, NEW l \in Leases, claim[l] # NoClaim,
         ~Holds(row[claim[l].job], l)
  PROVE  ~Holds(row'[claim[l].job], l)
  <1>1. IInv' /\ claim'[l] = claim[l] /\ claim[l].job \in Jobs
    BY InvInductive, LocksMove, ClaimedJob
  <1>2. \A j \in Jobs : /\ row[j].status = "running" <=> row[j].lockedBy # NoLease
                        /\ row'[j].status = "running" <=> row'[j].lockedBy # NoLease
    BY <1>1 DEF IInv, RowOK
  <1>3. row'[claim[l].job].lockedBy = l => row[claim[l].job].lockedBy = l
    BY <1>1, LocksMove
  <1> QED
    BY <1>1, <1>2, <1>3, JobQueueAssumption DEF Holds

-----------------------------------------------------------------------------
(* The theorems.                                                           *)

\* The empty table.
LEMMA InvInit == Init => IInv
  <1> SUFFICES ASSUME Init PROVE IInv
    OBVIOUS
  <1>1. \A j \in Jobs : row[j] = AbsentRow /\ RowOK(j, row[j], claim)
    BY AbsentOK DEF Init
  <1> QED
    BY <1>1 DEF Init, IInv, ClaimsOK, RowOK

\* The rows and the claims keep the shapes the statements write.
THEOREM TypeCorrect == Spec => []TypeOK
  BY InvInit, InvInductive, IInvMeaning, PTL DEF Spec

\* A row is locked exactly while it runs, and only by the lease that was handed
\* out for this job with the attempt the row counts (claimNext and the
\* locked_by guards of the statements).
THEOREM LeaseIsTheJob == Spec => []LeaseMatchesClaim
  BY InvInit, InvInductive, IInvMeaning, PTL DEF Spec

\* No mix of retries, refunds and reaps leaves a job waiting without an attempt
\* left, so claimNext never overruns max_attempts although it does not test it.
THEOREM BudgetHolds == Spec => []AttemptsLeft
  BY InvInit, InvInductive, IInvMeaning, PTL DEF Spec

\* No statement of a late worker moves a row that has ended.
THEOREM TerminalStays == Spec => TerminalIsFinal
  <1>1. IInv /\ [Next]_queueVars
          => [\A j \in Jobs : row[j].status \in Terminal
                => row'[j].status \in {row[j].status, "absent"}]_queueVars
    <2> SUFFICES ASSUME IInv, Next, NEW j \in Jobs, row[j].status \in Terminal
                 PROVE  row'[j].status \in {row[j].status, "absent"}
      OBVIOUS
    <2>0. row \in [Jobs -> Row] /\ row[j].status \notin {"pending", "running", "absent"}
      BY DEF IInv, Terminal
    <2>1. ASSUME NEW k \in Jobs,
                 Enqueue(k) \/ Cancel(k) \/ Reap(k) \/ ClearArtifact(k) \/ TimePasses(k)
          PROVE  row'[j].status = row[j].status
      <3>1. CASE k # j
        BY <2>0, <2>1, <3>1 DEF Enqueue, Cancel, Reap, ClearArtifact, TimePasses, UpdateIf
      <3>2. CASE k = j
        <4>1. CASE Enqueue(k) \/ Cancel(k) \/ Reap(k)
          BY <2>0, <3>2, <4>1 DEF Enqueue, AbsentRow, Cancel, Reap, UpdateIf
        <4>2. CASE ClearArtifact(k)
          BY <2>0, <3>2, <4>2 DEF ClearArtifact, UpdateIf, Row
        <4>3. CASE TimePasses(k)
          BY <2>0, <3>2, <4>3 DEF TimePasses, Row
        <4> QED
          BY <2>1, <4>1, <4>2, <4>3
      <3> QED
        BY <3>1, <3>2
    <2>2. ASSUME NEW l \in Leases, NEW k \in Jobs, ClaimNext(l, k)
          PROVE  row'[j] = row[j]
      BY <2>0, <2>2 DEF ClaimNext
    <2>3. ASSUME NEW l \in Leases, claim[l] # NoClaim,
                 \/ Heartbeat(l) \/ Release(l)
                 \/ \E artifact \in BOOLEAN : Succeed(l, artifact)
                 \/ \E retry \in BOOLEAN : Fail(l, retry)
          PROVE  row'[j] = row[j]
      <3>1. claim[l].job = j => ~Holds(row[claim[l].job], l)
        BY <2>0 DEF Holds
      <3> QED
        BY <2>0, <2>3, <3>1 DEF Heartbeat, Release, Succeed, Fail, UpdateIf
    <2>4. ASSUME NEW evidence \in SUBSET Jobs, Prune(evidence)
          PROVE  row'[j].status \in {row[j].status, "absent"}
      BY <2>4 DEF Prune, AbsentRow
    <2> QED
      BY <2>1, <2>2, <2>3, <2>4 DEF Next
  <1> QED
    BY <1>1, InvInit, InvInductive, PTL DEF Spec, TerminalIsFinal

=============================================================================
