-------------------------- MODULE StoreLocksProofs --------------------------
(***************************************************************************)
(* Proofs about the phase gate, for any callers, and their transfer to the *)
(* store that uses it.  The invariant says who may be where: the mode is   *)
(* that of everybody inside, the queue holds nobody twice and nobody who   *)
(* is inside, and its head is of the other mode.                           *)
(*                                                                         *)
(* Then the drain: a stop that has crossed the gate, the trash coordinator *)
(* and the storage coordinator has nobody behind it but those it does not  *)
(* wait for: other stops, and callers that nobody admits.  The invariant   *)
(* follows it from one to the next (Stopping), over where every operation  *)
(* stands and what it holds there (Standing), which for the host of a lease*)
(* that stop() took away is nothing.                                       *)
(***************************************************************************)
EXTENDS StoreLocks, FiniteSetTheorems, TLAPS

\* Those inside are of the active mode, and an idle gate has no queue.
ModeInv ==
    /\ \A c \in holders : ModeOf[c] = activeMode
    /\ holders = {} <=> activeMode = NoMode
    /\ holders = {} => waiting = << >>

\* A caller stands in one place.
PlaceInv ==
    /\ \A i \in 1 .. Len(waiting) : waiting[i] \notin holders
    /\ \A i, j \in 1 .. Len(waiting) : waiting[i] = waiting[j] => i = j

GateInv == GateTypeOK /\ ModeInv /\ PlaceInv /\ SomebodyInside

LEMMA GateInitInv == GateInit => GateInv
  BY PhaseGateAssumption
     DEF GateInit, GateInv, GateTypeOK, ModeInv, PlaceInv, SomebodyInside

-----------------------------------------------------------------------------

LEMMA AcquireInv ==
  ASSUME NEW c \in Callers, GateInv, Acquire(c)
  PROVE  GateInv'
<1> USE DEF GateInv
<1>1. ModeOf[c] \in {"read", "mutation"}
  BY PhaseGateAssumption
<1>2. CASE MayEnter(c)
  <2>1. /\ activeMode' = ModeOf[c]
        /\ holders' = holders \cup {c}
        /\ waiting' = waiting
        /\ idleWaiters' = idleWaiters
        /\ waiting = << >>
    BY <1>2 DEF Acquire, MayEnter, ModeInv
  <2>2. GateTypeOK'
    BY <1>1, <2>1 DEF GateTypeOK
  <2>3. ModeInv'
    BY <1>1, <1>2, <2>1, PhaseGateAssumption DEF ModeInv, MayEnter
  <2>4. PlaceInv' /\ SomebodyInside'
    BY <2>1 DEF PlaceInv, SomebodyInside, GateTypeOK
  <2> QED BY <2>2, <2>3, <2>4
<1>3. CASE ~MayEnter(c)
  <2>1. /\ waiting' = Append(waiting, c)
        /\ UNCHANGED <<activeMode, holders, idleWaiters>>
        /\ activeMode # NoMode
        /\ waiting = << >> => ModeOf[c] # activeMode
        /\ c \notin holders
        /\ \A i \in 1 .. Len(waiting) : waiting[i] # c
    BY <1>3 DEF Acquire, MayEnter, Queued
  <2>2. GateTypeOK'
    BY <2>1 DEF GateTypeOK
  <2>3. ModeInv'
    BY <2>1 DEF ModeInv
  <2>4. /\ Len(waiting') = Len(waiting) + 1
        /\ Len(waiting) \in Nat
        /\ \A i \in 1 .. Len(waiting) : waiting'[i] = waiting[i]
        /\ waiting'[Len(waiting) + 1] = c
        /\ waiting = << >> <=> Len(waiting) = 0
    BY <2>1 DEF GateTypeOK
  <2>5. PlaceInv'
    <3>1. \A i \in 1 .. Len(waiting') :
             \/ i \in 1 .. Len(waiting) /\ waiting'[i] = waiting[i]
             \/ i = Len(waiting) + 1 /\ waiting'[i] = c
      BY <2>4
    <3> QED BY <2>1, <3>1 DEF PlaceInv
  <2>6. SomebodyInside'
    <3>1. CASE waiting = << >>
      BY <2>1, <2>4, <3>1 DEF SomebodyInside, ModeInv
    <3>2. CASE waiting # << >>
      BY <2>1, <2>4, <3>2 DEF SomebodyInside
    <3> QED BY <3>1, <3>2
  <2> QED BY <2>2, <2>3, <2>5, <2>6
<1> QED BY <1>2, <1>3

\* What the first n waiters and the rest are, for a cohort of n.
LEMMA CohortSplit ==
  ASSUME NEW n \in 1 .. Len(waiting), Cohort(n), GateTypeOK,
         NEW rest, rest = SubSeq(waiting, n + 1, Len(waiting))
  PROVE  /\ rest \in Seq(Callers)
         /\ Len(rest) = Len(waiting) - n
         /\ \A i \in 1 .. Len(rest) : rest[i] = waiting[n + i]
         /\ rest # << >> => n < Len(waiting) /\ rest[1] = waiting[n + 1]
<1>1. Len(waiting) \in Nat /\ n \in Nat
  BY DEF GateTypeOK
<1>2. rest \in Seq(Callers)
  BY <1>1 DEF GateTypeOK
<1>3. Len(rest) = Len(waiting) - n
  BY <1>1 DEF GateTypeOK
<1>4. \A i \in 1 .. Len(rest) : rest[i] = waiting[n + i]
  BY <1>1, <1>3 DEF GateTypeOK
<1>5. rest # << >> => Len(rest) # 0
  BY <1>2
<1> QED BY <1>1, <1>2, <1>3, <1>4, <1>5

LEMMA ReleaseGateInv ==
  ASSUME NEW c \in Callers, GateInv, Release(c)
  PROVE  GateInv'
<1> USE DEF GateInv
<1>1. CASE holders # {c}
  <2>1. /\ holders' = holders \ {c} /\ holders' # {}
        /\ UNCHANGED <<activeMode, waiting, idleWaiters>>
    BY <1>1 DEF Release
  <2> QED BY <2>1 DEF GateTypeOK, ModeInv, PlaceInv, SomebodyInside
<1>2. CASE holders = {c} /\ waiting = << >> /\ activeMode' = NoMode /\ holders' = {}
           /\ idleWaiters' = {} /\ UNCHANGED waiting
  BY <1>2 DEF GateTypeOK, ModeInv, PlaceInv, SomebodyInside
<1>3. ASSUME NEW n \in 1 .. Len(waiting), Cohort(n), holders = {c},
             activeMode' = ModeOf[waiting[1]],
             holders' = { waiting[i] : i \in 1 .. n },
             waiting' = SubSeq(waiting, n + 1, Len(waiting)),
             UNCHANGED idleWaiters
      PROVE  GateInv'
  <2>1. /\ waiting' \in Seq(Callers)
        /\ Len(waiting') = Len(waiting) - n
        /\ \A i \in 1 .. Len(waiting') : waiting'[i] = waiting[n + i]
        /\ waiting' # << >> => n < Len(waiting) /\ waiting'[1] = waiting[n + 1]
    BY <1>3, CohortSplit
  <2>2. Len(waiting) \in Nat /\ 1 \in 1 .. n /\ n \in Nat /\ \A i \in 1 .. n : i \in 1 .. Len(waiting)
    BY DEF GateTypeOK
  <2>3. \A i \in 1 .. Len(waiting) : waiting[i] \in Callers
    BY DEF GateTypeOK
  <2>4. \A i \in 1 .. n : ModeOf[waiting[i]] = ModeOf[waiting[1]]
    BY <1>3 DEF Cohort
  <2>5. ModeOf[waiting[1]] \in {"read", "mutation"}
    BY <2>2, <2>3, PhaseGateAssumption
  <2>6. GateTypeOK'
    BY <1>3, <2>1, <2>2, <2>3, <2>5 DEF GateTypeOK
  <2>7. ModeInv'
    <3>1. waiting[1] \in holders'
      BY <1>3, <2>2
    <3>2. \A d \in holders' : ModeOf[d] = activeMode'
      BY <1>3, <2>4
    <3> QED BY <1>3, <2>5, <3>1, <3>2, PhaseGateAssumption DEF ModeInv
  <2>8. PlaceInv'
    <3>1. ASSUME NEW i \in 1 .. Len(waiting') PROVE waiting'[i] \notin holders'
      <4>1. n + i \in 1 .. Len(waiting) /\ \A k \in 1 .. n : k # n + i
        BY <2>1, <2>2
      <4>2. \A k \in 1 .. n : waiting[k] # waiting[n + i]
        BY <2>2, <4>1 DEF PlaceInv
      <4> QED BY <1>3, <2>1, <4>2
    <3>2. ASSUME NEW i \in 1 .. Len(waiting'), NEW j \in 1 .. Len(waiting'),
                 waiting'[i] = waiting'[j]
          PROVE  i = j
      <4>1. n + i \in 1 .. Len(waiting) /\ n + j \in 1 .. Len(waiting)
        BY <2>1, <2>2
      <4>2. n + i = n + j
        BY <2>1, <3>2, <4>1 DEF PlaceInv
      <4> QED BY <2>2, <4>2
    <3> QED BY <3>1, <3>2 DEF PlaceInv
  <2>9. SomebodyInside'
    BY <1>3, <2>1, <2>2 DEF SomebodyInside, Cohort
  <2> QED BY <2>6, <2>7, <2>8, <2>9
<1> QED BY <1>1, <1>2, <1>3 DEF Release, Drain

LEMMA SettleInv ==
  ASSUME NEW s \in Callers, GateInv, Settle(s)
  PROVE  GateInv'
  BY DEF Settle, GateInv, GateTypeOK, ModeInv, PlaceInv, SomebodyInside

LEMMA GateStepInv == GateInv /\ [GateNext]_gateVars => GateInv'
<1> SUFFICES ASSUME GateInv, [GateNext]_gateVars PROVE GateInv'
  OBVIOUS
<1>1. CASE GateNext
  BY <1>1, AcquireInv, ReleaseGateInv, SettleInv DEF GateNext
<1>2. CASE UNCHANGED gateVars
  BY <1>2 DEF gateVars, GateInv, GateTypeOK, ModeInv, PlaceInv, SomebodyInside
<1> QED BY <1>1, <1>2

-----------------------------------------------------------------------------
(* Nobody is passed.                                                       *)

NobodyPassedStep ==
    \A c \in holders' \ holders :
        /\ c \notin Queued => waiting' = << >>
        /\ \A i, j \in 1 .. Len(waiting) :
              waiting[i] = c /\ j < i => waiting[j] \in holders'

LEMMA CohortPassesNobody ==
  ASSUME GateInv, NEW n \in 1 .. Len(waiting), holders' = { waiting[i] : i \in 1 .. n }
  PROVE  NobodyPassedStep
<1>1. Len(waiting) \in Nat
  BY DEF GateInv, GateTypeOK
<1>2. ASSUME NEW c \in holders'
      PROVE  /\ c \in Queued
             /\ \A i, j \in 1 .. Len(waiting) :
                   waiting[i] = c /\ j < i => waiting[j] \in holders'
  <2>1. PICK k \in 1 .. n : waiting[k] = c
    OBVIOUS
  <2>2. k \in 1 .. Len(waiting)
    BY <1>1
  <2>3. ASSUME NEW i \in 1 .. Len(waiting), NEW j \in 1 .. Len(waiting), waiting[i] = c, j < i
        PROVE  waiting[j] \in holders'
    <3>1. i = k
      BY <2>1, <2>2, <2>3 DEF GateInv, PlaceInv
    <3>2. j \in 1 .. n
      BY <2>3, <3>1
    <3> QED BY <3>2
  <2> QED BY <2>1, <2>2, <2>3 DEF Queued
<1> QED BY <1>2 DEF NobodyPassedStep

LEMMA StepPassesNobody == GateInv /\ [GateNext]_gateVars => NobodyPassedStep
<1> SUFFICES ASSUME GateInv, [GateNext]_gateVars PROVE NobodyPassedStep
  OBVIOUS
<1>1. ASSUME NEW c \in Callers, Acquire(c) PROVE NobodyPassedStep
  <2>1. CASE MayEnter(c)
    <3>1. holders' = holders \cup {c} /\ waiting' = << >> /\ waiting = << >>
      BY <1>1, <2>1 DEF Acquire, MayEnter, GateInv, ModeInv
    <3>2. Len(waiting) = 0
      BY <3>1
    <3> QED BY <3>1, <3>2 DEF NobodyPassedStep
  <2>2. CASE ~MayEnter(c)
    BY <1>1, <2>2 DEF Acquire, NobodyPassedStep
  <2> QED BY <2>1, <2>2
<1>2. ASSUME NEW c \in Callers, Release(c) PROVE NobodyPassedStep
  <2>1. CASE holders' \subseteq holders
    BY <2>1 DEF NobodyPassedStep
  <2>2. CASE \E n \in 1 .. Len(waiting) : holders' = { waiting[i] : i \in 1 .. n }
    BY <2>2, CohortPassesNobody
  <2> QED BY <1>2, <2>1, <2>2 DEF Release, Drain
<1>3. ASSUME NEW s \in Callers, Settle(s) PROVE NobodyPassedStep
  BY <1>3 DEF Settle, NobodyPassedStep
<1>4. CASE UNCHANGED gateVars
  BY <1>4 DEF gateVars, NobodyPassedStep
<1> QED BY <1>1, <1>2, <1>3, <1>4 DEF GateNext

-----------------------------------------------------------------------------
(* The store and its gate.                                                 *)

\* Every operation of the store, and its stop, use the gate through its
\* methods only.
LEMMA StoreUsesGate == [Next]_vars => [GateNext]_gateVars
<1> SUFFICES ASSUME [Next]_vars PROVE [GateNext]_gateVars
  OBVIOUS
<1> USE DEF GateNext
<1>1. ASSUME NEW op \in Callers, Call(op) PROVE [GateNext]_gateVars
  BY <1>1 DEF Call, CallGated, CallUnadmitted, Poll, PollTakes, CallExternal
<1>2. ASSUME NEW op \in Callers, EnterMutation(op) \/ EnterRead(op) PROVE [GateNext]_gateVars
  BY <1>2 DEF EnterMutation, EnterRead, Refuse
<1>3. ASSUME NEW op \in Callers,
             \/ TrashGranted(op) \/ MainGranted(op) \/ WorkEnds(op)
             \/ ScanFails(op) \/ ScanSucceeds(op) \/ GraphSucceeds(op)
             \/ StopSettles(op) \/ StopCrosses(op) \/ StopInner(op)
      PROVE  [GateNext]_gateVars
  BY <1>3 DEF TrashGranted, MainGranted, WorkEnds, ScanFails, ScanSucceeds, GraphSucceeds,
              StopSettles, StopCrosses, StopInner
<1>4. ASSUME NEW op \in Callers, Unwind(op) \/ HostReleases(op) PROVE [GateNext]_gateVars
  BY <1>4 DEF Unwind, HostReleases, EndLease
<1>5. ASSUME NEW op \in Callers, Stop(op) PROVE [GateNext]_gateVars
  BY <1>5 DEF Stop, EndLease, LeasesHeld, OfKind
<1>6. CASE UNCHANGED vars
  BY <1>6 DEF vars
<1> QED BY <1>1, <1>2, <1>3, <1>4, <1>5, <1>6 DEF Next, Proceed

LEMMA StoreKeepsGateInv == Spec => []GateInv
<1>1. Init => GateInv
  BY GateInitInv DEF Init
<1>2. GateInv /\ [Next]_vars => GateInv'
  BY GateStepInv, StoreUsesGate
<1> QED BY <1>1, <1>2, PTL DEF Spec

\* A reconcile or raw read is never inside together with a mutation that has
\* not joined its queue yet, for any operations of the store.
THEOREM PhasesExcludeTheorem == Spec => []PhasesExclude
<1>1. GateInv => PhasesExclude
  BY DEF GateInv, ModeInv, PhasesExclude
<1> QED BY <1>1, StoreKeepsGateInv, PTL

\* Whoever waits at the gate has somebody inside to wait for, of the other mode.
THEOREM SomebodyInsideTheorem == Spec => []SomebodyInside
<1>1. GateInv => SomebodyInside
  BY DEF GateInv
<1> QED BY <1>1, StoreKeepsGateInv, PTL

\* Nobody is let in past an earlier waiter that stays outside: neither reads
\* nor mutations can starve the other phase.
THEOREM NobodyPassedTheorem == Spec => NobodyPassed
<1>1. GateInv /\ [Next]_vars => [NobodyPassedStep]_gateVars
  BY StepPassesNobody, StoreUsesGate
<1> QED BY <1>1, StoreKeepsGateInv, PTL DEF Spec, NobodyPassed, NobodyPassedStep

-----------------------------------------------------------------------------
(* The queues of the coordinators.                                         *)

Distinct(queue) == \A i, j \in 1 .. Len(queue) : queue[i] = queue[j] => i = j

Before(queue, a, b) == \E i, j \in 1 .. Len(queue) : i < j /\ queue[i] = a /\ queue[j] = b

\* No drain waits for these: other stops, and those whom nobody admits.
Unawaited(op) == KindOf[op] = "stop" \/ IsUnadmitted(op)

\* Nobody else is behind s, or in the queue.
LastOf(queue, s) == \A op : Before(queue, s, op) => Unawaited(op)
UnawaitedOnly(queue) == \A op \in Live(queue) : Unawaited(op)

\* What happens to a queue when op joins it, leaves it, or lets it be.
Moved(queue, then, op) ==
    /\ then \in Seq(Callers) /\ Distinct(then)
    /\ \A d : d # op => (d \in Live(then) <=> d \in Live(queue))
    /\ \A a, b : Before(then, a, b) => Before(queue, a, b) \/ (b = op /\ op \in Live(then))

\* Joining.
LEMMA AppendMoves ==
  ASSUME NEW queue \in Seq(Callers), Distinct(queue), NEW op \in Callers, op \notin Live(queue)
  PROVE  /\ Moved(queue, Append(queue, op), op)
         /\ op \in Live(Append(queue, op))
         /\ ~ \E b : Before(Append(queue, op), op, b)
  <1> DEFINE then == Append(queue, op)
             n == Len(queue)
  <1>1. /\ n \in Nat /\ Len(then) = n + 1 /\ then \in Seq(Callers)
        /\ \A i \in 1 .. n : then[i] = queue[i]
        /\ then[n + 1] = op
        /\ \A i \in 1 .. n : queue[i] # op
    BY DEF Live
  <1> HIDE DEF then
  <1>2. Distinct(then)
    <2> SUFFICES ASSUME NEW i \in 1 .. n + 1, NEW j \in 1 .. n + 1, then[i] = then[j]
                 PROVE  i = j
      BY <1>1 DEF Distinct
    <2>1. CASE i \in 1 .. n /\ j \in 1 .. n
      BY <1>1, <2>1 DEF Distinct
    <2>2. CASE i = n + 1 \/ j = n + 1
      BY <1>1, <2>2
    <2> QED
      BY <1>1, <2>1, <2>2
  <1>3. \A d : d # op => (d \in Live(then) <=> d \in Live(queue))
    <2> SUFFICES ASSUME NEW d, d # op
                 PROVE  (\E i \in 1 .. n + 1 : then[i] = d) <=> (\E i \in 1 .. n : queue[i] = d)
      BY <1>1 DEF Live
    <2>1. \A i \in 1 .. n + 1 : i \in 1 .. n \/ i = n + 1
      BY <1>1
    <2>2. \A i \in 1 .. n : i \in 1 .. n + 1
      BY <1>1
    <2> QED
      BY <1>1, <2>1, <2>2
  <1>4. ASSUME NEW a, NEW b, Before(then, a, b)
        PROVE  a # op /\ (Before(queue, a, b) \/ b = op)
    <2>1. PICK i \in 1 .. n + 1, j \in 1 .. n + 1 : i < j /\ then[i] = a /\ then[j] = b
      BY <1>1, <1>4 DEF Before
    <2>2. i \in 1 .. n /\ a = queue[i]
      BY <1>1, <2>1
    <2>3. CASE j \in 1 .. n
      BY <1>1, <2>1, <2>2, <2>3 DEF Before
    <2>4. CASE j = n + 1
      BY <1>1, <2>1, <2>2, <2>4
    <2> QED
      BY <1>1, <2>3, <2>4
  <1>5. op \in Live(then)
    <2>1. n + 1 \in 1 .. Len(then)
      BY <1>1
    <2> QED
      BY <1>1, <2>1 DEF Live
  <1> QED
    BY <1>1, <1>2, <1>3, <1>4, <1>5 DEF Moved, then

\* Leaving.
LEMMA WithoutMoves ==
  ASSUME NEW queue \in Seq(Callers), Distinct(queue), NEW op \in Live(queue)
  PROVE  /\ Moved(queue, Without(queue, op), op)
         /\ op \notin Live(Without(queue, op))
  <1> DEFINE n == Len(queue)
             k == CHOOSE i \in 1 .. Len(queue) : queue[i] = op
             then == Without(queue, op)
             from(i) == IF i < k THEN i ELSE i + 1
  <1>1. n \in Nat /\ k \in 1 .. n /\ queue[k] = op
    BY DEF Live
  <1>2. then = SubSeq(queue, 1, k - 1) \o SubSeq(queue, k + 1, n)
    BY DEF Without
  <1> HIDE DEF k, then
  <1>3. /\ then \in Seq(Callers) /\ Len(then) = n - 1
        /\ \A i \in 1 .. n - 1 : then[i] = queue[from(i)]
    <2> DEFINE u == SubSeq(queue, 1, k - 1)
               v == SubSeq(queue, k + 1, n)
    <2>1. u \in Seq(Callers) /\ Len(u) = k - 1 /\ \A i \in 1 .. k - 1 : u[i] = queue[i]
      BY <1>1
    <2>2. v \in Seq(Callers) /\ Len(v) = n - k /\ \A i \in 1 .. n - k : v[i] = queue[k + i]
      BY <1>1
    <2>6. then = u \o v
      BY <1>2
    <2> HIDE DEF u, v
    <2>3. then \in Seq(Callers) /\ Len(then) = n - 1
      BY <1>1, <2>1, <2>2, <2>6
    <2>4. ASSUME NEW i \in 1 .. n - 1, i < k
          PROVE  then[i] = queue[i]
      BY <1>1, <2>1, <2>2, <2>4, <2>6
    <2>5. ASSUME NEW i \in 1 .. n - 1, ~(i < k)
          PROVE  then[i] = queue[i + 1]
      <3>1. i - (k - 1) \in 1 .. n - k /\ i \in 1 .. Len(u) + Len(v) /\ i > Len(u)
        BY <1>1, <2>1, <2>2, <2>5
      <3>2. then[i] = v[i - Len(u)]
        BY <2>1, <2>2, <2>6, <3>1
      <3>3. k + (i - (k - 1)) = i + 1
        BY <1>1
      <3> QED
        BY <2>1, <2>2, <3>1, <3>2, <3>3
    <2> QED
      BY <2>3, <2>4, <2>5
  <1>4. /\ \A i \in 1 .. n - 1 : from(i) \in 1 .. n /\ from(i) # k
        /\ \A i, j \in 1 .. n - 1 : i < j => from(i) < from(j)
        /\ \A i, j \in 1 .. n - 1 : from(i) = from(j) => i = j
        /\ \A m \in 1 .. n : m # k => \E i \in 1 .. n - 1 : from(i) = m
    <2>1. ASSUME NEW m \in 1 .. n, m # k
          PROVE  \E i \in 1 .. n - 1 : from(i) = m
      <3>1. CASE m < k
        <4>1. m \in 1 .. n - 1 /\ from(m) = m
          BY <1>1, <3>1
        <4> QED
          BY <4>1
      <3>2. CASE m > k
        <4>1. m - 1 \in 1 .. n - 1 /\ from(m - 1) = m
          BY <1>1, <3>2
        <4> QED
          BY <4>1
      <3> QED
        BY <1>1, <2>1, <3>1, <3>2
    <2> QED
      BY <1>1, <2>1
  <1> HIDE DEF from
  <1>5. Distinct(then)
    BY <1>3, <1>4 DEF Distinct
  <1>6. \A d : d \in Live(then) <=> d \in Live(queue) /\ d # op
    <2>1. \A i \in 1 .. n : queue[i] = op <=> i = k
      BY <1>1 DEF Distinct
    <2>2. ASSUME NEW d \in Live(then)
          PROVE  d \in Live(queue) /\ d # op
      <3>1. PICK i \in 1 .. n - 1 : then[i] = d
        BY <1>3 DEF Live
      <3> QED
        BY <1>3, <1>4, <2>1, <3>1 DEF Live
    <2>3. ASSUME NEW d \in Live(queue), d # op
          PROVE  d \in Live(then)
      <3>1. PICK m \in 1 .. n : queue[m] = d /\ m # k
        BY <1>1, <2>3 DEF Live
      <3>2. PICK i \in 1 .. n - 1 : from(i) = m
        BY <1>4, <3>1
      <3> QED
        BY <1>3, <3>1, <3>2 DEF Live
    <2> QED
      BY <2>2, <2>3
  <1>7. \A a, b : Before(then, a, b) => Before(queue, a, b)
    BY <1>3, <1>4 DEF Before
  <1> QED
    BY <1>3, <1>5, <1>6, <1>7 DEF Moved, then

\* Letting it be.
LEMMA SameMoves ==
  ASSUME NEW queue \in Seq(Callers), Distinct(queue), NEW op
  PROVE  Moved(queue, queue, op)
  BY DEF Moved

\* Two in a queue stand in some order.
LEMMA SomeOrder ==
  ASSUME NEW queue \in Seq(Callers), NEW a \in Live(queue), NEW b \in Live(queue), a # b
  PROVE  Before(queue, a, b) \/ Before(queue, b, a)
  <1>1. PICK i \in 1 .. Len(queue) : queue[i] = a
    BY DEF Live
  <1>2. PICK j \in 1 .. Len(queue) : queue[j] = b
    BY DEF Live
  <1>3. Len(queue) \in Nat /\ (i < j \/ j < i)
    BY <1>1, <1>2
  <1> QED
    BY <1>1, <1>2, <1>3 DEF Before

\* Who is granted has nobody before it that conflicts.
LEMMA GrantedFirst ==
  ASSUME NEW queue, Distinct(queue), NEW op, NEW conflicts, Granted(queue, op, conflicts)
  PROVE  op \in Live(queue) /\ \A a : Before(queue, a, op) => <<a, op>> \notin conflicts
  <1>1. PICK i \in 1 .. Len(queue) :
           queue[i] = op /\ \A j \in 1 .. i - 1 : <<queue[j], op>> \notin conflicts
    BY DEF Granted
  <1>2. ASSUME NEW a, Before(queue, a, op)
        PROVE  <<a, op>> \notin conflicts
    <2>1. PICK j \in 1 .. Len(queue), k \in 1 .. Len(queue) :
             j < k /\ queue[j] = a /\ queue[k] = op
      BY <1>2 DEF Before
    <2>2. k = i
      BY <1>1, <2>1 DEF Distinct
    <2>3. j \in 1 .. i - 1
      BY <2>1, <2>2
    <2> QED
      BY <1>1, <2>1, <2>3
  <1> QED
    BY <1>1, <1>2 DEF Live

\* A queue without duplicates is as long as it has members.
LEMMA DistinctLength ==
  ASSUME NEW queue \in Seq(Callers), Distinct(queue)
  PROVE  Len(queue) = Cardinality(Live(queue))
  <1>1. queue \in Bijection(1 .. Len(queue), Live(queue))
    BY DEF Distinct, Live, Bijection, Injection, Surjection, IsInjective
  <1>2. ExistsBijection(1 .. Len(queue), Live(queue)) /\ Len(queue) \in Nat
    BY <1>1 DEF ExistsBijection
  <1> QED
    BY <1>2, FS_CountingElements

-----------------------------------------------------------------------------
(* The claims.                                                             *)

\* A stop conflicts with everybody in either coordinator, and a lease with a
\* lease.
LEMMA StopsConflict ==
  ASSUME NEW op \in Callers, NEW s \in Callers
  PROVE  /\ KindOf[s] \in {"stop", "lease"} => <<op, s>> \in MainConflicts
         /\ KindOf[s] = "stop" => <<op, s>> \in TrashConflicts
  <1> DEFINE e == EmptyClaim
             m == MainClaim(s)
             t == TrashClaim(s)
             u == TrashClaim(op)
             note == TrashRoot \o NoteOf[op]
  <1>1. /\ e = [global |-> e.global, resources |-> e.resources, noteIds |-> e.noteIds,
                paths |-> e.paths, prefixes |-> e.prefixes]
        /\ GlobalClaim = [e EXCEPT !.global = TRUE]
        /\ \A path : PathClaim(path) = [e EXCEPT !.paths = {path}]
        /\ \A path : PrefixClaim(path) = [e EXCEPT !.prefixes = {path}]
    BY DEF EmptyClaim, GlobalClaim, PathClaim, PrefixClaim
  <1> HIDE DEF e
  <1>2. GlobalClaim.global
    BY <1>1
  <1>3. \A path : PathClaim(path).paths = {path}
    BY <1>1
  <1>4. \A path : PrefixClaim(path).prefixes = {path}
    BY <1>1
  <1>5. ASSUME KindOf[s] \in {"stop", "lease"}
        PROVE  ClaimsConflict(MainClaim(op), m)
    <2>1. m = GlobalClaim
      BY <1>5 DEF MainClaim
    <2> HIDE DEF m
    <2> QED
      BY <1>2, <2>1 DEF ClaimsConflict
  <1>6. ASSUME KindOf[s] = "stop"
        PROVE  ClaimsConflict(u, t)
    <2>1. TrashRoot \in Seq(Segments) /\ NoteOf[op] \in Seq(Segments)
      BY PathsAssumption, StoreLocksAssumption
    <2>2. IsUnder(note, TrashRoot) /\ IsUnder(TrashRoot, TrashRoot)
      BY <2>1 DEF IsUnder
    <2>3. t.prefixes = {TrashRoot}
      BY <1>4, <1>6 DEF TrashClaim
    <2>4. u.prefixes = {TrashRoot} \/ u.paths = {note}
      BY <1>3, <1>4 DEF TrashClaim
    <2> HIDE DEF t, u, note
    <2> QED
      BY <2>2, <2>3, <2>4 DEF ClaimsConflict, ReachesInto
  <1> QED
    BY <1>5, <1>6 DEF MainConflicts, TrashConflicts

\* Conflict is mutual.
LEMMA MainSymmetric ==
  ASSUME NEW a, NEW b, <<a, b>> \in MainConflicts
  PROVE  <<b, a>> \in MainConflicts
  BY DEF MainConflicts, ClaimsConflict

-----------------------------------------------------------------------------
(* What a step does to the gate.                                           *)

InGate == holders \cup Queued

\* Nobody but the caller of a method comes to the gate or goes; some may be
\* let in.
GateKept(d) ==
    /\ d \in InGate' <=> d \in InGate
    /\ d \in holders => d \in holders'
    /\ d \in Queued' => d \in Queued

\* The waiters of settle are told only when the gate is empty.
NotTold == idleWaiters \subseteq idleWaiters' \/ InGate' = {}

\* acquire.
LEMMA AcquireMoves ==
  ASSUME GateInv, NEW c \in Callers, Acquire(c)
  PROVE  /\ c \in InGate' /\ c \notin InGate /\ NotTold
         /\ \A d : d # c => GateKept(d)
  <1>1. CASE waiting' = waiting /\ holders' = holders \cup {c}
    <2>1. Queued' = Queued
      BY <1>1 DEF Queued
    <2> QED
      BY <1>1, <2>1 DEF Acquire, InGate, GateKept, NotTold
  <1>2. CASE waiting' = Append(waiting, c) /\ holders' = holders
    <2>1. Queued' = Queued \cup {c}
      <3>1. /\ Len(waiting') = Len(waiting) + 1 /\ Len(waiting) \in Nat
            /\ \A i \in 1 .. Len(waiting) : waiting'[i] = waiting[i]
            /\ waiting'[Len(waiting) + 1] = c
        BY <1>2 DEF GateInv, GateTypeOK
      <3>2. \A i \in 1 .. Len(waiting') : i \in 1 .. Len(waiting) \/ i = Len(waiting) + 1
        BY <3>1
      <3>3. \A i \in 1 .. Len(waiting) : i \in 1 .. Len(waiting')
        BY <3>1
      <3>4. Len(waiting) + 1 \in 1 .. Len(waiting')
        BY <3>1
      <3> QED
        BY <3>1, <3>2, <3>3, <3>4 DEF Queued
    <2> QED
      BY <1>2, <2>1 DEF Acquire, InGate, GateKept, NotTold
  <1> QED
    BY <1>1, <1>2 DEF Acquire

\* The release function.
LEMMA ReleaseMoves ==
  ASSUME GateInv, NEW c \in Callers, Release(c)
  PROVE  /\ c \notin InGate' /\ NotTold
         /\ \A d : d # c => GateKept(d)
  <1>1. c \in holders /\ c \notin Queued
    BY DEF Release, GateInv, PlaceInv, Queued
  <1>2. CASE holders' = holders \ {c} /\ UNCHANGED <<waiting, idleWaiters>>
    <2>1. Queued' = Queued
      BY <1>2 DEF Queued
    <2> QED
      BY <1>1, <1>2, <2>1 DEF InGate, GateKept, NotTold
  <1>3. CASE holders = {c} /\ waiting = << >> /\ holders' = {} /\ UNCHANGED waiting
    <2>1. Queued = {} /\ Queued' = {}
      BY <1>3 DEF Queued
    <2> QED
      BY <1>3, <2>1 DEF InGate, GateKept, NotTold
  <1>4. ASSUME holders = {c}, NEW n \in 1 .. Len(waiting), Cohort(n),
               holders' = { waiting[i] : i \in 1 .. n },
               waiting' = SubSeq(waiting, n + 1, Len(waiting)),
               UNCHANGED idleWaiters
        PROVE  /\ c \notin InGate' /\ NotTold
               /\ \A d : d # c => GateKept(d)
    <2>1. /\ Len(waiting') = Len(waiting) - n
          /\ \A i \in 1 .. Len(waiting') : waiting'[i] = waiting[n + i]
          /\ Len(waiting) \in Nat /\ n \in Nat
      BY <1>4, CohortSplit DEF GateInv, GateTypeOK
    <2>2. Queued' \subseteq Queued
      <3>1. \A i \in 1 .. Len(waiting') : n + i \in 1 .. Len(waiting)
        BY <2>1
      <3> QED
        BY <2>1, <3>1 DEF Queued
    <2>3. holders' \subseteq Queued
      <3>1. \A i \in 1 .. n : i \in 1 .. Len(waiting)
        BY <2>1
      <3> QED
        BY <1>4, <3>1 DEF Queued
    <2>4. ASSUME NEW d \in Queued
          PROVE  d \in holders' \cup Queued'
      <3>1. PICK i \in 1 .. Len(waiting) : waiting[i] = d
        BY <2>4 DEF Queued
      <3>2. CASE i \in 1 .. n
        BY <1>4, <3>1, <3>2
      <3>3. CASE i \notin 1 .. n
        <4>1. i - n \in 1 .. Len(waiting') /\ n + (i - n) = i
          BY <2>1, <3>3
        <4>2. waiting'[i - n] = d
          BY <2>1, <3>1, <4>1
        <4> QED
          BY <4>1, <4>2 DEF Queued
      <3> QED
        BY <3>2, <3>3
    <2> QED
      BY <1>1, <1>4, <2>2, <2>3, <2>4 DEF InGate, GateKept, NotTold
  <1> QED
    BY <1>2, <1>3, <1>4 DEF Release, Drain

\* A step that leaves the gate alone.
LEMMA GateSame == UNCHANGED gateVars => NotTold /\ InGate' = InGate /\ \A d : GateKept(d)
  BY DEF gateVars, NotTold, GateKept, InGate, Queued

-----------------------------------------------------------------------------
(* The invariant of the store.                                             *)

InStorage == {"trash", "main", "work", "leave"}

\* These hold their admission until they are through, or stop() takes it away.
KeepsAdmission == {"restore", "lease", "read", "fetch"}

\* Where an operation stands, and what it holds there.
Standing(op) ==
    /\ op \in Live(main) <=> at[op] = "main" \/ (at[op] = "work" /\ op \notin revoked)
    /\ op \in revoked => KindOf[op] = "lease" /\ at[op] = "work" /\ op \notin InGate
    /\ op \in Live(trash) => at[op] \in InStorage /\ TakesTrash(op)
    /\ at[op] = "trash" \/ (at[op] \in {"main", "work"} /\ TakesTrash(op)) => op \in Live(trash)
    /\ at[op] = "gate" => op \in InGate
    /\ op \in Queued => at[op] = "gate"
    /\ op \in InGate => /\ at[op] \in {"gate"} \cup InStorage
                        /\ KindOf[op] \notin {"journal", "stop", "surface", "preview"}
    /\ at[op] \in InStorage /\ KindOf[op] \in KeepsAdmission /\ op \notin revoked
          => op \in holders
    /\ at[op] \in {"settling", "idling", "externals", "stopped"} => KindOf[op] = "stop"

\* Who works was granted the storage, so that no two leases are out.
Exclusive ==
    \A a, b : Before(main, a, b) /\ at[b] = "work" => <<a, b>> \notin MainConflicts

StoreTypes ==
    /\ trash \in Seq(Callers) /\ main \in Seq(Callers)
    /\ at \in [Callers -> Places]
    /\ task \in [Callers -> {"body", "scan", "graph"}]
    /\ scan \in {"cold", "ready", "error"} /\ inventory \in BOOLEAN
    /\ barrier \in {"shut", "open"} /\ stopped \in BOOLEAN
    /\ revoked \subseteq OfKind("lease")
    /\ \A op \in Callers : task[op] # "body" => KindOf[op] = "poll"

\* A stop past the storage queue, past the trash queue, past the gate.
PastMain(s) == at[s] \in {"work", "leave", "externals", "stopped"}
PastTrash(s) == at[s] = "main" \/ PastMain(s)
PastGate(s) == at[s] = "trash" \/ PastTrash(s) \/ (at[s] = "idling" /\ s \notin idleWaiters)

\* What a stop leaves behind it: open barriers, then no poll and nothing that
\* a poll could start, then nobody inside the gate but callers it refuses,
\* then nobody in the trash queue, then nobody in the storage queue, but
\* callers no drain waits for.
Stopping(s) ==
    /\ at[s] # "idle" => stopped /\ barrier = "open"
    /\ at[s] \notin {"idle", "settling"} => \A p \in OfKind("poll") : at[p] = "idle"
    /\ PastGate(s) => \A op \in InGate : at[op] = "gate" /\ KindOf[op] # "fetch"
    /\ at[s] = "trash" => LastOf(trash, s)
    /\ PastTrash(s) => UnawaitedOnly(trash)
    /\ at[s] = "main" => LastOf(main, s)
    /\ PastMain(s) => UnawaitedOnly(main)

StoreInv ==
    /\ GateInv
    /\ StoreTypes
    /\ Distinct(trash) /\ Distinct(main)
    /\ Exclusive
    /\ \A op \in Callers : Standing(op)
    /\ \A s \in OfKind("stop") : Stopping(s)

\* At the start the boot scan is queued.
LEMMA StoreInvInit == Init => StoreInv
  <1> SUFFICES ASSUME Init
               PROVE  StoreInv
    OBVIOUS
  <1>1. PICK boot \in OfKind("poll") :
           /\ main = <<boot>>
           /\ at = [op \in Callers |-> IF op = boot THEN "main" ELSE "idle"]
           /\ task = [op \in Callers |-> IF op = boot THEN "scan" ELSE "body"]
    BY DEF Init
  <1>2. /\ trash = << >> /\ holders = {} /\ waiting = << >> /\ idleWaiters = {}
        /\ scan = "cold" /\ inventory = FALSE /\ barrier = "shut" /\ stopped = FALSE
        /\ revoked = {} /\ GateInv
    BY GateInitInv DEF Init, GateInit
  <1>3. /\ boot \in Callers /\ KindOf[boot] = "poll"
        /\ Live(main) = {boot} /\ Live(trash) = {} /\ InGate = {} /\ Queued = {}
    BY <1>1, <1>2 DEF OfKind, Live, InGate, Queued
  <1>4. StoreTypes
    <2>1. at \in [Callers -> Places] /\ task \in [Callers -> {"body", "scan", "graph"}]
      BY <1>1 DEF Places
    <2>2. trash \in Seq(Callers) /\ main \in Seq(Callers)
      BY <1>1, <1>2, <1>3
    <2>3. \A op \in Callers : task[op] # "body" => KindOf[op] = "poll"
      BY <1>1, <1>3
    <2> QED
      BY <1>2, <2>1, <2>2, <2>3 DEF StoreTypes
  <1>5. Distinct(trash) /\ Distinct(main) /\ \A a, b : ~Before(main, a, b)
    BY <1>1, <1>2 DEF Distinct, Before
  <1>6. \A op \in Callers : Standing(op)
    BY <1>1, <1>2, <1>3 DEF Standing, InStorage, TakesTrash, KeepsAdmission
  <1>7. \A s \in OfKind("stop") : Stopping(s)
    BY <1>1, <1>2, <1>3 DEF Stopping, OfKind, PastGate, PastTrash, PastMain
  <1> QED
    BY <1>2, <1>4, <1>5, <1>6, <1>7 DEF StoreInv, Exclusive

-----------------------------------------------------------------------------
(* A step of one operation, other than the call of stop.                   *)

\* A queue that op does not join, unless no drain waits for op.
NotJoined(queue, then, op) == then = queue \/ op \notin Live(then) \/ Unawaited(op)

\* What a step of op does to the others and to the queues.
Moves(op) ==
    /\ at' \in [Callers -> Places]
    /\ NotTold
    /\ \A d \in Callers \ {op} :
          at'[d] = at[d] /\ GateKept(d) /\ (d \in revoked' <=> d \in revoked)
    /\ Moved(trash, trash', op) /\ Moved(main, main', op)
    /\ at'[op] = "work" => main' = main /\ Granted(main, op, MainConflicts)
    /\ Standing(op)'
    /\ stopped' = stopped
    /\ stopped /\ barrier = "open" => barrier' = "open"

\* What it may not do once a stop has got as far as s.
Yields(op, s) ==
    /\ stopped /\ at[s] \notin {"idle", "settling"} /\ KindOf[op] = "poll" => at'[op] = "idle"
    /\ PastGate(s) => (op \in InGate' => at'[op] = "gate" /\ KindOf[op] # "fetch")
    /\ PastGate(s) => NotJoined(trash, trash', op)
    /\ PastTrash(s) => NotJoined(main, main', op)

LEMMA NotJoinedKeeps ==
  ASSUME NEW queue, NEW then, NEW op, Moved(queue, then, op), NotJoined(queue, then, op)
  PROVE  /\ \A s : LastOf(queue, s) => LastOf(then, s)
         /\ UnawaitedOnly(queue) => UnawaitedOnly(then)
  <1>1. \A a, b : Before(then, a, b) => b \in Live(then)
    BY DEF Before, Live
  <1> QED
    BY <1>1 DEF Moved, NotJoined, LastOf, UnawaitedOnly

\* The others stand where they stood.
LEMMA OthersStanding ==
  ASSUME StoreInv, NEW op \in Callers, Moves(op), NEW d \in Callers, d # op
  PROVE  Standing(d)'
  <1>1. Standing(d) /\ at'[d] = at[d] /\ GateKept(d) /\ (d \in revoked' <=> d \in revoked)
    BY DEF StoreInv, Moves
  <1>2. (d \in Live(main)' <=> d \in Live(main)) /\ (d \in Live(trash)' <=> d \in Live(trash))
    <2>1. (d \in Live(main') <=> d \in Live(main)) /\ (d \in Live(trash') <=> d \in Live(trash))
      BY DEF Moves, Moved
    <2> QED
      BY <2>1 DEF Live
  <1> QED
    BY <1>1, <1>2 DEF Standing, GateKept, TakesTrash

\* A stop keeps ahead of the others.
LEMMA OthersYield ==
  ASSUME StoreInv, InGate' \subseteq Callers, NEW op \in Callers, Moves(op),
         NEW s \in OfKind("stop"), s # op, Yields(op, s)
  PROVE  Stopping(s)'
  <1>1. s \in Callers /\ at'[s] = at[s] /\ Stopping(s) /\ OfKind("poll") \subseteq Callers
    BY DEF StoreInv, Moves, OfKind
  <1>2. at[s] # "idle" => stopped' /\ barrier' = "open"
    BY <1>1 DEF Stopping, Moves
  <1>3. at[s] \notin {"idle", "settling"} => \A p \in OfKind("poll") : at'[p] = "idle"
    BY <1>1 DEF Stopping, Moves, Yields, OfKind
  <1>4. PastGate(s)' => \A d \in InGate' : at'[d] = "gate" /\ KindOf[d] # "fetch"
    <2>1. CASE InGate' = {}
      BY <2>1
    <2>2. CASE idleWaiters \subseteq idleWaiters'
      <3>1. PastGate(s)' => PastGate(s)
        BY <1>1, <2>2 DEF PastGate, PastTrash, PastMain
      <3>2. ASSUME PastGate(s), NEW d \in InGate', d # op
            PROVE  at'[d] = "gate" /\ KindOf[d] # "fetch"
        <4>1. d \in Callers
          BY <3>2
        <4>2. d \in InGate /\ at'[d] = at[d]
          BY <3>2, <4>1 DEF Moves, GateKept
        <4> QED
          BY <1>1, <3>2, <4>2 DEF Stopping
      <3> QED
        BY <3>1, <3>2 DEF Yields
    <2> QED
      BY <2>1, <2>2 DEF Moves, NotTold
  <1>5. /\ at[s] = "trash" => LastOf(trash', s)
        /\ PastTrash(s) => UnawaitedOnly(trash')
    <2>1. Moved(trash, trash', op)
      BY DEF Moves
    <2>2. PastGate(s) => NotJoined(trash, trash', op)
      BY DEF Yields
    <2> QED
      BY <1>1, <2>1, <2>2, NotJoinedKeeps DEF Stopping, PastGate
  <1>6. /\ at[s] = "main" => LastOf(main', s)
        /\ PastMain(s) => UnawaitedOnly(main')
    <2>1. Moved(main, main', op)
      BY DEF Moves
    <2>2. PastTrash(s) => NotJoined(main, main', op)
      BY DEF Yields
    <2> QED
      BY <1>1, <2>1, <2>2, NotJoinedKeeps DEF Stopping, PastTrash
  <1>7. /\ PastTrash(s)' <=> PastTrash(s)
        /\ PastMain(s)' <=> PastMain(s)
    BY <1>1 DEF PastTrash, PastMain
  <1>8. /\ LastOf(trash, s)' <=> LastOf(trash', s)
        /\ LastOf(main, s)' <=> LastOf(main', s)
        /\ UnawaitedOnly(trash)' <=> UnawaitedOnly(trash')
        /\ UnawaitedOnly(main)' <=> UnawaitedOnly(main')
    BY DEF LastOf, UnawaitedOnly, Before, Live
  <1> QED
    BY <1>1, <1>2, <1>3, <1>4, <1>5, <1>6, <1>7, <1>8 DEF Stopping

\* Together: the invariant after a step of op.
LEMMA MovesKeep ==
  ASSUME StoreInv, GateInv', StoreTypes', NEW op \in Callers, Moves(op),
         KindOf[op] = "stop" => Stopping(op)',
         \A s \in OfKind("stop") \ {op} : Yields(op, s)
  PROVE  StoreInv'
  <1>1. Distinct(trash)' /\ Distinct(main)'
    BY DEF Moves, Moved, Distinct
  <1>2. Exclusive'
    <2> SUFFICES ASSUME NEW a, NEW b, Before(main', a, b), at'[b] = "work"
                 PROVE  <<a, b>> \notin MainConflicts
      BY DEF Exclusive, Before
    <2>1. CASE b = op
      BY <2>1, GrantedFirst DEF Moves, StoreInv
    <2>2. CASE b # op
      <3>1. Before(main, a, b)
        BY <2>2 DEF Moves, Moved
      <3>2. b \in Callers
        <4>1. main' \in Seq(Callers)
          BY DEF Moves, Moved
        <4> QED
          BY <4>1 DEF Before
      <3>3. at[b] = "work"
        BY <2>2, <3>2 DEF Moves
      <3> QED
        BY <3>1, <3>3 DEF StoreInv, Exclusive
    <2> QED
      BY <2>1, <2>2
  <1>3. \A d \in Callers : Standing(d)'
    BY OthersStanding DEF Moves
  <1>4. \A s \in OfKind("stop") : Stopping(s)'
    <2>1. InGate' \subseteq Callers
      BY DEF GateInv, GateTypeOK, InGate, Queued
    <2> QED
      BY <2>1, OthersYield DEF OfKind
  <1> QED
    BY <1>1, <1>2, <1>3, <1>4 DEF StoreInv

-----------------------------------------------------------------------------
(* The steps, one operation at a time.                                     *)

\* What has to be shown of a step of op.
Keeps(op) ==
    /\ StoreTypes' /\ Moves(op)
    /\ KindOf[op] = "stop" => Stopping(op)'
    /\ \A s \in OfKind("stop") \ {op} : Yields(op, s)

\* The step of op leaves that queue alone, or op joins or leaves it.
LEMMA QueueSteps ==
  ASSUME StoreInv, NEW op \in Callers
  PROVE  /\ trash' = trash => Moved(trash, trash', op)
         /\ main' = main => Moved(main, main', op)
         /\ op \notin Live(trash) /\ trash' = Append(trash, op)
               => /\ trash' \in Seq(Callers) /\ Moved(trash, trash', op) /\ op \in Live(trash')
                  /\ ~ \E b : Before(trash', op, b)
         /\ op \notin Live(main) /\ main' = Append(main, op)
               => /\ main' \in Seq(Callers) /\ Moved(main, main', op) /\ op \in Live(main')
                  /\ ~ \E b : Before(main', op, b)
         /\ op \in Live(trash) /\ trash' = Without(trash, op)
               => trash' \in Seq(Callers) /\ Moved(trash, trash', op) /\ op \notin Live(trash')
         /\ op \in Live(main) /\ main' = Without(main, op)
               => main' \in Seq(Callers) /\ Moved(main, main', op) /\ op \notin Live(main')
  <1>1. trash \in Seq(Callers) /\ main \in Seq(Callers) /\ Distinct(trash) /\ Distinct(main)
    BY DEF StoreInv, StoreTypes
  <1>2. \A queue : Moved(queue, trash', op) => trash' \in Seq(Callers)
    BY DEF Moved
  <1>3. \A queue : Moved(queue, main', op) => main' \in Seq(Callers)
    BY DEF Moved
  <1> QED
    BY <1>1, <1>2, <1>3, SameMoves, AppendMoves, WithoutMoves

\* A stop that got somewhere has stopped the store.
LEMMA StopOpens ==
  ASSUME StoreInv, NEW s \in OfKind("stop")
  PROVE  /\ at[s] # "idle" => stopped /\ barrier = "open"
         /\ at[s] \notin {"idle", "settling"} => \A p \in OfKind("poll") : at[p] = "idle"
         /\ PastGate(s) => at[s] \notin {"idle", "settling"}
         /\ PastGate(s) => \A op \in InGate : at[op] = "gate" /\ KindOf[op] # "fetch"
  BY DEF StoreInv, Stopping, PastGate, PastTrash, PastMain

\* Public calls.
LEMMA CallGatedStep ==
  ASSUME StoreInv, NEW op \in Callers, CallGated(op)
  PROVE  Keeps(op)
  <1>1. /\ at[op] = "idle" /\ Acquire(op) /\ at' = [at EXCEPT ![op] = "gate"]
        /\ KindOf[op] \in {"write", "remove", "restore", "lease", "read"}
        /\ UNCHANGED <<trash, main, task, scan, inventory, barrier, stopped, revoked>>
    BY DEF CallGated, IsMutation, GoTo
  <1>2. op \in InGate' /\ op \notin InGate /\ NotTold /\ \A d : d # op => GateKept(d)
    BY <1>1, AcquireMoves DEF StoreInv
  <1>3. StoreTypes'
    BY <1>1 DEF StoreInv, StoreTypes, Places
  <1>4. Standing(op)'
    <2>1. op \notin Live(main) /\ op \notin Live(trash)
      BY <1>1 DEF StoreInv, Standing, InStorage
    <2> QED
      BY <1>1, <1>2, <2>1 DEF Standing, InStorage, StoreInv, StoreTypes
  <1>5. Moves(op)
    BY <1>1, <1>2, <1>3, <1>4, QueueSteps DEF Moves, StoreInv, StoreTypes
  <1>6. \A s : Yields(op, s)
    BY <1>1 DEF Yields, NotJoined, StoreInv, StoreTypes
  <1> QED
    BY <1>1, <1>3, <1>5, <1>6 DEF Keeps

\* The callers whom nobody admits.
LEMMA CallUnadmittedStep ==
  ASSUME StoreInv, NEW op \in Callers, CallUnadmitted(op)
  PROVE  Keeps(op)
  <1>1. /\ at[op] = "idle" /\ KindOf[op] \in {"surface", "preview"}
        /\ main' = Append(main, op) /\ at' = [at EXCEPT ![op] = "main"]
        /\ UNCHANGED <<gateVars, trash, task, scan, inventory, barrier, stopped, revoked>>
    BY DEF CallUnadmitted, IsUnadmitted, GoTo
  <1>2. op \notin Live(main) /\ op \notin Live(trash) /\ op \notin InGate
    BY <1>1 DEF StoreInv, Standing, InStorage
  <1>3. main' \in Seq(Callers) /\ Moved(main, main', op) /\ op \in Live(main')
    BY <1>1, <1>2, QueueSteps
  <1>4. NotTold /\ InGate' = InGate /\ \A d : GateKept(d)
    BY <1>1, GateSame
  <1>5. StoreTypes'
    BY <1>1, <1>3 DEF StoreInv, StoreTypes, Places
  <1>6. Standing(op)'
    <2>1. Live(trash)' = Live(trash) /\ op \in Live(main)'
      BY <1>1, <1>3 DEF Live
    <2> QED
      BY <1>1, <1>2, <1>4, <2>1
      DEF Standing, InStorage, StoreInv, StoreTypes, TakesTrash, KeepsAdmission, InGate
  <1>7. Moves(op)
    BY <1>1, <1>3, <1>4, <1>5, <1>6, QueueSteps DEF Moves, StoreInv, StoreTypes
  <1>8. \A s : Yields(op, s)
    BY <1>1, <1>2, <1>4 DEF Yields, NotJoined, Unawaited, IsUnadmitted
  <1> QED
    BY <1>1, <1>5, <1>7, <1>8 DEF Keeps

\* The calls of the timer.
LEMMA PollStep ==
  ASSUME StoreInv, NEW op \in Callers, KindOf[op] = "poll", Poll(op)
  PROVE  Keeps(op)
  <1>1. /\ at[op] = "idle" /\ ~stopped
        /\ UNCHANGED <<trash, scan, inventory, stopped, revoked>>
        /\ barrier' \in {barrier, "shut"}
        /\ \E work \in {"body", "scan", "graph"} : PollTakes(op, work)
    BY DEF Poll
  <1>2. op \notin Live(main) /\ op \notin Live(trash) /\ op \notin InGate
    BY <1>1 DEF StoreInv, Standing, InStorage
  <1>3. \A s \in OfKind("stop") : Yields(op, s)
    BY <1>1, StopOpens DEF Yields, PastTrash, PastGate
  <1>4. /\ task' \in [Callers -> {"body", "scan", "graph"}]
        /\ \A d \in Callers : task'[d] # "body" => KindOf[d] = "poll"
    BY <1>1 DEF PollTakes, StoreInv, StoreTypes
  <1>5. CASE Acquire(op) /\ at' = [at EXCEPT ![op] = "gate"] /\ UNCHANGED main
    <2>1. op \in InGate' /\ op \notin InGate /\ NotTold /\ \A d : d # op => GateKept(d)
      BY <1>5, AcquireMoves DEF StoreInv
    <2>2. StoreTypes'
      BY <1>1, <1>4, <1>5 DEF StoreInv, StoreTypes, Places
    <2>3. Standing(op)'
      BY <1>1, <1>2, <1>5, <2>1 DEF Standing, InStorage, StoreInv, StoreTypes
    <2>4. Moves(op)
      BY <1>1, <1>5, <2>1, <2>2, <2>3, QueueSteps DEF Moves, StoreInv, StoreTypes
    <2> QED
      BY <1>3, <2>2, <2>4 DEF Keeps
  <1>6. CASE main' = Append(main, op) /\ at' = [at EXCEPT ![op] = "main"] /\ UNCHANGED gateVars
    <2>1. main' \in Seq(Callers) /\ Moved(main, main', op) /\ op \in Live(main')
      BY <1>2, <1>6, QueueSteps
    <2>2. StoreTypes'
      BY <1>1, <1>4, <1>6, <2>1 DEF StoreInv, StoreTypes, Places
    <2>3. NotTold /\ InGate' = InGate /\ \A d : GateKept(d)
      BY <1>6, GateSame
    <2>4. Standing(op)'
      BY <1>1, <1>2, <1>6, <2>1, <2>3
      DEF Standing, InStorage, StoreInv, StoreTypes, TakesTrash, KeepsAdmission, InGate
    <2>5. Moves(op)
      BY <1>1, <1>6, <2>1, <2>2, <2>3, <2>4, QueueSteps DEF Moves, StoreInv, StoreTypes
    <2> QED
      BY <1>3, <2>2, <2>5 DEF Keeps
  <1> QED
    BY <1>1, <1>5, <1>6 DEF PollTakes, GoTo

\* The tasks that a reconcile leaves behind.
LEMMA CallExternalStep ==
  ASSUME StoreInv, NEW op \in Callers, KindOf[op] \in {"fetch", "journal"}, CallExternal(op)
  PROVE  Keeps(op)
  <1>1. /\ at[op] = "idle"
        /\ \E p \in OfKind("poll") : at[p] = "work"
        /\ UNCHANGED <<main, task, scan, inventory, barrier, stopped, revoked>>
    BY DEF CallExternal
  <1>2. op \notin Live(main) /\ op \notin Live(trash) /\ op \notin InGate
    BY <1>1 DEF StoreInv, Standing, InStorage
  <1>3. \A s \in OfKind("stop") : Yields(op, s)
    BY <1>1, StopOpens DEF Yields, PastTrash, PastGate
  <1>4. CASE /\ KindOf[op] = "fetch" /\ Acquire(op)
             /\ at' = [at EXCEPT ![op] = "gate"] /\ UNCHANGED trash
    <2>1. op \in InGate' /\ op \notin InGate /\ NotTold /\ \A d : d # op => GateKept(d)
      BY <1>4, AcquireMoves DEF StoreInv
    <2>2. StoreTypes'
      BY <1>1, <1>4 DEF StoreInv, StoreTypes, Places
    <2>3. Standing(op)'
      BY <1>1, <1>2, <1>4, <2>1 DEF Standing, InStorage, StoreInv, StoreTypes
    <2>4. Moves(op)
      BY <1>1, <1>4, <2>1, <2>2, <2>3, QueueSteps DEF Moves, StoreInv, StoreTypes
    <2> QED
      BY <1>3, <1>4, <2>2, <2>4 DEF Keeps
  <1>5. CASE /\ KindOf[op] = "journal" /\ trash' = Append(trash, op)
             /\ at' = [at EXCEPT ![op] = "trash"] /\ UNCHANGED gateVars
    <2>1. trash' \in Seq(Callers) /\ Moved(trash, trash', op) /\ op \in Live(trash')
      BY <1>2, <1>5, QueueSteps
    <2>2. StoreTypes'
      BY <1>1, <1>5, <2>1 DEF StoreInv, StoreTypes, Places
    <2>3. NotTold /\ InGate' = InGate /\ \A d : GateKept(d)
      BY <1>5, GateSame
    <2>4. Standing(op)'
      BY <1>1, <1>2, <1>5, <2>1, <2>3
      DEF Standing, InStorage, StoreInv, StoreTypes, TakesTrash, KeepsAdmission, InGate
    <2>5. Moves(op)
      BY <1>1, <1>5, <2>1, <2>2, <2>3, <2>4, QueueSteps DEF Moves, StoreInv, StoreTypes
    <2> QED
      BY <1>3, <1>5, <2>2, <2>5 DEF Keeps
  <1> QED
    BY <1>4, <1>5 DEF CallExternal, GoTo


\* ensureMutationReady and the first claim.
LEMMA EnterMutationStep ==
  ASSUME StoreInv, NEW op \in Callers, EnterMutation(op)
  PROVE  Keeps(op)
  <1>1. /\ at[op] = "gate" /\ op \in holders
        /\ KindOf[op] \in {"write", "remove", "restore", "lease"}
        /\ UNCHANGED <<task, scan, inventory, barrier, stopped, revoked>>
    BY DEF EnterMutation, IsMutation
  <1>2. op \notin Live(main) /\ op \notin Live(trash) /\ op \in InGate /\ op \notin Queued
    BY <1>1 DEF StoreInv, Standing, InStorage, InGate, GateInv, PlaceInv, Queued
  <1>3. CASE Refuse(op)
    <2>1. /\ at' = [at EXCEPT ![op] = "idle"] /\ UNCHANGED <<trash, main>> /\ Release(op)
      BY <1>3 DEF Refuse, GoTo
    <2>2. op \notin InGate' /\ NotTold /\ \A d : d # op => GateKept(d)
      BY <2>1, ReleaseMoves DEF StoreInv
    <2>3. StoreTypes'
      BY <1>1, <2>1 DEF StoreInv, StoreTypes, Places
    <2>4. Standing(op)'
      BY <1>1, <1>2, <2>1, <2>2 DEF Standing, InStorage, StoreInv, StoreTypes, InGate
    <2>5. Moves(op)
      BY <1>1, <2>1, <2>2, <2>3, <2>4, QueueSteps DEF Moves, StoreInv, StoreTypes
    <2>6. \A s : Yields(op, s)
      BY <1>1, <2>1, <2>2 DEF Yields, NotJoined, StoreInv, StoreTypes
    <2> QED
      BY <1>1, <2>3, <2>5, <2>6 DEF Keeps
  <1>4. CASE ~stopped /\ QueueFirst(op) /\ IF HandsOn(op) THEN Release(op) ELSE UNCHANGED gateVars
    <2>1. \A s \in OfKind("stop") : Yields(op, s)
      BY <1>4, StopOpens DEF Yields, PastTrash, PastGate
    <2>2. /\ NotTold /\ \A d : d # op => GateKept(d)
          /\ KindOf[op] \in KeepsAdmission => op \in holders'
          /\ op \notin Queued'
      <3>1. CASE HandsOn(op)
        BY <1>4, <3>1, ReleaseMoves DEF StoreInv, HandsOn, KeepsAdmission, InGate
      <3>2. CASE ~HandsOn(op)
        BY <1>1, <1>2, <1>4, <3>2, GateSame DEF GateKept, gateVars
      <3> QED
        BY <3>1, <3>2
    <2>3. CASE /\ TakesTrash(op) /\ trash' = Append(trash, op)
               /\ at' = [at EXCEPT ![op] = "trash"] /\ UNCHANGED main
      <3>1. trash' \in Seq(Callers) /\ Moved(trash, trash', op) /\ op \in Live(trash')
        BY <1>2, <2>3, QueueSteps
      <3>2. StoreTypes'
        BY <1>1, <2>3, <3>1 DEF StoreInv, StoreTypes, Places
      <3>3. Standing(op)'
        BY <1>1, <1>2, <2>2, <2>3, <3>1 DEF Standing, InStorage, StoreInv, StoreTypes, TakesTrash
      <3>4. Moves(op)
        BY <1>1, <2>2, <2>3, <3>1, <3>2, <3>3, QueueSteps DEF Moves, StoreInv, StoreTypes
      <3> QED
        BY <1>1, <2>1, <3>2, <3>4 DEF Keeps
    <2>4. CASE /\ ~TakesTrash(op) /\ main' = Append(main, op)
               /\ at' = [at EXCEPT ![op] = "main"] /\ UNCHANGED trash
      <3>1. main' \in Seq(Callers) /\ Moved(main, main', op) /\ op \in Live(main')
        BY <1>2, <2>4, QueueSteps
      <3>2. StoreTypes'
        BY <1>1, <2>4, <3>1 DEF StoreInv, StoreTypes, Places
      <3>3. Standing(op)'
        BY <1>1, <1>2, <2>2, <2>4, <3>1 DEF Standing, InStorage, StoreInv, StoreTypes, TakesTrash
      <3>4. Moves(op)
        BY <1>1, <2>2, <2>4, <3>1, <3>2, <3>3, QueueSteps DEF Moves, StoreInv, StoreTypes
      <3> QED
        BY <1>1, <2>1, <3>2, <3>4 DEF Keeps
    <2> QED
      BY <1>4, <2>3, <2>4 DEF QueueFirst, GoTo
  <1> QED
    BY <1>3, <1>4 DEF EnterMutation

\* Reads and polls that were let in.
LEMMA EnterReadStep ==
  ASSUME StoreInv, NEW op \in Callers, EnterRead(op)
  PROVE  Keeps(op)
  <1>1. /\ at[op] = "gate" /\ op \in holders
        /\ UNCHANGED <<task, scan, inventory, barrier, stopped, revoked>>
    BY DEF EnterRead
  <1>2. op \notin Live(main) /\ op \notin Live(trash) /\ op \in InGate /\ op \notin Queued
    BY <1>1 DEF StoreInv, Standing, InStorage, InGate, GateInv, PlaceInv, Queued
  <1>3. KindOf[op] \in {"read", "poll", "fetch"}
    BY <1>2, StoreLocksAssumption DEF EnterRead, IsMutation, Kinds, StoreInv, Standing
  <1>4. CASE RefusesRead(op) /\ Refuse(op)
    <2>1. /\ at' = [at EXCEPT ![op] = "idle"] /\ UNCHANGED <<trash, main>> /\ Release(op)
      BY <1>4 DEF Refuse, GoTo
    <2>2. op \notin InGate' /\ NotTold /\ \A d : d # op => GateKept(d)
      BY <2>1, ReleaseMoves DEF StoreInv
    <2>3. StoreTypes'
      BY <1>1, <2>1 DEF StoreInv, StoreTypes, Places
    <2>4. Standing(op)'
      BY <1>1, <1>2, <2>1, <2>2 DEF Standing, InStorage, StoreInv, StoreTypes, InGate
    <2>5. Moves(op)
      BY <1>1, <2>1, <2>2, <2>3, <2>4, QueueSteps DEF Moves, StoreInv, StoreTypes
    <2>6. \A s : Yields(op, s)
      BY <1>1, <2>1, <2>2 DEF Yields, NotJoined, StoreInv, StoreTypes
    <2> QED
      BY <1>3, <2>3, <2>5, <2>6 DEF Keeps
  <1>5. CASE ~RefusesRead(op) /\ QueueFirst(op) /\ UNCHANGED gateVars
    <2>1. NotTold /\ InGate' = InGate /\ \A d : GateKept(d)
      BY <1>5, GateSame
    <2>2. \A s \in OfKind("stop") : ~PastGate(s)
      BY <1>2, <1>3, <1>5, StopOpens DEF RefusesRead
    <2>3. \A s \in OfKind("stop") : Yields(op, s)
      <3>1. op \in OfKind("poll") => stopped = FALSE
        BY <1>3, <1>5 DEF RefusesRead, OfKind, StoreInv, StoreTypes
      <3> QED
        BY <2>2, <3>1 DEF Yields, PastGate, PastTrash, OfKind
    <2>4. op \in holders' /\ op \notin Queued'
      BY <1>1, <1>2, <2>1, <1>5 DEF gateVars, Queued
    <2>5. CASE /\ TakesTrash(op) /\ trash' = Append(trash, op)
               /\ at' = [at EXCEPT ![op] = "trash"] /\ UNCHANGED main
      <3>1. trash' \in Seq(Callers) /\ Moved(trash, trash', op) /\ op \in Live(trash')
        BY <1>2, <2>5, QueueSteps
      <3>2. StoreTypes'
        BY <1>1, <2>5, <3>1 DEF StoreInv, StoreTypes, Places
      <3>3. Standing(op)'
        BY <1>1, <1>2, <1>3, <2>4, <2>5, <3>1 DEF Standing, InStorage, StoreInv, StoreTypes, TakesTrash
      <3>4. Moves(op)
        BY <1>1, <2>1, <2>5, <3>1, <3>2, <3>3, QueueSteps DEF Moves, StoreInv, StoreTypes
      <3> QED
        BY <1>3, <2>3, <3>2, <3>4 DEF Keeps
    <2>6. CASE /\ ~TakesTrash(op) /\ main' = Append(main, op)
               /\ at' = [at EXCEPT ![op] = "main"] /\ UNCHANGED trash
      <3>1. main' \in Seq(Callers) /\ Moved(main, main', op) /\ op \in Live(main')
        BY <1>2, <2>6, QueueSteps
      <3>2. StoreTypes'
        BY <1>1, <2>6, <3>1 DEF StoreInv, StoreTypes, Places
      <3>3. Standing(op)'
        BY <1>1, <1>2, <1>3, <2>4, <2>6, <3>1 DEF Standing, InStorage, StoreInv, StoreTypes, TakesTrash
      <3>4. Moves(op)
        BY <1>1, <2>1, <2>6, <3>1, <3>2, <3>3, QueueSteps DEF Moves, StoreInv, StoreTypes
      <3> QED
        BY <1>3, <2>3, <3>2, <3>4 DEF Keeps
    <2> QED
      BY <1>5, <2>5, <2>6 DEF QueueFirst, GoTo
  <1> QED
    BY <1>4, <1>5 DEF EnterRead

\* A stop that is granted and has nobody behind it but those no drain waits for
\* is alone with them.
LEMMA GrantedAlone ==
  ASSUME NEW queue \in Seq(Callers), Distinct(queue), NEW s, NEW conflicts,
         KindOf[s] = "stop", LastOf(queue, s), Granted(queue, s, conflicts),
         \A d \in Callers : <<d, s>> \in conflicts
  PROVE  UnawaitedOnly(queue)
  <1> SUFFICES ASSUME NEW d \in Live(queue), d # s
               PROVE  Unawaited(d)
    BY DEF UnawaitedOnly, Unawaited
  <1>1. d \in Callers
    BY DEF Live
  <1>2. s \in Live(queue) /\ ~Before(queue, d, s)
    BY <1>1, GrantedFirst
  <1> QED
    BY <1>2, SomeOrder DEF LastOf

\* The trash claim is granted and the storage claim is queued.
LEMMA TrashGrantedStep ==
  ASSUME StoreInv, NEW op \in Callers, TrashGranted(op)
  PROVE  Keeps(op)
  <1>1. /\ at[op] = "trash" /\ Granted(trash, op, TrashConflicts)
        /\ main' = Append(main, op) /\ at' = [at EXCEPT ![op] = "main"]
        /\ UNCHANGED <<gateVars, trash, task, scan, inventory, barrier, stopped, revoked>>
    BY DEF TrashGranted, GoTo
  <1>2. op \in Live(trash) /\ op \notin Live(main) /\ TakesTrash(op)
    BY <1>1 DEF StoreInv, Standing
  <1>3. /\ main' \in Seq(Callers) /\ Moved(main, main', op) /\ op \in Live(main')
        /\ ~ \E b : Before(main', op, b)
    BY <1>1, <1>2, QueueSteps
  <1>4. NotTold /\ InGate' = InGate /\ \A d : GateKept(d)
    BY <1>1, GateSame
  <1>5. StoreTypes'
    BY <1>1, <1>3 DEF StoreInv, StoreTypes, Places
  <1>6. Standing(op)'
    <2>1. op \in Live(trash') /\ holders' = holders /\ Queued' = Queued
      BY <1>1, <1>2 DEF gateVars, Queued
    <2> QED
      BY <1>1, <1>2, <1>3, <1>4, <2>1 DEF Standing, InStorage, StoreInv, StoreTypes
  <1>7. Moves(op)
    BY <1>1, <1>3, <1>4, <1>5, <1>6, QueueSteps DEF Moves, StoreInv, StoreTypes
  <1>8. ASSUME NEW s \in OfKind("stop")
        PROVE  Yields(op, s)
    <2>1. PastTrash(s) => Unawaited(op)
      BY <1>2 DEF StoreInv, Stopping, UnawaitedOnly
    <2>2. PastGate(s) => op \notin InGate'
      BY <1>1, <1>4, StopOpens
    <2>3. at[s] \notin {"idle", "settling"} => KindOf[op] # "poll"
      BY <1>1, StopOpens DEF OfKind
    <2> QED
      BY <1>1, <2>1, <2>2, <2>3 DEF Yields, NotJoined
  <1>9. ASSUME KindOf[op] = "stop"
        PROVE  Stopping(op)'
    <2>1. op \in OfKind("stop") /\ Stopping(op) /\ PastGate(op)
      BY <1>1, <1>9 DEF OfKind, PastGate, StoreInv
    <2>2. UnawaitedOnly(trash)
      <3>1. LastOf(trash, op) /\ \A d \in Callers : <<d, op>> \in TrashConflicts
        BY <1>1, <1>9, <2>1, StopsConflict DEF Stopping
      <3> QED
        BY <1>1, <1>9, <3>1, GrantedAlone DEF StoreInv, StoreTypes
    <2>3. LastOf(main', op) /\ UnawaitedOnly(trash')
      BY <1>1, <1>3, <2>2 DEF LastOf
    <2>4. at'[op] = "main" /\ ~PastMain(op)'
      BY <1>1 DEF PastMain, StoreInv, StoreTypes
    <2>5. \A p \in OfKind("poll") : at'[p] = "idle"
      BY <1>1, <1>9, <2>1 DEF Stopping, OfKind
    <2>6. \A d \in InGate' : at'[d] = "gate" /\ KindOf[d] # "fetch"
      BY <1>1, <1>4, <2>1 DEF Stopping, StoreInv, StoreTypes
    <2>7. stopped' /\ barrier' = "open"
      BY <1>1, <2>1 DEF Stopping
    <2> QED
      BY <2>3, <2>4, <2>5, <2>6, <2>7 DEF Stopping
  <1> QED
    BY <1>5, <1>7, <1>8, <1>9 DEF Keeps

\* A step that releases the storage claim, or gives it up when granted.
LEMMA LeavesMain ==
  ASSUME StoreInv, NEW op \in Callers,
         (at[op] = "work" /\ KindOf[op] # "lease") \/ (at[op] = "main" /\ KindOf[op] = "poll"),
         main' = Without(main, op), at' = [at EXCEPT ![op] = "leave"],
         UNCHANGED <<gateVars, trash, task, inventory, stopped, revoked>>,
         scan' \in {"cold", "ready", "error"}, barrier' \in {barrier, "open"}
  PROVE  Keeps(op)
  <1>1. op \in Live(main) /\ op \in OfKind("stop") => at[op] = "work"
    BY DEF StoreInv, Standing, OfKind
  <1>2. main' \in Seq(Callers) /\ Moved(main, main', op) /\ op \notin Live(main')
    BY <1>1, QueueSteps DEF StoreInv, Standing
  <1>3. NotTold /\ InGate' = InGate /\ \A d : GateKept(d)
    BY GateSame
  <1>4. StoreTypes'
    BY <1>2 DEF StoreInv, StoreTypes, Places
  <1>5. Standing(op)'
    <2>1. Standing(op) /\ Live(trash)' = Live(trash) /\ holders' = holders /\ Queued' = Queued
      BY DEF gateVars, Queued, StoreInv, Live
    <2> QED
      BY <1>2, <1>3, <2>1 DEF Standing, InStorage, StoreInv, StoreTypes
  <1>6. Moves(op)
    BY <1>2, <1>3, <1>4, <1>5, QueueSteps DEF Moves, StoreInv, StoreTypes
  <1>7. ASSUME NEW s \in OfKind("stop")
        PROVE  Yields(op, s)
    <2>1. PastGate(s) => op \notin InGate'
      BY <1>3, StopOpens
    <2>2. at[s] \notin {"idle", "settling"} => KindOf[op] # "poll"
      BY StopOpens DEF OfKind
    <2> QED
      BY <1>2, <2>1, <2>2 DEF Yields, NotJoined
  <1>8. ASSUME KindOf[op] = "stop"
        PROVE  Stopping(op)'
    <2>1. op \in OfKind("stop") /\ Stopping(op) /\ PastMain(op) /\ PastTrash(op) /\ PastGate(op)
      BY <1>8 DEF OfKind, PastMain, PastTrash, PastGate, StoreInv
    <2>2. UnawaitedOnly(trash') /\ UnawaitedOnly(main')
      <3>1. UnawaitedOnly(trash) /\ UnawaitedOnly(main)
        BY <2>1 DEF Stopping
      <3> QED
        BY <1>2, <1>8, <3>1 DEF Moved, UnawaitedOnly
    <2>3. at'[op] = "leave"
      BY DEF StoreInv, StoreTypes
    <2>4. \A p \in OfKind("poll") : at'[p] = "idle"
      BY <1>8, <2>1 DEF Stopping, PastMain, OfKind, StoreInv, StoreTypes
    <2>5. \A d \in InGate' : at'[d] = "gate" /\ KindOf[d] # "fetch"
      BY <1>3, <2>1 DEF Stopping, StoreInv, StoreTypes
    <2>6. stopped' /\ barrier' = "open"
      BY <2>1 DEF Stopping, PastMain
    <2> QED
      BY <2>2, <2>3, <2>4, <2>5, <2>6 DEF Stopping
  <1> QED
    BY <1>4, <1>6, <1>7, <1>8 DEF Keeps

\* The storage claim is granted.
LEMMA MainGrantedStep ==
  ASSUME StoreInv, NEW op \in Callers, MainGranted(op)
  PROVE  Keeps(op)
  <1>1. /\ at[op] = "main" /\ Granted(main, op, MainConflicts)
        /\ UNCHANGED <<gateVars, trash, task, inventory, barrier, stopped, revoked>>
    BY DEF MainGranted
  <1>2. CASE /\ KindOf[op] = "poll" /\ main' = Without(main, op)
             /\ at' = [at EXCEPT ![op] = "leave"] /\ UNCHANGED scan
    BY <1>1, <1>2, LeavesMain DEF StoreInv, StoreTypes
  <1>3. CASE /\ ~(KindOf[op] = "poll" /\ stopped) /\ at' = [at EXCEPT ![op] = "work"]
             /\ scan' \in {scan, "cold"} /\ UNCHANGED main
    <2>1. NotTold /\ InGate' = InGate /\ \A d : GateKept(d)
      BY <1>1, GateSame
    <2>2. StoreTypes'
      BY <1>1, <1>3 DEF StoreInv, StoreTypes, Places
    <2>3. Standing(op)'
      <3>1. Standing(op) /\ Live(trash)' = Live(trash) /\ Live(main)' = Live(main)
        BY <1>1, <1>3 DEF StoreInv, Live
      <3>2. holders' = holders /\ Queued' = Queued
        BY <1>1 DEF gateVars, Queued
      <3> QED
        BY <1>1, <1>3, <2>1, <3>1, <3>2 DEF Standing, InStorage, StoreInv, StoreTypes, TakesTrash
    <2>4. Moves(op)
      BY <1>1, <1>3, <2>1, <2>2, <2>3, QueueSteps DEF Moves, StoreInv, StoreTypes
    <2>5. ASSUME NEW s \in OfKind("stop")
          PROVE  Yields(op, s)
      <3>1. PastGate(s) => op \notin InGate'
        BY <1>1, <2>1, StopOpens
      <3> QED
        BY <1>1, <1>3, <3>1 DEF Yields, NotJoined
    <2>6. ASSUME KindOf[op] = "stop"
          PROVE  Stopping(op)'
      <3>1. op \in OfKind("stop") /\ Stopping(op) /\ PastTrash(op) /\ PastGate(op)
        BY <1>1, <2>6 DEF OfKind, PastTrash, PastGate, StoreInv
      <3>2. UnawaitedOnly(main)
        <4>1. LastOf(main, op) /\ \A d \in Callers : <<d, op>> \in MainConflicts
          BY <1>1, <2>6, <3>1, StopsConflict DEF Stopping
        <4> QED
          BY <1>1, <2>6, <4>1, GrantedAlone DEF StoreInv, StoreTypes
      <3>3. UnawaitedOnly(main') /\ UnawaitedOnly(trash')
        BY <1>1, <1>3, <3>1, <3>2 DEF Stopping
      <3>4. at'[op] = "work"
        BY <1>3 DEF StoreInv, StoreTypes
      <3>5. \A p \in OfKind("poll") : at'[p] = "idle"
        BY <1>1, <1>3, <2>6, <3>1 DEF Stopping, OfKind, StoreInv, StoreTypes
      <3>6. \A d \in InGate' : at'[d] = "gate" /\ KindOf[d] # "fetch"
        BY <1>1, <1>3, <2>1, <3>1 DEF Stopping, StoreInv, StoreTypes
      <3>7. stopped' /\ barrier' = "open"
        BY <1>1, <3>1 DEF Stopping
      <3> QED
        BY <3>3, <3>4, <3>5, <3>6, <3>7 DEF Stopping
    <2> QED
      BY <2>2, <2>4, <2>5, <2>6 DEF Keeps
  <1> QED
    BY <1>2, <1>3 DEF MainGranted, GoTo

\* The body of an operation ends.
LEMMA WorkEndsStep ==
  ASSUME StoreInv, NEW op \in Callers, WorkEnds(op)
  PROVE  Keeps(op)
  BY LeavesMain DEF WorkEnds, GoTo, StoreInv, StoreTypes

\* A scan fails, and its waiters are woken.
LEMMA ScanFailsStep ==
  ASSUME StoreInv, NEW op \in Callers, ScanFails(op)
  PROVE  Keeps(op)
  BY LeavesMain DEF ScanFails, GoTo, StoreInv, StoreTypes

\* The graph is there.
LEMMA GraphSucceedsStep ==
  ASSUME StoreInv, NEW op \in Callers, GraphSucceeds(op)
  PROVE  Keeps(op)
  BY LeavesMain DEF GraphSucceeds, GoTo, StoreInv, StoreTypes

\* The inventory is there, and the graph is queued for.
LEMMA ScanSucceedsStep ==
  ASSUME StoreInv, NEW op \in Callers, ScanSucceeds(op)
  PROVE  Keeps(op)
  <1>1. /\ at[op] = "work" /\ KindOf[op] = "poll"
        /\ UNCHANGED <<gateVars, trash, scan, stopped, revoked>>
    BY DEF ScanSucceeds, StoreInv, StoreTypes
  <1>2. CASE stopped
    BY <1>1, <1>2, LeavesMain DEF ScanSucceeds, GoTo, StoreInv, StoreTypes
  <1>3. CASE ~stopped
    <2>1. /\ inventory' = TRUE /\ barrier' = "open"
          /\ main' = Append(Without(main, op), op)
          /\ task' = [task EXCEPT ![op] = "graph"] /\ at' = [at EXCEPT ![op] = "main"]
      BY <1>3 DEF ScanSucceeds, GoTo
    <2>2. /\ main' \in Seq(Callers) /\ Moved(main, main', op) /\ op \in Live(main')
      <3> DEFINE between == Without(main, op)
      <3>1. main \in Seq(Callers) /\ Distinct(main) /\ op \in Live(main)
        BY <1>1 DEF StoreInv, StoreTypes, Standing
      <3>2. Moved(main, between, op) /\ op \notin Live(between) /\ main' = Append(between, op)
        BY <2>1, <3>1, WithoutMoves
      <3> HIDE DEF between
      <3>3. between \in Seq(Callers) /\ Distinct(between)
        BY <3>2 DEF Moved
      <3>4. Moved(between, main', op) /\ op \in Live(main')
        BY <3>2, <3>3, AppendMoves
      <3> QED
        BY <3>2, <3>4 DEF Moved
    <2>3. NotTold /\ InGate' = InGate /\ \A d : GateKept(d)
      BY <1>1, GateSame
    <2>4. StoreTypes'
      BY <1>1, <2>1, <2>2 DEF StoreInv, StoreTypes, Places
    <2>5. Standing(op)'
      <3>1. Standing(op) /\ Live(trash)' = Live(trash) /\ holders' = holders /\ Queued' = Queued
        BY <1>1 DEF gateVars, Queued, StoreInv, Live
      <3> QED
        BY <1>1, <2>1, <2>2, <2>3, <3>1 DEF Standing, InStorage, StoreInv, StoreTypes, TakesTrash
    <2>6. Moves(op)
      BY <1>1, <2>1, <2>2, <2>3, <2>4, <2>5, QueueSteps DEF Moves, StoreInv, StoreTypes
    <2>7. \A s \in OfKind("stop") : Yields(op, s)
      BY <1>3, StopOpens DEF Yields, PastTrash, PastGate
    <2>8. KindOf[op] # "stop"
      BY <1>1, <1>3, StopOpens DEF OfKind
    <2> QED
      BY <2>4, <2>6, <2>7, <2>8 DEF Keeps
  <1> QED
    BY <1>2, <1>3

\* The scopes around the storage claim end.
LEMMA UnwindStep ==
  ASSUME StoreInv, NEW op \in Callers, Unwind(op)
  PROVE  Keeps(op)
  <1>1. at[op] = "leave" /\ UNCHANGED <<main, scan, inventory, barrier, stopped, revoked>>
    BY DEF Unwind
  <1>2. op \notin Live(main) /\ op \notin Queued
    BY <1>1 DEF StoreInv, Standing
  <1>3. ASSUME KindOf[op] = "stop"
        PROVE  /\ op \in OfKind("stop") /\ Stopping(op) /\ op \notin InGate
               /\ PastMain(op) /\ PastTrash(op) /\ PastGate(op)
    BY <1>1, <1>3 DEF OfKind, PastMain, PastTrash, PastGate, StoreInv, Standing
  <1>4. CASE op \in Live(trash)
    <2>1. trash' = Without(trash, op) /\ UNCHANGED <<gateVars, at, task>>
      BY <1>4 DEF Unwind
    <2>2. trash' \in Seq(Callers) /\ Moved(trash, trash', op) /\ op \notin Live(trash')
      BY <1>4, <2>1, QueueSteps
    <2>3. NotTold /\ InGate' = InGate /\ \A d : GateKept(d)
      BY <2>1, GateSame
    <2>4. StoreTypes'
      BY <1>1, <2>1, <2>2 DEF StoreInv, StoreTypes
    <2>5. Standing(op)'
      <3>1. Standing(op) /\ Live(main)' = Live(main) /\ holders' = holders /\ Queued' = Queued
        BY <1>1, <2>1 DEF gateVars, Queued, StoreInv, Live
      <3> QED
        BY <1>1, <2>1, <2>2, <2>3, <3>1 DEF Standing, InStorage, StoreInv, StoreTypes
    <2>6. Moves(op)
      BY <1>1, <2>1, <2>2, <2>3, <2>4, <2>5, QueueSteps DEF Moves, StoreInv, StoreTypes
    <2>7. ASSUME NEW s \in OfKind("stop")
          PROVE  Yields(op, s)
      <3>1. PastGate(s) => op \notin InGate'
        BY <1>1, <2>3, StopOpens
      <3>2. at[s] \notin {"idle", "settling"} => KindOf[op] # "poll"
        BY <1>1, StopOpens DEF OfKind
      <3> QED
        BY <1>1, <2>2, <3>1, <3>2 DEF Yields, NotJoined
    <2>8. KindOf[op] = "stop" => Stopping(op)'
      <3> SUFFICES ASSUME KindOf[op] = "stop"
                   PROVE  Stopping(op)'
        OBVIOUS
      <3>1. UnawaitedOnly(trash') /\ UnawaitedOnly(main')
        BY <1>1, <1>3, <2>2 DEF Moved, UnawaitedOnly, Stopping
      <3>2. \A d \in InGate' : at'[d] = "gate" /\ KindOf[d] # "fetch"
        BY <1>3, <2>1, <2>3 DEF Stopping
      <3> QED
        BY <1>1, <1>3, <2>1, <3>1, <3>2 DEF Stopping
    <2> QED
      BY <2>4, <2>6, <2>7, <2>8 DEF Keeps
  <1>5. CASE op \notin Live(trash)
    <2>1. /\ IF op \in holders THEN Release(op) ELSE UNCHANGED gateVars
          /\ at' = [at EXCEPT ![op] = IF KindOf[op] = "stop" THEN "externals" ELSE "idle"]
          /\ task' = [task EXCEPT ![op] = "body"] /\ UNCHANGED trash
      BY <1>5 DEF Unwind, GoTo
    <2>2. op \notin InGate' /\ NotTold /\ \A d : d # op => GateKept(d)
      <3>1. CASE op \in holders
        BY <2>1, <3>1, ReleaseMoves DEF StoreInv
      <3>2. CASE op \notin holders
        BY <1>2, <2>1, <3>2, GateSame DEF InGate
      <3> QED
        BY <3>1, <3>2
    <2>3. StoreTypes'
      BY <1>1, <2>1 DEF StoreInv, StoreTypes, Places
    <2>4. Standing(op)'
      <3>1. Live(main)' = Live(main) /\ Live(trash)' = Live(trash)
        BY <1>1, <2>1 DEF Live
      <3> QED
        BY <1>1, <1>2, <1>5, <2>1, <2>2, <3>1 DEF Standing, InStorage, StoreInv, StoreTypes, InGate
    <2>5. Moves(op)
      BY <1>1, <2>1, <2>2, <2>3, <2>4, QueueSteps DEF Moves, StoreInv, StoreTypes
    <2>6. \A s : Yields(op, s)
      BY <1>1, <2>1, <2>2 DEF Yields, NotJoined, StoreInv, StoreTypes
    <2>7. KindOf[op] = "stop" => Stopping(op)'
      <3> SUFFICES ASSUME KindOf[op] = "stop"
                   PROVE  Stopping(op)'
        OBVIOUS
      <3>1. UnawaitedOnly(trash') /\ UnawaitedOnly(main')
        BY <1>1, <1>3, <2>1 DEF Stopping
      <3>2. at'[op] = "externals" /\ UNCHANGED gateVars
        BY <1>3, <2>1 DEF StoreInv, StoreTypes, InGate
      <3>3. InGate' = InGate
        BY <3>2, GateSame
      <3>4. \A d \in InGate' : at'[d] = "gate" /\ KindOf[d] # "fetch"
        BY <1>3, <2>1, <2>2, <3>3 DEF Stopping, StoreInv, StoreTypes
      <3>5. \A p \in OfKind("poll") : at'[p] = "idle"
        BY <1>1, <1>3, <2>1 DEF Stopping, OfKind, StoreInv, StoreTypes
      <3> QED
        BY <1>1, <1>3, <3>1, <3>2, <3>4, <3>5 DEF Stopping
    <2> QED
      BY <2>3, <2>5, <2>6, <2>7 DEF Keeps
  <1> QED
    BY <1>4, <1>5

\* The host is through with its lease, which it may not have any more.
LEMMA HostReleasesStep ==
  ASSUME StoreInv, NEW op \in Callers, HostReleases(op)
  PROVE  Keeps(op)
  <1>1. /\ KindOf[op] = "lease" /\ at[op] = "work" /\ at' = [at EXCEPT ![op] = "idle"]
        /\ revoked' = revoked \ {op}
        /\ UNCHANGED <<trash, task, scan, inventory, barrier, stopped>>
    BY DEF HostReleases, GoTo
  <1>2. op \notin Live(trash) /\ Live(trash)' = Live(trash)
    BY <1>1 DEF StoreInv, Standing, TakesTrash, Live
  <1>3. /\ main' \in Seq(Callers) /\ Moved(main, main', op) /\ op \notin Live(main')
        /\ op \notin InGate' /\ NotTold /\ \A d : d # op => GateKept(d)
    <2>1. CASE op \in revoked
      <3>1. UNCHANGED <<gateVars, main>>
        BY <2>1 DEF HostReleases
      <3>2. op \notin Live(main) /\ op \notin InGate /\ main \in Seq(Callers)
        BY <1>1, <2>1 DEF StoreInv, StoreTypes, Standing
      <3> QED
        BY <3>1, <3>2, GateSame, QueueSteps
    <2>2. CASE op \notin revoked
      <3>1. main' = Without(main, op) /\ Release(op)
        BY <2>2 DEF HostReleases, EndLease
      <3>2. op \in Live(main)
        BY <1>1, <2>2 DEF StoreInv, Standing
      <3> QED
        BY <3>1, <3>2, QueueSteps, ReleaseMoves DEF StoreInv
    <2> QED
      BY <2>1, <2>2
  <1>4. StoreTypes'
    BY <1>1, <1>3 DEF StoreInv, StoreTypes, Places
  <1>5. Standing(op)'
    BY <1>1, <1>2, <1>3 DEF Standing, InStorage, StoreInv, StoreTypes, InGate
  <1>6. Moves(op)
    BY <1>1, <1>3, <1>4, <1>5, QueueSteps DEF Moves, StoreInv, StoreTypes
  <1>7. \A s : Yields(op, s)
    BY <1>1, <1>3 DEF Yields, NotJoined
  <1> QED
    BY <1>1, <1>4, <1>6, <1>7 DEF Keeps

\* The polls are through, and the gate is asked to settle.
LEMMA StopSettlesStep ==
  ASSUME StoreInv, NEW op \in Callers, StopSettles(op)
  PROVE  Keeps(op)
  <1>1. /\ at[op] = "settling" /\ Settle(op) /\ at' = [at EXCEPT ![op] = "idling"]
        /\ \A p \in OfKind("poll") : at[p] = "idle"
        /\ UNCHANGED <<trash, main, task, scan, inventory, barrier, stopped, revoked>>
    BY DEF StopSettles, GoTo
  <1>2. /\ op \in OfKind("stop") /\ op \notin InGate
        /\ op \notin Live(main) /\ op \notin Live(trash)
    BY <1>1 DEF StoreInv, Standing, InStorage, OfKind
  <1>3. InGate' = InGate /\ NotTold /\ \A d : GateKept(d)
    BY <1>1 DEF Settle, InGate, Queued, GateKept, NotTold
  <1>4. StoreTypes'
    BY <1>1 DEF StoreInv, StoreTypes, Places
  <1>5. Standing(op)'
    <2>1. Live(trash)' = Live(trash) /\ Live(main)' = Live(main)
      BY <1>1 DEF Live
    <2> QED
      BY <1>1, <1>2, <1>3, <2>1 DEF Standing, InStorage, StoreInv, StoreTypes, OfKind, InGate
  <1>6. Moves(op)
    BY <1>1, <1>3, <1>4, <1>5, QueueSteps DEF Moves, StoreInv, StoreTypes
  <1>7. \A s : Yields(op, s)
    BY <1>1, <1>2, <1>3 DEF Yields, NotJoined, OfKind
  <1>8. Stopping(op)'
    <2>1. at'[op] = "idling"
      BY <1>1 DEF StoreInv, StoreTypes
    <2>2. stopped' /\ barrier' = "open"
      BY <1>1, <1>2, StopOpens
    <2>3. \A p \in OfKind("poll") : at'[p] = "idle"
      BY <1>1, <1>2 DEF OfKind, StoreInv, StoreTypes
    <2>4. PastGate(op)' => InGate' = {}
      BY <1>1, <2>1 DEF PastGate, PastTrash, PastMain, Settle, InGate, Queued
    <2> QED
      BY <2>1, <2>2, <2>3, <2>4 DEF Stopping, PastTrash, PastMain
  <1> QED
    BY <1>4, <1>6, <1>7, <1>8 DEF Keeps

\* The gate is idle, and the trash queue is joined.
LEMMA StopCrossesStep ==
  ASSUME StoreInv, NEW op \in Callers, StopCrosses(op)
  PROVE  Keeps(op)
  <1>1. /\ at[op] = "idling" /\ op \notin idleWaiters
        /\ trash' = Append(trash, op) /\ at' = [at EXCEPT ![op] = "trash"]
        /\ UNCHANGED <<gateVars, main, task, scan, inventory, barrier, stopped, revoked>>
    BY DEF StopCrosses, GoTo
  <1>2. /\ op \in OfKind("stop") /\ KindOf[op] = "stop" /\ op \notin InGate
        /\ op \notin Live(main) /\ op \notin Live(trash) /\ PastGate(op)
    BY <1>1 DEF StoreInv, Standing, InStorage, OfKind, PastGate
  <1>3. /\ trash' \in Seq(Callers) /\ Moved(trash, trash', op) /\ op \in Live(trash')
        /\ ~ \E b : Before(trash', op, b)
    BY <1>1, <1>2, QueueSteps
  <1>4. NotTold /\ InGate' = InGate /\ \A d : GateKept(d)
    BY <1>1, GateSame
  <1>5. StoreTypes'
    BY <1>1, <1>3 DEF StoreInv, StoreTypes, Places
  <1>6. Standing(op)'
    <2>1. Live(main)' = Live(main)
      BY <1>1 DEF Live
    <2> QED
      BY <1>1, <1>2, <1>3, <1>4, <2>1
      DEF Standing, InStorage, StoreInv, StoreTypes, InGate, TakesTrash, KeepsAdmission
  <1>7. Moves(op)
    BY <1>1, <1>3, <1>4, <1>5, <1>6, QueueSteps DEF Moves, StoreInv, StoreTypes
  <1>8. \A s : Yields(op, s)
    BY <1>1, <1>2, <1>4 DEF Yields, NotJoined, Unawaited
  <1>9. Stopping(op)'
    <2>1. at'[op] = "trash"
      BY <1>1 DEF StoreInv, StoreTypes
    <2>2. stopped' /\ barrier' = "open"
      BY <1>1, <1>2, StopOpens
    <2>3. \A p \in OfKind("poll") : at'[p] = "idle"
      BY <1>1, <1>2, StopOpens DEF OfKind, StoreInv, StoreTypes
    <2>4. \A d \in InGate' : at'[d] = "gate" /\ KindOf[d] # "fetch"
      BY <1>1, <1>2, <1>4, StopOpens DEF StoreInv, StoreTypes
    <2>5. LastOf(trash', op)
      BY <1>3 DEF LastOf
    <2> QED
      BY <2>1, <2>2, <2>3, <2>4, <2>5 DEF Stopping, PastTrash, PastMain
  <1> QED
    BY <1>5, <1>7, <1>8, <1>9 DEF Keeps

\* The external tasks are done, and the inner engine is stopped.
LEMMA StopInnerStep ==
  ASSUME StoreInv, NEW op \in Callers, StopInner(op)
  PROVE  Keeps(op)
  <1>1. /\ at[op] = "externals" /\ at' = [at EXCEPT ![op] = "stopped"]
        /\ UNCHANGED <<gateVars, trash, main, task, scan, inventory, barrier, stopped, revoked>>
    BY DEF StopInner, GoTo
  <1>2. /\ op \in OfKind("stop") /\ KindOf[op] = "stop" /\ op \notin InGate
        /\ op \notin Live(main) /\ op \notin Live(trash)
        /\ PastMain(op) /\ PastTrash(op) /\ PastGate(op) /\ Stopping(op)
    BY <1>1 DEF StoreInv, Standing, InStorage, OfKind, PastGate, PastTrash, PastMain
  <1>3. NotTold /\ InGate' = InGate /\ \A d : GateKept(d)
    BY <1>1, GateSame
  <1>4. StoreTypes'
    BY <1>1 DEF StoreInv, StoreTypes, Places
  <1>5. Standing(op)'
    <2>1. Live(main)' = Live(main) /\ Live(trash)' = Live(trash)
      BY <1>1 DEF Live
    <2> QED
      BY <1>1, <1>2, <1>3, <2>1 DEF Standing, InStorage, StoreInv, StoreTypes, InGate
  <1>6. Moves(op)
    BY <1>1, <1>3, <1>4, <1>5, QueueSteps DEF Moves, StoreInv, StoreTypes
  <1>7. \A s : Yields(op, s)
    BY <1>1, <1>2, <1>3 DEF Yields, NotJoined
  <1>8. Stopping(op)'
    <2>1. at'[op] = "stopped"
      BY <1>1 DEF StoreInv, StoreTypes
    <2>2. stopped' /\ barrier' = "open"
      BY <1>1, <1>2, StopOpens
    <2>3. \A p \in OfKind("poll") : at'[p] = "idle"
      BY <1>1, <1>2, StopOpens DEF OfKind, StoreInv, StoreTypes
    <2>4. \A d \in InGate' : at'[d] = "gate" /\ KindOf[d] # "fetch"
      BY <1>1, <1>2, <1>3, StopOpens DEF StoreInv, StoreTypes
    <2>5. UnawaitedOnly(trash') /\ UnawaitedOnly(main')
      BY <1>1, <1>2 DEF Stopping
    <2> QED
      BY <2>1, <2>2, <2>3, <2>4, <2>5 DEF Stopping
  <1> QED
    BY <1>4, <1>6, <1>7, <1>8 DEF Keeps

\* Each lease holds everything, so there is at most one.
LEMMA OneLease ==
  ASSUME StoreInv, NEW a \in LeasesHeld, NEW b \in LeasesHeld
  PROVE  a = b
  <1> SUFFICES ASSUME a # b
               PROVE  FALSE
    OBVIOUS
  <1>1. /\ a \in Callers /\ KindOf[a] = "lease" /\ at[a] = "work" /\ a \in Live(main)
        /\ b \in Callers /\ KindOf[b] = "lease" /\ at[b] = "work" /\ b \in Live(main)
    BY DEF LeasesHeld, OfKind, StoreInv, Standing
  <1>2. Before(main, a, b) \/ Before(main, b, a)
    BY <1>1, SomeOrder DEF StoreInv, StoreTypes
  <1>3. <<a, b>> \in MainConflicts /\ <<b, a>> \in MainConflicts
    BY <1>1, StopsConflict
  <1> QED
    BY <1>1, <1>2, <1>3 DEF StoreInv, Exclusive

\* The leases that are out lose their places, all else stays.
LEMMA StopReleases ==
  ASSUME StoreInv, NEW s \in Callers, Stop(s)
  PROVE  /\ main' \in Seq(Callers) /\ Distinct(main')
         /\ \A d : d \in Live(main') <=> d \in Live(main) /\ d \notin LeasesHeld
         /\ \A a, b : Before(main', a, b) => Before(main, a, b)
         /\ NotTold
         /\ \A d : IF d \in LeasesHeld THEN d \notin InGate' ELSE GateKept(d)
  <1>1. main \in Seq(Callers) /\ Distinct(main)
    BY DEF StoreInv, StoreTypes
  <1>2. CASE LeasesHeld = {}
    <2>1. UNCHANGED <<gateVars, main>>
      BY <1>2 DEF Stop
    <2> QED
      BY <1>1, <1>2, <2>1, GateSame
  <1>3. CASE LeasesHeld # {}
    <2>1. PICK op \in LeasesHeld : EndLease(op)
      BY <1>3 DEF Stop
    <2>2. op \in Callers /\ op \in Live(main) /\ \A d : d \in LeasesHeld <=> d = op
      BY OneLease DEF LeasesHeld, OfKind, StoreInv, Standing
    <2>3. main' = Without(main, op) /\ Release(op)
      BY <2>1 DEF EndLease
    <2>4. main' \in Seq(Callers) /\ Moved(main, main', op) /\ op \notin Live(main')
      BY <2>2, <2>3, QueueSteps
    <2>5. op \notin InGate' /\ NotTold /\ \A d : d # op => GateKept(d)
      BY <2>2, <2>3, ReleaseMoves DEF StoreInv
    <2> QED
      BY <2>2, <2>4, <2>5 DEF Moved
  <1> QED
    BY <1>2, <1>3

\* stop() itself: the hosts of the leases stay where they are.
LEMMA StopStep ==
  ASSUME StoreInv, GateInv', NEW s \in Callers, Stop(s)
  PROVE  StoreInv'
  <1>1. /\ KindOf[s] = "stop" /\ at[s] = "idle" /\ stopped' = TRUE /\ barrier' = "open"
        /\ at' = [at EXCEPT ![s] = "settling"] /\ revoked' = revoked \cup LeasesHeld
        /\ UNCHANGED <<trash, task, scan, inventory>>
    BY DEF Stop, GoTo
  <1>2. /\ main' \in Seq(Callers) /\ Distinct(main')
        /\ \A d : d \in Live(main') <=> d \in Live(main) /\ d \notin LeasesHeld
        /\ \A a, b : Before(main', a, b) => Before(main, a, b)
        /\ NotTold
        /\ \A d : IF d \in LeasesHeld THEN d \notin InGate' ELSE GateKept(d)
    BY StopReleases
  <1>3. ASSUME NEW d \in LeasesHeld
        PROVE  d \in Callers /\ KindOf[d] = "lease" /\ at[d] = "work" /\ d # s
    BY <1>1 DEF LeasesHeld, OfKind
  <1>4. /\ at'[s] = "settling"
        /\ \A d \in Callers : d # s => at'[d] = at[d]
    BY <1>1 DEF StoreInv, StoreTypes
  <1>5. StoreTypes'
    <2>1. at' \in [Callers -> Places]
      BY <1>1 DEF StoreInv, StoreTypes, Places
    <2>2. revoked' \subseteq OfKind("lease")
      BY <1>1 DEF LeasesHeld, StoreInv, StoreTypes
    <2> QED
      BY <1>1, <1>2, <2>1, <2>2 DEF StoreInv, StoreTypes
  <1>6. Exclusive'
    <2> SUFFICES ASSUME NEW a, NEW b, Before(main', a, b), at'[b] = "work"
                 PROVE  <<a, b>> \notin MainConflicts
      BY DEF Exclusive, Before
    <2>1. b \in Callers
      BY <1>2 DEF Before
    <2>2. at[b] = "work"
      BY <1>4, <2>1
    <2> QED
      BY <1>2, <2>2 DEF StoreInv, Exclusive
  <1>7. ASSUME NEW d \in Callers
        PROVE  Standing(d)'
    <2>1. /\ Live(trash)' = Live(trash)
          /\ d \in Live(main)' <=> d \in Live(main) /\ d \notin LeasesHeld
      <3>1. Live(main)' = Live(main')
        BY DEF Live
      <3> QED
        BY <1>1, <1>2, <3>1 DEF Live
    <2>2. Standing(d) /\ Standing(s) /\ (d \in revoked' <=> d \in revoked \/ d \in LeasesHeld)
      BY <1>1 DEF StoreInv
    <2>3. CASE d = s
      <3>1. /\ d \notin Live(main)' /\ d \notin Live(trash)' /\ d \notin InGate
        BY <1>1, <2>1, <2>2, <2>3 DEF Standing, InStorage
      <3>2. d \notin InGate'
        BY <1>2, <3>1 DEF GateKept
      <3> QED
        BY <1>1, <1>3, <1>4, <2>2, <2>3, <3>1, <3>2 DEF Standing, InStorage, InGate
    <2>4. CASE d \in LeasesHeld
      <3>1. d \notin Live(main)' /\ d \notin Live(trash)' /\ d \notin InGate'
        BY <1>2, <1>3, <2>1, <2>2, <2>4 DEF Standing, TakesTrash
      <3> QED
        BY <1>3, <1>4, <2>2, <2>4, <3>1 DEF Standing, InStorage, InGate, TakesTrash
    <2>5. CASE d # s /\ d \notin LeasesHeld
      <3>1. at'[d] = at[d] /\ GateKept(d)
        BY <1>2, <1>4, <2>5
      <3> QED
        BY <2>1, <2>2, <2>5, <3>1 DEF Standing, GateKept, TakesTrash
    <2> QED
      BY <2>3, <2>4, <2>5
  <1>8. ASSUME NEW t \in OfKind("stop")
        PROVE  Stopping(t)'
    <2>1. CASE t = s
      BY <1>1, <1>4, <2>1 DEF Stopping, PastGate, PastTrash, PastMain
    <2>2. CASE t # s
      <3>1. t \in Callers /\ at'[t] = at[t] /\ Stopping(t)
        BY <1>3, <1>4, <2>2 DEF OfKind, StoreInv
      <3>2. at[t] \notin {"idle", "settling"} => \A p \in OfKind("poll") : at'[p] = "idle"
        BY <1>1, <1>3, <1>4, <3>1 DEF Stopping, OfKind
      <3>3. PastGate(t)' => \A d \in InGate' : at'[d] = "gate" /\ KindOf[d] # "fetch"
        <4>1. CASE InGate' = {}
          BY <4>1
        <4>2. CASE idleWaiters \subseteq idleWaiters'
          <5>1. PastGate(t)' => PastGate(t)
            BY <3>1, <4>2 DEF PastGate, PastTrash, PastMain
          <5>2. ASSUME PastGate(t), NEW d \in InGate'
                PROVE  at'[d] = "gate" /\ KindOf[d] # "fetch"
            <6>1. d \notin LeasesHeld /\ d \in InGate
              BY <1>2, <5>2 DEF GateKept
            <6>2. d \in Callers /\ d # s
              BY <1>1, <6>1
              DEF StoreInv, GateInv, GateTypeOK, InGate, Queued, Standing
            <6>3. at[d] = "gate" /\ KindOf[d] # "fetch"
              BY <3>1, <5>2, <6>1 DEF Stopping
            <6> QED
              BY <1>4, <6>1, <6>2, <6>3
          <5> QED
            BY <5>1, <5>2
        <4> QED
          BY <1>2, <4>1, <4>2 DEF NotTold
      <3>4. /\ LastOf(trash', t) <=> LastOf(trash, t)
            /\ UnawaitedOnly(trash') <=> UnawaitedOnly(trash)
            /\ LastOf(main, t) => LastOf(main', t)
            /\ UnawaitedOnly(main) => UnawaitedOnly(main')
        BY <1>1, <1>2 DEF LastOf, UnawaitedOnly
      <3>5. /\ PastTrash(t)' <=> PastTrash(t)
            /\ PastMain(t)' <=> PastMain(t)
        BY <3>1 DEF PastTrash, PastMain
      <3>6. /\ LastOf(trash, t)' <=> LastOf(trash', t)
            /\ LastOf(main, t)' <=> LastOf(main', t)
            /\ UnawaitedOnly(trash)' <=> UnawaitedOnly(trash')
            /\ UnawaitedOnly(main)' <=> UnawaitedOnly(main')
        BY DEF LastOf, UnawaitedOnly, Before, Live
      <3> QED
        BY <1>1, <3>1, <3>2, <3>3, <3>4, <3>5, <3>6 DEF Stopping
    <2> QED
      BY <2>1, <2>2
  <1>9. Distinct(trash)' /\ Distinct(main)'
    BY <1>1, <1>2 DEF StoreInv, Distinct
  <1> QED
    BY <1>5, <1>6, <1>7, <1>8, <1>9 DEF StoreInv

-----------------------------------------------------------------------------
(* The theorems about the store.                                           *)

LEMMA StoreInvInductive == StoreInv /\ [Next]_vars => StoreInv'
  <1> SUFFICES ASSUME StoreInv, [Next]_vars
               PROVE  StoreInv'
    OBVIOUS
  <1>1. GateInv'
    BY GateStepInv, StoreUsesGate DEF StoreInv
  <1>2. ASSUME NEW op \in Callers, Keeps(op)
        PROVE  StoreInv'
    BY <1>1, <1>2, MovesKeep DEF Keeps
  <1>3. ASSUME NEW op \in Callers, Call(op)
        PROVE  StoreInv'
    BY <1>2, <1>3, CallGatedStep, CallUnadmittedStep, PollStep, CallExternalStep DEF Call
  <1>4. ASSUME NEW op \in Callers, Proceed(op)
        PROVE  StoreInv'
    <2>1. Keeps(op)
      BY <1>4, EnterMutationStep, EnterReadStep, TrashGrantedStep, MainGrantedStep,
         WorkEndsStep, ScanFailsStep, ScanSucceedsStep, GraphSucceedsStep,
         UnwindStep, StopSettlesStep, StopCrossesStep, StopInnerStep
      DEF Proceed
    <2> QED
      BY <1>2, <2>1
  <1>5. ASSUME NEW op \in Callers, HostReleases(op) \/ Stop(op)
        PROVE  StoreInv'
    BY <1>1, <1>2, <1>5, HostReleasesStep, StopStep
  <1>6. CASE UNCHANGED vars
    <2>1. UNCHANGED <<activeMode, holders, waiting, idleWaiters, trash, main, at, task,
                      scan, inventory, barrier, stopped, revoked>>
      BY <1>6 DEF vars, gateVars, storeVars
    <2> QED
      BY <1>1, <2>1
      DEF StoreInv, StoreTypes, Distinct, Exclusive, Before, Standing, Stopping, Live, InGate,
          Queued, LastOf, UnawaitedOnly, PastGate, PastTrash, PastMain
  <1> QED
    BY <1>3, <1>4, <1>5, <1>6 DEF Next

LEMMA StoreKeepsInv == Spec => []StoreInv
  BY StoreInvInit, StoreInvInductive, PTL DEF Spec

\* The coordinators hold nobody twice, whatever joins and leaves them, and
\* every variable keeps its type.
THEOREM StoreTypesCorrect == Spec => []TypeOK
  <1>1. StoreInv => TypeOK
    BY DistinctLength DEF StoreInv, GateInv, StoreTypes, TypeOK
  <1> QED
    BY <1>1, StoreKeepsInv, PTL

\* While a drain holds everything, nobody but the host of a lease that stop()
\* took away is at work in the engine; and after it nobody but such a host or a
\* caller whom nobody admits, for any callers of any kinds, however many of them
\* stop the store and whenever they are called.
THEOREM EngineLeftAloneTheorem == Spec => []EngineLeftAlone
  <1>1. StoreInv => EngineLeftAlone
    <2> SUFFICES ASSUME StoreInv, NEW s \in OfKind("stop"),
                        NEW op \in Callers \ OfKind("stop"), at[op] = "work", op \notin revoked
                 PROVE  at[s] # "work" /\ (at[s] = "stopped" => IsUnadmitted(op))
      BY DEF EngineLeftAlone
    <2>1. /\ op \in Callers /\ op \in Live(main)
          /\ s \in Callers /\ KindOf[s] = "stop" /\ op # s
      BY DEF StoreInv, Standing, OfKind
    <2>2. ASSUME at[s] = "work"
          PROVE  FALSE
      <3>1. s \in Live(main)
        BY <2>1, <2>2 DEF StoreInv, Standing
      <3>2. Before(main, op, s) \/ Before(main, s, op)
        BY <2>1, <3>1, SomeOrder DEF StoreInv, StoreTypes
      <3>3. <<op, s>> \in MainConflicts /\ <<s, op>> \in MainConflicts
        BY <2>1, StopsConflict, MainSymmetric
      <3> QED
        BY <2>2, <3>2, <3>3 DEF StoreInv, Exclusive
    <2>3. ASSUME at[s] = "stopped"
          PROVE  IsUnadmitted(op)
      <3>1. UnawaitedOnly(main)
        BY <2>3 DEF StoreInv, Stopping, PastMain
      <3> QED
        BY <2>1, <3>1 DEF UnawaitedOnly, Unawaited, OfKind
    <2> QED
      BY <2>2, <2>3
  <1> QED
    BY <1>1, StoreKeepsInv, PTL

\* The operations inside their storage claims do not conflict.
WorkExcludes ==
    \A a, b \in Callers \ revoked :
        a # b /\ at[a] = "work" /\ at[b] = "work" => <<a, b>> \notin MainConflicts

\* Two operations at work in the engine have claims that do not conflict, unless
\* stop() has taken the claim of one away: a causal publication, a scan and a
\* drain are alone, and so are two mutations of one note
\* (mutationCoordinator.run).
THEOREM WorkExcludesTheorem == Spec => []WorkExcludes
  <1>1. ASSUME StoreInv, NEW a \in Callers \ revoked, NEW b \in Callers \ revoked, a # b,
               at[a] = "work", at[b] = "work"
        PROVE  <<a, b>> \notin MainConflicts
    <2>1. a \in Live(main) /\ b \in Live(main)
      BY <1>1 DEF StoreInv, Standing
    <2>2. Before(main, a, b) \/ Before(main, b, a)
      BY <1>1, <2>1, SomeOrder DEF StoreInv, StoreTypes
    <2>3. <<b, a>> \notin MainConflicts => <<a, b>> \notin MainConflicts
      BY MainSymmetric
    <2> QED
      BY <1>1, <2>2, <2>3 DEF StoreInv, Exclusive
  <1>2. StoreInv => WorkExcludes
    BY <1>1 DEF WorkExcludes
  <1> QED
    BY <1>2, StoreKeepsInv, PTL

=============================================================================
