---------------------- MODULE MutationCoordinatorProofs ----------------------
(***************************************************************************)
(* No work outlives its fence, and no lease is kept without use, for any   *)
(* calls, any number of child scopes and any claims.                       *)
(*                                                                         *)
(* What the queue guarantees is taken from ClaimQueueProofs.  The scopes   *)
(* form a forest whose depth is not bounded; instead of an induction over  *)
(* it, the invariant carries two witnesses that every OpenChild extends: a *)
(* rank that grows from parent to child, and the function from scopes to   *)
(* roots (Forest).                                                         *)
(***************************************************************************)
EXTENDS MutationCoordinator, FiniteSetTheorems, WellFoundedInduction, TLAPS

QP == INSTANCE ClaimQueueProofs WITH MaxTickets <- Cardinality(Calls), Requests <- Claim

-----------------------------------------------------------------------------
(* The queue of the coordinator is the queue the lemmas are about.         *)

\* The operators of the two instances are the same, from the bottom up:
\* the tickets.
LEMMA TicketSame == Q!Ticket = QP!Ticket /\ Q!None = QP!None
  BY Zenon DEF Q!Ticket, QP!Ticket, Q!None, QP!None

\* The live waiters.
LEMMA LiveSame ==
  ASSUME NEW q
  PROVE  Q!Live(q) = QP!Live(q)
  BY Zenon DEF Q!Live, QP!Live, Q!Ticket, QP!Ticket

\* canStart.
LEMMA CanStartSame ==
  ASSUME NEW q, NEW t
  PROVE  Q!CanStart(q, t) <=> QP!CanStart(q, t)
  BY Zenon DEF Q!CanStart, QP!CanStart, Q!IsLiveHead, QP!IsLiveHead, Q!IsKeyHead,
     QP!IsKeyHead, Q!EarlierOn, QP!EarlierOn, Q!ExactFree, QP!ExactFree, Q!AncestorsFree,
     QP!AncestorsFree, Q!PrefixesFree, QP!PrefixesFree, Q!Live, QP!Live, Q!Ticket,
     QP!Ticket, Q!None, QP!None, Q!IsUnder, QP!IsUnder, Q!PathAncestors,
     QP!PathAncestors, Q!ReachesInto, QP!ReachesInto, Q!ClaimsConflict,
     QP!ClaimsConflict, Q!ExactKeys, QP!ExactKeys, Q!PrefixKey, QP!PrefixKey,
     Q!GlobalKey, QP!GlobalKey

\* An activation.
LEMMA ActivateSame ==
  ASSUME NEW q, NEW S
  PROVE  Q!Activate(q, S) = QP!Activate(q, S)
  BY Zenon DEF Q!Activate, QP!Activate, Q!Cardinality, QP!Cardinality, Q!Entry, QP!Entry,
     Q!Ticket, QP!Ticket, Q!ExactKeys, QP!ExactKeys, Q!ExactKey, QP!ExactKey

\* acquire, before its tryStart.
LEMMA EnqueuedSame ==
  ASSUME NEW q, NEW t, NEW claim
  PROVE  Q!Enqueued(q, t, claim) = QP!Enqueued(q, t, claim)
  BY Zenon DEF Q!Enqueued, QP!Enqueued, Q!HasPrefixes, QP!HasPrefixes,
     Q!MembershipKeys, QP!MembershipKeys, Q!ExactKeys, QP!ExactKeys, Q!PrefixKeys,
     QP!PrefixKeys, Q!GlobalKey, QP!GlobalKey

\* finalRelease, before its wakeAfter.
LEMMA RemoveSame ==
  ASSUME NEW q, NEW t
  PROVE  Q!Remove(q, t) = QP!Remove(q, t)
  BY Zenon DEF Q!Remove, QP!Remove, Q!RemoveActive, QP!RemoveActive, Q!HasPrefixes,
     QP!HasPrefixes, Q!None, QP!None, Q!EmptyClaim, QP!EmptyClaim, Q!ExactKeys,
     QP!ExactKeys, Q!ExactKey, QP!ExactKey

\* retry, before its tryStart.
LEMMA RequeuedSame ==
  ASSUME NEW q, NEW t, NEW claim
  PROVE  Q!Requeued(q, t, claim) = QP!Requeued(q, t, claim)
  BY Zenon DEF Q!Requeued, QP!Requeued, Q!RemoveActive, QP!RemoveActive,
     Q!GainedPrefixes, QP!GainedPrefixes, Q!HasPrefixes, QP!HasPrefixes, Q!None,
     QP!None, Q!MembershipKeys, QP!MembershipKeys, Q!ExactKeys, QP!ExactKeys,
     Q!ExactKey, QP!ExactKey, Q!PrefixKeys, QP!PrefixKeys, Q!GlobalKey, QP!GlobalKey

\* The candidates of a wake-up.
LEMMA WakeSame ==
  ASSUME NEW q, NEW claim, NEW skip
  PROVE  Q!WakeCandidates(q, claim, skip) = QP!WakeCandidates(q, claim, skip)
  BY Zenon DEF Q!WakeCandidates, QP!WakeCandidates, Q!ScansLiveList, QP!ScansLiveList,
     Q!Waiting, QP!Waiting, Q!IsKeyHead, QP!IsKeyHead, Q!Ticket, QP!Ticket, Q!IsUnder,
     QP!IsUnder, Q!ReachesInto, QP!ReachesInto, Q!ClaimsConflict, QP!ClaimsConflict,
     Q!ExactKeys, QP!ExactKeys, Q!PrefixKeys, QP!PrefixKeys, Q!GlobalKey, QP!GlobalKey

\* A wake-up.
LEMMA TrySame ==
  ASSUME NEW q, NEW candidates, NEW r
  PROVE  Q!TryCandidates(q, candidates, r) <=> QP!TryCandidates(q, candidates, r)
  <1>1. \A S, t : Q!CanStart(Q!Activate(q, S), t) <=> QP!CanStart(QP!Activate(q, S), t)
    BY CanStartSame, ActivateSame
  <1> QED
    BY <1>1, ActivateSame DEF Q!TryCandidates, QP!TryCandidates

\* The three operations.
LEMMA StepsSame ==
  ASSUME NEW q, NEW t, NEW claim, NEW r
  PROVE  /\ Q!AcquireStep(q, claim, r) <=> QP!AcquireStep(q, claim, r)
         /\ Q!ReleaseStep(q, t, r) <=> QP!ReleaseStep(q, t, r)
         /\ Q!RetryStep(q, t, claim, r) <=> QP!RetryStep(q, t, claim, r)
  <1>1. Q!AcquireStep(q, claim, r) <=> QP!AcquireStep(q, claim, r)
    BY Zenon, TicketSame, EnqueuedSame, TrySame
    DEF Q!AcquireStep, QP!AcquireStep, Q!TryStart, QP!TryStart
  <1>2. Q!ReleaseStep(q, t, r) <=> QP!ReleaseStep(q, t, r)
    BY Zenon, RemoveSame, WakeSame, TrySame DEF Q!ReleaseStep, QP!ReleaseStep
  <1>3. Q!RetryStep(q, t, claim, r) <=> QP!RetryStep(q, t, claim, r)
    BY Zenon, RequeuedSame, CanStartSame, ActivateSame, WakeSame, TrySame
    DEF Q!RetryStep, QP!RetryStep
  <1> QED
    BY <1>1, <1>2, <1>3

-----------------------------------------------------------------------------
(* The invariant.                                                          *)

\* The queue is in order: its indexes are exact and its runners compatible.
InOrder(q) == QP!Indexed(q) /\ QP!NoConflict(q)

FieldTypes ==
    /\ ticket \in [Calls -> Q!Ticket \cup {Q!None}]
    /\ phase \in [Scopes -> {"idle", "queued", "running", "settled",
                             "joining", "done", "failed"}]
    /\ parent \in [Children -> Scopes \cup {NoScope}]

\* A call at work has a running waiter, a waiting call a live one.
TicketsHeld ==
    \A c \in Calls :
        /\ phase[c] = "idle" => ticket[c] = Q!None
        /\ phase[c] = "queued" => ticket[c] \in QP!Live(queue)
        /\ phase[c] \in {"running", "settled", "joining"} => ticket[c] \in QP!Active(queue)
        /\ ticket[c] # Q!None => queue.state[ticket[c]] # "unborn"

\* No two calls share a waiter.
TicketsDiffer ==
    \A c, d \in Calls : ticket[c] = ticket[d] /\ ticket[c] # Q!None => c = d

\* Every live waiter has its call.
TicketsOwned ==
    \A t \in QP!Live(queue) :
        \E c \in Calls :
            /\ ticket[c] = t
            /\ phase[c] \in {"queued", "running", "settled", "joining"}

\* An unsettled child has an unsettled parent, which runs a callback.
ChildrenInside ==
    \A k \in Children :
        /\ phase[k] \in {"idle", "running", "settled", "joining", "done"}
        /\ phase[k] = "idle" <=> parent[k] = NoScope
        /\ parent[k] # NoScope => parent[k] \in Callbacks /\ phase[parent[k]] # "idle"
        /\ phase[k] \in {"running", "settled", "joining"}
              => phase[parent[k]] \in {"running", "settled", "joining"}

IsRank(rank) ==
    \A k \in Children : parent[k] # NoScope => rank[parent[k]] < rank[k]

IsRoot(root) ==
    root = [s \in Scopes |->
              IF s \in Calls \/ parent[s] = NoScope THEN s ELSE root[parent[s]]]

\* The parents form a forest: there is a rank, and a root for every scope.
Forest ==
    /\ \E rank \in [Scopes -> Nat] : IsRank(rank)
    /\ \E root : IsRoot(root)

IInv ==
    /\ InOrder(queue)
    /\ FieldTypes
    /\ TicketsHeld
    /\ TicketsDiffer
    /\ TicketsOwned
    /\ ChildrenInside
    /\ Forest

-----------------------------------------------------------------------------
(* What the steps do to the queue.                                         *)

\* What ClaimQueue assumes of its constants holds here.
LEMMA QueueConstants == Cardinality(Calls) \in Nat /\ Claim \subseteq QP!Claim
  BY CoordinatorAssumption, FS_CardinalityType DEF Claim, QP!Claim

\* The claim algebra of the queue is the one of the coordinator.
LEMMA ClaimsSame ==
  /\ QP!Claim = Claim
  /\ \A c, d : QP!UnionClaims(c, d) = UnionClaims(c, d)
  /\ \A c, d : QP!ClaimsConflict(c, d) <=> ClaimsConflict(c, d)
  BY Zenon DEF QP!Claim, Claim, QP!UnionClaims, UnionClaims, QP!ClaimsConflict,
     ClaimsConflict, QP!ReachesInto, ReachesInto, QP!IsUnder, IsUnder

\* The wait of a new call, before its phase changes.
LEMMA AcquireEffect ==
  ASSUME NEW q, InOrder(q), NEW claim \in Claim, NEW r, Q!AcquireStep(q, claim, r)
  PROVE  LET t == q.nextTicket IN
         /\ InOrder(r) /\ t \in Q!Ticket /\ q.state[t] = "unborn"
         /\ QP!Live(r) = QP!Live(q) \cup {t} /\ QP!Active(q) \subseteq QP!Active(r)
         /\ \A o \in Q!Ticket : r.state[o] = "unborn" <=> o # t /\ q.state[o] = "unborn"
         /\ \A o \in Q!Ticket \ {t} : r.claim[o] = q.claim[o]
  <1>1. QP!AcquireStep(q, claim, r) /\ claim \in QP!Claim
    BY StepsSame, ClaimsSame
  <1>2. QP!Indexed(q) /\ QP!NoConflict(q)
    BY DEF InOrder
  <1>3. QP!Indexed(r) /\ QP!NoConflict(r)
    BY <1>1, <1>2, PathsAssumption, QueueConstants, QP!AcquireSafe
  <1> QED
    BY <1>1, <1>2, <1>3, PathsAssumption, QueueConstants, QP!AcquireAdds, TicketSame DEF InOrder

\* The end of a lease.
LEMMA ReleaseEffect ==
  ASSUME NEW q, InOrder(q), NEW t \in Q!Ticket, NEW r, Q!ReleaseStep(q, t, r)
  PROVE  /\ InOrder(r)
         /\ QP!Live(r) = QP!Live(q) \ {t} /\ QP!Active(q) \ {t} \subseteq QP!Active(r)
         /\ \A o \in Q!Ticket : r.state[o] = "unborn" <=> q.state[o] = "unborn"
         /\ \A o \in Q!Ticket \ {t} : r.claim[o] = q.claim[o]
  <1>1. QP!ReleaseStep(q, t, r) /\ t \in QP!Ticket
    BY StepsSame, TicketSame
  <1>2. QP!Indexed(q) /\ QP!NoConflict(q)
    BY DEF InOrder
  <1>3. QP!Indexed(r) /\ QP!NoConflict(r)
    BY <1>1, <1>2, PathsAssumption, QueueConstants, QP!ReleaseSafe
  <1> QED
    BY <1>1, <1>2, <1>3, PathsAssumption, QueueConstants, QP!ReleaseTakes, TicketSame DEF InOrder

\* A retry with what the held claim did not cover.
LEMMA RetryEffect ==
  ASSUME NEW q, InOrder(q), NEW t \in Q!Ticket, NEW current \in Claim,
         NEW r, Q!RetryStep(q, t, UnionClaims(q.claim[t], current), r)
  PROVE  /\ InOrder(r)
         /\ QP!Live(r) = QP!Live(q) /\ QP!Active(q) \ {t} \subseteq QP!Active(r)
         /\ \A o \in Q!Ticket : r.state[o] = "unborn" <=> q.state[o] = "unborn"
         /\ \A o \in Q!Ticket \ {t} : r.claim[o] = q.claim[o]
  <1> DEFINE d == UnionClaims(q.claim[t], current)
  <1>1. QP!RetryStep(q, t, d, r) /\ t \in QP!Ticket
    BY StepsSame, TicketSame
  <1>2. QP!Indexed(q) /\ QP!NoConflict(q)
    BY DEF InOrder
  <1>3. q.claim[t] \in QP!Claim /\ current \in QP!Claim
    BY <1>1, <1>2, ClaimsSame DEF QP!Indexed, QP!QueueType
  <1>4. d = QP!UnionClaims(q.claim[t], current)
    BY ClaimsSame
  <1>5. /\ d \in QP!Claim
        /\ QP!MembershipKeys(q.claim[t]) \subseteq QP!MembershipKeys(d)
        /\ q.claim[t].prefixes \subseteq d.prefixes
    BY <1>3, <1>4, PathsAssumption, QueueConstants, QP!UnionOfClaims
  <1> HIDE DEF d
  <1>6. QP!Indexed(r) /\ QP!NoConflict(r)
    BY <1>1, <1>2, <1>5, PathsAssumption, QueueConstants, QP!RetrySafe
  <1> QED
    BY <1>1, <1>2, <1>5, <1>6, PathsAssumption, QueueConstants, QP!RetryKeeps, TicketSame
    DEF InOrder

-----------------------------------------------------------------------------
(* The steps.  The derivations of the callers of this component return     *)
(* claims that depend on their own state, so what follows is about any     *)
(* claims, not those in Requests alone.                                    *)

\* CallSteps, whatever is derived.
ClaimCallSteps(c) ==
    \/ Resume(c)
    \/ \E current \in Claim \cup {Thrown} : ResumeStable(c, current)
    \/ Finish(c)

\* Next, whatever is derived.
ClaimNext ==
    \/ \E c \in Calls, claim \in Claim \cup {Thrown} : Start(c, claim)
    \/ \E s \in Scopes, k \in Children, candidate \in Claim : OpenChild(s, k, candidate)
    \/ \E c \in Calls : ClaimCallSteps(c)
    \/ \E s \in Scopes : ScopeSteps(s)

-----------------------------------------------------------------------------
(* The invariant holds initially and is kept.                              *)

\* No call was made yet.
LEMMA InvInit == Init => IInv
  <1> SUFFICES ASSUME Init PROVE IInv
    OBVIOUS
  <1>1. queue = QP!EmptyQueue
    BY Zenon DEF Init, Q!EmptyQueue, QP!EmptyQueue, Q!Ticket, QP!Ticket, Q!None, QP!None,
       Q!EmptyClaim, QP!EmptyClaim, Q!ExactKey, QP!ExactKey
  <1>2. InOrder(queue)
    BY <1>1, PathsAssumption, QueueConstants, QP!InvInit DEF QP!Init, QP!IInv, InOrder
  <1>3. FieldTypes /\ TicketsHeld /\ TicketsDiffer /\ ChildrenInside
    BY CoordinatorAssumption
    DEF Init, FieldTypes, TicketsHeld, TicketsDiffer, ChildrenInside, Scopes
  <1>4. TicketsOwned
    BY <1>1 DEF TicketsOwned, QP!Live, QP!EmptyQueue
  <1>5. Forest
    <2>1. [s \in Scopes |-> 0] \in [Scopes -> Nat] /\ IsRank([s \in Scopes |-> 0])
      BY DEF Init, IsRank
    <2>2. IsRoot([s \in Scopes |-> s])
      BY DEF Init, IsRoot, Scopes
    <2> QED
      BY <2>1, <2>2 DEF Forest
  <1> QED
    BY <1>2, <1>3, <1>4, <1>5 DEF IInv

\* The absent waiter is none.
LEMMA NoneIsNoTicket == Q!None \notin Q!Ticket
  BY QueueConstants DEF Q!None, Q!Ticket

\* The guard of every release: the waiter of the call runs.
LEMMA GrantedRuns ==
  ASSUME NEW c \in Calls, FieldTypes
  PROVE  Granted(c) <=> ticket[c] \in QP!Active(queue)
  BY TicketSame, NoneIsNoTicket DEF Granted, FieldTypes, QP!Active

\* A call keeps its lease until it finishes: the steps that give one back
\* belong to the call that holds it.
LEMMA HeldRuns ==
  ASSUME NEW c \in Calls, TicketsHeld, phase[c] \in {"running", "settled", "joining"}
  PROVE  ticket[c] \in Q!Ticket /\ ticket[c] \in QP!Active(queue)
  BY TicketSame DEF TicketsHeld, QP!Active

\* The queue and the tickets, over a step that releases the lease of c.
LEMMA ReleaseKeeps ==
  ASSUME IInv, NEW c \in Calls, ticket[c] \in QP!Active(queue),
         Q!ReleaseStep(queue, ticket[c], queue'),
         NEW end \in {"done", "failed"}, phase' = [phase EXCEPT ![c] = end],
         UNCHANGED ticket
  PROVE  InOrder(queue)' /\ TicketsHeld' /\ TicketsOwned'
  <1>1. ticket[c] \in Q!Ticket
    BY TicketSame DEF QP!Active
  <1>2. /\ InOrder(queue')
        /\ QP!Live(queue') = QP!Live(queue) \ {ticket[c]}
        /\ QP!Active(queue) \ {ticket[c]} \subseteq QP!Active(queue')
        /\ \A o \in Q!Ticket : queue'.state[o] = "unborn" <=> queue.state[o] = "unborn"
    BY <1>1, ReleaseEffect DEF IInv
  <1>3. \A o \in Calls : phase'[o] = IF o = c THEN end ELSE phase[o]
    BY DEF IInv, FieldTypes, Scopes
  <1>4. \A o \in Calls \ {c} : ticket[o] # Q!None => ticket[o] # ticket[c]
    BY DEF IInv, TicketsDiffer
  <1>5. \A o \in Calls : ticket[o] \in Q!Ticket \cup {Q!None}
    BY DEF IInv, FieldTypes
  <1>6. \A t \in QP!Live(queue) \cup QP!Active(queue) : t # Q!None
    BY TicketSame, NoneIsNoTicket DEF QP!Live, QP!Active
  <1>7. TicketsHeld'
    BY <1>2, <1>3, <1>4, <1>5, <1>6 DEF IInv, TicketsHeld
  <1>8. TicketsOwned'
    BY <1>2, <1>3 DEF IInv, TicketsOwned
  <1> QED
    BY <1>2, <1>7, <1>8 DEF InOrder

\* The queue and the tickets, over every step.
LEMMA TicketsInductive ==
  ASSUME IInv, [ClaimNext]_vars
  PROVE  InOrder(queue)' /\ TicketsHeld' /\ TicketsDiffer' /\ TicketsOwned'
  <1> USE DEF InOrder
  <1>1. \A t \in QP!Live(queue) \cup QP!Active(queue) : t \in Q!Ticket /\ t # Q!None
    BY TicketSame, NoneIsNoTicket DEF QP!Live, QP!Active
  <1>2. QP!Active(queue) \subseteq QP!Live(queue)
    BY DEF QP!Live, QP!Active
  <1>3. ASSUME NEW c \in Calls, NEW claim \in Claim \cup {Thrown}, Start(c, claim)
        PROVE  InOrder(queue)' /\ TicketsHeld' /\ TicketsDiffer' /\ TicketsOwned'
    <2>1. CASE claim = Thrown
      <3>1. /\ queue' = queue /\ ticket' = ticket
            /\ \A o \in Calls : phase'[o] = IF o = c THEN "failed" ELSE phase[o]
        BY <1>3, <2>1 DEF Start, IInv, FieldTypes, Scopes
      <3>2. TicketsOwned'
        BY <3>1, <1>3 DEF IInv, TicketsOwned, Start
      <3> QED
        BY <3>1, <3>2 DEF IInv, TicketsHeld, TicketsDiffer
    <2>2. CASE claim # Thrown
      <3> DEFINE t == queue.nextTicket
      <3>1. /\ phase[c] = "idle" /\ Q!AcquireStep(queue, claim, queue')
            /\ \A o \in Calls : ticket'[o] = IF o = c THEN t ELSE ticket[o]
            /\ \A o \in Calls : phase'[o] = IF o = c THEN "queued" ELSE phase[o]
        BY <1>3, <2>2 DEF Start, IInv, FieldTypes, Scopes
      <3>2. /\ InOrder(queue') /\ t \in Q!Ticket /\ queue.state[t] = "unborn"
            /\ QP!Live(queue') = QP!Live(queue) \cup {t}
            /\ QP!Active(queue) \subseteq QP!Active(queue')
            /\ \A o \in Q!Ticket :
                  queue'.state[o] = "unborn" <=> o # t /\ queue.state[o] = "unborn"
        BY <2>2, <3>1, AcquireEffect DEF IInv
      <3> HIDE DEF t
      <3>3. \A o \in Calls : ticket[o] \in Q!Ticket \cup {Q!None}
        BY DEF IInv, FieldTypes
      <3>4. TicketsHeld'
        BY <3>1, <3>2, <3>3 DEF IInv, TicketsHeld
      <3>5. \A o \in Calls : ticket[o] # t
        BY <3>2, <3>3, NoneIsNoTicket DEF IInv, TicketsHeld
      <3>6. TicketsDiffer'
        BY <3>1, <3>5 DEF IInv, TicketsDiffer
      <3>7. ticket[c] = Q!None
        BY <3>1 DEF IInv, TicketsHeld
      <3>8. TicketsOwned'
        BY <1>1, <3>1, <3>2, <3>7 DEF IInv, TicketsOwned
      <3> QED
        BY <3>2, <3>4, <3>6, <3>8
    <2> QED
      BY <2>1, <2>2
  <1>4. ASSUME NEW c \in Calls, Resume(c)
        PROVE  InOrder(queue)' /\ TicketsHeld' /\ TicketsDiffer' /\ TicketsOwned'
    <2>1. /\ queue' = queue /\ ticket' = ticket /\ ticket[c] \in QP!Active(queue)
          /\ \A o \in Calls : phase'[o] = IF o = c THEN "running" ELSE phase[o]
      BY <1>4, GrantedRuns DEF Resume, IInv, FieldTypes, Scopes
    <2> QED
      BY <2>1 DEF IInv, TicketsHeld, TicketsDiffer, TicketsOwned
  <1>5. ASSUME NEW c \in Calls, NEW current \in Claim \cup {Thrown}, ResumeStable(c, current)
        PROVE  InOrder(queue)' /\ TicketsHeld' /\ TicketsDiffer' /\ TicketsOwned'
    <2>1. phase[c] = "queued" /\ ticket[c] \in QP!Active(queue) /\ ticket' = ticket
      BY <1>5, GrantedRuns DEF ResumeStable, IInv
    <2>2. TicketsDiffer'
      BY <2>1 DEF IInv, TicketsDiffer
    <2>3. CASE current = Thrown
      BY <1>5, <2>1, <2>2, <2>3, ReleaseKeeps DEF ResumeStable, FailStable
    <2>4. CASE current # Thrown /\ ClaimCovers(HeldClaim(c), current)
      <3>1. /\ queue' = queue
            /\ \A o \in Calls : phase'[o] = IF o = c THEN "running" ELSE phase[o]
        BY <1>5, <2>4 DEF ResumeStable, EnterStable, IInv, FieldTypes, Scopes
      <3> QED
        BY <2>1, <2>2, <3>1 DEF IInv, TicketsHeld, TicketsOwned
    <2>5. CASE current # Thrown /\ ~ClaimCovers(HeldClaim(c), current)
      <3>1. /\ Q!RetryStep(queue, ticket[c],
                           UnionClaims(queue.claim[ticket[c]], current), queue')
            /\ phase' = phase
        BY <1>5, <2>5 DEF ResumeStable, RetryStable, HeldClaim
      <3>2. /\ InOrder(queue') /\ QP!Live(queue') = QP!Live(queue)
            /\ QP!Active(queue) \ {ticket[c]} \subseteq QP!Active(queue')
            /\ \A o \in Q!Ticket : queue'.state[o] = "unborn" <=> queue.state[o] = "unborn"
        BY <1>1, <2>1, <2>5, <3>1, RetryEffect DEF IInv
      <3>3. \A o \in Calls : ticket[o] \in Q!Ticket \cup {Q!None}
        BY DEF IInv, FieldTypes
      <3>4. \A o \in Calls \ {c} : ticket[o] # Q!None => ticket[o] # ticket[c]
        BY DEF IInv, TicketsDiffer
      <3>5. TicketsHeld'
        BY <1>1, <2>1, <3>1, <3>2, <3>3, <3>4 DEF IInv, TicketsHeld
      <3>6. TicketsOwned'
        BY <2>1, <3>1, <3>2 DEF IInv, TicketsOwned
      <3> QED
        BY <2>2, <3>2, <3>5, <3>6
    <2> QED
      BY <2>3, <2>4, <2>5
  <1>6. ASSUME NEW c \in Calls, Finish(c)
        PROVE  InOrder(queue)' /\ TicketsHeld' /\ TicketsDiffer' /\ TicketsOwned'
    <2>1. ticket[c] \in QP!Active(queue)
      BY <1>6, HeldRuns DEF Finish, IInv
    <2>2. TicketsDiffer'
      BY <1>6 DEF Finish, IInv, TicketsDiffer
    <2> QED
      BY <1>6, <2>1, <2>2, ReleaseKeeps DEF Finish
  <1>7. ASSUME UNCHANGED <<queue, ticket>>,
               \A c \in Calls :
                  \/ phase'[c] = phase[c]
                  \/ /\ phase[c] \in {"running", "settled", "joining"}
                     /\ phase'[c] \in {"running", "settled", "joining"}
        PROVE  InOrder(queue)' /\ TicketsHeld' /\ TicketsDiffer' /\ TicketsOwned'
    BY <1>7 DEF IInv, TicketsHeld, TicketsDiffer, TicketsOwned
  <1>8. ASSUME NEW s \in Scopes, NEW k \in Children, NEW candidate \in Claim,
               OpenChild(s, k, candidate)
        PROVE  InOrder(queue)' /\ TicketsHeld' /\ TicketsDiffer' /\ TicketsOwned'
    <2>1. UNCHANGED <<queue, ticket>> /\ \A c \in Calls : phase'[c] = phase[c]
      BY <1>8, CoordinatorAssumption DEF OpenChild, IInv, FieldTypes, Scopes
    <2> QED
      BY <1>7, <2>1
  <1>9. ASSUME NEW s \in Scopes, ScopeSteps(s)
        PROVE  InOrder(queue)' /\ TicketsHeld' /\ TicketsDiffer' /\ TicketsOwned'
    <2>1. /\ UNCHANGED <<queue, ticket>>
          /\ \A c \in Calls :
                  \/ phase'[c] = phase[c]
                  \/ /\ phase[c] \in {"running", "settled", "joining"}
                     /\ phase'[c] \in {"running", "settled", "joining"}
      BY <1>9, CoordinatorAssumption
      DEF ScopeSteps, SettleTask, Deactivate, SettleChild, IInv, FieldTypes, Scopes
    <2> QED
      BY <1>7, <2>1
  <1>10. CASE UNCHANGED vars
    BY <1>7, <1>10 DEF vars
  <1> QED
    BY <1>3, <1>4, <1>5, <1>6, <1>8, <1>9, <1>10 DEF ClaimNext, ClaimCallSteps

\* The types of the fields.
LEMMA FieldsInductive ==
  ASSUME IInv, [ClaimNext]_vars
  PROVE  FieldTypes'
  <1>1. FieldTypes
    BY DEF IInv
  <1>2. ASSUME NEW c \in Calls, NEW claim \in Claim \cup {Thrown}, Start(c, claim)
        PROVE  FieldTypes'
    <2>1. CASE claim = Thrown
      BY <1>1, <1>2, <2>1 DEF Start, FieldTypes
    <2>2. CASE claim # Thrown
      <3>1. queue.nextTicket \in Q!Ticket
        BY <1>2, <2>2 DEF Start, Q!AcquireStep
      <3> QED
        BY <1>1, <1>2, <2>2, <3>1 DEF Start, FieldTypes
    <2> QED
      BY <2>1, <2>2
  <1>3. ASSUME NEW s \in Scopes, NEW k \in Children, NEW candidate \in Claim,
               OpenChild(s, k, candidate)
        PROVE  FieldTypes'
    BY <1>1, <1>3 DEF OpenChild, FieldTypes
  <1>4. ASSUME NEW c \in Calls, ClaimCallSteps(c)
        PROVE  FieldTypes'
    BY <1>1, <1>4
    DEF ClaimCallSteps, Resume, ResumeStable, FailStable, EnterStable, RetryStable, Finish, FieldTypes
  <1>5. ASSUME NEW s \in Scopes, ScopeSteps(s)
        PROVE  FieldTypes'
    BY <1>1, <1>5 DEF ScopeSteps, SettleTask, Deactivate, SettleChild, FieldTypes
  <1>6. CASE UNCHANGED vars
    BY <1>1, <1>6 DEF vars, FieldTypes
  <1> QED
    BY <1>2, <1>3, <1>4, <1>5, <1>6 DEF ClaimNext

\* A child opens inside an active scope, and no scope ends before the
\* children it had when it was deactivated; it can get none after that.
LEMMA ChildrenInductive ==
  ASSUME IInv, [ClaimNext]_vars
  PROVE  ChildrenInside'
  <1> DEFINE held == {"running", "settled", "joining"}
  <1>1. /\ FieldTypes /\ ChildrenInside
        /\ \A k \in Children : k \notin Calls /\ k \in Scopes
        /\ NoScope \notin Scopes
    BY CoordinatorAssumption DEF IInv, Scopes
  <1>2. ASSUME NEW s \in Scopes, UNCHANGED parent,
               \A o \in Scopes \ {s} : phase'[o] = phase[o],
               phase'[s] # "idle",
               s \in Children => phase[s] \in held /\ phase'[s] \in held \cup {"done"},
               \/ phase[s] \notin held
               \/ phase'[s] \in held
               \/ \A k \in Children : parent[k] = s => phase[k] \notin held
        PROVE  ChildrenInside'
    <2> SUFFICES ASSUME NEW k \in Children
                 PROVE  /\ phase'[k] \in {"idle", "running", "settled", "joining", "done"}
                        /\ phase'[k] = "idle" <=> parent[k] = NoScope
                        /\ parent[k] # NoScope
                              => parent[k] \in Callbacks /\ phase'[parent[k]] # "idle"
                        /\ phase'[k] \in held => phase'[parent[k]] \in held
      BY <1>2 DEF ChildrenInside
    <2>1. parent[k] \in Scopes \cup {NoScope}
      BY <1>1 DEF FieldTypes
    <2>2. CASE parent[k] = NoScope
      BY <1>1, <1>2, <2>2 DEF ChildrenInside
    <2>3. CASE parent[k] \in Scopes
      <3>1. parent[k] # NoScope
        BY <1>1, <2>3
      <3> QED
        BY <1>1, <1>2, <2>3, <3>1 DEF ChildrenInside
    <2> QED
      BY <2>1, <2>2, <2>3
  <1>3. ASSUME NEW c \in Calls, NEW claim \in Claim \cup {Thrown}, Start(c, claim)
        PROVE  ChildrenInside'
    <2>1. /\ parent' = parent /\ phase[c] = "idle" /\ c \in Scopes
          /\ \A o \in Scopes \ {c} : phase'[o] = phase[o]
          /\ phase'[c] \in {"queued", "failed"}
      BY <1>1, <1>3 DEF Start, FieldTypes, Scopes
    <2> QED
      BY <1>1, <1>2, <2>1
  <1>4. ASSUME NEW c \in Calls, ClaimCallSteps(c)
        PROVE  ChildrenInside'
    <2>1. CASE Resume(c)
      <3>1. /\ parent' = parent /\ phase[c] = "queued" /\ c \in Scopes
            /\ \A o \in Scopes \ {c} : phase'[o] = phase[o]
            /\ phase'[c] = "running"
        BY <1>1, <2>1 DEF Resume, FieldTypes, Scopes
      <3> QED
        BY <1>1, <1>2, <3>1
    <2>2. ASSUME NEW current \in Claim \cup {Thrown}, ResumeStable(c, current)
          PROVE  ChildrenInside'
      <3>1. /\ parent' = parent /\ phase[c] = "queued" /\ c \in Scopes
            /\ \A o \in Scopes \ {c} : phase'[o] = phase[o]
            /\ phase'[c] \in {"failed", "running", "queued"}
        BY <1>1, <2>2
        DEF ResumeStable, FailStable, EnterStable, RetryStable, FieldTypes, Scopes
      <3> QED
        BY <1>1, <1>2, <3>1
    <2>3. CASE Finish(c)
      <3>1. /\ parent' = parent /\ c \in Scopes
            /\ \A o \in Scopes \ {c} : phase'[o] = phase[o]
            /\ phase'[c] = "done"
        BY <1>1, <2>3 DEF Finish, FieldTypes, Scopes
      <3>2. \A k \in Children : parent[k] = c => phase[k] \notin held
        <4>1. CASE ChildrenSettled(c)
          BY <4>1 DEF ChildrenSettled, ChildrenOf
        <4>2. CASE MethodOf[c] = "acquire"
          <5>1. c \notin Callbacks /\ c # NoScope
            BY <1>1, <3>1, <4>2 DEF Callbacks
          <5> QED
            BY <1>1, <5>1 DEF ChildrenInside
        <4> QED
          BY <2>3, <4>1, <4>2 DEF Finish
      <3> QED
        BY <1>1, <1>2, <3>1, <3>2
    <2> QED
      BY <1>4, <2>1, <2>2, <2>3 DEF ClaimCallSteps
  <1>5. ASSUME NEW s \in Scopes, ScopeSteps(s)
        PROVE  ChildrenInside'
    <2>1. /\ parent' = parent
          /\ \A o \in Scopes \ {s} : phase'[o] = phase[o]
          /\ phase[s] \in held /\ phase'[s] \in held \cup {"done"}
      BY <1>1, <1>5 DEF ScopeSteps, SettleTask, Deactivate, SettleChild, FieldTypes
    <2>2. phase'[s] \in held \/ \A k \in Children : parent[k] = s => phase[k] \notin held
      BY <1>1, <1>5
      DEF ScopeSteps, SettleTask, Deactivate, SettleChild, FieldTypes, ChildrenSettled, ChildrenOf
    <2> QED
      BY <1>2, <2>1, <2>2
  <1>6. ASSUME NEW s \in Scopes, NEW k \in Children, NEW candidate \in Claim,
               OpenChild(s, k, candidate)
        PROVE  ChildrenInside'
    <2>1. /\ phase[k] = "idle" /\ phase[s] \in held /\ s \in Callbacks
          /\ \A o \in Scopes : phase'[o] = IF o = k THEN "running" ELSE phase[o]
          /\ \A o \in Children : parent'[o] = IF o = k THEN s ELSE parent[o]
      BY <1>1, <1>6 DEF OpenChild, IsActive, FieldTypes
    <2> SUFFICES ASSUME NEW x \in Children
                 PROVE  /\ phase'[x] \in {"idle", "running", "settled", "joining", "done"}
                        /\ phase'[x] = "idle" <=> parent'[x] = NoScope
                        /\ parent'[x] # NoScope
                              => parent'[x] \in Callbacks /\ phase'[parent'[x]] # "idle"
                        /\ phase'[x] \in held => phase'[parent'[x]] \in held
      BY DEF ChildrenInside
    <2>2. CASE x = k
      BY <1>1, <2>1, <2>2
    <2>3. CASE x # k
      <3>1. parent'[x] = parent[x] /\ phase'[x] = phase[x]
        BY <1>1, <2>1, <2>3
      <3>2. parent[x] \in Scopes \cup {NoScope}
        BY <1>1 DEF FieldTypes
      <3>3. CASE parent[x] = NoScope
        BY <1>1, <3>1, <3>3 DEF ChildrenInside
      <3>4. CASE parent[x] \in Scopes
        <4>1. parent[x] # NoScope /\ parent[x] # k
          BY <1>1, <2>1, <3>4 DEF ChildrenInside
        <4> QED
          BY <1>1, <2>1, <3>1, <3>4, <4>1 DEF ChildrenInside
      <3> QED
        BY <3>2, <3>3, <3>4
    <2> QED
      BY <2>2, <2>3
  <1>7. CASE UNCHANGED vars
    BY <1>1, <1>7 DEF vars, ChildrenInside
  <1> QED
    BY <1>3, <1>4, <1>5, <1>6, <1>7 DEF ClaimNext

\* A new child gets the rank after its parent's and the root of its parent.
LEMMA ForestInductive ==
  ASSUME IInv, [ClaimNext]_vars
  PROVE  Forest'
  <1>1. /\ FieldTypes /\ ChildrenInside
        /\ \A k \in Children : k \notin Calls /\ k \in Scopes
        /\ NoScope \notin Scopes
    BY CoordinatorAssumption DEF IInv, Scopes
  <1>2. ASSUME NEW s \in Scopes, NEW k \in Children, NEW candidate \in Claim,
               OpenChild(s, k, candidate)
        PROVE  Forest'
    <2>1. /\ phase[k] = "idle" /\ phase[s] # "idle" /\ s # k /\ parent[k] = NoScope
          /\ \A o \in Children : parent'[o] = IF o = k THEN s ELSE parent[o]
      BY <1>1, <1>2 DEF OpenChild, IsActive, FieldTypes
    <2>2. \A x \in Children : parent[x] # k
      BY <1>1, <2>1 DEF ChildrenInside
    <2>3. \A x \in Children : parent[x] \in Scopes \cup {NoScope}
      BY <1>1 DEF FieldTypes
    <2>4. \E rank \in [Scopes -> Nat] : IsRank(rank)'
      <3>1. PICK rank \in [Scopes -> Nat] : IsRank(rank)
        BY DEF IInv, Forest
      <3> DEFINE new == [rank EXCEPT ![k] = rank[s] + 1]
      <3>2. /\ new \in [Scopes -> Nat]
            /\ \A o \in Scopes : new[o] = IF o = k THEN rank[s] + 1 ELSE rank[o]
        BY <1>1
      <3>3. rank[s] < rank[s] + 1
        OBVIOUS
      <3> HIDE DEF new
      <3>4. \A x \in Children : parent'[x] # NoScope => new[parent'[x]] < new[x]
        BY <1>1, <2>1, <2>2, <2>3, <3>1, <3>2, <3>3 DEF IsRank
      <3> QED
        BY <3>2, <3>4 DEF IsRank
    <2>5. \E root : IsRoot(root)'
      <3>1. PICK root : IsRoot(root)
        BY DEF IInv, Forest
      <3>2. \A x \in Scopes :
               root[x] = IF x \in Calls \/ parent[x] = NoScope THEN x ELSE root[parent[x]]
        BY <3>1 DEF IsRoot
      <3> DEFINE new == [x \in Scopes |-> IF x = k THEN root[s] ELSE root[x]]
      <3>3. \A x \in Scopes :
               new[x] = IF x \in Calls \/ parent'[x] = NoScope THEN x ELSE new[parent'[x]]
        <4> SUFFICES ASSUME NEW x \in Scopes
                     PROVE  new[x] = IF x \in Calls \/ parent'[x] = NoScope
                                     THEN x ELSE new[parent'[x]]
          OBVIOUS
        <4>1. CASE x \in Calls
          BY <1>1, <3>2, <4>1
        <4>2. CASE x = k
          BY <1>1, <2>1, <4>2
        <4>3. CASE x \in Children /\ x # k
          BY <1>1, <2>1, <2>2, <2>3, <3>2, <4>3
        <4> QED
          BY <4>1, <4>2, <4>3 DEF Scopes
      <3>4. new = [x \in Scopes |-> IF x \in Calls \/ parent'[x] = NoScope
                                    THEN x ELSE new[parent'[x]]]
        BY <3>3
      <3> HIDE DEF new
      <3> QED
        BY <3>4 DEF IsRoot
    <2> QED
      BY <2>4, <2>5 DEF Forest
  <1>3. ASSUME UNCHANGED parent
        PROVE  Forest'
    BY <1>3 DEF IInv, Forest, IsRank, IsRoot
  <1>4. \/ \E s \in Scopes, k \in Children, candidate \in Claim : OpenChild(s, k, candidate)
        \/ UNCHANGED parent
    BY DEF ClaimNext, ClaimCallSteps, ScopeSteps, Start, Resume, ResumeStable, Finish, SettleTask,
       Deactivate, SettleChild, vars
  <1> QED
    BY <1>2, <1>3, <1>4

\* Whatever a derivation returns, every step keeps the invariant.
LEMMA ClaimInductive == IInv /\ [ClaimNext]_vars => IInv'
  BY TicketsInductive, FieldsInductive, ChildrenInductive, ForestInductive DEF IInv

\* The claims of the specification are among these.
LEMMA InvInductive == IInv /\ [Next]_vars => IInv'
  <1>1. Next => ClaimNext
    BY CoordinatorAssumption DEF Next, ClaimNext, CallSteps, ClaimCallSteps
  <1> QED
    BY <1>1, ClaimInductive

\* So it holds throughout.
LEMMA InvAlways == Spec => []IInv
  BY InvInit, InvInductive, PTL DEF Spec

-----------------------------------------------------------------------------
(* What follows from the invariant.                                        *)

\* The root the model speaks of is one the invariant provides.
LEMMA RootOfIsRoot ==
  ASSUME IInv
  PROVE  IsRoot(RootOf)
  <1>1. PICK root : IsRoot(root)
    BY DEF IInv, Forest
  <1> QED
    BY <1>1 DEF IsRoot, RootOf

\* The root of a working scope is a call at work: otherwise take a working
\* scope of least rank that is not so rooted, and look at its parent.
LEMMA RootsWork ==
  ASSUME IInv, NEW s \in Scopes, Working(s)
  PROVE  RootOf[s] \in Calls /\ Working(RootOf[s])
  <1> DEFINE Bad == {x \in Scopes : Working(x) /\ ~(RootOf[x] \in Calls /\ Working(RootOf[x]))}
             R == OpToRel(<, Nat)
  <1> SUFFICES ASSUME Bad # {} PROVE FALSE
    OBVIOUS
  <1>1. /\ FieldTypes /\ ChildrenInside
        /\ \A k \in Children : k \notin Calls /\ k \in Scopes
        /\ NoScope \notin Scopes
    BY CoordinatorAssumption DEF IInv, Scopes
  <1>2. \A x \in Scopes :
           RootOf[x] = IF x \in Calls \/ parent[x] = NoScope THEN x ELSE RootOf[parent[x]]
    <2> DEFINE root == RootOf
    <2>1. IsRoot(root)
      BY RootOfIsRoot
    <2> HIDE DEF root
    <2>2. \A x \in Scopes :
             root[x] = IF x \in Calls \/ parent[x] = NoScope THEN x ELSE root[parent[x]]
      BY <2>1 DEF IsRoot
    <2> QED
      BY <2>2 DEF root
  <1>3. PICK rank \in [Scopes -> Nat] : IsRank(rank)
    BY DEF IInv, Forest
  <1> DEFINE T == {rank[x] : x \in Bad}
  <1>4. T \subseteq Nat /\ T # {}
    BY <1>3
  <1>5. IsWellFoundedOn(R, Nat)
    BY NatLessThanWellFounded
  <1>6. \A m, n \in Nat : <<n, m>> \in R <=> n < m
    BY DEF OpToRel
  <1> HIDE DEF R
  <1>7. PICK m \in T : \A n \in T : <<n, m>> \notin R
    <2> HIDE DEF T
    <2> QED
      BY <1>4, <1>5, WFMin
  <1>8. PICK x \in Bad : m = rank[x]
    BY <1>7
  <1>9. x \in Scopes /\ Working(x)
    BY <1>8
  <1>10. x \notin Calls
    BY <1>2, <1>8, <1>9
  <1>11. x \in Children /\ phase[x] \in {"running", "settled", "joining"}
    BY <1>9, <1>10 DEF Scopes, Working
  <1>12. parent[x] # NoScope /\ parent[x] \in Scopes
    BY <1>1, <1>11 DEF ChildrenInside, FieldTypes
  <1>13. Working(parent[x])
    BY <1>1, <1>11, <1>12 DEF ChildrenInside, Working
  <1>14. rank[parent[x]] \in Nat /\ rank[parent[x]] < rank[x] /\ rank[x] \in Nat
    BY <1>3, <1>9, <1>11, <1>12 DEF IsRank
  <1>15. parent[x] \notin Bad
    BY <1>6, <1>7, <1>8, <1>14
  <1>16. RootOf[x] = RootOf[parent[x]]
    BY <1>2, <1>9, <1>10, <1>12
  <1> QED
    BY <1>8, <1>12, <1>13, <1>15, <1>16

\* Working scopes hang off calls that hold compatible leases.
LEMMA InvFenced == IInv => WorkIsFenced
  <1> SUFFICES ASSUME IInv PROVE WorkIsFenced
    OBVIOUS
  <1>1. /\ FieldTypes /\ TicketsHeld /\ TicketsDiffer /\ QP!NoConflict(queue)
    BY DEF IInv, InOrder
  <1>2. ASSUME NEW s \in Scopes, Working(s)
        PROVE  /\ RootOf[s] \in Calls /\ ticket[RootOf[s]] \in QP!Active(queue)
               /\ ticket[RootOf[s]] # Q!None /\ Granted(RootOf[s])
    <2> DEFINE c == RootOf[s]
    <2>1. c \in Calls /\ phase[c] \in {"running", "settled", "joining"}
      BY <1>2, RootsWork DEF Working
    <2> HIDE DEF c
    <2>2. ticket[c] \in Q!Ticket /\ ticket[c] \in QP!Active(queue)
      BY <1>1, <2>1, HeldRuns
    <2>3. ticket[c] # Q!None /\ Granted(c)
      BY <1>1, <2>1, <2>2, GrantedRuns, NoneIsNoTicket
    <2> QED
      BY <2>1, <2>2, <2>3 DEF c
  <1>3. ASSUME NEW s \in Scopes, NEW t \in Scopes, Working(s), Working(t),
               RootOf[s] # RootOf[t]
        PROVE  ~ClaimsConflict(HeldClaim(RootOf[s]), HeldClaim(RootOf[t]))
    <2>1. ticket[RootOf[s]] # ticket[RootOf[t]]
      BY <1>1, <1>2, <1>3 DEF TicketsDiffer
    <2>2. ~QP!ClaimsConflict(queue.claim[ticket[RootOf[s]]], queue.claim[ticket[RootOf[t]]])
      BY <1>1, <1>2, <1>3, <2>1 DEF QP!NoConflict
    <2> QED
      BY <2>2, ClaimsSame DEF HeldClaim
  <1> QED
    BY <1>2, <1>3 DEF WorkIsFenced

\* A waiter is an index into the claims.
LEMMA ClaimOfTicket ==
  ASSUME IInv, NEW t \in Q!Ticket
  PROVE  queue.claim[t] \in Claim
  BY TicketSame, ClaimsSame DEF IInv, InOrder, QP!Indexed, QP!QueueType

\* The calls at work hold compatible claims.
LEMMA LeasesCompatible ==
  ASSUME IInv, NEW c \in Calls, NEW d \in Calls, c # d,
         phase[c] \in {"running", "settled", "joining"},
         phase[d] \in {"running", "settled", "joining"}
  PROVE  ~ClaimsConflict(HeldClaim(c), HeldClaim(d))
  <1>1. /\ ticket[c] \in QP!Active(queue) /\ ticket[c] \in Q!Ticket
        /\ ticket[d] \in QP!Active(queue) /\ ticket[d] \in Q!Ticket
    BY HeldRuns DEF IInv
  <1>2. ticket[c] # ticket[d]
    BY <1>1, NoneIsNoTicket DEF IInv, TicketsDiffer
  <1> QED
    BY <1>1, <1>2, ClaimsSame DEF IInv, InOrder, QP!NoConflict, HeldClaim

\* What a call at work holds is a claim, and it holds it until it is done.
LEMMA LeaseStays ==
  ASSUME IInv, [ClaimNext]_vars, NEW c \in Calls,
         phase[c] \in {"running", "settled", "joining"},
         phase'[c] \in {"running", "settled", "joining"}
  PROVE  HeldClaim(c) \in Claim /\ HeldClaim(c)' = HeldClaim(c)
  <1> USE DEF IInv
  <1>1. /\ ticket[c] \in QP!Active(queue) /\ ticket[c] \in Q!Ticket
        /\ ticket[c] # Q!None
    BY HeldRuns, NoneIsNoTicket
  <1>2. queue.state[ticket[c]] # "unborn"
    BY <1>1 DEF TicketsHeld
  <1>3. HeldClaim(c) \in Claim
    BY <1>1, ClaimOfTicket DEF HeldClaim
  <1>4. \A d \in Calls \ {c} : ticket[d] # ticket[c]
    BY <1>1 DEF TicketsDiffer
  <1>5. ASSUME UNCHANGED <<queue, ticket>>
        PROVE  HeldClaim(c)' = HeldClaim(c)
    BY <1>5 DEF HeldClaim
  <1>6. ASSUME NEW d \in Calls, NEW claim \in Claim \cup {Thrown}, Start(d, claim)
        PROVE  HeldClaim(c)' = HeldClaim(c)
    <2>1. CASE claim = Thrown
      BY <1>5, <1>6, <2>1 DEF Start
    <2>2. CASE claim # Thrown
      <3>1. /\ Q!AcquireStep(queue, claim, queue') /\ d # c
            /\ ticket'[c] = ticket[c]
        BY <1>6, <2>2 DEF Start, FieldTypes
      <3>2. /\ queue.state[queue.nextTicket] = "unborn"
            /\ \A o \in Q!Ticket \ {queue.nextTicket} : queue'.claim[o] = queue.claim[o]
        BY <2>2, <3>1, AcquireEffect
      <3> QED
        BY <1>1, <1>2, <3>1, <3>2 DEF HeldClaim
    <2> QED
      BY <2>1, <2>2
  <1>7. ASSUME NEW d \in Calls, d # c, ticket[d] \in QP!Active(queue),
               Q!ReleaseStep(queue, ticket[d], queue'), UNCHANGED ticket
        PROVE  HeldClaim(c)' = HeldClaim(c)
    <2>1. ticket[d] \in Q!Ticket
      BY <1>7, TicketSame DEF QP!Active
    <2>2. \A o \in Q!Ticket \ {ticket[d]} : queue'.claim[o] = queue.claim[o]
      BY <1>7, <2>1, ReleaseEffect
    <2> QED
      BY <1>1, <1>4, <1>7, <2>2 DEF HeldClaim
  <1>8. ASSUME NEW d \in Calls, NEW current \in Claim \cup {Thrown}, ResumeStable(d, current)
        PROVE  HeldClaim(c)' = HeldClaim(c)
    <2>1. d # c /\ ticket[d] \in QP!Active(queue) /\ ticket' = ticket
      BY <1>8, GrantedRuns DEF ResumeStable
    <2>2. CASE current = Thrown
      BY <1>7, <1>8, <2>1, <2>2 DEF ResumeStable, FailStable
    <2>3. CASE current # Thrown /\ ClaimCovers(HeldClaim(d), current)
      BY <1>5, <1>8, <2>3 DEF ResumeStable, EnterStable
    <2>4. CASE current # Thrown /\ ~ClaimCovers(HeldClaim(d), current)
      <3>1. Q!RetryStep(queue, ticket[d], UnionClaims(queue.claim[ticket[d]], current), queue')
        BY <1>8, <2>4 DEF ResumeStable, RetryStable, HeldClaim
      <3>2. ticket[d] \in Q!Ticket
        BY <2>1, TicketSame DEF QP!Active
      <3>3. \A o \in Q!Ticket \ {ticket[d]} : queue'.claim[o] = queue.claim[o]
        BY <2>4, <3>1, <3>2, RetryEffect
      <3> QED
        BY <1>1, <1>4, <2>1, <3>3 DEF HeldClaim
    <2> QED
      BY <2>2, <2>3, <2>4
  <1>9. ASSUME NEW d \in Calls, Finish(d)
        PROVE  HeldClaim(c)' = HeldClaim(c)
    <2>1. d # c /\ ticket[d] \in QP!Active(queue)
      BY <1>9, HeldRuns DEF Finish, FieldTypes, Scopes
    <2> QED
      BY <1>7, <1>9, <2>1 DEF Finish
  <1>10. \/ UNCHANGED <<queue, ticket>>
         \/ \E d \in Calls, claim \in Claim \cup {Thrown} : Start(d, claim)
         \/ \E d \in Calls, current \in Claim \cup {Thrown} : ResumeStable(d, current)
         \/ \E d \in Calls : Finish(d)
    BY DEF ClaimNext, ClaimCallSteps, ScopeSteps, Resume, OpenChild, SettleTask, Deactivate,
       SettleChild, vars
  <1> QED
    BY <1>3, <1>5, <1>6, <1>8, <1>9, <1>10

\* The owner of a live waiter is at work or waits.
LEMMA InvNoLeak == IInv => NoLeakedLease
  BY LiveSame DEF IInv, TicketsOwned, NoLeakedLease

\* The types are part of the invariant.
LEMMA InvType == IInv => TypeOK
  <1> SUFFICES ASSUME IInv PROVE TypeOK
    OBVIOUS
  <1>1. queue \in QP!QueueType
    BY DEF IInv, InOrder, QP!Indexed
  <1>2. Q!QueueType = QP!QueueType
    BY Zenon DEF Q!QueueType, QP!QueueType, Q!Ticket, QP!Ticket, Q!None, QP!None, Q!Claim,
       QP!Claim, Q!Key, QP!Key, Q!ExactKey, QP!ExactKey, Q!GlobalKey, QP!GlobalKey
  <1> QED
    BY <1>1, <1>2 DEF IInv, FieldTypes, TypeOK

-----------------------------------------------------------------------------
(* The calls use the queue as its callers do.                              *)

\* A queue that starts empty.
LEMMA QueueInit == Init => QP!Init
  BY Zenon DEF Init, QP!Init, Q!EmptyQueue, QP!EmptyQueue, Q!Ticket, QP!Ticket, Q!None, QP!None,
     Q!EmptyClaim, QP!EmptyClaim, Q!ExactKey, QP!ExactKey

\* The coverage test of runStable is the one of the queue's callers.
LEMMA CoverSame == \A c, d : QP!ClaimCovers(c, d) <=> ClaimCovers(c, d)
  <1>1. \A x, y : QP!PathsCover(x, y) <=> PathsCover(x, y)
    BY Zenon DEF QP!PathsCover, PathsCover, QP!IsUnder, IsUnder
  <1> QED
    BY <1>1, Zenon DEF QP!ClaimCovers, ClaimCovers

\* Every step acquires, releases or retries, or leaves the queue alone.
LEMMA StepUsesQueue == IInv /\ [ClaimNext]_vars => [QP!Next]_queue
  <1> SUFFICES ASSUME IInv, [ClaimNext]_vars
               PROVE  [QP!Next]_queue
    OBVIOUS
  <1>1. ASSUME NEW c \in Calls, ticket[c] \in QP!Active(queue),
               Q!ReleaseStep(queue, ticket[c], queue')
        PROVE  QP!Next
    <2>1. ticket[c] \in QP!Ticket
      BY <1>1 DEF QP!Active
    <2> QED
      BY <1>1, <2>1, StepsSame DEF QP!Next, QP!Release
  <1>2. ASSUME NEW c \in Calls, NEW claim \in Claim \cup {Thrown}, Start(c, claim)
        PROVE  [QP!Next]_queue
    BY <1>2, StepsSame DEF Start, QP!Next, QP!Acquire
  <1>3. ASSUME NEW c \in Calls, ClaimCallSteps(c)
        PROVE  [QP!Next]_queue
    <2>1. CASE Resume(c)
      BY <2>1 DEF Resume
    <2>2. CASE Finish(c)
      BY <1>1, <2>2, HeldRuns DEF Finish, IInv
    <2>3. ASSUME NEW current \in Claim \cup {Thrown}, ResumeStable(c, current)
          PROVE  [QP!Next]_queue
      <3>1. ticket[c] \in QP!Active(queue) /\ ticket[c] \in QP!Ticket
        BY <2>3, GrantedRuns DEF ResumeStable, IInv, QP!Active
      <3>2. CASE current = Thrown
        BY <1>1, <2>3, <3>1, <3>2 DEF ResumeStable, FailStable
      <3>3. CASE current # Thrown /\ ClaimCovers(HeldClaim(c), current)
        BY <2>3, <3>3 DEF ResumeStable, EnterStable
      <3>4. CASE current # Thrown /\ ~ClaimCovers(HeldClaim(c), current)
        <4> DEFINE held == queue.claim[ticket[c]]
        <4>1. Q!RetryStep(queue, ticket[c], UnionClaims(held, current), queue')
          BY <2>3, <3>4 DEF ResumeStable, RetryStable, HeldClaim
        <4>2. ~QP!ClaimCovers(held, current)
          BY <3>4, CoverSame DEF HeldClaim
        <4>3. QP!RetryStep(queue, ticket[c], QP!UnionClaims(held, current), queue')
          BY <4>1, StepsSame, ClaimsSame
        <4>4. QP!Retry(ticket[c], current)
          BY <4>2, <4>3 DEF QP!Retry
        <4> QED
          BY <2>3, <3>1, <3>4, <4>4 DEF QP!Next
      <3> QED
        BY <3>2, <3>3, <3>4
    <2> QED
      BY <1>3, <2>1, <2>2, <2>3 DEF ClaimCallSteps
  <1>4. ASSUME NEW s \in Scopes, NEW k \in Children, NEW candidate \in Claim,
               OpenChild(s, k, candidate)
        PROVE  [QP!Next]_queue
    BY <1>4 DEF OpenChild
  <1>5. ASSUME NEW s \in Scopes, ScopeSteps(s)
        PROVE  [QP!Next]_queue
    BY <1>5 DEF ScopeSteps, SettleTask, Deactivate, SettleChild
  <1>6. CASE UNCHANGED vars
    BY <1>6 DEF vars
  <1> QED
    BY <1>2, <1>3, <1>4, <1>5, <1>6 DEF ClaimNext

LEMMA UsesQueue == Spec => QP!Spec
  <1>1. IInv /\ [Next]_vars => [QP!Next]_queue
    <2>1. Next => ClaimNext
      BY CoordinatorAssumption DEF Next, ClaimNext, CallSteps, ClaimCallSteps
    <2> QED
      BY <2>1, StepUsesQueue
  <1> QED
    BY <1>1, QueueInit, InvAlways, PTL DEF Spec, QP!Spec

-----------------------------------------------------------------------------
(* The theorems.                                                           *)

\* The coordinator's queue, tickets, phases and parents keep their types.
THEOREM TypeCorrect == Spec => []TypeOK
  BY InvAlways, InvType, PTL

\* The children of a call, however deep, work only while the call holds its
\* lease, and the work of calls whose claims conflict never overlaps
\* (mutationCoordinator.ts, runHeld and runWithinHeld).
THEOREM WorkStaysFenced == Spec => []WorkIsFenced
  BY InvAlways, InvFenced, PTL

\* A waiter of the queue belongs to a call that still waits or works: neither
\* a derivation that throws nor a retry leaves a lease behind (runStable).
THEOREM LeasesAreUsed == Spec => []NoLeakedLease
  BY InvAlways, InvNoLeak, PTL

\* Whatever calls retry, fail or leave work behind, each is granted its lease
\* when the drain over all that wait would grant it: no wake-up is lost, and
\* none is out of turn.
THEOREM CallsAreDrained == Spec => QP!MatchesDrainScheduler
  BY UsesQueue, PathsAssumption, QueueConstants, QP!ImplementsDrainScheduler, PTL

\* A call that gets its lease leaves no earlier call waiting that conflicts.
THEOREM CallsKeepOrder == Spec => QP!NoOvertaking
  BY UsesQueue, PathsAssumption, QueueConstants, QP!NobodyIsOvertaken, PTL

=============================================================================
