----------------------------- MODULE ClaimQueue -----------------------------
(***************************************************************************)
(* The indexed fair queue of claimQueue.ts.  The queue object is one       *)
(* record, `queue`; its methods are operators on such a record.  A waiter  *)
(* is named by its ticket.                                                 *)
(*                                                                         *)
(*   nextTicket, waiter state, claim   as in the class                     *)
(*   keys[t]           the keys of waiter.keyNodes: t stands in the queue  *)
(*                     of each of them (every key queue is in ticket       *)
(*                     order, so its head is its least ticket)             *)
(*   activeExact, activePrefixes, activeGlobal, activeCount,               *)
(*   prefixWaiterCount as in the class; None for an absent entry           *)
(*                                                                         *)
(* The linked list of live waiters is in ticket order too (`retry` keeps   *)
(* the node), so it is the set Live(q) and its head the least member.      *)
(***************************************************************************)
EXTENDS MutationClaims

CONSTANTS
    MaxTickets,   \* bound on the tickets ever handed out
    Requests      \* the claims callers ask for

ASSUME QueueAssumption ==
    /\ MaxTickets \in Nat
    /\ Requests \subseteq Claim

VARIABLE queue

Ticket == 0 .. MaxTickets - 1
None == -1

QueueType ==
    [ nextTicket        : 0 .. MaxTickets,
      state             : [Ticket -> {"unborn", "waiting", "active", "released"}],
      claim             : [Ticket -> Claim],
      keys              : [Ticket -> SUBSET Key],
      activeExact       : [ExactKey -> Ticket \cup {None}],
      activePrefixes    : [Paths -> Ticket \cup {None}],
      activeGlobal      : Ticket \cup {None},
      activeCount       : 0 .. MaxTickets,
      prefixWaiterCount : 0 .. MaxTickets ]

EmptyQueue ==
    [ nextTicket        |-> 0,
      state             |-> [t \in Ticket |-> "unborn"],
      claim             |-> [t \in Ticket |-> EmptyClaim],
      keys              |-> [t \in Ticket |-> {}],
      activeExact       |-> [key \in ExactKey |-> None],
      activePrefixes    |-> [path \in Paths |-> None],
      activeGlobal      |-> None,
      activeCount       |-> 0,
      prefixWaiterCount |-> 0 ]

-----------------------------------------------------------------------------
(* Reading the indexes.                                                    *)

Live(q) == { t \in Ticket : q.state[t] \in {"waiting", "active"} }
Waiting(q) == { t \in Ticket : q.state[t] = "waiting" }

\* liveHead is t.
IsLiveHead(q, t) == \A o \in Live(q) : t <= o

\* keyHead(key) is t, read where t itself is a waiter.
IsKeyHead(q, key, t) ==
    /\ key \in q.keys[t]
    /\ \A o \in Ticket : key \in q.keys[o] => t <= o

\* An earlier waiter heads the queue of this key.
EarlierOn(q, key, t) == \E o \in Ticket : o < t /\ key \in q.keys[o]

\* Mutant: only the head of a key queue is asked for, as if a waiter could
\* not be enlarged onto a key another one is already running on.
ExactFreeByHead(q, t) ==
    \A key \in ExactKeys(q.claim[t]) : IsKeyHead(q, key, t)

ExactFree(q, t) ==
    \A key \in ExactKeys(q.claim[t]) :
        /\ q.activeExact[key] \in {None, t}
        /\ IsKeyHead(q, key, t)

\* Mutant: running folder fences are looked at, waiting ones are not.
AncestorsFreeOfActive(q, t) ==
    \A path \in q.claim[t].paths :
        \A ancestor \in PathAncestors(path) \cap Paths :
            q.activePrefixes[ancestor] \in {None, t}

\* A prefix outside Paths is never active nor queued for.
AncestorsFree(q, t) ==
    \A path \in q.claim[t].paths :
        \A ancestor \in PathAncestors(path) \cap Paths :
            /\ q.activePrefixes[ancestor] \in {None, t}
            /\ ~EarlierOn(q, PrefixKey(ancestor), t)

\* The scan of the live list made for a claim with prefixes.
PrefixesFree(q, t) ==
    q.claim[t].prefixes # {} =>
        \A o \in Live(q) \ {t} :
            (q.state[o] = "active" \/ o < t)
                => ~ClaimsConflict(q.claim[o], q.claim[t])

CanStart(q, t) ==
    /\ q.state[t] = "waiting"
    /\ IF q.claim[t].global
       THEN q.activeCount = 0 /\ IsLiveHead(q, t)
       ELSE /\ q.activeGlobal = None
            /\ ~EarlierOn(q, GlobalKey, t)
            /\ ExactFree(q, t)
            /\ AncestorsFree(q, t)
            /\ PrefixesFree(q, t)

-----------------------------------------------------------------------------
(* Starting waiters.                                                       *)

\* A map entry after the calls of `callers` have set it, in ticket order.
Entry(callers, old) ==
    IF callers = {} THEN old ELSE CHOOSE t \in callers : \A o \in callers : o <= t

\* tryStart on each of `started`, whose canStart held.
Activate(q, started) ==
    [q EXCEPT
       !.state = [t \in Ticket |-> IF t \in started THEN "active" ELSE @[t]],
       !.activeCount = @ + Cardinality(started),
       !.activeGlobal = Entry({t \in started : q.claim[t].global}, @),
       !.activeExact = [key \in ExactKey |->
          Entry({t \in started : key \in ExactKeys(q.claim[t])}, @[key])],
       !.activePrefixes = [path \in Paths |->
          Entry({t \in started : path \in q.claim[t].prefixes}, @[path])]]

\* tryCandidates: tryStart on every candidate in ticket order, each one
\* judged by the indexes as the earlier ones left them; r is the queue then.
TryCandidates(q, candidates, r) ==
    \E started \in SUBSET candidates :
       /\ \A t \in candidates :
             t \in started <=> CanStart(Activate(q, {s \in started : s < t}), t)
       /\ r = Activate(q, started)

TryStart(q, t, r) == TryCandidates(q, {t}, r)

\* Mutant: a released path is taken to concern its own key queue only.
ScansForPrefixes(q, claim) == claim.prefixes # {}

\* Whether a released claim may hold back waiters whose key queue it is not in.
ScansLiveList(q, claim) ==
    \/ claim.prefixes # {}
    \/ claim.paths # {} /\ q.prefixWaiterCount > 0

\* wakeAfter: the waiters the given claim may have held back.
WakeCandidates(q, claim, skip) ==
    IF claim.global THEN Waiting(q) \ skip
    ELSE { t \in Waiting(q) \ skip :
             \/ \E key \in ExactKeys(claim) \cup PrefixKeys(claim) \cup {GlobalKey} :
                   IsKeyHead(q, key, t)
             \/ ScansLiveList(q, claim) /\ ClaimsConflict(claim, q.claim[t]) }

-----------------------------------------------------------------------------
(* The three operations.  Each is one synchronous call.                    *)

HasPrefixes(claim) == IF claim.prefixes # {} THEN 1 ELSE 0

\* removeActive: the entries that still point to t are cleared.
RemoveActive(q, t) ==
    [q EXCEPT
       !.activeCount = @ - 1,
       !.activeGlobal = IF q.claim[t].global THEN None ELSE @,
       !.activeExact = [key \in ExactKey |->
          IF key \in ExactKeys(q.claim[t]) /\ @[key] = t THEN None ELSE @[key]],
       !.activePrefixes = [path \in Paths |->
          IF path \in q.claim[t].prefixes /\ @[path] = t THEN None ELSE @[path]]]

\* acquire up to its tryStart.
Enqueued(q, t, claim) ==
    [q EXCEPT !.nextTicket = @ + 1,
              !.state[t] = "waiting",
              !.claim[t] = claim,
              !.keys[t] = MembershipKeys(claim),
              !.prefixWaiterCount = @ + HasPrefixes(claim)]

\* finalRelease up to its wakeAfter.
Remove(q, t) ==
    [RemoveActive(q, t) EXCEPT
       !.state[t] = "released",
       !.claim[t] = EmptyClaim,
       !.keys[t] = {},
       !.prefixWaiterCount = @ - HasPrefixes(q.claim[t])]

\* Mutant: a waiter that had no prefix is not counted when it gains one.
GainedPrefixesUncounted(old, new) == 0

GainedPrefixes(old, new) == IF old.prefixes = {} THEN HasPrefixes(new) ELSE 0

\* retry up to its tryStart: the ticket and the memberships stay.
Requeued(q, t, claim) ==
    [RemoveActive(q, t) EXCEPT
       !.state[t] = "waiting",
       !.claim[t] = claim,
       !.keys[t] = @ \cup MembershipKeys(claim),
       !.prefixWaiterCount = @ + GainedPrefixes(q.claim[t], claim)]

AcquireStep(q, claim, r) ==
    LET t == q.nextTicket IN
    /\ t \in Ticket
    /\ TryStart(Enqueued(q, t, claim), t, r)

ReleaseStep(q, t, r) ==
    LET freed == Remove(q, t) IN
    /\ q.state[t] = "active"
    /\ TryCandidates(freed, WakeCandidates(freed, q.claim[t], {}), r)

\* The requeued waiter is tried first; the pass that follows skips it.
RetryStep(q, t, claim, r) ==
    /\ q.state[t] = "active"
    /\ LET requeued == Requeued(q, t, claim) IN
       IF CanStart(requeued, t)
       THEN LET tried == Activate(requeued, {t}) IN
            TryCandidates(tried, WakeCandidates(tried, q.claim[t], {t}), r)
       ELSE TryCandidates(requeued, WakeCandidates(requeued, q.claim[t], {t}), r)

-----------------------------------------------------------------------------
(* The queue under its callers: they acquire any requested claim, release  *)
(* what they hold, or come back with what the held claim does not cover    *)
(* (runStable retries only then, and with the union of both).              *)

Init == queue = EmptyQueue

Acquire(claim) == AcquireStep(queue, claim, queue')

Release(t) == ReleaseStep(queue, t, queue')

Retry(t, claim) ==
    /\ ~ClaimCovers(queue.claim[t], claim)
    /\ RetryStep(queue, t, UnionClaims(queue.claim[t], claim), queue')

Next ==
    \/ \E claim \in Requests : Acquire(claim)
    \/ \E t \in Ticket : Release(t)
    \/ \E t \in Ticket, claim \in Requests : Retry(t, claim)

Spec == Init /\ [][Next]_queue

-----------------------------------------------------------------------------
(* Properties.                                                             *)

TypeOK == queue \in QueueType

Active(q) == { t \in Ticket : q.state[t] = "active" }

\* MUTUAL EXCLUSION.  Two mutations whose claims conflict never run at the
\* same time, whatever axis they meet on and whichever of them was enlarged
\* by a retry after the other had started (the fence of docs/core.md).
MutualExclusion ==
    \A s, t \in Active(queue) :
        s # t => ~ClaimsConflict(queue.claim[s], queue.claim[t])

\* The maps canStart reads say who is active: every key of an active claim
\* points to its holder, and nothing else is recorded.
ActiveIndexed(q) ==
    /\ \A key \in ExactKey, t \in Ticket :
          q.activeExact[key] = t
             <=> t \in Active(q) /\ key \in ExactKeys(q.claim[t])
    /\ \A path \in Paths, t \in Ticket :
          q.activePrefixes[path] = t
             <=> t \in Active(q) /\ path \in q.claim[t].prefixes
    /\ \A t \in Ticket :
          q.activeGlobal = t <=> t \in Active(q) /\ q.claim[t].global
    /\ q.activeCount = Cardinality(Active(q))

\* A waiter stands in exactly the key queues of its present claim, until it
\* is released.
Queued(q) ==
    \A t \in Ticket :
        q.keys[t] = IF t \in Live(q) THEN MembershipKeys(q.claim[t]) ELSE {}

\* THE INDEXES TELL THE TRUTH.  Across grown, requeued and released claims
\* neither the active maps and counters nor the key queues keep an entry of
\* a claim that is gone, or lose one of a claim that is held (the leak check
\* at the end of claimQueue.test.ts).
IndexesExact ==
    /\ ActiveIndexed(queue)
    /\ Queued(queue)
    /\ queue.prefixWaiterCount
          = Cardinality({t \in Live(queue) : queue.claim[t].prefixes # {}})

\* The abstract scheduler this queue implements: wake-ups restricted to the
\* indexed candidates start exactly the waiters the full drain would start.
\* It excludes a lost wake-up (the drain leaves no waiter behind that could
\* run) and overtaking (the drain never passes a conflicting earlier one).
Fair == INSTANCE FairClaims WITH issued <- queue.nextTicket,
                                 mode <- queue.state,
                                 wants <- queue.claim

MatchesDrainScheduler == Fair!Spec

\* A waiter passes an earlier conflicting one only if that one was running
\* when it started and came back later with a larger claim: no step starts a
\* waiter while an earlier conflicting one is left waiting.
NoOvertaking ==
    [][\A t \in Ticket : \A o \in 0 .. t - 1 :
          /\ queue.state[t] # "active"
          /\ queue'.state[t] = "active"
          /\ queue'.state[o] = "waiting"
          => ~ClaimsConflict(queue'.claim[o], queue'.claim[t])]_queue

\* Every queued claim is eventually granted: a folder-wide fence does not
\* starve behind a stream of later narrow claims.  Whoever uses the queue has
\* to see to it that the holders release (MutationCoordinator).
NoStarvation ==
    \A t \in Ticket :
        queue.state[t] = "waiting" ~> queue.state[t] = "active"

=============================================================================
