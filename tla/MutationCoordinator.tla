------------------------ MODULE MutationCoordinator ------------------------
(***************************************************************************)
(* mutationCoordinator.ts: the per-process fence around read-model writes. *)
(* A call takes a lease from the claim queue, runs its callback under it   *)
(* and releases it.  `runStable` derives its claim again after every wait. *)
(* Inside a callback `runWithinHeld` opens child scopes that live on the   *)
(* caller's lease.                                                         *)
(*                                                                         *)
(* A scope is a HeldClaim: the one of a call, or one of a child.  Its      *)
(* phase says where `runHeld` stands:                                      *)
(*   running   the callback runs; the scope is active                      *)
(*   settled   the callback has returned or thrown, but the `finally` that *)
(*             deactivates the scope has not run yet                       *)
(*   joining   inactive, waiting for the children it had when deactivated  *)
(*   done      settled for its caller (a call has released its lease)      *)
(* A callback may leave work behind that still carries its scope, so a     *)
(* child may be asked for in any phase; `active` decides.                  *)
(***************************************************************************)
EXTENDS MutationClaims

CONSTANTS
    Calls,       \* the calls made on the coordinator, each at most once
    MethodOf,    \* the method each call is: "run", "runStable" or "acquire"
    Children,    \* bound on the child scopes ever opened
    Requests,    \* the claims a derivation may return
    NoScope,     \* the parent of a child not opened yet
    Thrown       \* the outcome of a derivation that throws

ASSUME CoordinatorAssumption ==
    /\ IsFiniteSet(Calls)
    /\ MethodOf \in [Calls -> {"run", "runStable", "acquire"}]
    /\ Calls \cap Children = {}
    /\ NoScope \notin Calls \cup Children
    /\ Requests \subseteq Claim
    /\ Thrown \notin Claim

VARIABLES
    queue,    \* the coordinator's ClaimQueue
    ticket,   \* per call: its waiter in the queue
    phase,    \* per scope, see above; a call is also "idle", "queued" or "failed"
    parent    \* per child: the scope it was opened in

vars == <<queue, ticket, phase, parent>>

Q == INSTANCE ClaimQueue WITH MaxTickets <- Cardinality(Calls)

Scopes == Calls \cup Children

TypeOK ==
    /\ queue \in Q!QueueType
    /\ ticket \in [Calls -> Q!Ticket \cup {Q!None}]
    /\ phase \in [Scopes -> {"idle", "queued", "running", "settled",
                             "joining", "done", "failed"}]
    /\ parent \in [Children -> Scopes \cup {NoScope}]

Granted(c) == ticket[c] # Q!None /\ queue.state[ticket[c]] = "active"

HeldClaim(c) == queue.claim[ticket[c]]

\* HeldClaim.active.
IsActive(s) == phase[s] \in {"running", "settled"}

\* The scopes with a callback: `acquire` leaves its caller a lease, no scope.
Callbacks == Children \cup { c \in Calls : MethodOf[c] # "acquire" }

ChildrenOf(s) == { k \in Children : parent[k] = s }

\* The call whose lease a scope lives on: child claims are their parent's.
RootOf[s \in Scopes] ==
    IF s \in Calls \/ parent[s] = NoScope THEN s ELSE RootOf[parent[s]]

-----------------------------------------------------------------------------

Init ==
    /\ queue = Q!EmptyQueue
    /\ ticket = [c \in Calls |-> Q!None]
    /\ phase = [s \in Scopes |-> "idle"]
    /\ parent = [k \in Children |-> NoScope]

\* run, runStable, acquire up to the await on the queue.  A derivation that
\* throws here fails the call before it queues.
Start(c, claim) ==
    /\ phase[c] = "idle"
    /\ IF claim = Thrown
       THEN /\ MethodOf[c] = "runStable"
            /\ phase' = [phase EXCEPT ![c] = "failed"]
            /\ UNCHANGED <<queue, ticket>>
       ELSE /\ Q!AcquireStep(queue, claim, queue')
            /\ ticket' = [ticket EXCEPT ![c] = queue.nextTicket]
            /\ phase' = [phase EXCEPT ![c] = "queued"]
    /\ UNCHANGED parent

\* run, acquire: the continuation after the lease was granted.
Resume(c) ==
    /\ phase[c] = "queued"
    /\ MethodOf[c] \in {"run", "acquire"}
    /\ Granted(c)
    /\ phase' = [phase EXCEPT ![c] = "running"]
    /\ UNCHANGED <<queue, ticket, parent>>

\* Mutant: a derivation that throws after the wait leaves the lease behind.
FailStableLeased(c) ==
    /\ phase' = [phase EXCEPT ![c] = "failed"]
    /\ UNCHANGED queue

FailStable(c) ==
    /\ Q!ReleaseStep(queue, ticket[c], queue')
    /\ phase' = [phase EXCEPT ![c] = "failed"]

\* Mutant: the claim is queued again before it is enlarged.
RetryStableUnmerged(c, current) ==
    /\ Q!RetryStep(queue, ticket[c], HeldClaim(c), queue')
    /\ UNCHANGED phase

\* What was observed so far is kept, and queued under the original ticket.
RetryStable(c, current) ==
    /\ Q!RetryStep(queue, ticket[c], UnionClaims(HeldClaim(c), current), queue')
    /\ UNCHANGED phase

EnterStable(c) ==
    /\ phase' = [phase EXCEPT ![c] = "running"]
    /\ UNCHANGED queue

\* Mutant: the claim derived before the wait is trusted after it.
ResumeStableOnGrant(c, current) ==
    /\ phase[c] = "queued"
    /\ MethodOf[c] = "runStable"
    /\ Granted(c)
    /\ EnterStable(c)
    /\ UNCHANGED <<ticket, parent>>

\* runStable: one turn of its loop.  `current` is the claim derived now.
ResumeStable(c, current) ==
    /\ phase[c] = "queued"
    /\ MethodOf[c] = "runStable"
    /\ Granted(c)
    /\ IF current = Thrown THEN FailStable(c)
       ELSE IF ClaimCovers(HeldClaim(c), current) THEN EnterStable(c)
       ELSE RetryStable(c, current)
    /\ UNCHANGED <<ticket, parent>>

\* runWithinHeld, asked from scope s by its callback or by work the callback
\* left behind; refused without effect unless s is active and covers it.
OpenChild(s, k, candidate) ==
    /\ parent[k] = NoScope /\ phase[k] = "idle"
    /\ s \in Callbacks
    /\ IsActive(s)
    /\ ClaimCovers(HeldClaim(RootOf[s]), candidate)
    /\ parent' = [parent EXCEPT ![k] = s]
    /\ phase' = [phase EXCEPT ![k] = "running"]
    /\ UNCHANGED <<queue, ticket>>

\* The callback of a scope returns or throws.
SettleTask(s) ==
    /\ s \in Callbacks
    /\ phase[s] = "running"
    /\ phase' = [phase EXCEPT ![s] = "settled"]
    /\ UNCHANGED <<queue, ticket, parent>>

\* runHeld, finally: the scope is deactivated and its children awaited.
Deactivate(s) ==
    /\ phase[s] = "settled"
    /\ phase' = [phase EXCEPT ![s] = "joining"]
    /\ UNCHANGED <<queue, ticket, parent>>

\* Mutant: the children of a scope are not waited for.
ChildrenForgotten(s) == TRUE

\* Promise.allSettled on the children not settled when s was deactivated.
ChildrenSettled(s) == \A k \in ChildrenOf(s) : phase[k] = "done"

\* runHeld of a child settles.
SettleChild(k) ==
    /\ k \in Children
    /\ phase[k] = "joining"
    /\ ChildrenSettled(k)
    /\ phase' = [phase EXCEPT ![k] = "done"]
    /\ UNCHANGED <<queue, ticket, parent>>

\* runHeld of a call settles and its `finally` releases the lease.  The host
\* of an `acquire` runs no scope and releases when it likes.
Finish(c) ==
    /\ \/ phase[c] = "joining" /\ ChildrenSettled(c)
       \/ MethodOf[c] = "acquire" /\ phase[c] = "running"
    /\ Q!ReleaseStep(queue, ticket[c], queue')
    /\ phase' = [phase EXCEPT ![c] = "done"]
    /\ UNCHANGED <<ticket, parent>>

-----------------------------------------------------------------------------

\* What the runtime does by itself once a call was made.
CallSteps(c) ==
    \/ Resume(c)
    \/ \E current \in Requests \cup {Thrown} : ResumeStable(c, current)
    \/ Finish(c)

ScopeSteps(s) == SettleTask(s) \/ Deactivate(s) \/ SettleChild(s)

Next ==
    \/ \E c \in Calls, claim \in Requests \cup {Thrown} : Start(c, claim)
    \/ \E s \in Scopes, k \in Children, candidate \in Requests :
          OpenChild(s, k, candidate)
    \/ \E c \in Calls : CallSteps(c)
    \/ \E s \in Scopes : ScopeSteps(s)

\* Continuations run and callbacks return: the event loop drains, and a
\* mutation ends by returning or by throwing.
Fairness ==
    /\ \A c \in Calls : WF_vars(CallSteps(c))
    /\ \A s \in Scopes : WF_vars(ScopeSteps(s))

Spec == Init /\ [][Next]_vars

FairSpec == Spec /\ Fairness

-----------------------------------------------------------------------------
(* Properties.                                                             *)

Working(s) == s \in Callbacks /\ phase[s] \in {"running", "settled", "joining"}

\* NO WORK OUTLIVES ITS FENCE.  As long as the callback of a call, or a child
\* it or a child of it opened, has not settled, the call holds its lease;
\* and the work of two calls never overlaps when their claims conflict
\* (mutationCoordinator.ts: "join its lifetime to that lease").
WorkIsFenced ==
    /\ \A s \in Scopes : Working(s) => Granted(RootOf[s])
    /\ \A s, t \in Scopes :
          Working(s) /\ Working(t) /\ RootOf[s] # RootOf[t]
             => ~ClaimsConflict(HeldClaim(RootOf[s]), HeldClaim(RootOf[t]))

\* Nothing keeps a lease it has no use for: a waiter of the queue belongs to
\* a call that still waits or works, and a failed derivation gave it back.
NoLeakedLease ==
    \A t \in Q!Live(queue) :
        \E c \in Calls :
            /\ ticket[c] = t
            /\ phase[c] \in {"queued", "running", "settled", "joining"}

\* No wake-up is missed and no claim starves, whatever calls retried, failed
\* or left work behind: the coordinator releases what ClaimQueue grants.
NoStarvation == Q!NoStarvation

\* Every call made returns: the retries of runStable end, since every one of
\* them enlarges the claim, and each wait in the queue ends.
EveryCallReturns ==
    \A c \in Calls :
        phase[c] = "queued" ~> phase[c] \in {"done", "failed"}

=============================================================================
