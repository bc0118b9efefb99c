----------------------------- MODULE FairClaims -----------------------------
(***************************************************************************)
(* What the claim queue promises, with no index: a waiter runs as soon as  *)
(* no running claim and no claim queued before it conflicts with its own.  *)
(* This is the drain scheduler that claimQueue.test.ts keeps as its        *)
(* reference (class ReferenceQueue): after every operation every waiter    *)
(* is looked at, in ticket order.                                          *)
(***************************************************************************)
EXTENDS MutationClaims

CONSTANTS
    MaxTickets,   \* bound on the tickets ever handed out
    Requests      \* the claims callers ask for

VARIABLES
    issued,   \* tickets handed out so far
    mode,     \* per ticket: "unborn", "waiting", "active" or "released"
    wants     \* per ticket: its claim

vars == <<issued, mode, wants>>

Ticket == 0 .. MaxTickets - 1

Live(m) == { t \in Ticket : m[t] \in {"waiting", "active"} }

\* In ticket order no waiter that starts can disturb an earlier one, so the
\* waiters the drain starts are those that nothing active and nothing
\* earlier conflicts with.
Startable(m, w, t) ==
    /\ m[t] = "waiting"
    /\ \A o \in Live(m) \ {t} :
          (m[o] = "active" \/ o < t) => ~ClaimsConflict(w[o], w[t])

Drain(m, w) ==
    [t \in Ticket |-> IF Startable(m, w, t) THEN "active" ELSE m[t]]

-----------------------------------------------------------------------------

Init ==
    /\ issued = 0
    /\ mode = [t \in Ticket |-> "unborn"]
    /\ wants = [t \in Ticket |-> EmptyClaim]

Enqueue(claim) ==
    /\ issued \in Ticket
    /\ issued' = issued + 1
    /\ wants' = [wants EXCEPT ![issued] = claim]
    /\ mode' = Drain([mode EXCEPT ![issued] = "waiting"], wants')

Release(t) ==
    /\ mode[t] = "active"
    /\ wants' = [wants EXCEPT ![t] = EmptyClaim]
    /\ mode' = Drain([mode EXCEPT ![t] = "released"], wants')
    /\ UNCHANGED issued

\* The holder of a claim that no longer covers what it needs gives it back
\* and queues the enlarged claim at its old place.
Requeue(t, claim) ==
    /\ mode[t] = "active"
    /\ ~ClaimCovers(wants[t], claim)
    /\ wants' = [wants EXCEPT ![t] = UnionClaims(@, claim)]
    /\ mode' = Drain([mode EXCEPT ![t] = "waiting"], wants')
    /\ UNCHANGED issued

Next ==
    \/ \E claim \in Requests : Enqueue(claim)
    \/ \E t \in Ticket : Release(t)
    \/ \E t \in Ticket, claim \in Requests : Requeue(t, claim)

Spec == Init /\ [][Next]_vars

=============================================================================
