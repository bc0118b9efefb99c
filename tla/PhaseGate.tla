----------------------------- MODULE PhaseGate -----------------------------
(***************************************************************************)
(* The fair two-phase gate of cachedStore/helpers/phaseGate: callers of    *)
(* one mode run together until somebody of the other mode waits; then      *)
(* later callers queue behind, and the next contiguous cohort of the queue *)
(* is let in when the active one has drained.  A method is one             *)
(* synchronous step; the promise it settles is the membership in           *)
(* `holders` (acquire) or the absence from `idleWaiters` (settle).         *)
(***************************************************************************)
EXTENDS Integers, Sequences

CONSTANTS
    Callers,
    ModeOf,     \* the mode each caller asks for: "read" or "mutation"
    NoMode      \* activeMode is null

ASSUME PhaseGateAssumption ==
    /\ ModeOf \in [Callers -> {"read", "mutation"}]
    /\ NoMode \notin {"read", "mutation"}

VARIABLES
    activeMode,
    holders,      \* callers inside; `active` is their number
    waiting,      \* the queue of waiters
    idleWaiters   \* callers of settle() not resolved yet

gateVars == <<activeMode, holders, waiting, idleWaiters>>

Queued == { waiting[i] : i \in 1 .. Len(waiting) }

GateInit ==
    /\ activeMode = NoMode
    /\ holders = {}
    /\ waiting = << >>
    /\ idleWaiters = {}

-----------------------------------------------------------------------------

\* Mutant: a caller of the active mode always goes in.
MayEnterActive(c) == activeMode \in {NoMode, ModeOf[c]}

MayEnter(c) ==
    \/ activeMode = NoMode
    \/ activeMode = ModeOf[c] /\ waiting = << >>

Acquire(c) ==
    /\ c \notin holders /\ c \notin Queued
    /\ IF MayEnter(c)
       THEN /\ activeMode' = ModeOf[c]
            /\ holders' = holders \cup {c}
            /\ UNCHANGED waiting
       ELSE /\ waiting' = Append(waiting, c)
            /\ UNCHANGED <<activeMode, holders>>
    /\ UNCHANGED idleWaiters

\* Mutant: the whole queue is let in.
CohortOfAll(n) == n = Len(waiting)

\* The first n waiters are those before the first one of the other mode.
Cohort(n) ==
    /\ n \in 1 .. Len(waiting)
    /\ \A i \in 1 .. n : ModeOf[waiting[i]] = ModeOf[waiting[1]]
    /\ n < Len(waiting) => ModeOf[waiting[n + 1]] # ModeOf[waiting[1]]

\* drain, with nobody inside.
Drain ==
    \/ /\ waiting = << >>
       /\ activeMode' = NoMode
       /\ holders' = {}
       /\ idleWaiters' = {}
       /\ UNCHANGED waiting
    \/ \E n \in 1 .. Len(waiting) :
          /\ Cohort(n)
          /\ activeMode' = ModeOf[waiting[1]]
          /\ holders' = { waiting[i] : i \in 1 .. n }
          /\ waiting' = SubSeq(waiting, n + 1, Len(waiting))
          /\ UNCHANGED idleWaiters

\* The release function handed to c, the first time it is called.
Release(c) ==
    /\ c \in holders
    /\ IF holders = {c} THEN Drain
       ELSE holders' = holders \ {c} /\ UNCHANGED <<activeMode, waiting, idleWaiters>>

\* settle: resolved at once, or when the gate falls idle.
Settle(s) ==
    /\ idleWaiters' = IF holders = {} /\ waiting = << >>
                      THEN idleWaiters ELSE idleWaiters \cup {s}
    /\ UNCHANGED <<activeMode, holders, waiting>>

-----------------------------------------------------------------------------

GateNext == \E c \in Callers : Acquire(c) \/ Release(c) \/ Settle(c)

GateSpec == GateInit /\ [][GateNext]_gateVars

-----------------------------------------------------------------------------
(* Properties.                                                             *)

GateTypeOK ==
    /\ activeMode \in {NoMode, "read", "mutation"}
    /\ holders \in SUBSET Callers
    /\ waiting \in Seq(Callers)
    /\ idleWaiters \in SUBSET Callers

\* ONE PHASE AT A TIME.  A reconcile or a raw read is never inside together
\* with a mutation that has not joined its resource queue yet.
PhasesExclude == \A c, d \in holders : ModeOf[c] = ModeOf[d]

\* NO LOST WAKE-UP.  While anybody waits, somebody is inside whose release
\* will look at the queue; and its head is not of the mode that runs, so that
\* the peers of one phase never wait for each other.
SomebodyInside ==
    waiting # << >> => holders # {} /\ ModeOf[waiting[1]] # activeMode

\* NOBODY IS PASSED.  Who gets in leaves nobody waiting who came before: a
\* stream of one mode cannot hold a waiter of the other one back.
NobodyPassed ==
    [][\A c \in holders' \ holders :
          /\ c \notin Queued => waiting' = << >>
          /\ \A i, j \in 1 .. Len(waiting) :
                waiting[i] = c /\ j < i => waiting[j] \in holders']_gateVars

=============================================================================
