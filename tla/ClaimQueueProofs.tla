-------------------------- MODULE ClaimQueueProofs --------------------------
(***************************************************************************)
(* Mutual exclusion and exact indexes of the claim queue, for any number   *)
(* of tickets and any claims.                                              *)
(*                                                                         *)
(* The invariant that carries the proof is weaker than `ActiveIndexed` on  *)
(* purpose: an entry of the active maps names some holder of its key       *)
(* (EntriesValid), and a held key has an entry (HoldersRecorded).  Both    *)
(* survive the activation of any set of waiters, conflicting or not, so    *)
(* the waiters one wake-up starts can be compared with each other without  *)
(* an induction over the order in which they start.                        *)
(*                                                                         *)
(* The second part shows that the queue implements the drain scheduler of  *)
(* FairClaims and lets nobody overtake: canStart is exact on indexes that  *)
(* are in order, and the candidates of a wake-up contain whoever may start.*)
(***************************************************************************)
EXTENDS ClaimQueue, FiniteSetTheorems, WellFoundedInduction, SequenceTheorems, TLAPS

-----------------------------------------------------------------------------
(* Claims.                                                                 *)

\* Conflict is symmetric.
LEMMA ConflictSymmetric ==
  ASSUME NEW c \in Claim, NEW d \in Claim
  PROVE  ClaimsConflict(c, d) <=> ClaimsConflict(d, c)
  BY DEF ClaimsConflict

\* The keys of a claim are keys, one per axis and value.
LEMMA KeysOfClaim ==
  ASSUME NEW c \in Claim
  PROVE  /\ ExactKeys(c) \subseteq ExactKey
         /\ MembershipKeys(c) \subseteq Key
         /\ \A x \in Resources : <<"resource", x>> \in ExactKeys(c) <=> x \in c.resources
         /\ \A x \in NoteIds : <<"note", x>> \in ExactKeys(c) <=> x \in c.noteIds
         /\ \A x \in Paths : <<"path", x>> \in ExactKeys(c) <=> x \in c.paths
  BY DEF Claim, ExactKeys, ExactKey, MembershipKeys, PrefixKeys, Key

\* Two claims that share an exact key conflict.
LEMMA SharedKeyConflicts ==
  ASSUME NEW c \in Claim, NEW d \in Claim, NEW key \in ExactKeys(c), key \in ExactKeys(d)
  PROVE  ClaimsConflict(c, d)
  <1>1. \/ c.resources \cap d.resources # {}
        \/ c.noteIds \cap d.noteIds # {}
        \/ c.paths \cap d.paths # {}
    BY DEF ExactKeys
  <1> QED
    BY <1>1 DEF ClaimsConflict

\* A prefix of a path is one of its ancestors.
LEMMA UnderAncestor ==
  ASSUME NEW path \in Paths, NEW prefix \in Paths, IsUnder(path, prefix)
  PROVE  prefix \in PathAncestors(path)
  <1>1. path \in Seq(Segments) /\ prefix \in Seq(Segments) /\ prefix # <<>>
    BY PathsAssumption
  <1>2. Len(prefix) \in 1 .. Len(path)
    BY <1>1, EmptySeq, LenProperties DEF IsUnder
  <1>3. prefix = SubSeq(path, 1, Len(prefix))
    BY <1>1, <1>2, SubSeqProperties, SeqEqual DEF IsUnder
  <1> QED
    BY <1>2, <1>3 DEF PathAncestors

\* Two claims that share a prefix conflict.
LEMMA SharedPrefixConflicts ==
  ASSUME NEW c \in Claim, NEW d \in Claim, NEW p \in c.prefixes, p \in d.prefixes
  PROVE  ClaimsConflict(c, d)
  <1>1. p \in Paths /\ p \in Seq(Segments)
    BY PathsAssumption DEF Claim
  <1>2. IsUnder(p, p)
    BY <1>1 DEF IsUnder
  <1> QED
    BY <1>2 DEF ClaimsConflict, ReachesInto

\* An enlarged claim is a claim that keeps every key and prefix.
LEMMA UnionOfClaims ==
  ASSUME NEW c \in Claim, NEW d \in Claim
  PROVE  /\ UnionClaims(c, d) \in Claim
         /\ MembershipKeys(c) \subseteq MembershipKeys(UnionClaims(c, d))
         /\ c.prefixes \subseteq UnionClaims(c, d).prefixes
  BY DEF UnionClaims, Claim, MembershipKeys, ExactKeys, PrefixKeys

-----------------------------------------------------------------------------
(* The invariant.                                                          *)

EntriesValid(q) ==
    /\ \A key \in ExactKey :
          q.activeExact[key] # None
             => /\ q.activeExact[key] \in Active(q)
                /\ key \in ExactKeys(q.claim[q.activeExact[key]])
    /\ \A path \in Paths :
          q.activePrefixes[path] # None
             => /\ q.activePrefixes[path] \in Active(q)
                /\ path \in q.claim[q.activePrefixes[path]].prefixes
    /\ q.activeGlobal # None
          => q.activeGlobal \in Active(q) /\ q.claim[q.activeGlobal].global

HoldersRecorded(q) ==
    \A t \in Active(q) :
        /\ \A key \in ExactKeys(q.claim[t]) : q.activeExact[key] # None
        /\ \A path \in q.claim[t].prefixes : q.activePrefixes[path] # None
        /\ q.claim[t].global => q.activeGlobal # None

PrefixLive(q) == { t \in Live(q) : q.claim[t].prefixes # {} }

Counted(q) ==
    /\ q.activeCount = Cardinality(Active(q))
    /\ q.prefixWaiterCount = Cardinality(PrefixLive(q))

Issued(q) == \A t \in Ticket : t < q.nextTicket <=> q.state[t] # "unborn"

Indexed(q) ==
    /\ q \in QueueType
    /\ EntriesValid(q)
    /\ HoldersRecorded(q)
    /\ Counted(q)
    /\ Issued(q)
    /\ Queued(q)

NoConflict(q) ==
    \A s, t \in Active(q) : s # t => ~ClaimsConflict(q.claim[s], q.claim[t])

IInv == Indexed(queue) /\ NoConflict(queue)

-----------------------------------------------------------------------------
(* Finite sets of tickets.                                                 *)

\* Tickets are finitely many, and so is every set of them.
LEMMA TicketsFinite ==
  /\ IsFiniteSet(Ticket) /\ Cardinality(Ticket) = MaxTickets
  /\ \A S \in SUBSET Ticket : IsFiniteSet(S) /\ Cardinality(S) \in 0 .. MaxTickets
  <1>1. MaxTickets \in Nat /\ Ticket = 0 .. MaxTickets - 1
    BY QueueAssumption DEF Ticket
  <1>2. IsFiniteSet(Ticket) /\ Cardinality(Ticket) = MaxTickets
    BY <1>1, FS_Interval
  <1>3. ASSUME NEW S \in SUBSET Ticket
        PROVE  IsFiniteSet(S) /\ Cardinality(S) \in 0 .. MaxTickets
    <2>1. IsFiniteSet(S) /\ Cardinality(S) <= MaxTickets
      BY <1>2, FS_Subset
    <2> QED
      BY <1>1, <2>1, FS_CardinalityType
  <1> QED
    BY <1>2, <1>3

\* A set of tickets has a last one: the distance to the bound has a least one.
LEMMA LastExists ==
  ASSUME NEW S \in SUBSET Ticket, S # {}
  PROVE  \E t \in S : \A o \in S : o <= t
  <1> DEFINE T == {MaxTickets - t : t \in S}
             R == OpToRel(<, Nat)
  <1>1. \A t \in S : t \in Int /\ MaxTickets - t \in Nat
    BY QueueAssumption DEF Ticket
  <1>2. T \subseteq Nat
    BY <1>1
  <1>3. T # {}
    <2>1. PICK t : t \in S
      OBVIOUS
    <2>2. MaxTickets - t \in T
      BY <2>1
    <2> QED
      BY <2>2
  <1>4. IsWellFoundedOn(R, Nat)
    BY NatLessThanWellFounded
  <1>5. \A x, y \in Nat : <<y, x>> \in R <=> y < x
    BY DEF OpToRel
  <1> HIDE DEF R
  <1>6. PICK x \in T : \A y \in T : <<y, x>> \notin R
    <2> HIDE DEF T
    <2> QED
      BY <1>2, <1>3, <1>4, WFMin
  <1>7. PICK t \in S : x = MaxTickets - t
    BY <1>6
  <1>8. ASSUME NEW o \in S PROVE o <= t
    <2>1. MaxTickets - o \in T /\ MaxTickets - o \in Nat /\ MaxTickets - t \in Nat
      BY <1>1
    <2>2. ~(MaxTickets - o < MaxTickets - t)
      BY <2>1, <1>5, <1>6, <1>7
    <2> QED
      BY <2>1, <2>2, <1>1, QueueAssumption
  <1> QED
    BY <1>8

\* An entry is the old one or that of a caller.
LEMMA EntryOf ==
  ASSUME NEW S \in SUBSET Ticket, NEW old
  PROVE  IF S = {} THEN Entry(S, old) = old ELSE Entry(S, old) \in S
  BY LastExists DEF Entry

-----------------------------------------------------------------------------
(* canStart excludes every active claim, global or not.                    *)

\* What canStart reads excludes a conflict with whoever is active.
LEMMA CanStartFree ==
  ASSUME NEW q, Indexed(q), NEW t \in Ticket, CanStart(q, t), NEW o \in Active(q)
  PROVE  ~ClaimsConflict(q.claim[o], q.claim[t])
  <1> DEFINE c == q.claim[o]
             d == q.claim[t]
  <1>1. /\ o \in Ticket /\ t \notin Active(q) /\ q.state[t] = "waiting"
        /\ c \in Claim /\ d \in Claim
    BY DEF Indexed, QueueType, Active, CanStart
  <1>2. ~d.global
    <2>1. SUFFICES ASSUME d.global PROVE FALSE
      OBVIOUS
    <2>2. Cardinality(Active(q)) = 0
      BY <2>1 DEF CanStart, Indexed, Counted
    <2>3. Active(q) \in SUBSET Ticket
      BY DEF Active
    <2> QED
      BY <2>2, <2>3, TicketsFinite, FS_EmptySet
  <1>3. /\ q.activeGlobal = None /\ ExactFree(q, t) /\ AncestorsFree(q, t)
        /\ PrefixesFree(q, t)
    BY <1>2 DEF CanStart
  <1>4. ~c.global
    BY <1>3 DEF Indexed, HoldersRecorded
  \* an entry of a map is an active ticket, and t is none
  <1>5. \A key \in ExactKeys(d) : key \notin ExactKeys(c)
    <2> SUFFICES ASSUME NEW key \in ExactKeys(d), key \in ExactKeys(c) PROVE FALSE
      OBVIOUS
    <2>1. key \in ExactKey
      BY <1>1, KeysOfClaim
    <2>2. q.activeExact[key] # None
      BY DEF Indexed, HoldersRecorded
    <2>3. q.activeExact[key] = t
      BY <1>3, <2>2 DEF ExactFree
    <2> QED
      BY <1>1, <2>1, <2>2, <2>3 DEF Indexed, EntriesValid
  <1>6. \A path \in d.paths, prefix \in c.prefixes : ~IsUnder(path, prefix)
    <2> SUFFICES ASSUME NEW path \in d.paths, NEW prefix \in c.prefixes,
                        IsUnder(path, prefix)
                 PROVE  FALSE
      OBVIOUS
    <2>1. path \in Paths /\ prefix \in Paths
      BY <1>1 DEF Claim
    <2>2. prefix \in PathAncestors(path) \cap Paths
      BY <2>1, UnderAncestor
    <2>3. q.activePrefixes[prefix] # None
      BY DEF Indexed, HoldersRecorded
    <2>4. q.activePrefixes[prefix] = t
      BY <1>3, <2>2, <2>3 DEF AncestorsFree
    <2> QED
      BY <1>1, <2>1, <2>3, <2>4 DEF Indexed, EntriesValid
  <1>7. CASE d.prefixes # {}
    BY <1>1, <1>3, <1>7 DEF PrefixesFree, Live, Active
  <1>8. CASE d.prefixes = {}
    <2>1. /\ c.resources \cap d.resources = {} /\ c.noteIds \cap d.noteIds = {}
          /\ c.paths \cap d.paths = {}
      <3>1. /\ c.resources \subseteq Resources /\ c.noteIds \subseteq NoteIds
            /\ c.paths \subseteq Paths
        BY <1>1 DEF Claim
      <3> HIDE DEF c, d
      <3>2. \A x \in c.resources : x \notin d.resources
        BY <1>1, <1>5, <3>1, KeysOfClaim
      <3>3. \A x \in c.noteIds : x \notin d.noteIds
        BY <1>1, <1>5, <3>1, KeysOfClaim
      <3>4. \A x \in c.paths : x \notin d.paths
        BY <1>1, <1>5, <3>1, KeysOfClaim
      <3> QED
        BY <3>2, <3>3, <3>4
    <2>2. ~ReachesInto(c.paths, d.prefixes) /\ ~ReachesInto(c.prefixes, d.prefixes)
      BY <1>8 DEF ReachesInto
    <2>3. ~ReachesInto(d.paths, c.prefixes) /\ ~ReachesInto(d.prefixes, c.prefixes)
      BY <1>6, <1>8 DEF ReachesInto
    <2> QED
      BY <1>2, <1>4, <2>1, <2>2, <2>3 DEF ClaimsConflict
  <1> QED
    BY <1>7, <1>8

-----------------------------------------------------------------------------
(* Activation.                                                             *)

\* What an activation changes and leaves alone.
LEMMA ActivateFields ==
  ASSUME NEW q \in QueueType, NEW S \in SUBSET Waiting(q)
  PROVE  LET r == Activate(q, S) IN
         /\ Active(r) = Active(q) \cup S
         /\ Live(r) = Live(q) /\ Waiting(r) = Waiting(q) \ S
         /\ r.claim = q.claim /\ r.keys = q.keys /\ r.nextTicket = q.nextTicket
         /\ r.prefixWaiterCount = q.prefixWaiterCount
         /\ r.activeCount = q.activeCount + Cardinality(S)
         /\ r.state \in [Ticket -> {"unborn", "waiting", "active", "released"}]
         /\ \A t \in Ticket : r.state[t] # "unborn" <=> q.state[t] # "unborn"
  BY DEF Activate, QueueType, Active, Live, Waiting

\* What the active maps hold after an activation.
LEMMA ActivateEntries ==
  ASSUME NEW q \in QueueType, NEW S \in SUBSET Waiting(q)
  PROVE  LET r == Activate(q, S) IN
         /\ r.activeExact \in [ExactKey -> Ticket \cup {None}]
         /\ r.activePrefixes \in [Paths -> Ticket \cup {None}]
         /\ r.activeGlobal \in Ticket \cup {None}
         /\ \A key \in ExactKey :
               \/ r.activeExact[key] \in S /\ key \in ExactKeys(q.claim[r.activeExact[key]])
               \/ /\ r.activeExact[key] = q.activeExact[key]
                  /\ \A t \in S : key \notin ExactKeys(q.claim[t])
         /\ \A path \in Paths :
               \/ r.activePrefixes[path] \in S /\ path \in q.claim[r.activePrefixes[path]].prefixes
               \/ /\ r.activePrefixes[path] = q.activePrefixes[path]
                  /\ \A t \in S : path \notin q.claim[t].prefixes
         /\ \/ r.activeGlobal \in S /\ q.claim[r.activeGlobal].global
            \/ /\ r.activeGlobal = q.activeGlobal
               /\ \A t \in S : ~q.claim[t].global
  <1> DEFINE r == Activate(q, S)
             ExactOf(key) == {t \in S : key \in ExactKeys(q.claim[t])}
             PrefixOf(path) == {t \in S : path \in q.claim[t].prefixes}
             GlobalOf == {t \in S : q.claim[t].global}
  <1>1. S \subseteq Ticket
    BY DEF Waiting
  <1>2. \A key \in ExactKey : r.activeExact[key] = Entry(ExactOf(key), q.activeExact[key])
    BY DEF Activate, QueueType
  <1>3. \A path \in Paths :
           r.activePrefixes[path] = Entry(PrefixOf(path), q.activePrefixes[path])
    BY DEF Activate, QueueType
  <1>4. r.activeGlobal = Entry(GlobalOf, q.activeGlobal)
    BY DEF Activate, QueueType
  <1>5. /\ DOMAIN r.activeExact = ExactKey /\ DOMAIN r.activePrefixes = Paths
        /\ r.activeExact = [key \in ExactKey |-> r.activeExact[key]]
        /\ r.activePrefixes = [path \in Paths |-> r.activePrefixes[path]]
    BY DEF Activate, QueueType
  <1> HIDE DEF r
  <1>6. ASSUME NEW key \in ExactKey
        PROVE  /\ r.activeExact[key] \in Ticket \cup {None}
               /\ \/ r.activeExact[key] \in ExactOf(key)
                  \/ ExactOf(key) = {} /\ r.activeExact[key] = q.activeExact[key]
    <2>1. ExactOf(key) \in SUBSET Ticket /\ q.activeExact[key] \in Ticket \cup {None}
      BY <1>1 DEF QueueType
    <2> QED
      BY <1>2, <2>1, EntryOf
  <1>7. ASSUME NEW path \in Paths
        PROVE  /\ r.activePrefixes[path] \in Ticket \cup {None}
               /\ \/ r.activePrefixes[path] \in PrefixOf(path)
                  \/ PrefixOf(path) = {} /\ r.activePrefixes[path] = q.activePrefixes[path]
    <2>1. PrefixOf(path) \in SUBSET Ticket /\ q.activePrefixes[path] \in Ticket \cup {None}
      BY <1>1 DEF QueueType
    <2> QED
      BY <1>3, <2>1, EntryOf
  <1>8. /\ r.activeGlobal \in Ticket \cup {None}
        /\ \/ r.activeGlobal \in GlobalOf
           \/ GlobalOf = {} /\ r.activeGlobal = q.activeGlobal
    <2>1. GlobalOf \in SUBSET Ticket /\ q.activeGlobal \in Ticket \cup {None}
      BY <1>1 DEF QueueType
    <2> QED
      BY <1>4, <2>1, EntryOf
  <1>9. /\ r.activeExact \in [ExactKey -> Ticket \cup {None}]
        /\ r.activePrefixes \in [Paths -> Ticket \cup {None}]
    BY <1>5, <1>6, <1>7
  <1> QED
    BY <1>6, <1>7, <1>8, <1>9 DEF r

\* The activation of any waiters keeps the indexes in order.
LEMMA ActivateIndexed ==
  ASSUME NEW q, Indexed(q), NEW S \in SUBSET Waiting(q)
  PROVE  Indexed(Activate(q, S))
  <1> DEFINE r == Activate(q, S)
  <1>1. q \in QueueType
    BY DEF Indexed
  <1>2. /\ Active(r) = Active(q) \cup S /\ Live(r) = Live(q)
        /\ r.claim = q.claim /\ r.keys = q.keys /\ r.nextTicket = q.nextTicket
        /\ r.prefixWaiterCount = q.prefixWaiterCount
        /\ r.activeCount = q.activeCount + Cardinality(S)
        /\ r.state \in [Ticket -> {"unborn", "waiting", "active", "released"}]
        /\ \A t \in Ticket : r.state[t] # "unborn" <=> q.state[t] # "unborn"
    BY <1>1, ActivateFields
  <1>3. /\ S \subseteq Ticket /\ Active(q) \subseteq Ticket /\ S \cap Active(q) = {}
    BY DEF Waiting, Active
  <1>4. /\ r.activeCount = Cardinality(Active(r)) /\ r.activeCount \in 0 .. MaxTickets
    <2>1. Cardinality(Active(r))
            = Cardinality(Active(q)) + Cardinality(S) - Cardinality(Active(q) \cap S)
      BY <1>2, <1>3, TicketsFinite, FS_Union
    <2>2. Cardinality(Active(q) \cap S) = 0
      BY <1>3, FS_EmptySet
    <2>3. Cardinality(Active(r)) \in 0 .. MaxTickets
      BY <1>2, <1>3, TicketsFinite
    <2>4. Cardinality(Active(q)) \in Nat /\ Cardinality(S) \in Nat
      BY <1>3, TicketsFinite, FS_CardinalityType
    <2> QED
      BY <1>2, <2>1, <2>2, <2>3, <2>4 DEF Indexed, Counted
  <1>5. Counted(r)
    BY <1>2, <1>4 DEF Indexed, Counted, PrefixLive
  <1>6. r \in QueueType
    <2> DEFINE st == [t \in Ticket |-> IF t \in S THEN "active" ELSE q.state[t]]
               ac == q.activeCount + Cardinality(S)
               ag == Entry({t \in S : q.claim[t].global}, q.activeGlobal)
               ae == [key \in ExactKey |->
                        Entry({t \in S : key \in ExactKeys(q.claim[t])}, q.activeExact[key])]
               ap == [path \in Paths |->
                        Entry({t \in S : path \in q.claim[t].prefixes}, q.activePrefixes[path])]
    <2>1. r = [q EXCEPT !.state = st, !.activeCount = ac, !.activeGlobal = ag,
                        !.activeExact = ae, !.activePrefixes = ap]
      BY DEF Activate
    <2> HIDE DEF r, st, ac, ag, ae, ap
    <2>2. r.state = st /\ r.activeCount = ac /\ r.activeGlobal = ag
          /\ r.activeExact = ae /\ r.activePrefixes = ap
      BY <1>1, <2>1 DEF QueueType
    <2>3. /\ ae \in [ExactKey -> Ticket \cup {None}]
          /\ ap \in [Paths -> Ticket \cup {None}]
          /\ ag \in Ticket \cup {None}
      BY <1>1, <2>2, ActivateEntries DEF r
    <2> QED
      BY <1>1, <1>2, <1>4, <2>1, <2>2, <2>3 DEF QueueType
  <1>7. EntriesValid(r) /\ HoldersRecorded(r)
    <2>1. /\ \A key \in ExactKey :
               \/ r.activeExact[key] \in S /\ key \in ExactKeys(q.claim[r.activeExact[key]])
               \/ /\ r.activeExact[key] = q.activeExact[key]
                  /\ \A t \in S : key \notin ExactKeys(q.claim[t])
          /\ \A path \in Paths :
               \/ r.activePrefixes[path] \in S /\ path \in q.claim[r.activePrefixes[path]].prefixes
               \/ /\ r.activePrefixes[path] = q.activePrefixes[path]
                  /\ \A t \in S : path \notin q.claim[t].prefixes
          /\ \/ r.activeGlobal \in S /\ q.claim[r.activeGlobal].global
             \/ /\ r.activeGlobal = q.activeGlobal
                /\ \A t \in S : ~q.claim[t].global
      BY <1>1, ActivateEntries
    <2>2. \A t \in Ticket : q.claim[t] \in Claim /\ ExactKeys(q.claim[t]) \subseteq ExactKey
                              /\ q.claim[t].prefixes \subseteq Paths
      BY <1>1, KeysOfClaim DEF QueueType, Claim
    <2>3. None \notin Ticket
      BY QueueAssumption DEF None, Ticket
    <2> HIDE DEF r
    <2>4. EntriesValid(r)
      BY <1>2, <2>1 DEF Indexed, EntriesValid
    <2>5. HoldersRecorded(r)
      BY <1>2, <1>3, <2>1, <2>2, <2>3 DEF Indexed, HoldersRecorded
    <2> QED
      BY <2>4, <2>5
  <1> QED
    BY <1>2, <1>5, <1>6, <1>7 DEF Indexed, Issued, Queued

-----------------------------------------------------------------------------
(* A wake-up starts only waiters that exclude nobody who runs then.        *)

\* A wake-up over any candidates keeps the invariant.
LEMMA TryCandidatesSafe ==
  ASSUME NEW q, Indexed(q), NoConflict(q), NEW candidates \in SUBSET Waiting(q),
         NEW r, TryCandidates(q, candidates, r)
  PROVE  Indexed(r) /\ NoConflict(r)
  <1>1. PICK started \in SUBSET candidates :
           /\ \A t \in candidates :
                 t \in started <=> CanStart(Activate(q, {s \in started : s < t}), t)
           /\ r = Activate(q, started)
    BY DEF TryCandidates
  <1>2. started \in SUBSET Waiting(q) /\ q \in QueueType /\ Waiting(q) \subseteq Ticket
    BY DEF Waiting, Indexed
  <1>3. Indexed(r) /\ Active(r) = Active(q) \cup started /\ r.claim = q.claim
    BY <1>1, <1>2, ActivateIndexed, ActivateFields
  <1>4. \A o \in Active(r) : o \in Ticket /\ q.claim[o] \in Claim
    BY <1>2 DEF Active, QueueType
  \* whoever runs when t starts is compared with t
  <1>5. ASSUME NEW t \in started, NEW o \in Active(r),
               o \in Active(q) \/ (o \in started /\ o < t)
        PROVE  ~ClaimsConflict(q.claim[o], q.claim[t])
    <2> DEFINE earlier == {s \in started : s < t}
               u == Activate(q, earlier)
    <2>1. earlier \in SUBSET Waiting(q) /\ t \in Ticket
      BY <1>2
    <2>2. CanStart(u, t)
      BY <1>1
    <2>3. Indexed(u) /\ Active(u) = Active(q) \cup earlier /\ u.claim = q.claim
      BY <1>2, <2>1, ActivateIndexed, ActivateFields
    <2>4. o \in Active(u)
      BY <1>5, <2>3
    <2> HIDE DEF u, earlier
    <2> QED
      BY <2>1, <2>2, <2>3, <2>4, CanStartFree
  <1>6. ASSUME NEW s \in Active(r), NEW t \in Active(r), s # t
        PROVE  ~ClaimsConflict(q.claim[s], q.claim[t])
    <2>1. CASE s \in Active(q) /\ t \in Active(q)
      BY <1>6, <2>1 DEF NoConflict
    <2>2. CASE t \in started /\ s \in Active(q)
      BY <1>5, <2>2
    <2>3. CASE s \in started /\ t \in Active(q)
      BY <1>4, <1>5, <2>3, ConflictSymmetric
    <2>4. CASE s \in started /\ t \in started
      <3>1. s \in Int /\ t \in Int /\ (s < t \/ t < s)
        BY <1>2, <1>6, <2>4, QueueAssumption DEF Ticket
      <3>2. CASE s < t
        BY <1>5, <2>4, <3>2
      <3>3. CASE t < s
        BY <1>4, <1>5, <2>4, <3>3, ConflictSymmetric
      <3> QED
        BY <3>1, <3>2, <3>3
    <2> QED
      BY <1>3, <1>6, <2>1, <2>2, <2>3, <2>4
  <1> QED
    BY <1>3, <1>6 DEF NoConflict

-----------------------------------------------------------------------------
(* removeActive clears the entries of the claim it gives up and no others. *)

\* The entries that remain are those of the claims still held.
LEMMA RemoveActiveEntries ==
  ASSUME NEW q, Indexed(q), NoConflict(q), NEW t \in Active(q),
         NEW r,
         r.activeExact = RemoveActive(q, t).activeExact,
         r.activePrefixes = RemoveActive(q, t).activePrefixes,
         r.activeGlobal = RemoveActive(q, t).activeGlobal,
         Active(r) = Active(q) \ {t},
         \A o \in Active(r) : r.claim[o] = q.claim[o]
  PROVE  /\ r.activeExact \in [ExactKey -> Ticket \cup {None}]
         /\ r.activePrefixes \in [Paths -> Ticket \cup {None}]
         /\ r.activeGlobal \in Ticket \cup {None}
         /\ EntriesValid(r) /\ HoldersRecorded(r) /\ NoConflict(r)
  <1>1. /\ q \in QueueType /\ t \in Ticket
        /\ \A o \in Active(q) : o \in Ticket /\ q.claim[o] \in Claim
                                  /\ ExactKeys(q.claim[o]) \subseteq ExactKey
                                  /\ q.claim[o].prefixes \subseteq Paths
    BY KeysOfClaim DEF Indexed, QueueType, Active, Claim
  <1>2. /\ r.activeExact = [key \in ExactKey |->
             IF key \in ExactKeys(q.claim[t]) /\ q.activeExact[key] = t
             THEN None ELSE q.activeExact[key]]
        /\ r.activePrefixes = [path \in Paths |->
             IF path \in q.claim[t].prefixes /\ q.activePrefixes[path] = t
             THEN None ELSE q.activePrefixes[path]]
        /\ r.activeGlobal = IF q.claim[t].global THEN None ELSE q.activeGlobal
    BY <1>1 DEF RemoveActive, QueueType
  <1>3. /\ r.activeExact \in [ExactKey -> Ticket \cup {None}]
        /\ r.activePrefixes \in [Paths -> Ticket \cup {None}]
        /\ r.activeGlobal \in Ticket \cup {None}
    BY <1>1, <1>2 DEF QueueType
  <1>4. EntriesValid(r)
    BY <1>1, <1>2 DEF EntriesValid, Indexed
  <1>5. HoldersRecorded(r)
    <2> SUFFICES ASSUME NEW o \in Active(r)
                 PROVE  /\ \A key \in ExactKeys(r.claim[o]) : r.activeExact[key] # None
                        /\ \A path \in r.claim[o].prefixes : r.activePrefixes[path] # None
                        /\ r.claim[o].global => r.activeGlobal # None
      BY DEF HoldersRecorded
    <2>1. /\ o \in Active(q) /\ o # t /\ r.claim[o] = q.claim[o]
          /\ ~ClaimsConflict(q.claim[o], q.claim[t])
      BY DEF NoConflict
    <2>2. ASSUME NEW key \in ExactKeys(q.claim[o]) PROVE r.activeExact[key] # None
      <3>1. key \in ExactKey /\ q.activeExact[key] # None
        BY <1>1, <2>1 DEF Indexed, HoldersRecorded
      <3>2. key \notin ExactKeys(q.claim[t])
        BY <1>1, <2>1, SharedKeyConflicts
      <3> QED
        BY <1>2, <3>1, <3>2
    <2>3. ASSUME NEW path \in q.claim[o].prefixes PROVE r.activePrefixes[path] # None
      <3>1. path \in Paths /\ q.activePrefixes[path] # None
        BY <1>1, <2>1 DEF Indexed, HoldersRecorded
      <3>2. path \notin q.claim[t].prefixes
        BY <1>1, <2>1, SharedPrefixConflicts
      <3> QED
        BY <1>2, <3>1, <3>2
    <2>4. q.claim[o].global => r.activeGlobal # None
      BY <2>1 DEF ClaimsConflict
    <2> QED
      BY <2>1, <2>2, <2>3, <2>4
  <1>6. NoConflict(r)
    BY DEF NoConflict
  <1> QED
    BY <1>3, <1>4, <1>5, <1>6

-----------------------------------------------------------------------------
(* The three operations, up to their wake-ups.                             *)

\* The absent entry is no ticket.
LEMMA NoneIsNoTicket == None \notin Ticket
  BY QueueAssumption DEF None, Ticket

\* acquire, before its tryStart.
LEMMA EnqueuedSafe ==
  ASSUME NEW q, Indexed(q), NoConflict(q), NEW claim \in Claim, q.nextTicket \in Ticket
  PROVE  LET t == q.nextTicket
             r == Enqueued(q, t, claim)
         IN  Indexed(r) /\ NoConflict(r) /\ t \in Waiting(r)
  <1> DEFINE t == q.nextTicket
             r == Enqueued(q, t, claim)
  <1>1. /\ q \in QueueType /\ t \in Ticket /\ q.state[t] = "unborn"
        /\ t \in 0 .. MaxTickets - 1 /\ t + 1 \in 0 .. MaxTickets
    BY QueueAssumption DEF Indexed, Issued, QueueType, Ticket
  <1>2. /\ r.nextTicket = t + 1 /\ r.state = [q.state EXCEPT ![t] = "waiting"]
        /\ r.claim = [q.claim EXCEPT ![t] = claim]
        /\ r.keys = [q.keys EXCEPT ![t] = MembershipKeys(claim)]
        /\ r.activeExact = q.activeExact /\ r.activePrefixes = q.activePrefixes
        /\ r.activeGlobal = q.activeGlobal /\ r.activeCount = q.activeCount
        /\ r.prefixWaiterCount = q.prefixWaiterCount + HasPrefixes(claim)
    BY <1>1 DEF Enqueued, QueueType
  <1>3. MembershipKeys(claim) \in SUBSET Key
    BY KeysOfClaim
  <1>4. /\ Active(r) = Active(q) /\ Live(r) = Live(q) \cup {t} /\ t \notin Live(q)
        /\ Waiting(r) = Waiting(q) \cup {t}
        /\ \A o \in Active(q) : o # t /\ r.claim[o] = q.claim[o]
    BY <1>1, <1>2 DEF Active, Live, Waiting, QueueType
  <1>5. PrefixLive(r) = PrefixLive(q) \cup (IF claim.prefixes # {} THEN {t} ELSE {})
    BY <1>1, <1>2, <1>4 DEF PrefixLive, Live, QueueType
  <1>6. /\ r.prefixWaiterCount = Cardinality(PrefixLive(r))
        /\ r.prefixWaiterCount \in 0 .. MaxTickets
    <2>1. PrefixLive(q) \in SUBSET Ticket /\ PrefixLive(r) \in SUBSET Ticket
      BY DEF PrefixLive, Live
    <2>2. t \notin PrefixLive(q)
      BY <1>4 DEF PrefixLive
    <2>3. IsFiniteSet(PrefixLive(q)) /\ Cardinality(PrefixLive(q)) \in 0 .. MaxTickets
          /\ Cardinality(PrefixLive(r)) \in 0 .. MaxTickets
      BY <2>1, TicketsFinite
    <2>4. Cardinality(PrefixLive(r)) = Cardinality(PrefixLive(q)) + HasPrefixes(claim)
      <3>1. CASE claim.prefixes # {}
        BY <1>5, <2>2, <2>3, <3>1, FS_AddElement DEF HasPrefixes
      <3>2. CASE claim.prefixes = {}
        BY <1>5, <2>3, <3>2 DEF HasPrefixes
      <3> QED
        BY <3>1, <3>2
    <2> QED
      BY <1>2, <2>3, <2>4 DEF Indexed, Counted
  <1>7. r \in QueueType
    <2> DEFINE n == q.prefixWaiterCount + HasPrefixes(claim)
               st == [q.state EXCEPT ![t] = "waiting"]
               cl == [q.claim EXCEPT ![t] = claim]
               ks == [q.keys EXCEPT ![t] = MembershipKeys(claim)]
    <2>1. r = [q EXCEPT !.nextTicket = t + 1, !.state = st, !.claim = cl, !.keys = ks,
                        !.prefixWaiterCount = n]
      BY DEF Enqueued
    <2>2. /\ n \in 0 .. MaxTickets
          /\ st \in [Ticket -> {"unborn", "waiting", "active", "released"}]
          /\ cl \in [Ticket -> Claim] /\ ks \in [Ticket -> SUBSET Key]
      BY <1>1, <1>2, <1>3, <1>6 DEF QueueType
    <2> HIDE DEF r, n, st, cl, ks
    <2> QED
      BY <1>1, <2>1, <2>2 DEF QueueType
  <1> HIDE DEF r
  <1>8. EntriesValid(r) /\ HoldersRecorded(r) /\ NoConflict(r)
    BY <1>2, <1>4, NoneIsNoTicket DEF Indexed, EntriesValid, HoldersRecorded, NoConflict
  <1>9. Counted(r)
    BY <1>2, <1>4, <1>6 DEF Indexed, Counted
  <1>10. Issued(r)
    BY <1>1, <1>2, QueueAssumption DEF Indexed, Issued, QueueType, Ticket
  <1>11. Queued(r)
    BY <1>1, <1>2, <1>4 DEF Indexed, Queued, QueueType
  <1> QED
    BY <1>4, <1>7, <1>8, <1>9, <1>10, <1>11 DEF Indexed, r

\* What removeActive changes and leaves alone.
LEMMA RemoveActiveFields ==
  ASSUME NEW q \in QueueType, NEW t \in Ticket
  PROVE  LET r == RemoveActive(q, t) IN
         /\ r = [q EXCEPT !.activeCount = q.activeCount - 1,
                          !.activeGlobal = r.activeGlobal,
                          !.activeExact = r.activeExact,
                          !.activePrefixes = r.activePrefixes]
         /\ r.state = q.state /\ r.claim = q.claim /\ r.keys = q.keys
         /\ r.nextTicket = q.nextTicket /\ r.prefixWaiterCount = q.prefixWaiterCount
         /\ r.activeCount = q.activeCount - 1
  <1> DEFINE ag == IF q.claim[t].global THEN None ELSE q.activeGlobal
             ae == [key \in ExactKey |->
                      IF key \in ExactKeys(q.claim[t]) /\ q.activeExact[key] = t
                      THEN None ELSE q.activeExact[key]]
             ap == [path \in Paths |->
                      IF path \in q.claim[t].prefixes /\ q.activePrefixes[path] = t
                      THEN None ELSE q.activePrefixes[path]]
  <1>1. RemoveActive(q, t) = [q EXCEPT !.activeCount = q.activeCount - 1,
                                       !.activeGlobal = ag, !.activeExact = ae,
                                       !.activePrefixes = ap]
    BY DEF RemoveActive
  <1> HIDE DEF ag, ae, ap
  <1> QED
    BY <1>1 DEF QueueType

\* finalRelease, before its wakeAfter.
LEMMA RemoveSafe ==
  ASSUME NEW q, Indexed(q), NoConflict(q), NEW t \in Active(q)
  PROVE  Indexed(Remove(q, t)) /\ NoConflict(Remove(q, t))
  <1> DEFINE a == RemoveActive(q, t)
             r == Remove(q, t)
             n == q.prefixWaiterCount - HasPrefixes(q.claim[t])
  <1>1. /\ q \in QueueType /\ t \in Ticket /\ q.state[t] = "active"
        /\ EmptyClaim \in Claim
    BY DEF Indexed, Active, EmptyClaim, Claim
  <1>2. /\ a.state = q.state /\ a.claim = q.claim /\ a.keys = q.keys
        /\ a.nextTicket = q.nextTicket /\ a.prefixWaiterCount = q.prefixWaiterCount
        /\ a.activeCount = q.activeCount - 1
        /\ a = [q EXCEPT !.activeCount = q.activeCount - 1,
                         !.activeGlobal = a.activeGlobal,
                         !.activeExact = a.activeExact,
                         !.activePrefixes = a.activePrefixes]
    BY <1>1, RemoveActiveFields
  <1> HIDE DEF a
  <1>3. r = [a EXCEPT !.state = [q.state EXCEPT ![t] = "released"],
                      !.claim = [q.claim EXCEPT ![t] = EmptyClaim],
                      !.keys = [q.keys EXCEPT ![t] = {}],
                      !.prefixWaiterCount = n]
    BY <1>2 DEF Remove, a
  <1> HIDE DEF r, n
  <1>4. /\ r.state = [q.state EXCEPT ![t] = "released"]
        /\ r.claim = [q.claim EXCEPT ![t] = EmptyClaim]
        /\ r.keys = [q.keys EXCEPT ![t] = {}]
        /\ r.prefixWaiterCount = n
        /\ r.activeExact = a.activeExact /\ r.activePrefixes = a.activePrefixes
        /\ r.activeGlobal = a.activeGlobal /\ r.nextTicket = q.nextTicket
        /\ r.activeCount = q.activeCount - 1
    BY <1>1, <1>2, <1>3 DEF QueueType
  <1>5. /\ Active(r) = Active(q) \ {t} /\ Live(r) = Live(q) \ {t}
        /\ \A o \in Ticket \ {t} : r.claim[o] = q.claim[o]
    BY <1>1, <1>4 DEF Active, Live, QueueType
  <1>6. /\ r.activeExact \in [ExactKey -> Ticket \cup {None}]
        /\ r.activePrefixes \in [Paths -> Ticket \cup {None}]
        /\ r.activeGlobal \in Ticket \cup {None}
        /\ EntriesValid(r) /\ HoldersRecorded(r) /\ NoConflict(r)
    <2>1. \A o \in Active(r) : r.claim[o] = q.claim[o]
      BY <1>5 DEF Active
    <2> QED
      BY <1>4, <1>5, <2>1, RemoveActiveEntries DEF a
  <1>7. r.activeCount = Cardinality(Active(r)) /\ r.activeCount \in 0 .. MaxTickets
    <2>1. Active(q) \in SUBSET Ticket /\ Active(r) \in SUBSET Ticket
      BY DEF Active
    <2>2. Cardinality(Active(r)) = Cardinality(Active(q)) - 1
      BY <1>5, <2>1, TicketsFinite, FS_RemoveElement
    <2> QED
      BY <1>4, <2>1, <2>2, TicketsFinite DEF Indexed, Counted
  <1>8. /\ r.prefixWaiterCount = Cardinality(PrefixLive(r))
        /\ r.prefixWaiterCount \in 0 .. MaxTickets
    <2>1. PrefixLive(q) \in SUBSET Ticket /\ PrefixLive(r) \in SUBSET Ticket
      BY DEF PrefixLive, Live
    <2>2. /\ PrefixLive(r) = PrefixLive(q) \ {t}
          /\ t \in PrefixLive(q) <=> q.claim[t].prefixes # {}
      BY <1>1, <1>5 DEF PrefixLive, Live
    <2>3. Cardinality(PrefixLive(r)) = Cardinality(PrefixLive(q)) - HasPrefixes(q.claim[t])
      <3>1. IsFiniteSet(PrefixLive(q)) /\ Cardinality(PrefixLive(q)) \in 0 .. MaxTickets
        BY <2>1, TicketsFinite
      <3>2. CASE q.claim[t].prefixes # {}
        BY <2>2, <3>1, <3>2, FS_RemoveElement DEF HasPrefixes
      <3>3. CASE q.claim[t].prefixes = {}
        <4>1. PrefixLive(r) = PrefixLive(q) /\ HasPrefixes(q.claim[t]) = 0
          BY <2>2, <3>3 DEF HasPrefixes
        <4>2. \A n0 \in Int : n0 - 0 = n0
          OBVIOUS
        <4> QED
          BY <3>1, <4>1, <4>2
      <3> QED
        BY <3>2, <3>3
    <2> QED
      BY <1>4, <2>1, <2>3, TicketsFinite DEF Indexed, Counted, n
  <1>9. r \in QueueType
    <2> DEFINE st == [q.state EXCEPT ![t] = "released"]
               cl == [q.claim EXCEPT ![t] = EmptyClaim]
               ks == [q.keys EXCEPT ![t] = {}]
    <2>1. /\ st \in [Ticket -> {"unborn", "waiting", "active", "released"}]
          /\ cl \in [Ticket -> Claim] /\ ks \in [Ticket -> SUBSET Key]
      BY <1>1 DEF QueueType
    <2>2. a \in QueueType
      BY <1>1, <1>2, <1>4, <1>6, <1>7 DEF QueueType
    <2> HIDE DEF st, cl, ks
    <2>3. r = [a EXCEPT !.state = st, !.claim = cl, !.keys = ks, !.prefixWaiterCount = n]
      BY <1>3 DEF st, cl, ks
    <2> QED
      BY <1>4, <1>8, <2>1, <2>2, <2>3 DEF QueueType
  <1>10. Counted(r)
    BY <1>7, <1>8 DEF Counted
  <1>11. Issued(r)
    BY <1>1, <1>4 DEF Indexed, Issued, QueueType
  <1>12. Queued(r)
    BY <1>1, <1>4, <1>5 DEF Indexed, Queued, QueueType
  <1> QED
    BY <1>6, <1>9, <1>10, <1>11, <1>12 DEF Indexed, r

\* retry, before its tryStart.
LEMMA RequeuedSafe ==
  ASSUME NEW q, Indexed(q), NoConflict(q), NEW t \in Active(q), NEW d \in Claim,
         MembershipKeys(q.claim[t]) \subseteq MembershipKeys(d),
         q.claim[t].prefixes \subseteq d.prefixes
  PROVE  /\ Indexed(Requeued(q, t, d)) /\ NoConflict(Requeued(q, t, d))
         /\ t \in Waiting(Requeued(q, t, d))
  <1> DEFINE a == RemoveActive(q, t)
             r == Requeued(q, t, d)
             n == q.prefixWaiterCount + GainedPrefixes(q.claim[t], d)
             ks == [q.keys EXCEPT ![t] = q.keys[t] \cup MembershipKeys(d)]
  <1>1. /\ q \in QueueType /\ t \in Ticket /\ q.state[t] = "active"
        /\ MembershipKeys(d) \subseteq Key
    BY KeysOfClaim DEF Indexed, Active
  <1>2. /\ a.state = q.state /\ a.claim = q.claim /\ a.keys = q.keys
        /\ a.nextTicket = q.nextTicket /\ a.prefixWaiterCount = q.prefixWaiterCount
        /\ a.activeCount = q.activeCount - 1
        /\ a = [q EXCEPT !.activeCount = q.activeCount - 1,
                         !.activeGlobal = a.activeGlobal,
                         !.activeExact = a.activeExact,
                         !.activePrefixes = a.activePrefixes]
    BY <1>1, RemoveActiveFields
  <1> HIDE DEF a
  <1>3. r = [a EXCEPT !.state = [q.state EXCEPT ![t] = "waiting"],
                      !.claim = [q.claim EXCEPT ![t] = d],
                      !.keys = ks,
                      !.prefixWaiterCount = n]
    BY <1>2 DEF Requeued, a
  <1>4. ks = [q.keys EXCEPT ![t] = MembershipKeys(d)]
    <2>1. q.keys[t] = MembershipKeys(q.claim[t])
      BY <1>1 DEF Indexed, Queued, Live
    <2>2. q.keys[t] \cup MembershipKeys(d) = MembershipKeys(d)
      BY <2>1
    <2> QED
      BY <2>2
  <1> HIDE DEF r, n, ks
  <1>5. /\ r.state = [q.state EXCEPT ![t] = "waiting"]
        /\ r.claim = [q.claim EXCEPT ![t] = d]
        /\ r.keys = ks
        /\ r.prefixWaiterCount = n
        /\ r.activeExact = a.activeExact /\ r.activePrefixes = a.activePrefixes
        /\ r.activeGlobal = a.activeGlobal /\ r.nextTicket = q.nextTicket
        /\ r.activeCount = q.activeCount - 1
    BY <1>1, <1>2, <1>3 DEF QueueType
  <1>6. /\ Active(r) = Active(q) \ {t} /\ Live(r) = Live(q) /\ t \in Waiting(r)
        /\ \A o \in Ticket \ {t} : r.claim[o] = q.claim[o]
    BY <1>1, <1>5 DEF Active, Live, Waiting, QueueType
  <1>7. /\ r.activeExact \in [ExactKey -> Ticket \cup {None}]
        /\ r.activePrefixes \in [Paths -> Ticket \cup {None}]
        /\ r.activeGlobal \in Ticket \cup {None}
        /\ EntriesValid(r) /\ HoldersRecorded(r) /\ NoConflict(r)
    <2>1. \A o \in Active(r) : r.claim[o] = q.claim[o]
      BY <1>6 DEF Active
    <2> QED
      BY <1>5, <1>6, <2>1, RemoveActiveEntries DEF a
  <1>8. r.activeCount = Cardinality(Active(r)) /\ r.activeCount \in 0 .. MaxTickets
    <2>1. Active(q) \in SUBSET Ticket /\ Active(r) \in SUBSET Ticket
      BY DEF Active
    <2>2. Cardinality(Active(r)) = Cardinality(Active(q)) - 1
      BY <1>6, <2>1, TicketsFinite, FS_RemoveElement
    <2> QED
      BY <1>5, <2>1, <2>2, TicketsFinite DEF Indexed, Counted
  <1>9. /\ r.prefixWaiterCount = Cardinality(PrefixLive(r))
        /\ r.prefixWaiterCount \in 0 .. MaxTickets
    <2>1. PrefixLive(q) \in SUBSET Ticket /\ PrefixLive(r) \in SUBSET Ticket
      BY DEF PrefixLive, Live
    <2>2. /\ t \in PrefixLive(q) <=> q.claim[t].prefixes # {}
          /\ PrefixLive(r) = PrefixLive(q) \cup (IF d.prefixes # {} THEN {t} ELSE {})
      BY <1>1, <1>5, <1>6 DEF PrefixLive, Live, QueueType
    <2>3. Cardinality(PrefixLive(r))
            = Cardinality(PrefixLive(q)) + GainedPrefixes(q.claim[t], d)
      <3>1. IsFiniteSet(PrefixLive(q)) /\ Cardinality(PrefixLive(q)) \in 0 .. MaxTickets
        BY <2>1, TicketsFinite
      <3>2. CASE d.prefixes # {}
        <4>1. Cardinality(PrefixLive(r)) = IF t \in PrefixLive(q)
                 THEN Cardinality(PrefixLive(q)) ELSE Cardinality(PrefixLive(q)) + 1
          BY <2>2, <3>1, <3>2, FS_AddElement
        <4> QED
          BY <2>2, <3>1, <3>2, <4>1 DEF GainedPrefixes, HasPrefixes
      <3>3. CASE d.prefixes = {}
        BY <2>2, <3>1, <3>3 DEF GainedPrefixes, HasPrefixes
      <3> QED
        BY <3>2, <3>3
    <2> QED
      BY <1>5, <2>1, <2>3, TicketsFinite DEF Indexed, Counted, n
  <1>10. r \in QueueType
    <2> DEFINE st == [q.state EXCEPT ![t] = "waiting"]
               cl == [q.claim EXCEPT ![t] = d]
    <2>1. /\ st \in [Ticket -> {"unborn", "waiting", "active", "released"}]
          /\ cl \in [Ticket -> Claim] /\ ks \in [Ticket -> SUBSET Key]
      BY <1>1, <1>4 DEF QueueType
    <2>2. a \in QueueType
      BY <1>1, <1>2, <1>5, <1>7, <1>8 DEF QueueType
    <2> HIDE DEF st, cl
    <2>3. r = [a EXCEPT !.state = st, !.claim = cl, !.keys = ks, !.prefixWaiterCount = n]
      BY <1>3 DEF st, cl
    <2> QED
      BY <1>5, <1>9, <2>1, <2>2, <2>3 DEF QueueType
  <1>11. Counted(r)
    BY <1>8, <1>9 DEF Counted
  <1>12. Issued(r)
    BY <1>1, <1>5 DEF Indexed, Issued, QueueType
  <1>13. Queued(r)
    BY <1>1, <1>4, <1>5, <1>6 DEF Indexed, Queued, QueueType, Waiting, Live
  <1> QED
    BY <1>6, <1>7, <1>10, <1>11, <1>12, <1>13 DEF Indexed, r

-----------------------------------------------------------------------------
(* The three operations with their wake-ups.                               *)

\* acquire.
LEMMA AcquireSafe ==
  ASSUME NEW q, Indexed(q), NoConflict(q), NEW claim \in Claim,
         NEW r, AcquireStep(q, claim, r)
  PROVE  Indexed(r) /\ NoConflict(r)
  <1> DEFINE t == q.nextTicket
             u == Enqueued(q, t, claim)
  <1>1. t \in Ticket /\ TryCandidates(u, {t}, r)
    BY DEF AcquireStep, TryStart
  <1>2. Indexed(u) /\ NoConflict(u) /\ {t} \in SUBSET Waiting(u)
    BY <1>1, EnqueuedSafe
  <1> HIDE DEF u, t
  <1> QED
    BY <1>1, <1>2, TryCandidatesSafe

\* wakeAfter tries waiters only.
LEMMA WakeCandidatesWait ==
  ASSUME NEW q, NEW claim, NEW skip
  PROVE  WakeCandidates(q, claim, skip) \in SUBSET Waiting(q)
  BY DEF WakeCandidates

\* release.
LEMMA ReleaseSafe ==
  ASSUME NEW q, Indexed(q), NoConflict(q), NEW t \in Ticket,
         NEW r, ReleaseStep(q, t, r)
  PROVE  Indexed(r) /\ NoConflict(r)
  <1> DEFINE u == Remove(q, t)
             candidates == WakeCandidates(u, q.claim[t], {})
  <1>1. t \in Active(q) /\ TryCandidates(u, candidates, r)
    BY DEF ReleaseStep, Active
  <1>2. Indexed(u) /\ NoConflict(u)
    BY <1>1, RemoveSafe
  <1>3. candidates \in SUBSET Waiting(u)
    BY WakeCandidatesWait
  <1> HIDE DEF u, candidates
  <1> QED
    BY <1>1, <1>2, <1>3, TryCandidatesSafe

\* retry, whose waiter is tried first and then skipped.
LEMMA RetrySafe ==
  ASSUME NEW q, Indexed(q), NoConflict(q), NEW t \in Ticket, NEW d \in Claim,
         MembershipKeys(q.claim[t]) \subseteq MembershipKeys(d),
         q.claim[t].prefixes \subseteq d.prefixes,
         NEW r, RetryStep(q, t, d, r)
  PROVE  Indexed(r) /\ NoConflict(r)
  <1> DEFINE u == Requeued(q, t, d)
             v == Activate(u, {t})
  <1>1. t \in Active(q)
    BY DEF RetryStep, Active
  <1>2. Indexed(u) /\ NoConflict(u) /\ t \in Waiting(u)
    BY <1>1, RequeuedSafe
  <1>3. CASE CanStart(u, t)
    \* trying t alone is a wake-up of the one candidate
    <2> DEFINE candidates == WakeCandidates(v, q.claim[t], {t})
    <2>1. TryCandidates(v, candidates, r)
      BY <1>3 DEF RetryStep
    <2>2. candidates \in SUBSET Waiting(v)
      BY WakeCandidatesWait
    <2>3. Indexed(v)
      BY <1>2, ActivateIndexed
    <2>4. NoConflict(v)
      <3>1. /\ {t} \in SUBSET Waiting(u) /\ u \in QueueType
            /\ \A o \in Active(u) : u.claim[o] \in Claim
            /\ u.claim[t] \in Claim
        BY <1>2 DEF Indexed, QueueType, Active
      <3>2. Active(v) = Active(u) \cup {t} /\ v.claim = u.claim
        BY <3>1, ActivateFields
      <3>3. \A o \in Active(u) : ~ClaimsConflict(u.claim[o], u.claim[t])
        BY <1>2, <1>3, CanStartFree
      <3>4. \A o \in Active(u) : ~ClaimsConflict(u.claim[t], u.claim[o])
        BY <3>1, <3>3, ConflictSymmetric
      <3> HIDE DEF u, v
      <3> QED
        BY <1>2, <3>2, <3>3, <3>4 DEF NoConflict
    <2> HIDE DEF v, candidates
    <2> QED
      BY <2>1, <2>2, <2>3, <2>4, TryCandidatesSafe
  <1>4. CASE ~CanStart(u, t)
    <2> DEFINE candidates == WakeCandidates(u, q.claim[t], {t})
    <2>1. TryCandidates(u, candidates, r)
      BY <1>4 DEF RetryStep
    <2>2. candidates \in SUBSET Waiting(u)
      BY WakeCandidatesWait
    <2> HIDE DEF u, candidates
    <2> QED
      BY <1>2, <2>1, <2>2, TryCandidatesSafe
  <1> QED
    BY <1>3, <1>4

-----------------------------------------------------------------------------
(* What the operations do to the waiters, for whoever uses the queue.      *)

\* finalRelease takes the ticket and its claim out, and nothing else.
LEMMA RemoveFields ==
  ASSUME NEW q \in QueueType, NEW t \in Ticket
  PROVE  /\ Remove(q, t).state = [q.state EXCEPT ![t] = "released"]
         /\ Remove(q, t).claim = [q.claim EXCEPT ![t] = EmptyClaim]
         /\ Remove(q, t).nextTicket = q.nextTicket
  <1> DEFINE a == RemoveActive(q, t)
  <1>1. /\ a.state = q.state /\ a.claim = q.claim /\ a.nextTicket = q.nextTicket
        /\ a = [q EXCEPT !.activeCount = q.activeCount - 1,
                         !.activeGlobal = a.activeGlobal,
                         !.activeExact = a.activeExact,
                         !.activePrefixes = a.activePrefixes]
    BY RemoveActiveFields
  <1> HIDE DEF a
  <1> QED
    BY <1>1 DEF Remove, QueueType, a

\* retry sets the ticket waiting with the new claim, and no other.
LEMMA RequeuedFields ==
  ASSUME NEW q \in QueueType, NEW t \in Ticket, NEW d
  PROVE  /\ Requeued(q, t, d).state = [q.state EXCEPT ![t] = "waiting"]
         /\ Requeued(q, t, d).claim = [q.claim EXCEPT ![t] = d]
         /\ Requeued(q, t, d).nextTicket = q.nextTicket
  <1> DEFINE a == RemoveActive(q, t)
  <1>1. /\ a.state = q.state /\ a.claim = q.claim /\ a.nextTicket = q.nextTicket
        /\ a = [q EXCEPT !.activeCount = q.activeCount - 1,
                         !.activeGlobal = a.activeGlobal,
                         !.activeExact = a.activeExact,
                         !.activePrefixes = a.activePrefixes]
    BY RemoveActiveFields
  <1> HIDE DEF a
  <1> QED
    BY <1>1 DEF Requeued, QueueType, a

\* The waiters of r are those of q with their claims, and so are its runners
\* at least.
KeepsWaiters(q, r) ==
    /\ Live(r) = Live(q) /\ r.claim = q.claim
    /\ Active(q) \subseteq Active(r)
    /\ \A t \in Ticket : r.state[t] = "unborn" <=> q.state[t] = "unborn"

\* A wake-up starts waiters and does nothing else to them.
LEMMA TryCandidatesKeeps ==
  ASSUME NEW q \in QueueType, NEW candidates \in SUBSET Waiting(q),
         NEW r, TryCandidates(q, candidates, r)
  PROVE  KeepsWaiters(q, r)
  <1>1. PICK started \in SUBSET candidates : r = Activate(q, started)
    BY DEF TryCandidates
  <1>2. started \in SUBSET Waiting(q)
    OBVIOUS
  <1> QED
    BY <1>1, <1>2, ActivateFields DEF KeepsWaiters

\* acquire adds one waiter, under a ticket never used before.
LEMMA AcquireAdds ==
  ASSUME NEW q, Indexed(q), NoConflict(q), NEW claim \in Claim,
         NEW r, AcquireStep(q, claim, r)
  PROVE  LET t == q.nextTicket IN
         /\ t \in Ticket /\ q.state[t] = "unborn"
         /\ Live(r) = Live(q) \cup {t} /\ Active(q) \subseteq Active(r)
         /\ \A o \in Ticket : r.state[o] = "unborn" <=> o # t /\ q.state[o] = "unborn"
         /\ \A o \in Ticket \ {t} : r.claim[o] = q.claim[o]
  <1> DEFINE t == q.nextTicket
             u == Enqueued(q, t, claim)
  <1>1. t \in Ticket /\ TryCandidates(u, {t}, r)
    BY DEF AcquireStep, TryStart
  <1>2. Indexed(u) /\ {t} \in SUBSET Waiting(u)
    BY <1>1, EnqueuedSafe
  <1>3. KeepsWaiters(u, r)
    <2> HIDE DEF u, t
    <2> QED
      BY <1>1, <1>2, TryCandidatesKeeps DEF Indexed
  <1>4. q.state[t] = "unborn"
    BY <1>1, QueueAssumption DEF Indexed, Issued, QueueType, Ticket
  <1>5. /\ u.state = [q.state EXCEPT ![t] = "waiting"] /\ q \in QueueType
        /\ u.claim = [q.claim EXCEPT ![t] = claim]
    BY DEF Enqueued, Indexed, QueueType
  <1> HIDE DEF u
  <1>6. /\ Live(u) = Live(q) \cup {t} /\ Active(u) = Active(q)
        /\ \A o \in Ticket : u.state[o] = "unborn" <=> o # t /\ q.state[o] = "unborn"
        /\ \A o \in Ticket \ {t} : u.claim[o] = q.claim[o]
    BY <1>1, <1>4, <1>5 DEF Live, Active, QueueType
  <1> QED
    BY <1>1, <1>3, <1>4, <1>6 DEF KeepsWaiters

\* release takes one waiter away.
LEMMA ReleaseTakes ==
  ASSUME NEW q, Indexed(q), NoConflict(q), NEW t \in Ticket,
         NEW r, ReleaseStep(q, t, r)
  PROVE  /\ Live(r) = Live(q) \ {t} /\ Active(q) \ {t} \subseteq Active(r)
         /\ \A o \in Ticket : r.state[o] = "unborn" <=> q.state[o] = "unborn"
         /\ \A o \in Ticket \ {t} : r.claim[o] = q.claim[o]
  <1> DEFINE u == Remove(q, t)
             candidates == WakeCandidates(u, q.claim[t], {})
  <1>1. t \in Active(q) /\ TryCandidates(u, candidates, r)
    BY DEF ReleaseStep, Active
  <1>2. Indexed(u) /\ candidates \in SUBSET Waiting(u)
    BY <1>1, RemoveSafe, WakeCandidatesWait
  <1>3. KeepsWaiters(u, r)
    <2> HIDE DEF u, candidates
    <2> QED
      BY <1>1, <1>2, TryCandidatesKeeps DEF Indexed
  <1>4. q \in QueueType
    BY DEF Indexed
  <1>5. /\ u.state = [q.state EXCEPT ![t] = "released"]
        /\ u.claim = [q.claim EXCEPT ![t] = EmptyClaim]
    BY <1>4, RemoveFields
  <1> HIDE DEF u
  <1>6. /\ Live(u) = Live(q) \ {t} /\ Active(u) = Active(q) \ {t}
        /\ \A o \in Ticket : u.state[o] = "unborn" <=> q.state[o] = "unborn"
        /\ \A o \in Ticket \ {t} : u.claim[o] = q.claim[o]
    BY <1>1, <1>4, <1>5 DEF Live, Active, QueueType
  <1> QED
    BY <1>3, <1>6 DEF KeepsWaiters

\* retry keeps every waiter, and every runner but the one that came back.
LEMMA RetryKeeps ==
  ASSUME NEW q, Indexed(q), NoConflict(q), NEW t \in Ticket, NEW d \in Claim,
         MembershipKeys(q.claim[t]) \subseteq MembershipKeys(d),
         q.claim[t].prefixes \subseteq d.prefixes,
         NEW r, RetryStep(q, t, d, r)
  PROVE  /\ Live(r) = Live(q) /\ Active(q) \ {t} \subseteq Active(r)
         /\ \A o \in Ticket : r.state[o] = "unborn" <=> q.state[o] = "unborn"
         /\ \A o \in Ticket \ {t} : r.claim[o] = q.claim[o]
  <1> DEFINE u == Requeued(q, t, d)
             v == Activate(u, {t})
  <1>1. t \in Active(q) /\ q \in QueueType
    BY DEF RetryStep, Active, Indexed
  <1>2. Indexed(u) /\ {t} \in SUBSET Waiting(u)
    BY <1>1, RequeuedSafe
  <1>3. /\ u.state = [q.state EXCEPT ![t] = "waiting"]
        /\ u.claim = [q.claim EXCEPT ![t] = d]
    BY <1>1, RequeuedFields
  <1>4. KeepsWaiters(u, r)
    <2>1. CASE CanStart(u, t)
      <3> DEFINE candidates == WakeCandidates(v, q.claim[t], {t})
      <3>1. TryCandidates(v, candidates, r)
        BY <2>1 DEF RetryStep
      <3>2. Indexed(v) /\ candidates \in SUBSET Waiting(v)
        BY <1>2, ActivateIndexed, WakeCandidatesWait
      <3>3. KeepsWaiters(v, r)
        <4> HIDE DEF v, candidates
        <4> QED
          BY <3>1, <3>2, TryCandidatesKeeps DEF Indexed
      <3>4. KeepsWaiters(u, v)
        <4>1. u \in QueueType
          BY <1>2 DEF Indexed
        <4> HIDE DEF u
        <4> QED
          BY <1>2, <4>1, ActivateFields DEF KeepsWaiters
      <3> HIDE DEF u, v
      <3> QED
        BY <3>3, <3>4 DEF KeepsWaiters
    <2>2. CASE ~CanStart(u, t)
      <3> DEFINE candidates == WakeCandidates(u, q.claim[t], {t})
      <3>1. TryCandidates(u, candidates, r)
        BY <2>2 DEF RetryStep
      <3>2. candidates \in SUBSET Waiting(u)
        BY WakeCandidatesWait
      <3> HIDE DEF u, candidates
      <3> QED
        BY <1>2, <3>1, <3>2, TryCandidatesKeeps DEF Indexed
    <2> QED
      BY <2>1, <2>2
  <1> HIDE DEF u
  <1>5. /\ Live(u) = Live(q) /\ Active(u) = Active(q) \ {t}
        /\ \A o \in Ticket : u.state[o] = "unborn" <=> q.state[o] = "unborn"
        /\ \A o \in Ticket \ {t} : u.claim[o] = q.claim[o]
    BY <1>1, <1>3 DEF Live, Active, QueueType
  <1> QED
    BY <1>4, <1>5 DEF KeepsWaiters

-----------------------------------------------------------------------------
(* The invariant and what follows from it.                                 *)

\* The empty queue.
LEMMA InvInit == Init => IInv
  <1> SUFFICES ASSUME Init PROVE IInv
    OBVIOUS
  <1> DEFINE q == EmptyQueue
  <1>1. queue = q
    BY DEF Init
  <1>2. /\ MaxTickets \in Nat /\ 0 \in 0 .. MaxTickets /\ EmptyClaim \in Claim
        /\ \A t \in Ticket : ~(t < 0)
    BY QueueAssumption DEF Ticket, EmptyClaim, Claim
  <1>3. q \in QueueType
    BY <1>2 DEF EmptyQueue, QueueType
  <1>4. Active(q) = {} /\ PrefixLive(q) = {} /\ Live(q) = {}
    BY DEF EmptyQueue, Active, PrefixLive, Live
  <1>5. Counted(q)
    BY <1>4, FS_EmptySet DEF Counted, EmptyQueue
  <1>6. Issued(q)
    BY <1>2 DEF Issued, EmptyQueue
  <1>7. Queued(q)
    BY <1>4 DEF Queued, EmptyQueue
  <1>8. EntriesValid(q) /\ HoldersRecorded(q) /\ NoConflict(q)
    BY <1>4 DEF EntriesValid, HoldersRecorded, NoConflict, EmptyQueue
  <1> QED
    BY <1>1, <1>3, <1>5, <1>6, <1>7, <1>8 DEF IInv, Indexed

\* Every call keeps the invariant.
LEMMA InvInductive == IInv /\ [Next]_queue => IInv'
  <1> SUFFICES ASSUME IInv, [Next]_queue PROVE IInv'
    OBVIOUS
  <1>1. Indexed(queue) /\ NoConflict(queue) /\ queue \in QueueType
    BY DEF IInv, Indexed
  <1>2. ASSUME NEW claim \in Requests, Acquire(claim) PROVE IInv'
    <2>1. claim \in Claim
      BY QueueAssumption
    <2> QED
      BY <1>1, <1>2, <2>1, AcquireSafe DEF Acquire, IInv
  <1>3. ASSUME NEW t \in Ticket, Release(t) PROVE IInv'
    BY <1>1, <1>3, ReleaseSafe DEF Release, IInv
  <1>4. ASSUME NEW t \in Ticket, NEW claim \in Requests, Retry(t, claim) PROVE IInv'
    <2>1. queue.claim[t] \in Claim /\ claim \in Claim
      BY <1>1, QueueAssumption DEF QueueType
    <2> DEFINE d == UnionClaims(queue.claim[t], claim)
    <2>2. /\ d \in Claim
          /\ MembershipKeys(queue.claim[t]) \subseteq MembershipKeys(d)
          /\ queue.claim[t].prefixes \subseteq d.prefixes
      BY <2>1, UnionOfClaims
    <2>3. RetryStep(queue, t, d, queue')
      BY <1>4 DEF Retry
    <2> HIDE DEF d
    <2> QED
      BY <1>1, <2>2, <2>3, RetrySafe DEF IInv
  <1>5. CASE UNCHANGED queue
    BY <1>5 DEF IInv, Indexed, NoConflict, EntriesValid, HoldersRecorded, Counted,
                Issued, Queued, Active, Live, PrefixLive
  <1> QED
    BY <1>2, <1>3, <1>4, <1>5 DEF Next

\* A key with one holder has one possible entry, so EntriesValid and
\* HoldersRecorded say together that the maps are exact.
LEMMA InvExact == IInv => IndexesExact
  <1> SUFFICES ASSUME IInv PROVE IndexesExact
    OBVIOUS
  <1> DEFINE q == queue
  <1>1. /\ Indexed(q) /\ NoConflict(q) /\ q \in QueueType
        /\ \A t \in Ticket : q.claim[t] \in Claim /\ t # None
        /\ \A t \in Active(q) : t \in Ticket
    BY NoneIsNoTicket DEF IInv, Indexed, QueueType, Active
  <1>2. ASSUME NEW key \in ExactKey, NEW t \in Ticket
        PROVE  q.activeExact[key] = t <=> t \in Active(q) /\ key \in ExactKeys(q.claim[t])
    <2>1. ASSUME t \in Active(q), key \in ExactKeys(q.claim[t])
          PROVE  q.activeExact[key] = t
      <3> DEFINE o == q.activeExact[key]
      <3>1. o # None
        BY <1>1, <2>1 DEF Indexed, HoldersRecorded
      <3>2. o \in Active(q) /\ key \in ExactKeys(q.claim[o])
        BY <1>1, <3>1 DEF Indexed, EntriesValid
      <3> HIDE DEF o
      <3>3. ClaimsConflict(q.claim[o], q.claim[t])
        BY <1>1, <2>1, <3>2, SharedKeyConflicts
      <3>4. o = t
        BY <1>1, <2>1, <3>2, <3>3 DEF NoConflict
      <3> QED
        BY <3>4 DEF o
    <2> QED
      BY <1>1, <2>1 DEF Indexed, EntriesValid
  <1>3. ASSUME NEW path \in Paths, NEW t \in Ticket
        PROVE  q.activePrefixes[path] = t
                  <=> t \in Active(q) /\ path \in q.claim[t].prefixes
    <2>1. ASSUME t \in Active(q), path \in q.claim[t].prefixes
          PROVE  q.activePrefixes[path] = t
      <3> DEFINE o == q.activePrefixes[path]
      <3>1. o # None
        BY <1>1, <2>1 DEF Indexed, HoldersRecorded
      <3>2. o \in Active(q) /\ path \in q.claim[o].prefixes
        BY <1>1, <3>1 DEF Indexed, EntriesValid
      <3> HIDE DEF o
      <3>3. ClaimsConflict(q.claim[o], q.claim[t])
        BY <1>1, <2>1, <3>2, SharedPrefixConflicts
      <3>4. o = t
        BY <1>1, <2>1, <3>2, <3>3 DEF NoConflict
      <3> QED
        BY <3>4 DEF o
    <2> QED
      BY <1>1, <2>1 DEF Indexed, EntriesValid
  <1>4. ASSUME NEW t \in Ticket
        PROVE  q.activeGlobal = t <=> t \in Active(q) /\ q.claim[t].global
    <2>1. ASSUME t \in Active(q), q.claim[t].global PROVE q.activeGlobal = t
      <3> DEFINE o == q.activeGlobal
      <3>1. o # None
        BY <1>1, <2>1 DEF Indexed, HoldersRecorded
      <3>2. o \in Active(q)
        BY <1>1, <3>1 DEF Indexed, EntriesValid
      <3> HIDE DEF o
      <3>3. ClaimsConflict(q.claim[o], q.claim[t])
        BY <2>1 DEF ClaimsConflict
      <3>4. o = t
        BY <1>1, <2>1, <3>2, <3>3 DEF NoConflict
      <3> QED
        BY <3>4 DEF o
    <2> QED
      BY <1>1, <2>1 DEF Indexed, EntriesValid
  <1>5. ActiveIndexed(q)
    BY <1>1, <1>2, <1>3, <1>4 DEF ActiveIndexed, Indexed, Counted
  <1>6. Queued(q) /\ q.prefixWaiterCount
          = Cardinality({t \in Live(q) : q.claim[t].prefixes # {}})
    BY <1>1 DEF Indexed, Counted, PrefixLive
  <1> QED
    BY <1>5, <1>6 DEF IndexesExact

\* The queue stays inside its types: no counter runs below zero or past the
\* number of tickets, however often a waiter is requeued.
THEOREM TypeCorrect == Spec => []TypeOK
  <1>1. IInv => TypeOK
    BY DEF IInv, Indexed, TypeOK
  <1> QED
    BY InvInit, InvInductive, <1>1, PTL DEF Spec

\* Claims that conflict are never held together, whatever is requested and
\* however wake-ups, releases and retries interleave (`canStart`).
THEOREM ConflictsExclude == Spec => []MutualExclusion
  <1>1. IInv => MutualExclusion
    BY DEF IInv, NoConflict, MutualExclusion
  <1> QED
    BY InvInit, InvInductive, <1>1, PTL DEF Spec

\* The maps, counters and key queues `canStart` and `wakeAfter` read never
\* leak an entry nor lose one.
THEOREM IndexesHold == Spec => []IndexesExact
  BY InvInit, InvInductive, InvExact, PTL DEF Spec

-----------------------------------------------------------------------------
(***************************************************************************)
(* The indexed claim queue implements the drain scheduler, for any number  *)
(* of tickets and any claims: no wake-up is lost, and nobody is overtaken. *)
(*                                                                         *)
(* Three facts carry the proof.  canStart decides exactly what the drain   *)
(* asks for (CanStartExact).  In a wake-up, the waiters started before t   *)
(* are earlier than t and stood in its way as waiters already, so what it  *)
(* starts does not depend on the order (WakeUpStarts).  And while nobody   *)
(* startable waits, a waiter that becomes startable waited for the claim   *)
(* given back alone, and is then among the candidates (CandidatesSuffice). *)
(***************************************************************************)

\* The drain would start t.
Startable(q, t) ==
    /\ q.state[t] = "waiting"
    /\ \A o \in Live(q) \ {t} :
          (q.state[o] = "active" \/ o < t) => ~ClaimsConflict(q.claim[o], q.claim[t])

\* Nobody waits for nothing.
Quiescent(q) == \A t \in Ticket : ~Startable(q, t)

FairInv == Indexed(queue) /\ NoConflict(queue) /\ Quiescent(queue)

-----------------------------------------------------------------------------
(* canStart.                                                               *)

\* A path is under its ancestors.
LEMMA AncestorAbove ==
  ASSUME NEW path \in Paths, NEW ancestor \in PathAncestors(path)
  PROVE  IsUnder(path, ancestor)
  <1>1. path \in Seq(Segments)
    BY PathsAssumption
  <1>2. PICK n \in 1 .. Len(path) : ancestor = SubSeq(path, 1, n)
    BY DEF PathAncestors
  <1>3. /\ Len(path) \in Nat /\ Len(ancestor) = n
        /\ \A i \in 1 .. n : ancestor[i] = path[i]
    BY <1>1, <1>2, LenProperties, SubSeqProperties
  <1> QED
    BY <1>2, <1>3 DEF IsUnder

\* The keys of a claim tell its axes apart.
LEMMA KeysApart ==
  ASSUME NEW c \in Claim
  PROVE  /\ GlobalKey \in MembershipKeys(c) <=> c.global
         /\ \A key \in ExactKey : key \in MembershipKeys(c) <=> key \in ExactKeys(c)
         /\ \A p \in Paths : PrefixKey(p) \in MembershipKeys(c) <=> p \in c.prefixes
  <1>1. \A key \in ExactKeys(c) \cup ExactKey : key[1] \in {"resource", "note", "path"}
    BY DEF ExactKeys, ExactKey
  <1>2. \A key \in PrefixKeys(c) : key[1] = "prefix" /\ key[2] \in c.prefixes
    BY DEF PrefixKeys
  <1>3. GlobalKey[1] = "global" /\ \A p : PrefixKey(p)[1] = "prefix" /\ PrefixKey(p)[2] = p
    BY DEF GlobalKey, PrefixKey
  <1>4. \A p \in c.prefixes : PrefixKey(p) \in PrefixKeys(c)
    BY DEF PrefixKeys, PrefixKey
  <1>5. \A key : key \in MembershipKeys(c) <=> \/ c.global /\ key = GlobalKey
                                              \/ key \in ExactKeys(c)
                                              \/ key \in PrefixKeys(c)
    BY DEF MembershipKeys
  <1>6. GlobalKey \in MembershipKeys(c) <=> c.global
    BY <1>1, <1>2, <1>3, <1>5
  <1>7. ASSUME NEW key \in ExactKey
        PROVE  key \in MembershipKeys(c) <=> key \in ExactKeys(c)
    BY <1>1, <1>2, <1>3, <1>5
  <1>8. ASSUME NEW p \in Paths
        PROVE  PrefixKey(p) \in MembershipKeys(c) <=> p \in c.prefixes
    <2>1. PrefixKey(p) \in PrefixKeys(c) <=> p \in c.prefixes
      BY <1>2, <1>3, <1>4
    <2> QED
      BY <1>1, <1>3, <1>5, <2>1
  <1> QED
    BY <1>6, <1>7, <1>8

\* Who stands in a key queue.
LEMMA KeyQueues ==
  ASSUME NEW q, Indexed(q), NEW o \in Ticket
  PROVE  /\ q.claim[o] \in Claim
         /\ GlobalKey \in q.keys[o] <=> o \in Live(q) /\ q.claim[o].global
         /\ \A key \in ExactKey :
               key \in q.keys[o] <=> o \in Live(q) /\ key \in ExactKeys(q.claim[o])
         /\ \A p \in Paths :
               PrefixKey(p) \in q.keys[o] <=> o \in Live(q) /\ p \in q.claim[o].prefixes
  <1>1. q.claim[o] \in Claim /\ q.keys[o] = IF o \in Live(q) THEN MembershipKeys(q.claim[o]) ELSE {}
    BY DEF Indexed, QueueType, Queued
  <1> QED
    BY <1>1, KeysApart

\* A prefix over a claimed path is a conflict.
LEMMA PrefixOverPath ==
  ASSUME NEW c \in Claim, NEW d \in Claim, NEW path \in d.paths, NEW prefix \in c.prefixes,
         prefix \in PathAncestors(path)
  PROVE  ClaimsConflict(c, d)
  BY AncestorAbove DEF Claim, ClaimsConflict, ReachesInto

\* What canStart reads excludes a conflict with an earlier waiter.
LEMMA CanStartBehind ==
  ASSUME NEW q, Indexed(q), NEW t \in Ticket, CanStart(q, t), NEW o \in Live(q), o < t
  PROVE  ~ClaimsConflict(q.claim[o], q.claim[t])
  <1> DEFINE c == q.claim[o]
             d == q.claim[t]
  <1>1. /\ o \in Ticket /\ o \in Int /\ t \in Int /\ o # t
        /\ c \in Claim /\ d \in Claim
    BY QueueAssumption, KeyQueues DEF Live, Ticket
  <1>2. ~d.global
    BY <1>1 DEF CanStart, IsLiveHead
  <1>3. ~EarlierOn(q, GlobalKey, t) /\ ExactFree(q, t) /\ AncestorsFree(q, t) /\ PrefixesFree(q, t)
    BY <1>2 DEF CanStart
  <1>4. ~c.global
    BY <1>1, <1>3, KeyQueues DEF EarlierOn
  <1>5. \A key \in ExactKeys(d) : key \notin ExactKeys(c)
    <2> SUFFICES ASSUME NEW key \in ExactKeys(d), key \in ExactKeys(c) PROVE FALSE
      OBVIOUS
    <2>1. key \in ExactKey /\ key \in q.keys[o]
      BY <1>1, KeysOfClaim, KeyQueues
    <2> QED
      BY <1>1, <1>3, <2>1 DEF ExactFree, IsKeyHead
  <1>6. \A path \in d.paths, prefix \in c.prefixes : ~IsUnder(path, prefix)
    <2> SUFFICES ASSUME NEW path \in d.paths, NEW prefix \in c.prefixes, IsUnder(path, prefix)
                 PROVE  FALSE
      OBVIOUS
    <2>1. path \in Paths /\ prefix \in Paths
      BY <1>1 DEF Claim
    <2>2. prefix \in PathAncestors(path) \cap Paths /\ PrefixKey(prefix) \in q.keys[o]
      BY <1>1, <2>1, UnderAncestor, KeyQueues
    <2> QED
      BY <1>1, <1>3, <2>2 DEF AncestorsFree, EarlierOn
  <1>7. CASE d.prefixes # {}
    BY <1>1, <1>3, <1>7 DEF PrefixesFree
  <1>8. CASE d.prefixes = {}
    <2>1. /\ c.resources \cap d.resources = {} /\ c.noteIds \cap d.noteIds = {}
          /\ c.paths \cap d.paths = {}
      <3>1. /\ c.resources \subseteq Resources /\ c.noteIds \subseteq NoteIds
            /\ c.paths \subseteq Paths
        BY <1>1 DEF Claim
      <3> HIDE DEF c, d
      <3>2. \A x \in c.resources : x \notin d.resources
        BY <1>1, <1>5, <3>1, KeysOfClaim
      <3>3. \A x \in c.noteIds : x \notin d.noteIds
        BY <1>1, <1>5, <3>1, KeysOfClaim
      <3>4. \A x \in c.paths : x \notin d.paths
        BY <1>1, <1>5, <3>1, KeysOfClaim
      <3> QED
        BY <3>2, <3>3, <3>4
    <2>2. /\ ~ReachesInto(c.paths, d.prefixes) /\ ~ReachesInto(c.prefixes, d.prefixes)
          /\ ~ReachesInto(d.paths, c.prefixes) /\ ~ReachesInto(d.prefixes, c.prefixes)
      BY <1>6, <1>8 DEF ReachesInto
    <2> QED
      BY <1>2, <1>4, <2>1, <2>2 DEF ClaimsConflict
  <1> QED
    BY <1>7, <1>8

\* canStart of a waiter nothing is in the way of.
LEMMA StartableCanStart ==
  ASSUME NEW q, Indexed(q), NEW t \in Ticket, Startable(q, t)
  PROVE  CanStart(q, t)
  <1> DEFINE d == q.claim[t]
  <1>1. /\ q \in QueueType /\ q.state[t] = "waiting" /\ t \in Live(q) /\ t \notin Active(q)
        /\ d \in Claim
    BY DEF Indexed, QueueType, Startable, Live, Active
  <1>2. \A o \in Active(q) : ~ClaimsConflict(q.claim[o], d)
    BY <1>1 DEF Startable, Live, Active
  <1>3. \A o \in Live(q) : o < t => ~ClaimsConflict(q.claim[o], d)
    BY QueueAssumption DEF Startable, Live, Ticket
  <1>4. Live(q) \subseteq Ticket /\ Ticket \subseteq Int
    BY QueueAssumption DEF Live, Ticket
  <1>5. CASE d.global
    <2>1. \A o \in Ticket : ClaimsConflict(q.claim[o], d)
      BY <1>5 DEF ClaimsConflict
    <2>2. Active(q) = {}
      BY <1>2, <2>1 DEF Active
    <2>3. q.activeCount = 0
      BY <2>2, FS_EmptySet DEF Indexed, Counted
    <2>4. IsLiveHead(q, t)
      <3> SUFFICES ASSUME NEW o \in Live(q) PROVE t <= o
        BY DEF IsLiveHead
      <3>1. o \in Int /\ t \in Int /\ ~(o < t)
        BY <1>3, <1>4, <2>1
      <3> QED
        BY <3>1
    <2> QED
      BY <1>1, <1>5, <2>3, <2>4 DEF CanStart
  <1>6. CASE ~d.global
    <2>1. q.activeGlobal = None
      BY <1>2 DEF Indexed, EntriesValid, ClaimsConflict
    <2>2. ~EarlierOn(q, GlobalKey, t)
      BY <1>3, KeyQueues DEF EarlierOn, ClaimsConflict
    <2>3. ExactFree(q, t)
      <3> SUFFICES ASSUME NEW key \in ExactKeys(d)
                   PROVE  q.activeExact[key] \in {None, t} /\ IsKeyHead(q, key, t)
        BY DEF ExactFree
      <3>1. key \in ExactKey
        BY <1>1, KeysOfClaim
      <3>2. q.activeExact[key] = None
        <4> SUFFICES ASSUME q.activeExact[key] # None PROVE FALSE
          OBVIOUS
        <4> DEFINE h == q.activeExact[key]
        <4>1. h \in Active(q) /\ h \in Ticket /\ key \in ExactKeys(q.claim[h])
          BY <3>1 DEF Indexed, EntriesValid, Active
        <4> HIDE DEF h
        <4> QED
          BY <1>1, <1>2, <4>1, KeyQueues, SharedKeyConflicts
      <3>3. key \in q.keys[t]
        BY <1>1, <3>1, KeyQueues
      <3>4. ASSUME NEW o \in Ticket, key \in q.keys[o] PROVE t <= o
        <4>1. o \in Live(q) /\ key \in ExactKeys(q.claim[o]) /\ q.claim[o] \in Claim
          BY <3>1, <3>4, KeyQueues
        <4>2. ClaimsConflict(q.claim[o], d)
          BY <1>1, <4>1, SharedKeyConflicts
        <4> QED
          BY <1>3, <1>4, <4>1, <4>2
      <3> QED
        BY <3>2, <3>3, <3>4 DEF IsKeyHead
    <2>4. AncestorsFree(q, t)
      <3> SUFFICES ASSUME NEW path \in d.paths, NEW ancestor \in PathAncestors(path) \cap Paths
                   PROVE  /\ q.activePrefixes[ancestor] \in {None, t}
                          /\ ~EarlierOn(q, PrefixKey(ancestor), t)
        BY DEF AncestorsFree
      <3>1. \A o \in Ticket : q.claim[o] \in Claim /\ ancestor \in q.claim[o].prefixes
                                 => ClaimsConflict(q.claim[o], d)
        BY <1>1, PrefixOverPath
      <3>2. q.activePrefixes[ancestor] = None
        BY <1>2, <3>1, KeyQueues DEF Indexed, EntriesValid, Active
      <3>3. ~EarlierOn(q, PrefixKey(ancestor), t)
        BY <1>3, <3>1, KeyQueues DEF EarlierOn
      <3> QED
        BY <3>2, <3>3
    <2>5. PrefixesFree(q, t)
      BY DEF Startable, PrefixesFree
    <2> QED
      BY <1>1, <1>6, <2>1, <2>2, <2>3, <2>4, <2>5 DEF CanStart
  <1> QED
    BY <1>5, <1>6

\* canStart decides what the drain asks for.
LEMMA CanStartExact ==
  ASSUME NEW q, Indexed(q), NEW t \in Ticket
  PROVE  CanStart(q, t) <=> Startable(q, t)
  <1>1. ASSUME CanStart(q, t) PROVE Startable(q, t)
    <2>1. \A o \in Live(q) : q.state[o] = "active" => o \in Active(q)
      BY DEF Live, Active
    <2>2. q.state[t] = "waiting"
      BY <1>1 DEF CanStart
    <2> QED
      BY <1>1, <2>1, <2>2, CanStartFree, CanStartBehind DEF Startable
  <1> QED
    BY <1>1, StartableCanStart

-----------------------------------------------------------------------------
(* Wake-ups.                                                               *)

\* The earlier waiters a wake-up started before it came to t were in the way
\* of t, or not, as waiters already.
LEMMA StartableLater ==
  ASSUME NEW q \in QueueType, NEW S \in SUBSET Waiting(q), NEW t \in Ticket, t \notin S,
         \A s \in S : s < t
  PROVE  Startable(Activate(q, S), t) <=> Startable(q, t)
  <1> DEFINE r == Activate(q, S)
  <1>1. /\ Active(r) = Active(q) \cup S /\ Live(r) = Live(q)
        /\ Waiting(r) = Waiting(q) \ S /\ r.claim = q.claim
    BY ActivateFields
  <1> HIDE DEF r
  <1>2. r.state[t] = "waiting" <=> q.state[t] = "waiting"
    BY <1>1 DEF Waiting
  <1>3. \A o \in Live(q) : r.state[o] = "active" <=> q.state[o] = "active" \/ o \in S
    BY <1>1 DEF Active, Live
  <1> QED
    BY <1>1, <1>2, <1>3 DEF Startable, r

\* A wake-up starts the startable candidates, in whatever order.
LEMMA WakeUpStarts ==
  ASSUME NEW q, Indexed(q), NEW candidates \in SUBSET Waiting(q),
         NEW r, TryCandidates(q, candidates, r)
  PROVE  r = Activate(q, {t \in candidates : Startable(q, t)})
  <1>1. PICK started \in SUBSET candidates :
           /\ \A t \in candidates :
                 t \in started <=> CanStart(Activate(q, {s \in started : s < t}), t)
           /\ r = Activate(q, started)
    BY DEF TryCandidates
  <1>2. q \in QueueType /\ Waiting(q) \subseteq Ticket /\ \A t \in Ticket : ~(t < t)
    BY QueueAssumption DEF Indexed, Waiting, Ticket
  <1>3. ASSUME NEW t \in candidates PROVE t \in started <=> Startable(q, t)
    <2> DEFINE S == {s \in started : s < t}
               v == Activate(q, S)
    <2>1. t \in Ticket /\ S \in SUBSET Waiting(q) /\ t \notin S /\ \A s \in S : s < t
      BY <1>2
    <2> HIDE DEF S
    <2>2. Startable(v, t) <=> Startable(q, t)
      BY <1>2, <2>1, StartableLater
    <2>3. Indexed(v)
      BY <2>1, ActivateIndexed
    <2> HIDE DEF v
    <2>4. CanStart(v, t) <=> Startable(v, t)
      BY <2>1, <2>3, CanStartExact
    <2> QED
      BY <1>1, <2>2, <2>4 DEF v, S
  <1>4. started = {t \in candidates : Startable(q, t)}
    BY <1>3
  <1> QED
    BY <1>1, <1>4

\* Who can start now and conflicts with the claim given back is a candidate.
LEMMA CandidatesSuffice ==
  ASSUME NEW q, Indexed(q), NEW c \in Claim, NEW skip, NEW t \in Ticket, t \notin skip,
         Startable(q, t), ClaimsConflict(c, q.claim[t])
  PROVE  t \in WakeCandidates(q, c, skip)
  <1> DEFINE d == q.claim[t]
             keys == ExactKeys(c) \cup PrefixKeys(c) \cup {GlobalKey}
  <1>1. /\ t \in Waiting(q) \ skip /\ t \in Live(q) /\ d \in Claim
        /\ Live(q) \subseteq Ticket /\ Ticket \subseteq Int
    BY QueueAssumption, KeyQueues DEF Startable, Waiting, Live, Ticket
  <1>2. \A o \in Live(q) : ClaimsConflict(q.claim[o], d) => t <= o
    <2> SUFFICES ASSUME NEW o \in Live(q), ClaimsConflict(q.claim[o], d) PROVE t <= o
      OBVIOUS
    <2>1. o \in Int /\ t \in Int
      BY <1>1
    <2>2. ~(o < t)
      BY <2>1 DEF Startable
    <2> QED
      BY <2>1, <2>2
  <1>3. CASE c.global
    BY <1>1, <1>3 DEF WakeCandidates
  <1>4. ASSUME ~c.global, NEW key \in keys, IsKeyHead(q, key, t)
        PROVE  t \in WakeCandidates(q, c, skip)
    BY <1>1, <1>4 DEF WakeCandidates
  <1>5. ASSUME ~c.global, ScansLiveList(q, c)
        PROVE  t \in WakeCandidates(q, c, skip)
    BY <1>1, <1>5 DEF WakeCandidates
  <1>6. CASE d.global
    <2>1. \A o \in Ticket : ClaimsConflict(q.claim[o], d)
      BY <1>6 DEF ClaimsConflict
    <2>2. IsKeyHead(q, GlobalKey, t)
      BY <1>1, <1>2, <1>6, <2>1, KeyQueues DEF IsKeyHead
    <2> QED
      BY <1>3, <1>4, <2>2
  <1>7. ASSUME NEW key \in ExactKeys(c), key \in ExactKeys(d)
        PROVE  t \in WakeCandidates(q, c, skip)
    <2>1. key \in ExactKey /\ key \in q.keys[t]
      BY <1>1, <1>7, KeysOfClaim, KeyQueues
    <2>2. ASSUME NEW o \in Ticket, key \in q.keys[o] PROVE t <= o
      <3>1. o \in Live(q) /\ key \in ExactKeys(q.claim[o]) /\ q.claim[o] \in Claim
        BY <2>1, <2>2, KeyQueues
      <3>2. ClaimsConflict(q.claim[o], d)
        BY <1>1, <1>7, <3>1, SharedKeyConflicts
      <3> QED
        BY <1>2, <3>1, <3>2
    <2>3. IsKeyHead(q, key, t)
      BY <2>1, <2>2 DEF IsKeyHead
    <2> QED
      BY <1>3, <1>4, <2>3
  <1>8. CASE c.prefixes # {}
    BY <1>3, <1>5, <1>8 DEF ScansLiveList
  <1>9. CASE c.paths # {} /\ d.prefixes # {}
    <2>1. PrefixLive(q) \in SUBSET Ticket /\ PrefixLive(q) # {}
      BY <1>1, <1>9 DEF PrefixLive
    <2>2. IsFiniteSet(PrefixLive(q)) /\ Cardinality(PrefixLive(q)) \in Nat
      BY <2>1, TicketsFinite, FS_CardinalityType
    <2>3. Cardinality(PrefixLive(q)) > 0
      BY <2>1, <2>2, FS_EmptySet
    <2> QED
      BY <1>3, <1>5, <1>9, <2>3 DEF ScansLiveList, Indexed, Counted
  <1>10. \/ c.global \/ d.global \/ \E key \in ExactKeys(c) : key \in ExactKeys(d)
         \/ c.prefixes # {}
         \/ c.paths # {} /\ d.prefixes # {}
    <2>1. \A x \in c.resources \cap d.resources :
             <<"resource", x>> \in ExactKeys(c) /\ <<"resource", x>> \in ExactKeys(d)
      BY DEF ExactKeys
    <2>2. \A x \in c.noteIds \cap d.noteIds :
             <<"note", x>> \in ExactKeys(c) /\ <<"note", x>> \in ExactKeys(d)
      BY DEF ExactKeys
    <2>3. \A x \in c.paths \cap d.paths :
             <<"path", x>> \in ExactKeys(c) /\ <<"path", x>> \in ExactKeys(d)
      BY DEF ExactKeys
    <2> HIDE DEF d
    <2>4. ClaimsConflict(c, d)
      BY DEF d
    <2> QED
      BY <2>1, <2>2, <2>3, <2>4 DEF ClaimsConflict, ReachesInto
  <1> QED
    BY <1>3, <1>6, <1>7, <1>8, <1>9, <1>10

-----------------------------------------------------------------------------
(* What the three operations start.                                        *)

StartableSet(q) == { t \in Ticket : Startable(q, t) }

\* r is u with every startable waiter started.
Drained(u, r) ==
    /\ r.state = [t \in Ticket |-> IF Startable(u, t) THEN "active" ELSE u.state[t]]
    /\ r.claim = u.claim
    /\ r.nextTicket = u.nextTicket

\* A wake-up that has every startable waiter among its candidates drains.
LEMMA WakeUpDrains ==
  ASSUME NEW q, Indexed(q), NEW candidates \in SUBSET Waiting(q),
         NEW r, TryCandidates(q, candidates, r),
         \A t \in Ticket : Startable(q, t) => t \in candidates
  PROVE  Drained(q, r)
  <1> DEFINE S == {t \in candidates : Startable(q, t)}
  <1>1. r = Activate(q, S)
    BY WakeUpStarts
  <1>2. q \in QueueType /\ S \in SUBSET Waiting(q) /\ \A t \in Ticket : t \in S <=> Startable(q, t)
    BY DEF Indexed
  <1> HIDE DEF S
  <1>3. r.claim = q.claim /\ r.nextTicket = q.nextTicket
    BY <1>1, <1>2, ActivateFields
  <1>4. r.state = [t \in Ticket |-> IF t \in S THEN "active" ELSE q.state[t]]
    BY <1>1, <1>2 DEF Activate, QueueType
  <1> QED
    BY <1>2, <1>3, <1>4 DEF Drained

\* After a drain nobody startable waits.
LEMMA DrainedQuiescent ==
  ASSUME NEW u \in QueueType, NEW r, Drained(u, r)
  PROVE  Quiescent(r)
  <1> SUFFICES ASSUME NEW t \in Ticket, Startable(r, t) PROVE FALSE
    BY DEF Quiescent
  <1>1. /\ \A o \in Ticket : r.state[o] = IF Startable(u, o) THEN "active" ELSE u.state[o]
        /\ \A o \in Ticket : Startable(u, o) => u.state[o] = "waiting"
    BY DEF Drained, Startable
  <1>2. u.state[t] = "waiting" /\ ~Startable(u, t)
    BY <1>1 DEF Startable
  <1>3. PICK o \in Live(u) \ {t} : /\ u.state[o] = "active" \/ o < t
                                   /\ ClaimsConflict(u.claim[o], u.claim[t])
    BY <1>2 DEF Startable
  <1>4. o \in Live(r) \ {t} /\ (r.state[o] = "active" \/ o < t)
    BY <1>1, <1>3 DEF Live
  <1> QED
    BY <1>3, <1>4 DEF Startable, Drained

\* Between q and r, whoever starts leaves no earlier conflicting one waiting.
InOrder(q, r) ==
    \A t \in Ticket : \A o \in 0 .. t - 1 :
        /\ q.state[t] # "active"
        /\ r.state[t] = "active"
        /\ r.state[o] = "waiting"
        => ~ClaimsConflict(r.claim[o], r.claim[t])

\* A drain starts in order.
LEMMA DrainedInOrder ==
  ASSUME NEW q, NEW u, NEW r, Drained(u, r),
         \A t \in Ticket : q.state[t] # "active" => u.state[t] # "active"
  PROVE  InOrder(q, r)
  <1> SUFFICES ASSUME NEW t \in Ticket, NEW o \in 0 .. t - 1, q.state[t] # "active",
                      r.state[t] = "active", r.state[o] = "waiting"
               PROVE  ~ClaimsConflict(r.claim[o], r.claim[t])
    BY DEF InOrder
  <1>1. o \in Ticket /\ o < t /\ o # t
    BY QueueAssumption DEF Ticket
  <1>2. /\ r.state[t] = IF Startable(u, t) THEN "active" ELSE u.state[t]
        /\ r.state[o] = IF Startable(u, o) THEN "active" ELSE u.state[o]
        /\ r.claim = u.claim
    BY <1>1 DEF Drained
  <1>3. Startable(u, t) /\ o \in Live(u) \ {t}
    BY <1>1, <1>2 DEF Live
  <1> QED
    BY <1>1, <1>2, <1>3 DEF Startable

\* acquire.
LEMMA AcquireDrains ==
  ASSUME NEW q, Indexed(q), NoConflict(q), Quiescent(q), NEW claim \in Claim,
         NEW r, AcquireStep(q, claim, r)
  PROVE  Drained(Enqueued(q, q.nextTicket, claim), r)
  <1> DEFINE t == q.nextTicket
             u == Enqueued(q, t, claim)
  <1>1. t \in Ticket /\ TryCandidates(u, {t}, r) /\ q \in QueueType
    BY DEF AcquireStep, TryStart, Indexed
  <1>2. Indexed(u) /\ {t} \in SUBSET Waiting(u)
    BY <1>1, EnqueuedSafe
  <1>3. q.state[t] = "unborn"
    BY <1>1, QueueAssumption DEF Indexed, Issued, QueueType, Ticket
  <1>4. u.state = [q.state EXCEPT ![t] = "waiting"] /\ u.claim = [q.claim EXCEPT ![t] = claim]
    BY <1>1 DEF Enqueued, QueueType
  <1> HIDE DEF u
  <1>5. /\ Live(u) = Live(q) \cup {t} /\ t \notin Live(q)
        /\ \A o \in Ticket \ {t} : u.state[o] = q.state[o] /\ u.claim[o] = q.claim[o]
    BY <1>1, <1>3, <1>4 DEF Live, QueueType
  <1>6. ASSUME NEW s \in Ticket, Startable(u, s), s # t PROVE Startable(q, s)
    <2>1. Live(q) \subseteq Ticket
      BY DEF Live
    <2> HIDE DEF t
    <2> QED
      BY <1>5, <1>6, <2>1 DEF Startable
  <1> HIDE DEF t
  <1> QED
    BY <1>1, <1>2, <1>6, WakeUpDrains DEF Quiescent, u, t

\* What becomes startable when t gives its claim back conflicts with it.
LEMMA FreedConflicts ==
  ASSUME NEW q, Quiescent(q), NEW t \in Ticket, NEW u,
         Live(q) \ {t} \subseteq Live(u),
         \A o \in Ticket \ {t} : u.state[o] = q.state[o] /\ u.claim[o] = q.claim[o],
         NEW s \in Ticket \ {t}, Startable(u, s)
  PROVE  ClaimsConflict(q.claim[t], u.claim[s])
  <1>1. q.state[s] = "waiting" /\ ~Startable(q, s) /\ u.claim[s] = q.claim[s]
    BY DEF Startable, Quiescent
  <1>2. PICK o \in Live(q) \ {s} : /\ q.state[o] = "active" \/ o < s
                                   /\ ClaimsConflict(q.claim[o], q.claim[s])
    BY <1>1 DEF Startable
  <1>3. o = t
    <2> SUFFICES ASSUME o # t PROVE FALSE
      OBVIOUS
    <2>1. o \in Live(u) \ {s} /\ u.state[o] = q.state[o] /\ u.claim[o] = q.claim[o]
      BY <1>2 DEF Live
    <2> QED
      BY <1>1, <1>2, <2>1 DEF Startable
  <1> QED
    BY <1>1, <1>2, <1>3

\* release.
LEMMA ReleaseDrains ==
  ASSUME NEW q, Indexed(q), NoConflict(q), Quiescent(q), NEW t \in Ticket,
         NEW r, ReleaseStep(q, t, r)
  PROVE  Drained(Remove(q, t), r)
  <1> DEFINE u == Remove(q, t)
             candidates == WakeCandidates(u, q.claim[t], {})
  <1>1. /\ t \in Active(q) /\ TryCandidates(u, candidates, r)
        /\ q \in QueueType /\ q.claim[t] \in Claim
    BY DEF ReleaseStep, Active, Indexed, QueueType
  <1>2. Indexed(u) /\ candidates \in SUBSET Waiting(u)
    BY <1>1, RemoveSafe, WakeCandidatesWait
  <1>3. u.state = [q.state EXCEPT ![t] = "released"] /\ u.claim = [q.claim EXCEPT ![t] = EmptyClaim]
    BY <1>1, RemoveFields
  <1> HIDE DEF u
  <1>4. /\ Live(q) \ {t} \subseteq Live(u) /\ u.state[t] = "released"
        /\ \A o \in Ticket \ {t} : u.state[o] = q.state[o] /\ u.claim[o] = q.claim[o]
    BY <1>1, <1>3 DEF Live, QueueType
  <1>5. ASSUME NEW s \in Ticket, Startable(u, s) PROVE s \in candidates
    <2>1. s # t
      BY <1>4, <1>5 DEF Startable
    <2>2. ClaimsConflict(q.claim[t], u.claim[s])
      BY <1>4, <1>5, <2>1, FreedConflicts
    <2> QED
      BY <1>1, <1>2, <1>5, <2>2, CandidatesSuffice
  <1> HIDE DEF candidates
  <1> QED
    BY <1>1, <1>2, <1>5, WakeUpDrains DEF u

\* retry: the waiter that came back is tried first, and what it leaves to the
\* others is what the drain leaves them.
LEMMA RetryDrains ==
  ASSUME NEW q, Indexed(q), NoConflict(q), Quiescent(q), NEW t \in Ticket, NEW d \in Claim,
         MembershipKeys(q.claim[t]) \subseteq MembershipKeys(d),
         q.claim[t].prefixes \subseteq d.prefixes,
         NEW r, RetryStep(q, t, d, r)
  PROVE  Drained(Requeued(q, t, d), r)
  <1> DEFINE u == Requeued(q, t, d)
             v == Activate(u, {t})
  <1>1. t \in Active(q) /\ q \in QueueType /\ q.claim[t] \in Claim
    BY DEF RetryStep, Active, Indexed, QueueType
  <1>2. Indexed(u) /\ {t} \in SUBSET Waiting(u) /\ u \in QueueType
    BY <1>1, RequeuedSafe DEF Indexed
  <1>3. u.state = [q.state EXCEPT ![t] = "waiting"] /\ u.claim = [q.claim EXCEPT ![t] = d]
    BY <1>1, RequeuedFields
  <1>4. ASSUME ~CanStart(u, t) PROVE TryCandidates(u, WakeCandidates(u, q.claim[t], {t}), r)
    BY <1>4 DEF RetryStep
  <1>5. ASSUME CanStart(u, t) PROVE TryCandidates(v, WakeCandidates(v, q.claim[t], {t}), r)
    BY <1>5 DEF RetryStep
  <1> HIDE DEF u
  <1>6. /\ Live(q) \ {t} \subseteq Live(u)
        /\ \A o \in Ticket \ {t} : u.state[o] = q.state[o] /\ u.claim[o] = q.claim[o]
    BY <1>1, <1>3 DEF Live, QueueType
  <1>7. \A s \in Ticket \ {t} : Startable(u, s) => ClaimsConflict(q.claim[t], u.claim[s])
    BY <1>6, FreedConflicts
  <1>8. CASE ~CanStart(u, t)
    <2> DEFINE candidates == WakeCandidates(u, q.claim[t], {t})
    <2>1. ASSUME NEW s \in Ticket, Startable(u, s) PROVE s \in candidates
      <3>1. s # t
        BY <1>2, <1>8, <2>1, CanStartExact
      <3>2. s \notin {t} /\ ClaimsConflict(q.claim[t], u.claim[s])
        BY <1>7, <2>1, <3>1
      <3> QED
        BY <1>1, <1>2, <2>1, <3>2, CandidatesSuffice
    <2>2. candidates \in SUBSET Waiting(u) /\ TryCandidates(u, candidates, r)
      BY <1>4, <1>8, WakeCandidatesWait
    <2> HIDE DEF candidates
    <2> QED
      BY <1>2, <2>1, <2>2, WakeUpDrains DEF u
  <1>9. CASE CanStart(u, t)
    <2> DEFINE candidates == WakeCandidates(v, q.claim[t], {t})
    <2>1. TryCandidates(v, candidates, r) /\ candidates \in SUBSET Waiting(v)
      BY <1>5, <1>9, WakeCandidatesWait
    <2>2. Indexed(v)
      BY <1>2, ActivateIndexed
    <2>3. /\ v.claim = u.claim /\ v.nextTicket = u.nextTicket /\ Live(v) = Live(u)
          /\ v.state = [o \in Ticket |-> IF o \in {t} THEN "active" ELSE u.state[o]]
      <3>1. /\ v.claim = u.claim /\ v.nextTicket = u.nextTicket /\ Live(v) = Live(u)
        BY <1>2, ActivateFields
      <3>2. v.state = [o \in Ticket |-> IF o \in {t} THEN "active" ELSE u.state[o]]
        BY <1>2 DEF Activate, QueueType
      <3> QED
        BY <3>1, <3>2
    <2> HIDE DEF v
    <2>4. Startable(u, t)
      BY <1>2, <1>9, CanStartExact
    <2>5. ASSUME NEW s \in Ticket \ {t} PROVE Startable(v, s) <=> Startable(u, s)
      <3>1. Live(u) \subseteq Ticket /\ s \in Int /\ t \in Int /\ t \in Live(u)
        BY <1>2, QueueAssumption DEF Live, Ticket, Waiting
      <3>2. Startable(v, s) => Startable(u, s)
        BY <2>3, <3>1 DEF Startable
      <3>3. ASSUME Startable(u, s) PROVE ~ClaimsConflict(u.claim[t], u.claim[s])
        <4>1. CASE t < s
          BY <3>1, <3>3, <4>1 DEF Startable
        <4>2. CASE s < t
          <5>1. s \in Live(u) \ {t}
            BY <3>3 DEF Startable, Live
          <5>2. ~ClaimsConflict(u.claim[s], u.claim[t])
            BY <2>4, <4>2, <5>1 DEF Startable
          <5>3. u.claim[s] \in Claim /\ u.claim[t] \in Claim
            BY <1>2 DEF QueueType
          <5> QED
            BY <5>2, <5>3, ConflictSymmetric
        <4> QED
          BY <3>1, <4>1, <4>2
      <3>4. Startable(u, s) => Startable(v, s)
        BY <2>3, <3>1, <3>3 DEF Startable
      <3> QED
        BY <3>2, <3>4
    <2>6. ~Startable(v, t)
      BY <2>3 DEF Startable
    <2>7. ASSUME NEW s \in Ticket, Startable(v, s) PROVE s \in candidates
      <3>1. s # t /\ Startable(u, s)
        BY <2>5, <2>6, <2>7
      <3>2. s \notin {t} /\ ClaimsConflict(q.claim[t], v.claim[s])
        BY <1>7, <2>3, <3>1
      <3> QED
        BY <1>1, <2>2, <2>7, <3>2, CandidatesSuffice
    <2> HIDE DEF candidates
    <2>8. Drained(v, r)
      BY <2>1, <2>2, <2>7, WakeUpDrains
    <2>9. r.state = [s \in Ticket |-> IF Startable(u, s) THEN "active" ELSE u.state[s]]
      BY <2>3, <2>4, <2>5, <2>6, <2>8 DEF Drained
    <2> QED
      BY <2>3, <2>8, <2>9 DEF Drained, u
  <1> QED
    BY <1>8, <1>9

-----------------------------------------------------------------------------
(* The drain scheduler.                                                    *)

\* The two modules speak of the same claims.
LEMMA SameWords ==
  ASSUME NEW q, NEW t
  PROVE  /\ Fair!Ticket = Ticket /\ Fair!EmptyClaim = EmptyClaim
         /\ \A c, d : Fair!ClaimCovers(c, d) <=> ClaimCovers(c, d)
         /\ \A c, d : Fair!UnionClaims(c, d) = UnionClaims(c, d)
         /\ Fair!Startable(q.state, q.claim, t) <=> Startable(q, t)
  <1>1. Fair!Ticket = Ticket
    BY DEF Fair!Ticket, Ticket
  <1>2. Fair!EmptyClaim = EmptyClaim
    BY DEF Fair!EmptyClaim, EmptyClaim
  <1>3. \A x, y : Fair!IsUnder(x, y) <=> IsUnder(x, y)
    BY Zenon DEF Fair!IsUnder, IsUnder
  <1>4. \A x, y : Fair!ReachesInto(x, y) <=> ReachesInto(x, y)
    BY <1>3, Zenon DEF Fair!ReachesInto, ReachesInto
  <1>5. \A c, d : Fair!ClaimsConflict(c, d) <=> ClaimsConflict(c, d)
    BY <1>4, Zenon DEF Fair!ClaimsConflict, ClaimsConflict
  <1>6. \A x, y : Fair!PathsCover(x, y) <=> PathsCover(x, y)
    BY <1>3, Zenon DEF Fair!PathsCover, PathsCover
  <1>7. \A c, d : Fair!ClaimCovers(c, d) <=> ClaimCovers(c, d)
    BY <1>6, Zenon DEF Fair!ClaimCovers, ClaimCovers
  <1>8. \A c, d : Fair!UnionClaims(c, d) = UnionClaims(c, d)
    BY Zenon DEF Fair!UnionClaims, UnionClaims
  <1>9. Fair!Live(q.state) = Live(q)
    BY <1>1, Zenon DEF Fair!Live, Live
  <1>10. Fair!Startable(q.state, q.claim, t) <=> Startable(q, t)
    BY <1>5, <1>9, Zenon DEF Fair!Startable, Startable
  <1> QED
    BY <1>1, <1>2, <1>7, <1>8, <1>10

\* What is drained is drained for the scheduler.
LEMMA DrainedIsDrain ==
  ASSUME NEW u, NEW r, Drained(u, r)
  PROVE  r.state = Fair!Drain(u.state, r.claim) /\ r.nextTicket = u.nextTicket
  <1>1. /\ Fair!Ticket = Ticket
        /\ \A t : Fair!Startable(u.state, u.claim, t) <=> Startable(u, t)
    BY SameWords
  <1>2. r.state = Fair!Drain(u.state, u.claim)
    BY <1>1 DEF Fair!Drain, Drained
  <1> QED
    BY <1>2 DEF Drained

\* The empty queue is the empty scheduler, where nobody waits.
LEMMA FairInit == Init => FairInv /\ Fair!Init
  <1> SUFFICES ASSUME Init PROVE FairInv /\ Fair!Init
    OBVIOUS
  <1>1. queue = EmptyQueue
    BY DEF Init
  <1>2. Fair!Ticket = Ticket /\ Fair!EmptyClaim = EmptyClaim
    BY SameWords
  <1>3. /\ queue.nextTicket = 0
        /\ queue.state = [t \in Ticket |-> "unborn"]
        /\ queue.claim = [t \in Ticket |-> EmptyClaim]
    BY <1>1 DEF EmptyQueue
  <1>4. Quiescent(queue)
    BY <1>3 DEF Quiescent, Startable
  <1> QED
    BY <1>2, <1>3, <1>4, InvInit DEF FairInv, IInv, Fair!Init

\* Every call is a step of the scheduler, and leaves nobody startable.
LEMMA FairStep ==
  FairInv /\ [Next]_queue
    => FairInv' /\ [Fair!Next]_(Fair!vars) /\ [InOrder(queue, queue')]_queue
  <1> SUFFICES ASSUME FairInv, [Next]_queue
               PROVE  FairInv' /\ [Fair!Next]_(Fair!vars) /\ [InOrder(queue, queue')]_queue
    OBVIOUS
  <1>1. /\ Indexed(queue) /\ NoConflict(queue) /\ Quiescent(queue) /\ IInv
        /\ queue \in QueueType
    BY DEF FairInv, IInv, Indexed
  <1>2. Indexed(queue') /\ NoConflict(queue')
    BY <1>1, InvInductive DEF IInv
  <1>3. /\ Fair!Ticket = Ticket /\ Fair!EmptyClaim = EmptyClaim
        /\ \A c, d : Fair!ClaimCovers(c, d) <=> ClaimCovers(c, d)
        /\ \A c, d : Fair!UnionClaims(c, d) = UnionClaims(c, d)
    BY SameWords
  <1>4. ASSUME NEW claim \in Requests, Acquire(claim)
        PROVE  Quiescent(queue') /\ InOrder(queue, queue') /\ Fair!Enqueue(claim)
    <2> DEFINE t == queue.nextTicket
               u == Enqueued(queue, t, claim)
    <2>1. claim \in Claim /\ AcquireStep(queue, claim, queue') /\ t \in Ticket
      BY <1>4, QueueAssumption DEF Acquire, AcquireStep
    <2>2. u \in QueueType
      BY <1>1, <2>1, EnqueuedSafe DEF Indexed
    <2>3. Drained(u, queue')
      BY <1>1, <2>1, AcquireDrains
    <2>4. /\ u.state = [queue.state EXCEPT ![t] = "waiting"]
          /\ u.claim = [queue.claim EXCEPT ![t] = claim]
          /\ u.nextTicket = t + 1
      BY <1>1 DEF Enqueued, QueueType
    <2> HIDE DEF u
    <2>5. queue'.state = Fair!Drain(u.state, queue'.claim) /\ queue'.nextTicket = u.nextTicket
      BY <2>3, DrainedIsDrain
    <2>6. Quiescent(queue') /\ queue'.claim = u.claim
      BY <2>2, <2>3, DrainedQuiescent DEF Drained
    <2>7. InOrder(queue, queue')
      BY <1>1, <2>1, <2>3, <2>4, DrainedInOrder DEF QueueType
    <2> QED
      BY <1>3, <2>1, <2>4, <2>5, <2>6, <2>7 DEF Fair!Enqueue
  <1>5. ASSUME NEW t \in Ticket, Release(t)
        PROVE  Quiescent(queue') /\ InOrder(queue, queue') /\ Fair!Release(t)
    <2> DEFINE u == Remove(queue, t)
    <2>1. ReleaseStep(queue, t, queue') /\ queue.state[t] = "active" /\ t \in Active(queue)
      BY <1>5 DEF Release, ReleaseStep, Active
    <2>2. u \in QueueType
      BY <1>1, <2>1, RemoveSafe DEF Indexed
    <2>3. Drained(u, queue')
      BY <1>1, <2>1, ReleaseDrains
    <2>4. /\ u.state = [queue.state EXCEPT ![t] = "released"]
          /\ u.claim = [queue.claim EXCEPT ![t] = EmptyClaim]
          /\ u.nextTicket = queue.nextTicket
      BY <1>1, RemoveFields
    <2> HIDE DEF u
    <2>5. queue'.state = Fair!Drain(u.state, queue'.claim) /\ queue'.nextTicket = u.nextTicket
      BY <2>3, DrainedIsDrain
    <2>6. Quiescent(queue') /\ queue'.claim = u.claim
      BY <2>2, <2>3, DrainedQuiescent DEF Drained
    <2>7. InOrder(queue, queue')
      BY <1>1, <2>1, <2>3, <2>4, DrainedInOrder DEF QueueType
    <2> QED
      BY <1>3, <2>1, <2>4, <2>5, <2>6, <2>7 DEF Fair!Release
  <1>6. ASSUME NEW t \in Ticket, NEW claim \in Requests, Retry(t, claim)
        PROVE  Quiescent(queue') /\ InOrder(queue, queue') /\ Fair!Requeue(t, claim)
    <2> DEFINE d == UnionClaims(queue.claim[t], claim)
               u == Requeued(queue, t, d)
    <2>1. /\ queue.claim[t] \in Claim /\ claim \in Claim
          /\ ~ClaimCovers(queue.claim[t], claim)
          /\ RetryStep(queue, t, d, queue')
          /\ queue.state[t] = "active" /\ t \in Active(queue)
      BY <1>1, <1>6, QueueAssumption DEF Retry, RetryStep, Active, QueueType
    <2>2. /\ d \in Claim
          /\ MembershipKeys(queue.claim[t]) \subseteq MembershipKeys(d)
          /\ queue.claim[t].prefixes \subseteq d.prefixes
      BY <2>1, UnionOfClaims
    <2>3. d = Fair!UnionClaims(queue.claim[t], claim)
      BY <1>3
    <2> HIDE DEF d
    <2>4. u \in QueueType
      BY <1>1, <2>1, <2>2, RequeuedSafe DEF Indexed
    <2>5. Drained(u, queue')
      BY <1>1, <2>1, <2>2, RetryDrains
    <2>6. /\ u.state = [queue.state EXCEPT ![t] = "waiting"]
          /\ u.claim = [queue.claim EXCEPT ![t] = d]
          /\ u.nextTicket = queue.nextTicket
      BY <1>1, RequeuedFields
    <2> HIDE DEF u
    <2>7. queue'.state = Fair!Drain(u.state, queue'.claim) /\ queue'.nextTicket = u.nextTicket
      BY <2>5, DrainedIsDrain
    <2>8. Quiescent(queue') /\ queue'.claim = u.claim
      BY <2>4, <2>5, DrainedQuiescent DEF Drained
    <2>9. InOrder(queue, queue')
      BY <1>1, <2>1, <2>5, <2>6, DrainedInOrder DEF QueueType
    <2> QED
      BY <1>3, <2>1, <2>3, <2>6, <2>7, <2>8, <2>9 DEF Fair!Requeue
  <1>7. CASE UNCHANGED queue
    <2>1. Quiescent(queue')
      BY <1>1, <1>7
    <2> QED
      BY <1>2, <1>7, <2>1 DEF FairInv, Fair!vars
  <1>8. CASE Next
    BY <1>2, <1>3, <1>4, <1>5, <1>6, <1>8 DEF Next, FairInv, Fair!Next
  <1> QED
    BY <1>7, <1>8

\* No wake-up is lost and none is out of turn: what the key queues, the maps
\* and `wakeAfter` start after each acquire, release and retry is what the
\* drain over every waiter would start (class ReferenceQueue).
THEOREM ImplementsDrainScheduler == Spec => MatchesDrainScheduler
  BY FairInit, FairStep, PTL DEF Spec, MatchesDrainScheduler, Fair!Spec

\* Nobody is overtaken: a waiter that starts leaves no earlier conflicting
\* one waiting behind it (`canStart`, `retry`).
THEOREM NobodyIsOvertaken == Spec => NoOvertaking
  <1>1. InOrder(queue, queue')
           <=> \A t \in Ticket : \A o \in 0 .. t - 1 :
                  /\ queue.state[t] # "active"
                  /\ queue'.state[t] = "active"
                  /\ queue'.state[o] = "waiting"
                  => ~ClaimsConflict(queue'.claim[o], queue'.claim[t])
    BY DEF InOrder
  <1> QED
    BY FairInit, FairStep, <1>1, PTL DEF Spec, NoOvertaking

=============================================================================
