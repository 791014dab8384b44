------------------------- MODULE SandboxClientProofs -------------------------
(***************************************************************************)
(* Proofs about SandboxClient, for every number of leases, scopes, lists   *)
(* and callers: a traversal of pages returns what one list would have, and *)
(* a handle says that its lease has ended only when it has.                *)
(***************************************************************************)
EXTENDS SandboxClient, FiniteSetTheorems, TLAPS

----------------------------------------------------------------------------
(* The first claims of a list.                                             *)

\* The least-number principle, for a set.
LEMMA LeastOf ==
    ASSUME NEW T \in SUBSET Nat, T # {}
    PROVE \E x \in T : \A y \in T : x <= y
<1>1. PICK x \in T : \A y \in T : ~ (<<y, x>> \in OpToRel(<, Nat))
  BY NatLessThanWellFounded, WFMin
<1>2. \A y \in T : ~ (y < x)
  BY <1>1 DEF OpToRel
<1> QED
  BY <1>2
LEMMA MaxOf ==
    ASSUME NEW T \in SUBSET Nat, IsFiniteSet(T), T # {}
    PROVE Max(T) \in T /\ \A y \in T : y <= Max(T)
<1> DEFINE above(l) == {m \in T : m > l}
           sizes == {Cardinality(above(l)) : l \in T}
<1>1. \A l \in T : IsFiniteSet(above(l)) /\ Cardinality(above(l)) \in Nat
  BY FS_Subset, FS_CardinalityType
<1>2. PICK n \in sizes : \A k \in sizes : n <= k
  <2>1. sizes \in SUBSET Nat /\ sizes # {}
    BY <1>1
  <2> HIDE DEF sizes
  <2> QED
    BY <2>1, LeastOf
<1>3. PICK l \in T : n = Cardinality(above(l))
  BY <1>2
<1>4. ASSUME NEW y \in T, y > l PROVE FALSE
  <2>1. above(y) \in SUBSET above(l) /\ y \in above(l) /\ y \notin above(y)
    BY <1>3, <1>4
  <2>2. Cardinality(above(l)) <= Cardinality(above(y))
    BY <1>2, <1>3
  <2>3. above(l) = above(y)
    <3> HIDE DEF above
    <3> QED
      BY <1>1, <2>1, <2>2, FS_Subset
  <2> QED
    BY <2>1, <2>3
<1>5. \E x \in T : \A y \in T : x >= y
  BY <1>4
<1> QED
  BY <1>5 DEF Max

\* The claims of a list, in key order: the first n of M.
FirstOf(M, n) == {l \in M : Cardinality({m \in M : m <= l}) <= n}

LEMMA FirstAreFirst ==
    ASSUME NEW M \in SUBSET Nat, IsFiniteSet(M), NEW n \in Nat,
           NEW l \in FirstOf(M, n), NEW m \in M, m <= l
    PROVE m \in FirstOf(M, n)
<1>a. l \in Nat /\ m \in Nat
  BY DEF FirstOf
<1>1. {k \in M : k <= m} \in SUBSET {k \in M : k <= l} /\ {k \in M : k <= l} \in SUBSET M
  <2>1. \A k \in Nat : k <= m => k <= l
    BY <1>a
  <2> QED
    BY <2>1
<1>2. IsFiniteSet({k \in M : k <= l})
  BY <1>1, FS_Subset
<1>3. /\ Cardinality({k \in M : k <= m}) <= Cardinality({k \in M : k <= l})
      /\ Cardinality({k \in M : k <= m}) \in Nat /\ Cardinality({k \in M : k <= l}) \in Nat
  BY <1>1, <1>2, FS_Subset, FS_CardinalityType
<1> QED
  BY <1>3 DEF FirstOf

\* A list that is shorter than its limit is complete.
LEMMA ShortIsAll ==
    ASSUME NEW M \in SUBSET Nat, IsFiniteSet(M), NEW n \in Nat \ {0},
           Cardinality(FirstOf(M, n)) # n
    PROVE FirstOf(M, n) = M
<1> DEFINE F == FirstOf(M, n)
           upTo(l) == {m \in M : m <= l}
<1>1. F \subseteq M /\ IsFiniteSet(F) /\ Cardinality(F) \in Nat
  BY FS_Subset, FS_CardinalityType DEF FirstOf
<1>2. \A l \in M : IsFiniteSet(upTo(l)) /\ Cardinality(upTo(l)) \in Nat
  BY FS_Subset, FS_CardinalityType
<1> SUFFICES ASSUME F # M
             PROVE FALSE
  OBVIOUS
<1>3. PICK l \in M \ F : \A k \in M \ F : l <= k
  BY <1>1, LeastOf
<1>4. upTo(l) = F \cup {l}
  <2>1. \A m \in upTo(l) : m \in F \cup {l}
    BY <1>3
  <2>2. \A m \in F : m <= l
    <3> SUFFICES ASSUME NEW m \in F, ~ (m <= l)
                 PROVE FALSE
      OBVIOUS
    <3>a. l \in Nat /\ m \in Nat
      BY <1>1, <1>3
    <3>1. l \in M /\ l <= m
      BY <1>3, <3>a
    <3>2. l \in FirstOf(M, n)
      BY <3>1, FirstAreFirst
    <3> QED
      BY <1>3, <3>2
  <2> QED
    BY <1>1, <1>3, <2>1, <2>2
<1>5. Cardinality(upTo(l)) = Cardinality(F) + 1
  <2>1. l \notin F
    BY <1>3
  <2> HIDE DEF F, upTo
  <2> QED
    BY <1>1, <1>4, <2>1, FS_AddElement
<1>6. ~ (Cardinality(upTo(l)) <= n)
  BY <1>3 DEF FirstOf
<1>7. F # {} /\ Cardinality(F) > n
  BY <1>1, <1>5, <1>6, FS_EmptySet
<1>8. Max(F) \in F /\ \A k \in F : k <= Max(F)
  BY <1>1, <1>7, MaxOf
<1>9. F \in SUBSET upTo(Max(F)) /\ Max(F) \in M
  BY <1>1, <1>8
<1>10. Cardinality(F) <= Cardinality(upTo(Max(F)))
  BY <1>2, <1>9, FS_Subset
<1>11. Cardinality(upTo(Max(F))) <= n
  BY <1>8 DEF FirstOf
<1>12. Cardinality(upTo(Max(F))) \in Nat
  BY <1>2, <1>9
<1> HIDE DEF F, upTo
<1> QED
  BY <1>1, <1>7, <1>10, <1>11, <1>12
----------------------------------------------------------------------------
(* The inductive invariants.                                               *)

Phases == {"none", "live", "deleting", "gone"}
Ended == {"deleting", "gone"}
CallerPCs ==
    {"absent", "idle", "begun", "sent", "found", "deleted", "ok", "failed"} \cup Joined

World == now \in Nat /\ phase \in [Leases -> Phases]

\* The leader of a transition knows that the lease has ended before it says so.
HandleInv ==
    /\ World
    /\ pc \in [Callers -> CallerPCs]
    /\ \A c \in Callers : pc[c] # "absent" => phase[Held] # "none"
    /\ \A c \in Callers : pc[c] = "deleted" => phase[Held] \in Ended
    /\ EndedMeansEnded

Requesting == {"begin", "sent", "listing"}
Answered == {"next", "done"}

Pagers ==
    [st : {"idle", "absent", "error"} \cup Requesting \cup Answered,
     query : Queries \cup {None}, cursor : Cursors \cup {None}, asOf : Nat,
     page : SUBSET Leases, begun : SUBSET Leases, barred : SUBSET Leases,
     snapshot : SUBSET Leases, given : SUBSET Leases, twice : BOOLEAN]

PagerTypes ==
    /\ World
    /\ pager \in Pagers
    /\ pager.st \in Requesting \cup Answered => pager.query \in Queries
    /\ pager.page # {} => pager.st = "next"
    /\ pager.st = "done" => pager.cursor = None

\* What one List of everything q asks for would return.
Wanted(q, live, asOf) == Selected(q) \cap live \cap Unexpired(asOf)
UpTo(n) == {l \in Leases : l <= n}

\* Up to the position of its cursor the traversal has received what that List would
\* return, and nothing before its first page.
Received ==
    LET c == pager.cursor IN
    /\ c # None =>
        /\ c.live \subseteq c.present /\ c.asOf <= now /\ pager.snapshot = c.live
        /\ pager.given \cup pager.page = Wanted(c.query, c.live, c.asOf) \cap UpTo(c.after)
    /\ c = None /\ pager.st \in Requesting => pager.given = {}
    /\ pager.st = "listing" =>
        /\ pager.asOf <= now
        /\ c # None => c.query = pager.query /\ c.asOf = pager.asOf
    /\ pager.st \in Answered =>
        /\ pager.asOf <= now
        /\ c # None => c.asOf = pager.asOf
        /\ c = None =>
            pager.given \cup pager.page = Wanted(pager.query, pager.snapshot, pager.asOf)
    /\ pager.page \cap pager.given = {} /\ ~pager.twice

\* The leases that were active when the traversal began are in its snapshot unless
\* they have ended since, and those that had ended are not in it or had expired.
Judged ==
    LET c == pager.cursor
        taken == c # None \/ pager.st \in Answered
        asOf == IF c # None THEN c.asOf ELSE pager.asOf
    IN  /\ \A l \in pager.begun : phase[l] # "none"
        /\ \A l \in pager.barred :
            phase[l] \in Ended \/ (phase[l] = "live" /\ ExpiresAt[l] <= now)
        /\ taken => \A l \in pager.begun : phase[l] = "live" => l \in pager.snapshot
        /\ taken \/ pager.st = "listing" =>
            \A l \in pager.barred :
                \/ ExpiresAt[l] <= asOf
                \/ IF taken THEN l \notin pager.snapshot ELSE phase[l] \in Ended

PagerInv == PagerTypes /\ Received /\ Judged
----------------------------------------------------------------------------
(* The world goes on.                                                      *)

\* Leases come and end, and the clock advances.
WorldGoesOn ==
    /\ World'
    /\ now <= now'
    /\ \A l \in Leases :
        /\ phase[l] # "none" => phase'[l] # "none"
        /\ phase[l] \in Ended => phase'[l] \in Ended

LEMMA WorldSteps ==
    ASSUME World, [Next]_vars
    PROVE WorldGoesOn
<1> USE DEF World, WorldGoesOn, Phases, Ended
<1>1. CASE UNCHANGED <<now, phase>>
  BY <1>1
<1>2. CASE Tick
  BY <1>2 DEF Tick
<1>3. ASSUME NEW l \in Leases, Platform(l) PROVE WorldGoesOn
  BY <1>3 DEF Platform, Becomes
<1>4. ASSUME NEW c \in Callers, deleteClaim(c) PROVE WorldGoesOn
  BY <1>4 DEF deleteClaim, Becomes, HandleStep
<1> QED
  BY <1>1, <1>2, <1>3, <1>4
  DEF Next, vars, handle, Close, Traverse, PagerStep, Yield, Exhausted, ListPage, RequestFails,
      ListBegins, ListAnswers, Iterate, Lead, terminal, HandleStep, newRequest, requireClaim,
      Succeeds, Fails, Wakes, Aborted, Returns

----------------------------------------------------------------------------
(* The handle.                                                             *)

LEMMA HandleStays ==
    ASSUME HandleInv, WorldGoesOn, pc' \in [Callers -> CallerPCs],
           \A c \in Callers : \/ pc'[c] = pc[c]
                              \/ pc[c] # "absent" /\ pc'[c] \notin {"deleted", "ok", "joinedOk"},
           transition' = transition \/ transition' # "ended"
    PROVE HandleInv'
<1>1. Held \in Leases
  BY ClientAssumption
<1> QED
  BY <1>1 DEF HandleInv, WorldGoesOn, EndedMeansEnded, Ended

LEMMA HandleSteps ==
    ASSUME HandleInv, [Next]_vars
    PROVE HandleInv'
<1>a. WorldGoesOn
  BY WorldSteps DEF HandleInv
<1>b. pc \in [Callers -> CallerPCs] /\ Held \in Leases
  BY ClientAssumption DEF HandleInv
<1> USE <1>a, <1>b DEF CallerPCs, Joined, To
<1>1. CASE UNCHANGED handle
  BY <1>1, HandleStays DEF handle
<1>2. ASSUME NEW c \in Callers, terminal(c) PROVE HandleInv'
  <2>1. CASE To(c, "ok") /\ transition = "ended" /\ UNCHANGED <<transition, phase>>
    BY <2>1, <1>2 DEF HandleInv, EndedMeansEnded, WorldGoesOn, terminal
  <2>2. CASE ~To(c, "ok")
    BY <1>2, <2>2, HandleStays DEF terminal
  <2> QED
    BY <1>2, <2>1, <2>2 DEF terminal
<1>3. ASSUME NEW c \in Callers, newRequest(c) \/ requireClaim(c) \/ Aborted(c) \/ Returns(c)
      PROVE HandleInv'
  BY <1>3, HandleStays DEF newRequest, requireClaim, Aborted, Returns
<1>4. ASSUME NEW c \in Callers, deleteClaim(c) PROVE HandleInv'
  <2>1. phase'[Held] \in Ended
    BY <1>4 DEF deleteClaim, Becomes, HandleInv, World, Phases, Ended
  <2> QED
    BY <1>4, <2>1 DEF deleteClaim, HandleInv, EndedMeansEnded, WorldGoesOn, Ended
<1>5. ASSUME NEW c \in Callers, Succeeds(c) PROVE HandleInv'
  <2>1. phase[Held] \in Ended /\ UNCHANGED phase
    BY <1>5 DEF Succeeds, HandleInv
  <2> QED
    BY <1>5, <2>1 DEF Succeeds, Outcome, HandleInv, EndedMeansEnded, WorldGoesOn, Ended
<1>6. ASSUME NEW c \in Callers, Fails(c) PROVE HandleInv'
  <2>1. \A d \in Callers :
          pc'[d] = pc[d] \/ (pc[d] # "absent" /\ pc'[d] \in {"failed", "joinedFailed"})
    BY <1>6 DEF Fails, Outcome
  <2>2. pc' \in [Callers -> CallerPCs] /\ transition' # "ended"
    BY <1>6 DEF Fails, Outcome
  <2> QED
    BY <2>1, <2>2, HandleStays
<1>7. ASSUME NEW c \in Callers, Wakes(c) PROVE HandleInv'
  <2>1. CASE pc[c] = "joinedOk"
    <3>1. phase[Held] \in Ended /\ UNCHANGED <<phase, transition>>
      BY <1>7, <2>1 DEF Wakes, HandleInv, EndedMeansEnded, Ended
    <3> QED
      BY <1>7, <2>1, <3>1 DEF Wakes, HandleInv, EndedMeansEnded, WorldGoesOn, Ended
  <2>2. CASE pc[c] = "joinedFailed"
    BY <1>7, <2>2, HandleStays DEF Wakes
  <2> QED
    BY <1>7, <2>1, <2>2 DEF Wakes
<1> QED
  BY <1>1, <1>2, <1>3, <1>4, <1>5, <1>6, <1>7
  DEF Next, vars, handle, Tick, Platform, Close, Traverse, PagerStep, Yield, Exhausted, ListPage,
      RequestFails, ListBegins, ListAnswers, Iterate, Lead

\* A Release, Delete or Close that returns without an error means that the lease
\* has ended, however many callers share the handle and whoever's request failed.
THEOREM EndingsAreTrue == Spec => []EndedMeansEnded
<1>1. Init => HandleInv
  BY ClientAssumption DEF Init, HandleInv, World, Phases, CallerPCs, Joined, EndedMeansEnded
<1>2. HandleInv /\ [Next]_vars => HandleInv'
  BY HandleSteps
<1>3. HandleInv => EndedMeansEnded
  BY DEF HandleInv
<1> QED
  BY <1>1, <1>2, <1>3, PTL DEF Spec
----------------------------------------------------------------------------
(* The traversal.                                                          *)

LEMMA PagerStays ==
    ASSUME PagerInv, WorldGoesOn, UNCHANGED pager
    PROVE PagerInv'
<1>1. PagerTypes'
  BY DEF PagerInv, PagerTypes, WorldGoesOn
<1>2. Received'
  <2>1. pager.asOf \in Nat /\ (pager.cursor # None => pager.cursor.asOf \in Nat)
    BY DEF PagerInv, PagerTypes, Pagers, Cursors
  <2>2. now \in Nat /\ now' \in Nat /\ now <= now'
    BY DEF PagerInv, PagerTypes, World, WorldGoesOn
  <2> QED
    BY <2>1, <2>2 DEF PagerInv, Received, Wanted, UpTo, Selected, Unexpired
<1>3. Judged'
  <2>1. \A l \in Leases :
            /\ phase'[l] = "live" => phase[l] \in {"none", "live"}
            /\ phase[l] = "live" => phase'[l] \in {"live", "deleting", "gone"}
    BY DEF PagerInv, PagerTypes, World, WorldGoesOn, Phases, Ended
  <2>2. \A l \in Leases : ExpiresAt[l] <= now => ExpiresAt[l] <= now'
    BY ClientAssumption DEF PagerInv, PagerTypes, World, WorldGoesOn
  <2>3. pager.begun \subseteq Leases /\ pager.barred \subseteq Leases
    BY DEF PagerInv, PagerTypes, Pagers
  <2> QED
    BY <2>1, <2>2, <2>3 DEF PagerInv, Judged, WorldGoesOn, Ended
<1> QED
  BY <1>1, <1>2, <1>3 DEF PagerInv

LEMMA IterateKeeps ==
    ASSUME PagerInv, NEW q \in Queries, Iterate(q)
    PROVE PagerInv'
<1>a. UNCHANGED <<now, phase>>
  BY DEF Iterate, PagerStep
<1>1. CASE pager' = [IdlePager EXCEPT !.st = "begin", !.query = q, !.begun = Active,
                                      !.barred = {l \in Leases : phase[l] # "none"} \ Active]
  <2>1. /\ pager'.st = "begin" /\ pager'.query = q /\ pager'.cursor = None /\ pager'.page = {}
        /\ pager'.begun = Active /\ pager'.given = {} /\ pager'.twice = FALSE
        /\ pager'.barred = {l \in Leases : phase[l] # "none"} \ Active
    BY <1>1 DEF IdlePager
  <2>2. pager' \in Pagers
    BY <1>1 DEF IdlePager, Pagers, Active, Live, Unexpired, Requesting, Answered
  <2>3. PagerTypes'
    BY <1>a, <2>1, <2>2 DEF PagerInv, PagerTypes, World
  <2>4. Received'
    BY <2>1 DEF Received, Answered, Requesting
  <2>5. Judged'
    <3>1. \A l \in Active : phase[l] # "none"
      BY DEF Active, Live
    <3>2. \A l \in pager'.barred : phase[l] \in Ended \/ (phase[l] = "live" /\ ExpiresAt[l] <= now)
      <4>1. ASSUME NEW l \in Leases, phase[l] # "none", l \notin Active
            PROVE phase[l] \in Ended \/ (phase[l] = "live" /\ ExpiresAt[l] <= now)
        <5>1. phase[l] \in Phases /\ now \in Nat /\ ExpiresAt[l] \in Nat
          BY ClientAssumption DEF PagerInv, PagerTypes, World
        <5>2. phase[l] = "live" => ~ (now < ExpiresAt[l])
          BY <4>1 DEF Active, Live, Unexpired
        <5> QED
          BY <4>1, <5>1, <5>2 DEF Phases, Ended
      <4> QED
        BY <2>1, <4>1
    <3> QED
      BY <1>a, <2>1, <3>1, <3>2 DEF Judged, Answered
  <2> QED
    BY <2>3, <2>4, <2>5 DEF PagerInv
<1>2. CASE /\ pager.st \in {"next", "error"} /\ pager.cursor # None
           /\ pager' = [pager EXCEPT !.st = "begin", !.query = q, !.page = {},
                                     !.given = @ \cup pager.page,
                                     !.twice = @ \/ pager.page \cap pager.given # {}]
  <2>1. /\ pager'.st = "begin" /\ pager'.query = q /\ pager'.page = {}
        /\ pager'.given = pager.given \cup pager.page
        /\ pager'.cursor = pager.cursor /\ pager'.snapshot = pager.snapshot
        /\ pager'.begun = pager.begun /\ pager'.barred = pager.barred
        /\ pager'.twice = pager.twice /\ pager.cursor # None
    BY <1>2 DEF PagerInv, PagerTypes, Pagers, Received
  <2>2. pager' \in Pagers
    BY <1>2 DEF PagerInv, PagerTypes, Pagers, Requesting, Answered
  <2>3. PagerTypes'
    BY <1>a, <2>1, <2>2 DEF PagerInv, PagerTypes, World
  <2>4. Received'
    BY <1>a, <2>1
    DEF PagerInv, Received, Answered, Requesting, Wanted, UpTo, Selected, Unexpired
  <2>5. Judged'
    BY <1>a, <2>1 DEF PagerInv, Judged, Answered
  <2> QED
    BY <2>3, <2>4, <2>5 DEF PagerInv
<1> QED
  BY <1>1, <1>2 DEF Iterate, PagerStep

\* Next returns a lease of the page, each once.
LEMMA YieldKeeps ==
    ASSUME PagerInv, Yield
    PROVE PagerInv'
<1> DEFINE l == Min(pager.page)
<1>a. UNCHANGED <<now, phase>>
  BY DEF Yield, PagerStep
<1>1. l \in pager.page
  <2>1. pager.page \in SUBSET Nat /\ pager.page # {}
    BY ClientAssumption DEF Yield, PagerInv, PagerTypes, Pagers
  <2>2. \E x \in pager.page : \A y \in pager.page : x <= y
    BY <2>1, LeastOf
  <2> QED
    BY <2>2 DEF Min
<1> HIDE DEF l
<1>2. pager' = [pager EXCEPT !.page = @ \ {l}, !.given = @ \cup {l},
                             !.twice = @ \/ l \in pager.given]
  BY DEF Yield, PagerStep, l
<1>3. /\ pager'.st = "next" /\ pager.st = "next"
      /\ pager'.page = pager.page \ {l} /\ pager'.given = pager.given \cup {l}
      /\ pager'.twice = (pager.twice \/ l \in pager.given)
      /\ pager'.query = pager.query /\ pager'.cursor = pager.cursor /\ pager'.asOf = pager.asOf
      /\ pager'.snapshot = pager.snapshot
      /\ pager'.begun = pager.begun /\ pager'.barred = pager.barred
  BY <1>2 DEF Yield, PagerInv, PagerTypes, Pagers
<1>4. pager' \in Pagers
  BY <1>1, <1>2 DEF PagerInv, PagerTypes, Pagers
<1>5. PagerTypes'
  BY <1>a, <1>3, <1>4 DEF PagerInv, PagerTypes, World
<1>6. pager'.given \cup pager'.page = pager.given \cup pager.page
  BY <1>1, <1>3
<1>7. Received'
  <2>1. pager'.page \cap pager'.given = {} /\ ~pager'.twice
    BY <1>1, <1>3 DEF PagerInv, Received
  <2> QED
    BY <1>a, <1>3, <1>6, <2>1
    DEF PagerInv, Received, Answered, Requesting, Wanted, UpTo, Selected, Unexpired
<1>8. Judged'
  BY <1>a, <1>3 DEF PagerInv, Judged, Answered
<1> QED
  BY <1>5, <1>7, <1>8 DEF PagerInv
\* The traversal ends, a request is sent, or it fails.
LEMMA RequestKeeps ==
    ASSUME PagerInv, Exhausted \/ ListPage \/ RequestFails
    PROVE PagerInv'
<1>a. UNCHANGED <<now, phase>>
  BY DEF Exhausted, ListPage, RequestFails, PagerStep
<1>1. PICK st \in {"done", "error", "sent"} : pager' = [pager EXCEPT !.st = st]
  BY DEF Exhausted, ListPage, RequestFails, PagerStep
<1>2. /\ pager'.st = st /\ pager'.query = pager.query /\ pager'.cursor = pager.cursor
      /\ pager'.asOf = pager.asOf /\ pager'.page = pager.page
      /\ pager'.given = pager.given /\ pager'.twice = pager.twice
      /\ pager'.snapshot = pager.snapshot
      /\ pager'.begun = pager.begun /\ pager'.barred = pager.barred
  BY <1>1 DEF PagerInv, PagerTypes, Pagers
<1>3. pager' \in Pagers
  BY <1>1 DEF PagerInv, PagerTypes, Pagers, Requesting, Answered
<1>4. /\ pager.page = {}
      /\ pager.st \in Requesting \/ (pager.st = "next" /\ (pager.cursor = None <=> st = "done"))
      /\ st = "done" => pager.st = "next"
  <2>1. CASE Exhausted
    BY <1>2, <2>1 DEF Exhausted, PastPage, PagerStep, PagerInv, PagerTypes, Requesting
  <2>2. CASE ListPage
    BY <1>2, <2>2 DEF ListPage, PastPage, PagerStep, PagerInv, PagerTypes, Pagers, Requesting
  <2>3. CASE RequestFails
    BY <1>2, <2>3 DEF RequestFails, PagerStep, PagerInv, PagerTypes, Pagers, Requesting
  <2> QED
    BY <2>1, <2>2, <2>3
<1>5. PagerTypes'
  BY <1>a, <1>2, <1>3, <1>4 DEF PagerInv, PagerTypes, World, Requesting, Answered
<1>6. Received'
  BY <1>a, <1>2, <1>4
  DEF PagerInv, Received, Answered, Requesting, Wanted, UpTo, Selected, Unexpired
<1>7. Judged'
  BY <1>a, <1>2, <1>4 DEF PagerInv, Judged, Answered
<1> QED
  BY <1>5, <1>6, <1>7 DEF PagerInv

LEMMA ListBeginsKeeps ==
    ASSUME PagerInv, ListBegins
    PROVE PagerInv'
<1>a. UNCHANGED <<now, phase>> /\ pager.st = "sent"
  BY DEF ListBegins, PagerStep
<1>1. CASE /\ pager.cursor = None \/ Decodes(pager.cursor, pager.query)
           /\ pager' = [pager EXCEPT !.st = "listing", !.asOf = AsOf]
  <2>1. /\ pager'.st = "listing" /\ pager'.query = pager.query /\ pager'.cursor = pager.cursor
        /\ pager'.asOf = AsOf /\ pager'.page = pager.page
        /\ pager'.given = pager.given /\ pager'.twice = pager.twice
        /\ pager'.snapshot = pager.snapshot
        /\ pager'.begun = pager.begun /\ pager'.barred = pager.barred
    BY <1>1 DEF PagerInv, PagerTypes, Pagers
  <2>2. AsOf \in Nat /\ AsOf <= now
    BY DEF AsOf, PagerInv, PagerTypes, Pagers, Cursors, World, Received
  <2>3. pager' \in Pagers
    BY <1>1, <2>2 DEF PagerInv, PagerTypes, Pagers, Requesting, Answered
  <2>4. PagerTypes'
    BY <1>a, <2>1, <2>3 DEF PagerInv, PagerTypes, World, Requesting, Answered
  <2>5. Received'
    BY <1>a, <1>1, <2>1, <2>2
    DEF PagerInv, Received, Answered, Requesting, Wanted, UpTo, Selected, Unexpired, AsOf,
        Decodes
  <2>6. Judged'
    BY <1>a, <2>1 DEF PagerInv, Judged, Answered, AsOf
  <2> QED
    BY <2>4, <2>5, <2>6 DEF PagerInv
<1>2. CASE pager' = [pager EXCEPT !.st = "error"]
  <2>1. /\ pager'.st = "error" /\ pager'.query = pager.query /\ pager'.cursor = pager.cursor
        /\ pager'.asOf = pager.asOf /\ pager'.page = pager.page
        /\ pager'.given = pager.given /\ pager'.twice = pager.twice
        /\ pager'.snapshot = pager.snapshot
        /\ pager'.begun = pager.begun /\ pager'.barred = pager.barred
    BY <1>2 DEF PagerInv, PagerTypes, Pagers
  <2>2. pager' \in Pagers
    BY <1>2 DEF PagerInv, PagerTypes, Pagers, Requesting, Answered
  <2>3. PagerTypes'
    BY <1>a, <2>1, <2>2 DEF PagerInv, PagerTypes, World, Requesting, Answered
  <2>4. Received'
    BY <1>a, <2>1 DEF PagerInv, Received, Answered, Requesting, Wanted, UpTo, Selected, Unexpired
  <2>5. Judged'
    BY <1>a, <2>1 DEF PagerInv, Judged, Answered
  <2> QED
    BY <2>3, <2>4, <2>5 DEF PagerInv
<1> QED
  BY <1>1, <1>2 DEF ListBegins, PagerStep
Lists == [live : SUBSET Leases, present : SUBSET Leases, after : Nat]
After(n) == {l \in Leases : l > n}

\* ListAnswers gives a nextCursor.
More(items, q, from) == Cardinality(items) = q.limit /\ \E l \in from.present : l > Max(items)

LEMMA KeyOrder ==
    /\ \A l \in Leases : l \in Nat /\ l > 0
    /\ \A n \in Nat : UpTo(n) = Leases \ After(n)
<1>1. \A l \in Leases : l \in Nat /\ l > 0
  BY ClientAssumption
<1>2. \A n \in Nat, l \in Leases : l <= n <=> ~ (l > n)
  BY <1>1
<1>3. \A n \in Nat : UpTo(n) = Leases \ After(n)
  BY <1>2 DEF UpTo, After
<1> QED
  BY <1>1, <1>3

\* A page is what the list wants of the keys from the token's position to the last
\* claim the API server returned, or to the end when there is no continue token.
LEMMA OnePage ==
    ASSUME NEW q \in Queries, NEW from \in Lists, from.live \subseteq from.present, NEW asOf,
           NEW items, items = Items(q, from)
    PROVE /\ Page(items, from.live, asOf)
                \subseteq Wanted(q, from.live, asOf) \cap After(from.after)
          /\ More(items, q, from) =>
                /\ Max(items) \in Leases /\ from.after < Max(items)
                /\ Page(items, from.live, asOf)
                        = Wanted(q, from.live, asOf) \cap After(from.after) \cap UpTo(Max(items))
          /\ ~More(items, q, from) =>
                Page(items, from.live, asOf) = Wanted(q, from.live, asOf) \cap After(from.after)
<1> DEFINE M == {l \in from.present \cap Selected(q) : l > from.after}
<1>1. M \in SUBSET Leases /\ M \in SUBSET Nat /\ IsFiniteSet(M) /\ q.limit \in Nat \ {0}
  BY ClientAssumption, FS_Subset DEF Lists, Selected
<1>2. items = FirstOf(M, q.limit)
  BY DEF Items, FirstOf
<1>3. Wanted(q, from.live, asOf) \cap After(from.after) = M \cap from.live \cap Unexpired(asOf)
  BY DEF Wanted, After, Lists, Selected
<1> HIDE DEF M
<1>4. items \subseteq M
  BY <1>2 DEF FirstOf
<1>5. IsFiniteSet(items) /\ items \in SUBSET Nat /\ Cardinality(items) \in Nat
  BY <1>1, <1>4, FS_Subset, FS_CardinalityType
<1>6. Cardinality(items) = q.limit => items # {}
  BY <1>1, FS_EmptySet
<1>7. Cardinality(items) = q.limit =>
          /\ Max(items) \in items
          /\ items = M \cap UpTo(Max(items))
  <2> SUFFICES ASSUME Cardinality(items) = q.limit
               PROVE Max(items) \in items /\ items = M \cap UpTo(Max(items))
    OBVIOUS
  <2>1. Max(items) \in items /\ \A k \in items : k <= Max(items)
    BY <1>5, <1>6, MaxOf
  <2>2. \A m \in M : m <= Max(items) => m \in items
    BY <1>1, <1>2, <2>1, FirstAreFirst
  <2> QED
    BY <1>1, <1>4, <2>1, <2>2 DEF UpTo
<1>8. Cardinality(items) # q.limit => items = M
  BY <1>1, <1>2, ShortIsAll
<1>9. CASE More(items, q, from)
  <2>1. Max(items) \in M /\ items = M \cap UpTo(Max(items))
    BY <1>4, <1>7, <1>9 DEF More
  <2>2. from.after < Max(items)
    BY <2>1 DEF M
  <2> QED
    BY <1>1, <1>3, <1>9, <2>1, <2>2 DEF Page
<1>10. CASE ~More(items, q, from)
  <2>1. items = M
    <3>1. CASE Cardinality(items) = q.limit
      <4>1. \A l \in from.present : ~ (l > Max(items))
        BY <1>10, <3>1 DEF More
      <4>2. Max(items) \in Nat
        BY <1>5, <1>7, <3>1
      <4>3. \A l \in M : l \in Leases /\ l \in Nat /\ l \in from.present
        BY <1>1 DEF M
      <4>4. M \subseteq UpTo(Max(items))
        BY <4>1, <4>2, <4>3 DEF UpTo
      <4> QED
        BY <1>7, <3>1, <4>4
    <3> QED
      BY <1>8, <3>1
  <2> QED
    BY <1>3, <1>10, <2>1 DEF Page
<1> QED
  BY <1>9, <1>10

LEMMA ListAnswersKeeps ==
    ASSUME PagerInv, ListAnswers
    PROVE PagerInv'
<1> DEFINE q == pager.query
           c == pager.cursor
           from == Snapshot
           items == Items(q, from)
           page == Page(items, from.live, pager.asOf)
           more == More(items, q, from)
           next == IF more THEN Encode(from, Max(items)) ELSE None
<1>a. UNCHANGED <<now, phase>> /\ pager.st = "listing" /\ q \in Queries /\ pager.asOf \in Nat
  BY DEF ListAnswers, PagerStep, PagerInv, PagerTypes, Requesting, Pagers
<1>1. /\ pager.page = {} /\ pager.given \subseteq Leases
      /\ c # None => c \in Cursors /\ c.query = q /\ c.asOf = pager.asOf
  BY <1>a DEF PagerInv, PagerTypes, Pagers, Received
<1>2. /\ from \in Lists /\ from.live \subseteq from.present
      /\ c = None => from.live = Live /\ from.after = 0
      /\ c # None => from.live = c.live /\ from.after = c.after
  <2>1. CASE c = None
    BY <2>1 DEF Snapshot, Lists, Live, Present
  <2>2. CASE c # None
    BY <1>1, <2>2 DEF Snapshot, Lists, Cursors, PagerInv, Received
  <2> QED
    BY <2>1, <2>2
<1>3. pager.given = Wanted(q, from.live, pager.asOf) \cap (Leases \ After(from.after))
  <2>1. CASE c = None
    <3>1. pager.given = {}
      BY <1>a, <2>1 DEF PagerInv, Received, Requesting
    <3>2. After(0) = Leases
      BY KeyOrder DEF After
    <3> QED
      BY <1>2, <2>1, <3>1, <3>2
  <2>2. CASE c # None
    <3>1. pager.given = Wanted(q, from.live, pager.asOf) \cap UpTo(from.after)
      BY <1>1, <1>2, <2>2 DEF PagerInv, Received
    <3>2. \A n \in Nat : UpTo(n) = Leases \ After(n)
      BY KeyOrder
    <3>3. from.after \in Nat
      BY <1>2 DEF Lists
    <3> QED
      BY <3>1, <3>2, <3>3
  <2> QED
    BY <2>1, <2>2
<1> HIDE DEF from
<1>4. /\ page \subseteq Wanted(q, from.live, pager.asOf) \cap After(from.after)
      /\ more => /\ Max(items) \in Leases /\ from.after < Max(items)
                 /\ page = Wanted(q, from.live, pager.asOf) \cap After(from.after)
                                                            \cap UpTo(Max(items))
      /\ ~more => page = Wanted(q, from.live, pager.asOf) \cap After(from.after)
  <2>1. from \in Lists /\ from.live \subseteq from.present /\ q \in Queries
    BY <1>a, <1>2
  <2> QED
    BY <2>1, OnePage
<1>5. pager' = [pager EXCEPT !.st = "next", !.page = page, !.snapshot = from.live, !.cursor = next]
  BY DEF ListAnswers, PagerStep, More, from
<1> HIDE DEF items, page, more
<1>6. /\ more => /\ next \in Cursors /\ next # None
                 /\ next.query = q /\ next.asOf = pager.asOf /\ next.live = from.live
                 /\ next.present = from.present /\ next.after = Max(items)
      /\ ~more => next = None
  <2>1. more => next \in Cursors
    BY <1>a, <1>2, <1>4, ClientAssumption DEF Encode, Cursors, Lists
  <2> QED
    BY <2>1, ClientAssumption DEF Encode
<1> HIDE DEF next
<1>7. /\ pager'.st = "next" /\ pager'.page = page /\ pager'.snapshot = from.live
      /\ pager'.cursor = next /\ pager'.query = q /\ pager'.asOf = pager.asOf
      /\ pager'.given = pager.given /\ pager'.twice = pager.twice
      /\ pager'.begun = pager.begun /\ pager'.barred = pager.barred
  BY <1>5 DEF PagerInv, PagerTypes, Pagers
<1>8. pager' \in Pagers
  <2>1. page \in SUBSET Leases /\ next \in Cursors \cup {None} /\ from.live \in SUBSET Leases
    BY <1>2, <1>4, <1>6 DEF After, Lists
  <2> QED
    BY <1>5, <2>1 DEF PagerInv, PagerTypes, Pagers, Answered
<1>9. PagerTypes'
  BY <1>a, <1>7, <1>8 DEF PagerInv, PagerTypes, World
<1>10. Received'
  <2>1. page \cap pager.given = {}
    BY <1>3, <1>4
  <2>2. more => pager.given \cup page = Wanted(q, from.live, pager.asOf) \cap UpTo(Max(items))
    <3>1. more => UpTo(Max(items)) = (Leases \ After(from.after))
                                        \cup (After(from.after) \cap UpTo(Max(items)))
      BY <1>2, <1>4, ClientAssumption DEF UpTo, After, Lists
    <3> QED
      BY <1>3, <1>4, <3>1
  <2>3. ~more => pager.given \cup page = Wanted(q, from.live, pager.asOf)
    BY <1>3, <1>4 DEF Wanted, Selected
  <2>4. pager.asOf <= now /\ ~pager.twice
    BY <1>a DEF PagerInv, Received
  <2> QED
    BY <1>a, <1>2, <1>6, <1>7, <2>1, <2>2, <2>3, <2>4
    DEF Received, Answered, Requesting, Wanted, UpTo, Selected, Unexpired
<1>11. Judged'
  <2>1. from.live = (IF c = None THEN Live ELSE pager.snapshot)
    BY <1>2 DEF PagerInv, Received
  <2>2. \A l \in pager.begun : phase[l] = "live" => l \in from.live
    BY <1>8, <1>7, <2>1 DEF PagerInv, Judged, Live, Pagers
  <2>3. \A l \in pager.barred : ExpiresAt[l] <= pager.asOf \/ l \notin from.live
    BY <1>a, <1>1, <2>1 DEF PagerInv, Judged, Live, Ended, Answered
  <2> QED
    BY <1>a, <1>6, <1>7, <2>2, <2>3 DEF PagerInv, Judged, Answered
<1> QED
  BY <1>9, <1>10, <1>11 DEF PagerInv
LEMMA PagerSteps ==
    ASSUME PagerInv, [Next]_vars
    PROVE PagerInv'
<1>a. WorldGoesOn
  BY WorldSteps DEF PagerInv, PagerTypes
<1>1. CASE UNCHANGED pager
  BY <1>a, <1>1, PagerStays
<1>2. CASE Traverse
  BY <1>2, YieldKeeps, RequestKeeps, ListBeginsKeeps, ListAnswersKeeps DEF Traverse
<1>3. ASSUME NEW q \in Queries, Iterate(q) PROVE PagerInv'
  BY <1>3, IterateKeeps
<1> QED
  BY <1>1, <1>2, <1>3
  DEF Next, vars, Tick, Platform, Close, Lead, terminal, HandleStep, newRequest, requireClaim,
      deleteClaim, Succeeds, Fails, Wakes, Aborted, Returns

LEMMA PagerInit == Init => PagerInv
<1> SUFFICES ASSUME Init
             PROVE PagerInv
  OBVIOUS
<1>1. World
  BY DEF Init, World, Phases
<1>2. pager = IdlePager \/ pager = [IdlePager EXCEPT !.st = "absent"]
  BY DEF Init
<1>3. /\ pager.st \in {"idle", "absent"} /\ pager.cursor = None
      /\ pager.page = {} /\ pager.given = {}
      /\ pager.begun = {} /\ pager.barred = {} /\ pager.twice = FALSE
  BY <1>2 DEF IdlePager
<1>4. pager \in Pagers
  <2>1. IdlePager \in Pagers
    BY DEF IdlePager, Pagers
  <2>2. [IdlePager EXCEPT !.st = "absent"] \in Pagers
    BY <2>1 DEF Pagers
  <2> QED
    BY <1>2, <2>1, <2>2
<1> QED
  BY <1>1, <1>3, <1>4
  DEF PagerInv, PagerTypes, Received, Judged, Requesting, Answered

LEMMA CompleteWhenDone == PagerInv => TraversalComplete
<1> SUFFICES ASSUME PagerInv, pager.st = "done"
             PROVE /\ (pager.begun \cap Selected(pager.query) \cap Active) \subseteq pager.given
                   /\ pager.given \cap pager.barred = {} /\ ~pager.twice
                   /\ \E t \in 0 .. now :
                       pager.given = Selected(pager.query) \cap pager.snapshot \cap Unexpired(t)
  BY DEF TraversalComplete
<1>1. pager.cursor = None /\ pager.page = {} /\ pager.asOf \in Nat /\ now \in Nat
  BY DEF PagerInv, PagerTypes, Pagers, World
<1>2. pager.asOf <= now /\ ~pager.twice
  BY DEF PagerInv, Received, Answered
<1>3. pager.given = Selected(pager.query) \cap pager.snapshot \cap Unexpired(pager.asOf)
  BY <1>1 DEF PagerInv, Received, Answered, Wanted
<1>4. \A l \in Leases : ExpiresAt[l] \in Nat
  BY ClientAssumption
<1>5. \A l \in pager.begun \cap Active : l \in pager.snapshot /\ l \in Unexpired(pager.asOf)
  BY <1>1, <1>2, <1>4 DEF PagerInv, Judged, Answered, Active, Live, Unexpired
<1>6. \A l \in pager.barred : l \notin pager.snapshot \/ l \notin Unexpired(pager.asOf)
  BY <1>1, <1>4 DEF PagerInv, Judged, Answered, Unexpired
<1> QED
  BY <1>1, <1>2, <1>3, <1>5, <1>6

\* Whatever comes, ends and expires between the pages, however large or small they
\* are and however often one is asked for again: a traversal that ends without an
\* error has returned what one List would have, each lease once.
THEOREM TraversalsAreComplete == Spec => []TraversalComplete
<1>1. PagerInv /\ [Next]_vars => PagerInv'
  BY PagerSteps
<1> QED
  BY PagerInit, <1>1, CompleteWhenDone, PTL DEF Spec
=============================================================================
