--------------------------- MODULE RegistryProofs ---------------------------
(***************************************************************************)
(* The workload router's registry, proved for any number of exposures,     *)
(* hosts, requests, connections and control goroutines and for any limits, *)
(* lifetimes and bounds.                                                   *)
(***************************************************************************)
EXTENDS Registry, FiniteSetTheorems, TLAPS

----------------------------------------------------------------------------
(* The inductive invariant.                                                *)

\* Generations come from a counter: no reference anyone holds is newer than it,
\* so that a registration to come is none that a slow goroutine remembers.
OldRefs ==
    /\ \A id \in IDs : gen[id] <= nextGen
    /\ \A p \in Callers : \A ref \in revoking[p] : ref.gen <= nextGen
    /\ \A ref \in callbacks : ref.gen <= nextGen
    /\ \A t \in timers : t.ref.gen <= nextGen
    /\ \A p \in Handlers : exposure[p].ref.gen <= nextGen
    /\ \A c \in Conns : conn[c].exposure.ref.gen <= nextGen
    /\ \A x \in exchanges : x.ref.gen <= nextGen

\* The Exposure a request has read is what the registry says of it, as long as
\* that registration is in force; between requests there is none.
ExposureCurrent ==
    \A p \in Handlers :
        /\ stateMatches(exposure[p].ref) =>
            /\ exposure[p].expiresAt = expiresAt[exposure[p].ref.id]
            /\ hostOf[exposure[p].ref.id] = req[p].host
        /\ pc[p] = "idle" => exposure[p].ref.gen = 0

\* Sessions have been handed out, on the host of their registration.
SessionsIssued ==
    /\ \A r \in sessions : \E x \in exchanges : x.session = r.cred /\ x.ref = r.ref
    /\ \A x \in exchanges : stateMatches(x.ref) => hostOf[x.ref.id] = x.host

\* Credentials come from a counter too.
OldCreds ==
    /\ \A r \in capabilities : r.cred <= creds
    /\ \A p \in Handlers : req[p].cred <= creds
    /\ \A x \in exchanges : x.capability <= creds

\* A consumed capability belongs to one goroutine, which is about to issue the
\* session, or to one exchange, and to no entry of the registry.
Consumed ==
    /\ \A x \in exchanges, r \in capabilities : x.capability # r.cred
    /\ \A p \in Handlers : pc[p] = "issue" =>
        /\ \A r \in capabilities : r.cred # req[p].cred
        /\ \A x \in exchanges : x.capability # req[p].cred
        /\ \A q \in Handlers : q # p /\ pc[q] = "issue" => req[q].cred # req[p].cred

\* Whoever revokes without being told to revokes what has expired.
RevokesExpired ==
    /\ \A p \in Handlers : \A ref \in revoking[p] :
        stateMatches(ref) => expiresAt[ref.id] <= now
    /\ \A ref \in callbacks : stateMatches(ref) => expiresAt[ref.id] <= now
    /\ \A t \in timers : stateMatches(t.ref) => expiresAt[t.ref.id] = t.at

\* What is registered after Close began is on the list of a Close or a Revoke.
CloseCovers ==
    /\ \A a \in Admins : pc[a] = "idle" => revoking[a] = {}
    /\ closed => \A id \in IDs : gen[id] # 0 =>
        \E a \in Admins : [id |-> id, gen |-> gen[id]] \in revoking[a]

IInv ==
    /\ TypeOK /\ OldRefs
    /\ AuthorityIsLive /\ ExposureCurrent
    /\ SessionsIssued /\ SessionsStayBound
    /\ OldCreds /\ Consumed /\ SingleUse
    /\ RevokesExpired /\ CloseCovers
    /\ NoOrphanConnection
    /\ SlotsAccounted

----------------------------------------------------------------------------
(* Types.                                                                  *)

ConnRecords == [state : {"free", "dialing", "dialed", "open", "closed"},
                exposure : [ref : Refs, expiresAt : Nat], since : Nat]

LEMMA Constants ==
    /\ NoRef \in Refs /\ NoRef.gen = 0
    /\ NoExposure \in [ref : Refs, expiresAt : Nat] /\ NoExposure.ref.gen = 0
    /\ AnyHost \in Hosts
    /\ NoReq \in [host : Hosts, kind : {"exchange", "proxy"}, cred : Nat]
    /\ NoConn \in ConnRecords
    /\ NoConn.state = "free" /\ NoConn.exposure.ref.gen = 0 /\ NoReq.cred = 0
<1>1. (CHOOSE id \in IDs : TRUE) \in IDs /\ AnyHost \in Hosts
  BY RegistryAssumption DEF AnyHost
<1> QED
  BY <1>1 DEF NoRef, Refs, NoExposure, NoReq, NoConn, ConnRecords

LEMMA InitTypes == Init => TypeOK
<1> SUFFICES ASSUME Init PROVE TypeOK
  OBVIOUS
<1> USE Constants DEF Init, NewRegistry
<1>1. /\ now \in Nat /\ closed \in BOOLEAN /\ nextGen \in Nat /\ creds \in Nat
      /\ gen \in [IDs -> Nat] /\ hostOf \in [IDs -> Hosts] /\ expiresAt \in [IDs -> Nat]
      /\ active \in [IDs -> Nat] /\ conns \in [IDs -> SUBSET Conns] /\ hosts \in [Hosts -> Refs]
  OBVIOUS
<1>2. /\ capabilities \subseteq Records /\ sessions \subseteq Records
      /\ timers \subseteq [ref : Refs, at : Nat] /\ callbacks \subseteq Refs
      /\ closing \subseteq (Callers \cup {Timer}) \X Conns
      /\ exchanges \subseteq [capability : Nat, session : Nat, host : Hosts, ref : Refs]
  OBVIOUS
<1>3. /\ revoking \in [Callers -> SUBSET Refs]
      /\ pc \in [Callers -> HandlerPCs]
      /\ req \in [Handlers -> [host : Hosts, kind : {"exchange", "proxy"}, cred : Nat]]
      /\ since \in [Handlers -> Nat]
      /\ exposure \in [Handlers -> [ref : Refs, expiresAt : Nat]]
      /\ conn \in [Conns -> ConnRecords]
  BY DEF HandlerPCs, ConnRecords
<1> QED
  BY <1>1, <1>2, <1>3 DEF TypeOK, ConnRecords

LEMMA RegisterTypes ==
    ASSUME TypeOK, NEW id \in IDs, NEW h \in Hosts, NEW e \in 0 .. MaxTime, Register(id, h, e)
    PROVE  TypeOK'
<1>1. now \in Nat /\ e \in Int /\ now < e
  BY DEF TypeOK, Register, Admit
<1>2. e \in Nat /\ Earlier(now + BootstrapTTL, e) \in Nat
  BY <1>1, RegistryAssumption DEF Earlier
<1>3. [id |-> id, gen |-> nextGen + 1] \in Refs
  BY DEF TypeOK, Refs
<1> QED
  BY <1>1, <1>2, <1>3, RegistryAssumption DEF TypeOK, Register, Admit, handler, Records

LEMMA RevokeRefTypes ==
    ASSUME TypeOK, NEW p \in Callers \cup {Timer}, NEW ref \in Refs, revokeRef(p, ref)
    PROVE  /\ gen' \in [IDs -> Nat]
           /\ hostOf' \in [IDs -> Hosts]
           /\ expiresAt' \in [IDs -> Nat]
           /\ active' \in [IDs -> Nat]
           /\ conns' \in [IDs -> SUBSET Conns]
           /\ hosts' \in [Hosts -> Refs]
           /\ capabilities' \subseteq Records
           /\ sessions' \subseteq Records
           /\ timers' \subseteq [ref : Refs, at : Nat]
           /\ closing' \subseteq (Callers \cup {Timer}) \X Conns
<1>1. ref.id \in IDs
  BY DEF Refs
<1>2. CASE stateMatches(ref)
  <2>1. /\ gen' \in [IDs -> Nat] /\ hostOf' \in [IDs -> Hosts] /\ expiresAt' \in [IDs -> Nat]
        /\ active' \in [IDs -> Nat] /\ conns' \in [IDs -> SUBSET Conns]
        /\ hosts' \in [Hosts -> Refs]
    <3>1. NoRef \in Refs /\ AnyHost \in Hosts
      BY Constants
    <3>2. /\ gen' = [gen EXCEPT ![ref.id] = 0]
          /\ hostOf' = [hostOf EXCEPT ![ref.id] = AnyHost]
          /\ expiresAt' = [expiresAt EXCEPT ![ref.id] = 0]
          /\ active' = [active EXCEPT ![ref.id] = 0]
          /\ conns' = [conns EXCEPT ![ref.id] = {}]
      BY <1>2 DEF revokeRef
    <3>3. hosts' = [h \in Hosts |->
                      IF h = hostOf[ref.id] /\ hosts[h] = ref THEN NoRef ELSE hosts[h]]
      BY <1>2 DEF revokeRef
    <3>4. hosts' \in [Hosts -> Refs]
      BY <3>1, <3>3 DEF TypeOK
    <3> QED
      BY <1>1, <3>1, <3>2, <3>4 DEF TypeOK
  <2>2. /\ capabilities' \subseteq Records /\ sessions' \subseteq Records
        /\ timers' \subseteq [ref : Refs, at : Nat]
    BY <1>2 DEF revokeRef, TypeOK
  <2>3. {p} \X conns[ref.id] \subseteq (Callers \cup {Timer}) \X Conns
    <3>1. conns[ref.id] \subseteq Conns
      BY <1>1 DEF TypeOK
    <3> QED
      BY <3>1
  <2>4. closing' = closing \cup ({p} \X conns[ref.id])
    BY <1>2 DEF revokeRef
  <2> QED
    BY <2>1, <2>2, <2>3, <2>4 DEF TypeOK
<1>3. CASE ~stateMatches(ref)
  BY <1>3 DEF revokeRef, TypeOK
<1> QED
  BY <1>2, <1>3

LEMMA ControlTypes ==
    ASSUME TypeOK,
           \/ \E a \in Admins : Close(a) \/ \E id \in IDs : Revoke(a, id)
           \/ \E p \in Callers : RevokeStep(p)
           \/ \E p \in Callers \cup {Timer}, c \in Conns : CloseConn(p, c)
           \/ \E t \in timers : TimerFires(t)
           \/ \E ref \in callbacks : TimerCallback(ref)
           \/ Tick
    PROVE  TypeOK'
<1> USE DEF core, tokens, revocation, handler
<1>1. CASE \E a \in Admins : Close(a)
  BY <1>1 DEF TypeOK, Close, LiveRefs, Refs, Callers, HandlerPCs
<1>2. CASE \E a \in Admins, id \in IDs : Revoke(a, id)
  BY <1>2 DEF TypeOK, Revoke, Refs, Callers, HandlerPCs
<1>3. ASSUME NEW p \in Callers, RevokeNext(p)
      PROVE  TypeOK'
  <2>1. PICK ref \in revoking[p] :
          revokeRef(p, ref) /\ revoking' = [revoking EXCEPT ![p] = @ \ {ref}]
    BY <1>3 DEF RevokeNext
  <2>2. ref \in Refs
    BY DEF TypeOK
  <2> QED
    BY <1>3, <2>1, <2>2, RevokeRefTypes DEF TypeOK, RevokeNext
<1>4. ASSUME NEW p \in Callers, RevokeReturns(p)
      PROVE  TypeOK'
  <2>1. CASE p \in Handlers
    <3>1. /\ NoExposure \in [ref : Refs, expiresAt : Nat]
          /\ NoReq \in [host : Hosts, kind : {"exchange", "proxy"}, cred : Nat]
      BY Constants
    <3>2. /\ pc' = [pc EXCEPT ![p] = "idle"]
          /\ since' = [since EXCEPT ![p] = 0]
          /\ req' = [req EXCEPT ![p] = NoReq]
          /\ exposure' = [exposure EXCEPT ![p] = NoExposure]
          /\ UNCHANGED <<now, core, tokens, active, conns, revocation, conn>>
      BY <1>4, <2>1 DEF RevokeReturns, Return
    <3> QED
      BY <3>1, <3>2 DEF TypeOK, HandlerPCs
  <2>2. CASE p \notin Handlers
    BY <1>4, <2>2 DEF TypeOK, RevokeReturns, HandlerPCs
  <2> QED
    BY <2>1, <2>2
<1>5. ASSUME NEW p \in Callers \cup {Timer}, NEW c \in Conns, CloseConn(p, c)
      PROVE  TypeOK'
  <2>1. conn' = [conn EXCEPT ![c].state = IF @ = "open" THEN "closed" ELSE @]
    BY <1>5 DEF CloseConn
  <2>2. conn' \in [Conns -> ConnRecords]
    <3>1. conn \in [Conns -> ConnRecords]
      BY DEF TypeOK, ConnRecords
    <3>2. [conn[c] EXCEPT !.state = IF @ = "open" THEN "closed" ELSE @] \in ConnRecords
      BY <3>1 DEF ConnRecords
    <3> QED
      BY <2>1, <3>1, <3>2
  <2> QED
    BY <1>5, <2>2 DEF TypeOK, CloseConn, ConnRecords
<1>6. CASE \E t \in timers : TimerFires(t)
  BY <1>6 DEF TypeOK, TimerFires
<1>7. ASSUME NEW ref \in callbacks, TimerCallback(ref)
      PROVE  TypeOK'
  <2>1. ref \in Refs
    BY DEF TypeOK
  <2> QED
    BY <1>7, <2>1, RevokeRefTypes DEF TypeOK, TimerCallback
<1>8. CASE Tick
  BY <1>8 DEF TypeOK, Tick
<1> QED
  BY <1>1, <1>2, <1>3, <1>4, <1>5, <1>6, <1>7, <1>8 DEF RevokeStep

LEMMA HandlerTypes ==
    ASSUME TypeOK, NEW p \in Handlers, HandlerStep(p)
    PROVE  TypeOK'
<1> USE DEF core, tokens, revocation, handler
<1>p. p \in Callers
  BY DEF Callers
<1>r. ASSUME Return(p) PROVE /\ pc' \in [Callers -> HandlerPCs]
                             /\ req' \in [Handlers ->
                                      [host : Hosts, kind : {"exchange", "proxy"}, cred : Nat]]
                             /\ since' \in [Handlers -> Nat]
                             /\ exposure' \in [Handlers -> [ref : Refs, expiresAt : Nat]]
  BY <1>r, <1>p, Constants DEF TypeOK, Return, HandlerPCs
<1>g. ASSUME NEW l \in HandlerPCs, Goto(p, l)
      PROVE  /\ pc' \in [Callers -> HandlerPCs]
             /\ req' \in [Handlers ->
                                      [host : Hosts, kind : {"exchange", "proxy"}, cred : Nat]]
             /\ since' \in [Handlers -> Nat]
             /\ exposure' \in [Handlers -> [ref : Refs, expiresAt : Nat]]
  BY <1>g, <1>p DEF TypeOK, Goto
<1>t. \A t \in Sampled(p) : t \in Nat
  BY DEF TypeOK, Sampled
<1>l. ASSUME NEW l \in HandlerPCs, LookupHost(p, l)
      PROVE  /\ pc' \in [Callers -> HandlerPCs]
             /\ req' \in [Handlers ->
                                      [host : Hosts, kind : {"exchange", "proxy"}, cred : Nat]]
             /\ since' \in [Handlers -> Nat]
             /\ exposure' \in [Handlers -> [ref : Refs, expiresAt : Nat]]
             /\ revoking' \in [Callers -> SUBSET Refs]
  <2> DEFINE ref == hosts[req[p].host]
  <2>1. ref \in Refs /\ ref.id \in IDs
    BY DEF TypeOK, Refs
  <2>2. CASE /\ exposure' = [exposure EXCEPT ![p] = [ref |-> ref, expiresAt |-> expiresAt[ref.id]]]
             /\ pc' = [pc EXCEPT ![p] = l]
             /\ since' = [since EXCEPT ![p] = now]
             /\ UNCHANGED <<req, revoking>>
    BY <2>1, <2>2, <1>p DEF TypeOK
  <2>3. CASE revoking' = [revoking EXCEPT ![p] = {ref}] /\ Goto(p, "revoke")
    BY <2>1, <2>3, <1>p, <1>g DEF TypeOK, HandlerPCs
  <2>4. CASE Return(p) /\ UNCHANGED revoking
    BY <2>4, <1>r DEF TypeOK
  <2> QED
    BY <1>l, <2>2, <2>3, <2>4 DEF LookupHost
<1>1. CASE Request(p)
  BY <1>1, <1>p, RegistryAssumption DEF TypeOK, Request, HandlerPCs
<1>2. CASE ServeHTTP(p)
  BY <1>2, <1>l DEF TypeOK, ServeHTTP, HandlerPCs
<1>3. CASE Lookup(p)
  BY <1>3, <1>l DEF TypeOK, Lookup, HandlerPCs
<1>4. CASE Reject(p)
  BY <1>4, <1>r DEF TypeOK, Reject
<1>5. CASE ConsumeCapability(p)
  BY <1>5, <1>r, <1>g DEF TypeOK, ConsumeCapability, HandlerPCs
<1>6. CASE IssueSession(p)
  <2>1. CASE UNCHANGED <<creds, sessions, exchanges>>
    BY <1>6, <2>1, <1>r DEF TypeOK, IssueSession
  <2>2. CASE \E t \in Sampled(p) :
                /\ creds' = creds + 1
                /\ sessions' = sessions \cup
                    {[cred |-> creds + 1, ref |-> exposure[p].ref,
                      expiresAt |-> Earlier(t + SessionTTL, exposure[p].expiresAt)]}
                /\ exchanges' = exchanges \cup
                      {[capability |-> req[p].cred, session |-> creds + 1,
                        host |-> req[p].host, ref |-> exposure[p].ref]}
    <3>1. /\ exposure[p].ref \in Refs /\ exposure[p].expiresAt \in Nat
          /\ req[p].cred \in Nat /\ req[p].host \in Hosts /\ creds + 1 \in Nat
      BY DEF TypeOK
    <3>2. \A t \in Sampled(p) : Earlier(t + SessionTTL, exposure[p].expiresAt) \in Nat
      BY <1>t, <3>1, RegistryAssumption DEF Earlier
    <3> QED
      BY <1>6, <2>2, <3>1, <3>2, <1>r DEF TypeOK, IssueSession, Records
  <2> QED
    BY <1>6, <2>1, <2>2 DEF IssueSession
<1>7. CASE Authenticate(p)
  BY <1>7, <1>r, <1>g DEF TypeOK, Authenticate, HandlerPCs
<1>8. CASE Acquire(p)
  BY <1>8, <1>r, <1>g DEF TypeOK, Acquire, HandlerPCs
<1>9. CASE Resolve(p)
  BY <1>9, <1>g DEF TypeOK, Resolve, HandlerPCs
<1>10. CASE ProxyReturns(p)
  <2>1. active' \in [IDs -> Nat]
    <3>1. exposure[p].ref.id \in IDs
      BY DEF TypeOK, Refs
    <3>2. active[exposure[p].ref.id] \in Nat
      BY <3>1 DEF TypeOK
    <3> QED
      BY <1>10, <3>1, <3>2 DEF TypeOK, ProxyReturns, release
  <2> QED
    BY <1>10, <2>1, <1>r DEF TypeOK, ProxyReturns
<1> QED
  BY <1>1, <1>2, <1>3, <1>4, <1>5, <1>6, <1>7, <1>8, <1>9, <1>10 DEF HandlerStep

LEMMA ConnTypes ==
    ASSUME TypeOK, NEW c \in Conns, ConnStep(c)
    PROVE  TypeOK'
<1> USE DEF core, tokens, revocation, handler
<1>1. conn[c].exposure.ref.id \in IDs
  BY DEF TypeOK, Refs
<1>2. CASE Dialed(c)
  <2>1. conn' \in [Conns -> ConnRecords]
    <3>1. conn \in [Conns -> ConnRecords] /\ NoConn \in ConnRecords /\ now \in Nat
      BY Constants DEF TypeOK, ConnRecords
    <3>2. CASE conn' = [conn EXCEPT ![c] = NoConn]
      BY <3>1, <3>2
    <3>3. CASE conn' = [conn EXCEPT ![c].state = "dialed", ![c].since = now]
      BY <3>1, <3>3 DEF ConnRecords
    <3> QED
      BY <1>2, <3>2, <3>3 DEF Dialed
  <2> QED
    BY <1>2, <2>1 DEF TypeOK, Dialed, ConnRecords
<1>3. CASE TrackConnection(c)
  <2>1. conn' \in [Conns -> ConnRecords]
    <3>1. conn \in [Conns -> ConnRecords] /\ NoConn \in ConnRecords
      BY Constants DEF TypeOK, ConnRecords
    <3>2. CASE conn' = [conn EXCEPT ![c] = NoConn]
      BY <3>1, <3>2
    <3>3. CASE conn' = [conn EXCEPT ![c].state = "open"]
      <4>1. [conn[c] EXCEPT !.state = "open"] \in ConnRecords
        BY <3>1 DEF ConnRecords
      <4> QED
        BY <3>1, <3>3, <4>1
    <3> QED
      BY <1>3, <3>2, <3>3 DEF TrackConnection
  <2>2. conns' \in [IDs -> SUBSET Conns]
    BY SMTT(30), <1>1, <1>3 DEF TypeOK, TrackConnection
  <2> QED
    BY <1>3, <2>1, <2>2 DEF TypeOK, TrackConnection, ConnRecords
<1>4. CASE TransportCloses(c)
  BY <1>4 DEF TypeOK, TransportCloses
<1>5. CASE Untrack(c)
  <2>1. conn' \in [Conns -> ConnRecords]
    BY <1>5, Constants DEF TypeOK, Untrack, ConnRecords
  <2>2. conns' \in [IDs -> SUBSET Conns]
    BY <1>1, <1>5 DEF TypeOK, Untrack
  <2> QED
    BY <1>5, <2>1, <2>2 DEF TypeOK, Untrack, ConnRecords
<1> QED
  BY <1>2, <1>3, <1>4, <1>5 DEF ConnStep

LEMMA NextTypes == TypeOK /\ [Next]_vars => TypeOK'
<1> SUFFICES ASSUME TypeOK, [Next]_vars PROVE TypeOK'
  OBVIOUS
<1>1. CASE UNCHANGED vars
  BY <1>1 DEF vars, core, tokens, revocation, handler, TypeOK
<1> QED
  BY <1>1, RegisterTypes, ControlTypes, HandlerTypes, ConnTypes DEF Next

----------------------------------------------------------------------------
(* What the steps do to the state the invariants speak of.                 *)

\* The reference matches after the step.
MatchesNext(ref) == ref.gen # 0 /\ gen'[ref.id] = ref.gen

\* A reference that matches is the registration in force under its ID.
LEMMA Matches ==
    ASSUME TypeOK, NEW ref \in Refs, stateMatches(ref)
    PROVE  /\ ref = [id |-> ref.id, gen |-> gen[ref.id]]
           /\ ref.id \in IDs /\ gen[ref.id] # 0
  BY DEF stateMatches, Refs

\* revokeRef ends the registration it is given, if that is still in force, with
\* all that belongs to it, and touches nothing of any other.
LEMMA RevokeRefEffect ==
    ASSUME TypeOK, NEW p \in Callers \cup {Timer}, NEW ref \in Refs, revokeRef(p, ref)
    PROVE  /\ \A r \in Refs : MatchesNext(r) <=> stateMatches(r) /\ r # ref
           /\ \A id \in IDs : gen'[id] # 0 =>
                /\ gen'[id] = gen[id] /\ hostOf'[id] = hostOf[id]
                /\ expiresAt'[id] = expiresAt[id] /\ active'[id] = active[id]
                /\ conns'[id] = conns[id]
           /\ \A id \in IDs : gen'[id] = 0 /\ gen[id] # 0 => ref = [id |-> id, gen |-> gen[id]]
           /\ \A h \in Hosts :
                /\ hosts'[h].gen # 0 => hosts'[h] = hosts[h]
                /\ hosts[h] = ref /\ stateMatches(ref) /\ hostOf[ref.id] = h => hosts'[h].gen = 0
           /\ capabilities' \subseteq capabilities /\ sessions' \subseteq sessions
           /\ timers' \subseteq timers
           /\ stateMatches(ref) => \A r \in capabilities' \cup sessions' : r.ref # ref
           /\ closing \subseteq closing'
           /\ stateMatches(ref) => \A c \in conns[ref.id] : <<p, c>> \in closing'
<1>1. CASE stateMatches(ref)
  <2> USE <1>1 DEF revokeRef
  <2>1. ref.id \in IDs /\ gen[ref.id] # 0 /\ ref = [id |-> ref.id, gen |-> gen[ref.id]]
    BY Matches
  <2>2. /\ gen' = [gen EXCEPT ![ref.id] = 0]
        /\ hostOf' = [hostOf EXCEPT ![ref.id] = AnyHost]
        /\ expiresAt' = [expiresAt EXCEPT ![ref.id] = 0]
        /\ active' = [active EXCEPT ![ref.id] = 0]
        /\ conns' = [conns EXCEPT ![ref.id] = {}]
    OBVIOUS
  <2>3. \A r \in Refs : MatchesNext(r) <=> stateMatches(r) /\ r # ref
    BY <2>1, <2>2 DEF stateMatches, MatchesNext, Refs, TypeOK
  <2>4. \A id \in IDs : gen'[id] # 0 =>
                /\ gen'[id] = gen[id] /\ hostOf'[id] = hostOf[id]
                /\ expiresAt'[id] = expiresAt[id] /\ active'[id] = active[id]
                /\ conns'[id] = conns[id]
    BY <2>1, <2>2 DEF TypeOK
  <2>5. \A id \in IDs : gen'[id] = 0 /\ gen[id] # 0 => ref = [id |-> id, gen |-> gen[id]]
    BY <2>1, <2>2 DEF TypeOK
  <2>6. NoRef.gen = 0
    BY Constants
  <2>7. \A h \in Hosts :
                /\ hosts'[h].gen # 0 => hosts'[h] = hosts[h]
                /\ hosts[h] = ref /\ stateMatches(ref) /\ hostOf[ref.id] = h => hosts'[h].gen = 0
    BY <2>6
  <2>8. /\ closing \subseteq closing'
        /\ \A c \in conns[ref.id] : <<p, c>> \in closing'
    <3>1. closing' = closing \cup ({p} \X conns[ref.id])
      OBVIOUS
    <3> QED
      BY <3>1
  <2>9. /\ capabilities' \subseteq capabilities /\ sessions' \subseteq sessions
        /\ timers' \subseteq timers
        /\ \A r \in capabilities' \cup sessions' : r.ref # ref
    OBVIOUS
  <2> QED
    BY <2>3, <2>4, <2>5, <2>7, <2>8, <2>9
<1>2. CASE ~stateMatches(ref)
  <2>1. /\ UNCHANGED <<gen, hostOf, expiresAt, hosts, timers, capabilities, sessions>>
        /\ UNCHANGED <<closing, conns, active>>
    BY <1>2 DEF revokeRef
  <2> QED
    BY <1>2, <2>1 DEF stateMatches, MatchesNext
<1> QED
  BY <1>1, <1>2

\* A step of a request changes no registration and nobody else's locals; its
\* Exposure stays, goes with the answer, or is read from the registry.
LEMMA HandlerEffect ==
    ASSUME TypeOK, NEW p \in Handlers, HandlerStep(p)
    PROVE  /\ UNCHANGED <<now, core, conns, timers, callbacks, closing>>
           /\ \A q \in Handlers : q # p =>
                req'[q] = req[q] /\ exposure'[q] = exposure[q] /\ pc'[q] = pc[q]
           /\ \A q \in Callers : q # p => pc'[q] = pc[q] /\ revoking'[q] = revoking[q]
           /\ \/ /\ exposure'[p] = exposure[p] /\ pc'[p] # "idle"
                 /\ req'[p] = req[p] \/ pc[p] = "idle"
              \/ /\ exposure'[p] = NoExposure /\ pc'[p] = "idle" /\ req'[p] = NoReq
              \/ LET ref == hosts[req[p].host] IN
                 /\ stateMatches(ref) /\ req'[p] = req[p] /\ pc'[p] # "idle"
                 /\ exposure'[p] = [ref |-> ref, expiresAt |-> expiresAt[ref.id]]
           /\ \/ revoking'[p] = revoking[p]
              \/ LET ref == hosts[req[p].host] IN
                 stateMatches(ref) /\ expiresAt[ref.id] <= now /\ revoking'[p] = {ref}
<1> DEFINE Effect ==
           /\ \A q \in Handlers : q # p =>
                req'[q] = req[q] /\ exposure'[q] = exposure[q] /\ pc'[q] = pc[q]
           /\ \A q \in Callers : q # p => pc'[q] = pc[q] /\ revoking'[q] = revoking[q]
           /\ \/ /\ exposure'[p] = exposure[p] /\ pc'[p] # "idle"
                 /\ req'[p] = req[p] \/ pc[p] = "idle"
              \/ /\ exposure'[p] = NoExposure /\ pc'[p] = "idle" /\ req'[p] = NoReq
              \/ LET ref == hosts[req[p].host] IN
                 /\ stateMatches(ref) /\ req'[p] = req[p] /\ pc'[p] # "idle"
                 /\ exposure'[p] = [ref |-> ref, expiresAt |-> expiresAt[ref.id]]
           /\ \/ revoking'[p] = revoking[p]
              \/ LET ref == hosts[req[p].host] IN
                 stateMatches(ref) /\ expiresAt[ref.id] <= now /\ revoking'[p] = {ref}
<1>p. p \in Callers /\ Handlers \subseteq Callers
  BY DEF Callers
<1>r. ASSUME Return(p), UNCHANGED revoking PROVE Effect
  BY <1>r, <1>p DEF TypeOK, Return
<1>g. ASSUME NEW l \in HandlerPCs \ {"idle"}, Goto(p, l), UNCHANGED revoking PROVE Effect
  BY <1>g, <1>p DEF TypeOK, Goto
<1>l. ASSUME NEW l \in HandlerPCs \ {"idle"}, LookupHost(p, l) PROVE Effect
  <2> DEFINE ref == hosts[req[p].host]
  <2>2. CASE /\ stateMatches(ref)
             /\ exposure' = [exposure EXCEPT ![p] = [ref |-> ref, expiresAt |-> expiresAt[ref.id]]]
             /\ pc' = [pc EXCEPT ![p] = l]
             /\ UNCHANGED <<req, revoking>>
    BY <2>2, <1>p DEF TypeOK
  <2>3. CASE /\ stateMatches(ref) /\ \E t \in Sampled(p) : t >= expiresAt[ref.id]
             /\ revoking' = [revoking EXCEPT ![p] = {ref}] /\ Goto(p, "revoke")
    <3>1. /\ pc' = [pc EXCEPT ![p] = "revoke"] /\ UNCHANGED <<req, exposure>>
          /\ revoking' = [revoking EXCEPT ![p] = {ref}]
      BY <2>3 DEF Goto
    <3>2. expiresAt[ref.id] <= now
      <4>1. ref.id \in IDs
        BY DEF TypeOK, Refs
      <4> QED
        BY <2>3, <4>1 DEF TypeOK, Sampled
    <3>3. pc'[p] = "revoke" /\ revoking'[p] = {ref}
      BY <1>p, <3>1 DEF TypeOK
    <3> QED
      BY <1>p, <2>3, <3>1, <3>2, <3>3 DEF TypeOK
  <2>4. CASE Return(p) /\ UNCHANGED revoking
    BY <2>4, <1>r
  <2> QED
    BY <1>l, <2>2, <2>3, <2>4 DEF LookupHost
<1> HIDE DEF Effect
<1>1. ASSUME Request(p) PROVE Effect
  BY <1>1, <1>p DEF TypeOK, Request, revocation, Effect
<1>2. ASSUME ServeHTTP(p) \/ Lookup(p) PROVE Effect
  BY <1>2, <1>l DEF ServeHTTP, Lookup, HandlerPCs
<1>3. ASSUME Reject(p) \/ ProxyReturns(p) PROVE Effect
  BY <1>3, <1>r DEF Reject, ProxyReturns, revocation
<1>4. ASSUME ConsumeCapability(p) \/ IssueSession(p) PROVE Effect
  BY <1>4, <1>r, <1>g DEF ConsumeCapability, IssueSession, revocation, HandlerPCs
<1>5. ASSUME Authenticate(p) \/ Acquire(p) PROVE Effect
  BY <1>5, <1>r, <1>g DEF Authenticate, Acquire, revocation, HandlerPCs
<1>6. ASSUME Resolve(p) PROVE Effect
  BY <1>6, <1>g DEF Resolve, revocation, HandlerPCs
<1>7. UNCHANGED <<now, core, conns, timers, callbacks, closing>>
  BY DEF HandlerStep, Request, ServeHTTP, Lookup, Reject, ConsumeCapability, IssueSession,
         Authenticate, Acquire, Resolve, ProxyReturns, revocation
<1>8. Effect
  BY <1>1, <1>2, <1>3, <1>4, <1>5, <1>6 DEF HandlerStep
<1> QED
  BY <1>7, <1>8 DEF Effect
\* revokeRef runs for an entry of a caller's list or for a timer's callback.
LEMMA RevokeCalls ==
    ASSUME TypeOK,
           \/ \E p \in Callers : RevokeNext(p)
           \/ \E ref \in callbacks : TimerCallback(ref)
    PROVE  \E p \in Callers \cup {Timer}, ref \in Refs :
             /\ revokeRef(p, ref)
             /\ UNCHANGED <<now, closed, nextGen, creds, exchanges, pc, req, exposure, conn>>
             /\ \/ p \in Callers /\ ref \in revoking[p]
                   /\ revoking' = [revoking EXCEPT ![p] = @ \ {ref}] /\ UNCHANGED callbacks
                \/ p = Timer /\ ref \in callbacks /\ callbacks' = callbacks \ {ref}
                   /\ UNCHANGED revoking
<1>1. ASSUME NEW p \in Callers, RevokeNext(p)
      PROVE  \E ref \in Refs :
               /\ revokeRef(p, ref)
               /\ UNCHANGED <<now, closed, nextGen, creds, exchanges, pc, req, exposure, conn>>
               /\ ref \in revoking[p]
               /\ revoking' = [revoking EXCEPT ![p] = @ \ {ref}] /\ UNCHANGED callbacks
  BY <1>1 DEF RevokeNext, TypeOK, handler
<1>2. ASSUME NEW ref \in callbacks, TimerCallback(ref)
      PROVE  /\ ref \in Refs /\ revokeRef(Timer, ref)
             /\ UNCHANGED <<now, closed, nextGen, creds, exchanges, pc, req, exposure, conn>>
             /\ callbacks' = callbacks \ {ref} /\ UNCHANGED revoking
  BY <1>2 DEF TimerCallback, TypeOK, handler
<1>3. CASE \E p \in Callers : RevokeNext(p)
  BY <1>1, <1>3
<1>4. CASE \E ref \in callbacks : TimerCallback(ref)
  BY <1>2, <1>4
<1> QED
  BY <1>3, <1>4

\* The steps that change no registration, no record and no request.
LEMMA OtherSteps ==
    ASSUME TypeOK,
           \/ \E a \in Admins : Close(a) \/ \E id \in IDs : Revoke(a, id)
           \/ \E p \in Callers \ Handlers : RevokeReturns(p)
           \/ \E p \in Callers \cup {Timer}, c \in Conns : CloseConn(p, c)
           \/ \E t \in timers : TimerFires(t)
           \/ Tick
           \/ UNCHANGED vars
    PROVE  /\ UNCHANGED <<nextGen, gen, hostOf, expiresAt, hosts, tokens, active, conns>>
           /\ UNCHANGED <<req, since, exposure>>
           /\ \A p \in Handlers : pc'[p] = pc[p] /\ revoking'[p] = revoking[p]
           /\ now <= now'
           /\ \A c \in Conns : conn'[c].exposure = conn[c].exposure
<1> USE DEF vars, core, tokens, revocation, handler
<1>d. \A p \in Handlers : p \notin Admins /\ p \in Callers
  BY RegistryAssumption DEF Callers
<1>1. ASSUME NEW a \in Admins, Close(a) \/ \E id \in IDs : Revoke(a, id)
      PROVE  /\ UNCHANGED <<now, nextGen, gen, hostOf, expiresAt, hosts, tokens, active, conns>>
             /\ UNCHANGED <<req, since, exposure, conn>>
             /\ \A p \in Handlers : pc'[p] = pc[p] /\ revoking'[p] = revoking[p]
  <2>1. PICK S : pc' = [pc EXCEPT ![a] = "revoke"] /\ revoking' = [revoking EXCEPT ![a] = S]
    BY <1>1 DEF Close, Revoke
  <2>2. \A p \in Handlers : pc'[p] = pc[p] /\ revoking'[p] = revoking[p]
    BY <1>d, <2>1 DEF TypeOK
  <2> QED
    BY <1>1, <2>2 DEF Close, Revoke
<1>2. ASSUME NEW p \in Callers \ Handlers, RevokeReturns(p)
      PROVE  /\ UNCHANGED <<now, nextGen, gen, hostOf, expiresAt, hosts, tokens, active, conns>>
             /\ UNCHANGED <<req, since, exposure, conn>>
             /\ \A q \in Handlers : pc'[q] = pc[q] /\ revoking'[q] = revoking[q]
  BY <1>2, <1>d DEF RevokeReturns, TypeOK
<1>3. ASSUME NEW p \in Callers \cup {Timer}, NEW c \in Conns, CloseConn(p, c)
      PROVE  \A d \in Conns : conn'[d].exposure = conn[d].exposure
  BY <1>3 DEF CloseConn, TypeOK
<1>4. now \in Nat
  BY DEF TypeOK
<1>5. CASE \E a \in Admins : Close(a) \/ \E id \in IDs : Revoke(a, id)
  BY <1>1, <1>4, <1>5
<1>6. CASE \E p \in Callers \ Handlers : RevokeReturns(p)
  BY <1>2, <1>4, <1>6
<1>7. CASE \E p \in Callers \cup {Timer}, c \in Conns : CloseConn(p, c)
  BY <1>3, <1>4, <1>7 DEF CloseConn
<1>8. CASE (\E t \in timers : TimerFires(t)) \/ Tick \/ UNCHANGED vars
  BY <1>4, <1>8 DEF TimerFires, Tick
<1> QED
  BY <1>5, <1>6, <1>7, <1>8

\* A request that revoked an expired registration has answered.
LEMMA HandlerReturns ==
    ASSUME TypeOK, NEW p \in Handlers, RevokeReturns(p)
    PROVE  /\ UNCHANGED <<now, core, tokens, active, conns, revocation, conn>>
           /\ Return(p)
  BY DEF RevokeReturns

\* The kinds of step the following proofs distinguish.
LEMMA StepKinds ==
    ASSUME [Next]_vars
    PROVE  \/ \E id \in IDs, h \in Hosts, e \in 0 .. MaxTime : Register(id, h, e)
           \/ \E p \in Handlers : HandlerStep(p)
           \/ \E p \in Handlers : RevokeReturns(p)
           \/ \/ \E p \in Callers : RevokeNext(p)
              \/ \E ref \in callbacks : TimerCallback(ref)
           \/ \E c \in Conns : ConnStep(c)
           \/ \/ \E a \in Admins : Close(a) \/ \E id \in IDs : Revoke(a, id)
              \/ \E p \in Callers \ Handlers : RevokeReturns(p)
              \/ \E p \in Callers \cup {Timer}, c \in Conns : CloseConn(p, c)
              \/ \E t \in timers : TimerFires(t)
              \/ Tick
              \/ UNCHANGED vars
  BY DEF Next, RevokeStep

\* What a connection's step does to the Exposures of connections.
LEMMA ConnEffect ==
    ASSUME TypeOK, NEW c \in Conns, ConnStep(c)
    PROVE  /\ UNCHANGED <<now, core, tokens, active, revocation, handler>>
           /\ \A d \in Conns : conn'[d].exposure = conn[d].exposure
                               \/ conn'[d].exposure = NoConn.exposure
<1>1. UNCHANGED <<now, core, tokens, active, revocation, handler>>
  BY DEF ConnStep, Dialed, TrackConnection, TransportCloses, Untrack
<1>2. \/ conn' = [conn EXCEPT ![c] = NoConn]
      \/ conn' = [conn EXCEPT ![c].state = "dialed", ![c].since = now]
      \/ conn' = [conn EXCEPT ![c].state = "open"]
      \/ conn' = [conn EXCEPT ![c].state = "closed"]
  BY DEF ConnStep, Dialed, TrackConnection, TransportCloses, Untrack
<1>3. \A d \in Conns : conn'[d].exposure = conn[d].exposure
                       \/ conn'[d].exposure = NoConn.exposure
  <2>1. CASE conn' = [conn EXCEPT ![c] = NoConn]
    BY <2>1 DEF TypeOK
  <2>2. CASE conn' = [conn EXCEPT ![c].state = "dialed", ![c].since = now]
    BY <2>2 DEF TypeOK
  <2>3. CASE conn' = [conn EXCEPT ![c].state = "open"]
    BY <2>3 DEF TypeOK
  <2>4. CASE conn' = [conn EXCEPT ![c].state = "closed"]
    BY <2>4 DEF TypeOK
  <2> QED
    BY <1>2, <2>1, <2>2, <2>3, <2>4
<1> QED
  BY <1>1, <1>3
----------------------------------------------------------------------------
(* Registrations, and what refers to them.                                 *)

\* Nobody holds a reference the registry has not given out yet.
LEMMA OldRefsStep ==
    ASSUME TypeOK, OldRefs, [Next]_vars
    PROVE  OldRefs'
<1>g. gen \in [IDs -> Nat] /\ nextGen \in Nat
  BY DEF TypeOK
<1>m. \A ref \in Refs : stateMatches(ref) => ref.gen <= nextGen
  BY DEF stateMatches, OldRefs, Refs
<1>h. \A h \in Hosts : hosts[h] \in Refs
  BY DEF TypeOK
<1>1. ASSUME NEW id \in IDs, NEW h \in Hosts, NEW e \in 0 .. MaxTime, Register(id, h, e)
      PROVE  OldRefs'
  <2>1. /\ nextGen' = nextGen + 1 /\ gen' = [gen EXCEPT ![id] = nextGen + 1]
        /\ timers' = timers \cup {[ref |-> [id |-> id, gen |-> nextGen + 1], at |-> e]}
        /\ UNCHANGED <<revoking, callbacks, exposure, conn, exchanges>>
    BY <1>1 DEF Register, Admit, handler
  <2>2. /\ \A p \in Callers : \A ref \in revoking[p] : ref.gen \in Nat
        /\ \A ref \in callbacks : ref.gen \in Nat
        /\ \A t \in timers : t.ref.gen \in Nat
        /\ \A p \in Handlers : exposure[p].ref.gen \in Nat
        /\ \A c \in Conns : conn[c].exposure.ref.gen \in Nat
        /\ \A x \in exchanges : x.ref.gen \in Nat
    <3>1. \A p \in Callers : revoking[p] \subseteq Refs
      BY DEF TypeOK
    <3>2. \A t \in timers : t.ref \in Refs
      BY DEF TypeOK
    <3>3. \A c \in Conns : conn[c].exposure.ref \in Refs
      BY DEF TypeOK
    <3>4. \A p \in Handlers : exposure[p].ref \in Refs
      BY DEF TypeOK
    <3>5. \A x \in exchanges : x.ref \in Refs
      BY DEF TypeOK
    <3>6. callbacks \subseteq Refs
      BY DEF TypeOK
    <3> QED
      BY <3>1, <3>2, <3>3, <3>4, <3>5, <3>6 DEF Refs
  <2>3. \A i \in IDs : gen'[i] <= nextGen'
    BY <1>g, <2>1 DEF OldRefs
  <2>4. \A t \in timers' : t.ref.gen <= nextGen'
    BY <1>g, <2>1, <2>2 DEF OldRefs
  <2> QED
    BY <1>g, <2>1, <2>2, <2>3, <2>4 DEF OldRefs
<1>2. ASSUME NEW p \in Handlers, HandlerStep(p)
      PROVE  OldRefs'
  <2>1. UNCHANGED <<nextGen, gen, timers, callbacks>>
    BY <1>2, HandlerEffect DEF core
  <2>2. \A q \in Handlers : exposure'[q].ref.gen <= nextGen
    <3>1. \/ exposure'[p] = exposure[p]
          \/ exposure'[p] = NoExposure
          \/ LET ref == hosts[req[p].host] IN
             stateMatches(ref) /\ exposure'[p] = [ref |-> ref, expiresAt |-> expiresAt[ref.id]]
      BY <1>2, HandlerEffect
    <3>2. req[p].host \in Hosts /\ NoExposure.ref.gen = 0
      BY Constants DEF TypeOK
    <3>3. exposure'[p].ref.gen <= nextGen
      BY <1>g, <1>m, <1>h, <3>1, <3>2 DEF OldRefs
    <3>4. \A q \in Handlers : q # p => exposure'[q] = exposure[q]
      BY <1>2, HandlerEffect
    <3> QED
      BY <3>3, <3>4 DEF OldRefs
  <2>3. \A q \in Callers : \A ref \in revoking'[q] : ref.gen <= nextGen
    <3>1. req[p].host \in Hosts /\ p \in Callers
      BY DEF TypeOK, Callers
    <3>2. /\ \A q \in Callers : q # p => revoking'[q] = revoking[q]
          /\ \/ revoking'[p] = revoking[p]
             \/ stateMatches(hosts[req[p].host]) /\ revoking'[p] = {hosts[req[p].host]}
      BY <1>2, HandlerEffect
    <3> QED
      BY <1>m, <1>h, <3>1, <3>2 DEF OldRefs
  <2>4. \A c \in Conns : conn'[c].exposure.ref.gen <= nextGen
    <3>1. CASE Resolve(p)
      <4>1. PICK c \in Conns :
              conn' = [conn EXCEPT ![c] = [state |-> "dialing", exposure |-> exposure[p],
                                           since |-> now]]
        BY <3>1 DEF Resolve
      <4> QED
        BY <4>1 DEF OldRefs, TypeOK
    <3>2. CASE ~Resolve(p)
      <4>1. UNCHANGED conn
        BY <1>2, <3>2 DEF HandlerStep, Request, ServeHTTP, Lookup, Reject, ConsumeCapability,
               IssueSession, Authenticate, Acquire, ProxyReturns
      <4> QED
        BY <4>1 DEF OldRefs
    <3> QED
      BY <3>1, <3>2
  <2>5. \A x \in exchanges' : x.ref.gen <= nextGen
    <3>1. CASE IssueSession(p)
      BY <3>1 DEF IssueSession, OldRefs
    <3>2. CASE ~IssueSession(p)
      <4>1. UNCHANGED exchanges
        BY <1>2, <3>2 DEF HandlerStep, Request, ServeHTTP, Lookup, Reject, ConsumeCapability,
               Resolve, Authenticate, Acquire, ProxyReturns, tokens
      <4> QED
        BY <4>1 DEF OldRefs
    <3> QED
      BY <3>1, <3>2
  <2> QED
    BY <2>1, <2>2, <2>3, <2>4, <2>5 DEF OldRefs
<1>3. ASSUME NEW p \in Handlers, RevokeReturns(p)
      PROVE  OldRefs'
  <2>1. /\ UNCHANGED <<nextGen, gen, revoking, callbacks, timers, conn, exchanges>>
        /\ exposure' = [exposure EXCEPT ![p] = NoExposure]
    BY <1>3, HandlerReturns DEF Return, core, tokens, revocation
  <2>2. NoExposure.ref.gen = 0
    BY Constants
  <2>3. \A q \in Handlers : exposure'[q].ref.gen <= nextGen
    BY <1>g, <2>1, <2>2 DEF OldRefs, TypeOK
  <2> QED
    BY <2>1, <2>3 DEF OldRefs
<1>4. ASSUME NEW p \in Callers \cup {Timer}, NEW ref \in Refs, revokeRef(p, ref),
             UNCHANGED <<nextGen, exchanges, exposure, conn>>,
             callbacks' \subseteq callbacks, \A q \in Callers : revoking'[q] \subseteq revoking[q]
      PROVE  OldRefs'
  <2>1. \A id \in IDs : gen'[id] = gen[id] \/ gen'[id] = 0
    BY <1>4, RevokeRefEffect
  <2>2. timers' \subseteq timers
    BY <1>4, RevokeRefEffect
  <2> QED
    BY <1>4, <1>g, <2>1, <2>2 DEF OldRefs
<1>5. CASE \/ \E p \in Callers : RevokeNext(p)
           \/ \E ref \in callbacks : TimerCallback(ref)
  <2>1. PICK p \in Callers \cup {Timer}, ref \in Refs :
             /\ revokeRef(p, ref)
             /\ UNCHANGED <<nextGen, exchanges, exposure, conn>>
             /\ \/ revoking' = [revoking EXCEPT ![p] = @ \ {ref}] /\ UNCHANGED callbacks
                \/ callbacks' = callbacks \ {ref} /\ UNCHANGED revoking
    BY <1>5, RevokeCalls
  <2>2. \A q \in Callers : revoking'[q] \subseteq revoking[q]
    BY <2>1 DEF TypeOK
  <2> QED
    BY <1>4, <2>1, <2>2
<1>6. ASSUME NEW c \in Conns, ConnStep(c)
      PROVE  OldRefs'
  BY <1>6, <1>g, ConnEffect, Constants DEF OldRefs, core, tokens, revocation, handler
<1>7. ASSUME NEW a \in Admins, Close(a) \/ \E id \in IDs : Revoke(a, id)
      PROVE  \A p \in Callers : \A ref \in revoking'[p] : ref.gen <= nextGen
  <2>1. PICK S : /\ revoking' = [revoking EXCEPT ![a] = S]
                 /\ \A ref \in S : ref.gen <= nextGen
    BY <1>7 DEF Close, Revoke, LiveRefs, OldRefs
  <2> QED
    BY <2>1 DEF OldRefs, TypeOK
<1>8. ASSUME \/ \E a \in Admins : Close(a) \/ \E id \in IDs : Revoke(a, id)
             \/ \E p \in Callers \ Handlers : RevokeReturns(p)
             \/ \E p \in Callers \cup {Timer}, c \in Conns : CloseConn(p, c)
             \/ \E t \in timers : TimerFires(t)
             \/ Tick
             \/ UNCHANGED vars
      PROVE  OldRefs'
  <2>1. /\ UNCHANGED <<nextGen, gen, exchanges, exposure>>
        /\ \A c \in Conns : conn'[c].exposure = conn[c].exposure
    BY <1>8, OtherSteps DEF tokens
  <2>2. \A p \in Callers : \A ref \in revoking'[p] : ref.gen <= nextGen
    <3>1. CASE UNCHANGED revoking
      BY <3>1 DEF OldRefs
    <3>2. CASE ~UNCHANGED revoking
      BY <1>7, <1>8, <3>2 DEF RevokeReturns, CloseConn, TimerFires, Tick, vars, revocation
    <3> QED
      BY <3>1, <3>2
  <2>3. /\ \A t \in timers' : t.ref.gen <= nextGen
        /\ \A ref \in callbacks' : ref.gen <= nextGen
    BY <1>8 DEF OldRefs, Close, Revoke, RevokeReturns, CloseConn, TimerFires, Tick, vars, revocation
  <2> QED
    BY <2>1, <2>2, <2>3 DEF OldRefs
<1> QED
  BY <1>1, <1>2, <1>3, <1>5, <1>6, <1>8, StepKinds
\* Host entries, capabilities and sessions go with their registration.
LEMMA AuthorityStep ==
    ASSUME TypeOK, OldRefs, AuthorityIsLive, ExposureCurrent, [Next]_vars
    PROVE  AuthorityIsLive'
<1>h. /\ \A h \in Hosts : hosts[h] \in Refs /\ hosts[h].id \in IDs
      /\ \A r \in capabilities \cup sessions : r.ref \in Refs /\ r.ref.id \in IDs
                                               /\ r.expiresAt \in Nat
  BY DEF TypeOK, Records, Refs
<1>1. ASSUME NEW id \in IDs, NEW h \in Hosts, NEW e \in 0 .. MaxTime, Register(id, h, e)
      PROVE  AuthorityIsLive'
  <2> DEFINE ref == [id |-> id, gen |-> nextGen + 1]
             cap == [cred |-> creds + 1, ref |-> ref, expiresAt |-> Earlier(now + BootstrapTTL, e)]
  <2>1. /\ gen[id] = 0
        /\ gen' = [gen EXCEPT ![id] = nextGen + 1]
        /\ hostOf' = [hostOf EXCEPT ![id] = h]
        /\ expiresAt' = [expiresAt EXCEPT ![id] = e]
        /\ hosts' = [hosts EXCEPT ![h] = ref]
        /\ capabilities' = capabilities \cup {cap}
        /\ UNCHANGED sessions
    BY <1>1 DEF Register, Admit
  <2>2. \A r \in Refs : stateMatches(r) => r.id # id /\ MatchesNext(r)
                        /\ hostOf'[r.id] = hostOf[r.id] /\ expiresAt'[r.id] = expiresAt[r.id]
    BY <2>1 DEF stateMatches, MatchesNext, Refs, TypeOK
  <2>3. MatchesNext(ref) /\ hostOf'[ref.id] = h /\ expiresAt'[ref.id] = e
    BY <2>1 DEF stateMatches, MatchesNext, TypeOK
  <2>4. cap.expiresAt <= e
    <3>1. now \in Nat /\ BootstrapTTL \in Nat /\ e \in Int
      BY RegistryAssumption DEF TypeOK
    <3> QED
      BY <3>1 DEF Earlier
  <2>5. \A i \in Hosts : hosts'[i].gen # 0 => MatchesNext(hosts'[i]) /\ hostOf'[hosts'[i].id] = i
    BY <1>h, <2>1, <2>2, <2>3 DEF AuthorityIsLive, TypeOK
  <2>6. \A r \in capabilities' \cup sessions' :
            MatchesNext(r.ref) /\ r.expiresAt <= expiresAt'[r.ref.id]
    <3>1. \A r \in capabilities \cup sessions :
              MatchesNext(r.ref) /\ r.expiresAt <= expiresAt'[r.ref.id]
      BY <1>h, <2>2 DEF AuthorityIsLive
    <3>2. MatchesNext(cap.ref) /\ cap.expiresAt <= expiresAt'[cap.ref.id]
      BY <2>3, <2>4
    <3> QED
      BY <2>1, <3>1, <3>2
  <2> QED
    BY <2>5, <2>6 DEF AuthorityIsLive, stateMatches, MatchesNext
<1>2. ASSUME NEW p \in Handlers, HandlerStep(p)
      PROVE  AuthorityIsLive'
  <2>1. UNCHANGED <<gen, hostOf, expiresAt, hosts>>
    BY <1>2, HandlerEffect DEF core
  <2>2. capabilities' \subseteq capabilities
    BY <1>2 DEF HandlerStep, Request, ServeHTTP, Lookup, Reject, ConsumeCapability, IssueSession,
           Resolve, Authenticate, Acquire, ProxyReturns, tokens, Stale
  <2>3. \A r \in sessions' : r \in sessions
          \/ /\ stateMatches(exposure[p].ref) /\ r.ref = exposure[p].ref
             /\ r.expiresAt <= exposure[p].expiresAt
    <3>1. CASE IssueSession(p)
      <4>1. ASSUME NEW t \in Sampled(p)
            PROVE  Earlier(t + SessionTTL, exposure[p].expiresAt) <= exposure[p].expiresAt
        BY RegistryAssumption DEF Earlier, Sampled, TypeOK
      <4> QED
        BY <3>1, <4>1 DEF IssueSession
    <3>2. CASE ~IssueSession(p)
      <4>1. sessions' \subseteq sessions
        BY <1>2, <3>2 DEF HandlerStep, Request, ServeHTTP, Lookup, Reject, ConsumeCapability,
               Resolve, Authenticate, Acquire, ProxyReturns, tokens, Stale
      <4> QED
        BY <4>1
    <3> QED
      BY <3>1, <3>2
  <2>4. \A r \in sessions' : stateMatches(r.ref) /\ r.expiresAt <= expiresAt[r.ref.id]
    BY <2>3 DEF AuthorityIsLive, ExposureCurrent
  <2> QED
    BY <2>1, <2>2, <2>4 DEF AuthorityIsLive, stateMatches, MatchesNext
<1>3. CASE \/ \E p \in Callers : RevokeNext(p)
           \/ \E ref \in callbacks : TimerCallback(ref)
  <2>1. PICK p \in Callers \cup {Timer}, ref \in Refs : revokeRef(p, ref)
    BY <1>3, RevokeCalls
  <2>2. \A r \in Refs : /\ MatchesNext(r) <=> stateMatches(r) /\ r # ref
                        /\ MatchesNext(r) => hostOf'[r.id] = hostOf[r.id]
                                               /\ expiresAt'[r.id] = expiresAt[r.id]
    <3>1. \A r \in Refs : MatchesNext(r) => r.id \in IDs /\ gen'[r.id] # 0
      BY DEF MatchesNext, Refs
    <3> QED
      BY <2>1, <3>1, RevokeRefEffect
  <2>3. /\ \A h \in Hosts :
             /\ hosts'[h].gen # 0 => hosts'[h] = hosts[h]
             /\ hosts[h] = ref /\ stateMatches(ref) /\ hostOf[ref.id] = h => hosts'[h].gen = 0
        /\ capabilities' \subseteq capabilities /\ sessions' \subseteq sessions
        /\ stateMatches(ref) => \A r \in capabilities' \cup sessions' : r.ref # ref
    BY <2>1, RevokeRefEffect
  <2>4. \A h \in Hosts : hosts'[h].gen # 0 => MatchesNext(hosts'[h]) /\ hostOf'[hosts'[h].id] = h
    BY <1>h, <2>2, <2>3 DEF AuthorityIsLive
  <2>5. \A r \in capabilities' \cup sessions' :
            MatchesNext(r.ref) /\ r.expiresAt <= expiresAt'[r.ref.id]
    BY <1>h, <2>2, <2>3 DEF AuthorityIsLive
  <2> QED
    BY <2>4, <2>5 DEF AuthorityIsLive, stateMatches, MatchesNext
<1>4. ASSUME UNCHANGED <<gen, hostOf, expiresAt, hosts, capabilities, sessions>>
      PROVE  AuthorityIsLive'
  BY <1>4 DEF AuthorityIsLive, stateMatches, MatchesNext
<1>5. ASSUME NEW p \in Handlers, RevokeReturns(p)
      PROVE  AuthorityIsLive'
  BY <1>4, <1>5, HandlerReturns DEF core, tokens
<1>6. ASSUME NEW c \in Conns, ConnStep(c)
      PROVE  AuthorityIsLive'
  BY <1>4, <1>6, ConnEffect DEF core, tokens
<1>7. ASSUME \/ \E a \in Admins : Close(a) \/ \E id \in IDs : Revoke(a, id)
             \/ \E p \in Callers \ Handlers : RevokeReturns(p)
             \/ \E p \in Callers \cup {Timer}, c \in Conns : CloseConn(p, c)
             \/ \E t \in timers : TimerFires(t)
             \/ Tick
             \/ UNCHANGED vars
      PROVE  AuthorityIsLive'
  <2>1. UNCHANGED <<gen, hostOf, expiresAt, hosts, tokens>>
    BY <1>7, OtherSteps
  <2> QED
    BY <1>4, <2>1 DEF tokens
<1> QED
  BY <1>1, <1>2, <1>3, <1>5, <1>6, <1>7, StepKinds

\* What a request has read of a registration in force stays true of it.
LEMMA ExposureStep ==
    ASSUME TypeOK, OldRefs, AuthorityIsLive, ExposureCurrent, [Next]_vars
    PROVE  ExposureCurrent'
<1>e. \A p \in Handlers : exposure[p].ref \in Refs /\ req[p].host \in Hosts
  BY DEF TypeOK
<1>1. ASSUME NEW id \in IDs, NEW h \in Hosts, NEW e \in 0 .. MaxTime, Register(id, h, e)
      PROVE  ExposureCurrent'
  <2>1. /\ gen' = [gen EXCEPT ![id] = nextGen + 1]
        /\ hostOf' = [hostOf EXCEPT ![id] = h]
        /\ expiresAt' = [expiresAt EXCEPT ![id] = e]
        /\ UNCHANGED <<pc, req, exposure>>
    BY <1>1 DEF Register, Admit, handler
  <2>2. \A r \in Refs : r.gen <= nextGen /\ MatchesNext(r) =>
            /\ stateMatches(r)
            /\ hostOf'[r.id] = hostOf[r.id] /\ expiresAt'[r.id] = expiresAt[r.id]
    BY <2>1 DEF stateMatches, MatchesNext, Refs, TypeOK
  <2> QED
    BY <1>e, <2>1, <2>2 DEF ExposureCurrent, OldRefs, stateMatches, MatchesNext
<1>2. ASSUME NEW p \in Handlers, HandlerStep(p)
      PROVE  ExposureCurrent'
  <2>1. UNCHANGED <<gen, hostOf, expiresAt>>
    BY <1>2, HandlerEffect DEF core
  <2>2. \A q \in Handlers : q # p =>
            req'[q] = req[q] /\ exposure'[q] = exposure[q] /\ pc'[q] = pc[q]
    BY <1>2, HandlerEffect
  <2>3. /\ stateMatches(exposure'[p].ref) =>
            /\ exposure'[p].expiresAt = expiresAt[exposure'[p].ref.id]
            /\ hostOf[exposure'[p].ref.id] = req'[p].host
        /\ pc'[p] = "idle" => exposure'[p].ref.gen = 0
    <3>1. CASE exposure'[p] = exposure[p] /\ pc'[p] # "idle" /\ (req'[p] = req[p] \/ pc[p] = "idle")
      BY <3>1 DEF ExposureCurrent, stateMatches
    <3>2. CASE exposure'[p] = NoExposure /\ pc'[p] = "idle"
      BY <3>2, Constants DEF stateMatches
    <3>3. CASE LET ref == hosts[req[p].host] IN
                 /\ stateMatches(ref) /\ req'[p] = req[p] /\ pc'[p] # "idle"
                 /\ exposure'[p] = [ref |-> ref, expiresAt |-> expiresAt[ref.id]]
      BY <1>e, <3>3 DEF AuthorityIsLive, stateMatches
    <3> QED
      BY <1>2, <3>1, <3>2, <3>3, HandlerEffect
  <2> QED
    BY <2>1, <2>2, <2>3 DEF ExposureCurrent, stateMatches, MatchesNext
<1>3. ASSUME NEW p \in Handlers, RevokeReturns(p)
      PROVE  ExposureCurrent'
  <2>1. /\ UNCHANGED <<gen, hostOf, expiresAt>>
        /\ exposure' = [exposure EXCEPT ![p] = NoExposure]
        /\ req' = [req EXCEPT ![p] = NoReq]
        /\ pc' = [pc EXCEPT ![p] = "idle"]
    BY <1>3, HandlerReturns DEF Return, core
  <2>2. NoExposure.ref.gen = 0
    BY Constants
  <2>3. \A q \in Handlers : q # p => req'[q] = req[q] /\ exposure'[q] = exposure[q] /\
        pc'[q] = pc[q]
    BY <2>1 DEF TypeOK, Callers
  <2>4. exposure'[p] = NoExposure
    BY <2>1 DEF TypeOK
  <2> QED
    BY <2>1, <2>2, <2>3, <2>4 DEF ExposureCurrent, stateMatches, MatchesNext
<1>4. CASE \/ \E p \in Callers : RevokeNext(p)
           \/ \E ref \in callbacks : TimerCallback(ref)
  <2>1. PICK p \in Callers \cup {Timer}, ref \in Refs :
            revokeRef(p, ref) /\ UNCHANGED <<pc, req, exposure>>
    BY <1>4, RevokeCalls
  <2>2. \A r \in Refs : MatchesNext(r) =>
            stateMatches(r) /\ hostOf'[r.id] = hostOf[r.id] /\ expiresAt'[r.id] = expiresAt[r.id]
    <3>1. \A r \in Refs : MatchesNext(r) => r.id \in IDs /\ gen'[r.id] # 0
      BY DEF MatchesNext, Refs
    <3> QED
      BY <2>1, <3>1, RevokeRefEffect
  <2> QED
    BY <1>e, <2>1, <2>2 DEF ExposureCurrent, stateMatches, MatchesNext
<1>5. ASSUME UNCHANGED <<gen, hostOf, expiresAt, req, exposure>>, \A p \in Handlers : pc'[p] = pc[p]
      PROVE  ExposureCurrent'
  BY <1>5 DEF ExposureCurrent, stateMatches, MatchesNext
<1>6. ASSUME NEW c \in Conns, ConnStep(c)
      PROVE  ExposureCurrent'
  BY <1>5, <1>6, ConnEffect DEF core, handler
<1>7. ASSUME \/ \E a \in Admins : Close(a) \/ \E id \in IDs : Revoke(a, id)
             \/ \E p \in Callers \ Handlers : RevokeReturns(p)
             \/ \E p \in Callers \cup {Timer}, c \in Conns : CloseConn(p, c)
             \/ \E t \in timers : TimerFires(t)
             \/ Tick
             \/ UNCHANGED vars
      PROVE  ExposureCurrent'
  BY <1>5, <1>7, OtherSteps
<1> QED
  BY <1>1, <1>2, <1>3, <1>4, <1>6, <1>7, StepKinds
----------------------------------------------------------------------------
(* Sessions and the requests that carry them.                              *)

\* What a request may change of the records.
LEMMA HandlerRecords ==
    ASSUME NEW p \in Handlers, HandlerStep(p)
    PROVE  \/ IssueSession(p)
           \/ /\ UNCHANGED <<creds, exchanges>>
              /\ capabilities' \subseteq capabilities /\ sessions' \subseteq sessions
  BY DEF HandlerStep, Request, ServeHTTP, Lookup, Reject, ConsumeCapability, Resolve,
         Authenticate, Acquire, ProxyReturns, tokens, Stale

\* A session is issued for a registration in force, or nothing happens.
LEMMA IssueEffect ==
    ASSUME NEW p \in Handlers, IssueSession(p)
    PROVE  \/ UNCHANGED <<creds, sessions, exchanges>>
           \/ /\ stateMatches(exposure[p].ref) /\ pc[p] = "issue"
              /\ creds' = creds + 1
              /\ exchanges' = exchanges \cup
                    {[capability |-> req[p].cred, session |-> creds + 1,
                      host |-> req[p].host, ref |-> exposure[p].ref]}
              /\ \A r \in sessions' : r \in sessions
                                       \/ (r.cred = creds + 1 /\ r.ref = exposure[p].ref)
<1>1. ASSUME NEW t, sessions' = sessions \cup
                    {[cred |-> creds + 1, ref |-> exposure[p].ref,
                      expiresAt |-> Earlier(t + SessionTTL, exposure[p].expiresAt)]}
      PROVE  \A r \in sessions' : r \in sessions
                                  \/ (r.cred = creds + 1 /\ r.ref = exposure[p].ref)
  BY <1>1
<1>2. CASE ~UNCHANGED <<creds, sessions, exchanges>>
  <2>1. PICK t \in Sampled(p) : sessions' = sessions \cup
                    {[cred |-> creds + 1, ref |-> exposure[p].ref,
                      expiresAt |-> Earlier(t + SessionTTL, exposure[p].expiresAt)]}
    BY <1>2 DEF IssueSession
  <2>2. \A r \in sessions' : r \in sessions \/ (r.cred = creds + 1 /\ r.ref = exposure[p].ref)
    BY <1>1, <2>1
  <2> QED
    BY <1>2, <2>2 DEF IssueSession
<1> QED
  BY <1>2

\* No step takes an exchange out of the history.
LEMMA ExchangesGrow ==
    ASSUME TypeOK, [Next]_vars
    PROVE  exchanges \subseteq exchanges'
<1>1. ASSUME NEW p \in Handlers, HandlerStep(p)
      PROVE  exchanges \subseteq exchanges'
  BY <1>1, HandlerRecords DEF IssueSession
<1>2. CASE \/ \E p \in Callers : RevokeNext(p)
           \/ \E ref \in callbacks : TimerCallback(ref)
  BY <1>2 DEF RevokeNext, TimerCallback
<1>3. ASSUME NEW c \in Conns, ConnStep(c)
      PROVE  exchanges \subseteq exchanges'
  BY <1>3, ConnEffect DEF tokens
<1> QED
  BY <1>1, <1>2, <1>3, StepKinds, OtherSteps, HandlerReturns DEF Register, Admit, tokens

\* A session belongs to an exchange, and that to the host of its registration.
LEMMA SessionsIssuedStep ==
    ASSUME TypeOK, OldRefs, ExposureCurrent, SessionsIssued, [Next]_vars
    PROVE  SessionsIssued'
<1>x. \A x \in exchanges : x.ref \in Refs
  BY DEF TypeOK
<1>1. ASSUME NEW id \in IDs, NEW h \in Hosts, NEW e \in 0 .. MaxTime, Register(id, h, e)
      PROVE  SessionsIssued'
  <2>1. /\ gen' = [gen EXCEPT ![id] = nextGen + 1]
        /\ hostOf' = [hostOf EXCEPT ![id] = h]
        /\ UNCHANGED <<sessions, exchanges>>
    BY <1>1 DEF Register, Admit
  <2>2. \A r \in Refs : r.gen <= nextGen /\ MatchesNext(r) =>
            stateMatches(r) /\ hostOf'[r.id] = hostOf[r.id]
    BY <2>1 DEF stateMatches, MatchesNext, Refs, TypeOK
  <2> QED
    BY <1>x, <2>1, <2>2 DEF SessionsIssued, OldRefs, stateMatches, MatchesNext
<1>2. ASSUME NEW p \in Handlers, HandlerStep(p)
      PROVE  SessionsIssued'
  <2>1. UNCHANGED <<gen, hostOf>>
    BY <1>2, HandlerEffect DEF core
  <2>2. CASE UNCHANGED exchanges /\ sessions' \subseteq sessions
    BY <2>1, <2>2 DEF SessionsIssued, stateMatches
  <2>3. CASE IssueSession(p) /\ ~UNCHANGED <<creds, sessions, exchanges>>
    <3> DEFINE x == [capability |-> req[p].cred, session |-> creds + 1,
                     host |-> req[p].host, ref |-> exposure[p].ref]
    <3>1. stateMatches(exposure[p].ref) /\ exchanges' = exchanges \cup {x}
      BY <2>3, IssueEffect
    <3>2. \A r \in sessions' : r \in sessions \/ (r.cred = creds + 1 /\ r.ref = exposure[p].ref)
      BY <2>3, IssueEffect
    <3>3. \A r \in sessions' : \E y \in exchanges' : y.session = r.cred /\ y.ref = r.ref
      <4>1. \A r \in sessions : \E y \in exchanges' : y.session = r.cred /\ y.ref = r.ref
        BY <3>1 DEF SessionsIssued
      <4>2. x \in exchanges' /\ x.session = creds + 1 /\ x.ref = exposure[p].ref
        BY <3>1
      <4> HIDE DEF x
      <4> QED
        BY <3>2, <4>1, <4>2
    <3>4. \A y \in exchanges' : stateMatches(y.ref) => hostOf[y.ref.id] = y.host
      BY <3>1 DEF SessionsIssued, ExposureCurrent
    <3> QED
      BY <2>1, <3>3, <3>4 DEF SessionsIssued, stateMatches
  <2> QED
    BY <1>2, <2>2, <2>3, HandlerRecords
<1>3. CASE \/ \E p \in Callers : RevokeNext(p)
           \/ \E ref \in callbacks : TimerCallback(ref)
  <2>1. PICK p \in Callers \cup {Timer}, ref \in Refs :
            revokeRef(p, ref) /\ UNCHANGED exchanges
    BY <1>3, RevokeCalls
  <2>2. sessions' \subseteq sessions
    BY <2>1, RevokeRefEffect
  <2>3. \A r \in Refs : MatchesNext(r) => stateMatches(r) /\ hostOf'[r.id] = hostOf[r.id]
    <3>1. \A r \in Refs : MatchesNext(r) => r.id \in IDs /\ gen'[r.id] # 0
      BY DEF MatchesNext, Refs
    <3> QED
      BY <2>1, <3>1, RevokeRefEffect
  <2> QED
    BY <1>x, <2>1, <2>2, <2>3 DEF SessionsIssued, stateMatches, MatchesNext
<1>4. ASSUME UNCHANGED <<gen, hostOf, sessions, exchanges>>
      PROVE  SessionsIssued'
  BY <1>4 DEF SessionsIssued, stateMatches
<1>5. ASSUME NEW p \in Handlers, RevokeReturns(p)
      PROVE  SessionsIssued'
  BY <1>4, <1>5, HandlerReturns DEF core, tokens
<1>6. ASSUME NEW c \in Conns, ConnStep(c)
      PROVE  SessionsIssued'
  BY <1>4, <1>6, ConnEffect DEF core, tokens
<1>7. ASSUME \/ \E a \in Admins : Close(a) \/ \E id \in IDs : Revoke(a, id)
             \/ \E p \in Callers \ Handlers : RevokeReturns(p)
             \/ \E p \in Callers \cup {Timer}, c \in Conns : CloseConn(p, c)
             \/ \E t \in timers : TimerFires(t)
             \/ Tick
             \/ UNCHANGED vars
      PROVE  SessionsIssued'
  <2>1. UNCHANGED <<gen, hostOf, tokens>>
    BY <1>7, OtherSteps
  <2> QED
    BY <1>4, <2>1 DEF tokens
<1> QED
  BY <1>1, <1>2, <1>3, <1>5, <1>6, <1>7, StepKinds

\* A request keeps the session it was authenticated with.
LEMMA SessionsStayBoundStep ==
    ASSUME TypeOK, ExposureCurrent, SessionsIssued, SessionsStayBound, [Next]_vars
    PROVE  SessionsStayBound'
<1>x. exchanges \subseteq exchanges'
  BY ExchangesGrow
<1>1. ASSUME NEW p \in Handlers, UNCHANGED <<pc[p], req[p], exposure[p]>>,
             pc[p] \in {"acquire", "resolve", "proxy"}
      PROVE  \E x \in exchanges' : x.session = req'[p].cred /\ x.host = req'[p].host
                                   /\ x.ref = exposure'[p].ref
  BY <1>1, <1>x DEF SessionsStayBound
<1>2. ASSUME NEW p \in Handlers, HandlerStep(p)
      PROVE  SessionsStayBound'
  <2>1. CASE pc'[p] \notin {"acquire", "resolve", "proxy"}
    <3>1. \A q \in Handlers : q # p => UNCHANGED <<pc[q], req[q], exposure[q]>>
      BY <1>2, HandlerEffect
    <3> QED
      BY <1>1, <2>1, <3>1 DEF SessionsStayBound
  <2>2. CASE pc'[p] \in {"acquire", "resolve", "proxy"}
    <3>1. \/ Authenticate(p) /\ \E t \in Sampled(p) : Valid(sessions, p, t)
          \/ pc[p] \in {"acquire", "resolve", "proxy"}
      <4>1. p \in Callers
        BY DEF Callers
      <4> QED
        BY <1>2, <2>2, <4>1 DEF HandlerStep, Request, ServeHTTP, Lookup, LookupHost, Reject,
               ConsumeCapability, IssueSession, Authenticate, Acquire, Resolve, ProxyReturns,
               Return, Goto, TypeOK
    <3>2. UNCHANGED <<req, exposure>>
      <4>1. p \in Callers
        BY DEF Callers
      <4> QED
        BY <1>2, <2>2, <3>1, <4>1 DEF HandlerStep, Request, ServeHTTP, Lookup, Reject,
               ConsumeCapability, IssueSession, Authenticate, Acquire, Resolve, ProxyReturns,
               Return, Goto, TypeOK
    <3>3. \E x \in exchanges : x.session = req[p].cred /\ x.host = req[p].host
                               /\ x.ref = exposure[p].ref
      <4>1. CASE pc[p] \in {"acquire", "resolve", "proxy"}
        BY <4>1 DEF SessionsStayBound
      <4>2. CASE \E t \in Sampled(p) : Valid(sessions, p, t)
        <5>1. PICK r \in sessions : /\ r.cred = req[p].cred /\ r.ref = exposure[p].ref
                                    /\ stateMatches(r.ref)
          BY <4>2 DEF Valid
        <5>2. PICK x \in exchanges : x.session = r.cred /\ x.ref = r.ref
          BY DEF SessionsIssued
        <5>3. x.host = req[p].host
          BY <5>1, <5>2 DEF SessionsIssued, ExposureCurrent
        <5> QED
          BY <5>1, <5>2, <5>3
      <4> QED
        BY <3>1, <4>1, <4>2
    <3>4. \A q \in Handlers : q # p => UNCHANGED <<pc[q], req[q], exposure[q]>>
      BY <1>2, HandlerEffect
    <3> QED
      BY <1>1, <1>x, <3>2, <3>3, <3>4 DEF SessionsStayBound
  <2> QED
    BY <2>1, <2>2
<1>3. ASSUME NEW p \in Handlers, RevokeReturns(p)
      PROVE  SessionsStayBound'
  <2>1. /\ exposure' = [exposure EXCEPT ![p] = NoExposure]
        /\ req' = [req EXCEPT ![p] = NoReq]
        /\ pc' = [pc EXCEPT ![p] = "idle"]
    BY <1>3, HandlerReturns DEF Return
  <2>2. \A q \in Handlers : q # p => UNCHANGED <<pc[q], req[q], exposure[q]>>
    BY <2>1 DEF TypeOK, Callers
  <2>3. pc'[p] = "idle"
    BY <2>1 DEF TypeOK, Callers
  <2> QED
    BY <1>1, <2>2, <2>3 DEF SessionsStayBound
<1>4. ASSUME \A q \in Handlers : UNCHANGED <<pc[q], req[q], exposure[q]>>
      PROVE  SessionsStayBound'
  BY <1>1, <1>4 DEF SessionsStayBound
<1>5. CASE \/ \E p \in Callers : RevokeNext(p)
           \/ \E ref \in callbacks : TimerCallback(ref)
  BY <1>4, <1>5 DEF RevokeNext, TimerCallback, handler
<1>6. ASSUME NEW c \in Conns, ConnStep(c)
      PROVE  SessionsStayBound'
  BY <1>4, <1>6, ConnEffect DEF handler
<1>7. ASSUME \/ \E a \in Admins : Close(a) \/ \E id \in IDs : Revoke(a, id)
             \/ \E p \in Callers \ Handlers : RevokeReturns(p)
             \/ \E p \in Callers \cup {Timer}, c \in Conns : CloseConn(p, c)
             \/ \E t \in timers : TimerFires(t)
             \/ Tick
             \/ UNCHANGED vars
      PROVE  SessionsStayBound'
  BY <1>4, <1>7, OtherSteps
<1>8. CASE \E id \in IDs, h \in Hosts, e \in 0 .. MaxTime : Register(id, h, e)
  BY <1>4, <1>8 DEF Register, Admit, handler
<1> QED
  BY <1>2, <1>3, <1>5, <1>6, <1>7, <1>8, StepKinds
----------------------------------------------------------------------------
(* Bootstrap capabilities.                                                 *)

CapabilityInv == OldCreds /\ Consumed /\ SingleUse

\* The steps of a request other than the two sections of Exchange.
LEMMA HandlerCreds ==
    ASSUME TypeOK, OldCreds, NEW p \in Handlers, HandlerStep(p),
           ~IssueSession(p), ~ConsumeCapability(p)
    PROVE  /\ UNCHANGED <<creds, exchanges, capabilities>>
           /\ pc'[p] # "issue" /\ req'[p].cred <= creds
<1>p. p \in Callers
  BY DEF Callers
<1>c. creds \in Nat /\ req[p].cred <= creds /\ NoReq.cred = 0
  BY Constants DEF TypeOK, OldCreds
<1>1. ASSUME Request(p) PROVE pc'[p] # "issue" /\ req'[p].cred <= creds
  <2>1. PICK h \in Hosts, k \in Kinds, c \in 0 .. creds :
          req' = [req EXCEPT ![p] = [host |-> h, kind |-> k, cred |-> c]]
    BY <1>1 DEF Request
  <2>2. req'[p].cred = c
    BY <2>1 DEF TypeOK
  <2> QED
    BY <1>1, <1>p, <1>c, <2>2 DEF Request, TypeOK
<1>r. ASSUME Return(p) PROVE pc'[p] # "issue" /\ req'[p].cred <= creds
  BY <1>r, <1>p, <1>c DEF Return, TypeOK
<1>g. ASSUME NEW l \in HandlerPCs \ {"issue"}, Goto(p, l) \/ LookupHost(p, l)
      PROVE  pc'[p] # "issue" /\ req'[p].cred <= creds
  BY <1>g, <1>p, <1>c, <1>r DEF Goto, LookupHost, HandlerPCs, TypeOK
<1>2. ASSUME ~Request(p) PROVE pc'[p] # "issue" /\ req'[p].cred <= creds
  <2>1. CASE ServeHTTP(p) \/ Lookup(p)
    BY <2>1, <1>p, <1>g, <1>r DEF ServeHTTP, Lookup, HandlerPCs
  <2>2. CASE Reject(p) \/ ProxyReturns(p)
    BY <2>2, <1>r DEF Reject, ProxyReturns
  <2>3. CASE Authenticate(p) \/ Acquire(p) \/ Resolve(p)
    BY <2>3, <1>g, <1>r DEF Authenticate, Acquire, Resolve, HandlerPCs
  <2> QED
    BY <1>2, <2>1, <2>2, <2>3 DEF HandlerStep
<1>3. UNCHANGED <<creds, exchanges, capabilities>>
  BY DEF HandlerStep, Request, ServeHTTP, Lookup, Reject, Authenticate, Acquire, Resolve,
         ProxyReturns, tokens
<1> QED
  BY <1>1, <1>2, <1>3

\* Whoever does not issue, and holds no newer credential, disturbs nothing.
LEMMA CapabilityFrame ==
    ASSUME TypeOK, CapabilityInv, UNCHANGED <<creds, exchanges>>,
           capabilities' \subseteq capabilities,
           \A q \in Handlers : \/ pc'[q] = pc[q] /\ req'[q] = req[q]
                               \/ pc'[q] # "issue" /\ req'[q].cred <= creds
    PROVE  CapabilityInv'
<1>1. OldCreds'
  BY DEF CapabilityInv, OldCreds
<1>2. \A q \in Handlers : pc'[q] = "issue" => pc[q] = "issue" /\ req'[q] = req[q]
  OBVIOUS
<1>3. Consumed'
  BY <1>2 DEF CapabilityInv, Consumed
<1>4. SingleUse'
  BY DEF CapabilityInv, SingleUse
<1> QED
  BY <1>1, <1>3, <1>4 DEF CapabilityInv

LEMMA CapabilityStep ==
    ASSUME TypeOK, CapabilityInv, [Next]_vars
    PROVE  CapabilityInv'
<1>c. creds \in Nat
  BY DEF TypeOK
<1>r. \A q \in Handlers : req[q].cred \in Nat
  BY DEF TypeOK
<1>1. ASSUME NEW id \in IDs, NEW h \in Hosts, NEW e \in 0 .. MaxTime, Register(id, h, e)
      PROVE  CapabilityInv'
  <2>1. PICK cap : cap.cred = creds + 1 /\ capabilities' = capabilities \cup {cap}
    <3> DEFINE new == [cred |-> creds + 1, ref |-> [id |-> id, gen |-> nextGen + 1],
                       expiresAt |-> Earlier(now + BootstrapTTL, e)]
    <3>1. capabilities' = capabilities \cup {new}
      BY <1>1 DEF Register, Admit
    <3>2. new.cred = creds + 1
      OBVIOUS
    <3> HIDE DEF new
    <3> QED
      BY <3>1, <3>2
  <2>2. creds' = creds + 1 /\ UNCHANGED <<pc, req, exchanges>>
    BY <1>1 DEF Register, Admit, handler
  <2>3. /\ \A x \in exchanges : x.capability \in Nat
        /\ \A r \in capabilities : r.cred \in Nat
    <3>1. \A r \in capabilities : r \in Records
      BY DEF TypeOK
    <3> QED
      BY <3>1 DEF TypeOK, Records
  <2>4. OldCreds'
    BY <1>c, <1>r, <2>1, <2>2, <2>3 DEF CapabilityInv, OldCreds
  <2>5. Consumed'
    BY <1>c, <1>r, <2>1, <2>2, <2>3 DEF CapabilityInv, OldCreds, Consumed
  <2> QED
    BY <2>2, <2>4, <2>5 DEF CapabilityInv, SingleUse
<1>2. ASSUME NEW p \in Handlers, HandlerStep(p)
      PROVE  CapabilityInv'
  <2>p. p \in Callers
    BY DEF Callers
  <2>o. \A q \in Handlers : q # p => pc'[q] = pc[q] /\ req'[q] = req[q]
    BY <1>2, HandlerEffect
  <2>1. CASE ConsumeCapability(p)
    <3>1. CASE /\ capabilities' = {r \in capabilities : r.cred # req[p].cred}
               /\ \E r \in capabilities : r.cred = req[p].cred
               /\ Goto(p, "issue")
      <4>1. /\ UNCHANGED <<creds, exchanges>> /\ UNCHANGED req
            /\ pc' = [pc EXCEPT ![p] = "issue"]
        BY <2>1, <3>1 DEF ConsumeCapability, Goto
      <4>2. OldCreds' /\ SingleUse'
        BY <3>1, <4>1 DEF CapabilityInv, OldCreds, SingleUse
      <4>3. \A x \in exchanges : x.capability # req[p].cred
        BY <3>1 DEF CapabilityInv, Consumed
      <4>4. \A q \in Handlers : q # p /\ pc[q] = "issue" => req[q].cred # req[p].cred
        BY <3>1 DEF CapabilityInv, Consumed
      <4>5. Consumed'
        BY <2>p, <3>1, <4>1, <4>3, <4>4 DEF CapabilityInv, Consumed, TypeOK
      <4> QED
        BY <4>2, <4>5 DEF CapabilityInv
    <3>2. CASE capabilities' \subseteq capabilities /\ Return(p)
      <4>1. UNCHANGED <<creds, exchanges>>
        BY <2>1 DEF ConsumeCapability
      <4>2. pc'[p] = "idle" /\ req'[p].cred <= creds
        BY <1>c, <2>p, <3>2, Constants DEF Return, TypeOK
      <4> QED
        BY <2>o, <3>2, <4>1, <4>2, CapabilityFrame
    <3> QED
      BY <2>1, <3>1, <3>2 DEF ConsumeCapability, Valid
  <2>2. CASE IssueSession(p)
    <3>1. /\ UNCHANGED capabilities
          /\ pc' = [pc EXCEPT ![p] = "idle"]
          /\ req' = [req EXCEPT ![p] = NoReq]
      BY <2>2 DEF IssueSession, Return
    <3>2. pc'[p] = "idle" /\ req'[p].cred = 0
      BY <2>p, <3>1, Constants DEF TypeOK
    <3>3. CASE UNCHANGED <<creds, sessions, exchanges>>
      BY <1>c, <2>o, <3>1, <3>2, <3>3, CapabilityFrame
    <3>4. CASE /\ pc[p] = "issue"
               /\ creds' = creds + 1
               /\ exchanges' = exchanges \cup
                    {[capability |-> req[p].cred, session |-> creds + 1,
                      host |-> req[p].host, ref |-> exposure[p].ref]}
      <4>1. PICK x : x.capability = req[p].cred /\ exchanges' = exchanges \cup {x}
        BY <3>4
      <4>2. OldCreds'
        <5>1. /\ \A y \in exchanges : y.capability \in Nat
              /\ \A r \in capabilities : r.cred \in Nat
          <6>1. \A r \in capabilities : r \in Records
            BY DEF TypeOK
          <6> QED
            BY <6>1 DEF TypeOK, Records
        <5> QED
          BY <1>c, <1>r, <2>o, <3>1, <3>2, <3>4, <4>1, <5>1 DEF CapabilityInv, OldCreds
      <4>3. Consumed'
        BY <2>o, <3>1, <3>2, <3>4, <4>1 DEF CapabilityInv, Consumed
      <4>4. SingleUse'
        BY <3>4, <4>1 DEF CapabilityInv, Consumed, SingleUse
      <4> QED
        BY <4>2, <4>3, <4>4 DEF CapabilityInv
    <3> QED
      BY <2>2, <3>3, <3>4, IssueEffect
  <2>3. CASE ~IssueSession(p) /\ ~ConsumeCapability(p)
    BY <1>2, <2>o, <2>3, HandlerCreds, CapabilityFrame DEF CapabilityInv
  <2> QED
    BY <2>1, <2>2, <2>3
<1>3. ASSUME NEW p \in Handlers, RevokeReturns(p)
      PROVE  CapabilityInv'
  <2>1. /\ UNCHANGED <<creds, exchanges, capabilities>>
        /\ pc' = [pc EXCEPT ![p] = "idle"]
        /\ req' = [req EXCEPT ![p] = NoReq]
    BY <1>3, HandlerReturns DEF Return, tokens
  <2>2. \A q \in Handlers : \/ pc'[q] = pc[q] /\ req'[q] = req[q]
                            \/ pc'[q] # "issue" /\ req'[q].cred <= creds
    BY <1>c, <2>1, Constants DEF TypeOK, Callers
  <2> QED
    BY <2>1, <2>2, CapabilityFrame
<1>4. CASE \/ \E p \in Callers : RevokeNext(p)
           \/ \E ref \in callbacks : TimerCallback(ref)
  <2>1. PICK p \in Callers \cup {Timer}, ref \in Refs :
            revokeRef(p, ref) /\ UNCHANGED <<creds, exchanges, pc, req>>
    BY <1>4, RevokeCalls
  <2>2. capabilities' \subseteq capabilities
    BY <2>1, RevokeRefEffect
  <2> QED
    BY <2>1, <2>2, CapabilityFrame
<1>5. ASSUME NEW c \in Conns, ConnStep(c)
      PROVE  CapabilityInv'
  BY <1>5, ConnEffect, CapabilityFrame DEF tokens, handler
<1>6. ASSUME \/ \E a \in Admins : Close(a) \/ \E id \in IDs : Revoke(a, id)
             \/ \E p \in Callers \ Handlers : RevokeReturns(p)
             \/ \E p \in Callers \cup {Timer}, c \in Conns : CloseConn(p, c)
             \/ \E t \in timers : TimerFires(t)
             \/ Tick
             \/ UNCHANGED vars
      PROVE  CapabilityInv'
  BY <1>6, OtherSteps, CapabilityFrame DEF tokens
<1> QED
  BY <1>1, <1>2, <1>3, <1>4, <1>5, <1>6, StepKinds
----------------------------------------------------------------------------
(* How registrations end.                                                  *)

\* Requests, timers and their callbacks go only after registrations that have
\* expired.
LEMMA RevokesExpiredStep ==
    ASSUME TypeOK, OldRefs, RevokesExpired, [Next]_vars
    PROVE  RevokesExpired'
<1>r. /\ \A p \in Handlers : \A ref \in revoking[p] : ref \in Refs
      /\ \A ref \in callbacks : ref \in Refs
      /\ \A t \in timers : t.ref \in Refs
  BY DEF TypeOK, Callers
<1>f. ASSUME \A r \in Refs : r.gen <= nextGen /\ MatchesNext(r) =>
                 stateMatches(r) /\ expiresAt'[r.id] = expiresAt[r.id],
             now <= now',
             \A p \in Handlers : revoking'[p] \subseteq revoking[p],
             callbacks' \subseteq callbacks, timers' \subseteq timers
      PROVE  RevokesExpired'
  <2>1. \A r \in Refs : r.gen <= nextGen /\ MatchesNext(r) =>
            (expiresAt[r.id] <= now => expiresAt'[r.id] <= now')
    <3>1. now \in Nat /\ now' \in Nat /\ \A r \in Refs : expiresAt[r.id] \in Nat
      BY NextTypes DEF TypeOK, Refs
    <3> QED
      BY <1>f, <3>1
  <2> QED
    BY <1>f, <1>r, <2>1 DEF RevokesExpired, OldRefs, Callers, stateMatches, MatchesNext
<1>1. ASSUME NEW id \in IDs, NEW h \in Hosts, NEW e \in 0 .. MaxTime, Register(id, h, e)
      PROVE  RevokesExpired'
  <2> DEFINE new == [ref |-> [id |-> id, gen |-> nextGen + 1], at |-> e]
  <2>1. /\ gen' = [gen EXCEPT ![id] = nextGen + 1]
        /\ expiresAt' = [expiresAt EXCEPT ![id] = e]
        /\ timers' = timers \cup {new}
        /\ UNCHANGED <<now, revoking, callbacks>>
    BY <1>1 DEF Register, Admit
  <2>2. \A r \in Refs : r.gen <= nextGen /\ MatchesNext(r) =>
            stateMatches(r) /\ expiresAt'[r.id] = expiresAt[r.id]
    BY <2>1 DEF stateMatches, MatchesNext, Refs, TypeOK
  <2>3. expiresAt'[new.ref.id] = new.at
    BY <2>1 DEF TypeOK
  <2>4. \A t \in timers' : MatchesNext(t.ref) => expiresAt'[t.ref.id] = t.at
    <3>1. \A t \in timers : MatchesNext(t.ref) => expiresAt'[t.ref.id] = t.at
      BY <1>r, <2>2 DEF RevokesExpired, OldRefs
    <3> QED
      BY <2>1, <2>3, <3>1
  <2>5. /\ \A p \in Handlers : \A ref \in revoking[p] :
               MatchesNext(ref) => expiresAt'[ref.id] <= now
        /\ \A ref \in callbacks : MatchesNext(ref) => expiresAt'[ref.id] <= now
    BY <1>r, <2>2 DEF RevokesExpired, OldRefs, Callers
  <2> QED
    BY <2>1, <2>4, <2>5 DEF RevokesExpired, stateMatches, MatchesNext
<1>2. ASSUME NEW p \in Handlers, HandlerStep(p)
      PROVE  RevokesExpired'
  <2>1. /\ UNCHANGED <<now, core, timers, callbacks>>
        /\ \A q \in Handlers : q # p => revoking'[q] = revoking[q]
        /\ \/ revoking'[p] = revoking[p]
           \/ LET ref == hosts[req[p].host] IN
              stateMatches(ref) /\ expiresAt[ref.id] <= now /\ revoking'[p] = {ref}
    BY <1>2, HandlerEffect DEF Callers
  <2>2. \A q \in Handlers : \A ref \in revoking'[q] : stateMatches(ref) => expiresAt[ref.id] <= now
    BY <2>1 DEF RevokesExpired
  <2> QED
    BY <2>1, <2>2 DEF RevokesExpired, stateMatches, core
<1>3. CASE \/ \E p \in Callers : RevokeNext(p)
           \/ \E ref \in callbacks : TimerCallback(ref)
  <2>1. PICK p \in Callers \cup {Timer}, ref \in Refs :
             /\ revokeRef(p, ref) /\ UNCHANGED now
             /\ \/ revoking' = [revoking EXCEPT ![p] = @ \ {ref}] /\ UNCHANGED callbacks
                \/ callbacks' = callbacks \ {ref} /\ UNCHANGED revoking
    BY <1>3, RevokeCalls
  <2>2. timers' \subseteq timers
    BY <2>1, RevokeRefEffect
  <2>3. \A r \in Refs : MatchesNext(r) => stateMatches(r) /\ expiresAt'[r.id] = expiresAt[r.id]
    <3>1. \A r \in Refs : MatchesNext(r) => r.id \in IDs /\ gen'[r.id] # 0
      BY DEF MatchesNext, Refs
    <3> QED
      BY <2>1, <3>1, RevokeRefEffect
  <2>4. /\ \A q \in Handlers : revoking'[q] \subseteq revoking[q]
        /\ callbacks' \subseteq callbacks
    BY <2>1 DEF TypeOK, Callers
  <2>5. now <= now'
    BY <2>1 DEF TypeOK
  <2> QED
    BY <1>f, <2>2, <2>3, <2>4, <2>5
<1>4. ASSUME UNCHANGED <<gen, expiresAt>>, now <= now',
             \A p \in Handlers : revoking'[p] \subseteq revoking[p],
             callbacks' \subseteq callbacks, timers' \subseteq timers
      PROVE  RevokesExpired'
  BY <1>f, <1>4 DEF stateMatches, MatchesNext
<1>5. CASE \E p \in Handlers : RevokeReturns(p)
  <2>1. UNCHANGED <<now, core, revocation>>
    BY <1>5, HandlerReturns
  <2> QED
    BY <1>4, <2>1 DEF core, revocation, TypeOK
<1>6. CASE \E c \in Conns : ConnStep(c)
  <2>1. UNCHANGED <<now, core, revocation>>
    BY <1>6, ConnEffect
  <2> QED
    BY <1>4, <2>1 DEF core, revocation, TypeOK
<1>7. ASSUME NEW t \in timers, TimerFires(t)
      PROVE  RevokesExpired'
  <2>1. /\ t.at <= now /\ timers' = timers \ {t} /\ callbacks' = callbacks \cup {t.ref}
        /\ UNCHANGED <<now, gen, expiresAt, revoking>>
    BY <1>7 DEF TimerFires, core
  <2> QED
    BY <2>1 DEF RevokesExpired, stateMatches
<1>8. CASE \/ \E a \in Admins : Close(a) \/ \E id \in IDs : Revoke(a, id)
           \/ \E p \in Callers \ Handlers : RevokeReturns(p)
           \/ \E p \in Callers \cup {Timer}, c \in Conns : CloseConn(p, c)
           \/ Tick
           \/ UNCHANGED vars
  <2>1. /\ UNCHANGED <<gen, expiresAt>> /\ now <= now'
        /\ \A p \in Handlers : revoking'[p] = revoking[p]
    BY <1>8, OtherSteps
  <2>2. UNCHANGED <<callbacks, timers>>
    BY <1>8 DEF Close, Revoke, RevokeReturns, CloseConn, Tick, vars, revocation
  <2> QED
    BY <1>4, <2>1, <2>2
<1> QED
  BY <1>1, <1>2, <1>3, <1>5, <1>6, <1>7, <1>8, StepKinds

\* A step that ends a registration finds it expired, or on an Admin's list.
LEMMA EndsForCause ==
    ASSUME TypeOK, RevokesExpired, [Next]_vars, NEW id \in IDs, gen[id] # 0, gen'[id] = 0
    PROVE  \/ expiresAt[id] <= now
           \/ \E a \in Admins : [id |-> id, gen |-> gen[id]] \in revoking[a]
<1>1. CASE \/ \E p \in Callers : RevokeNext(p)
           \/ \E ref \in callbacks : TimerCallback(ref)
  <2>1. PICK p \in Callers \cup {Timer}, ref \in Refs :
             /\ revokeRef(p, ref)
             /\ \/ p \in Callers /\ ref \in revoking[p]
                \/ ref \in callbacks
    BY <1>1, RevokeCalls
  <2>2. ref = [id |-> id, gen |-> gen[id]]
    BY <2>1, RevokeRefEffect
  <2>3. stateMatches(ref) /\ ref.id = id
    BY <2>2 DEF stateMatches
  <2> QED
    BY <2>1, <2>2, <2>3 DEF RevokesExpired, Callers
<1>2. CASE \E i \in IDs, h \in Hosts, e \in 0 .. MaxTime : Register(i, h, e)
  BY <1>2 DEF Register, Admit, TypeOK
<1>3. ASSUME UNCHANGED gen PROVE FALSE
  BY <1>3
<1> QED
  BY <1>1, <1>2, <1>3, StepKinds, HandlerEffect, HandlerReturns, ConnEffect, OtherSteps DEF core

\* After Close a registration is on the list of an Admin that has still to
\* revoke it.
LEMMA CloseCoversStep ==
    ASSUME TypeOK, CloseCovers, [Next]_vars
    PROVE  CloseCovers'
<1>a. \A a \in Admins : a \in Callers /\ a \notin Handlers
  BY RegistryAssumption DEF Callers
<1>1. CASE \E id \in IDs, h \in Hosts, e \in 0 .. MaxTime : Register(id, h, e)
  BY <1>1 DEF Register, Admit, handler, CloseCovers
<1>2. ASSUME UNCHANGED <<closed, gen>>,
             \A a \in Admins : revoking'[a] = revoking[a]
                               /\ (pc'[a] = pc[a] \/ revoking[a] = {})
      PROVE  CloseCovers'
  BY <1>2 DEF CloseCovers
<1>3. ASSUME NEW p \in Handlers, HandlerStep(p)
      PROVE  CloseCovers'
  BY <1>a, <1>2, <1>3, HandlerEffect DEF core
<1>4. ASSUME NEW p \in Callers, RevokeReturns(p)
      PROVE  CloseCovers'
  <2>1. UNCHANGED <<closed, gen, revoking>> /\ revoking[p] = {}
        /\ pc' = [pc EXCEPT ![p] = "idle"]
    BY <1>4 DEF RevokeReturns, Return, core, revocation
  <2> QED
    BY <1>a, <1>2, <2>1 DEF TypeOK
<1>5. CASE \/ \E p \in Callers : RevokeNext(p)
           \/ \E ref \in callbacks : TimerCallback(ref)
  <2>1. PICK p \in Callers \cup {Timer}, ref \in Refs :
             /\ revokeRef(p, ref)
             /\ UNCHANGED <<closed, pc>>
             /\ \/ revoking' = [revoking EXCEPT ![p] = @ \ {ref}]
                \/ UNCHANGED revoking
    BY <1>5, RevokeCalls
  <2>2. \A id \in IDs : gen'[id] # 0 => gen'[id] = gen[id] /\ ref # [id |-> id, gen |-> gen[id]]
    <3>1. ASSUME NEW id \in IDs, gen'[id] # 0
          PROVE  gen'[id] = gen[id] /\ ref # [id |-> id, gen |-> gen[id]]
      <4> DEFINE r == [id |-> id, gen |-> gen[id]]
      <4>1. gen'[id] = gen[id]
        BY <2>1, <3>1, RevokeRefEffect
      <4>2. r \in Refs /\ r.id = id /\ r.gen = gen[id]
        BY DEF Refs, TypeOK
      <4>3. MatchesNext(r)
        BY <3>1, <4>1, <4>2 DEF MatchesNext
      <4> HIDE DEF r
      <4>4. r # ref
        BY <2>1, <4>2, <4>3, RevokeRefEffect
      <4> QED
        BY <4>1, <4>4 DEF r
    <3> QED
      BY <3>1
  <2>3. \A a \in Admins : /\ revoking'[a] \subseteq revoking[a]
                          /\ \A r \in revoking[a] : r # ref => r \in revoking'[a]
    BY <1>a, <2>1 DEF TypeOK
  <2>4. \A a \in Admins : pc'[a] = "idle" => revoking'[a] = {}
    BY <2>1, <2>3 DEF CloseCovers
  <2>5. closed' => \A id \in IDs : gen'[id] # 0 =>
            \E a \in Admins : [id |-> id, gen |-> gen'[id]] \in revoking'[a]
    BY <2>1, <2>2, <2>3 DEF CloseCovers
  <2> QED
    BY <2>4, <2>5 DEF CloseCovers
<1>6. CASE \E c \in Conns : ConnStep(c)
  <2>1. UNCHANGED <<core, revocation, handler>>
    BY <1>6, ConnEffect
  <2> QED
    BY <1>2, <2>1 DEF core, revocation, handler
<1>7. ASSUME NEW a \in Admins, Close(a)
      PROVE  CloseCovers'
  <2>1. /\ UNCHANGED gen /\ pc' = [pc EXCEPT ![a] = "revoke"]
        /\ revoking' = [revoking EXCEPT ![a] = LiveRefs]
    BY <1>7 DEF Close
  <2>2. \A id \in IDs : gen[id] # 0 => [id |-> id, gen |-> gen[id]] \in LiveRefs
    BY DEF LiveRefs
  <2> QED
    BY <1>a, <2>1, <2>2 DEF CloseCovers, TypeOK
<1>8. ASSUME NEW a \in Admins, NEW id \in IDs, Revoke(a, id)
      PROVE  CloseCovers'
  <2>1. /\ UNCHANGED <<closed, gen>> /\ pc[a] = "idle" /\ pc' = [pc EXCEPT ![a] = "revoke"]
        /\ revoking' = [revoking EXCEPT ![a] = {[id |-> id, gen |-> gen[id]]}]
    BY <1>8 DEF Revoke, core
  <2>2. revoking[a] = {}
    BY <2>1 DEF CloseCovers
  <2> QED
    BY <1>a, <2>1, <2>2 DEF CloseCovers, TypeOK
<1>9. CASE \/ \E p \in Callers \cup {Timer}, c \in Conns : CloseConn(p, c)
           \/ \E t \in timers : TimerFires(t)
           \/ Tick
           \/ UNCHANGED vars
  BY <1>2, <1>9 DEF CloseConn, TimerFires, Tick, vars, core, revocation, handler
<1> QED
  BY <1>1, <1>3, <1>4, <1>5, <1>6, <1>7, <1>8, <1>9, StepKinds DEF Callers
----------------------------------------------------------------------------
(* Connections.                                                            *)

\* An open connection is listed where it will be found, or about to be closed.
LEMMA NoOrphanStep ==
    ASSUME TypeOK, NoOrphanConnection, [Next]_vars
    PROVE  NoOrphanConnection'
<1>c. \A c \in Conns : conn[c].exposure.ref \in Refs /\ conn[c].exposure.ref.id \in IDs
  BY DEF TypeOK, Refs
<1>u. ASSUME UNCHANGED <<gen, conns, closing>>,
             \A c \in Conns : conn'[c].state = "open" => conn'[c] = conn[c]
      PROVE  NoOrphanConnection'
  BY <1>u DEF NoOrphanConnection, stateMatches
<1>1. ASSUME NEW id \in IDs, NEW h \in Hosts, NEW e \in 0 .. MaxTime, Register(id, h, e)
      PROVE  NoOrphanConnection'
  <2>1. /\ gen[id] = 0 /\ gen' = [gen EXCEPT ![id] = nextGen + 1]
        /\ conns' = [conns EXCEPT ![id] = {}] /\ UNCHANGED <<closing, conn>>
    BY <1>1 DEF Register, Admit
  <2>2. \A c \in Conns : stateMatches(conn[c].exposure.ref) =>
            /\ MatchesNext(conn[c].exposure.ref)
            /\ conns'[conn[c].exposure.ref.id] = conns[conn[c].exposure.ref.id]
    BY <1>c, <2>1 DEF stateMatches, MatchesNext, TypeOK
  <2> QED
    BY <2>1, <2>2 DEF NoOrphanConnection, stateMatches, MatchesNext
<1>2. ASSUME NEW p \in Handlers, HandlerStep(p)
      PROVE  NoOrphanConnection'
  <2>1. UNCHANGED <<gen, conns, closing>>
    BY <1>2, HandlerEffect DEF core
  <2>2. CASE Resolve(p)
    <3>1. PICK c \in Conns :
            conn' = [conn EXCEPT ![c] = [state |-> "dialing", exposure |-> exposure[p],
                                         since |-> now]]
      BY <2>2 DEF Resolve
    <3>2. conn'[c].state = "dialing" /\ \A d \in Conns : d # c => conn'[d] = conn[d]
      BY <3>1 DEF TypeOK
    <3> QED
      BY <1>u, <2>1, <3>2
  <2>3. CASE ~Resolve(p)
    <3>1. UNCHANGED conn
      BY <1>2, <2>3 DEF HandlerStep, Request, ServeHTTP, Lookup, Reject, ConsumeCapability,
             IssueSession, Authenticate, Acquire, ProxyReturns
    <3> QED
      BY <1>u, <2>1, <3>1
  <2> QED
    BY <2>2, <2>3
<1>3. CASE \/ \E p \in Callers : RevokeNext(p)
           \/ \E ref \in callbacks : TimerCallback(ref)
  <2>1. PICK p \in Callers \cup {Timer}, ref \in Refs :
            revokeRef(p, ref) /\ UNCHANGED conn
    BY <1>3, RevokeCalls
  <2>2. /\ closing \subseteq closing'
        /\ stateMatches(ref) => \A c \in conns[ref.id] : <<p, c>> \in closing'
    BY <2>1, RevokeRefEffect
  <2>3. \A r \in Refs : stateMatches(r) /\ r # ref => MatchesNext(r) /\ conns'[r.id] = conns[r.id]
    <3>1. \A r \in Refs : MatchesNext(r) => r.id \in IDs /\ gen'[r.id] # 0
      BY DEF MatchesNext, Refs
    <3> QED
      BY <2>1, <3>1, RevokeRefEffect
  <2>4. ASSUME NEW c \in Conns, conn[c].state = "open"
        PROVE  \/ /\ MatchesNext(conn[c].exposure.ref)
                  /\ c \in conns'[conn[c].exposure.ref.id]
               \/ \E q \in Callers \cup {Timer} : <<q, c>> \in closing'
    <3>1. CASE \E q \in Callers \cup {Timer} : <<q, c>> \in closing
      BY <2>2, <3>1
    <3>2. CASE /\ stateMatches(conn[c].exposure.ref)
               /\ c \in conns[conn[c].exposure.ref.id]
      BY <1>c, <2>2, <2>3, <3>2
    <3> QED
      BY <2>4, <3>1, <3>2 DEF NoOrphanConnection
  <2> QED
    BY <2>1, <2>4 DEF NoOrphanConnection, stateMatches, MatchesNext
<1>4. ASSUME NEW c \in Conns, ConnStep(c)
      PROVE  NoOrphanConnection'
  <2>1. UNCHANGED <<gen, closing>>
    BY <1>4, ConnEffect DEF core, revocation
  <2>2. CASE Dialed(c) \/ TransportCloses(c)
    <3>1. /\ UNCHANGED conns
          /\ \/ conn' = [conn EXCEPT ![c].state = "dialed", ![c].since = now]
             \/ conn' = [conn EXCEPT ![c] = NoConn]
             \/ conn' = [conn EXCEPT ![c].state = "closed"]
      BY <2>2 DEF Dialed, TransportCloses
    <3>2. conn'[c].state # "open"
      BY <3>1, Constants DEF TypeOK
    <3>3. \A d \in Conns : d # c => conn'[d] = conn[d]
      BY <3>1 DEF TypeOK
    <3> QED
      BY <1>u, <2>1, <3>1, <3>2, <3>3
  <2>3. CASE TrackConnection(c) /\ UNCHANGED conns
    <3>1. \/ conn' = [conn EXCEPT ![c] = NoConn]
          \/ /\ stateMatches(conn[c].exposure.ref)
             /\ c \in conns[conn[c].exposure.ref.id]
             /\ conn' = [conn EXCEPT ![c].state = "open"]
      BY <1>c, <2>3 DEF TrackConnection, Usable, TypeOK
    <3>2. CASE conn' = [conn EXCEPT ![c] = NoConn]
      <4>1. conn'[c].state # "open" /\ \A d \in Conns : d # c => conn'[d] = conn[d]
        BY <3>2, Constants DEF TypeOK
      <4> QED
        BY <1>u, <2>1, <2>3, <4>1
    <3>3. CASE /\ stateMatches(conn[c].exposure.ref)
               /\ c \in conns[conn[c].exposure.ref.id]
               /\ conn' = [conn EXCEPT ![c].state = "open"]
      <4>1. conn'[c].exposure = conn[c].exposure /\ \A d \in Conns : d # c => conn'[d] = conn[d]
        BY <3>3 DEF TypeOK
      <4> QED
        BY <2>1, <2>3, <3>3, <4>1 DEF NoOrphanConnection, stateMatches
    <3> QED
      BY <3>1, <3>2, <3>3
  <2>4. CASE TrackConnection(c) /\ ~UNCHANGED conns
    <3>1. /\ stateMatches(conn[c].exposure.ref)
          /\ conns' = [conns EXCEPT ![conn[c].exposure.ref.id] = @ \cup {c}]
          /\ conn' = [conn EXCEPT ![c].state = "open"]
      BY <2>4 DEF TrackConnection, Usable
    <3>2. /\ conn'[c].exposure = conn[c].exposure /\ \A d \in Conns : d # c => conn'[d] = conn[d]
          /\ c \in conns'[conn[c].exposure.ref.id]
          /\ \A id \in IDs : conns[id] \subseteq conns'[id]
      BY <1>c, <3>1 DEF TypeOK
    <3> QED
      BY <1>c, <2>1, <3>1, <3>2 DEF NoOrphanConnection, stateMatches
  <2>5. CASE Untrack(c)
    <3>1. /\ \/ conns' = [conns EXCEPT ![conn[c].exposure.ref.id] = @ \ {c}]
             \/ UNCHANGED conns
          /\ conn' = [conn EXCEPT ![c] = NoConn]
      BY <2>5 DEF Untrack
    <3>2. conn'[c].state # "open" /\ \A d \in Conns : d # c => conn'[d] = conn[d]
      BY <3>1, Constants DEF TypeOK
    <3>3. \A id \in IDs : \A d \in conns[id] : d # c => d \in conns'[id]
      BY <1>c, <3>1 DEF TypeOK
    <3> QED
      BY <1>c, <2>1, <3>2, <3>3 DEF NoOrphanConnection, stateMatches
  <2> QED
    BY <1>4, <2>2, <2>3, <2>4, <2>5 DEF ConnStep
<1>5. ASSUME NEW p \in Callers \cup {Timer}, NEW c \in Conns, CloseConn(p, c)
      PROVE  NoOrphanConnection'
  <2>1. /\ closing' = closing \ {<<p, c>>}
        /\ conn' = [conn EXCEPT ![c].state = IF @ = "open" THEN "closed" ELSE @]
        /\ UNCHANGED <<gen, conns>>
    BY <1>5 DEF CloseConn, core
  <2>2. conn'[c].state # "open" /\ \A d \in Conns : d # c => conn'[d] = conn[d]
    BY <2>1 DEF TypeOK
  <2>3. \A q, d : d # c /\ <<q, d>> \in closing => <<q, d>> \in closing'
    BY <2>1
  <2> QED
    BY <2>1, <2>2, <2>3 DEF NoOrphanConnection, stateMatches
<1>6. CASE \E p \in Callers : RevokeReturns(p)
  BY <1>u, <1>6 DEF RevokeReturns, core, revocation
<1>7. CASE \/ \E a \in Admins : Close(a) \/ \E id \in IDs : Revoke(a, id)
           \/ \E t \in timers : TimerFires(t)
           \/ Tick
           \/ UNCHANGED vars
  BY <1>u, <1>7 DEF Close, Revoke, TimerFires, Tick, vars, core, revocation
<1> QED
  BY <1>1, <1>2, <1>3, <1>4, <1>5, <1>6, <1>7, StepKinds DEF Callers

----------------------------------------------------------------------------
(* Slots.                                                                  *)

LEMMA SlotsFinite == ASSUME NEW ref PROVE IsFiniteSet(Slots(ref))
<1>1. Slots(ref) \subseteq Handlers
  BY DEF Slots
<1> QED
  BY <1>1, RegistryAssumption, FS_Subset

\* Steps that leave registrations, counters and slot holders alone.
LEMMA SlotsFrame ==
    ASSUME SlotsAccounted, LiveRefs' \subseteq LiveRefs,
           \A ref \in LiveRefs' : active'[ref.id] = active[ref.id],
           \A p \in Handlers : (pc'[p] \in {"resolve", "proxy"}) = (pc[p] \in {"resolve", "proxy"}),
           \A p \in Handlers : pc[p] \in {"resolve", "proxy"} => exposure'[p].ref = exposure[p].ref
    PROVE  SlotsAccounted'
<1>1. ASSUME NEW ref
      PROVE  {p \in Handlers : pc'[p] \in {"resolve", "proxy"} /\ exposure'[p].ref = ref} =
               Slots(ref)
  BY DEF Slots
<1> QED
  BY <1>1 DEF SlotsAccounted, Slots

\* A slot is taken by Acquire and given back by the deferred release, in the
\* registration the request holds it of.
LEMMA SlotsStep ==
    ASSUME TypeOK, OldRefs, SlotsAccounted, [Next]_vars
    PROVE  SlotsAccounted'
<1>l. \A ref \in LiveRefs : ref \in Refs /\ ref.id \in IDs /\ ref.gen = gen[ref.id] /\ ref.gen # 0
  BY DEF LiveRefs, Refs, TypeOK
<1>e. \A p \in Handlers : exposure[p].ref \in Refs /\ exposure[p].ref.id \in IDs
  BY DEF TypeOK, Refs
<1>c. Handlers \subseteq Callers
  BY DEF Callers
<1>1. ASSUME NEW id \in IDs, NEW h \in Hosts, NEW e \in 0 .. MaxTime, Register(id, h, e)
      PROVE  SlotsAccounted'
  <2>1. /\ gen[id] = 0 /\ gen' = [gen EXCEPT ![id] = nextGen + 1]
        /\ active' = [active EXCEPT ![id] = 0] /\ UNCHANGED <<pc, exposure>>
    BY <1>1 DEF Register, Admit, handler
  <2>2. Slots([id |-> id, gen |-> nextGen + 1]) = {}
    <3>1. \A p \in Handlers : exposure[p].ref # [id |-> id, gen |-> nextGen + 1]
      BY <1>e DEF OldRefs, TypeOK, Refs
    <3> QED
      BY <3>1 DEF Slots
  <2>3. ASSUME NEW i \in IDs, gen'[i] # 0
        PROVE  /\ active'[i] = Cardinality(Slots([id |-> i, gen |-> gen'[i]]))
               /\ active'[i] <= MaxConnections
    <3>1. CASE i = id
      <4>1. gen'[i] = nextGen + 1 /\ active'[i] = 0
        BY <2>1, <3>1 DEF TypeOK
      <4>2. Cardinality(Slots([id |-> i, gen |-> gen'[i]])) = 0
        BY <2>2, <3>1, <4>1, FS_EmptySet
      <4> QED
        BY <4>1, <4>2, RegistryAssumption
    <3>2. CASE i # id
      <4>1. gen'[i] = gen[i] /\ active'[i] = active[i] /\ gen[i] # 0
        BY <2>1, <2>3, <3>2 DEF TypeOK
      <4>2. [id |-> i, gen |-> gen[i]] \in LiveRefs
        BY <4>1 DEF LiveRefs
      <4> QED
        BY <4>1, <4>2 DEF SlotsAccounted
    <3> QED
      BY <3>1, <3>2
  <2> QED
    BY <2>1, <2>3 DEF SlotsAccounted, LiveRefs, Slots
<1>2. ASSUME NEW p \in Handlers, HandlerStep(p)
      PROVE  SlotsAccounted'
  <2>1. /\ UNCHANGED gen /\ LiveRefs' = LiveRefs
        /\ \A q \in Handlers : q # p => exposure'[q] = exposure[q] /\ pc'[q] = pc[q]
    <3>1. /\ UNCHANGED gen
          /\ \A q \in Handlers : q # p => exposure'[q] = exposure[q] /\ pc'[q] = pc[q]
      BY <1>2, HandlerEffect DEF core
    <3> QED
      BY <3>1 DEF LiveRefs
  <2>s. ASSUME NEW ref PROVE Slots(ref)' =
          {q \in Handlers : pc'[q] \in {"resolve", "proxy"} /\ exposure'[q].ref = ref}
    BY DEF Slots
  <2>2. CASE Acquire(p) /\ ~UNCHANGED active
    <3> DEFINE ref == exposure[p].ref
    <3>1. /\ pc[p] = "acquire" /\ pc' = [pc EXCEPT ![p] = "resolve"] /\ UNCHANGED exposure
          /\ active[ref.id] < MaxConnections
          /\ active' = [active EXCEPT ![ref.id] = @ + 1]
          /\ stateMatches(ref)
      BY <2>2 DEF Acquire, Goto, Usable
    <3>2. ASSUME NEW r \in LiveRefs
          PROVE  /\ active'[r.id] = Cardinality(
                     {q \in Handlers : pc'[q] \in {"resolve", "proxy"} /\ exposure'[q].ref = r})
                 /\ active'[r.id] <= MaxConnections
      <4> DEFINE S == {q \in Handlers : pc'[q] \in {"resolve", "proxy"} /\ exposure'[q].ref = r}
      <4>1. CASE r = ref
        <5>1. p \notin Slots(r) /\ S = Slots(r) \cup {p}
          BY <1>c, <3>1, <4>1 DEF Slots, TypeOK
        <5>2. Cardinality(S) = Cardinality(Slots(r)) + 1
          BY <5>1, SlotsFinite, FS_AddElement
        <5>3. active'[r.id] = active[r.id] + 1 /\ active[r.id] \in Nat
          BY <1>e, <3>1, <4>1 DEF TypeOK
        <5>4. active'[r.id] <= MaxConnections
          BY <3>1, <4>1, <5>3, RegistryAssumption
        <5> QED
          BY <5>2, <5>3, <5>4 DEF SlotsAccounted
      <4>2. CASE r # ref
        <5>1. S = Slots(r)
          BY <1>c, <3>1, <4>2 DEF Slots, TypeOK
        <5>2. r.id # ref.id
          BY <1>e, <1>l, <3>1, <4>2 DEF stateMatches, Refs
        <5>3. active'[r.id] = active[r.id]
          BY <1>l, <3>1, <5>2 DEF TypeOK
        <5> QED
          BY <5>1, <5>3 DEF SlotsAccounted
      <4> QED
        BY <4>1, <4>2
    <3> QED
      BY <2>1, <3>2 DEF SlotsAccounted, Slots
  <2>3. CASE ProxyReturns(p)
    <3> DEFINE ref == exposure[p].ref
    <3>1. /\ pc[p] \in {"resolve", "proxy"} /\ pc' = [pc EXCEPT ![p] = "idle"]
          /\ active' = IF stateMatches(ref) /\ active[ref.id] > 0
                       THEN [active EXCEPT ![ref.id] = @ - 1] ELSE active
      BY <2>3 DEF ProxyReturns, release, Return
    <3>p. pc'[p] = "idle"
      BY <1>c, <3>1 DEF TypeOK
    <3>2. ASSUME NEW r \in LiveRefs
          PROVE  /\ active'[r.id] = Cardinality(
                     {q \in Handlers : pc'[q] \in {"resolve", "proxy"} /\ exposure'[q].ref = r})
                 /\ active'[r.id] <= MaxConnections
      <4> DEFINE S == {q \in Handlers : pc'[q] \in {"resolve", "proxy"} /\ exposure'[q].ref = r}
      <4>1. CASE r = ref
        <5>1. p \in Slots(r) /\ S = Slots(r) \ {p}
          BY <2>1, <3>1, <3>p, <4>1 DEF Slots
        <5>2. /\ Cardinality(S) = Cardinality(Slots(r)) - 1
              /\ Cardinality(S) \in Nat
          <6>1. IsFiniteSet(S)
            BY <5>1, SlotsFinite, FS_RemoveElement
          <6> QED
            BY <5>1, <6>1, SlotsFinite, FS_RemoveElement, FS_CardinalityType
        <5>3. stateMatches(ref) /\ active[r.id] = Cardinality(Slots(r))
          BY <1>l, <4>1 DEF stateMatches, SlotsAccounted
        <5>4. active[r.id] \in Nat /\ active[r.id] <= MaxConnections
          BY <1>l DEF TypeOK, SlotsAccounted
        <5>5. active[r.id] > 0
          BY <5>2, <5>3, <5>4
        <5>6. active'[r.id] = active[r.id] - 1
          BY <1>l, <3>1, <4>1, <5>3, <5>5 DEF TypeOK
        <5> QED
          BY <5>2, <5>3, <5>4, <5>6, RegistryAssumption
      <4>2. CASE r # ref
        <5>1. S = Slots(r)
          BY <2>1, <3>p, <4>2 DEF Slots
        <5>2. r.id # ref.id \/ ~stateMatches(ref)
          BY <1>e, <1>l, <4>2 DEF stateMatches, Refs
        <5>3. active'[r.id] = active[r.id]
          BY <1>l, <3>1, <5>2 DEF TypeOK
        <5> QED
          BY <5>1, <5>3 DEF SlotsAccounted
      <4> QED
        BY <4>1, <4>2
    <3> QED
      BY <2>1, <3>2 DEF SlotsAccounted, Slots
  <2>4. CASE ~ProxyReturns(p) /\ UNCHANGED active
    <3>1. (pc'[p] \in {"resolve", "proxy"}) = (pc[p] \in {"resolve", "proxy"})
          /\ (pc[p] \in {"resolve", "proxy"} => exposure'[p].ref = exposure[p].ref)
      <4>1. CASE Acquire(p)
        <5>1. \/ pc' = [pc EXCEPT ![p] = "idle"]
              \/ \E t \in Sampled(p) : Usable(exposure[p], t)
                                       /\ active' = [active EXCEPT ![exposure[p].ref.id] = @ + 1]
          BY <4>1 DEF Acquire, Return
        <5>2. active[exposure[p].ref.id] \in Nat
          BY <1>e DEF TypeOK
        <5>3. pc' = [pc EXCEPT ![p] = "idle"] /\ pc[p] = "acquire"
          BY <1>e, <2>4, <4>1, <5>1, <5>2 DEF TypeOK, Acquire
        <5> QED
          BY <1>c, <5>3 DEF TypeOK
      <4>2. CASE ~Acquire(p)
        <5>1. CASE Request(p) \/ ServeHTTP(p) \/ Lookup(p)
          <6>1. pc[p] \notin {"resolve", "proxy"} /\
                \E l \in HandlerPCs \ {"resolve", "proxy"} : pc' = [pc EXCEPT ![p] = l]
            BY <5>1 DEF Request, ServeHTTP, Lookup, LookupHost, Goto, Return, HandlerPCs
          <6>2. pc'[p] \notin {"resolve", "proxy"}
            BY <1>c, <6>1 DEF TypeOK
          <6> QED
            BY <6>1, <6>2
        <5>2. CASE Reject(p) \/ IssueSession(p)
          <6>1. pc[p] \notin {"resolve", "proxy"} /\ pc' = [pc EXCEPT ![p] = "idle"]
            BY <5>2 DEF Reject, IssueSession, Return
          <6>2. pc'[p] = "idle"
            BY <1>c, <6>1 DEF TypeOK
          <6> QED
            BY <6>1, <6>2
        <5>4. CASE ConsumeCapability(p)
          BY <1>c, <5>4 DEF ConsumeCapability, Goto, Return, TypeOK
        <5>3. CASE Authenticate(p) \/ Resolve(p)
          BY <1>c, <5>3 DEF Authenticate, Resolve, LookupHost, Goto, Return, TypeOK
        <5> QED
          BY <1>2, <2>4, <4>2, <5>1, <5>2, <5>3, <5>4 DEF HandlerStep
      <4> QED
        BY <4>1, <4>2
    <3> QED
      BY <2>1, <2>4, <3>1, SlotsFrame
  <2>5. UNCHANGED active \/ Acquire(p) \/ ProxyReturns(p)
    BY <1>2 DEF HandlerStep, Request, ServeHTTP, Lookup, Reject, ConsumeCapability,
           IssueSession, Authenticate, Resolve
  <2> QED
    BY <2>2, <2>3, <2>4, <2>5
<1>3. ASSUME NEW p \in Handlers, RevokeReturns(p)
      PROVE  SlotsAccounted'
  <2>1. /\ UNCHANGED <<gen, active>> /\ LiveRefs' = LiveRefs /\ pc[p] = "revoke"
        /\ exposure' = [exposure EXCEPT ![p] = NoExposure]
        /\ pc' = [pc EXCEPT ![p] = "idle"]
    BY <1>3 DEF RevokeReturns, Return, core, LiveRefs
  <2>2. \A q \in Handlers : \/ q = p /\ pc[q] = "revoke" /\ pc'[q] = "idle"
                            \/ q # p /\ exposure'[q] = exposure[q] /\ pc'[q] = pc[q]
    BY <1>c, <2>1 DEF TypeOK
  <2> QED
    BY <2>1, <2>2, SlotsFrame
<1>4. CASE \/ \E p \in Callers : RevokeNext(p)
           \/ \E ref \in callbacks : TimerCallback(ref)
  <2>1. PICK p \in Callers \cup {Timer}, ref \in Refs :
            revokeRef(p, ref) /\ UNCHANGED <<pc, exposure>>
    BY <1>4, RevokeCalls
  <2>2. \A id \in IDs : gen'[id] # 0 => gen'[id] = gen[id] /\ active'[id] = active[id]
    BY <2>1, RevokeRefEffect
  <2>3. LiveRefs' \subseteq LiveRefs /\ \A r \in LiveRefs' : active'[r.id] = active[r.id]
    BY <2>2 DEF LiveRefs
  <2> QED
    BY <2>1, <2>3, SlotsFrame
<1>5. ASSUME UNCHANGED <<gen, active, exposure>>, \A p \in Handlers : pc'[p] = pc[p]
      PROVE  SlotsAccounted'
  <2>1. LiveRefs' = LiveRefs
    BY <1>5 DEF LiveRefs
  <2> QED
    BY <1>5, <2>1, SlotsFrame
<1>6. CASE \E c \in Conns : ConnStep(c)
  <2>1. UNCHANGED <<core, active, handler>>
    BY <1>6, ConnEffect
  <2> QED
    BY <1>5, <2>1 DEF core, handler
<1>7. CASE \/ \E a \in Admins : Close(a) \/ \E id \in IDs : Revoke(a, id)
           \/ \E p \in Callers \ Handlers : RevokeReturns(p)
           \/ \E p \in Callers \cup {Timer}, c \in Conns : CloseConn(p, c)
           \/ \E t \in timers : TimerFires(t)
           \/ Tick
           \/ UNCHANGED vars
  BY <1>5, <1>7, OtherSteps
<1> QED
  BY <1>1, <1>2, <1>3, <1>4, <1>6, <1>7, StepKinds
----------------------------------------------------------------------------
(* The theorems.                                                           *)

LEMMA InitInv == Init => IInv
<1> SUFFICES ASSUME Init PROVE IInv
  OBVIOUS
<1> USE DEF Init, NewRegistry
<1>1. TypeOK
  BY InitTypes
<1>2. /\ NoRef.gen = 0 /\ NoExposure.ref.gen = 0 /\ NoConn.exposure.ref.gen = 0
      /\ NoConn.state = "free" /\ NoReq.cred = 0
  BY Constants
<1>3. OldRefs /\ AuthorityIsLive /\ ExposureCurrent /\ CloseCovers
  BY <1>2 DEF OldRefs, AuthorityIsLive, ExposureCurrent, CloseCovers, stateMatches, Callers
<1>4. SessionsIssued /\ SessionsStayBound /\ OldCreds /\ Consumed /\ SingleUse /\ RevokesExpired
  BY <1>2 DEF SessionsIssued, SessionsStayBound, OldCreds, Consumed, SingleUse, RevokesExpired,
              Callers
<1>5. NoOrphanConnection
  BY <1>2 DEF NoOrphanConnection
<1>6. SlotsAccounted
  BY DEF SlotsAccounted, LiveRefs
<1> QED
  BY <1>1, <1>3, <1>4, <1>5, <1>6 DEF IInv

LEMMA NextInv == IInv /\ [Next]_vars => IInv'
<1> SUFFICES ASSUME IInv, [Next]_vars PROVE IInv'
  OBVIOUS
<1> USE DEF IInv
<1>1. TypeOK' /\ OldRefs'
  BY NextTypes, OldRefsStep
<1>2. AuthorityIsLive' /\ ExposureCurrent'
  BY AuthorityStep, ExposureStep
<1>3. SessionsIssued' /\ SessionsStayBound'
  BY SessionsIssuedStep, SessionsStayBoundStep
<1>4. OldCreds' /\ Consumed' /\ SingleUse'
  BY CapabilityStep DEF CapabilityInv
<1>5. RevokesExpired' /\ CloseCovers'
  BY RevokesExpiredStep, CloseCoversStep
<1>6. NoOrphanConnection' /\ SlotsAccounted'
  BY NoOrphanStep, SlotsStep
<1> QED
  BY <1>1, <1>2, <1>3, <1>4, <1>5, <1>6

\* The invariant all the other theorems are read from.
THEOREM RegistryInvariant == Spec => []IInv
  BY InitInv, NextInv, PTL DEF Spec

\* Exchange hands out one session per bootstrap capability (registry.go: Exchange).
THEOREM CapabilitiesSingleUse == Spec => []SingleUse
<1>1. IInv => SingleUse
  BY DEF IInv
<1> QED
  BY <1>1, RegistryInvariant, PTL

\* What the registry admits by belongs to a registration in force (registry.go:
\* revokeRef, Exchange).
THEOREM AuthorityLive == Spec => []AuthorityIsLive
<1>1. IInv => AuthorityIsLive
  BY DEF IInv
<1> QED
  BY <1>1, RegistryInvariant, PTL

\* A request reaches the registration its session was issued for (registry.go:
\* Authenticate, Acquire; router.go: ServeHTTP).
THEOREM SessionsBound == Spec => []SessionsStayBound
<1>1. IInv => SessionsStayBound
  BY DEF IInv
<1> QED
  BY <1>1, RegistryInvariant, PTL

\* Revocation finds every open connection (registry.go: TrackConnection, revokeRef).
THEOREM ConnectionsFound == Spec => []NoOrphanConnection
<1>1. IInv => NoOrphanConnection
  BY DEF IInv
<1> QED
  BY <1>1, RegistryInvariant, PTL

\* The counter of a registration is the number of its requests, within the limit
\* (registry.go: Acquire and the release it returns).
THEOREM SlotsExact == Spec => []SlotsAccounted
<1>1. IInv => SlotsAccounted
  BY DEF IInv
<1> QED
  BY <1>1, RegistryInvariant, PTL

\* After Close nothing is registered (registry.go: Close, Register).
THEOREM CloseEmpties == Spec => []ClosedIsEmpty
<1>1. IInv => ClosedIsEmpty
  <2>1. IInv => CloseCovers
    BY DEF IInv
  <2>2. ASSUME CloseCovers, closed, \A a \in Admins : pc[a] = "idle", NEW id \in IDs
        PROVE  gen[id] = 0
    <3>1. \A a \in Admins : revoking[a] = {}
      BY <2>2 DEF CloseCovers
    <3> QED
      BY <2>2, <3>1 DEF CloseCovers
  <2> QED
    BY <2>1, <2>2 DEF ClosedIsEmpty
<1> QED
  BY <1>1, RegistryInvariant, PTL

\* No registration ends for another one's expiry or revocation (registry.go:
\* revokeRef and its callers).
THEOREM EndsOnlyForCause == Spec => EndedForCause
<1>1. IInv /\ [Next]_vars =>
        [\A id \in IDs : gen[id] # 0 /\ gen'[id] = 0 =>
            \/ expiresAt[id] <= now
            \/ \E a \in Admins : [id |-> id, gen |-> gen[id]] \in revoking[a]]_vars
  <2>1. IInv /\ [Next]_vars =>
          \A id \in IDs : gen[id] # 0 /\ gen'[id] = 0 =>
              \/ expiresAt[id] <= now
              \/ \E a \in Admins : [id |-> id, gen |-> gen[id]] \in revoking[a]
    BY EndsForCause DEF IInv
  <2> QED
    BY <2>1
<1> QED
  BY <1>1, RegistryInvariant, PTL DEF Spec, EndedForCause
=============================================================================
