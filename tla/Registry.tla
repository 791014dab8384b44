------------------------------ MODULE Registry ------------------------------
(***************************************************************************)
(* The workload router: exposures, bootstrap capabilities, sessions and    *)
(* upstream connections.  Models apps/workload-router/internal/auth/       *)
(* registry.go and the request path of internal/router/router.go.          *)
(*                                                                         *)
(* Every section of the registry under r.mu is one action.  The methods    *)
(* sample the clock before they lock, so a section uses any time between   *)
(* its goroutine's previous step and now.  revokeRef removes the           *)
(* registration under r.mu and closes its connections afterwards, one by   *)
(* one, without it.                                                        *)
(***************************************************************************)
EXTENDS Integers, FiniteSets

CONSTANTS
    IDs,            \* exposure IDs
    Hosts,          \* canonical host names
    Handlers,       \* goroutines serving HTTP requests
    Admins,         \* goroutines of the control side: Revoke, Close
    Timer,          \* stands for the expiry-timer goroutines
    Conns,          \* upstream connections; a name is reused once nothing refers to it
    MaxConnections,
    SessionTTL,
    BootstrapTTL,
    Kinds,          \* the requests made: "exchange", "proxy"
    MaxGen,         \* bound: registrations
    MaxCreds,       \* bound: credentials generated
    MaxTime         \* bound: the clock stops here

ASSUME RegistryAssumption ==
    /\ MaxConnections \in Nat \ {0}
    /\ SessionTTL \in Nat \ {0}
    /\ BootstrapTTL \in Nat \ {0}
    /\ Handlers \cap Admins = {}
    /\ Timer \notin Handlers \cup Admins
    /\ IsFiniteSet(Handlers)
    /\ IDs # {} /\ Hosts # {}
    /\ Kinds \subseteq {"exchange", "proxy"}

Callers == Handlers \cup Admins
Refs == [id : IDs, gen : Nat]
NoRef == [id |-> CHOOSE id \in IDs : TRUE, gen |-> 0]
NoExposure == [ref |-> NoRef, expiresAt |-> 0]
AnyHost == CHOOSE h \in Hosts : TRUE
NoReq == [host |-> AnyHost, kind |-> "proxy", cred |-> 0]
NoConn == [state |-> "free", exposure |-> NoExposure, since |-> 0]

VARIABLES
    now,
    closed,
    nextGen,
    creds,         \* credentials 1..creds have been generated; 0 is none of them
    gen,           \* exposure ID -> generation registered, 0 if none
    hostOf, expiresAt, active, conns,  \* the rest of exposureState
    hosts,         \* host -> exposureRef
    capabilities,  \* records [cred, ref, expiresAt]
    sessions,      \* records [cred, ref, expiresAt]
    timers,        \* armed expiry timers, records [ref, at]
    callbacks,     \* registrations whose timer has fired but not yet locked r.mu
    closing,       \* <<caller, conn>>: revokeRef of caller has conn still to close
    revoking,      \* caller -> registrations it still has to revoke
    pc,
    req,           \* handler -> host, kind and credential of its request
    since,         \* handler -> time of its previous step
    exposure,      \* handler -> Exposure that LookupHost returned
    conn,          \* connection -> state, Exposure it was dialled for, time it was dialled
    exchanges      \* history: sessions handed out, [capability, session, host, ref]

core == <<closed, nextGen, gen, hostOf, expiresAt, hosts>>
tokens == <<creds, capabilities, sessions, exchanges>>
revocation == <<timers, callbacks, closing, revoking>>
handler == <<pc, req, since, exposure>>
vars == <<now, core, tokens, active, conns, revocation, handler, conn>>

Records == [cred : Nat, ref : Refs, expiresAt : Nat]
HandlerPCs == {"idle", "serve", "lookup", "consume", "issue", "session", "acquire",
               "resolve", "proxy", "revoke"}

TypeOK ==
    /\ now \in Nat /\ closed \in BOOLEAN /\ nextGen \in Nat /\ creds \in Nat
    /\ gen \in [IDs -> Nat]
    /\ hostOf \in [IDs -> Hosts]
    /\ expiresAt \in [IDs -> Nat]
    /\ active \in [IDs -> Nat]
    /\ conns \in [IDs -> SUBSET Conns]
    /\ hosts \in [Hosts -> Refs]
    /\ capabilities \subseteq Records
    /\ sessions \subseteq Records
    /\ timers \subseteq [ref : Refs, at : Nat]
    /\ callbacks \subseteq Refs
    /\ closing \subseteq (Callers \cup {Timer}) \X Conns
    /\ revoking \in [Callers -> SUBSET Refs]
    /\ pc \in [Callers -> HandlerPCs]
    /\ req \in [Handlers -> [host : Hosts, kind : {"exchange", "proxy"}, cred : Nat]]
    /\ since \in [Handlers -> Nat]
    /\ exposure \in [Handlers -> [ref : Refs, expiresAt : Nat]]
    /\ conn \in [Conns -> [state : {"free", "dialing", "dialed", "open", "closed"},
                           exposure : [ref : Refs, expiresAt : Nat], since : Nat]]
    /\ exchanges \subseteq [capability : Nat, session : Nat, host : Hosts, ref : Refs]

----------------------------------------------------------------------------
(* Helpers of the registry.                                                *)

stateMatches(ref) == ref.gen # 0 /\ gen[ref.id] = ref.gen

LiveRefs == {[id |-> id, gen |-> gen[id]] : id \in {i \in IDs : gen[i] # 0}}

Earlier(a, b) == IF a < b THEN a ELSE b

\* The times p may have read from the clock before it locked r.mu.
Sampled(p) == since[p] .. now

Goto(p, label) ==
    /\ pc' = [pc EXCEPT ![p] = label]
    /\ since' = [since EXCEPT ![p] = now]
    /\ UNCHANGED <<req, exposure>>

\* The handler has answered; its locals are gone.
Return(p) ==
    /\ pc' = [pc EXCEPT ![p] = "idle"]
    /\ since' = [since EXCEPT ![p] = 0]
    /\ req' = [req EXCEPT ![p] = NoReq]
    /\ exposure' = [exposure EXCEPT ![p] = NoExposure]

NewRegistry ==
    /\ now = 0 /\ closed = FALSE /\ nextGen = 0 /\ creds = 0
    /\ gen = [id \in IDs |-> 0]
    /\ hostOf = [id \in IDs |-> AnyHost]
    /\ expiresAt = [id \in IDs |-> 0]
    /\ active = [id \in IDs |-> 0]
    /\ conns = [id \in IDs |-> {}]
    /\ hosts = [h \in Hosts |-> NoRef]
    /\ capabilities = {} /\ sessions = {}
    /\ timers = {} /\ callbacks = {} /\ closing = {}
    /\ revoking = [p \in Callers |-> {}]
    /\ pc = [p \in Callers |-> "idle"]
    /\ req = [p \in Handlers |-> NoReq]
    /\ since = [p \in Handlers |-> 0]
    /\ exposure = [p \in Handlers |-> NoExposure]
    /\ conn = [c \in Conns |-> NoConn]
    /\ exchanges = {}

----------------------------------------------------------------------------
(* The control side.                                                       *)

\* Registering, once admitted.
Admit(id, h, expiry) ==
    /\ now < expiry
    /\ nextGen < MaxGen /\ creds < MaxCreds
    /\ nextGen' = nextGen + 1
    /\ creds' = creds + 1
    /\ gen' = [gen EXCEPT ![id] = nextGen + 1]
    /\ hostOf' = [hostOf EXCEPT ![id] = h]
    /\ expiresAt' = [expiresAt EXCEPT ![id] = expiry]
    /\ active' = [active EXCEPT ![id] = 0]
    /\ conns' = [conns EXCEPT ![id] = {}]
    /\ LET ref == [id |-> id, gen |-> nextGen + 1] IN
        /\ hosts' = [hosts EXCEPT ![h] = ref]
        /\ capabilities' = capabilities \cup
            {[cred |-> creds + 1, ref |-> ref,
              expiresAt |-> Earlier(now + BootstrapTTL, expiry)]}
        /\ timers' = timers \cup {[ref |-> ref, at |-> expiry]}
    /\ UNCHANGED <<now, closed, sessions, exchanges, callbacks, closing, revoking, handler, conn>>

\* Fault: closed is not checked under r.mu.
RegisterAfterClose(id, h, expiry) == gen[id] = 0 /\ hosts[h].gen = 0 /\ Admit(id, h, expiry)

\* Refused calls change nothing.
Register(id, h, expiry) ==
    /\ ~closed
    /\ gen[id] = 0
    /\ hosts[h].gen = 0
    /\ Admit(id, h, expiry)

\* Revoke reads the registration under r.mu, unlocks, then calls revokeRef.
Revoke(a, id) ==
    /\ pc[a] = "idle"
    /\ gen[id] # 0
    /\ pc' = [pc EXCEPT ![a] = "revoke"]
    /\ revoking' = [revoking EXCEPT ![a] = {[id |-> id, gen |-> gen[id]]}]
    /\ UNCHANGED <<now, core, tokens, active, conns, timers, callbacks, closing, req, since,
                   exposure, conn>>

Close(a) ==
    /\ pc[a] = "idle"
    /\ closed' = TRUE
    /\ pc' = [pc EXCEPT ![a] = "revoke"]
    /\ revoking' = [revoking EXCEPT ![a] = LiveRefs]
    /\ UNCHANGED <<now, nextGen, gen, hostOf, expiresAt, hosts, tokens, active, conns, timers,
                   callbacks, closing, req, since, exposure, conn>>

\* Fault: the connections are not collected.
RevokeWithoutClosing(p, ref) ==
    \/ /\ stateMatches(ref)
       /\ gen' = [gen EXCEPT ![ref.id] = 0]
       /\ hostOf' = [hostOf EXCEPT ![ref.id] = AnyHost]
       /\ expiresAt' = [expiresAt EXCEPT ![ref.id] = 0]
       /\ hosts' = [h \in Hosts |-> IF hosts[h] = ref THEN NoRef ELSE hosts[h]]
       /\ timers' = {t \in timers : t.ref # ref}
       /\ capabilities' = {r \in capabilities : r.ref # ref}
       /\ sessions' = {r \in sessions : r.ref # ref}
       /\ conns' = [conns EXCEPT ![ref.id] = {}]
       /\ active' = [active EXCEPT ![ref.id] = 0]
       /\ UNCHANGED closing
    \/ /\ ~stateMatches(ref)
       /\ UNCHANGED <<gen, hostOf, expiresAt, hosts, timers, capabilities, sessions, closing, conns,
                      active>>

\* revokeRef's section under r.mu, called by p.
revokeRef(p, ref) ==
    \/ /\ stateMatches(ref)
       /\ gen' = [gen EXCEPT ![ref.id] = 0]
       /\ hostOf' = [hostOf EXCEPT ![ref.id] = AnyHost]
       /\ expiresAt' = [expiresAt EXCEPT ![ref.id] = 0]
       /\ hosts' = [h \in Hosts |->
                      IF h = hostOf[ref.id] /\ hosts[h] = ref THEN NoRef ELSE hosts[h]]
       /\ timers' = {t \in timers : t.ref # ref}
       /\ capabilities' = {r \in capabilities : r.ref # ref}
       /\ sessions' = {r \in sessions : r.ref # ref}
       /\ closing' = closing \cup ({p} \X conns[ref.id])
       /\ conns' = [conns EXCEPT ![ref.id] = {}]
       /\ active' = [active EXCEPT ![ref.id] = 0]
    \/ /\ ~stateMatches(ref)
       /\ UNCHANGED <<gen, hostOf, expiresAt, hosts, timers, capabilities, sessions, closing, conns,
                      active>>

\* The next registration p has to revoke, once the connections of the one
\* before are closed.
RevokeNext(p) ==
    /\ pc[p] = "revoke"
    /\ \A c \in Conns : <<p, c>> \notin closing
    /\ \E ref \in revoking[p] :
        /\ revokeRef(p, ref)
        /\ revoking' = [revoking EXCEPT ![p] = @ \ {ref}]
    /\ UNCHANGED <<now, closed, nextGen, creds, exchanges, callbacks, handler, conn>>

RevokeReturns(p) ==
    /\ pc[p] = "revoke"
    /\ revoking[p] = {}
    /\ \A c \in Conns : <<p, c>> \notin closing
    /\ IF p \in Handlers THEN Return(p)
       ELSE pc' = [pc EXCEPT ![p] = "idle"] /\ UNCHANGED <<req, since, exposure>>
    /\ UNCHANGED <<now, core, tokens, active, conns, revocation, conn>>

\* revokeRef closes the connections it collected, after it unlocked r.mu.
CloseConn(p, c) ==
    /\ <<p, c>> \in closing
    /\ closing' = closing \ {<<p, c>>}
    /\ conn' = [conn EXCEPT ![c].state = IF @ = "open" THEN "closed" ELSE @]
    /\ UNCHANGED <<now, core, tokens, active, conns, timers, callbacks, revoking, handler>>

\* time.AfterFunc starts the callback; Stop has no effect on it afterwards.
TimerFires(t) ==
    /\ t.at <= now
    /\ timers' = timers \ {t}
    /\ callbacks' = callbacks \cup {t.ref}
    /\ UNCHANGED <<now, core, tokens, active, conns, closing, revoking, handler, conn>>

\* Fault: the callback revokes whatever is registered under the ID by now.
CallbackByID(ref) ==
    /\ revokeRef(Timer, [id |-> ref.id, gen |-> gen[ref.id]])
    /\ callbacks' = callbacks \ {ref}
    /\ UNCHANGED <<now, closed, nextGen, creds, exchanges, revoking, handler, conn>>

TimerCallback(ref) ==
    /\ revokeRef(Timer, ref)
    /\ callbacks' = callbacks \ {ref}
    /\ UNCHANGED <<now, closed, nextGen, creds, exchanges, revoking, handler, conn>>

----------------------------------------------------------------------------
(* Requests.                                                               *)

Request(p) ==
    /\ pc[p] = "idle"
    /\ \E h \in Hosts, k \in Kinds, c \in 0 .. creds :
        req' = [req EXCEPT ![p] = [host |-> h, kind |-> k, cred |-> c]]
    /\ pc' = [pc EXCEPT ![p] = "serve"]
    /\ since' = [since EXCEPT ![p] = now]
    /\ UNCHANGED <<now, core, tokens, active, conns, revocation, exposure, conn>>

\* An expired registration found by host is revoked on the spot.
LookupHost(p, next) ==
    LET ref == hosts[req[p].host] IN
    \E t \in Sampled(p) :
        \/ /\ stateMatches(ref) /\ t < expiresAt[ref.id]
           /\ exposure' = [exposure EXCEPT ![p] = [ref |-> ref,
                                                   expiresAt |-> expiresAt[ref.id]]]
           /\ pc' = [pc EXCEPT ![p] = next]
           /\ since' = [since EXCEPT ![p] = now]
           /\ UNCHANGED <<req, revoking>>
        \/ /\ stateMatches(ref) /\ t >= expiresAt[ref.id]
           /\ revoking' = [revoking EXCEPT ![p] = {ref}]
           /\ Goto(p, "revoke")
        \/ /\ ~stateMatches(ref)
           /\ Return(p)
           /\ UNCHANGED revoking

\* ServeHTTP looks the host up first and ignores the Exposure it gets.
ServeHTTP(p) ==
    /\ pc[p] = "serve"
    /\ LookupHost(p, "lookup")
    /\ UNCHANGED <<now, core, tokens, active, conns, timers, callbacks, closing, conn>>

\* Exchange and Authenticate look it up again.
Lookup(p) ==
    /\ pc[p] = "lookup"
    /\ LookupHost(p, IF req[p].kind = "exchange" THEN "consume" ELSE "session")
    /\ UNCHANGED <<now, core, tokens, active, conns, timers, callbacks, closing, conn>>

\* ServeHTTP answers by itself: WebSocket origin, body deadline, method or
\* content type refused, no cookie; WebSocket disabled, body too large.
Reject(p) ==
    /\ pc[p] \in {"lookup", "acquire"}
    /\ Return(p)
    /\ UNCHANGED <<now, core, tokens, active, conns, revocation, conn>>

\* record, ok := m[digest], and the conditions on it.
Valid(records, p, t) ==
    \E r \in records :
        /\ r.cred = req[p].cred
        /\ r.ref = exposure[p].ref
        /\ stateMatches(r.ref)
        /\ t < r.expiresAt

Stale(records, p, t) == {r \in records : r.cred = req[p].cred /\ t >= r.expiresAt}

\* Fault: the capability is left in place until the session exists.
ConsumeNothing(p) ==
    /\ pc[p] = "consume"
    /\ \E t \in Sampled(p) :
        \/ Valid(capabilities, p, t) /\ Goto(p, "issue")
        \/ ~Valid(capabilities, p, t) /\ Return(p)
    /\ UNCHANGED <<now, core, tokens, active, conns, revocation, conn>>

\* Exchange, first section: the capability is consumed.
ConsumeCapability(p) ==
    /\ pc[p] = "consume"
    /\ \E t \in Sampled(p) :
        \/ /\ Valid(capabilities, p, t)
           /\ capabilities' = {r \in capabilities : r.cred # req[p].cred}
           /\ Goto(p, "issue")
        \/ /\ ~Valid(capabilities, p, t)
           /\ capabilities' = capabilities \ Stale(capabilities, p, t)
           /\ Return(p)
    /\ UNCHANGED <<now, core, creds, sessions, exchanges, active, conns, revocation, conn>>

\* Fault: the registration is not checked again.
IssueUnchecked(p) ==
    /\ pc[p] = "issue"
    /\ creds < MaxCreds
    /\ sessions' = sessions \cup {[cred |-> creds + 1, ref |-> exposure[p].ref,
                                   expiresAt |-> exposure[p].expiresAt]}
    /\ creds' = creds + 1
    /\ exchanges' = exchanges \cup
          {[capability |-> req[p].cred, session |-> creds + 1,
            host |-> req[p].host, ref |-> exposure[p].ref]}
    /\ Return(p)
    /\ UNCHANGED <<now, core, capabilities, active, conns, revocation, conn>>

\* Exchange, second section: the session is issued, or refused because the
\* registration ended or expired in between, or the random source failed.
IssueSession(p) ==
    /\ pc[p] = "issue"
    /\ \/ /\ creds < MaxCreds
          /\ stateMatches(exposure[p].ref)
          /\ \E t \in Sampled(p) :
                /\ t < expiresAt[exposure[p].ref.id]
                /\ sessions' = sessions \cup
                    {[cred |-> creds + 1, ref |-> exposure[p].ref,
                      expiresAt |-> Earlier(t + SessionTTL, exposure[p].expiresAt)]}
          /\ creds' = creds + 1
          /\ exchanges' = exchanges \cup
                {[capability |-> req[p].cred, session |-> creds + 1,
                  host |-> req[p].host, ref |-> exposure[p].ref]}
       \/ UNCHANGED <<creds, sessions, exchanges>>
    /\ Return(p)
    /\ UNCHANGED <<now, core, capabilities, active, conns, revocation, conn>>

\* Authenticate, after its LookupHost.
Authenticate(p) ==
    /\ pc[p] = "session"
    /\ \E t \in Sampled(p) :
        \/ /\ Valid(sessions, p, t)
           /\ Goto(p, "acquire")
           /\ UNCHANGED sessions
        \/ /\ ~Valid(sessions, p, t)
           /\ sessions' = sessions \ Stale(sessions, p, t)
           /\ Return(p)
    /\ UNCHANGED <<now, core, creds, capabilities, exchanges, active, conns, revocation, conn>>

\* The registration the Exposure was read from is still there and not expired.
Usable(e, t) == stateMatches(e.ref) /\ t < expiresAt[e.ref.id]

\* Fault: the host is looked up once more and what it stands for by now is used.
AcquireByHost(p) ==
    /\ pc[p] = "acquire"
    /\ LET ref == hosts[req[p].host] IN
        /\ stateMatches(ref) /\ active[ref.id] < MaxConnections
        /\ active' = [active EXCEPT ![ref.id] = @ + 1]
        /\ exposure' = [exposure EXCEPT ![p] = [ref |-> ref, expiresAt |-> expiresAt[ref.id]]]
    /\ pc' = [pc EXCEPT ![p] = "resolve"]
    /\ since' = [since EXCEPT ![p] = now]
    /\ UNCHANGED <<req, now, core, tokens, conns, revocation, conn>>

Acquire(p) ==
    /\ pc[p] = "acquire"
    /\ LET id == exposure[p].ref.id IN
       \E t \in Sampled(p) :
        \/ /\ Usable(exposure[p], t)
           /\ active[id] < MaxConnections
           /\ active' = [active EXCEPT ![id] = @ + 1]
           /\ Goto(p, "resolve")
        \/ /\ ~Usable(exposure[p], t) \/ active[id] >= MaxConnections
           /\ Return(p)
           /\ UNCHANGED active
    /\ UNCHANGED <<now, core, tokens, conns, revocation, conn>>

\* Fault: the slot is given back to whatever is registered under the ID by now.
ReleaseByID(p) ==
    LET id == exposure[p].ref.id IN
    active' = IF active[id] > 0 THEN [active EXCEPT ![id] = @ - 1] ELSE active

\* The deferred release closure of Acquire.
release(p) ==
    LET ref == exposure[p].ref IN
    active' = IF stateMatches(ref) /\ active[ref.id] > 0
              THEN [active EXCEPT ![ref.id] = @ - 1] ELSE active

\* The target is resolved and the transport starts to dial it.
Resolve(p) ==
    /\ pc[p] = "resolve"
    /\ \E c \in Conns :
        /\ conn[c].state = "free"
        /\ \A q \in Callers \cup {Timer} : <<q, c>> \notin closing
        /\ conn' = [conn EXCEPT ![c] = [state |-> "dialing", exposure |-> exposure[p],
                                        since |-> now]]
    /\ Goto(p, "proxy")
    /\ UNCHANGED <<now, core, tokens, active, conns, revocation>>

\* No target; or the proxy returns: the response is complete, the connection
\* failed, or the client left.
ProxyReturns(p) ==
    /\ pc[p] \in {"resolve", "proxy"}
    /\ release(p)
    /\ Return(p)
    /\ UNCHANGED <<now, core, tokens, conns, revocation, conn>>

----------------------------------------------------------------------------
(* Upstream connections, dialled by goroutines of the transport that may   *)
(* outlive the request.                                                    *)

Dialed(c) ==
    /\ conn[c].state = "dialing"
    /\ \/ conn' = [conn EXCEPT ![c].state = "dialed", ![c].since = now]
       \/ conn' = [conn EXCEPT ![c] = NoConn]
    /\ UNCHANGED <<now, core, tokens, active, conns, revocation, handler>>

\* Fault: only the ID is looked up.
TrackByID(c) ==
    /\ conn[c].state = "dialed"
    /\ gen[conn[c].exposure.ref.id] # 0
    /\ conns' = [conns EXCEPT ![conn[c].exposure.ref.id] = @ \cup {c}]
    /\ conn' = [conn EXCEPT ![c].state = "open"]
    /\ UNCHANGED <<now, core, tokens, active, revocation, handler>>

TrackConnection(c) ==
    /\ conn[c].state = "dialed"
    /\ \E t \in conn[c].since .. now :
        \/ /\ Usable(conn[c].exposure, t)
           /\ conns' = [conns EXCEPT ![conn[c].exposure.ref.id] = @ \cup {c}]
           /\ conn' = [conn EXCEPT ![c].state = "open"]
        \/ /\ ~Usable(conn[c].exposure, t)
           /\ conn' = [conn EXCEPT ![c] = NoConn]
           /\ UNCHANGED conns
    /\ UNCHANGED <<now, core, tokens, active, revocation, handler>>

\* trackedConn.Close: the socket is closed, then the entry deleted under r.mu.
\* The transport calls it when the exchange ends, or when reading fails because
\* revokeRef closed the socket.
TransportCloses(c) ==
    /\ conn[c].state = "open"
    /\ conn' = [conn EXCEPT ![c].state = "closed"]
    /\ UNCHANGED <<now, core, tokens, active, conns, revocation, handler>>

Untrack(c) ==
    /\ conn[c].state = "closed"
    /\ LET ref == conn[c].exposure.ref IN
       conns' = IF stateMatches(ref) THEN [conns EXCEPT ![ref.id] = @ \ {c}] ELSE conns
    /\ conn' = [conn EXCEPT ![c] = NoConn]
    /\ UNCHANGED <<now, core, tokens, active, revocation, handler>>

Tick ==
    /\ now < MaxTime
    /\ now' = now + 1
    /\ UNCHANGED <<core, tokens, active, conns, revocation, handler, conn>>

----------------------------------------------------------------------------
Init == NewRegistry

HandlerStep(p) ==
    \/ Request(p) \/ ServeHTTP(p) \/ Lookup(p) \/ Reject(p)
    \/ ConsumeCapability(p) \/ IssueSession(p)
    \/ Authenticate(p) \/ Acquire(p) \/ Resolve(p) \/ ProxyReturns(p)

RevokeStep(p) == RevokeNext(p) \/ RevokeReturns(p)

ConnStep(c) == Dialed(c) \/ TrackConnection(c) \/ TransportCloses(c) \/ Untrack(c)

Next ==
    \/ \E id \in IDs, h \in Hosts, e \in 0 .. MaxTime : Register(id, h, e)
    \/ \E a \in Admins : Close(a) \/ \E id \in IDs : Revoke(a, id)
    \/ \E p \in Handlers : HandlerStep(p)
    \/ \E p \in Callers : RevokeStep(p)
    \/ \E p \in Callers \cup {Timer}, c \in Conns : CloseConn(p, c)
    \/ \E t \in timers : TimerFires(t)
    \/ \E ref \in callbacks : TimerCallback(ref)
    \/ \E c \in Conns : ConnStep(c)
    \/ Tick

Spec == Init /\ [][Next]_vars

----------------------------------------------------------------------------
(* Safety.                                                                 *)

\* A bootstrap capability is exchanged for at most one session, although
\* Exchange unlocks the registry between consuming the one and issuing the other.
SingleUse ==
    \A x, y \in exchanges : x.capability = y.capability => x = y

\* A request that passed Authenticate carries the session that was issued, on
\* the same host, for exactly the registration it is about to reach, however
\* often the exposure ID or the host was revoked and registered again since.
SessionsStayBound ==
    \A p \in Handlers : pc[p] \in {"acquire", "resolve", "proxy"} =>
        \E x \in exchanges :
            /\ x.session = req[p].cred
            /\ x.host = req[p].host
            /\ x.ref = exposure[p].ref

\* Host entries, capabilities and sessions belong to a registration that is in
\* force: revokeRef leaves none behind and no late Exchange adds one.
AuthorityIsLive ==
    /\ \A h \in Hosts : hosts[h].gen # 0 => stateMatches(hosts[h]) /\ hostOf[hosts[h].id] = h
    /\ \A r \in capabilities \cup sessions :
        stateMatches(r.ref) /\ r.expiresAt <= expiresAt[r.ref.id]

\* No connection escapes revocation: an open upstream connection is listed in
\* the registration it was dialled for, or some revokeRef is about to close it.
NoOrphanConnection ==
    \A c \in Conns : conn[c].state = "open" =>
        \/ /\ stateMatches(conn[c].exposure.ref)
           /\ c \in conns[conn[c].exposure.ref.id]
        \/ \E p \in Callers \cup {Timer} : <<p, c>> \in closing

\* The connection count of a registration is the number of requests that hold
\* one of its slots, never more than MaxConnections; requests of an earlier
\* registration of the same ID neither take nor give back a slot.
Slots(ref) ==
    {p \in Handlers : pc[p] \in {"resolve", "proxy"} /\ exposure[p].ref = ref}

SlotsAccounted ==
    \A ref \in LiveRefs :
        /\ active[ref.id] = Cardinality(Slots(ref))
        /\ active[ref.id] <= MaxConnections

\* A registration ends before its expiry only by a Revoke that found it in
\* force, or by Close: neither a late timer callback, nor a lookup that found the
\* previous registration expired, nor a slow Revoke ends its successor.
EndedForCause ==
    [][\A id \in IDs : gen[id] # 0 /\ gen'[id] = 0 =>
          \/ expiresAt[id] <= now
          \/ \E a \in Admins : [id |-> id, gen |-> gen[id]] \in revoking[a]]_vars

\* Once Close has returned nothing is registered, also when a Register raced it.
ClosedIsEmpty ==
    closed /\ (\A a \in Admins : pc[a] = "idle") => \A id \in IDs : gen[id] = 0

----------------------------------------------------------------------------
(* Liveness: timers fire, their callbacks and every revokeRef that has     *)
(* begun run on, and the clock advances.  Nothing is assumed of requests,  *)
(* of the transport or of the control side's calls.                        *)

Fairness ==
    /\ WF_vars(Tick)
    /\ WF_vars(\E t \in timers : TimerFires(t))
    /\ WF_vars(\E ref \in callbacks : TimerCallback(ref))
    /\ \A p \in Callers : WF_vars(RevokeStep(p))
    /\ \A p \in Callers \cup {Timer}, c \in Conns : WF_vars(CloseConn(p, c))

LiveSpec == Spec /\ Fairness

\* No upstream connection stays open past the end of its registration, whether
\* it ends by Revoke, Close or expiry, and although the workload and the client
\* keep it open.
ConnectionsEnd ==
    \A c \in Conns :
        (conn[c].state = "open" /\ ~Usable(conn[c].exposure, now)) ~> (conn[c].state # "open")

=============================================================================
