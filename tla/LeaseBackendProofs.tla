------------------------- MODULE LeaseBackendProofs -------------------------
(***************************************************************************)
(* The lease backend's safety, proved for any number of handlers, leases,  *)
(* scopes and keys, for any clock bound and with crashes, SIGTERM and      *)
(* failing API calls at every point.                                       *)
(***************************************************************************)
EXTENDS LeaseBackend, TLAPS

\* Actions that touch neither the cluster nor the program counters of Acquire
\* and Release in a way the invariants below notice are grouped in the proofs
\* by what they change.

----------------------------------------------------------------------------
(* Types.                                                                  *)

\* The part of TypeOK the safety proofs use.
Types ==
    /\ now \in Nat
    /\ phase \in [LeaseIDs -> Phases]
    /\ owner \in [LeaseIDs -> Scopes \cup {None}]
    /\ idemKey \in [LeaseIDs -> Keys \cup {None}]
    /\ expires \in [LeaseIDs -> Nat]
    /\ runtime \in [LeaseIDs -> Runtimes]
    /\ app \in Apps
    /\ acquireMu \in Handlers \cup {None}
    /\ pc \in [Procs -> HandlerPCs \cup SweeperPCs]
    /\ \A p \in Handlers : pc[p] \in HandlerPCs
    /\ pc[Sweeper] \in SweeperPCs
    /\ req \in [Procs -> RequestType]
    /\ queue \in [Procs -> SUBSET LeaseIDs]
    /\ granted \subseteq (Scopes \cup {None}) \X (Keys \cup {None}) \X LeaseIDs
    /\ released \in SUBSET LeaseIDs
    /\ blocked \in SUBSET LeaseIDs
    /\ active \in [LeaseIDs -> SUBSET Handlers]
    /\ waiting \in [Procs -> SUBSET Handlers]

\* A goroutine past the entry of an operation on a lease has the lease's ID.
HasLease ==
    \A p \in Procs :
        pc[p] \in {"ready", "verify", "cleanup", "require", "target", "exec", "begin", "stream",
                   "stop", "await", "delete"}
        => req[p].lid \in LeaseIDs

TypesInv == Types /\ HasLease

\* The goroutines' own state is well typed.
Locals ==
    /\ pc \in [Procs -> HandlerPCs \cup SweeperPCs]
    /\ \A p \in Handlers : pc[p] \in HandlerPCs
    /\ pc[Sweeper] \in SweeperPCs
    /\ req \in [Procs -> RequestType]
    /\ queue \in [Procs -> SUBSET LeaseIDs]
    /\ HasLease

LEMMA ReturnLocals ==
    ASSUME TypesInv, NEW p \in Procs, Return(p)
    PROVE  Locals'
<1>1. NoReq \in RequestType
  BY DEF NoReq, RequestType
<1> QED
  BY <1>1, ProcAssumption DEF TypesInv, Types, HasLease, Locals, Return, Goto, HandlerPCs,
     SweeperPCs, Procs

LEMMA InitTypes == Init => TypesInv
  BY ProcAssumption DEF Init, TypesInv, Types, HasLease, Phases, Runtimes, Apps, HandlerPCs,
     SweeperPCs,
     AcquirePCs, StopPCs, RequestType, NoReq, Procs, T!newTransferManager

LEMMA RequestTypes ==
    ASSUME TypesInv, NEW p \in Handlers, Request(p)
    PROVE  TypesInv'
<1>1. PICK r \in AcquireRequests \cup LeaseRequests :
        /\ req' = [req EXCEPT ![p] = r]
        /\ pc' = [pc EXCEPT ![p] = IF r.op = "acquire" THEN "lock" ELSE "require"]
  BY DEF Request, Goto
<1>2. /\ r \in RequestType
      /\ r.op # "acquire" => r.lid \in LeaseIDs
  <2>1. CASE r \in AcquireRequests
    <3>1. r \in [op : {"acquire"}, scope : Scopes, key : Keys, ttl : TTLs, lid : {None}, exp : {0}]
      BY <2>1 DEF AcquireRequests
    <3>2. /\ r = [op |-> r.op, scope |-> r.scope, key |-> r.key, ttl |-> r.ttl,
                  lid |-> r.lid, exp |-> r.exp]
          /\ r.op = "acquire" /\ r.scope \in Scopes /\ r.key \in Keys
          /\ r.ttl \in TTLs /\ r.lid = None /\ r.exp = 0
      BY <3>1
    <3>3. r.ttl \in Nat
      BY <3>2, BoundAssumption
    <3> QED
      BY <3>2, <3>3 DEF RequestType
  <2>2. CASE r \in LeaseRequests
    BY <2>2 DEF LeaseRequests, RequestType
  <2> QED
    BY <2>1, <2>2
<1>3. Locals'
  BY <1>1, <1>2, ProcAssumption
  DEF TypesInv, Types, HasLease, Locals, Request, HandlerPCs, SweeperPCs, AcquirePCs, StopPCs, Procs
<1> QED
  BY <1>3 DEF TypesInv, Types, Locals, Request, cluster, tvars, history

LEMMA GrantTypes ==
    ASSUME TypesInv, NEW p \in Handlers, NEW id \in LeaseIDs, Grant(p, id)
    PROVE  granted' \subseteq (Scopes \cup {None}) \X (Keys \cup {None}) \X LeaseIDs
<1>1. req[p].scope \in Scopes \cup {None} /\ req[p].key \in Keys \cup {None}
  BY DEF TypesInv, Types, RequestType, Procs
<1> QED
  BY <1>1 DEF TypesInv, Types, Grant

LEMMA AcquireTypes ==
    ASSUME TypesInv, NEW p \in Handlers, AcquireStep(p)
    PROVE  TypesInv'
<1> USE ProcAssumption, BoundAssumption DEF TypesInv, Types, HasLease, Goto, Return, Unlock,
    NoReq, RequestType,
        HandlerPCs, SweeperPCs, AcquirePCs, StopPCs, Procs, cluster, tvars, history
<1>1. CASE Lock(p)
  <2>1. CASE Return(p) /\ UNCHANGED acquireMu
    BY <1>1, <2>1, ReturnLocals DEF Lock, Locals
  <2>2. CASE acquireMu' = p /\ Goto(p, "find") /\ UNCHANGED <<req, queue>>
    BY <1>1, <2>2 DEF Lock
  <2> QED
    BY <1>1, <2>1, <2>2 DEF Lock
<1>2. CASE Find(p)
  <2>1. CASE Return(p) /\ Unlock
    BY <1>2, <2>1, ReturnLocals DEF Find, Locals
  <2>2. CASE /\ queue' = [queue EXCEPT ![p] = SameKey(req[p].scope, req[p].key)]
             /\ Goto(p, "scan")
             /\ UNCHANGED <<acquireMu, req>>
    BY <1>2, <2>2 DEF Find, SameKey
  <2> QED
    BY <1>2, <2>1, <2>2 DEF Find
<1>3. CASE ScanReplay(p)
  <2>1. PICK id \in LeaseIDs : Grant(p, id)
    BY <1>3 DEF ScanReplay
  <2>2. granted' \subseteq (Scopes \cup {None}) \X (Keys \cup {None}) \X LeaseIDs
    BY <2>1, GrantTypes
  <2> QED
    BY <1>3, <2>2 DEF ScanReplay
<1>4. CASE ScanExpired(p)
  BY <1>4 DEF ScanExpired, deleteClaim, Phases
<1>5. CASE ScanDone(p)
  BY <1>5 DEF ScanDone
<1>6. CASE Create(p)
  BY <1>6 DEF Create, buildClaim, Phases
<1>7. CASE CreateFails(p)
  BY SMTT(30), <1>7 DEF CreateFails, buildClaim, Phases
<1>8. CASE Ready(p)
  BY <1>8 DEF Ready
<1>9. CASE Verify(p)
  <2>1. granted' \subseteq (Scopes \cup {None}) \X (Keys \cup {None}) \X LeaseIDs
    BY <1>9, GrantTypes DEF Verify
  <2> QED
    BY <1>9, <2>1 DEF Verify
<1>10. CASE NotReady(p)
  BY <1>10 DEF NotReady
<1>11. CASE Cleanup(p)
  <2>1. Locals' /\ UNCHANGED granted
    BY <1>11, ReturnLocals DEF Cleanup
  <2>2. phase' \in [LeaseIDs -> Phases]
    BY <1>11 DEF Cleanup, deleteClaim, Phases
  <2> QED
    BY <1>11, <2>1, <2>2 DEF Cleanup, Locals
<1>12. CASE ScanFails(p)
  BY <1>12, ReturnLocals DEF ScanFails, Locals
<1> QED
  BY <1>1, <1>2, <1>3, <1>4, <1>5, <1>6, <1>7, <1>8, <1>9, <1>10, <1>11, <1>12 DEF AcquireStep

LEMMA LeaseTypes ==
    ASSUME TypesInv, NEW p \in Handlers, LeaseStep(p)
    PROVE  TypesInv'
<1> USE ProcAssumption, BoundAssumption DEF TypesInv, Types, Locals, HasLease, Goto,
        HandlerPCs, SweeperPCs, AcquirePCs, StopPCs, Procs, cluster, tvars, history
<1>1. CASE RequireFails(p) \/ GetActive(p) \/ ExecReturn(p) \/ HandlerDeleteFails(p)
  BY <1>1, ReturnLocals DEF RequireFails, GetActive, ExecReturn, HandlerDeleteFails
<1>2. CASE RequireStop(p)
  BY <1>2 DEF RequireStop
<1>3. CASE RequireActive(p)
  <2>1. req[p].lid \in LeaseIDs /\ expires[req[p].lid] \in Nat
    BY <1>3 DEF RequireActive
  <2>2. req' \in [Procs -> RequestType] /\ \A q \in Procs : req'[q].lid = req[q].lid
    BY <1>3, <2>1 DEF RequireActive, RequestType
  <2>3. /\ pc' \in [Procs -> HandlerPCs \cup SweeperPCs]
        /\ \A q \in Handlers : pc'[q] \in HandlerPCs
        /\ pc'[Sweeper] \in SweeperPCs
    BY <1>3 DEF RequireActive
  <2>4. HasLease'
    BY <1>3, <2>1, <2>2 DEF RequireActive
  <2> QED
    BY <1>3, <2>2, <2>3, <2>4 DEF RequireActive
<1>4. CASE Target(p)
  <2>1. CASE Return(p)
    BY <1>4, <2>1, ReturnLocals DEF Target
  <2>2. CASE Goto(p, IF req[p].op = "exec" THEN "exec" ELSE "begin") /\ UNCHANGED <<req, queue>>
    BY <1>4, <2>2 DEF Target
  <2> QED
    BY <1>4, <2>1, <2>2 DEF Target
<1>5. CASE Begin(p)
  <2>1. CASE T!beginRefused(req[p].lid) /\ Return(p)
    BY <1>5, <2>1, ReturnLocals DEF Begin, T!beginRefused, T!tvars
  <2>2. CASE /\ T!begin(p, req[p].lid, req[p].exp)
             /\ Goto(p, "stream")
             /\ UNCHANGED <<req, queue>>
    BY <1>5, <2>2 DEF Begin, T!begin, T!Register
  <2> QED
    BY <1>5, <2>1, <2>2 DEF Begin
<1>6. CASE StreamReturn(p)
  BY <1>6, ReturnLocals DEF StreamReturn, T!finish
<1>7. CASE HandlerDelete(p)
  BY <1>7, ReturnLocals DEF HandlerDelete, deleteClaim, Phases
<1> QED
  BY <1>1, <1>2, <1>3, <1>4, <1>5, <1>6, <1>7 DEF LeaseStep

LEMMA StopTypes ==
    ASSUME TypesInv, NEW p \in Procs, StopStep(p)
    PROVE  TypesInv'
<1> USE ProcAssumption DEF TypesInv, Types, Locals, HasLease, Goto, HandlerPCs, SweeperPCs,
    AcquirePCs,
        StopPCs, Procs, cluster, tvars, history
<1>1. CASE Stop(p)
  BY <1>1 DEF Stop, T!stopLease
<1>2. CASE Stopped(p)
  BY <1>2 DEF Stopped
<1>3. CASE StopAborted(p)
  BY <1>3, ReturnLocals DEF StopAborted, T!waitAborted
<1> QED
  BY <1>1, <1>2, <1>3 DEF StopStep

\* A process that has lost its memory is well typed.
LEMMA ExitTypes ==
    ASSUME TypesInv, Exit, UNCHANGED <<now, cluster, history>>
    PROVE  TypesInv'
<1>1. NoReq \in RequestType
  BY DEF NoReq, RequestType
<1> QED
  BY <1>1, ProcAssumption DEF TypesInv, Types, HasLease, Exit, LoseMemory, T!restart,
     HandlerPCs, SweeperPCs,
     Procs, Apps, cluster, history

LEMMA SweepTypes ==
    ASSUME TypesInv, SweepStep
    PROVE  TypesInv'
<1> USE ProcAssumption DEF TypesInv, Types, Locals, HasLease, Goto, HandlerPCs, SweeperPCs,
    AcquirePCs,
        StopPCs, Procs, cluster, tvars, history
<1>0. NoReq \in RequestType
  BY DEF NoReq, RequestType
<1>1. CASE Recover \/ SweepStart \/ SweepList
  BY <1>1 DEF Recover, SweepStart, SweepList
<1>2. ASSUME NEW i \in LeaseIDs, SweepNext(i) PROVE TypesInv'
  <2>1. PICK id \in queue[Sweeper] :
          /\ queue' = [queue EXCEPT ![Sweeper] = @ \ {id}]
          /\ \/ /\ req' = [req EXCEPT ![Sweeper] = SweepRequest(id)]
                /\ pc' = [pc EXCEPT ![Sweeper] = "stop"]
             \/ UNCHANGED <<req, pc>>
    BY <1>2 DEF SweepNext
  <2>2. /\ SweepRequest(id) \in RequestType
        /\ SweepRequest(id).lid = id
        /\ id \in LeaseIDs
    BY <2>1 DEF SweepRequest, NoReq, RequestType
  <2>3. Locals'
    BY <2>1, <2>2
  <2> QED
    BY <1>2, <2>3 DEF SweepNext
<1>3. CASE SweepDelete
  BY <1>0, <1>3 DEF SweepDelete, deleteClaim, Phases
<1>4. CASE SweepDone
  BY <1>4, ReturnLocals DEF SweepDone, Apps
<1>5. CASE SweepFails
  <2>1. CASE app = "starting"
    BY <1>5, <2>1, ExitTypes DEF SweepFails
  <2>2. CASE app # "starting"
    BY <1>5, <2>2, ReturnLocals DEF SweepFails
  <2> QED
    BY <2>1, <2>2
<1> QED
  BY <1>1, <1>2, <1>3, <1>4, <1>5 DEF SweepStep

LEMMA EnvTypes ==
    ASSUME TypesInv, AppStep \/ (\E id \in LeaseIDs : Bind(id) \/ ClusterStep(id)) \/ Tick
    PROVE  TypesInv'
<1> USE ProcAssumption DEF TypesInv, Types, Goto, HandlerPCs, SweeperPCs, AcquirePCs,
        StopPCs, Procs, cluster, tvars, history
<1>1. CASE CloseReturns \/ ShutdownTimeout \/ Crash
  BY <1>1, ExitTypes DEF CloseReturns, ShutdownTimeout, Crash
<1>2. CASE Restart
  BY <1>2 DEF Restart, Apps, HasLease
<1>3. CASE Terminate \/ Shutdown
  BY <1>3 DEF Terminate, Shutdown, Apps, HasLease
<1>4. CASE CloseBackend
  BY <1>4 DEF CloseBackend, T!close, Apps, HasLease
<1>5. ASSUME NEW id \in LeaseIDs, Bind(id) \/ ClusterStep(id) PROVE TypesInv'
  BY <1>5 DEF Bind, ClusterStep, Phases, Runtimes, HasLease
<1>6. CASE Tick
  BY <1>6 DEF Tick, HasLease
<1> QED
  BY <1>1, <1>2, <1>3, <1>4, <1>5, <1>6 DEF AppStep

\* Every reachable state of the backend is well typed, and every goroutine that
\* works on a lease has a lease ID.
THEOREM TypesCorrect == Spec => []TypesInv
<1>1. TypesInv /\ [Next]_vars => TypesInv'
  <2> SUFFICES ASSUME TypesInv, [Next]_vars PROVE TypesInv'
    OBVIOUS
  <2>1. CASE UNCHANGED vars
    BY <2>1 DEF vars, cluster, tvars, history, TypesInv, Types, HasLease
  <2> QED
    BY <2>1, RequestTypes, AcquireTypes, LeaseTypes, StopTypes, SweepTypes, EnvTypes DEF Next
<1> QED
  BY <1>1, InitTypes, PTL DEF Spec

----------------------------------------------------------------------------
(* At most one active lease per scope and key.                             *)

NoLateCreates == "late" \notin Faults

\* Acquire is serialised by acquireMu.
MutexInv == \A p \in Handlers : pc[p] \in AcquirePCs => acquireMu = p

SameKeyAs(p, id) == owner[id] = req[p].scope /\ idemKey[id] = req[p].key

\* While the caller scans, every active lease of its key is still to be scanned.
ScanInv ==
    \A p \in Handlers : pc[p] = "scan" =>
        \A id \in LeaseIDs : Active(id) /\ SameKeyAs(p, id) => id \in queue[p]

\* When the caller creates, its key has no active lease.
CreateInv ==
    \A p \in Handlers : pc[p] = "create" =>
        \A id \in LeaseIDs : ~(Active(id) /\ SameKeyAs(p, id))

\* No claim appears outside the critical section.
NoInflight == \A id \in LeaseIDs : phase[id] # "inflight"

KeyInv == MutexInv /\ ScanInv /\ CreateInv /\ NoInflight /\ OneActiveLeasePerKey

\* What all but five actions do as far as KeyInv can see: no claim becomes
\* active, and a goroutine in the scan or before Create was there before.
KeyFrame ==
    /\ \A id \in LeaseIDs : phase'[id] = "live" => phase[id] = "live"
    /\ \A id \in LeaseIDs : phase'[id] # "inflight"
    /\ UNCHANGED <<owner, idemKey, expires>>
    /\ now' \in Nat /\ now <= now'
    /\ \A q \in Handlers : pc'[q] \in AcquirePCs => acquireMu' = q
    /\ \A q \in Handlers : pc'[q] \in {"scan", "create"} =>
        /\ pc[q] = pc'[q] /\ queue'[q] = queue[q]
        /\ req'[q].scope = req[q].scope /\ req'[q].key = req[q].key

LEMMA KeyFrameInv ==
    ASSUME TypesInv, KeyInv, KeyFrame
    PROVE  KeyInv'
<1>1. \A id \in LeaseIDs : Active(id)' => Active(id)
  BY DEF TypesInv, Types, KeyFrame, Active, Expired
<1>2. OneActiveLeasePerKey'
  BY <1>1 DEF KeyInv, KeyFrame, OneActiveLeasePerKey
<1>3. ScanInv' /\ CreateInv'
  BY <1>1 DEF KeyInv, KeyFrame, ScanInv, CreateInv, SameKeyAs
<1> QED
  BY <1>2, <1>3 DEF KeyInv, KeyFrame, MutexInv, NoInflight

LEMMA AcquireKey ==
    ASSUME TypesInv, KeyInv, NoLateCreates, NEW p \in Handlers, AcquireStep(p)
    PROVE  KeyInv'
<1> USE ProcAssumption DEF TypesInv, Types, KeyInv, MutexInv, Goto, Return, Unlock,
        AcquirePCs, Procs, cluster, tvars, history
<1>1. CASE Lock(p)
  <2>1. KeyFrame
    BY <1>1 DEF Lock, KeyFrame, NoInflight
  <2> QED
    BY <2>1, KeyFrameInv
<1>2. CASE Find(p)
  <2>1. CASE Return(p) /\ Unlock
    <3>1. KeyFrame
      BY <1>2, <2>1 DEF Find, KeyFrame, NoInflight
    <3> QED
      BY <3>1, KeyFrameInv
  <2>2. CASE /\ queue' = [queue EXCEPT ![p] = SameKey(req[p].scope, req[p].key)]
             /\ Goto(p, "scan")
             /\ UNCHANGED <<acquireMu, req>>
    <3>1. UNCHANGED <<now, phase, owner, idemKey, expires>>
      BY <1>2 DEF Find
    <3>2. ScanInv'
      BY <2>2, <3>1 DEF ScanInv, SameKeyAs, SameKey, Active, Expired
    <3>3. CreateInv' /\ NoInflight' /\ OneActiveLeasePerKey'
      BY <2>2, <3>1 DEF CreateInv, SameKeyAs, NoInflight, OneActiveLeasePerKey, Active, Expired
    <3>4. MutexInv'
      BY <1>2, <2>2 DEF Find
    <3> QED
      BY <3>2, <3>3, <3>4
  <2> QED
    BY <1>2, <2>1, <2>2 DEF Find
<1>3. CASE ScanReplay(p) \/ Verify(p) \/ ScanFails(p)
  <2>1. KeyFrame
    BY <1>3 DEF ScanReplay, Verify, ScanFails, KeyFrame, NoInflight
  <2> QED
    BY <2>1, KeyFrameInv
<1>4. CASE ScanExpired(p)
  <2>1. PICK id \in queue[p] :
          /\ Expired(id)
          /\ deleteClaim(id) \/ UNCHANGED phase
          /\ queue' = [queue EXCEPT ![p] = @ \ {id}]
    BY <1>4 DEF ScanExpired
  <2>2. UNCHANGED <<now, owner, idemKey, expires, acquireMu, pc, req>>
    BY <1>4 DEF ScanExpired
  <2>3. \A j \in LeaseIDs : (phase'[j] = "live" => phase[j] = "live") /\ phase'[j] # "inflight"
    BY <2>1 DEF deleteClaim, NoInflight
  <2>4. \A j \in LeaseIDs : Active(j)' => Active(j) /\ j # id
    BY <2>1, <2>2, <2>3 DEF Active, Expired
  <2>5. ScanInv' /\ CreateInv'
    BY <2>1, <2>2, <2>4 DEF ScanInv, CreateInv, SameKeyAs
  <2>6. OneActiveLeasePerKey' /\ NoInflight' /\ MutexInv'
    BY <2>2, <2>3, <2>4 DEF OneActiveLeasePerKey, NoInflight
  <2> QED
    BY <2>5, <2>6
<1>5. CASE ScanDone(p)
  <2>1. UNCHANGED <<now, phase, owner, idemKey, expires, acquireMu, queue>>
    BY <1>5 DEF ScanDone
  <2>2. /\ pc[p] = "scan" /\ queue[p] = {} /\ pc' = [pc EXCEPT ![p] = "create"]
        /\ \A q \in Handlers : req'[q].scope = req[q].scope /\ req'[q].key = req[q].key
    BY <1>5 DEF ScanDone, RequestType
  <2>3. \A id \in LeaseIDs : Active(id)' <=> Active(id)
    BY <2>1 DEF Active, Expired
  <2>4. ScanInv' /\ CreateInv'
    BY <2>1, <2>2, <2>3 DEF ScanInv, CreateInv, SameKeyAs
  <2> QED
    BY <2>1, <2>2, <2>3, <2>4 DEF OneActiveLeasePerKey, NoInflight
<1>6. CASE Create(p) \/ CreateFails(p)
  <2>1. CASE UNCHANGED cluster /\ CreateFails(p)
    <3>1. KeyFrame
      BY <2>1 DEF CreateFails, KeyFrame, NoInflight
    <3> QED
      BY <3>1, KeyFrameInv
  <2>2. ASSUME NEW id \in LeaseIDs, phase[id] = "absent", buildClaim(p, id, "live")
        PROVE  KeyInv'
    <3>1. /\ pc[p] = "create" /\ acquireMu = p /\ now' = now
          /\ \A q \in Handlers : q # p => pc'[q] = pc[q] /\ pc'[q] \notin AcquirePCs
          /\ pc'[p] \in {"idle", "ready"} /\ (pc'[p] = "ready" => acquireMu' = p)
      BY <1>6 DEF Create, CreateFails
    <3>2. /\ phase' = [phase EXCEPT ![id] = "live"]
          /\ owner' = [owner EXCEPT ![id] = req[p].scope]
          /\ idemKey' = [idemKey EXCEPT ![id] = req[p].key]
          /\ expires' = [expires EXCEPT ![id] = req[p].exp]
      BY <2>2 DEF buildClaim
    <3>3. \A j \in LeaseIDs : j # id =>
            /\ Active(j)' <=> Active(j)
            /\ owner'[j] = owner[j] /\ idemKey'[j] = idemKey[j]
      BY <3>1, <3>2 DEF Active, Expired
    <3>4. \A j \in LeaseIDs : ~(Active(j) /\ SameKeyAs(p, j))
      BY <3>1 DEF CreateInv
    <3>5. owner'[id] = req[p].scope /\ idemKey'[id] = req[p].key
      BY <3>2
    <3>6. OneActiveLeasePerKey'
      BY <3>3, <3>4, <3>5 DEF OneActiveLeasePerKey, SameKeyAs
    <3>7. ScanInv' /\ CreateInv' /\ MutexInv'
      BY <3>1 DEF ScanInv, CreateInv
    <3>8. NoInflight'
      BY <3>2 DEF NoInflight
    <3> QED
      BY <3>6, <3>7, <3>8
  <2> QED
    BY <1>6, <2>1, <2>2 DEF Create, CreateFails, NoLateCreates
<1>7. CASE Ready(p) \/ NotReady(p)
  <2>1. KeyFrame
    BY <1>7 DEF Ready, NotReady, KeyFrame, NoInflight
  <2> QED
    BY <2>1, KeyFrameInv
<1>8. CASE Cleanup(p)
  <2>1. KeyFrame
    BY <1>8 DEF Cleanup, deleteClaim, KeyFrame, NoInflight
  <2> QED
    BY <2>1, KeyFrameInv
<1> QED
  BY <1>1, <1>2, <1>3, <1>4, <1>5, <1>6, <1>7, <1>8 DEF AcquireStep

LEMMA OtherKey ==
    ASSUME TypesInv, KeyInv,
           \/ \E p \in Handlers : Request(p) \/ LeaseStep(p)
           \/ \E p \in Procs : StopStep(p)
           \/ SweepStep \/ AppStep \/ Tick
           \/ \E id \in LeaseIDs : Bind(id) \/ ClusterStep(id)
           \/ UNCHANGED vars
    PROVE  KeyFrame
<1> USE ProcAssumption DEF TypesInv, Types, KeyInv, MutexInv, NoInflight, KeyFrame, Goto, Return,
        AcquirePCs, SweeperPCs, StopPCs, Procs, cluster, tvars, history
<1>1. ASSUME NEW p \in Handlers, Request(p) PROVE KeyFrame
  BY <1>1 DEF Request
<1>2. ASSUME NEW p \in Handlers, LeaseStep(p) PROVE KeyFrame
  <2>1. CASE RequireFails(p) \/ GetActive(p) \/ RequireStop(p) \/ RequireActive(p)
    BY <2>1 DEF RequireFails, GetActive, RequireStop, RequireActive
  <2>2. CASE Target(p) \/ ExecReturn(p) \/ Begin(p) \/ StreamReturn(p)
    BY <2>2 DEF Target, ExecReturn, Begin, StreamReturn
  <2>3. CASE HandlerDelete(p) \/ HandlerDeleteFails(p)
    BY <2>3 DEF HandlerDelete, HandlerDeleteFails, deleteClaim
  <2> QED
    BY <1>2, <2>1, <2>2, <2>3 DEF LeaseStep
<1>3. ASSUME NEW p \in Procs, StopStep(p) PROVE KeyFrame
  BY <1>3 DEF StopStep, Stop, Stopped, StopAborted
<1>4. ASSUME Exit, UNCHANGED <<now, cluster, history>> PROVE KeyFrame
  BY <1>4 DEF Exit, LoseMemory
<1>5. CASE SweepStep
  <2>1. CASE Recover \/ SweepStart \/ SweepList \/ \E id \in LeaseIDs : SweepNext(id)
    BY <2>1 DEF Recover, SweepStart, SweepList, SweepNext
  <2>2. CASE SweepDelete \/ SweepDone
    BY <2>2 DEF SweepDelete, SweepDone, deleteClaim
  <2>3. CASE SweepFails
    BY <2>3, <1>4 DEF SweepFails
  <2> QED
    BY <1>5, <2>1, <2>2, <2>3 DEF SweepStep
<1>6. CASE AppStep
  BY <1>6, <1>4 DEF AppStep, Restart, Terminate, Shutdown, CloseBackend, CloseReturns,
     ShutdownTimeout, Crash
<1>7. ASSUME NEW id \in LeaseIDs, Bind(id) \/ ClusterStep(id) PROVE KeyFrame
  BY <1>7 DEF Bind, ClusterStep
<1>8. CASE Tick \/ UNCHANGED vars
  BY <1>8 DEF Tick, vars
<1> QED
  BY <1>1, <1>2, <1>3, <1>5, <1>6, <1>7, <1>8

LEMMA KeyStep == NoLateCreates /\ TypesInv /\ KeyInv /\ [Next]_vars => KeyInv'
  BY AcquireKey, OtherKey, KeyFrameInv DEF Next

LEMMA KeyInit == Init => KeyInv
  BY DEF Init, KeyInv, MutexInv, ScanInv, CreateInv, NoInflight, OneActiveLeasePerKey, Active,
     AcquirePCs, Procs

LEMMA KeyAlways == NoLateCreates => (Spec => []KeyInv)
<1> SUFFICES ASSUME NoLateCreates PROVE Spec => []KeyInv
  OBVIOUS
<1>1. TypesInv /\ KeyInv /\ [Next]_vars => KeyInv'
  BY KeyStep
<1> QED
  BY <1>1, KeyInit, TypesCorrect, PTL DEF Spec

\* At most one active lease per tenant scope and idempotency key, for any
\* number of concurrent Acquire calls, crashes and restarts, provided no Create
\* takes effect after its caller gave up (Backend.Acquire).
THEOREM OneActiveLease == NoLateCreates => (Spec => []OneActiveLeasePerKey)
<1> SUFFICES ASSUME NoLateCreates PROVE Spec => []OneActiveLeasePerKey
  OBVIOUS
<1>1. KeyInv => OneActiveLeasePerKey
  BY DEF KeyInv
<1> QED
  BY <1>1, KeyAlways, PTL

----------------------------------------------------------------------------
(* Release, deletion and transfers.                                        *)

Stored == {"live", "deleting", "gone"}
TransferPCs == {"target", "begin", "stream"}

\* Goroutines past requireClaim, and the sweep, work on claims that were stored.
ExistsInv ==
    /\ \A p \in Procs : pc[p] \in TransferPCs \cup StopPCs => phase[req[p].lid] \in Stored
    /\ \A id \in queue[Sweeper] : phase[id] \in Stored

\* stopLease: the lease is blocked from its critical section on, so what the
\* caller awaits covers what is registered, and in the end nothing is.
StopInv ==
    \A p \in Procs :
        /\ pc[p] \in {"await", "delete"} => req[p].lid \in blocked
        /\ pc[p] = "await" => active[req[p].lid] \subseteq waiting[p]
        /\ pc[p] = "delete" => active[req[p].lid] = {}

\* A released lease stays deleted; a transfer prepared before the release is
\* still to be refused by begin.
ReleasedInv ==
    \A id \in released :
        /\ phase[id] \in {"deleting", "gone"}
        /\ active[id] = {}
        /\ \A p \in Handlers :
            pc[p] \in {"target", "begin"} /\ req[p].lid = id => id \in blocked

\* A registered operation belongs to the goroutine that streams for that lease.
StreamInv ==
    \A p \in Handlers, id \in LeaseIDs :
        p \in active[id] => pc[p] = "stream" /\ req[p].lid = id

\* What prepareTransfer read of the claim is still what the claim says.
TransferInv ==
    /\ \A p \in Handlers : pc[p] \in TransferPCs =>
        /\ owner[req[p].lid] = req[p].scope
        /\ expires[req[p].lid] = req[p].exp
    /\ deadline \in [Handlers -> Nat]
    /\ \A p \in Handlers, id \in LeaseIDs : p \in active[id] => deadline[p] <= expires[id]

SafeInv == ExistsInv /\ StopInv /\ ReleasedInv /\ StreamInv /\ TransferInv

\* Claims only move forward, and a stored claim keeps its scope and expiry.
ClaimsForward ==
    \A id \in LeaseIDs :
        /\ phase[id] \in Stored => /\ phase'[id] \in Stored
                                   /\ owner'[id] = owner[id]
                                   /\ expires'[id] = expires[id]
        /\ phase[id] \in {"deleting", "gone"} => phase'[id] \in {"deleting", "gone"}

\* What the actions that neither stop a lease nor prepare, run or end a transfer
\* do as far as SafeInv can see.
SafeFrame ==
    /\ ClaimsForward
    /\ UNCHANGED <<blocked, active, waiting, deadline, released>>
    /\ \A p \in Procs : pc'[p] \in TransferPCs \cup StopPCs => pc[p] = pc'[p] /\ req'[p] = req[p]
    /\ \A p \in Handlers : pc[p] = "stream" => pc'[p] = "stream"
    /\ queue'[Sweeper] \subseteq queue[Sweeper]

LEMMA SafeFrameInv ==
    ASSUME TypesInv, SafeInv, SafeFrame
    PROVE  SafeInv'
<1> USE DEF SafeInv, SafeFrame, ClaimsForward, TransferPCs, StopPCs, Procs
<1>0. \A p \in Procs : pc'[p] \in TransferPCs \cup StopPCs => req[p].lid \in LeaseIDs
  BY DEF TypesInv, HasLease
<1>1. ExistsInv'
  BY <1>0 DEF ExistsInv, TypesInv, Types
<1>2. StopInv'
  BY DEF StopInv
<1>3. ReleasedInv'
  BY DEF ReleasedInv, TypesInv, Types
<1>4. StreamInv'
  BY DEF StreamInv
<1>5. TransferInv'
  <2>1. \A p \in Handlers : pc'[p] \in TransferPCs =>
          owner'[req'[p].lid] = req'[p].scope /\ expires'[req'[p].lid] = req'[p].exp
    BY <1>0 DEF TransferInv, ExistsInv
  <2>2. \A p \in Handlers, id \in LeaseIDs : p \in active[id] => phase[id] \in Stored
    BY DEF StreamInv, ExistsInv
  <2> QED
    BY <2>1, <2>2 DEF TransferInv
<1> QED
  BY <1>1, <1>2, <1>3, <1>4, <1>5

\* Deletion, binding and expiry move claims forward.
LEMMA DeleteForward ==
    ASSUME TypesInv, NEW id \in LeaseIDs, deleteClaim(id) \/ UNCHANGED phase,
           UNCHANGED <<owner, expires>>
    PROVE  ClaimsForward
  BY DEF TypesInv, Types, ClaimsForward, deleteClaim, Stored

LEMMA AcquireSafe ==
    ASSUME TypesInv, SafeInv, NEW p \in Handlers, Request(p) \/ AcquireStep(p)
    PROVE  SafeFrame
<1> USE ProcAssumption DEF TypesInv, Types, HasLease, SafeFrame, Goto, Return,
        TransferPCs, StopPCs, AcquirePCs, Procs, cluster, tvars, history
<1>1. CASE Request(p) \/ Lock(p) \/ Find(p)
  BY <1>1 DEF Request, Lock, Find, ClaimsForward
<1>2. CASE \/ ScanReplay(p) \/ ScanFails(p) \/ ScanDone(p)
           \/ Ready(p) \/ Verify(p) \/ NotReady(p)
  BY <1>2 DEF ScanReplay, ScanFails, ScanDone, Ready, Verify, NotReady, ClaimsForward
<1>3. CASE ScanExpired(p) \/ Cleanup(p)
  <2>1. ClaimsForward
    BY <1>3, DeleteForward DEF ScanExpired, Cleanup
  <2> QED
    BY <1>3, <2>1 DEF ScanExpired, Cleanup
<1>4. CASE Create(p) \/ CreateFails(p)
  <2>1. ClaimsForward
    BY <1>4 DEF Create, CreateFails, buildClaim, ClaimsForward, Stored
  <2> QED
    BY <1>4, <2>1 DEF Create, CreateFails
<1> QED
  BY <1>1, <1>2, <1>3, <1>4 DEF AcquireStep

LEMMA LeaseSafe ==
    ASSUME TypesInv, SafeInv, NEW p \in Handlers, LeaseStep(p)
    PROVE  SafeInv'
<1> USE ProcAssumption DEF TypesInv, Types, HasLease, Goto, Return, TransferPCs, StopPCs, Procs,
        cluster, tvars, history
<1>1. CASE RequireFails(p) \/ GetActive(p) \/ ExecReturn(p) \/ HandlerDeleteFails(p)
  <2>1. SafeFrame
    BY <1>1 DEF RequireFails, GetActive, ExecReturn, HandlerDeleteFails, SafeFrame, ClaimsForward
  <2> QED
    BY <2>1, SafeFrameInv
<1>2. CASE RequireStop(p)
  BY <1>2 DEF RequireStop, Visible, SafeInv, ExistsInv, StopInv, ReleasedInv, StreamInv,
     TransferInv, Stored
<1>3. CASE RequireActive(p)
  <2>1. /\ pc[p] = "require" /\ pc' = [pc EXCEPT ![p] = "target"]
        /\ req' = [req EXCEPT ![p].exp = expires[req[p].lid]]
        /\ phase[req[p].lid] = "live" /\ owner[req[p].lid] = req[p].scope
        /\ UNCHANGED <<now, cluster, queue, tvars, history>>
    BY <1>3 DEF RequireActive, Visible
  <2>2. /\ req'[p].lid = req[p].lid /\ req'[p].scope = req[p].scope
        /\ req'[p].exp = expires[req[p].lid]
        /\ \A q \in Procs : q # p => req'[q] = req[q] /\ pc'[q] = pc[q]
    BY <2>1 DEF RequestType
  <2> QED
    BY <2>1, <2>2 DEF SafeInv, ExistsInv, StopInv, ReleasedInv, StreamInv, TransferInv, Stored
<1>4. CASE Target(p)
  BY <1>4 DEF Target, SafeInv, ExistsInv, StopInv, ReleasedInv, StreamInv, TransferInv
<1>5. CASE Begin(p)
  <2>1. CASE T!beginRefused(req[p].lid) /\ Return(p)
    BY <1>5, <2>1 DEF Begin, T!beginRefused, T!tvars, SafeInv, ExistsInv, StopInv, ReleasedInv,
       StreamInv,
       TransferInv
  <2>2. CASE /\ T!begin(p, req[p].lid, req[p].exp)
             /\ Goto(p, "stream")
             /\ UNCHANGED <<req, queue>>
    <3>1. /\ req[p].lid \in LeaseIDs /\ req[p].lid \notin blocked /\ pc[p] = "begin"
          /\ req[p].exp \in Nat /\ expires[req[p].lid] = req[p].exp
      BY <1>5, <2>2 DEF Begin, T!begin, SafeInv, TransferInv, RequestType
    <3>2. /\ active' = [active EXCEPT ![req[p].lid] = @ \cup {p}]
          /\ deadline' = [deadline EXCEPT ![p] = T!TransferDeadline(req[p].exp)]
          /\ pc' = [pc EXCEPT ![p] = "stream"]
          /\ UNCHANGED <<blocked, waiting, req, queue, phase, owner, expires, released>>
      BY <1>5, <2>2 DEF Begin, T!begin, T!Register
    <3>3. T!TransferDeadline(req[p].exp) \in Nat /\ T!TransferDeadline(req[p].exp) <= req[p].exp
      BY <3>1, TransferAssumption DEF T!TransferDeadline
    <3>4. ExistsInv' /\ StopInv'
      BY <3>1, <3>2 DEF SafeInv, ExistsInv, StopInv
    <3>5. ReleasedInv'
      BY <3>1, <3>2 DEF SafeInv, ReleasedInv
    <3>6. StreamInv'
      BY <3>1, <3>2 DEF SafeInv, StreamInv
    <3>7. TransferInv'
      BY <3>1, <3>2, <3>3 DEF SafeInv, TransferInv, StreamInv
    <3> QED
      BY <3>4, <3>5, <3>6, <3>7 DEF SafeInv
  <2> QED
    BY <1>5, <2>1, <2>2 DEF Begin
<1>6. CASE StreamReturn(p)
  <2>1. /\ active' = [active EXCEPT ![req[p].lid] = @ \ {p}]
        /\ deadline' = [deadline EXCEPT ![p] = 0]
        /\ waiting' = [c \in Procs |-> waiting[c] \ {p}]
        /\ UNCHANGED <<blocked, phase, owner, expires, released>>
        /\ pc[p] = "stream" /\ req[p].lid \in LeaseIDs
    BY <1>6 DEF StreamReturn, T!finish
  <2>2. \A id \in LeaseIDs : p \notin active'[id]
    BY <2>1 DEF SafeInv, StreamInv
  <2>3. /\ \A q \in Procs : q # p => pc'[q] = pc[q] /\ req'[q] = req[q]
        /\ pc'[p] = "idle" /\ queue'[Sweeper] = queue[Sweeper]
    BY <1>6 DEF StreamReturn
  <2>4. \A id \in LeaseIDs : active'[id] = active[id] \ {p}
    BY <2>1, <2>2 DEF SafeInv, StreamInv
  <2>5. ExistsInv' /\ StopInv'
    BY <2>1, <2>3, <2>4 DEF SafeInv, ExistsInv, StopInv
  <2>6. ReleasedInv' /\ StreamInv'
    BY <2>1, <2>3, <2>4 DEF SafeInv, ReleasedInv, StreamInv
  <2>7. TransferInv'
    BY <2>1, <2>3, <2>4 DEF SafeInv, TransferInv
  <2> QED
    BY <2>5, <2>6, <2>7 DEF SafeInv
<1>7. CASE HandlerDelete(p)
  <2>1. /\ pc[p] = "delete" /\ req[p].lid \in LeaseIDs /\ pc' = [pc EXCEPT ![p] = "idle"]
        /\ deleteClaim(req[p].lid)
        /\ released' \in {released, released \cup {req[p].lid}}
        /\ \A q \in Procs : q # p => req'[q] = req[q]
        /\ queue'[Sweeper] = queue[Sweeper]
        /\ UNCHANGED <<owner, expires, blocked, active, waiting, deadline>>
    BY <1>7 DEF HandlerDelete
  <2>2. ClaimsForward
    BY <2>1, DeleteForward
  <2>3. phase'[req[p].lid] \in {"deleting", "gone"}
    BY <2>1 DEF SafeInv, ExistsInv, deleteClaim, Stored
  <2>4. ReleasedInv'
    BY <2>1, <2>2, <2>3 DEF SafeInv, ReleasedInv, StopInv, ClaimsForward
  <2>5. ExistsInv' /\ StopInv' /\ StreamInv'
    BY <2>1, <2>2 DEF SafeInv, ExistsInv, StopInv, StreamInv, ClaimsForward
  <2>6. TransferInv'
    BY <2>1, <2>2 DEF SafeInv, TransferInv, ExistsInv, ClaimsForward
  <2> QED
    BY <2>4, <2>5, <2>6 DEF SafeInv
<1> QED
  BY <1>1, <1>2, <1>3, <1>4, <1>5, <1>6, <1>7 DEF LeaseStep

LEMMA StopSafe ==
    ASSUME TypesInv, SafeInv, NEW p \in Procs, StopStep(p)
    PROVE  SafeInv'
<1> USE ProcAssumption DEF TypesInv, Types, HasLease, Goto, Return, TransferPCs, StopPCs, Procs,
        cluster, tvars, history
<1>1. CASE Stop(p)
  BY <1>1 DEF Stop, T!stopLease, SafeInv, ExistsInv, StopInv, ReleasedInv, StreamInv, TransferInv
<1>2. CASE Stopped(p)
  BY <1>2 DEF Stopped, SafeInv, ExistsInv, StopInv, ReleasedInv, StreamInv, TransferInv
<1>3. CASE StopAborted(p)
  BY <1>3 DEF StopAborted, T!waitAborted, SafeInv, ExistsInv, StopInv, ReleasedInv, StreamInv,
     TransferInv
<1> QED
  BY <1>1, <1>2, <1>3 DEF StopStep

\* Nothing in memory survives; what was released is no longer live.
LEMMA ExitSafe ==
    ASSUME TypesInv, SafeInv, Exit, UNCHANGED <<now, cluster, history>>
    PROVE  SafeInv'
  BY ProcAssumption DEF TypesInv, Types, Exit, LoseMemory, T!restart, SafeInv, ExistsInv, StopInv,
     ReleasedInv, StreamInv, TransferInv, TransferPCs, StopPCs, Procs, cluster, history

LEMMA SweepSafe ==
    ASSUME TypesInv, SafeInv, SweepStep
    PROVE  SafeInv'
<1> USE ProcAssumption DEF TypesInv, Types, HasLease, Goto, Return, TransferPCs, StopPCs, Procs,
        cluster, tvars, history
<1>1. CASE Recover \/ SweepStart \/ SweepDone
  <2>1. SafeFrame
    BY <1>1 DEF Recover, SweepStart, SweepDone, SafeFrame, ClaimsForward
  <2> QED
    BY <2>1, SafeFrameInv
<1>2. CASE SweepList
  BY <1>2 DEF SweepList, SafeInv, ExistsInv, StopInv, ReleasedInv, StreamInv, TransferInv, Stored
<1>3. ASSUME NEW i \in LeaseIDs, SweepNext(i) PROVE SafeInv'
  <2>1. PICK id \in queue[Sweeper] :
          /\ queue' = [queue EXCEPT ![Sweeper] = @ \ {id}]
          /\ \/ /\ req' = [req EXCEPT ![Sweeper] = SweepRequest(id)]
                /\ pc' = [pc EXCEPT ![Sweeper] = "stop"]
             \/ UNCHANGED <<req, pc>>
    BY <1>3 DEF SweepNext
  <2>2. SweepRequest(id).lid = id
    BY DEF SweepRequest, NoReq
  <2>3. UNCHANGED <<phase, owner, expires, blocked, active, waiting, deadline, released>>
    BY <1>3 DEF SweepNext
  <2> QED
    BY <2>1, <2>2, <2>3 DEF SafeInv, ExistsInv, StopInv, ReleasedInv, StreamInv, TransferInv
<1>4. CASE SweepDelete
  <2>1. ClaimsForward
    BY <1>4, DeleteForward DEF SweepDelete
  <2>2. SafeFrame
    BY <1>4, <2>1 DEF SweepDelete, SafeFrame
  <2> QED
    BY <2>2, SafeFrameInv
<1>5. CASE SweepFails
  <2>1. CASE app = "starting"
    BY <1>5, <2>1, ExitSafe DEF SweepFails
  <2>2. CASE app # "starting"
    <3>1. SafeFrame
      BY <1>5, <2>2 DEF SweepFails, SafeFrame, ClaimsForward
    <3> QED
      BY <3>1, SafeFrameInv
  <2> QED
    BY <2>1, <2>2
<1> QED
  BY <1>1, <1>2, <1>3, <1>4, <1>5 DEF SweepStep

LEMMA EnvSafe ==
    ASSUME TypesInv, SafeInv,
           \/ AppStep \/ Tick \/ UNCHANGED vars
           \/ \E id \in LeaseIDs : Bind(id) \/ ClusterStep(id)
    PROVE  SafeInv'
<1> USE ProcAssumption DEF TypesInv, Types, Goto, TransferPCs, StopPCs, Procs, cluster, tvars,
    history
<1>1. CASE CloseReturns \/ ShutdownTimeout \/ Crash
  BY <1>1, ExitSafe DEF CloseReturns, ShutdownTimeout, Crash
<1>2. CASE Restart \/ Terminate \/ Shutdown \/ CloseBackend \/ Tick \/ UNCHANGED vars
  <2>1. SafeFrame
    BY <1>2 DEF Restart, Terminate, Shutdown, CloseBackend, T!close, Tick, vars, SafeFrame,
       ClaimsForward
  <2> QED
    BY <2>1, SafeFrameInv
<1>3. ASSUME NEW id \in LeaseIDs, Bind(id) \/ ClusterStep(id) PROVE SafeInv'
  <2>1. SafeFrame
    BY <1>3 DEF Bind, ClusterStep, SafeFrame, ClaimsForward, Stored
  <2> QED
    BY <2>1, SafeFrameInv
<1> QED
  BY <1>1, <1>2, <1>3 DEF AppStep

LEMMA SafeInit == Init => SafeInv
  BY ProcAssumption DEF Init, T!newTransferManager, SafeInv, ExistsInv, StopInv, ReleasedInv,
     StreamInv,
     TransferInv, TransferPCs, StopPCs, Procs

LEMMA SafeAlways == Spec => []SafeInv
<1>1. TypesInv /\ SafeInv /\ [Next]_vars => SafeInv'
  BY AcquireSafe, SafeFrameInv, LeaseSafe, StopSafe, SweepSafe, EnvSafe DEF Next
<1> QED
  BY <1>1, SafeInit, TypesCorrect, PTL DEF Spec

\* A lease whose release was confirmed is never served again: no transfer on it,
\* no live claim, in any interleaving with transfers being prepared, sweeps,
\* crashes and restarts (Backend.Release, transferManager.stopLease).
THEOREM ReleasedForGood == Spec => []ReleaseIsFinal
<1>1. SafeInv => ReleaseIsFinal
  BY DEF SafeInv, ReleasedInv, ReleaseIsFinal
<1> QED
  BY <1>1, SafeAlways, PTL

\* stopLease before deleteClaim is enough: no transfer is registered on a lease
\* when Release, Delete, the sweep or an operation that found it expired
\* deletes its claim.
THEOREM DeletesQuietly == Spec => []DeleteIsQuiet
<1>1. SafeInv => DeleteIsQuiet
  BY DEF SafeInv, StopInv, DeleteIsQuiet
<1> QED
  BY <1>1, SafeAlways, PTL

\* A transfer that has not been told to stop is one its caller may do: of the
\* lease's own scope, before the lease's expiry (prepareTransfer, begin).
THEOREM TransfersAuthorised == Spec => []TransferAuthorised
<1>1. TypesInv /\ SafeInv => TransferAuthorised
  BY DEF SafeInv, StreamInv, TransferInv, TransferPCs, TransferAuthorised, T!CtxDone, TypesInv,
     Types
<1> QED
  BY <1>1, SafeAlways, TypesCorrect, PTL

----------------------------------------------------------------------------
(* Refinement.                                                             *)

\* A step in which no claim is created and none comes back ends leases at most.
LEMMA EndStep ==
    ASSUME TypesInv, UNCHANGED <<owner, idemKey, expires>>, now' \in Nat, now <= now',
           \A id \in LeaseIDs :
              /\ phase'[id] \in Phases
              /\ phase[id] \in {"absent", "inflight"} <=> phase'[id] \in {"absent", "inflight"}
              /\ phase'[id] = "live" => phase[id] = "live"
    PROVE  Service!Next
<1> DEFINE ended == {id \in LeaseIDs : Active(id) /\ ~Active(id)'}
<1>1. \A id \in LeaseIDs : Active(id)' => Active(id)
  BY DEF TypesInv, Types, Active, Expired
<1>2. \A id \in ended : LeaseStatus[id] = "active"
  BY DEF LeaseStatus, Active
<1>3. LeaseStatus' = [id \in LeaseIDs |-> IF id \in ended THEN "ended" ELSE LeaseStatus[id]]
  <2>1. \A id \in LeaseIDs :
          LeaseStatus'[id] = IF id \in ended THEN "ended" ELSE LeaseStatus[id]
    BY <1>1 DEF LeaseStatus, Active
  <2> QED
    BY <2>1 DEF LeaseStatus
<1>4. Service!End(ended)
  BY <1>2, <1>3 DEF Service!End
<1> QED
  BY <1>4 DEF Service!Next

\* Storing a claim opens a lease, active or already expired.
LEMMA OpenStep ==
    ASSUME TypesInv, KeyInv, NEW p \in Handlers, pc[p] = "create", UNCHANGED now,
           req[p].scope \in Scopes, req[p].key \in Keys,
           NEW id \in LeaseIDs, phase[id] = "absent", buildClaim(p, id, "live")
    PROVE  Service!Next
<1> USE DEF buildClaim, TypesInv, Types
<1>1. \A j \in LeaseIDs : ~(Active(j) /\ SameKeyAs(p, j))
  BY DEF KeyInv, CreateInv
<1>2. PICK st \in {"active", "ended"} : LeaseStatus'[id] = st
  BY DEF LeaseStatus
<1>3. LeaseStatus[id] = "none"
  BY DEF LeaseStatus
<1>4. \A j \in LeaseIDs : LeaseStatus[j] = "active" =>
      ~(owner[j] = req[p].scope /\ idemKey[j] = req[p].key)
  BY <1>1 DEF LeaseStatus, SameKeyAs
<1>5. LeaseStatus' = [LeaseStatus EXCEPT ![id] = st]
  <2>1. \A j \in LeaseIDs : j # id => LeaseStatus'[j] = LeaseStatus[j]
    BY DEF LeaseStatus, Active, Expired
  <2> QED
    BY <1>2, <2>1 DEF LeaseStatus
<1>6. Service!Open(id, req[p].scope, req[p].key, st)
  BY <1>3, <1>4, <1>5 DEF Service!Open
<1> QED
  BY <1>6 DEF Service!Next

\* A goroutine before Create has the scope and key of an acquire request.
AcquireReq ==
    \A p \in Handlers : pc[p] \in {"lock"} \cup AcquirePCs =>
        req[p].scope \in Scopes /\ req[p].key \in Keys

LEMMA AcquireReqAlways == Spec => []AcquireReq
<1>1. Init => AcquireReq
  BY DEF Init, AcquireReq, AcquirePCs, Procs
<1>2. TypesInv /\ AcquireReq /\ [Next]_vars => AcquireReq'
  <2> SUFFICES ASSUME TypesInv, AcquireReq, [Next]_vars PROVE AcquireReq'
    OBVIOUS
  <2> USE ProcAssumption DEF TypesInv, Types, AcquireReq, AcquirePCs, StopPCs, Goto, Return, Procs,
          cluster, tvars, history
  <2>1. ASSUME NEW p \in Handlers, Request(p) PROVE AcquireReq'
    <3>1. PICK r \in AcquireRequests \cup LeaseRequests :
            /\ req' = [req EXCEPT ![p] = r]
            /\ pc' = [pc EXCEPT ![p] = IF r.op = "acquire" THEN "lock" ELSE "require"]
      BY <2>1 DEF Request
    <3>2. r.op = "acquire" => r.scope \in Scopes /\ r.key \in Keys
      BY DEF AcquireRequests, LeaseRequests
    <3> QED
      BY <3>1, <3>2
  <2>2. ASSUME NEW p \in Handlers, AcquireStep(p) PROVE AcquireReq'
    BY <2>2 DEF AcquireStep, Lock, Find, ScanReplay, ScanExpired, ScanFails, ScanDone, Create,
       CreateFails, Ready, Verify, NotReady, Cleanup, RequestType
  <2>3. ASSUME NEW p \in Handlers, LeaseStep(p) PROVE AcquireReq'
    BY <2>3 DEF LeaseStep, RequireFails, GetActive, RequireStop, RequireActive, Target, ExecReturn,
       Begin, StreamReturn, HandlerDelete, HandlerDeleteFails
  <2>4. ASSUME NEW p \in Procs, StopStep(p) PROVE AcquireReq'
    BY <2>4 DEF StopStep, Stop, Stopped, StopAborted
  <2>5. ASSUME Exit PROVE AcquireReq'
    BY <2>5 DEF Exit, LoseMemory
  <2>6. CASE SweepStep
    BY <2>5, <2>6 DEF SweepStep, Recover, SweepStart, SweepList, SweepNext, SweepDelete, SweepDone,
       SweepFails
  <2>7. CASE AppStep
    BY <2>5, <2>7 DEF AppStep, Restart, Terminate, Shutdown, CloseBackend, CloseReturns,
       ShutdownTimeout, Crash
  <2>8. CASE Tick \/ UNCHANGED vars \/ \E id \in LeaseIDs : Bind(id) \/ ClusterStep(id)
    BY <2>8 DEF Tick, vars, Bind, ClusterStep
  <2> QED
    BY <2>1, <2>2, <2>3, <2>4, <2>6, <2>7, <2>8 DEF Next
<1> QED
  BY <1>1, <1>2, TypesCorrect, PTL DEF Spec

LEMMA ServiceStep ==
    ASSUME TypesInv, TypesInv', KeyInv, KeyInv', AcquireReq, NoLateCreates, [Next]_vars
    PROVE  [Service!Next]_Service!svars
<1>1. ASSUME NEW p \in Handlers, Create(p) \/ CreateFails(p) PROVE [Service!Next]_Service!svars
  <2>1. CASE UNCHANGED cluster
    <3>1. UNCHANGED now
      BY <1>1 DEF Create, CreateFails
    <3> QED
      BY <2>1, <3>1, EndStep DEF cluster, TypesInv, Types
  <2>2. CASE \E id \in LeaseIDs : phase[id] = "absent" /\ buildClaim(p, id, "live")
    BY <1>1, <2>2, OpenStep DEF AcquireReq, AcquirePCs, Create, CreateFails
  <2> QED
    BY <1>1, <2>1, <2>2 DEF Create, CreateFails, NoLateCreates
<1>2. ASSUME KeyFrame,
             \A id \in LeaseIDs : phase[id] = "absent" <=> phase'[id] = "absent"
      PROVE  [Service!Next]_Service!svars
  <2>1. \A id \in LeaseIDs :
          /\ phase'[id] \in Phases
          /\ phase[id] \in {"absent", "inflight"} <=> phase'[id] \in {"absent", "inflight"}
          /\ phase'[id] = "live" => phase[id] = "live"
    BY <1>2 DEF KeyFrame, KeyInv, NoInflight, TypesInv, Types
  <2> QED
    BY <1>2, <2>1, EndStep DEF KeyFrame
<1>3. ASSUME NEW id \in LeaseIDs, deleteClaim(id) \/ UNCHANGED phase
      PROVE  \A j \in LeaseIDs : /\ phase[j] = "absent" <=> phase'[j] = "absent"
                                 /\ phase'[j] = "live" => phase[j] = "live"
  BY <1>3 DEF deleteClaim, TypesInv, Types
<1>4. ASSUME NEW p \in Handlers, AcquireStep(p), ~(Create(p) \/ CreateFails(p))
      PROVE  [Service!Next]_Service!svars
  <2>1. UNCHANGED <<now, owner, idemKey, expires>>
    BY <1>4 DEF AcquireStep, Lock, Find, ScanReplay, ScanExpired, ScanFails, ScanDone, Ready,
       Verify, NotReady, Cleanup, cluster
  <2>2. \A j \in LeaseIDs : /\ phase[j] = "absent" <=> phase'[j] = "absent"
                            /\ phase'[j] = "live" => phase[j] = "live"
    <3>1. UNCHANGED phase \/ \E id \in LeaseIDs : deleteClaim(id)
      BY <1>4 DEF AcquireStep, Lock, Find, ScanReplay, ScanExpired, ScanFails, ScanDone, Ready,
         Verify, NotReady, Cleanup, cluster, TypesInv, Types, HasLease, Procs
    <3> QED
      BY <3>1, <1>3
  <2>3. \A id \in LeaseIDs :
          /\ phase'[id] \in Phases
          /\ phase[id] \in {"absent", "inflight"} <=> phase'[id] \in {"absent", "inflight"}
    BY <2>2 DEF KeyInv, NoInflight, TypesInv, Types
  <2> QED
    BY <2>1, <2>2, <2>3, EndStep DEF TypesInv, Types
<1>5. CASE \/ \E p \in Handlers : Request(p) \/ LeaseStep(p)
           \/ \E p \in Procs : StopStep(p)
           \/ SweepStep \/ AppStep \/ Tick
           \/ \E id \in LeaseIDs : Bind(id) \/ ClusterStep(id)
           \/ UNCHANGED vars
  <2>1. KeyFrame
    BY <1>5, OtherKey
  <2>2. UNCHANGED phase \/ (\E id \in LeaseIDs : deleteClaim(id) \/ ClusterStep(id))
    <3>1. ASSUME NEW p \in Handlers, Request(p) \/ LeaseStep(p)
          PROVE  UNCHANGED phase \/ \E id \in LeaseIDs : deleteClaim(id)
      BY <3>1 DEF Request, LeaseStep, RequireFails, GetActive, RequireStop, RequireActive, Target,
         ExecReturn, Begin, StreamReturn, HandlerDelete, HandlerDeleteFails, cluster, TypesInv,
             HasLease,
         Procs
    <3>2. ASSUME NEW p \in Procs, StopStep(p) PROVE UNCHANGED phase
      BY <3>2 DEF StopStep, Stop, Stopped, StopAborted, cluster
    <3>3. ASSUME SweepStep PROVE UNCHANGED phase \/ \E id \in LeaseIDs : deleteClaim(id)
      BY <3>3 DEF SweepStep, Recover, SweepStart, SweepList, SweepNext, SweepDelete, SweepDone,
         SweepFails, cluster, TypesInv, HasLease, Procs
    <3>4. ASSUME AppStep \/ Tick \/ UNCHANGED vars PROVE UNCHANGED phase
      BY <3>4 DEF AppStep, Restart, Terminate, Shutdown, CloseBackend, CloseReturns,
         ShutdownTimeout, Crash, Tick, vars, cluster
    <3>5. ASSUME NEW id \in LeaseIDs, Bind(id) PROVE UNCHANGED phase
      BY <3>5 DEF Bind
    <3> QED
      BY <1>5, <3>1, <3>2, <3>3, <3>4, <3>5
  <2>3. \A j \in LeaseIDs : phase[j] = "absent" <=> phase'[j] = "absent"
    <3>1. ASSUME NEW id \in LeaseIDs, ClusterStep(id)
          PROVE  \A j \in LeaseIDs : phase[j] = "absent" <=> phase'[j] = "absent"
      BY <3>1 DEF ClusterStep, TypesInv, Types
    <3> QED
      BY <2>2, <3>1, <1>3
  <2> QED
    BY <2>1, <2>3, <1>2
<1> QED
  BY <1>1, <1>4, <1>5 DEF Next

\* The backend implements the abstract lease service, for any number of
\* handlers, leases, scopes and keys, provided no Create takes effect after its
\* caller gave up.
THEOREM BackendImplementsService == NoLateCreates => (Spec => ImplementsLeaseService)
<1> SUFFICES ASSUME NoLateCreates PROVE Spec => Service!Spec
  BY DEF ImplementsLeaseService
<1>1. Init => Service!Init
  BY DEF Init, Service!Init, LeaseStatus
<1>2. TypesInv /\ TypesInv' /\ KeyInv /\ KeyInv' /\ AcquireReq /\ [Next]_vars
        => [Service!Next]_Service!svars
  BY ServiceStep
<1> QED
  BY <1>1, <1>2, TypesCorrect, KeyAlways, AcquireReqAlways, PTL DEF Spec, Service!Spec
----------------------------------------------------------------------------
(* The scope of what Acquire gives.                                        *)

\* The claim is stored, for this scope and key.
BuiltFor(id, scope, key) ==
    phase[id] \in Stored /\ owner[id] = scope /\ idemKey[id] = key

\* What a caller scans, what it waits for and what callers were answered was built
\* for the scope and the key of the caller.
ScopeInv ==
    /\ \A p \in Handlers :
        /\ pc[p] = "scan" => \A id \in queue[p] : BuiltFor(id, req[p].scope, req[p].key)
        /\ pc[p] \in {"ready", "verify"} => BuiltFor(req[p].lid, req[p].scope, req[p].key)
    /\ \A g \in granted : BuiltFor(g[3], g[1], g[2])

KeysForward == \A id \in LeaseIDs : phase[id] \in Stored => idemKey'[id] = idemKey[id]

\* Acquire answers what it scanned or waited for.
AnswerOf(q, g) ==
    \E id \in LeaseIDs :
        /\ g = <<req[q].scope, req[q].key, id>>
        /\ \/ pc[q] = "scan" /\ id \in queue[q]
           \/ pc[q] = "verify" /\ id = req[q].lid

\* What all but two actions do as far as ScopeInv can see.
ScopeFrame ==
    /\ ClaimsForward /\ KeysForward
    /\ \A g \in granted' : g \in granted \/ \E q \in Handlers : AnswerOf(q, g)
    /\ \A q \in Handlers :
        /\ pc'[q] = "scan" => /\ pc[q] = "scan" /\ queue'[q] \subseteq queue[q]
                              /\ req'[q].scope = req[q].scope /\ req'[q].key = req[q].key
        /\ pc'[q] \in {"ready", "verify"} => pc[q] \in {"ready", "verify"} /\ req'[q] = req[q]

LEMMA BuiltStays ==
    ASSUME ClaimsForward, KeysForward, NEW id \in LeaseIDs, NEW scope, NEW key,
           BuiltFor(id, scope, key)
    PROVE  BuiltFor(id, scope, key)'
  BY DEF ClaimsForward, KeysForward, BuiltFor

LEMMA ScopeFrameInv ==
    ASSUME TypesInv, ScopeInv, ScopeFrame
    PROVE  ScopeInv'
<1>1. ASSUME NEW p \in Handlers, pc'[p] = "scan", NEW id \in queue'[p]
      PROVE  BuiltFor(id, req[p].scope, req[p].key)'
  <2>1. pc[p] = "scan" /\ id \in queue[p] /\ id \in LeaseIDs
    BY <1>1 DEF ScopeFrame, TypesInv, Types, Procs
  <2>2. BuiltFor(id, req[p].scope, req[p].key)
    BY <2>1 DEF ScopeInv
  <2>3. req'[p].scope = req[p].scope /\ req'[p].key = req[p].key
    BY <1>1 DEF ScopeFrame
  <2>4. ClaimsForward /\ KeysForward
    BY DEF ScopeFrame
  <2> QED
    BY <2>1, <2>2, <2>3, <2>4 DEF BuiltFor, ClaimsForward, KeysForward
<1>2. ASSUME NEW p \in Handlers, pc'[p] \in {"ready", "verify"}
      PROVE  BuiltFor(req[p].lid, req[p].scope, req[p].key)'
  <2>1. pc[p] \in {"ready", "verify"} /\ req'[p] = req[p]
    BY <1>2 DEF ScopeFrame
  <2>2. req[p].lid \in LeaseIDs
    BY <2>1 DEF TypesInv, HasLease, Procs
  <2>3. BuiltFor(req[p].lid, req[p].scope, req[p].key)
    BY <2>1 DEF ScopeInv
  <2>4. ClaimsForward /\ KeysForward
    BY DEF ScopeFrame
  <2> QED
    BY <2>1, <2>2, <2>3, <2>4 DEF BuiltFor, ClaimsForward, KeysForward
<1>3. ASSUME NEW g \in granted' PROVE BuiltFor(g[3], g[1], g[2])'
  <2>1. g[3] \in LeaseIDs /\ BuiltFor(g[3], g[1], g[2])
    <3>1. CASE g \in granted
      BY <3>1 DEF ScopeInv, TypesInv, Types
    <3>2. CASE \E q \in Handlers : AnswerOf(q, g)
      BY <3>2 DEF AnswerOf, ScopeInv
    <3> QED
      BY <1>3, <3>1, <3>2 DEF ScopeFrame
  <2>2. ClaimsForward /\ KeysForward
    BY DEF ScopeFrame
  <2> QED
    BY <2>1, <2>2 DEF BuiltFor, ClaimsForward, KeysForward
<1> QED
  BY <1>1, <1>2, <1>3 DEF ScopeInv

LEMMA AcquireScope ==
    ASSUME TypesInv, ScopeInv, NEW p \in Handlers, AcquireStep(p)
    PROVE  ScopeInv'
<1> USE ProcAssumption DEF TypesInv, Types, Goto, Return, Procs, cluster, tvars, history
<1>1. CASE \/ Lock(p) \/ ScanFails(p) \/ ScanDone(p) \/ Ready(p) \/ NotReady(p)
  <2>1. ScopeFrame
    BY <1>1 DEF Lock, ScanFails, ScanDone, Ready, NotReady, ScopeFrame, ClaimsForward,
       KeysForward
  <2> QED
    BY <2>1, ScopeFrameInv
<1>2. CASE ScanReplay(p) \/ Verify(p)
  <2>1. \A g \in granted' : g \in granted \/ AnswerOf(p, g)
    BY <1>2 DEF ScanReplay, Verify, Grant, AnswerOf, HasLease
  <2>2. ScopeFrame
    BY <1>2, <2>1 DEF ScanReplay, Verify, ScopeFrame, ClaimsForward, KeysForward
  <2> QED
    BY <2>2, ScopeFrameInv
<1>3. CASE ScanExpired(p) \/ Cleanup(p)
  <2>1. ClaimsForward
    BY <1>3, DeleteForward DEF ScanExpired, Cleanup, HasLease
  <2>2. ScopeFrame
    BY <1>3, <2>1 DEF ScanExpired, Cleanup, ScopeFrame, KeysForward
  <2> QED
    BY <2>2, ScopeFrameInv
<1>4. CASE Find(p)
  <2>1. CASE Return(p)
    <3>1. ScopeFrame
      BY <1>4, <2>1 DEF Find, ScopeFrame, ClaimsForward, KeysForward
    <3> QED
      BY <3>1, ScopeFrameInv
  <2>2. CASE /\ queue' = [queue EXCEPT ![p] = SameKey(req[p].scope, req[p].key)]
             /\ pc' = [pc EXCEPT ![p] = "scan"] /\ UNCHANGED req
    BY <1>4, <2>2 DEF Find, ScopeInv, BuiltFor, SameKey, Stored
  <2> QED
    BY <1>4, <2>1, <2>2 DEF Find
<1>5. CASE Create(p)
  <2>1. PICK id \in LeaseIDs :
            /\ phase[id] = "absent" /\ phase' = [phase EXCEPT ![id] = "live"]
            /\ owner' = [owner EXCEPT ![id] = req[p].scope]
            /\ idemKey' = [idemKey EXCEPT ![id] = req[p].key]
            /\ req' = [req EXCEPT ![p].lid = id]
            /\ pc' = [pc EXCEPT ![p] = "ready"] /\ UNCHANGED <<queue, granted>>
    BY <1>5 DEF Create, buildClaim
  <2>2. ASSUME NEW i \in LeaseIDs, NEW scope, NEW key, BuiltFor(i, scope, key)
        PROVE  phase'[i] \in Stored /\ owner'[i] = scope /\ idemKey'[i] = key
    BY <2>1, <2>2 DEF BuiltFor, Stored
  <2>3. req'[p].lid = id /\ req'[p].scope = req[p].scope /\ req'[p].key = req[p].key
        /\ phase'[id] \in Stored /\ owner'[id] = req[p].scope /\ idemKey'[id] = req[p].key
        /\ pc'[p] = "ready"
    BY <2>1 DEF RequestType, Stored
  <2>4. ASSUME NEW q \in Handlers, q # p
        PROVE  /\ pc'[q] = pc[q] /\ req'[q] = req[q] /\ queue'[q] = queue[q]
               /\ \A i \in queue[q] : i \in LeaseIDs
               /\ pc[q] \in {"ready", "verify"} => req[q].lid \in LeaseIDs
    BY <2>1, <2>4 DEF HasLease
  <2>5. \A q \in Handlers :
          /\ pc'[q] = "scan" => \A i \in queue'[q] : BuiltFor(i, req[q].scope, req[q].key)'
          /\ pc'[q] \in {"ready", "verify"} => BuiltFor(req[q].lid, req[q].scope, req[q].key)'
    BY <2>2, <2>3, <2>4 DEF ScopeInv, BuiltFor
  <2>6. \A g \in granted' : BuiltFor(g[3], g[1], g[2])'
    <3> SUFFICES ASSUME NEW g \in granted PROVE BuiltFor(g[3], g[1], g[2])'
      BY <2>1
    <3>1. g[3] \in LeaseIDs
      OBVIOUS
    <3> QED
      BY <2>2, <3>1 DEF ScopeInv, BuiltFor
  <2> QED
    BY <2>5, <2>6 DEF ScopeInv
<1>6. CASE CreateFails(p)
  <2>1. ClaimsForward /\ KeysForward
    BY <1>6 DEF CreateFails, buildClaim, ClaimsForward, KeysForward, Stored
  <2>2. ScopeFrame
    BY <1>6, <2>1 DEF CreateFails, ScopeFrame
  <2> QED
    BY <2>2, ScopeFrameInv
<1> QED
  BY <1>1, <1>2, <1>3, <1>4, <1>5, <1>6 DEF AcquireStep

LEMMA OtherScope ==
    ASSUME TypesInv,
           \/ \E p \in Handlers : Request(p) \/ LeaseStep(p)
           \/ \E p \in Procs : StopStep(p)
           \/ SweepStep \/ AppStep \/ Tick
           \/ \E id \in LeaseIDs : Bind(id) \/ ClusterStep(id)
           \/ UNCHANGED vars
    PROVE  ScopeFrame
<1> USE ProcAssumption DEF TypesInv, Types, ScopeFrame, Goto, Return, Procs, cluster, tvars, history
<1>1. /\ UNCHANGED <<phase, owner, expires>> => ClaimsForward
      /\ UNCHANGED idemKey => KeysForward
  BY DEF ClaimsForward, KeysForward
<1>2. ASSUME NEW p \in Handlers, Request(p) PROVE ScopeFrame
  BY <1>1, <1>2 DEF Request
<1>3. ASSUME NEW p \in Handlers, LeaseStep(p) PROVE ScopeFrame
  <2>1. CASE RequireFails(p) \/ GetActive(p) \/ RequireStop(p) \/ RequireActive(p)
    BY <1>1, <2>1 DEF RequireFails, GetActive, RequireStop, RequireActive
  <2>2. CASE Target(p) \/ ExecReturn(p) \/ Begin(p) \/ StreamReturn(p)
    BY <1>1, <2>2 DEF Target, ExecReturn, Begin, StreamReturn
  <2>3. CASE HandlerDelete(p) \/ HandlerDeleteFails(p)
    <3>1. ClaimsForward
      BY <1>1, <2>3 DEF HandlerDelete, HandlerDeleteFails, deleteClaim, ClaimsForward, Stored
    <3> QED
      BY <1>1, <2>3, <3>1 DEF HandlerDelete, HandlerDeleteFails
  <2> QED
    BY <1>3, <2>1, <2>2, <2>3 DEF LeaseStep
<1>4. ASSUME NEW p \in Procs, StopStep(p) PROVE ScopeFrame
  BY <1>1, <1>4 DEF StopStep, Stop, Stopped, StopAborted
<1>5. ASSUME Exit, UNCHANGED <<now, cluster, history>> PROVE ScopeFrame
  BY <1>1, <1>5 DEF Exit, LoseMemory
<1>6. CASE SweepStep
  <2>1. CASE Recover \/ SweepStart \/ SweepList \/ SweepDone
           \/ \E id \in LeaseIDs : SweepNext(id)
    BY <1>1, <2>1 DEF Recover, SweepStart, SweepList, SweepNext, SweepDone
  <2>2. CASE SweepDelete
    <3>1. ClaimsForward
      BY <2>2 DEF SweepDelete, deleteClaim, ClaimsForward, Stored
    <3> QED
      BY <1>1, <2>2, <3>1 DEF SweepDelete
  <2>3. CASE SweepFails
    BY <1>1, <1>5, <2>3 DEF SweepFails
  <2> QED
    BY <1>6, <2>1, <2>2, <2>3 DEF SweepStep
<1>7. CASE AppStep
  BY <1>1, <1>5, <1>7 DEF AppStep, Restart, Terminate, Shutdown, CloseBackend, CloseReturns,
     ShutdownTimeout, Crash
<1>8. ASSUME NEW id \in LeaseIDs, Bind(id) \/ ClusterStep(id) PROVE ScopeFrame
  <2>1. ClaimsForward
    BY <1>8 DEF Bind, ClusterStep, ClaimsForward, Stored
  <2> QED
    BY <1>1, <1>8, <2>1 DEF Bind, ClusterStep
<1>9. CASE Tick \/ UNCHANGED vars
  BY <1>1, <1>9 DEF Tick, vars
<1> QED
  BY <1>2, <1>3, <1>4, <1>6, <1>7, <1>8, <1>9

LEMMA ScopeAlways == Spec => []ScopeInv
<1>1. Init => ScopeInv
  BY DEF Init, ScopeInv, Procs
<1>2. TypesInv /\ ScopeInv /\ [Next]_vars => ScopeInv'
  BY AcquireScope, OtherScope, ScopeFrameInv DEF Next
<1> QED
  BY <1>1, <1>2, TypesCorrect, PTL DEF Spec

\* Whatever Acquire ever answered, fresh, replayed, and replayed again long after it was
\* granted, is of the scope and the key of the caller it was answered to
\* (Backend.Acquire, findByIdempotencyKey).
THEOREM AcquiresInScope == Spec => []AcquireStaysInScope
<1>1. ScopeInv => AcquireStaysInScope
  BY DEF ScopeInv, BuiltFor, AcquireStaysInScope
<1> QED
  BY <1>1, ScopeAlways, PTL
----------------------------------------------------------------------------
(* The backend implements the transfer manager.                            *)

\* No claim, and no record a goroutine holds, expires later than the longest TTL
\* allows: Acquire checks ttlSeconds before it reads the clock.
TimesInv ==
    /\ now <= MaxTime
    /\ \A id \in LeaseIDs : expires[id] <= MaxTime + MaxTTL
    /\ \A p \in Procs : req[p].exp <= MaxTime + MaxTTL
    /\ \A p \in Handlers : pc[p] \in {"find", "scan"} => req[p].ttl <= MaxTTL

\* What most actions do as far as TimesInv can see.
TimesFrame ==
    /\ UNCHANGED <<now, expires>>
    /\ \A p \in Procs : req'[p].exp = req[p].exp \/ req'[p].exp = 0
    /\ \A p \in Handlers : pc'[p] \in {"find", "scan"} =>
        pc[p] \in {"find", "scan"} /\ req'[p] = req[p]

LEMMA TimesFrameInv ==
    ASSUME TypesInv, TimesInv, TimesFrame
    PROVE  TimesInv'
<1>1. 0 <= MaxTime + MaxTTL
  BY BoundAssumption
<1>2. \A p \in Procs : req'[p].exp <= MaxTime + MaxTTL
  BY <1>1 DEF TimesInv, TimesFrame
<1> QED
  BY <1>2 DEF TimesInv, TimesFrame

LEMMA AcquireTimes ==
    ASSUME TypesInv, TimesInv, NEW p \in Handlers, AcquireStep(p)
    PROVE  TimesInv'
<1> USE ProcAssumption DEF TypesInv, Types, Goto, Return, NoReq, Procs, cluster, tvars, history
<1>1. CASE ScanReplay(p) \/ Ready(p) \/ Verify(p) \/ NotReady(p) \/ Find(p) \/ ScanExpired(p)
           \/ ScanFails(p) \/ Cleanup(p)
  <2>1. TimesFrame
    BY <1>1 DEF ScanReplay, ScanFails, Ready, Verify, NotReady, Find, ScanExpired, Cleanup,
       TimesFrame
  <2> QED
    BY <2>1, TimesFrameInv
<1>2. CASE Lock(p)
  <2>1. CASE Return(p)
    <3>1. TimesFrame
      BY <1>2, <2>1 DEF Lock, TimesFrame
    <3> QED
      BY <3>1, TimesFrameInv
  <2>2. CASE req[p].ttl <= MaxTTL /\ UNCHANGED req /\ pc' = [pc EXCEPT ![p] = "find"]
    BY <1>2, <2>2 DEF Lock, TimesInv
  <2> QED
    BY <1>2, <2>1, <2>2 DEF Lock
<1>3. CASE ScanDone(p)
  <2>1. req[p].ttl \in Nat /\ req[p].ttl <= MaxTTL /\ now <= MaxTime
    BY <1>3 DEF ScanDone, TimesInv, RequestType
  <2>2. now + req[p].ttl <= MaxTime + MaxTTL
    BY <2>1, BoundAssumption
  <2>3. \A q \in Procs : req'[q].exp = req[q].exp \/ req'[q].exp = now + req[p].ttl
    BY <1>3 DEF ScanDone, RequestType
  <2>4. \A q \in Handlers : pc'[q] \in {"find", "scan"} => pc[q] = pc'[q] /\ req'[q] = req[q]
    BY <1>3 DEF ScanDone
  <2> QED
    BY <1>3, <2>2, <2>3, <2>4 DEF ScanDone, TimesInv
<1>4. CASE Create(p) \/ CreateFails(p)
  <2>1. \A id \in LeaseIDs : expires'[id] = expires[id] \/ expires'[id] = req[p].exp
    BY <1>4 DEF Create, CreateFails, buildClaim
  <2>2. /\ UNCHANGED now
        /\ \A q \in Procs : req'[q].exp = req[q].exp \/ req'[q].exp = 0
        /\ \A q \in Handlers : pc'[q] \in {"find", "scan"} => pc[q] = pc'[q] /\ req'[q] = req[q]
    BY <1>4 DEF Create, CreateFails, RequestType
  <2>3. 0 <= MaxTime + MaxTTL
    BY BoundAssumption
  <2>4. /\ \A id \in LeaseIDs : expires'[id] <= MaxTime + MaxTTL
        /\ \A q \in Procs : req'[q].exp <= MaxTime + MaxTTL
    BY <2>1, <2>2, <2>3 DEF TimesInv
  <2> QED
    BY <2>2, <2>4 DEF TimesInv
<1> QED
  BY <1>1, <1>2, <1>3, <1>4 DEF AcquireStep

LEMMA LeaseTimes ==
    ASSUME TypesInv, TimesInv, NEW p \in Handlers, Request(p) \/ LeaseStep(p)
    PROVE  TimesInv'
<1> USE ProcAssumption DEF TypesInv, Types, Goto, Return, NoReq, Procs, cluster, tvars, history
<1>1. CASE Request(p)
  <2>1. PICK r \in AcquireRequests \cup LeaseRequests :
          /\ req' = [req EXCEPT ![p] = r]
          /\ pc' = [pc EXCEPT ![p] = IF r.op = "acquire" THEN "lock" ELSE "require"]
    BY <1>1 DEF Request
  <2>2. r.exp = 0
    BY DEF AcquireRequests, LeaseRequests
  <2>3. TimesFrame
    BY <1>1, <2>1, <2>2 DEF Request, TimesFrame
  <2> QED
    BY <2>3, TimesFrameInv
<1>2. CASE RequireActive(p)
  <2>1. req[p].lid \in LeaseIDs
    BY <1>2 DEF RequireActive, HasLease
  <2>2. /\ UNCHANGED <<now, expires>>
        /\ \A q \in Procs : req'[q].exp = req[q].exp \/ req'[q].exp = expires[req[p].lid]
        /\ \A q \in Handlers : pc'[q] \in {"find", "scan"} => pc[q] = pc'[q] /\ req'[q] = req[q]
    BY <1>2 DEF RequireActive, RequestType
  <2> QED
    BY <2>1, <2>2 DEF TimesInv
<1>3. CASE RequireFails(p) \/ GetActive(p) \/ RequireStop(p) \/ Target(p) \/ ExecReturn(p)
           \/ Begin(p) \/ StreamReturn(p) \/ HandlerDelete(p) \/ HandlerDeleteFails(p)
  <2>1. TimesFrame
    BY <1>3 DEF RequireFails, GetActive, RequireStop, Target, ExecReturn, Begin, StreamReturn,
       HandlerDelete, HandlerDeleteFails, TimesFrame
  <2> QED
    BY <2>1, TimesFrameInv
<1> QED
  BY <1>1, <1>2, <1>3 DEF LeaseStep

LEMMA OtherTimes ==
    ASSUME TypesInv, TimesInv,
           \/ \E p \in Procs : StopStep(p)
           \/ SweepStep \/ AppStep \/ Tick
           \/ \E id \in LeaseIDs : Bind(id) \/ ClusterStep(id)
           \/ UNCHANGED vars
    PROVE  TimesInv'
<1> USE ProcAssumption DEF TypesInv, Types, TimesFrame, Goto, Return, NoReq, Procs, cluster, tvars,
        history
<1>1. ASSUME NEW p \in Procs, StopStep(p) PROVE TimesFrame
  BY <1>1 DEF StopStep, Stop, Stopped, StopAborted
<1>2. ASSUME Exit, UNCHANGED <<now, cluster, history>> PROVE TimesFrame
  BY <1>2 DEF Exit, LoseMemory
<1>3. ASSUME SweepStep PROVE TimesFrame
  <2>1. ASSUME NEW i \in LeaseIDs, SweepNext(i) PROVE TimesFrame
    <3>1. UNCHANGED <<now, expires>> /\ \A p \in Handlers : pc'[p] = pc[p] /\ req'[p] = req[p]
      BY <2>1 DEF SweepNext, SweepRequest
    <3>2. UNCHANGED req \/ \E id \in LeaseIDs : req' = [req EXCEPT ![Sweeper] = SweepRequest(id)]
      BY <2>1 DEF SweepNext
    <3>3. \A id \in LeaseIDs : SweepRequest(id).exp = 0
      BY DEF SweepRequest
    <3> QED
      BY <3>1, <3>2, <3>3
  <2>2. CASE SweepFails
    BY <1>2, <2>2 DEF SweepFails
  <2>3. CASE Recover \/ SweepStart \/ SweepList \/ SweepDelete \/ SweepDone
    BY <2>3 DEF Recover, SweepStart, SweepList, SweepDelete, SweepDone
  <2> QED
    BY <1>3, <2>1, <2>2, <2>3 DEF SweepStep
<1>4. ASSUME AppStep PROVE TimesFrame
  BY <1>2, <1>4 DEF AppStep, Restart, Terminate, Shutdown, CloseBackend, CloseReturns,
     ShutdownTimeout, Crash
<1>5. ASSUME UNCHANGED vars \/ \E id \in LeaseIDs : Bind(id) \/ ClusterStep(id)
      PROVE  TimesFrame
  BY <1>5 DEF vars, Bind, ClusterStep
<1>6. CASE Tick
  BY <1>6, BoundAssumption DEF Tick, TimesInv
<1> QED
  BY <1>1, <1>3, <1>4, <1>5, <1>6, TimesFrameInv

LEMMA TimesAlways == Spec => []TimesInv
<1>1. Init => TimesInv
  BY ProcAssumption, BoundAssumption DEF Init, TimesInv, NoReq, Procs
<1>2. TypesInv /\ TimesInv /\ [Next]_vars => TimesInv'
  BY AcquireTimes, LeaseTimes, OtherTimes DEF Next
<1> QED
  BY <1>1, <1>2, TypesCorrect, PTL DEF Spec

LEMMA ManagerStep ==
    ASSUME TypesInv, TimesInv, [Next]_vars
    PROVE  [T!Next]_T!vars
<1> DEFINE Call ==
      \/ UNCHANGED now /\ \/ \E p \in Handlers, id \in LeaseIDs, e \in 0 .. MaxTime + MaxTTL :
                               T!begin(p, id, e)
                          \/ \E p \in Handlers, id \in LeaseIDs : T!finish(p, id)
                          \/ \E p \in Procs, id \in LeaseIDs : T!stopLease(p, id)
                          \/ \E p \in Procs : T!waitAborted(p)
                          \/ T!close
                          \/ T!restart
      \/ T!Tick
      \/ UNCHANGED <<now, tvars>>
<1>1. Call => [T!Next]_T!vars
  BY DEF T!Next, T!vars, T!tvars, tvars
<1> HIDE DEF Call
<1>2. ASSUME NEW p \in Handlers, Request(p) \/ AcquireStep(p) PROVE Call
  BY <1>2 DEF Request, AcquireStep, Lock, Find, ScanReplay, ScanExpired, ScanFails, ScanDone,
     Create, CreateFails, Ready, Verify, NotReady, Cleanup, Call
<1>3. ASSUME NEW p \in Handlers, Begin(p) PROVE Call
  <2>1. req[p].lid \in LeaseIDs /\ req[p].exp \in 0 .. MaxTime + MaxTTL
    BY <1>3, BoundAssumption DEF Begin, TypesInv, Types, HasLease, TimesInv, RequestType, Procs
  <2>2. UNCHANGED now /\ (T!begin(p, req[p].lid, req[p].exp) \/ UNCHANGED tvars)
    BY <1>3 DEF Begin, T!beginRefused, T!tvars, tvars
  <2> QED
    BY <2>1, <2>2 DEF Call
<1>4. ASSUME NEW p \in Handlers, StreamReturn(p) PROVE Call
  <2>1. req[p].lid \in LeaseIDs /\ UNCHANGED now /\ T!finish(p, req[p].lid)
    BY <1>4 DEF StreamReturn, TypesInv, HasLease, Procs
  <2> QED
    BY <2>1 DEF Call
<1>5. ASSUME NEW p \in Handlers, LeaseStep(p), ~Begin(p), ~StreamReturn(p) PROVE Call
  BY <1>5 DEF LeaseStep, RequireFails, GetActive, RequireStop, RequireActive, Target, ExecReturn,
     HandlerDelete, HandlerDeleteFails, Call
<1>6. ASSUME NEW p \in Procs, StopStep(p) PROVE Call
  <2>1. CASE Stop(p)
    <3>1. req[p].lid \in LeaseIDs /\ UNCHANGED now /\ T!stopLease(p, req[p].lid)
      BY <2>1 DEF Stop, TypesInv, HasLease
    <3> QED
      BY <3>1 DEF Call
  <2>2. CASE Stopped(p) \/ StopAborted(p)
    BY <2>2 DEF Stopped, StopAborted, Call
  <2> QED
    BY <1>6, <2>1, <2>2 DEF StopStep
<1>7. ASSUME Exit, UNCHANGED now PROVE Call
  BY <1>7 DEF Exit, LoseMemory, Call
<1>8. ASSUME SweepStep PROVE Call
  BY <1>7, <1>8 DEF SweepStep, Recover, SweepStart, SweepList, SweepNext, SweepDelete, SweepDone,
     SweepFails, Call
<1>9. ASSUME AppStep PROVE Call
  BY <1>7, <1>9 DEF AppStep, Restart, Terminate, Shutdown, CloseBackend, CloseReturns,
     ShutdownTimeout, Crash, Call
<1>10. ASSUME NEW id \in LeaseIDs, Bind(id) \/ ClusterStep(id) PROVE Call
  BY <1>10 DEF Bind, ClusterStep, Call
<1>11. ASSUME Tick PROVE Call
  BY <1>11 DEF Tick, T!Tick, T!tvars, tvars, Call
<1>12. ASSUME UNCHANGED vars PROVE Call
  BY <1>12 DEF vars, Call
<1> QED
  BY <1>1, <1>2, <1>3, <1>4, <1>5, <1>6, <1>8, <1>9, <1>10, <1>11, <1>12 DEF Next

\* Every step of the handlers, the sweep, the process and the cluster is one operation of
\* the transfer manager, a tick of its clock, or invisible to it: the backend never
\* calls it out of the order its own guarantees depend on (OpenFile, WriteFileStream,
\* stopLease, Close).
THEOREM BackendImplementsManager == Spec => T!Spec
<1>1. Init => T!Init
  BY DEF Init, T!Init
<1>2. TypesInv /\ TimesInv /\ [Next]_vars => [T!Next]_T!vars
  BY ManagerStep
<1> QED
  BY <1>1, <1>2, TypesCorrect, TimesAlways, PTL DEF Spec, T!Spec

\* The theorems of the manager on its own, about the manager the backend runs.
TP == INSTANCE TransferManagerProofs WITH
    Ops <- Handlers, Callers <- Procs, Expiries <- 0 .. MaxTime + MaxTTL

LEMMA ManagerTheoremsApply == T!Spec => TP!Spec /\ TP!LimitsAssumption
<1>1. TP!LimitsAssumption
  BY TransferAssumption, BoundAssumption DEF TP!LimitsAssumption
<1>2. T!Init => TP!Init
  BY DEF T!Init, TP!Init, T!newTransferManager, TP!newTransferManager
<1>3. [T!Next]_T!vars => [TP!Next]_TP!vars
  <2>1. T!Tick => TP!Tick
    BY DEF T!Tick, TP!Tick, T!tvars, TP!tvars
  <2>2. ASSUME NEW p \in Handlers, NEW id \in LeaseIDs
        PROVE  /\ \A e \in 0 .. MaxTime + MaxTTL : T!begin(p, id, e) => TP!begin(p, id, e)
               /\ T!finish(p, id) => TP!finish(p, id)
    BY DEF T!begin, TP!begin, T!finish, TP!finish, T!Register, TP!Register,
       T!TransferDeadline, TP!TransferDeadline, T!AllActive, TP!AllActive,
       T!LimitReached, TP!LimitReached
  <2>3. \A p \in Procs, id \in LeaseIDs : T!stopLease(p, id) => TP!stopLease(p, id)
    BY DEF T!stopLease, TP!stopLease
  <2>4. \A id \in LeaseIDs : T!beginRefused(id) => TP!beginRefused(id)
    BY DEF T!beginRefused, TP!beginRefused, T!LimitReached, TP!LimitReached, T!tvars, TP!tvars
  <2>5. \A p \in Handlers : T!cancel(p) => TP!cancel(p)
    BY DEF T!cancel, TP!cancel, T!AllActive, TP!AllActive
  <2>6. \A p \in Procs : T!waitAborted(p) => TP!waitAborted(p)
    BY DEF T!waitAborted, TP!waitAborted
  <2>7. (T!close => TP!close) /\ (T!restart => TP!restart)
    BY DEF T!close, TP!close, T!AllActive, TP!AllActive, T!restart, TP!restart
  <2>8. T!Next => TP!Next
    BY <2>1, <2>2, <2>3, <2>4, <2>5, <2>6, <2>7 DEF T!Next, TP!Next
  <2>9. UNCHANGED T!vars => UNCHANGED TP!vars
    BY DEF T!vars, TP!vars, T!tvars, TP!tvars
  <2> QED
    BY <2>8, <2>9
<1> QED
  BY <1>1, <1>2, <1>3, PTL DEF T!Spec, TP!Spec

\* The backend's counters equal the transfers registered with the manager and neither
\* limit is ever exceeded, across releases, crashes and shutdown (begin, finish).
THEOREM BackendTransferLimits == Spec => []T!TransferAccounting
<1>1. TP!LimitsAssumption => (TP!Spec => []TP!TransferAccounting)
  BY TP!TransferLimits
<1>2. \A S : TP!Cardinality(S) = T!Cardinality(S)
  BY DEF TP!Cardinality, T!Cardinality, TP!IsFiniteSet, T!IsFiniteSet
<1>3. TP!TransferAccounting => T!TransferAccounting
  BY <1>2 DEF T!TransferAccounting, TP!TransferAccounting, T!AllActive, TP!AllActive
<1> QED
  BY <1>1, <1>3, ManagerTheoremsApply, BackendImplementsManager, PTL

\* Whatever stopLease or close finds registered has been told to stop, so neither
\* waits for a transfer that nobody cancelled (stopLease, close).
THEOREM BackendStopsCancel == Spec => []T!StoppedAreCancelled
<1>1. TP!LimitsAssumption => (TP!Spec => []TP!StoppedAreCancelled)
  BY TP!StopCancels
<1>2. TP!StoppedAreCancelled => T!StoppedAreCancelled
  BY DEF T!StoppedAreCancelled, TP!StoppedAreCancelled
<1> QED
  BY <1>1, <1>2, ManagerTheoremsApply, BackendImplementsManager, PTL

\* Every variable of the backend, the manager's included, keeps its type.
THEOREM BackendTypeOK == Spec => []TypeOK
<1>1. TP!LimitsAssumption => (TP!Spec => []TP!Inv)
  BY TP!ManagerInvariant
<1>2. TP!Inv => T!TypeOK
  BY DEF TP!Inv, TP!TypeOK, T!TypeOK
<1>3. TypesInv /\ T!TypeOK => TypeOK
  BY DEF TypesInv, Types, TypeOK
<1> QED
  BY <1>1, <1>2, <1>3, ManagerTheoremsApply, BackendImplementsManager, TypesCorrect, PTL
=============================================================================
