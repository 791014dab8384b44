---------------------------- MODULE LeaseBackend ----------------------------
(***************************************************************************)
(* The production control plane: the Kubernetes lease backend              *)
(* (apps/control-plane-go/internal/backend/kubernetes) as driven by the    *)
(* HTTP handlers and by the process lifecycle of internal/app/app.go.      *)
(*                                                                         *)
(* Processes are the HTTP handler goroutines and the main goroutine, which *)
(* runs the expiry sweep.  A step is what happens between two points where *)
(* another goroutine, the cluster or the clock can intervene: one call to  *)
(* the Kubernetes API, one critical section of a mutex, one wait.  Every   *)
(* API call can fail.  The transfer manager is the module TransferManager. *)
(***************************************************************************)
EXTENDS Naturals, FiniteSets

CONSTANTS
    Scopes,        \* tenant scopes (consumer, subject)
    Keys,          \* idempotency keys
    LeaseIDs,      \* names newLeaseID can return (bound on the claims created)
    Handlers,      \* HTTP handler goroutines (bound on concurrent requests)
    Sweeper,       \* the goroutine of App.Run
    None,          \* no process, scope, key, lease or runtime
    TTLs,          \* ttlSeconds a consumer may ask for, invalid values included
    MaxTTL,
    MaxTransfers, MaxTransfersPerLease, TransferTimeout,
    Operations,    \* the operations consumers invoke in this instance
    Faults,        \* "crash": the process may crash at any point; "sigterm": it is
                   \* terminated; "late": a Create whose caller gave up may still
                   \* take effect later
    ClusterExpiry, \* the cluster enforces spec.lifecycle.shutdownTime by itself
    MaxTime        \* bound: the clock stops here

Procs == Handlers \cup {Sweeper}

ASSUME ProcAssumption ==
    /\ Sweeper \notin Handlers
    /\ None \notin Handlers \cup {Sweeper}
    /\ None \notin Scopes \cup Keys \cup LeaseIDs
ASSUME BoundAssumption ==
    /\ TTLs \subseteq Nat
    /\ MaxTTL \in Nat
    /\ MaxTime \in Nat
    /\ Faults \subseteq {"crash", "sigterm", "late"}
    /\ ClusterExpiry \in BOOLEAN
ASSUME TransferAssumption ==
    /\ MaxTransfersPerLease \in Nat \ {0}
    /\ MaxTransfers \in Nat \ {0}
    /\ MaxTransfersPerLease <= MaxTransfers
    /\ TransferTimeout \in Nat \ {0}
ASSUME OperationsAssumption ==
    Operations \subseteq {"acquire", "get", "release", "exec", "transfer"}

VARIABLES
    now,                                          \* the clock
    phase, owner, idemKey, expires, runtime,      \* the SandboxClaims in the cluster
    app, acquireMu, pc, req, queue,               \* the process and its goroutines
    closed, blocked, active, global, perLease,    \* the transfer manager
    cancelled, deadline, waiting,
    granted, released    \* history: every answer of Acquire, the leases released

cluster == <<phase, owner, idemKey, expires, runtime>>
tvars == <<closed, blocked, active, global, perLease, cancelled, deadline, waiting>>
history == <<granted, released>>
vars == <<now, cluster, app, acquireMu, pc, req, queue, tvars, history>>

T == INSTANCE TransferManager WITH
    Ops <- Handlers, Callers <- Procs, Expiries <- 0 .. MaxTime + MaxTTL

----------------------------------------------------------------------------
(* State.                                                                  *)

\* A claim: not created yet; created by a call whose caller gave up before it
\* took effect; stored; stored with a deletion timestamp; gone.
Phases == {"absent", "inflight", "live", "deleting", "gone"}

\* status.sandbox of a claim, as verifyRuntime compares it with the pool.
Runtimes == {None, "match", "mismatch"}

NoReq == [op |-> None, scope |-> None, key |-> None, ttl |-> 0, lid |-> None, exp |-> 0]

AcquireRequests ==
    [op : {"acquire"} \cap Operations, scope : Scopes, key : Keys,
     ttl : TTLs, lid : {None}, exp : {0}]

LeaseRequests ==
    [op : Operations \ {"acquire"}, scope : Scopes, key : {None},
     ttl : {0}, lid : LeaseIDs, exp : {0}]

\* The sweep's own bookkeeping while it stops and deletes one lease.
SweepRequest(id) == [NoReq EXCEPT !.op = "sweep", !.lid = id]

\* exp is record.ExpiresAt as the goroutine read it from the claim.
RequestType ==
    [op : Operations \cup {"acquire", "sweep", None}, scope : Scopes \cup {None},
     key : Keys \cup {None}, ttl : Nat, lid : LeaseIDs \cup {None}, exp : Nat]

\* Points of Acquire where the goroutine holds acquireMu.
AcquirePCs == {"find", "scan", "create", "ready", "verify", "cleanup"}
\* Points of stopLease followed by deleteClaim.
StopPCs == {"stop", "await", "delete"}
HandlerPCs ==
    {"idle", "lock", "require", "target", "exec", "begin", "stream"}
        \cup AcquirePCs \cup StopPCs
SweeperPCs == {"idle", "recover", "list", "sweep"} \cup StopPCs

Apps == {"down", "starting", "serving", "terminating", "draining", "closed"}

TypeOK ==
    /\ phase \in [LeaseIDs -> Phases]
    /\ owner \in [LeaseIDs -> Scopes \cup {None}]
    /\ idemKey \in [LeaseIDs -> Keys \cup {None}]
    /\ expires \in [LeaseIDs -> Nat]
    /\ runtime \in [LeaseIDs -> Runtimes]
    /\ app \in Apps
    /\ acquireMu \in Handlers \cup {None}
    /\ pc \in [Procs -> HandlerPCs \cup SweeperPCs]
    /\ \A p \in Handlers : pc[p] \in HandlerPCs
    /\ pc[Sweeper] \in SweeperPCs
    /\ req \in [Procs -> RequestType]
    /\ queue \in [Procs -> SUBSET LeaseIDs]
    /\ granted \subseteq (Scopes \cup {None}) \X (Keys \cup {None}) \X LeaseIDs
    /\ released \in SUBSET LeaseIDs
    /\ T!TypeOK

Init ==
    /\ now = 0
    /\ phase = [id \in LeaseIDs |-> "absent"]
    /\ owner = [id \in LeaseIDs |-> None]
    /\ idemKey = [id \in LeaseIDs |-> None]
    /\ expires = [id \in LeaseIDs |-> 0]
    /\ runtime = [id \in LeaseIDs |-> None]
    /\ app = "down"
    /\ acquireMu = None
    /\ pc = [p \in Procs |-> "idle"]
    /\ req = [p \in Procs |-> NoReq]
    /\ queue = [p \in Procs |-> {}]
    /\ T!newTransferManager
    /\ granted = {} /\ released = {}

----------------------------------------------------------------------------
(* Helpers.                                                                *)

Expired(id) == expires[id] <= now
Goto(p, label) == pc' = [pc EXCEPT ![p] = label]

\* The goroutine answers its caller and forgets its locals.
Return(p) ==
    /\ Goto(p, "idle")
    /\ req' = [req EXCEPT ![p] = NoReq]
    /\ queue' = [queue EXCEPT ![p] = {}]

\* Acquire answers the lease id to the caller of process p.
Grant(p, id) == granted' = granted \cup {<<req[p].scope, req[p].key, id>>}

\* defer b.acquireMu.Unlock()
Unlock == acquireMu' = None

\* The API server accepts a foreground deletion; not found counts as success.
deleteClaim(id) ==
    phase' = [phase EXCEPT ![id] = IF @ = "live" THEN "deleting" ELSE @]

\* The process is gone with everything it held in memory.
LoseMemory ==
    /\ acquireMu' = None
    /\ pc' = [p \in Procs |-> "idle"]
    /\ req' = [p \in Procs |-> NoReq]
    /\ queue' = [p \in Procs |-> {}]
    /\ T!restart

Exit == app' = "down" /\ LoseMemory

----------------------------------------------------------------------------
(* HTTP requests and Acquire.                                              *)

\* A request that passed authentication; the server accepts connections until
\* Shutdown is called.
Request(p) ==
    /\ app \in {"serving", "terminating"}
    /\ pc[p] = "idle"
    /\ \E r \in AcquireRequests \cup LeaseRequests :
        /\ req' = [req EXCEPT ![p] = r]
        /\ Goto(p, IF r.op = "acquire" THEN "lock" ELSE "require")
    /\ UNCHANGED <<now, cluster, app, acquireMu, queue, tvars, history>>

\* acquireMu.Lock and the checks of the request that follow it; an unknown pool
\* leaves the same way as a TTL out of range.
Lock(p) ==
    /\ pc[p] = "lock"
    /\ acquireMu = None
    /\ \/ /\ req[p].ttl <= 0 \/ req[p].ttl > MaxTTL
          /\ Return(p)
          /\ UNCHANGED acquireMu
       \/ /\ req[p].ttl > 0 /\ req[p].ttl <= MaxTTL
          /\ acquireMu' = p
          /\ Goto(p, "find")
          /\ UNCHANGED <<req, queue>>
    /\ UNCHANGED <<now, cluster, app, tvars, history>>

\* The claims findByIdempotencyKey goes through: label selector, no deletion
\* timestamp.
SameKey(scope, key) ==
    {id \in LeaseIDs : phase[id] = "live" /\ owner[id] = scope /\ idemKey[id] = key}

\* Fault: the label selector is built without the tenant scope.
FindAcrossScopes(p) ==
    /\ pc[p] = "find"
    /\ queue' = [queue EXCEPT ![p] =
                    {id \in LeaseIDs : phase[id] = "live" /\ idemKey[id] = req[p].key}]
    /\ Goto(p, "scan")
    /\ UNCHANGED <<now, cluster, app, acquireMu, req, tvars, history>>

\* Fault: the mutex is given up after the lookup.
FindUnlocks(p) ==
    /\ pc[p] = "find"
    /\ queue' = [queue EXCEPT ![p] = SameKey(req[p].scope, req[p].key)]
    /\ Goto(p, "scan")
    /\ Unlock
    /\ UNCHANGED <<now, cluster, app, req, tvars, history>>

\* findByIdempotencyKey lists the claims ...
Find(p) ==
    /\ pc[p] = "find"
    /\ \/ /\ queue' = [queue EXCEPT ![p] = SameKey(req[p].scope, req[p].key)]
          /\ Goto(p, "scan")
          /\ UNCHANGED <<acquireMu, req>>
       \/ /\ Return(p)     \* the list fails
          /\ Unlock
    /\ UNCHANGED <<now, cluster, app, tvars, history>>

\* ... and takes each one as it was listed: an unexpired claim is the answer, a
\* replay ...
ScanReplay(p) ==
    /\ pc[p] = "scan"
    /\ \E id \in queue[p] :
        /\ ~Expired(id)
        /\ Grant(p, id)
    /\ Unlock
    /\ Return(p)
    /\ UNCHANGED <<now, cluster, app, tvars, released>>

\* ... an expired one is deleted, whether or not the deletion succeeds ...
ScanExpired(p) ==
    /\ pc[p] = "scan"
    /\ \E id \in queue[p] :
        /\ Expired(id)
        /\ deleteClaim(id) \/ UNCHANGED phase
        /\ queue' = [queue EXCEPT ![p] = @ \ {id}]
    /\ UNCHANGED <<now, owner, idemKey, expires, runtime, app, acquireMu, pc, req,
                   tvars, history>>

\* ... one whose annotations cannot be read ends Acquire with the error ...
ScanFails(p) ==
    /\ pc[p] = "scan"
    /\ queue[p] # {}
    /\ Unlock
    /\ Return(p)
    /\ UNCHANGED <<now, cluster, app, tvars, history>>

\* ... and when none is left Acquire reads the clock and builds a record.
ScanDone(p) ==
    /\ pc[p] = "scan"
    /\ queue[p] = {}
    /\ req' = [req EXCEPT ![p].exp = now + req[p].ttl]
    /\ Goto(p, "create")
    /\ UNCHANGED <<now, cluster, app, acquireMu, queue, tvars, history>>

\* buildClaim: the claim carries the caller's scope and key and the expiry.
buildClaim(p, id, ph) ==
    /\ phase' = [phase EXCEPT ![id] = ph]
    /\ owner' = [owner EXCEPT ![id] = req[p].scope]
    /\ idemKey' = [idemKey EXCEPT ![id] = req[p].key]
    /\ expires' = [expires EXCEPT ![id] = req[p].exp]
    /\ UNCHANGED runtime

\* Fault: names are derived from the key, and a claim's name is used again.
CreateReusesName(p) ==
    /\ pc[p] = "create"
    /\ \E id \in LeaseIDs :
        /\ phase[id] \in {"absent", "gone"}
        /\ buildClaim(p, id, "live")
        /\ req' = [req EXCEPT ![p].lid = id]
    /\ Goto(p, "ready")
    /\ UNCHANGED <<now, app, acquireMu, queue, tvars, history>>

\* Create under a fresh name succeeds ...
Create(p) ==
    /\ pc[p] = "create"
    /\ \E id \in LeaseIDs :
        /\ phase[id] = "absent"
        /\ buildClaim(p, id, "live")
        /\ req' = [req EXCEPT ![p].lid = id]
    /\ Goto(p, "ready")
    /\ UNCHANGED <<now, app, acquireMu, queue, tvars, history>>

\* Fault: the error return forgets to unlock.
CreateFailsLocked(p) ==
    /\ pc[p] = "create"
    /\ Return(p)
    /\ UNCHANGED <<now, cluster, app, acquireMu, tvars, history>>

\* ... or returns an error, which says nothing of what the API server did: the
\* claim was not stored, was stored, or is stored later.
CreateFails(p) ==
    /\ pc[p] = "create"
    /\ Unlock
    /\ Return(p)
    /\ \/ UNCHANGED cluster
       \/ \E id \in LeaseIDs :
            /\ phase[id] = "absent"
            /\ \/ buildClaim(p, id, "live")
               \/ "late" \in Faults /\ buildClaim(p, id, "inflight")
    /\ UNCHANGED <<now, app, tvars, history>>

\* waitForReadyClaim sees a sandbox name in the claim's status.  The claim's
\* deletion timestamp is not looked at.
Ready(p) ==
    /\ pc[p] = "ready"
    /\ phase[req[p].lid] \in {"live", "deleting"}
    /\ runtime[req[p].lid] # None
    /\ Goto(p, "verify")
    /\ UNCHANGED <<now, cluster, app, acquireMu, req, queue, tvars, history>>

\* verifyRuntime accepts the Pod's runtime class.
Verify(p) ==
    /\ pc[p] = "verify"
    /\ phase[req[p].lid] \in {"live", "deleting"}
    /\ runtime[req[p].lid] = "match"
    /\ Grant(p, req[p].lid)
    /\ Unlock
    /\ Return(p)
    /\ UNCHANGED <<now, cluster, app, tvars, released>>

\* waitForReadyClaim times out, is cancelled or fails; verifyRuntime fails or
\* finds another runtime class.
NotReady(p) ==
    /\ pc[p] \in {"ready", "verify"}
    /\ Goto(p, "cleanup")
    /\ UNCHANGED <<now, cluster, app, acquireMu, req, queue, tvars, history>>

\* The claim is deleted, best effort, and Acquire returns the error.
Cleanup(p) ==
    /\ pc[p] = "cleanup"
    /\ deleteClaim(req[p].lid) \/ UNCHANGED phase
    /\ Unlock
    /\ Return(p)
    /\ UNCHANGED <<now, owner, idemKey, expires, runtime, app, tvars, history>>

----------------------------------------------------------------------------
(* Operations on a lease named by its ID.                                  *)

\* requireClaim finds the claim: not being deleted, and of the caller's scope.
Visible(p, id) == phase[id] = "live" /\ owner[id] = req[p].scope

\* requireClaim answers 404, or the API call fails.
RequireFails(p) ==
    /\ pc[p] = "require"
    /\ Return(p)
    /\ UNCHANGED <<now, cluster, app, acquireMu, tvars, history>>

\* Get reports an active lease.
GetActive(p) ==
    /\ pc[p] = "require"
    /\ req[p].op = "get"
    /\ Visible(p, req[p].lid)
    /\ ~Expired(req[p].lid)
    /\ Return(p)
    /\ UNCHANGED <<now, cluster, app, acquireMu, tvars, history>>

\* Release and Delete stop the lease; so does every operation that finds it
\* expired.
RequireStop(p) ==
    /\ pc[p] = "require"
    /\ Visible(p, req[p].lid)
    /\ req[p].op = "release" \/ Expired(req[p].lid)
    /\ Goto(p, "stop")
    /\ UNCHANGED <<now, cluster, app, acquireMu, req, queue, tvars, history>>

\* requireActiveTarget and prepareTransfer go on to targetForClaim with the
\* claim they read, unless its status names no sandbox.
RequireActive(p) ==
    /\ pc[p] = "require"
    /\ req[p].op \in {"exec", "transfer"}
    /\ Visible(p, req[p].lid)
    /\ ~Expired(req[p].lid)
    /\ runtime[req[p].lid] # None
    /\ req' = [req EXCEPT ![p].exp = expires[req[p].lid]]
    /\ Goto(p, "target")
    /\ UNCHANGED <<now, cluster, app, acquireMu, queue, tvars, history>>

\* targetForClaim reads the Sandbox and its Pod.
Target(p) ==
    /\ pc[p] = "target"
    /\ \/ /\ phase[req[p].lid] # "gone"
          /\ Goto(p, IF req[p].op = "exec" THEN "exec" ELSE "begin")
          /\ UNCHANGED <<req, queue>>
       \/ Return(p)
    /\ UNCHANGED <<now, cluster, app, acquireMu, tvars, history>>

\* runCommand returns: nothing but its own context bounds it.
ExecReturn(p) ==
    /\ pc[p] = "exec"
    /\ Return(p)
    /\ UNCHANGED <<now, cluster, app, acquireMu, tvars, history>>

\* OpenFile and WriteFileStream: begin admits the transfer or refuses it.
Begin(p) ==
    /\ pc[p] = "begin"
    /\ \/ /\ T!begin(p, req[p].lid, req[p].exp)
          /\ Goto(p, "stream")
          /\ UNCHANGED <<req, queue>>
       \/ /\ T!beginRefused(req[p].lid)
          /\ Return(p)
    /\ UNCHANGED <<now, cluster, app, acquireMu, history>>

\* The stream ends, in success or in error, and the operation is finished.
StreamReturn(p) ==
    /\ pc[p] = "stream"
    /\ T!finish(p, req[p].lid)
    /\ Return(p)
    /\ UNCHANGED <<now, cluster, app, acquireMu, history>>

----------------------------------------------------------------------------
(* stopLease and then deleteClaim, by a handler or by the sweep.           *)

Stop(p) ==
    /\ pc[p] = "stop"
    /\ T!stopLease(p, req[p].lid)
    /\ Goto(p, "await")
    /\ UNCHANGED <<now, cluster, app, acquireMu, req, queue, history>>

\* Every awaited operation is done.
Stopped(p) ==
    /\ pc[p] = "await"
    /\ waiting[p] = {}
    /\ Goto(p, "delete")
    /\ UNCHANGED <<now, cluster, app, acquireMu, req, queue, tvars, history>>

\* Release and Delete wait under the request's context, the sweep under the
\* process's; the others use context.WithoutCancel and cannot give up.
StopAborted(p) ==
    /\ pc[p] = "await"
    /\ \/ req[p].op = "release"
       \/ p = Sweeper /\ app = "terminating"
    /\ T!waitAborted(p)
    /\ Return(p)
    /\ UNCHANGED <<now, cluster, app, acquireMu, history>>

\* The handler's deleteClaim: only Release and Delete report its result.
HandlerDelete(p) ==
    /\ p \in Handlers
    /\ pc[p] = "delete"
    /\ deleteClaim(req[p].lid)
    /\ released' = IF req[p].op = "release" THEN released \cup {req[p].lid} ELSE released
    /\ Return(p)
    /\ UNCHANGED <<now, owner, idemKey, expires, runtime, app, acquireMu, tvars,
                   granted>>

HandlerDeleteFails(p) ==
    /\ p \in Handlers
    /\ pc[p] = "delete"
    /\ Return(p)
    /\ UNCHANGED <<now, cluster, app, acquireMu, tvars, history>>

----------------------------------------------------------------------------
(* App.Run: recovery, the sweep, shutdown.                                 *)

\* The deployment starts the process again.
Restart ==
    /\ app = "down"
    /\ app' = "starting"
    /\ Goto(Sweeper, "recover")
    /\ UNCHANGED <<now, cluster, acquireMu, req, queue, tvars, history>>

\* Recover lists the active leases; the result is not used.
Recover ==
    /\ pc[Sweeper] = "recover"
    /\ Goto(Sweeper, "list")
    /\ UNCHANGED <<now, cluster, app, acquireMu, req, queue, tvars, history>>

\* Fault: the ticker is never started.
SweepOnlyAtStartup ==
    /\ app = "starting"
    /\ pc[Sweeper] = "idle"
    /\ Goto(Sweeper, "list")
    /\ UNCHANGED <<now, cluster, app, acquireMu, req, queue, tvars, history>>

\* The ticker fires.
SweepStart ==
    /\ app = "serving"
    /\ pc[Sweeper] = "idle"
    /\ Goto(Sweeper, "list")
    /\ UNCHANGED <<now, cluster, app, acquireMu, req, queue, tvars, history>>

\* SweepExpired lists the claims ...
SweepList ==
    /\ pc[Sweeper] = "list"
    /\ queue' = [queue EXCEPT ![Sweeper] = {id \in LeaseIDs : phase[id] = "live"}]
    /\ Goto(Sweeper, "sweep")
    /\ UNCHANGED <<now, cluster, app, acquireMu, req, tvars, history>>

\* ... stops and deletes each one that has expired by the time it is reached ...
SweepNext(id) ==
    /\ pc[Sweeper] = "sweep"
    /\ id \in queue[Sweeper]
    /\ queue' = [queue EXCEPT ![Sweeper] = @ \ {id}]
    /\ \/ /\ Expired(id)
          /\ req' = [req EXCEPT ![Sweeper] = SweepRequest(id)]
          /\ Goto(Sweeper, "stop")
       \/ /\ ~Expired(id)
          /\ UNCHANGED <<req, pc>>
    /\ UNCHANGED <<now, cluster, app, acquireMu, tvars, history>>

SweepDelete ==
    /\ pc[Sweeper] = "delete"
    /\ deleteClaim(req[Sweeper].lid)
    /\ req' = [req EXCEPT ![Sweeper] = NoReq]
    /\ Goto(Sweeper, "sweep")
    /\ UNCHANGED <<now, owner, idemKey, expires, runtime, app, acquireMu, queue,
                   tvars, history>>

\* ... and is done; the first sweep precedes the listener.
SweepDone ==
    /\ pc[Sweeper] = "sweep"
    /\ queue[Sweeper] = {}
    /\ app' = IF app = "starting" THEN "serving" ELSE app
    /\ Return(Sweeper)
    /\ UNCHANGED <<now, cluster, acquireMu, tvars, history>>

\* An API call of Recover or of the sweep fails, or recordFromClaim cannot read
\* the annotations of the next claim: the rest of the sweep is skipped, and at
\* startup the process exits.
SweepFails ==
    /\ \/ pc[Sweeper] \in {"recover", "list", "delete"}
       \/ pc[Sweeper] = "sweep" /\ queue[Sweeper] # {}
    /\ IF app = "starting"
       THEN Exit
       ELSE Return(Sweeper) /\ UNCHANGED <<app, acquireMu, tvars>>
    /\ UNCHANGED <<now, cluster, history>>

\* SIGTERM cancels the context of Run.
Terminate ==
    /\ "sigterm" \in Faults
    /\ app = "serving"
    /\ app' = "terminating"
    /\ UNCHANGED <<now, cluster, acquireMu, pc, req, queue, tvars, history>>

\* server.Shutdown: no new requests, wait for the handlers.
Shutdown ==
    /\ app = "terminating"
    /\ pc[Sweeper] = "idle"
    /\ app' = "draining"
    /\ UNCHANGED <<now, cluster, acquireMu, pc, req, queue, tvars, history>>

\* Every handler has returned within the shutdown timeout: backend.Close.
CloseBackend ==
    /\ app = "draining"
    /\ \A p \in Handlers : pc[p] = "idle"
    /\ T!close
    /\ app' = "closed"
    /\ UNCHANGED <<now, cluster, acquireMu, pc, req, queue, history>>

\* Close has seen the last operation finish; Run returns.
CloseReturns ==
    /\ app = "closed"
    /\ T!AllActive = {}
    /\ Exit
    /\ UNCHANGED <<now, cluster, history>>

\* The shutdown timeout passes first: Run returns without calling Close.
ShutdownTimeout ==
    /\ app = "draining"
    /\ \E p \in Handlers : pc[p] # "idle"
    /\ Exit
    /\ UNCHANGED <<now, cluster, history>>

Crash ==
    /\ "crash" \in Faults
    /\ app # "down"
    /\ Exit
    /\ UNCHANGED <<now, cluster, history>>

----------------------------------------------------------------------------
(* The cluster (external) and the clock.                                   *)

\* The controller binds a sandbox to the claim.
Bind(id) ==
    /\ phase[id] = "live"
    /\ runtime[id] = None
    /\ \E r \in Runtimes \ {None} : runtime' = [runtime EXCEPT ![id] = r]
    /\ UNCHANGED <<now, phase, owner, idemKey, expires, app, acquireMu, pc, req, queue,
                   tvars, history>>

\* The controller enforces shutdownTime; foreground deletion completes; a
\* Create that was in flight takes effect.
ClusterStep(id) ==
    /\ \/ /\ ClusterExpiry /\ phase[id] = "live" /\ Expired(id)
          /\ phase' = [phase EXCEPT ![id] = "deleting"]
       \/ /\ phase[id] = "deleting"
          /\ phase' = [phase EXCEPT ![id] = "gone"]
       \/ /\ phase[id] = "inflight"
          /\ phase' = [phase EXCEPT ![id] = "live"]
    /\ UNCHANGED <<now, owner, idemKey, expires, runtime, app, acquireMu, pc, req, queue,
                   tvars, history>>

Tick ==
    /\ now < MaxTime
    /\ now' = now + 1
    /\ UNCHANGED <<cluster, app, acquireMu, pc, req, queue, tvars, history>>

----------------------------------------------------------------------------
AcquireStep(p) ==
    \/ Lock(p) \/ Find(p) \/ ScanReplay(p) \/ ScanExpired(p) \/ ScanFails(p) \/ ScanDone(p)
    \/ Create(p) \/ CreateFails(p) \/ Ready(p) \/ Verify(p) \/ NotReady(p) \/ Cleanup(p)

LeaseStep(p) ==
    \/ RequireFails(p) \/ GetActive(p) \/ RequireStop(p) \/ RequireActive(p)
    \/ Target(p) \/ ExecReturn(p) \/ Begin(p) \/ StreamReturn(p)
    \/ HandlerDelete(p) \/ HandlerDeleteFails(p)

StopStep(p) == Stop(p) \/ Stopped(p) \/ StopAborted(p)

SweepStep ==
    \/ Recover \/ SweepStart \/ SweepList \/ SweepDelete \/ SweepDone \/ SweepFails
    \/ \E id \in LeaseIDs : SweepNext(id)

AppStep ==
    \/ Restart \/ Terminate \/ Shutdown \/ CloseBackend \/ CloseReturns
    \/ ShutdownTimeout \/ Crash

Next ==
    \/ \E p \in Handlers : Request(p) \/ AcquireStep(p) \/ LeaseStep(p)
    \/ \E p \in Procs : StopStep(p)
    \/ SweepStep
    \/ AppStep
    \/ \E id \in LeaseIDs : Bind(id) \/ ClusterStep(id)
    \/ Tick

Spec == Init /\ [][Next]_vars

----------------------------------------------------------------------------
(* Safety.                                                                 *)

Active(id) == phase[id] = "live" /\ ~Expired(id)

\* A tenant scope and idempotency key stand for at most one active lease, across
\* concurrent Acquire calls, expiry during the scan, lost responses, crashes
\* between any two API calls and restarts (Backend.Acquire, acquireMu).
OneActiveLeasePerKey ==
    \A i, j \in LeaseIDs :
        /\ Active(i) /\ Active(j)
        /\ owner[i] = owner[j] /\ idemKey[i] = idemKey[j]
        => i = j

\* Once Release or Delete has reported success, the lease is never served again:
\* its claim is not live, and no streaming transfer is registered on it, not
\* even one whose prepareTransfer read the claim before the release began, and
\* not after a restart forgot which leases are blocked.
ReleaseIsFinal ==
    \A id \in released : phase[id] \in {"deleting", "gone"} /\ active[id] = {}

\* A claim is deleted by Release, Delete, the sweep or an operation that found
\* it expired only when no transfer of the lease is registered any more
\* (stopLease precedes deleteClaim).
DeleteIsQuiet ==
    \A p \in Procs : pc[p] = "delete" => active[req[p].lid] = {}

\* A transfer whose context is not done belongs to a caller of the lease's own
\* tenant scope and runs within the lease's lifetime, however long ago
\* prepareTransfer checked both.
TransferAuthorised ==
    \A p \in Handlers, id \in LeaseIDs :
        p \in active[id] /\ ~T!CtxDone(p) =>
            /\ req[p].scope = owner[id]
            /\ now < expires[id]

\* Every lease Acquire ever answered, fresh or replayed, for the first time or
\* once more, is of the scope and of the key of the caller it was answered to,
\* and stays so.  (Replays are looked up by label selector, fresh leases are
\* built; docs/api-v1.md:13: a lease of another tenant is as unknown as no lease.)
AcquireStaysInScope ==
    \A g \in granted : owner[g[3]] = g[1] /\ idemKey[g[3]] = g[2]

----------------------------------------------------------------------------
(* The backend implements the abstract lease service.                      *)

LeaseStatus ==
    [id \in LeaseIDs |->
        IF phase[id] \in {"absent", "inflight"} THEN "none"
        ELSE IF Active(id) THEN "active" ELSE "ended"]

Service == INSTANCE LeaseService WITH
    status <- LeaseStatus, scopeOf <- owner, keyOf <- idemKey

\* Seen through its claims, the backend is the lease service: a lease is opened
\* while its key has no other active lease, keeps its scope and key, ends once
\* and never becomes active again, in every interleaving of handlers, sweep,
\* crashes, restarts and expiry.
ImplementsLeaseService == Service!Spec

----------------------------------------------------------------------------
(* Liveness.                                                               *)

\* The scheduler runs every goroutine and answers come or calls fail: a holder
\* of acquireMu goes on, a transfer whose context is done returns, shutdown goes
\* on; the deployment restarts the process and the clock advances.  Nothing is
\* assumed of requests, crashes, SIGTERM, or of commands and transfers that are
\* still allowed to run.
Fairness ==
    /\ WF_vars(Tick)
    /\ WF_vars(Restart)
    /\ WF_vars(Shutdown) /\ WF_vars(CloseBackend) /\ WF_vars(CloseReturns)
    /\ WF_vars(ShutdownTimeout)
    /\ \A p \in Handlers :
        /\ WF_vars(pc[p] \in AcquirePCs /\ AcquireStep(p))
        /\ WF_vars(pc[p] = "stream" /\ T!CtxDone(p) /\ StreamReturn(p))

LiveSpec == Spec /\ Fairness

\* The ticker fires, and what the sweep tries again and again in spite of
\* failures and crashes succeeds sometimes: the list, and for each claim its
\* turn, its annotations, its stop and its deletion.
SweepFairness ==
    /\ WF_vars(SweepStart) /\ WF_vars(SweepDone)
    /\ SF_vars(Recover) /\ SF_vars(SweepList)
    /\ \A id \in LeaseIDs :
        /\ SF_vars(SweepNext(id))
        /\ SF_vars(req[Sweeper].lid = id /\ Stop(Sweeper))
        /\ SF_vars(req[Sweeper].lid = id /\ Stopped(Sweeper))
        /\ SF_vars(req[Sweeper].lid = id /\ SweepDelete)

\* A waiter of a sync.Mutex that is unlocked again and again gets it.
MutexFairness == \A p \in Handlers : SF_vars(Lock(p))

\* Every lease that has expired is deleted in the end by the sweep alone, in
\* spite of failing API calls, transfers in progress, crashes and restarts.
ExpiredAreDeleted ==
    SweepFairness =>
        \A id \in LeaseIDs : (phase[id] = "live" /\ Expired(id)) ~> (phase[id] # "live")

\* A caller that waits for acquireMu gets it in the end, whatever becomes of the
\* Acquire that holds it while it lists, creates, waits for the sandbox and
\* cleans up: its API calls fail or its answer is lost, it never keeps the mutex.
AcquireIsServed ==
    MutexFairness =>
        \A p \in Handlers : (pc[p] = "lock") ~> (pc[p] # "lock")
============================================================================
