-------------------------- MODULE TransferManager --------------------------
(***************************************************************************)
(* The streaming-transfer admission of the Kubernetes lease backend:       *)
(* transferManager and transferOperation of                                *)
(* apps/control-plane-go/internal/backend/kubernetes/transfer.go.          *)
(*                                                                         *)
(* Every operation of the manager holds m.mu for its whole body, so each   *)
(* is one action.  stopLease is two: it marks the lease blocked and        *)
(* cancels its operations under m.mu, then waits without the mutex until   *)
(* each of them has closed its done channel.                               *)
(***************************************************************************)
EXTENDS Integers, FiniteSets

CONSTANTS
    Ops,                  \* transfer operations, named by the goroutine that runs them
    Callers,              \* goroutines that may call stopLease
    LeaseIDs,
    MaxTransfers,         \* maxGlobal
    MaxTransfersPerLease, \* maxPerLease
    TransferTimeout,
    Expiries,             \* expiry times begin may be given
    MaxTime               \* bound: the clock stops here

ASSUME LimitsAssumption ==
    /\ MaxTransfersPerLease \in Nat \ {0}
    /\ MaxTransfers \in Nat \ {0}
    /\ MaxTransfersPerLease <= MaxTransfers
    /\ TransferTimeout \in Nat \ {0}
    /\ Expiries \subseteq Nat

VARIABLES
    now,        \* the clock
    closed,
    blocked,    \* leases stopLease was called for; never cleared
    active,     \* lease -> operations registered by begin and not finished
    global,
    perLease,
    cancelled,  \* active operations whose cancel function was called
    deadline,   \* active operation -> deadline of its context
    waiting     \* stopLease caller -> operations whose done channel it awaits

tvars == <<closed, blocked, active, global, perLease, cancelled, deadline, waiting>>

TypeOK ==
    /\ now \in Nat
    /\ closed \in BOOLEAN
    /\ blocked \in SUBSET LeaseIDs
    /\ active \in [LeaseIDs -> SUBSET Ops]
    /\ global \in Nat
    /\ perLease \in [LeaseIDs -> Nat]
    /\ cancelled \in SUBSET Ops
    /\ deadline \in [Ops -> Nat]
    /\ waiting \in [Callers -> SUBSET Ops]

----------------------------------------------------------------------------
(* The context of an operation and the registration of operations.         *)

AllActive == UNION {active[id] : id \in LeaseIDs}

\* ctx.Err() /= nil: cancelled, or past the deadline given to WithDeadline.
CtxDone(op) == op \in cancelled \/ deadline[op] <= now

\* min(now + timeout, expiresAt)
TransferDeadline(expiresAt) ==
    IF expiresAt < now + TransferTimeout THEN expiresAt ELSE now + TransferTimeout

LimitReached(id) ==
    global >= MaxTransfers \/ perLease[id] >= MaxTransfersPerLease

----------------------------------------------------------------------------
(* Operations.                                                             *)

newTransferManager ==
    /\ closed = FALSE
    /\ blocked = {}
    /\ active = [id \in LeaseIDs |-> {}]
    /\ global = 0
    /\ perLease = [id \in LeaseIDs |-> 0]
    /\ cancelled = {}
    /\ deadline = [op \in Ops |-> 0]
    /\ waiting = [c \in Callers |-> {}]

\* The process is gone, and the next one makes a new manager.
restart ==
    /\ closed' = FALSE
    /\ blocked' = {}
    /\ active' = [id \in LeaseIDs |-> {}]
    /\ global' = 0
    /\ perLease' = [id \in LeaseIDs |-> 0]
    /\ cancelled' = {}
    /\ deadline' = [op \in Ops |-> 0]
    /\ waiting' = [c \in Callers |-> {}]

\* begin registers the operation.
Register(op, id, expiresAt) ==
    /\ active' = [active EXCEPT ![id] = @ \cup {op}]
    /\ global' = global + 1
    /\ perLease' = [perLease EXCEPT ![id] = @ + 1]
    /\ deadline' = [deadline EXCEPT ![op] = TransferDeadline(expiresAt)]
    /\ UNCHANGED <<closed, blocked, cancelled, waiting>>

\* Fault: the blocked check is lost from begin.
BeginIgnoringBlocked(op, id, expiresAt) ==
    /\ ~closed
    /\ op \notin AllActive
    /\ ~LimitReached(id)
    /\ Register(op, id, expiresAt)

\* Fault: the limit comparison is off by one.
BeginOverLimit(op, id, expiresAt) ==
    /\ ~closed
    /\ id \notin blocked
    /\ op \notin AllActive
    /\ global <= MaxTransfers
    /\ Register(op, id, expiresAt)

\* Fault: the deadline is not capped by the lease's expiry.
BeginUncapped(op, id, expiresAt) ==
    /\ ~closed
    /\ id \notin blocked
    /\ op \notin AllActive
    /\ ~LimitReached(id)
    /\ Register(op, id, now + TransferTimeout)

begin(op, id, expiresAt) ==
    /\ ~closed
    /\ id \notin blocked
    /\ op \notin AllActive
    /\ ~LimitReached(id)
    /\ Register(op, id, expiresAt)

\* begin returns 408 ABORTED or 429 TRANSFER_LIMIT_REACHED.
beginRefused(id) ==
    /\ closed \/ id \in blocked \/ LimitReached(id)
    /\ UNCHANGED tvars

\* finish also closes op.done, so no caller awaits the operation any more.
finish(op, id) ==
    /\ op \in active[id]
    /\ active' = [active EXCEPT ![id] = @ \ {op}]
    /\ global' = global - 1
    /\ perLease' = [perLease EXCEPT ![id] = @ - 1]
    /\ cancelled' = cancelled \ {op}
    /\ deadline' = [deadline EXCEPT ![op] = 0]
    /\ waiting' = [c \in Callers |-> waiting[c] \ {op}]
    /\ UNCHANGED <<closed, blocked>>

\* Fault: stopLease cancels the operations it finds and does not await them.
StopWithoutWaiting(c, id) ==
    /\ waiting[c] = {}
    /\ blocked' = blocked \cup {id}
    /\ cancelled' = cancelled \cup active[id]
    /\ UNCHANGED <<closed, active, global, perLease, deadline, waiting>>

\* The critical section of stopLease; c goes on to await waiting[c].
stopLease(c, id) ==
    /\ waiting[c] = {}
    /\ blocked' = blocked \cup {id}
    /\ cancelled' = cancelled \cup active[id]
    /\ waiting' = [waiting EXCEPT ![c] = active[id]]
    /\ UNCHANGED <<closed, active, global, perLease, deadline>>

\* waitTransfers returns because its own context is done.
waitAborted(c) ==
    /\ waiting[c] # {}
    /\ waiting' = [waiting EXCEPT ![c] = {}]
    /\ UNCHANGED <<closed, blocked, active, global, perLease, cancelled, deadline>>

\* op.cancel, called by the transfer's own handler or through its request.
cancel(op) ==
    /\ op \in AllActive
    /\ cancelled' = cancelled \cup {op}
    /\ UNCHANGED <<closed, blocked, active, global, perLease, deadline, waiting>>

\* The critical section of close; the wait group then waits for AllActive = {}.
close ==
    /\ closed' = TRUE
    /\ cancelled' = cancelled \cup AllActive
    /\ UNCHANGED <<blocked, active, global, perLease, deadline, waiting>>

----------------------------------------------------------------------------
(* The manager on its own, called in any order by any goroutine.           *)

Init == now = 0 /\ newTransferManager

Tick == now < MaxTime /\ now' = now + 1 /\ UNCHANGED tvars

Next ==
    \/ Tick
    \/ /\ UNCHANGED now
       /\ \/ \E op \in Ops, id \in LeaseIDs, e \in Expiries : begin(op, id, e)
          \/ \E id \in LeaseIDs : beginRefused(id)
          \/ \E op \in Ops, id \in LeaseIDs : finish(op, id)
          \/ \E c \in Callers, id \in LeaseIDs : stopLease(c, id)
          \/ \E c \in Callers : waitAborted(c)
          \/ \E op \in Ops : cancel(op)
          \/ close
          \/ restart

vars == <<now, tvars>>

Spec == Init /\ [][Next]_vars

----------------------------------------------------------------------------
(* Properties.                                                             *)

\* The two counters of the manager agree with the operations registered, and
\* neither limit is ever exceeded, whatever the order in which transfers
\* begin, are cancelled by stopLease or close, and finish.
TransferAccounting ==
    /\ global = Cardinality(AllActive)
    /\ \A id \in LeaseIDs : perLease[id] = Cardinality(active[id])
    /\ global <= MaxTransfers
    /\ \A id \in LeaseIDs : perLease[id] <= MaxTransfersPerLease

\* After stopLease or close no transfer of the lease runs on undisturbed: each
\* one still registered has been told to stop, so whoever awaits it gets an
\* answer.
StoppedAreCancelled ==
    \A id \in LeaseIDs : closed \/ id \in blocked => active[id] \subseteq cancelled
=============================================================================
