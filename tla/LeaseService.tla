---------------------------- MODULE LeaseService ----------------------------
(***************************************************************************)
(* What the lease API promises its consumers, without handlers, mutexes,   *)
(* Kubernetes or a clock: a lease is opened once, for one tenant scope and *)
(* idempotency key, while that pair has no other active lease; it ends     *)
(* once, by expiry or by deletion, and never comes back                    *)
(* (apps/control-plane-go/internal/lease/lease.go, the Backend interface). *)
(***************************************************************************)
CONSTANTS Scopes, Keys, LeaseIDs, None

VARIABLES
    status,  \* "none", "active" or "ended"
    scopeOf, keyOf

svars == <<status, scopeOf, keyOf>>

Init ==
    /\ status = [id \in LeaseIDs |-> "none"]
    /\ scopeOf = [id \in LeaseIDs |-> None]
    /\ keyOf = [id \in LeaseIDs |-> None]

\* A lease may have expired by the time the service stores it.
Open(id, scope, key, st) ==
    /\ status[id] = "none"
    /\ st = "active" =>
        \A j \in LeaseIDs : status[j] = "active" => ~(scopeOf[j] = scope /\ keyOf[j] = key)
    /\ status' = [status EXCEPT ![id] = st]
    /\ scopeOf' = [scopeOf EXCEPT ![id] = scope]
    /\ keyOf' = [keyOf EXCEPT ![id] = key]

\* Time may end several leases at once.
End(ids) ==
    /\ \A id \in ids : status[id] = "active"
    /\ status' = [id \in LeaseIDs |-> IF id \in ids THEN "ended" ELSE status[id]]
    /\ UNCHANGED <<scopeOf, keyOf>>

Next ==
    \/ \E id \in LeaseIDs, scope \in Scopes, key \in Keys, st \in {"active", "ended"} :
        Open(id, scope, key, st)
    \/ \E ids \in SUBSET LeaseIDs : End(ids)

Spec == Init /\ [][Next]_svars
=============================================================================
