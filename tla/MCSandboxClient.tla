-------------------------- MODULE MCSandboxClient --------------------------
(***************************************************************************)
(* Instance of SandboxClient for TLC: two leases of one scope, with another *)
(* scope's between them; lists of one scope, of a pool, of the other scope. *)
(***************************************************************************)
EXTENDS SandboxClient

Scope == (1 :> "a") @@ (2 :> "b") @@ (3 :> "a")
Pool == (1 :> "p") @@ (2 :> "p") @@ (3 :> "q")
Expiry == (1 :> 1) @@ (2 :> 2) @@ (3 :> 1)
Lists == {[scope |-> "a", pool |-> "any", limit |-> 1],
          [scope |-> "a", pool |-> "q", limit |-> 2],
          [scope |-> "b", pool |-> "any", limit |-> 1]}
=============================================================================
