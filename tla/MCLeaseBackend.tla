--------------------------- MODULE MCLeaseBackend ---------------------------
(***************************************************************************)
(* LeaseBackend for TLC.  Handlers, lease IDs and scopes are              *)
(* interchangeable: the specification never tells two of them apart.       *)
(***************************************************************************)
EXTENDS LeaseBackend, TLC

Symmetry == Permutations(Handlers) \cup Permutations(LeaseIDs) \cup Permutations(Scopes)
=============================================================================
