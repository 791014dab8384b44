----------------------------- MODULE MCRegistry -----------------------------
(***************************************************************************)
(* Instance of Registry for TLC.                                           *)
(***************************************************************************)
EXTENDS Registry, TLC

CONSTANTS h1, h2, c1, c2

Symmetric == Permutations({h1, h2}) \cup Permutations({c1, c2})
=============================================================================
