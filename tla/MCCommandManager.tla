-------------------------- MODULE MCCommandManager --------------------------
(***************************************************************************)
(* Instance of CommandManager for TLC.                                     *)
(***************************************************************************)
EXTENDS CommandManager, TLC

CONSTANTS h1, h2, c1, c2, r1, r2, r3

Symmetric == Permutations({h1, h2}) \cup Permutations({c1, c2}) \cup Permutations({r1, r2, r3})
=============================================================================
