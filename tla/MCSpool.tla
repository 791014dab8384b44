------------------------------- MODULE MCSpool -------------------------------
(***************************************************************************)
(* Instance of Spool for TLC.                                              *)
(***************************************************************************)
EXTENDS Spool
==============================================================================
