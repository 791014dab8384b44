------------------------- MODULE MCSupervisorServer -------------------------
(***************************************************************************)
(* Instance of SupervisorServer for TLC.                                   *)
(***************************************************************************)
EXTENDS SupervisorServer
=============================================================================
