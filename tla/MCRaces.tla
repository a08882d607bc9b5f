------------------------------ MODULE MCRaces -------------------------------
(***************************************************************************)
(* The instance of overlapping requests for TLC.                           *)
(***************************************************************************)
EXTENDS OrderLocks, TLC

=============================================================================
