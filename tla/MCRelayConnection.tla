-------------------------- MODULE MCRelayConnection --------------------------
(* Instances of RelayConnection for TLC.  No symmetry: liveness is checked. *)
EXTENDS RelayConnection
=============================================================================
