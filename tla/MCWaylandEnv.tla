---------------------------- MODULE MCWaylandEnv ----------------------------
(* Model checking of WaylandEnv.                                             *)
EXTENDS WaylandEnv

=============================================================================
