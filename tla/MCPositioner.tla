---------------------------- MODULE MCPositioner ----------------------------
(* Positioner for TLC.                                                      *)
EXTENDS Positioner

MCWorkArea == [a \in Axes |-> [lo |-> 0, hi |-> 4]]
=============================================================================
