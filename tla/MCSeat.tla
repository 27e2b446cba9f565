------------------------------- MODULE MCSeat -------------------------------
(* Seat for TLC.  Surfaces are interchangeable, and buttons.                *)
EXTENDS Seat, TLC

Interchangeable == Permutations(Surfaces) \cup Permutations(Buttons)
=============================================================================
