----------------------------- MODULE MCSurface -----------------------------
(* Model checking of Surface.                                               *)
EXTENDS Surface, TLC

Interchangeable == Permutations(Buffers) \cup Permutations(Areas)
=============================================================================
