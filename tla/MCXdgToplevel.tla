--------------------------- MODULE MCXdgToplevel ---------------------------
(* Model checking of XdgToplevel: the client and the user choose among two  *)
(* sizes, the larger of which is that of the screen.                        *)
EXTENDS XdgToplevel, TLC

Interchangeable == Permutations(Decorations)
=============================================================================
