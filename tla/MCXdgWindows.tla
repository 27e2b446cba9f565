---------------------------- MODULE MCXdgWindows ----------------------------
(* Model checking of XdgWindows.                                            *)
EXTENDS XdgWindows

=============================================================================
