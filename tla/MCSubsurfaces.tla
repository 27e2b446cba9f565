---------------------------- MODULE MCSubsurfaces ----------------------------
(* Model checking of Subsurfaces, with the windows of XdgWindows.            *)
EXTENDS Subsurfaces

=============================================================================
