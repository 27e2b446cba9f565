-------------------------- MODULE MCFrameCallbacks --------------------------
(* Model checking of FrameCallbacks.                                        *)
EXTENDS FrameCallbacks, TLC

Interchangeable == Permutations(Callbacks)
=============================================================================
