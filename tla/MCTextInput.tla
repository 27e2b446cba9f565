----------------------------- MODULE MCTextInput -----------------------------
(* Model checking of TextInput.                                             *)
EXTENDS TextInput, TLC

Interchangeable == Permutations(Surfaces) \cup Permutations(Texts)
=============================================================================
