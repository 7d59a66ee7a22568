--------------------------- MODULE MCWindowPlugin ----------------------------
(***************************************************************************)
(* WindowPlugin with handles as model values.                              *)
(***************************************************************************)
EXTENDS WindowPlugin, TLC

Symmetry == Permutations(Handles)
=============================================================================
