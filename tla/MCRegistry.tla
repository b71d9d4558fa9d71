----------------------------- MODULE MCRegistry -----------------------------
(* A small instance of GameToken, and so of Registry, for TLC. *)
EXTENDS GameToken, TLC

Symmetry == Permutations(Creates)
=============================================================================
