------------------------------ MODULE MCDocking ------------------------------
(* A small instance of Docking for TLC: three slots, one of which may be a *)
(* starbase.                                                               *)
EXTENDS Docking
=============================================================================
