------------------------------ MODULE MCCombat ------------------------------
(* Two slots, two teams. *)
EXTENDS Combat

CONSTANTS FED, ROM
=============================================================================
