------------------------------ MODULE MCFlight ------------------------------
(* A small instance of Flight for TLC. *)
EXTENDS Flight
=============================================================================
