------------------------------ MODULE MCMatch ------------------------------
(* A small galaxy for Match: two playing teams and two third-space teams, *)
(* one of which starts with more planets than a playing team may lose.    *)
EXTENDS Match

SmallGalaxy == [t \in Teams |-> IF t \in PlayTeams THEN 4 ELSE t - 1]
=============================================================================
