----------------------------- MODULE MCConquest -----------------------------
(* Small wars for TLC: two slots and the two homeworlds.  Where kills are  *)
(* bounded by none, ships fill up without kills, as starbases do.           *)
EXTENDS Conquest

Home == [t \in PlayTeams |-> t]
OwnHomes == [p \in Planets |-> p]
TwoArmies == [p \in Planets |-> 2]
OneOrNone == [type \in ShipTypes |-> IF type = "AS" THEN 1 ELSE 0]
NoKills == [type \in ShipTypes |-> 0]
=============================================================================
