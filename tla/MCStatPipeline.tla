--------------------------- MODULE MCStatPipeline ---------------------------
(* Two game servers that report to one back end. *)
EXTENDS StatPipeline

CONSTANTS s1, s2, g1  \* the members of Servers and Guests

Thresholds == [r \in 0 .. 2 |-> IF r = 2 THEN 3 ELSE r]
OneEach == [s \in Servers |-> IF s = s1 THEN {g1} ELSE {Nobody}]
ClockOnFirst == [s \in Servers |-> IF s = s1 THEN 1 ELSE 0]
=============================================================================
