------------------------------- MODULE Tally -------------------------------
(***************************************************************************)
(* What the statistics of a player promise: what is counted was earned,    *)
(* and nothing is counted twice.  Merit may get lost on its way.           *)
(* StatPipeline implements this module.                                    *)
(***************************************************************************)
EXTENDS Integers

CONSTANTS Servers, Users

VARIABLES
  earned,   \* user -> merit earned in the games
  pending,  \* server -> user -> merit on its way from there to the data base
  counted   \* user -> merit in the data base

vars == <<earned, pending, counted>>

Init ==
  /\ earned = [u \in Users |-> 0]
  /\ pending = [s \in Servers |-> [u \in Users |-> 0]]
  /\ counted = [u \in Users |-> 0]

Earn(s, u) ==
  /\ earned' = [earned EXCEPT ![u] = @ + 1]
  /\ pending' = [pending EXCEPT ![s][u] = @ + 1]
  /\ UNCHANGED counted

Count(s, u) ==
  \E n \in 1 .. pending[s][u] :
    /\ pending' = [pending EXCEPT ![s][u] = @ - n]
    /\ counted' = [counted EXCEPT ![u] = @ + n]
    /\ UNCHANGED earned

Drop(s) ==
  /\ pending' = [pending EXCEPT ![s] = pending'[s]]
  /\ \A u \in Users : pending'[s][u] \in 0 .. pending[s][u]
  /\ UNCHANGED <<earned, counted>>

Next ==
  \E s \in Servers : (\E u \in Users : Earn(s, u) \/ Count(s, u)) \/ Drop(s)

Spec == Init /\ [][Next]_vars
=============================================================================
