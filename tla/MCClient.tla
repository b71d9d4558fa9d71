------------------------------ MODULE MCClient ------------------------------
(* A small instance of GameClient for TLC. *)
EXTENDS GameClient

\* A key or two of each kind: "c" cloaks and names slot 12, "$" drops both beams, "b" bombs,
\* names slot 11 and has a macro, "t" names the team, "*" looks for a starbase, "," slows
\* down, "n" is a macro of the player's own that asks.
MCKeys == {"c", "$", "b", "t", "*", ",", "n", "m", "X", "Escape", "Enter", "Backspace"}
MCOwnMacros == [k \in {"n"} |-> "ask"]
=============================================================================
