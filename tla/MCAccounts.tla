----------------------------- MODULE MCAccounts -----------------------------
(* Two users whose addresses have the same prefix, which is not a name one may
   choose, and a name in two cases. *)
EXTENDS Accounts, TLC

CONSTANTS u1, u2

MCNames == {"a.b", "ann", "ANN"}
MCAdmitted == {"ann", "ANN"}
MCPrefix == [u \in Users |-> "a.b"]
MCFolded == [n \in MCNames |-> IF n = "a.b" THEN "a.b" ELSE "ann"]
Symmetry == Permutations(Sids) \cup Permutations(Reqs)
=============================================================================
