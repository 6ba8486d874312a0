---------------------------- MODULE MCAccounts ----------------------------
(* Instances of Accounts for TLC.                                          *)
EXTENDS Accounts, TLC

CONSTANTS t1, t2, m1, m2

Symmetry == {f @@ g : f \in Permutations({t1, t2}), g \in Permutations({m1, m2})}
=============================================================================
