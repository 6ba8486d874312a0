------------------------------ MODULE MCHubRows ------------------------------
(* Instances of HubRows for TLC.                                           *)
EXTENDS HubRows, TLC

CONSTANTS w1, w2, e1, k1, k2, k3

MCSymmetry == Permutations({w1, w2})
=============================================================================
