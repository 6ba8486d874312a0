--------------------------- MODULE MCCollectives ---------------------------
(* Instances of Collectives and of CollectiveCatalogue for TLC: a behaviour *)
(* is one of the first or, with the variables of the other at rest, one of *)
(* the second.                                                             *)
EXTENDS CollectiveViews, CollectiveBilling, TLC

CONSTANTS e1, e2, r1, r2, u1, u2, s1, s2

VARIABLES part

MCOwner == e1 :> u1 @@ e2 :> u2

MCInit ==
    /\ Init /\ Views!CatInit
    /\ part \in {"memberships", "views"}
    /\ part = "views" => ~autoApprove

MCNext ==
    /\ \/ part = "memberships" /\ Next /\ UNCHANGED viewVars
       \/ part = "views" /\ Views!CatNext /\ UNCHANGED vars
    /\ UNCHANGED part

MCSpec == MCInit /\ [][MCNext]_<<part, vars, viewVars>>

Symmetry == Permutations({r1, r2})
=============================================================================
