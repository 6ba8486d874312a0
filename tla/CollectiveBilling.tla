-------------------------- MODULE CollectiveBilling --------------------------
(***************************************************************************)
(* How a member of a collective bills: _classify_billing of                *)
(* services/collective_service.py over the endpoint's policies.  A policy  *)
(* is a leaf or a wrapper around others, to any depth; a disabled one      *)
(* takes with it what it wraps.                                            *)
(***************************************************************************)
EXTENDS Naturals, Sequences

RECURSIVE Leaves(_)
Leaves(policies) ==
    IF policies = <<>> THEN <<>>
    ELSE LET p == Head(policies)
             own == CASE ~p.enabled -> <<>>
                      [] p.children = <<>> -> <<p>>
                      [] OTHER -> Leaves(p.children)
         IN own \o Leaves(Tail(policies))

(* A prepaid policy without usable URLs is as good as none.                *)
Usable(p) == p.type = "prepaid" /\ p.urls

Classify(policies) ==
    LET leaf == Leaves(policies)
        has(P(_)) == \E i \in DOMAIN leaf : P(leaf[i])
        Mpp(p) == p.type = "mpp"
    IN IF has(Usable) THEN "prepaid" ELSE IF has(Mpp) THEN "mpp" ELSE "free"

-----------------------------------------------------------------------------
(* The reference: a leaf is in force when it and all that wraps it are     *)
(* enabled, and the best of those in force says how the member bills.      *)
Kinds == <<"free", "mpp", "prepaid">>
KindOf(p) == IF Usable(p) THEN 3 ELSE IF p.type = "mpp" THEN 2 ELSE 1

RECURSIVE InForce(_, _)
InForce(policies, kind) ==
    \E i \in DOMAIN policies :
        /\ policies[i].enabled
        /\ IF policies[i].children = <<>> THEN KindOf(policies[i]) = kind
           ELSE InForce(policies[i].children, kind)

Billed(policies) ==
    Kinds[CHOOSE k \in 1..3 : /\ k = 1 \/ InForce(policies, k)
                              /\ \A l \in (k + 1)..3 : ~InForce(policies, l)]

-----------------------------------------------------------------------------
(* Policy lists: without URLs, switched off, and wrapped twice at most.    *)
Leaf == [type : {"mpp", "access"}, enabled : BOOLEAN, urls : {FALSE}, children : {<<>>}]
        \cup [type : {"prepaid"}, enabled : BOOLEAN, urls : BOOLEAN, children : {<<>>}]

ListsOf(S, T) == {<<p>> : p \in S} \cup {<<p, q>> : p \in S, q \in T}
Wrapped(lists) == [type : {"all_of"}, enabled : BOOLEAN, urls : {FALSE}, children : lists]

Once == Wrapped(ListsOf(Leaf, Leaf))
Twice == Wrapped(ListsOf(Once, Leaf))

(* A member is billed as the policies in force say, however they are       *)
(* wrapped and in whatever order (collective_service.py:192-239).          *)
ASSUME BillingFollowsPolicies ==
    \A policies \in {<<>>} \cup ListsOf(Leaf \cup Once \cup Twice, Leaf) \cup ListsOf(Leaf, Once) :
        Classify(policies) = Billed(policies)
=============================================================================
