----------------------------- MODULE RemoteCall -----------------------------
(***************************************************************************)
(* What the aggregator's caller may count on when it asks a Space for      *)
(* something: the endpoint runs at most once for a call, and a call that   *)
(* is answered has run.  A call that failed may have run as well, and may  *)
(* still run later.                                                        *)
(***************************************************************************)
EXTENDS Naturals

CONSTANT Call

VARIABLES executed,   \* Call -> how often the endpoint was run for it
          outcome     \* Call -> "none", "answered" or "failed"

rvars == <<executed, outcome>>

RCInit ==
    /\ executed = [c \in Call |-> 0]
    /\ outcome = [c \in Call |-> "none"]

Execute(c) ==
    /\ executed[c] = 0
    /\ executed' = [executed EXCEPT ![c] = 1]
    /\ UNCHANGED outcome

Answer(c) ==
    /\ outcome[c] = "none" /\ executed[c] = 1
    /\ outcome' = [outcome EXCEPT ![c] = "answered"]
    /\ UNCHANGED executed

Fail(c) ==
    /\ outcome[c] = "none"
    /\ outcome' = [outcome EXCEPT ![c] = "failed"]
    /\ UNCHANGED executed

RCNext == \E c \in Call : Execute(c) \/ Answer(c) \/ Fail(c)

RCSpec == RCInit /\ [][RCNext]_rvars
=============================================================================
