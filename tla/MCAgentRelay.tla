---------------------------- MODULE MCAgentRelay ----------------------------
(* AgentRelay with a few events and user messages.                           *)
EXTENDS AgentRelay

\* A handler that is through stays so, and so does one whose client, or whose
\* Space, never does anything more.
Quiet  == stage \in {"relaying", "closed"} /\ UNCHANGED vars
MCNext == Next \/ Quiet
MCSpec == Init /\ [][MCNext]_vars
MCFairSpec == MCSpec /\ Fairness
=============================================================================
