----------------------- MODULE MCAgentSessionManager -----------------------
(* AgentSessionManager with fewer slots than sessions.                       *)
EXTENDS AgentSessionManager

\* A stopped Space stays as it is once no session is on its way.
Finished == space = "stopped" /\ UNCHANGED vars
MCNext   == Next \/ Finished
MCSpec   == Init /\ [][MCNext]_vars
MCFairSpec == MCSpec /\ Fairness
=============================================================================
