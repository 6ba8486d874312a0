-------------------------- MODULE MCAgentSubprocess --------------------------
(* AgentSubprocess with pipes and channels shorter than what is written.     *)
EXTENDS AgentSubprocess

\* A finished session may stay as it is.
Finished == phase = "done" /\ relay = "stopped" /\ UNCHANGED allVars
MCNext   == SubNext \/ Finished
MCSpec   == SubInit /\ [][MCNext]_allVars
MCFairSpec == MCSpec /\ SubFairness
=============================================================================
