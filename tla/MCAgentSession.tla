--------------------------- MODULE MCAgentSession ---------------------------
(* AgentSession on small channels: sendCh holds fewer events than a handler  *)
(* sends, so that Send blocks, aborts and the terminal report finds it full. *)
EXTENDS AgentSession

\* A finished session, with its goroutines gone, may stay as it is.
Finished == phase = "done" /\ relay = "stopped" /\ UNCHANGED vars
MCNext   == Next \/ Finished
MCSpec   == Init /\ [][MCNext]_vars
MCFairSpec == MCSpec /\ Fairness
=============================================================================
