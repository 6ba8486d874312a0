------------------------------ MODULE HubSignIn ------------------------------
(***************************************************************************)
(* What keeps somebody signed in at the hub and let in at a Space: the     *)
(* tokens of sessions and tool calls (HubSessions) and the key pair that   *)
(* satellite tokens are signed and verified with (IdentityKeys).  The two  *)
(* have no state in common: a session's tokens are signed with a secret,   *)
(* not with the pair.  A behaviour is one of one of the two, while the     *)
(* variables of the other are at rest.                                     *)
(***************************************************************************)
EXTENDS HubSessions

CONSTANTS Process,                  \* worker processes that share the keys' directory
          User, MaxKey, MaxTokens   \* of IdentityKeys

VARIABLES part,
          process, file, lock, lastKey, enabled, tokens, troubled

keyVars == <<process, file, lock, lastKey, enabled, tokens, troubled>>
allVars == <<part, vars, keyVars>>

Keys == INSTANCE IdentityKeys WITH Worker <- Process, worker <- process, active <- enabled

ASSUME KeysBounds == Keys!Bounds

SignInInit ==
    /\ part \in {"sessions", "keys"}
    /\ Init /\ Keys!Init

SignInNext ==
    /\ \/ part = "sessions" /\ Next /\ UNCHANGED keyVars
       \/ part = "keys" /\ Keys!Next /\ UNCHANGED vars
    /\ UNCHANGED part

SignInSpec == SignInInit /\ [][SignInNext]_allVars

\* The two parts one by one, each with its own fairness.
SessionsInit == part = "sessions" /\ SignInInit
SessionsSpec == SessionsInit /\ [][SignInNext]_allVars /\ Fairness

KeysInit == part = "keys" /\ SignInInit
KeysSpec == KeysInit /\ [][SignInNext]_allVars /\ Keys!Fairness

TokensVerify == Keys!TokensVerify
LockComesFree == Keys!LockComesFree
=============================================================================
