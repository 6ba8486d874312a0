------------------------------- MODULE HubRows -------------------------------
(***************************************************************************)
(* Rows of the hub that several transactions read and write back: those of *)
(* the health monitor, of a user's tokens and of a user's aggregators.     *)
(* They have no row in common, and requests for one kind neither wait for  *)
(* nor see those for another; a behaviour is one of one of the three,      *)
(* while the variables of the other two are at rest.  Only the monitor's   *)
(* may not stop.                                                           *)
(***************************************************************************)
EXTENDS HealthMonitor, FiniteSets

CONSTANTS Token, MaxTokensPerUser, MaxTime, MaxSwitches, MaxSigned, \* of ApiTokens
          MaxAgg, MaxLost                                           \* of UserAggregators

VARIABLES part,
          token, user, now, signed, revoked, tokenReq,
          agg, born, lost, clean, aggReq

tokenVars == <<token, user, now, signed, revoked, tokenReq>>
aggVars == <<agg, born, lost, clean, aggReq>>
allVars == <<part, vars, tokenVars, aggVars>>

Tokens == INSTANCE ApiTokens WITH Thread <- Worker, req <- tokenReq
Aggregators == INSTANCE UserAggregators WITH Thread <- Worker, req <- aggReq

ASSUME RowsAssumption ==
    /\ IsFiniteSet(Worker) /\ Worker # {}
    /\ Tokens!Jwt \notin Token           \* a login's token is none of these
    /\ {MaxTokensPerUser, MaxTime, MaxSwitches, MaxSigned, MaxAgg, MaxLost} \subseteq Nat

RowsInit ==
    /\ part \in {"health", "tokens", "aggregators"}
    /\ Init /\ Tokens!Init /\ Aggregators!Init

RowsNext ==
    /\ \/ part = "health" /\ Next /\ UNCHANGED <<tokenVars, aggVars>>
       \/ part = "tokens" /\ Tokens!Next /\ UNCHANGED <<vars, aggVars>>
       \/ part = "aggregators" /\ Aggregators!Next /\ UNCHANGED <<vars, tokenVars>>
       \/ part # "health" /\ UNCHANGED <<vars, tokenVars, aggVars>>
    /\ UNCHANGED part

RowsSpec == RowsInit /\ [][RowsNext]_allVars

TokensCapped == Tokens!TokensCapped
RevokedStaysRevoked == Tokens!RevokedStaysRevoked
OneDefault == Aggregators!OneDefault
=============================================================================
