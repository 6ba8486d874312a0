------------------------------ MODULE ChatTunnel ------------------------------
(***************************************************************************)
(* What the aggregator does to answer a chat: the chat itself              *)
(* (ChatOrchestrator) and the requests it sends to Spaces through NATS     *)
(* (TunnelRequest).  A chat sees of the tunnel only that a request is      *)
(* answered once or not at all, which TunnelRequest is shown to keep; the  *)
(* two have no state in common.  A behaviour is one of one of the two,     *)
(* while the variables of the other are at rest.                           *)
(***************************************************************************)
EXTENDS TunnelRequest

CONSTANTS Sources, Model, Requests, Replies,   \* of ChatOrchestrator
          MaxRetries, MaxBeats

VARIABLES part,
          req, client, pc, query, result, payments, unsettled, events, answer

chatVars == <<req, client, pc, query, result, payments, unsettled, events, answer>>
allVars  == <<part, vars, chatVars>>

Chat == INSTANCE ChatOrchestrator WITH call <- query

ASSUME ChatBounds == Chat!Bounds /\ Chat!RequestsTyped

ChatTunnelInit ==
    /\ part \in {"tunnel", "chat"}
    /\ Init /\ Chat!Init

ChatTunnelNext ==
    /\ \/ part = "tunnel" /\ Next /\ UNCHANGED chatVars
       \/ part = "chat" /\ Chat!Next /\ UNCHANGED vars
    /\ UNCHANGED part

ChatTunnelSpec == ChatTunnelInit /\ [][ChatTunnelNext]_allVars

\* The two parts one by one, each with its own fairness.
TunnelInit == part = "tunnel" /\ ChatTunnelInit
TunnelSpec == TunnelInit /\ [][ChatTunnelNext]_allVars /\ Fairness

ChatInit == part = "chat" /\ ChatTunnelInit
ChatSpec == ChatInit /\ [][ChatTunnelNext]_allVars /\ Chat!Fairness

PaymentsBounded  == Chat!PaymentsBounded
StreamWellFormed == Chat!StreamWellFormed
ModelLeftAlone   == Chat!ModelLeftAlone
ChatEnds         == Chat!ChatEnds
=============================================================================
