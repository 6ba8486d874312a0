----------------------------- MODULE MCChatTunnel -----------------------------
(***************************************************************************)
(* Instances of ChatTunnel for TLC.  Chats go over at most two data        *)
(* sources and a model, with one retry per call (the code allows two) and  *)
(* at most one heartbeat or chunk.  Sources are interchangeable, so the    *)
(* requests name s1 before s2 and tunnel s2 only.  The model is tunnelled  *)
(* in requests of one source; retrieval alone and a streaming model, whose *)
(* retrieval is that of a chat and of a stream, go with at most one        *)
(* source.                                                                 *)
(***************************************************************************)
EXTENDS ChatTunnel

CONSTANTS c1, c2, s1, s2

Mode == {"chat", "retrieve", "stream", "tokens"}

MCRequests ==
  {r \in [mode : Mode, sources : {{}, {s1}, {s1, s2}},
          tunnelled : SUBSET {s2, Model}, user : BOOLEAN] :
     /\ r.tunnelled \subseteq r.sources \cup {Model}
     /\ Model \in r.tunnelled => r.sources = {s1}
     /\ r.mode \in {"retrieve", "tokens"} => r.sources # {s1, s2}}

\* In the run of the tunnel no chat runs.
NoChat == {[mode |-> "chat", sources |-> {}, tunnelled |-> {}, user |-> FALSE]}
=============================================================================
