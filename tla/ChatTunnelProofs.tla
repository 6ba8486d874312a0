-------------------------- MODULE ChatTunnelProofs --------------------------
(***************************************************************************)
(* Safety of TunnelRequest for any number of calls and keys, and of        *)
(* ChatOrchestrator for any requests, sources and replies.                 *)
(*                                                                         *)
(* The tunnel's inductive invariant has two halves.  OneThing: of a call   *)
(* there is at most one request, running handler or reply about, and none  *)
(* before it is sent again.  KeyOrder: nobody holds a key newer than the   *)
(* hub's, and what a call asks for after a refusal is not older than the   *)
(* process that refused it.                                                *)
(*                                                                         *)
(* A chat's has three.  Paid: what an attempt of a call has paid so far,   *)
(* by where it is.  Retrieved: whoever asks the model has seen every       *)
(* source answer, and none refuse.  Phased: the events sent so far are in  *)
(* order and not beyond the phase that the orchestrator is in.             *)
(***************************************************************************)
EXTENDS ChatTunnel, SequenceTheorems, TLAPS

-----------------------------------------------------------------------------
(* The tunnel.                                                             *)

NothingAbout(c) ==
    /\ \A m \in inbox : m.call # c
    /\ \A m \in replies : m.call # c
    /\ current # NoRequest => current.call # c

(* Before a request is sent, the first time or again, nothing has run.     *)
Unsent ==
    \A c \in Call : call[c].pc \in {"idle", "fetch", "fetched", "send"} =>
        executed[c] = 0 /\ NothingAbout(c)

OneThing ==
    /\ \A m, n \in inbox : m.call = n.call => m = n
    /\ \A m, n \in replies : m.call = n.call => m = n
    /\ \A m \in inbox, n \in replies : m.call # n.call
    /\ current # NoRequest => \A m \in inbox \cup replies : m.call # current.call

(* What is about tells whether the endpoint has run.                       *)
RunsTold ==
    /\ \A c \in Call : executed[c] \in {0, 1}
    /\ \A m \in inbox : executed[m.call] = 0
    /\ \A m \in replies : executed[m.call] = IF m.ok THEN 1 ELSE 0
    /\ current # NoRequest => executed[current.call] = 1
    /\ space # "up" => current = NoRequest

KeyOrder ==
    /\ hubKey <= key /\ cache <= hubKey
    /\ space \in {"registered", "up"} => hubKey = key
    /\ \A c \in Call : call[c].key <= hubKey /\ call[c].rejectedBy <= hubKey
    /\ \A m \in inbox : m.key <= hubKey
    /\ \A m \in replies : m.by <= hubKey

SecondAttempt ==
    /\ \A m \in inbox \cup replies : m.attempt = call[m.call].attempt
    /\ current # NoRequest => current.attempt = call[current.call].attempt
    /\ \A c \in Call : call[c].attempt = 2 /\ call[c].pc \in {"fetched", "send", "wait"}
                          => call[c].key >= call[c].rejectedBy
    /\ \A c \in Call : call[c].attempt = 2 => call[c].pc # "idle"
    /\ \A m \in inbox : m.attempt = 2 => m.key >= call[m.call].rejectedBy
    /\ \A m \in replies : m.attempt = 2 /\ ~m.ok => m.by > call[m.call].rejectedBy

KeyToSend ==
    \A c \in Call : call[c].pc \in {"fetched", "send"} => call[c].key # 0

IInv ==
    /\ TypeOK
    /\ Unsent /\ OneThing /\ RunsTold
    /\ KeyOrder /\ SecondAttempt /\ KeyToSend
    /\ RetryHidesRotation

-----------------------------------------------------------------------------
(* Facts about the types that arithmetic needs.                            *)
LEMMA Numbers ==
    ASSUME TypeOK
    PROVE  /\ key \in Nat /\ hubKey \in Nat /\ cache \in Nat
           /\ \A c \in Call : /\ call[c].key \in Nat /\ call[c].rejectedBy \in Nat
                              /\ call[c].finallyBy \in Nat /\ call[c].attempt \in {1, 2}
           /\ \A m \in inbox : m.call \in Call /\ m.key \in Nat /\ m.attempt \in {1, 2}
           /\ \A m \in replies : /\ m.call \in Call /\ m.by \in Nat /\ m.attempt \in {1, 2}
                                 /\ m.ok \in BOOLEAN
           /\ current # NoRequest => current \in Request
BY TunnelAssumption DEF TypeOK, CallState, KeyOrNone, Request, Reply

LEMMA GetSpacePublicKeyPreserves ==
    ASSUME IInv, NEW c \in Call, GetSpacePublicKey(c)
    PROVE  IInv'
<1> USE DEF IInv
<1>1. TypeOK'
  <2>1. [call[c] EXCEPT !.pc = IF cache = 0 THEN "fetch" ELSE "send", !.key = cache] \in CallState
    BY DEF TypeOK, CallState, KeyOrNone
  <2> QED BY <2>1 DEF GetSpacePublicKey, spaceVars, TypeOK
<1>2. Unsent'
  BY Numbers, TunnelAssumption DEF GetSpacePublicKey, spaceVars, Concerns, TypeOK, CallState,
                              Unsent, NothingAbout, OneThing, RunsTold
<1>3. OneThing'
  BY Numbers, TunnelAssumption DEF GetSpacePublicKey, spaceVars, Concerns, TypeOK, CallState,
                              OneThing, Unsent, NothingAbout
<1>4. RunsTold'
  BY Numbers, TunnelAssumption DEF GetSpacePublicKey, spaceVars, Concerns, TypeOK, CallState,
                              RunsTold, Unsent, NothingAbout, OneThing
<1>5. KeyOrder'
  BY Numbers, TunnelAssumption DEF GetSpacePublicKey, spaceVars, Concerns, TypeOK, CallState,
                              KeyOrder
<1>6. SecondAttempt'
  <2>1. \A d \in Call : /\ call'[d].attempt = call[d].attempt
                        /\ call'[d].rejectedBy = call[d].rejectedBy
                        /\ d # c => call'[d] = call[d]
    BY DEF GetSpacePublicKey, TypeOK, CallState
  <2>2. call'[c].attempt = 2 => /\ call'[c].pc \in {"fetch", "fetched", "failed"}
                                /\ call'[c].pc = "fetched" => call'[c].key = hubKey
    BY Numbers DEF GetSpacePublicKey, TypeOK, CallState, SecondAttempt
  <2>3. UNCHANGED <<inbox, replies, current, hubKey>>
    BY DEF GetSpacePublicKey, spaceVars
  <2>4. \A n \in inbox \cup replies : n.call \in Call
    BY Numbers
  <2>5. current # NoRequest => current.call \in Call
    BY Numbers DEF Request
  <2>6. call[c].rejectedBy <= hubKey
    BY DEF KeyOrder
  <2>7. NothingAbout(c)
    BY DEF GetSpacePublicKey, Unsent
  <2>8. \A n \in inbox \cup replies : n.call # c
    BY <2>7 DEF NothingAbout
  <2>9. \A d \in Call : call'[d].attempt = 2 /\ call'[d].pc \in {"fetched", "send", "wait"}
                          => call'[d].key >= call'[d].rejectedBy
    <3> SUFFICES ASSUME NEW d \in Call, call'[d].attempt = 2,
                        call'[d].pc \in {"fetched", "send", "wait"}
                 PROVE  call'[d].key >= call'[d].rejectedBy
      OBVIOUS
    <3>1. CASE d = c
      BY <2>1, <2>2, <2>6, <3>1, Numbers
    <3>2. CASE d # c
      BY <2>1, <3>2 DEF SecondAttempt
    <3> QED BY <3>1, <3>2
  <2>10. \A d \in Call : call'[d].attempt = 2 => call'[d].pc # "idle"
    <3> SUFFICES ASSUME NEW d \in Call, call'[d].attempt = 2 PROVE call'[d].pc # "idle"
      OBVIOUS
    <3>1. CASE d = c
      BY <2>2, <3>1
    <3>2. CASE d # c
      BY <2>1, <3>2 DEF SecondAttempt
    <3> QED BY <3>1, <3>2
  <2> QED BY <2>1, <2>3, <2>4, <2>5, <2>9, <2>10 DEF SecondAttempt
<1>7. KeyToSend'
  BY Numbers, TunnelAssumption DEF GetSpacePublicKey, spaceVars, Concerns, TypeOK, CallState,
                              KeyToSend, TypeOK
<1>8. RetryHidesRotation'
  BY Numbers, TunnelAssumption DEF GetSpacePublicKey, spaceVars, Concerns, TypeOK, CallState,
                              RetryHidesRotation, SecondAttempt
<1> QED BY <1>1, <1>2, <1>3, <1>4, <1>5, <1>6, <1>7, <1>8

LEMMA FetchKeyPreserves ==
    ASSUME IInv, NEW c \in Call, FetchKey(c)
    PROVE  IInv'
<1> USE DEF IInv
<1>1. TypeOK'
  BY Numbers, TunnelAssumption DEF FetchKey, spaceVars, Concerns, TypeOK, CallState, KeyOrNone,
                              Request, Reply
<1>2. Unsent'
  BY Numbers, TunnelAssumption DEF FetchKey, spaceVars, Concerns, TypeOK, CallState, Unsent,
                              NothingAbout, OneThing, RunsTold
<1>3. OneThing'
  BY Numbers, TunnelAssumption DEF FetchKey, spaceVars, Concerns, TypeOK, CallState, OneThing,
                              Unsent, NothingAbout
<1>4. RunsTold'
  BY Numbers, TunnelAssumption DEF FetchKey, spaceVars, Concerns, TypeOK, CallState, RunsTold,
                              Unsent, NothingAbout, OneThing
<1>5. KeyOrder'
  BY Numbers, TunnelAssumption DEF FetchKey, spaceVars, Concerns, TypeOK, CallState, KeyOrder
<1>6. SecondAttempt'
  <2>1. \A d \in Call : /\ call'[d].attempt = call[d].attempt
                        /\ call'[d].rejectedBy = call[d].rejectedBy
                        /\ d # c => call'[d] = call[d]
    BY DEF FetchKey, TypeOK, CallState
  <2>2. call'[c].attempt = 2 => /\ call'[c].pc \in {"fetch", "fetched", "failed"}
                                /\ call'[c].pc = "fetched" => call'[c].key = hubKey
    BY Numbers DEF FetchKey, TypeOK, CallState, SecondAttempt
  <2>3. UNCHANGED <<inbox, replies, current, hubKey>>
    BY DEF FetchKey, spaceVars
  <2>4. \A n \in inbox \cup replies : n.call \in Call
    BY Numbers
  <2>5. current # NoRequest => current.call \in Call
    BY Numbers DEF Request
  <2>6. call[c].rejectedBy <= hubKey
    BY DEF KeyOrder
  <2>7. NothingAbout(c)
    BY DEF FetchKey, Unsent
  <2>8. \A n \in inbox \cup replies : n.call # c
    BY <2>7 DEF NothingAbout
  <2>9. \A d \in Call : call'[d].attempt = 2 /\ call'[d].pc \in {"fetched", "send", "wait"}
                          => call'[d].key >= call'[d].rejectedBy
    <3> SUFFICES ASSUME NEW d \in Call, call'[d].attempt = 2,
                        call'[d].pc \in {"fetched", "send", "wait"}
                 PROVE  call'[d].key >= call'[d].rejectedBy
      OBVIOUS
    <3>1. CASE d = c
      BY <2>1, <2>2, <2>6, <3>1, Numbers
    <3>2. CASE d # c
      BY <2>1, <3>2 DEF SecondAttempt
    <3> QED BY <3>1, <3>2
  <2>10. \A d \in Call : call'[d].attempt = 2 => call'[d].pc # "idle"
    <3> SUFFICES ASSUME NEW d \in Call, call'[d].attempt = 2 PROVE call'[d].pc # "idle"
      OBVIOUS
    <3>1. CASE d = c
      BY <2>2, <3>1
    <3>2. CASE d # c
      BY <2>1, <3>2 DEF SecondAttempt
    <3> QED BY <3>1, <3>2
  <2> QED BY <2>1, <2>3, <2>4, <2>5, <2>9, <2>10 DEF SecondAttempt
<1>7. KeyToSend'
  BY Numbers, TunnelAssumption DEF FetchKey, spaceVars, Concerns, TypeOK, CallState, KeyToSend,
                              TypeOK
<1>8. RetryHidesRotation'
  BY Numbers, TunnelAssumption DEF FetchKey, spaceVars, Concerns, TypeOK, CallState,
                              RetryHidesRotation, SecondAttempt
<1> QED BY <1>1, <1>2, <1>3, <1>4, <1>5, <1>6, <1>7, <1>8

LEMMA StoreKeyPreserves ==
    ASSUME IInv, NEW c \in Call, StoreKey(c)
    PROVE  IInv'
<1> USE DEF IInv
<1>1. TypeOK'
  BY Numbers, TunnelAssumption DEF StoreKey, spaceVars, Concerns, TypeOK, CallState, KeyOrNone,
                              Request, Reply
<1>2. Unsent'
  BY Numbers, TunnelAssumption DEF StoreKey, spaceVars, Concerns, TypeOK, CallState, Unsent,
                              NothingAbout, OneThing, RunsTold
<1>3. OneThing'
  BY Numbers, TunnelAssumption DEF StoreKey, spaceVars, Concerns, TypeOK, CallState, OneThing,
                              Unsent, NothingAbout
<1>4. RunsTold'
  BY Numbers, TunnelAssumption DEF StoreKey, spaceVars, Concerns, TypeOK, CallState, RunsTold,
                              Unsent, NothingAbout, OneThing
<1>5. KeyOrder'
  BY Numbers, TunnelAssumption DEF StoreKey, spaceVars, Concerns, TypeOK, CallState, KeyOrder
<1>6. SecondAttempt'
  BY Numbers, TunnelAssumption DEF StoreKey, spaceVars, Concerns, TypeOK, CallState,
                              SecondAttempt, KeyOrder, OneThing, Unsent, NothingAbout
<1>7. KeyToSend'
  BY Numbers, TunnelAssumption DEF StoreKey, spaceVars, Concerns, TypeOK, CallState, KeyToSend,
                              TypeOK
<1>8. RetryHidesRotation'
  BY Numbers, TunnelAssumption DEF StoreKey, spaceVars, Concerns, TypeOK, CallState,
                              RetryHidesRotation, SecondAttempt
<1> QED BY <1>1, <1>2, <1>3, <1>4, <1>5, <1>6, <1>7, <1>8

LEMMA SendRequestPreserves ==
    ASSUME IInv, NEW c \in Call, SendRequest(c)
    PROVE  IInv'
<1> USE DEF IInv
<1>1. TypeOK'
  <2>1. call' \in [Call -> CallState]
    BY DEF SendRequest, TypeOK, CallState
  <2>2. [call |-> c, attempt |-> call[c].attempt, key |-> call[c].key] \in Request
    BY Numbers DEF SendRequest, KeyToSend, TypeOK, CallState, KeyOrNone, Request
  <2> QED BY <2>1, <2>2 DEF SendRequest, TypeOK
<1>2. Unsent'
  BY Numbers, TunnelAssumption DEF SendRequest, TypeOK, Unsent, NothingAbout, OneThing, RunsTold
<1>3. OneThing'
  BY Numbers, TunnelAssumption DEF SendRequest, TypeOK, OneThing, Unsent, NothingAbout
<1>4. RunsTold'
  BY Numbers, TunnelAssumption DEF SendRequest, TypeOK, RunsTold, Unsent, NothingAbout, OneThing
<1>5. KeyOrder'
  BY Numbers, TunnelAssumption DEF SendRequest, TypeOK, KeyOrder
<1>6. SecondAttempt'
  BY Numbers, TunnelAssumption DEF SendRequest, TypeOK, SecondAttempt, KeyOrder, OneThing,
                              Unsent, NothingAbout
<1>7. KeyToSend'
  BY Numbers, TunnelAssumption DEF SendRequest, TypeOK, KeyToSend, TypeOK
<1>8. RetryHidesRotation'
  BY Numbers, TunnelAssumption DEF SendRequest, TypeOK, RetryHidesRotation, SecondAttempt
<1> QED BY <1>1, <1>2, <1>3, <1>4, <1>5, <1>6, <1>7, <1>8

LEMMA ReceiveReplyPreserves ==
    ASSUME IInv, NEW c \in Call, ReceiveReply(c)
    PROVE  IInv'
<1> USE DEF IInv
<1>1. TypeOK'
  BY Numbers, TunnelAssumption DEF ReceiveReply, spaceVars, Concerns, TypeOK, CallState,
                              KeyOrNone, Request, Reply
<1>2. Unsent'
  BY Numbers, TunnelAssumption DEF ReceiveReply, spaceVars, Concerns, TypeOK, CallState, Unsent,
                              NothingAbout, OneThing, RunsTold
<1>3. OneThing'
  BY Numbers, TunnelAssumption DEF ReceiveReply, spaceVars, Concerns, TypeOK, CallState,
                              OneThing, Unsent, NothingAbout
<1>4. RunsTold'
  BY Numbers, TunnelAssumption DEF ReceiveReply, spaceVars, Concerns, TypeOK, CallState,
                              RunsTold, Unsent, NothingAbout, OneThing
<1>5. KeyOrder'
  BY Numbers, TunnelAssumption DEF ReceiveReply, spaceVars, Concerns, TypeOK, CallState, KeyOrder
<1>6. SecondAttempt'
  <2>1. PICK m \in replies : ReceiveReply(c)!1!(m)
    BY DEF ReceiveReply
  <2>2. /\ m.call = c /\ call[c].pc = "wait"
        /\ \A n \in inbox \cup replies' : n.call # c
        /\ current # NoRequest => current.call # c
    BY <2>1 DEF Concerns, OneThing
  <2>3. /\ \A d \in Call \ {c} : call'[d] = call[d]
        /\ replies' \subseteq replies /\ UNCHANGED <<inbox, current>>
    BY <2>1 DEF TypeOK, ReceiveReply, spaceVars
  <2>4. call'[c].pc \in {"answered", "fetch", "failed"}
    BY <2>1 DEF TypeOK, CallState
  <2>5. \A n \in inbox \cup replies' : n \in inbox \cup replies /\ n.call \in Call \ {c}
    BY Numbers, <2>2, <2>3
  <2>6. current # NoRequest => current.call \in Call \ {c}
    BY Numbers, <2>2 DEF Request
  <2> QED BY <2>3, <2>4, <2>5, <2>6 DEF SecondAttempt
<1>7. KeyToSend'
  BY Numbers, TunnelAssumption DEF ReceiveReply, spaceVars, Concerns, TypeOK, CallState,
                              KeyToSend, TypeOK
<1>8. RetryHidesRotation'
  BY Numbers, TunnelAssumption DEF ReceiveReply, spaceVars, Concerns, TypeOK, CallState,
                              RetryHidesRotation, SecondAttempt
<1> QED BY <1>1, <1>2, <1>3, <1>4, <1>5, <1>6, <1>7, <1>8

LEMMA TimeoutPreserves ==
    ASSUME IInv, NEW c \in Call, Timeout(c)
    PROVE  IInv'
<1> USE DEF IInv
<1>1. TypeOK'
  BY Numbers, TunnelAssumption DEF Timeout, spaceVars, Concerns, TypeOK, CallState, KeyOrNone,
                              Request, Reply
<1>2. Unsent'
  BY Numbers, TunnelAssumption DEF Timeout, spaceVars, Concerns, TypeOK, CallState, Unsent,
                              NothingAbout, OneThing, RunsTold
<1>3. OneThing'
  BY Numbers, TunnelAssumption DEF Timeout, spaceVars, Concerns, TypeOK, CallState, OneThing,
                              Unsent, NothingAbout
<1>4. RunsTold'
  BY Numbers, TunnelAssumption DEF Timeout, spaceVars, Concerns, TypeOK, CallState, RunsTold,
                              Unsent, NothingAbout, OneThing
<1>5. KeyOrder'
  BY Numbers, TunnelAssumption DEF Timeout, spaceVars, Concerns, TypeOK, CallState, KeyOrder
<1>6. SecondAttempt'
  BY Numbers, TunnelAssumption DEF Timeout, spaceVars, Concerns, TypeOK, CallState,
                              SecondAttempt, KeyOrder, OneThing, Unsent, NothingAbout
<1>7. KeyToSend'
  BY Numbers, TunnelAssumption DEF Timeout, spaceVars, Concerns, TypeOK, CallState, KeyToSend,
                              TypeOK
<1>8. RetryHidesRotation'
  BY Numbers, TunnelAssumption DEF Timeout, spaceVars, Concerns, TypeOK, CallState,
                              RetryHidesRotation, SecondAttempt
<1> QED BY <1>1, <1>2, <1>3, <1>4, <1>5, <1>6, <1>7, <1>8

LEMMA ExpireKeyPreserves ==
    ASSUME IInv, ExpireKey
    PROVE  IInv'
<1> USE DEF IInv
<1>1. TypeOK'
  BY Numbers, TunnelAssumption DEF ExpireKey, spaceVars, aggregatorVars, TypeOK, CallState,
                              KeyOrNone, Request, Reply
<1>2. Unsent'
  BY Numbers, TunnelAssumption DEF ExpireKey, spaceVars, aggregatorVars, TypeOK, Unsent,
                              NothingAbout, OneThing, RunsTold
<1>3. OneThing'
  BY Numbers, TunnelAssumption DEF ExpireKey, spaceVars, aggregatorVars, TypeOK, OneThing,
                              Unsent, NothingAbout
<1>4. RunsTold'
  BY Numbers, TunnelAssumption DEF ExpireKey, spaceVars, aggregatorVars, TypeOK, RunsTold,
                              Unsent, NothingAbout, OneThing
<1>5. KeyOrder'
  BY Numbers, TunnelAssumption DEF ExpireKey, spaceVars, aggregatorVars, TypeOK, KeyOrder
<1>6. SecondAttempt'
  BY Numbers, TunnelAssumption DEF ExpireKey, spaceVars, aggregatorVars, TypeOK, SecondAttempt,
                              KeyOrder, OneThing, Unsent, NothingAbout
<1>7. KeyToSend'
  BY Numbers, TunnelAssumption DEF ExpireKey, spaceVars, aggregatorVars, TypeOK, KeyToSend, TypeOK
<1>8. RetryHidesRotation'
  BY Numbers, TunnelAssumption DEF ExpireKey, spaceVars, aggregatorVars, TypeOK,
                              RetryHidesRotation, SecondAttempt
<1> QED BY <1>1, <1>2, <1>3, <1>4, <1>5, <1>6, <1>7, <1>8

LEMMA LoseReplyPreserves ==
    ASSUME IInv, LoseReply
    PROVE  IInv'
<1> USE DEF IInv
<1>1. TypeOK'
  BY Numbers, TunnelAssumption DEF LoseReply, spaceVars, aggregatorVars, TypeOK, CallState,
                              KeyOrNone, Request, Reply
<1>2. Unsent'
  BY Numbers, TunnelAssumption DEF LoseReply, spaceVars, aggregatorVars, TypeOK, Unsent,
                              NothingAbout, OneThing, RunsTold
<1>3. OneThing'
  BY Numbers, TunnelAssumption DEF LoseReply, spaceVars, aggregatorVars, TypeOK, OneThing,
                              Unsent, NothingAbout
<1>4. RunsTold'
  BY Numbers, TunnelAssumption DEF LoseReply, spaceVars, aggregatorVars, TypeOK, RunsTold,
                              Unsent, NothingAbout, OneThing
<1>5. KeyOrder'
  BY Numbers, TunnelAssumption DEF LoseReply, spaceVars, aggregatorVars, TypeOK, KeyOrder
<1>6. SecondAttempt'
  BY Numbers, TunnelAssumption DEF LoseReply, spaceVars, aggregatorVars, TypeOK, SecondAttempt,
                              KeyOrder, OneThing, Unsent, NothingAbout
<1>7. KeyToSend'
  BY Numbers, TunnelAssumption DEF LoseReply, spaceVars, aggregatorVars, TypeOK, KeyToSend, TypeOK
<1>8. RetryHidesRotation'
  BY Numbers, TunnelAssumption DEF LoseReply, spaceVars, aggregatorVars, TypeOK,
                              RetryHidesRotation, SecondAttempt
<1> QED BY <1>1, <1>2, <1>3, <1>4, <1>5, <1>6, <1>7, <1>8

LEMMA StartPreserves ==
    ASSUME IInv, Start
    PROVE  IInv'
<1> USE DEF IInv
<1>1. TypeOK'
  BY Numbers, TunnelAssumption DEF Start, spaceVars, aggregatorVars, TypeOK, CallState,
                              KeyOrNone, Request, Reply
<1>2. Unsent'
  BY Numbers, TunnelAssumption DEF Start, spaceVars, aggregatorVars, TypeOK, Unsent,
                              NothingAbout, OneThing, RunsTold
<1>3. OneThing'
  BY Numbers, TunnelAssumption DEF Start, spaceVars, aggregatorVars, TypeOK, OneThing, Unsent,
                              NothingAbout
<1>4. RunsTold'
  BY Numbers, TunnelAssumption DEF Start, spaceVars, aggregatorVars, TypeOK, RunsTold, Unsent,
                              NothingAbout, OneThing
<1>5. KeyOrder'
  BY Numbers, TunnelAssumption DEF Start, spaceVars, aggregatorVars, TypeOK, KeyOrder
<1>6. SecondAttempt'
  BY Numbers, TunnelAssumption DEF Start, spaceVars, aggregatorVars, TypeOK, SecondAttempt,
                              KeyOrder, OneThing, Unsent, NothingAbout
<1>7. KeyToSend'
  BY Numbers, TunnelAssumption DEF Start, spaceVars, aggregatorVars, TypeOK, KeyToSend, TypeOK
<1>8. RetryHidesRotation'
  BY Numbers, TunnelAssumption DEF Start, spaceVars, aggregatorVars, TypeOK, RetryHidesRotation,
                              SecondAttempt
<1> QED BY <1>1, <1>2, <1>3, <1>4, <1>5, <1>6, <1>7, <1>8

LEMMA RegisterKeyPreserves ==
    ASSUME IInv, RegisterKey
    PROVE  IInv'
<1> USE DEF IInv
<1>1. TypeOK'
  BY Numbers, TunnelAssumption DEF RegisterKey, spaceVars, aggregatorVars, TypeOK, CallState,
                              KeyOrNone, Request, Reply
<1>2. Unsent'
  BY Numbers, TunnelAssumption DEF RegisterKey, spaceVars, aggregatorVars, TypeOK, Unsent,
                              NothingAbout, OneThing, RunsTold
<1>3. OneThing'
  BY Numbers, TunnelAssumption DEF RegisterKey, spaceVars, aggregatorVars, TypeOK, OneThing,
                              Unsent, NothingAbout
<1>4. RunsTold'
  BY Numbers, TunnelAssumption DEF RegisterKey, spaceVars, aggregatorVars, TypeOK, RunsTold,
                              Unsent, NothingAbout, OneThing
<1>5. KeyOrder'
  BY Numbers, TunnelAssumption DEF RegisterKey, spaceVars, aggregatorVars, TypeOK, KeyOrder
<1>6. SecondAttempt'
  BY Numbers, TunnelAssumption DEF RegisterKey, spaceVars, aggregatorVars, TypeOK, SecondAttempt,
                              KeyOrder, OneThing, Unsent, NothingAbout
<1>7. KeyToSend'
  BY Numbers, TunnelAssumption DEF RegisterKey, spaceVars, aggregatorVars, TypeOK, KeyToSend,
                              TypeOK
<1>8. RetryHidesRotation'
  BY Numbers, TunnelAssumption DEF RegisterKey, spaceVars, aggregatorVars, TypeOK,
                              RetryHidesRotation, SecondAttempt
<1> QED BY <1>1, <1>2, <1>3, <1>4, <1>5, <1>6, <1>7, <1>8

LEMMA SubscribePreserves ==
    ASSUME IInv, Subscribe
    PROVE  IInv'
<1> USE DEF IInv
<1>1. TypeOK'
  BY Numbers, TunnelAssumption DEF Subscribe, spaceVars, aggregatorVars, TypeOK, CallState,
                              KeyOrNone, Request, Reply
<1>2. Unsent'
  BY Numbers, TunnelAssumption DEF Subscribe, spaceVars, aggregatorVars, TypeOK, Unsent,
                              NothingAbout, OneThing, RunsTold
<1>3. OneThing'
  BY Numbers, TunnelAssumption DEF Subscribe, spaceVars, aggregatorVars, TypeOK, OneThing,
                              Unsent, NothingAbout
<1>4. RunsTold'
  BY Numbers, TunnelAssumption DEF Subscribe, spaceVars, aggregatorVars, TypeOK, RunsTold,
                              Unsent, NothingAbout, OneThing
<1>5. KeyOrder'
  BY Numbers, TunnelAssumption DEF Subscribe, spaceVars, aggregatorVars, TypeOK, KeyOrder
<1>6. SecondAttempt'
  BY Numbers, TunnelAssumption DEF Subscribe, spaceVars, aggregatorVars, TypeOK, SecondAttempt,
                              KeyOrder, OneThing, Unsent, NothingAbout
<1>7. KeyToSend'
  BY Numbers, TunnelAssumption DEF Subscribe, spaceVars, aggregatorVars, TypeOK, KeyToSend, TypeOK
<1>8. RetryHidesRotation'
  BY Numbers, TunnelAssumption DEF Subscribe, spaceVars, aggregatorVars, TypeOK,
                              RetryHidesRotation, SecondAttempt
<1> QED BY <1>1, <1>2, <1>3, <1>4, <1>5, <1>6, <1>7, <1>8

LEMMA StopPreserves ==
    ASSUME IInv, Stop
    PROVE  IInv'
<1> USE DEF IInv
<1>1. TypeOK'
  BY Numbers, TunnelAssumption DEF Stop, spaceVars, aggregatorVars, TypeOK, CallState, KeyOrNone,
                              Request, Reply
<1>2. Unsent'
  BY Numbers, TunnelAssumption DEF Stop, spaceVars, aggregatorVars, TypeOK, Unsent, NothingAbout,
                              OneThing, RunsTold
<1>3. OneThing'
  BY Numbers, TunnelAssumption DEF Stop, spaceVars, aggregatorVars, TypeOK, OneThing, Unsent,
                              NothingAbout
<1>4. RunsTold'
  BY Numbers, TunnelAssumption DEF Stop, spaceVars, aggregatorVars, TypeOK, RunsTold, Unsent,
                              NothingAbout, OneThing
<1>5. KeyOrder'
  BY Numbers, TunnelAssumption DEF Stop, spaceVars, aggregatorVars, TypeOK, KeyOrder
<1>6. SecondAttempt'
  BY Numbers, TunnelAssumption DEF Stop, spaceVars, aggregatorVars, TypeOK, SecondAttempt,
                              KeyOrder, OneThing, Unsent, NothingAbout
<1>7. KeyToSend'
  BY Numbers, TunnelAssumption DEF Stop, spaceVars, aggregatorVars, TypeOK, KeyToSend, TypeOK
<1>8. RetryHidesRotation'
  BY Numbers, TunnelAssumption DEF Stop, spaceVars, aggregatorVars, TypeOK, RetryHidesRotation,
                              SecondAttempt
<1> QED BY <1>1, <1>2, <1>3, <1>4, <1>5, <1>6, <1>7, <1>8

LEMMA SendResponsePreserves ==
    ASSUME IInv, SendResponse
    PROVE  IInv'
<1> USE DEF IInv
<1>1. TypeOK'
  <2>1. current \in Request
    BY Numbers DEF SendResponse, TypeOK
  <2>2. [call |-> current.call, attempt |-> current.attempt, ok |-> TRUE, by |-> key] \in Reply
    BY <2>1 DEF TypeOK, Request, Reply
  <2> QED BY <2>2 DEF SendResponse, aggregatorVars, TypeOK
<1>2. Unsent'
  BY Numbers, TunnelAssumption DEF SendResponse, spaceVars, aggregatorVars, TypeOK, Unsent,
                              NothingAbout, OneThing, RunsTold
<1>3. OneThing'
  <2>1. PICK n : n.call = current.call /\ replies' = replies \cup {n}
    BY DEF SendResponse
  <2> QED BY <2>1 DEF SendResponse, OneThing
<1>4. RunsTold'
  BY Numbers, TunnelAssumption DEF SendResponse, spaceVars, aggregatorVars, TypeOK, RunsTold,
                              Unsent, NothingAbout, OneThing
<1>5. KeyOrder'
  <2>1. hubKey = key
    BY DEF SendResponse, RunsTold, KeyOrder
  <2> QED BY Numbers, <2>1 DEF SendResponse, aggregatorVars, KeyOrder
<1>6. SecondAttempt'
  BY Numbers, TunnelAssumption DEF SendResponse, spaceVars, aggregatorVars, TypeOK,
                              SecondAttempt, KeyOrder, OneThing, Unsent, NothingAbout
<1>7. KeyToSend'
  BY Numbers, TunnelAssumption DEF SendResponse, spaceVars, aggregatorVars, TypeOK, KeyToSend,
                              TypeOK
<1>8. RetryHidesRotation'
  BY Numbers, TunnelAssumption DEF SendResponse, spaceVars, aggregatorVars, TypeOK,
                              RetryHidesRotation, SecondAttempt
<1> QED BY <1>1, <1>2, <1>3, <1>4, <1>5, <1>6, <1>7, <1>8

LEMMA RejectRequestPreserves ==
    ASSUME IInv, NEW m \in inbox, RejectRequest(m)
    PROVE  IInv'
<1> USE DEF IInv
<1>1. TypeOK'
  <2>1. m \in Request
    BY Numbers DEF RejectRequest, TypeOK
  <2>2. [call |-> m.call, attempt |-> m.attempt, ok |-> FALSE, by |-> key] \in Reply
    BY <2>1 DEF TypeOK, Request, Reply
  <2> QED BY <2>2 DEF RejectRequest, aggregatorVars, TypeOK
<1>2. Unsent'
  BY Numbers, TunnelAssumption DEF RejectRequest, aggregatorVars, TypeOK, Request, Unsent,
                              NothingAbout, OneThing, RunsTold
<1>3. OneThing'
  <2>1. PICK n : n.call = m.call /\ replies' = replies \cup {n}
    BY DEF RejectRequest
  <2>2. inbox' = inbox \ {m} /\ UNCHANGED current
    BY DEF RejectRequest
  <2> QED BY <2>1, <2>2 DEF OneThing
<1>4. RunsTold'
  BY Numbers, TunnelAssumption DEF RejectRequest, aggregatorVars, TypeOK, Request, RunsTold,
                              Unsent, NothingAbout, OneThing
<1>5. KeyOrder'
  BY Numbers, TunnelAssumption DEF RejectRequest, aggregatorVars, TypeOK, Request, KeyOrder
<1>6. SecondAttempt'
  <2>1. PICK n : /\ n.call = m.call /\ n.attempt = m.attempt /\ n.by = key /\ n.ok = FALSE
                 /\ replies' = replies \cup {n}
    BY DEF RejectRequest
  <2>2. inbox' = inbox \ {m} /\ UNCHANGED <<current, call, hubKey>>
    BY DEF RejectRequest, aggregatorVars
  <2>3. m.key < key
    BY Numbers DEF RejectRequest, KeyOrder
  <2>4. m.attempt = 2 => n.by > call[m.call].rejectedBy
    BY Numbers, <2>1, <2>3 DEF SecondAttempt
  <2> QED BY <2>1, <2>2, <2>4 DEF SecondAttempt
<1>7. KeyToSend'
  BY Numbers, TunnelAssumption DEF RejectRequest, aggregatorVars, TypeOK, Request, KeyToSend,
                              TypeOK
<1>8. RetryHidesRotation'
  BY Numbers, TunnelAssumption DEF RejectRequest, aggregatorVars, TypeOK, Request,
                              RetryHidesRotation, SecondAttempt
<1> QED BY <1>1, <1>2, <1>3, <1>4, <1>5, <1>6, <1>7, <1>8

LEMMA HandleRequestPreserves ==
    ASSUME IInv, NEW m \in inbox, HandleRequest(m)
    PROVE  IInv'
<1> USE DEF IInv
<1>1. TypeOK'
  BY Numbers, TunnelAssumption DEF HandleRequest, aggregatorVars, TypeOK, TypeOK, CallState,
                              KeyOrNone, Request, Reply
<1>2. Unsent'
  BY Numbers, TunnelAssumption DEF HandleRequest, aggregatorVars, TypeOK, Request, Unsent,
                              NothingAbout, OneThing, RunsTold
<1>3. OneThing'
  BY Numbers, TunnelAssumption DEF HandleRequest, aggregatorVars, TypeOK, Request, OneThing,
                              Unsent, NothingAbout
<1>4. RunsTold'
  BY Numbers, TunnelAssumption DEF HandleRequest, aggregatorVars, TypeOK, Request, RunsTold,
                              Unsent, NothingAbout, OneThing
<1>5. KeyOrder'
  BY Numbers, TunnelAssumption DEF HandleRequest, aggregatorVars, TypeOK, Request, KeyOrder
<1>6. SecondAttempt'
  BY Numbers, TunnelAssumption DEF HandleRequest, aggregatorVars, TypeOK, Request, SecondAttempt,
                              KeyOrder, OneThing, Unsent, NothingAbout
<1>7. KeyToSend'
  BY Numbers, TunnelAssumption DEF HandleRequest, aggregatorVars, TypeOK, Request, KeyToSend,
                              TypeOK
<1>8. RetryHidesRotation'
  BY Numbers, TunnelAssumption DEF HandleRequest, aggregatorVars, TypeOK, Request,
                              RetryHidesRotation, SecondAttempt
<1> QED BY <1>1, <1>2, <1>3, <1>4, <1>5, <1>6, <1>7, <1>8

-----------------------------------------------------------------------------
(* The inductive invariant.                                                *)

LEMMA InitEstablishes == Init => IInv
BY TunnelAssumption DEF Init, IInv, TypeOK, CallState, KeyOrNone, Unsent, NothingAbout, OneThing,
   RunsTold, KeyOrder, SecondAttempt, KeyToSend, RetryHidesRotation

LEMMA NextPreserves == IInv /\ [Next]_vars => IInv'
<1> SUFFICES ASSUME IInv, [Next]_vars PROVE IInv'
  OBVIOUS
<1>1. ASSUME NEW c \in Call, CallStep(c) PROVE IInv'
  BY <1>1, GetSpacePublicKeyPreserves, FetchKeyPreserves, StoreKeyPreserves,
     SendRequestPreserves, ReceiveReplyPreserves, TimeoutPreserves DEF CallStep
<1>2. CASE SpaceStep
  BY <1>2, StartPreserves, RegisterKeyPreserves, SubscribePreserves, StopPreserves,
     RejectRequestPreserves, HandleRequestPreserves, SendResponsePreserves DEF SpaceStep
<1>3. CASE UNCHANGED vars
  BY <1>3 DEF vars, IInv, TypeOK, Unsent, NothingAbout, OneThing, RunsTold, KeyOrder,
              SecondAttempt, KeyToSend, RetryHidesRotation
<1> QED BY <1>1, <1>2, <1>3, ExpireKeyPreserves, LoseReplyPreserves DEF Next

LEMMA Invariant == Spec => []IInv
BY InitEstablishes, NextPreserves, PTL DEF Spec

-----------------------------------------------------------------------------
(* The refinement: a call ends in one step, and its endpoint runs in one.  *)

LEMMA RefineInit == Init => RC!RCInit
BY DEF Init, RC!RCInit, Outcome

(* A step that changes neither runs nor outcomes.                          *)
LEMMA Stutters ==
    ASSUME UNCHANGED executed,
           \A c \in Call : call'[c].pc = call[c].pc
                          \/ {call[c].pc, call'[c].pc} \cap {"answered", "failed"} = {}
    PROVE  UNCHANGED RC!rvars
BY DEF RC!rvars, Outcome

(* A step that ends one call.                                              *)
LEMMA CallEnded ==
    ASSUME NEW c \in Call, NEW end \in {"answered", "failed"},
           call[c].pc \notin {"answered", "failed"}, call'[c].pc = end,
           \A d \in Call \ {c} : call'[d] = call[d]
    PROVE  Outcome[c] = "none" /\ Outcome' = [Outcome EXCEPT ![c] = end]
BY DEF Outcome

LEMMA RefineNext ==
    ASSUME IInv, [Next]_vars
    PROVE  [RC!RCNext]_RC!rvars
<1>1. call \in [Call -> CallState]
  BY DEF IInv, TypeOK
<1>2. ASSUME NEW c \in Call, CallStep(c) PROVE [RC!RCNext]_RC!rvars
  <2>1. UNCHANGED executed /\ \A d \in Call \ {c} : call'[d] = call[d]
    BY <1>1, <1>2 DEF CallStep, GetSpacePublicKey, FetchKey, StoreKey, SendRequest,
                      ReceiveReply, Timeout, spaceVars
  <2>2. CASE call'[c].pc = "failed" /\ call[c].pc \notin {"answered", "failed"}
    <3>1. Outcome[c] = "none" /\ Outcome' = [Outcome EXCEPT ![c] = "failed"]
      BY <2>1, <2>2, CallEnded
    <3>2. RC!Fail(c)
      BY <2>1, <3>1 DEF RC!Fail
    <3> QED BY <3>2 DEF RC!RCNext
  <2>3. CASE \E m \in replies : /\ Concerns(m, c) /\ m.ok
                                /\ call'[c].pc = "answered"
    <3>1. executed[c] = 1 /\ call[c].pc = "wait"
      BY <2>3 DEF Concerns, IInv, RunsTold
    <3>2. Outcome[c] = "none" /\ Outcome' = [Outcome EXCEPT ![c] = "answered"]
      BY <2>1, <2>3, <3>1, CallEnded
    <3>3. RC!Answer(c)
      BY <2>1, <3>1, <3>2 DEF RC!Answer
    <3> QED BY <3>3 DEF RC!RCNext
  <2>4. CASE {call[c].pc, call'[c].pc} \cap {"answered", "failed"} = {}
    BY <2>1, <2>4, Stutters
  <2>5. \/ call'[c].pc = "failed" /\ call[c].pc \notin {"answered", "failed"}
        \/ \E m \in replies : Concerns(m, c) /\ m.ok /\ call'[c].pc = "answered"
        \/ {call[c].pc, call'[c].pc} \cap {"answered", "failed"} = {}
    <3>1. CASE GetSpacePublicKey(c)
      BY <1>1, <3>1 DEF GetSpacePublicKey, CallState
    <3>2. CASE FetchKey(c)
      BY <1>1, <3>2 DEF FetchKey, CallState
    <3>3. CASE StoreKey(c)
      BY <1>1, <3>3 DEF StoreKey, CallState
    <3>4. CASE SendRequest(c)
      BY <1>1, <3>4 DEF SendRequest, CallState
    <3>5. CASE ReceiveReply(c)
      BY <1>1, <3>5 DEF ReceiveReply, Concerns, CallState
    <3>6. CASE Timeout(c)
      BY <1>1, <3>6 DEF Timeout, CallState
    <3> QED BY <1>2, <3>1, <3>2, <3>3, <3>4, <3>5, <3>6 DEF CallStep
  <2> QED BY <2>2, <2>3, <2>4, <2>5
<1>3. ASSUME NEW m \in inbox, HandleRequest(m) PROVE [RC!RCNext]_RC!rvars
  <2>1. m.call \in Call /\ executed[m.call] = 0 /\ UNCHANGED call
    BY <1>3, Numbers DEF IInv, RunsTold, HandleRequest, aggregatorVars
  <2>2. executed' = [executed EXCEPT ![m.call] = 1] /\ UNCHANGED Outcome
    BY <1>3, <2>1 DEF HandleRequest, Outcome
  <2>3. RC!Execute(m.call)
    BY <2>1, <2>2 DEF RC!Execute
  <2> QED BY <2>1, <2>3 DEF RC!RCNext
<1>4. CASE UNCHANGED <<executed, call>>
  BY <1>4, Stutters
<1> QED BY <1>2, <1>3, <1>4
        DEF Next, SpaceStep, ExpireKey, LoseReply, Start, RegisterKey, Subscribe, Stop,
            RejectRequest, SendResponse, spaceVars, aggregatorVars, vars

-----------------------------------------------------------------------------
(* Every reachable state has its type.                                     *)
THEOREM TypeCorrect == Spec => []TypeOK
<1>1. IInv => TypeOK
  BY DEF IInv
<1> QED BY <1>1, Invariant, PTL

(* The tunnel implements RemoteCall: whatever is lost, late, refused or    *)
(* sent again, an endpoint runs at most once for a call, and an answered   *)
(* call has run (nats_transport.py:243-390).                               *)
THEOREM ImplementsRemoteCall == Spec => AtMostOnce
<1>1. Init => RC!RCInit
  BY RefineInit
<1>2. IInv /\ [Next]_vars => [RC!RCNext]_RC!rvars
  BY RefineNext
<1> QED BY <1>1, <1>2, Invariant, PTL DEF Spec, AtMostOnce, RC!RCSpec

(* A call that fails with DECRYPTION_FAILED has met two restarts with new  *)
(* keys, for any number of keys and calls.                                 *)
THEOREM OneRestartIsHidden == Spec => []RetryHidesRotation
<1>1. IInv => RetryHidesRotation
  BY DEF IInv
<1> QED BY <1>1, Invariant, PTL

-----------------------------------------------------------------------------
(* A chat.                                                                 *)

(* The last phase of the stream that the orchestrator has reached.         *)
Phase ==
    CASE pc = "idle"       -> 0
      [] pc = "retrieving" -> 2
      [] pc = "ranking"    -> 3
      [] pc = "generating" -> IF req.mode = "stream" THEN 7 ELSE 8
      [] pc = "over"       -> 9

Follows(d, e) ==
    /\ Chat!Rank(d) <= Chat!Rank(e)
    /\ Chat!Rank(d) \in {2, 7, 8} \/ Chat!Rank(d) # Chat!Rank(e)
    /\ Chat!Rank(d) = 2 => d # e

Ordered(es) == \A i, j \in DOMAIN es : i < j => Follows(es[i], es[j])

(* A stream in order whose events are of phase n at most; whether it has   *)
(* reported a source, and the end of the retrieval.                        *)
Good(es, n) == es \in Seq(Chat!Event) /\ Ordered(es) /\ \A i \in DOMAIN es : Chat!Rank(es[i]) <= n
Said(es, s) == \E i \in DOMAIN es : es[i] = <<"source_complete", s>>
Fifth(es) == \E i \in DOMAIN es : Chat!Rank(es[i]) = 5

QueryState == [at : Chat!Places, try : 0..MaxRetries]
ResultState == [status : Chat!Statuses \cup {"none", "crashed"}, docs : BOOLEAN, bill : BOOLEAN]

(* Before the POST nothing has happened, and without a stream nothing is   *)
(* sent.                                                                   *)
NothingSent ==
    /\ client = "preparing" =>
         /\ pc = "idle" /\ events = <<>> /\ answer = Chat!NoneYet
         /\ \A e \in Chat!Endpoints : query[e] = Chat!Idle /\ Chat!Due(e) = 0
    /\ ~Chat!Streaming => events = <<>>

(* An attempt of a call has paid, or may still pay, once at most, and not  *)
(* at all before it has been to the wallet; only a wallet user's call over *)
(* HTTP goes there.                                                        *)
PaidOf(e, c, n) ==
    /\ n <= c.try + 1
    /\ c.at = "idle" => c.try = 0
    /\ (c.at \in {"idle", "probing", "wallet"} \/ (c.at = "asked" /\ Chat!Plain(e))) => n <= c.try
    /\ (c.at = "wallet" \/ n > 0) => req.user /\ ~Chat!Tunnelled(e)
    /\ c.at = "probing" => e = Model /\ ~Chat!Plain(Model) /\ req.user
    /\ c.at = "chunks" => e = Model /\ ~Chat!Plain(Model)
    /\ c.at = "backoff" => c.try < MaxRetries

Paid == \A e \in Chat!Endpoints : PaidOf(e, query[e], Chat!Due(e))

(* The model has been asked, or is about to be, or the stream has ended as *)
(* if.                                                                     *)
PastRetrieval ==
    \/ query[Model].at # "idle"
    \/ pc \in {"ranking", "generating"}
    \/ answer.kind \notin {"none", "denied"}

(* By then every source has answered and been reported, and none refused.  *)
Retrieved ==
    /\ Chat!Streaming /\ PastRetrieval =>
         /\ \A s \in req.sources : query[s].at = "over"
         /\ Chat!Refused = {} /\ Chat!Completed = req.sources
    /\ pc \in {"idle", "retrieving", "ranking"} => query[Model].at = "idle"

Phased ==
    /\ Good(events, Phase)
    /\ Fifth(events) => Chat!Completed = req.sources

(* A stream that is over leaves no call of the model open.                 *)
ModelQuiet == pc = "over" /\ Chat!Streaming => query[Model].at \in Chat!Quiet

ChatIInv == Chat!TypeOK /\ NothingSent /\ Paid /\ Retrieved /\ Phased /\ ModelQuiet

-----------------------------------------------------------------------------
(* The events of a stream and their order.                                 *)

LEMMA Ranks ==
    /\ Chat!Rank(<<"retrieval_start">>) = 1 /\ Chat!Rank(<<"reranking_start">>) = 3
    /\ Chat!Rank(<<"reranking_complete">>) = 4 /\ Chat!Rank(<<"retrieval_complete">>) = 5
    /\ Chat!Rank(<<"generation_start">>) = 6 /\ Chat!Rank(<<"generation_heartbeat">>) = 7
    /\ Chat!Rank(<<"token">>) = 8 /\ Chat!Rank(<<"done">>) = 9 /\ Chat!Rank(<<"error">>) = 9
    /\ \A s \in Sources : Chat!Rank(<<"source_complete", s>>) = 2
BY DEF Chat!Rank

LEMMA EventFacts ==
    /\ \A e \in Chat!Event : Chat!Rank(e) \in 1..9
    /\ \A s, t \in Sources : <<"source_complete", s>> = <<"source_complete", t>> => s = t
BY Ranks DEF Chat!Event

(* An event that may come after phase n of a stream.                       *)
MayFollow(es, n, e) ==
    \/ n < Chat!Rank(e)
    \/ n = Chat!Rank(e) /\ (n \in {7, 8} \/ (n = 2 /\ \A i \in DOMAIN es : es[i] # e))

LEMMA Empty == \A n \in Nat : Good(<<>>, n) /\ ~Fifth(<<>>)
BY DEF Good, Ordered, Fifth

LEMMA Later ==
    ASSUME NEW es, NEW m \in Nat, NEW n \in Nat, m <= n, Good(es, m)
    PROVE  Good(es, n)
<1>1. \A i \in DOMAIN es : es[i] \in Chat!Event
  BY DEF Good
<1> QED BY <1>1, EventFacts DEF Good

LEMMA AppendOne ==
    ASSUME NEW es, NEW n \in Nat, NEW e \in Chat!Event, Good(es, n), MayFollow(es, n, e)
    PROVE  LET fs == es \o <<e>> IN
           /\ Good(fs, Chat!Rank(e))
           /\ \A s : Said(fs, s) <=> Said(es, s) \/ e = <<"source_complete", s>>
           /\ Fifth(fs) <=> Fifth(es) \/ Chat!Rank(e) = 5
<1> DEFINE fs == es \o <<e>>
           k == Len(es) + 1
<1>0. es \in Seq(Chat!Event) /\ Ordered(es)
  BY DEF Good
<1>1. /\ fs \in Seq(Chat!Event) /\ DOMAIN fs = 1..k /\ DOMAIN es = 1..Len(es)
      /\ \A i \in DOMAIN es : fs[i] = es[i]
      /\ fs[k] = e /\ Len(es) \in Nat
      /\ \A i \in DOMAIN es : es[i] \in Chat!Event
  BY <1>0
<1>2. DOMAIN fs = DOMAIN es \cup {k} /\ k \notin DOMAIN es
  BY <1>1
<1>3. \A i \in DOMAIN es : Chat!Rank(es[i]) \in Nat /\ Chat!Rank(es[i]) <= n
  BY <1>1, EventFacts DEF Good
<1>4. Chat!Rank(e) \in Nat
  BY EventFacts
<1>5. \A i \in DOMAIN es : Follows(es[i], e)
  BY <1>3, <1>4 DEF Follows, MayFollow
<1>6. \A i, j \in DOMAIN es : i < j => Follows(es[i], es[j])
  BY <1>0 DEF Ordered
<1>7. /\ \A i \in DOMAIN fs : (i < k => i \in DOMAIN es) /\ i <= k
      /\ \A i, j \in DOMAIN fs : i < j => i < k
  BY <1>1
<1>8. \A i \in DOMAIN fs : Chat!Rank(fs[i]) <= Chat!Rank(e)
  BY <1>1, <1>2, <1>3, <1>4 DEF MayFollow
<1> HIDE DEF fs, k
<1>9. ASSUME NEW i \in DOMAIN fs, NEW j \in DOMAIN fs, i < j PROVE Follows(fs[i], fs[j])
  <2>1. i \in DOMAIN es
    BY <1>7, <1>9
  <2>2. CASE j \in DOMAIN es
    BY <1>1, <1>6, <1>9, <2>1, <2>2
  <2>3. CASE j = k
    BY <1>1, <1>5, <2>1, <2>3
  <2> QED BY <1>2, <2>2, <2>3
<1>10. Good(fs, Chat!Rank(e))
  BY <1>1, <1>8, <1>9 DEF Good, Ordered
<1>11. \A s : Said(fs, s) <=> Said(es, s) \/ e = <<"source_complete", s>>
  BY <1>1, <1>2 DEF Said
<1>12. Fifth(fs) <=> Fifth(es) \/ Chat!Rank(e) = 5
  BY <1>1, <1>2 DEF Fifth
<1> QED BY <1>10, <1>11, <1>12 DEF fs

-----------------------------------------------------------------------------
(* Types.                                                                  *)

LEMMA Endings ==
    /\ Model \in Chat!Endpoints /\ Sources \subseteq Chat!Endpoints /\ Model \notin Sources
    /\ MaxRetries \in Nat /\ Chat!Idle \in QueryState /\ Chat!NoResult \in ResultState
BY ChatBounds DEF Chat!Bounds, Chat!Endpoints, Chat!Idle, Chat!NoResult, QueryState, ResultState,
                  Chat!Places

LEMMA StatusTyped ==
    ASSUME NEW e, NEW r, NEW paid
    PROVE  Chat!StatusOf(e, r, paid) \in Chat!Statuses \cup {"none", "crashed"}
<1>1. Chat!SourceStatus(r, paid) \in Chat!Statuses \cup {"none", "crashed"}
  BY DEF Chat!SourceStatus, Chat!Statuses
<1>2. Chat!ModelStatus(e, r, paid) \in Chat!Statuses \cup {"none", "crashed"}
  BY DEF Chat!ModelStatus, Chat!Statuses
<1> QED BY <1>1, <1>2 DEF Chat!StatusOf

LEMMA CallSet ==
    ASSUME Chat!TypeOK, NEW e \in Chat!Endpoints, NEW at \in Chat!Places,
           query' = [query EXCEPT ![e].at = at]
    PROVE  /\ query' \in [Chat!Endpoints -> QueryState]
           /\ query'[e] = [at |-> at, try |-> query[e].try]
           /\ \A f \in Chat!Endpoints \ {e} : query'[f] = query[f]
BY DEF Chat!TypeOK, QueryState

LEMMA Settles ==
    ASSUME Chat!TypeOK, NEW e \in Chat!Endpoints,
           NEW status \in Chat!Statuses \cup {"none", "crashed"},
           NEW r, NEW bill \in BOOLEAN, Chat!Settle(e, status, r, bill)
    PROVE  /\ query' \in [Chat!Endpoints -> QueryState]
           /\ result' \in [Chat!Endpoints -> ResultState]
           /\ query'[e] = [at |-> "over", try |-> query[e].try]
           /\ \A f \in Chat!Endpoints \ {e} : query'[f] = query[f] /\ result'[f] = result[f]
           /\ UNCHANGED <<payments, unsettled>>
<1>1. /\ query' \in [Chat!Endpoints -> QueryState]
      /\ query'[e] = [at |-> "over", try |-> query[e].try]
      /\ \A f \in Chat!Endpoints \ {e} : query'[f] = query[f]
  BY CallSet DEF Chat!Settle, Chat!Places
<1>2. [status |-> status, docs |-> r = "ok", bill |-> bill] \in ResultState
  BY DEF ResultState
<1>3. result \in [Chat!Endpoints -> ResultState]
  BY DEF Chat!TypeOK, ResultState
<1>4. /\ result' \in [Chat!Endpoints -> ResultState]
      /\ \A f \in Chat!Endpoints \ {e} : result'[f] = result[f]
  BY <1>2, <1>3 DEF Chat!Settle
<1> QED BY <1>1, <1>4 DEF Chat!Settle

-----------------------------------------------------------------------------
(* A step of one call: what it changes is its own, and what it pays is     *)
(* accounted for.                                                          *)
Moved(e) ==
    /\ UNCHANGED <<req, client, pc, events, answer>>
    /\ query[e].at \notin Chat!Quiet /\ query'[e].at # "idle"
    /\ \A f \in Chat!Endpoints \ {e} :
         query'[f] = query[f] /\ result'[f] = result[f] /\ Chat!Due(f)' = Chat!Due(f)
    /\ query' \in [Chat!Endpoints -> QueryState] /\ result' \in [Chat!Endpoints -> ResultState]
    /\ payments' \in [Chat!Endpoints -> Nat] /\ unsettled' \subseteq Chat!Endpoints
    /\ PaidOf(e, query'[e], Chat!Due(e)')

LEMMA DuesKept ==
    ASSUME UNCHANGED <<payments, unsettled>>
    PROVE  \A e \in Chat!Endpoints : Chat!Due(e)' = Chat!Due(e)
BY DEF Chat!Due

LEMMA Typed ==
    ASSUME Chat!TypeOK, NEW e \in Chat!Endpoints
    PROVE  /\ query \in [Chat!Endpoints -> QueryState] /\ result \in [Chat!Endpoints -> ResultState]
           /\ payments \in [Chat!Endpoints -> Nat]
           /\ query[e].at \in Chat!Places /\ query[e].try \in Nat /\ query[e].try <= MaxRetries
           /\ unsettled \subseteq Chat!Endpoints
           /\ payments[e] \in Nat /\ Chat!Due(e) \in Nat /\ payments[e] <= Chat!Due(e)
BY Endings DEF Chat!TypeOK, QueryState, ResultState, Chat!Due

LEMMA SettledMoves ==
    ASSUME Chat!TypeOK, Paid, NEW e \in Chat!Endpoints,
           NEW status \in Chat!Statuses \cup {"none", "crashed"},
           NEW r, NEW bill \in BOOLEAN, Chat!Settle(e, status, r, bill),
           query[e].at \notin Chat!Quiet, UNCHANGED <<req, client, pc, events, answer>>
    PROVE  Moved(e)
<1>1. PaidOf(e, [at |-> "over", try |-> query[e].try], Chat!Due(e))
  BY Typed DEF Paid, PaidOf
<1>2. /\ query' \in [Chat!Endpoints -> QueryState] /\ result' \in [Chat!Endpoints -> ResultState]
      /\ query'[e] = [at |-> "over", try |-> query[e].try]
      /\ \A f \in Chat!Endpoints \ {e} : query'[f] = query[f] /\ result'[f] = result[f]
      /\ UNCHANGED <<payments, unsettled>>
  BY Settles
<1>3. \A f \in Chat!Endpoints : Chat!Due(f)' = Chat!Due(f)
  BY <1>2, DuesKept
<1>4. /\ payments' \in [Chat!Endpoints -> Nat] /\ unsettled' \subseteq Chat!Endpoints
      /\ PaidOf(e, query'[e], Chat!Due(e)')
  BY <1>1, <1>2, <1>3, Typed
<1> QED BY <1>2, <1>3, <1>4 DEF Moved

LEMMA HttpMoves ==
    ASSUME Chat!TypeOK, Paid, NEW e \in Chat!Endpoints, Chat!HttpAnswered(e)
    PROVE  Moved(e)
<1>1. PICK r \in Replies, bill \in BOOLEAN :
        Chat!Settle(e, Chat!StatusOf(e, r, query[e].at = "reposted"), r,
                    bill /\ Chat!KeepsBill(e, r))
  BY DEF Chat!HttpAnswered
<1>2. (bill /\ Chat!KeepsBill(e, r)) \in BOOLEAN
  BY DEF Chat!KeepsBill
<1> QED BY <1>1, <1>2, StatusTyped, SettledMoves DEF Chat!HttpAnswered, Chat!Quiet

LEMMA TunnelMoves ==
    ASSUME Chat!TypeOK, Paid, NEW e \in Chat!Endpoints, Chat!TunnelAnswered(e)
    PROVE  Moved(e)
<1>1. PICK r \in Chat!TunnelReplies, bill \in BOOLEAN :
        Chat!Settle(e, Chat!StatusOf(e, r, FALSE), r, bill)
  BY DEF Chat!TunnelAnswered
<1> QED BY <1>1, StatusTyped, SettledMoves DEF Chat!TunnelAnswered, Chat!Quiet

(* A call that moves on without an answer yet.                             *)
LEMMA GoesOn ==
    ASSUME Chat!TypeOK, NEW e \in Chat!Endpoints, NEW at \in Chat!Places, at # "idle",
           query' = [query EXCEPT ![e].at = at], query[e].at \notin Chat!Quiet,
           UNCHANGED <<req, client, pc, result, payments, unsettled, events, answer>>,
           PaidOf(e, [at |-> at, try |-> query[e].try], Chat!Due(e))
    PROVE  Moved(e)
<1>1. /\ query' \in [Chat!Endpoints -> QueryState]
      /\ query'[e] = [at |-> at, try |-> query[e].try]
      /\ \A f \in Chat!Endpoints \ {e} : query'[f] = query[f]
  BY CallSet
<1>2. /\ result' \in [Chat!Endpoints -> ResultState] /\ payments' \in [Chat!Endpoints -> Nat]
      /\ unsettled' \subseteq Chat!Endpoints
  BY Typed
<1>3. \A f \in Chat!Endpoints : Chat!Due(f)' = Chat!Due(f)
  BY DuesKept
<1>4. PaidOf(e, query'[e], Chat!Due(e)')
  BY <1>1, <1>3
<1> QED BY <1>1, <1>2, <1>3, <1>4 DEF Moved

LEMMA ChallengedMoves ==
    ASSUME Chat!TypeOK, Paid, NEW e \in Chat!Endpoints, Chat!Challenged(e)
    PROVE  Moved(e)
<1>1. PaidOf(e, [at |-> "wallet", try |-> query[e].try], Chat!Due(e))
  BY Typed DEF Chat!Challenged, Chat!GoesToWallet, Paid, PaidOf
<1> QED BY <1>1, GoesOn DEF Chat!Challenged, Chat!GoesToWallet, Chat!Quiet, Chat!Places

LEMMA BackoffMoves ==
    ASSUME Chat!TypeOK, Paid, NEW e \in Chat!Endpoints, Chat!Backoff(e)
    PROVE  Moved(e)
<1>1. PaidOf(e, [at |-> "backoff", try |-> query[e].try], Chat!Due(e))
  BY Typed DEF Chat!Backoff, Chat!Retries, Paid, PaidOf
<1> QED BY <1>1, GoesOn DEF Chat!Backoff, Chat!Quiet, Chat!Places

LEMMA AskAgainMoves ==
    ASSUME Chat!TypeOK, Paid, NEW e \in Chat!Endpoints, Chat!AskAgain(e)
    PROVE  Moved(e)
<1> DEFINE c == [at |-> "asked", try |-> query[e].try + 1]
<1>1. query[e].try + 1 \in 0..MaxRetries
  BY Typed, Endings DEF Chat!AskAgain, Paid, PaidOf
<1>2. c \in QueryState
  BY <1>1 DEF QueryState, Chat!Places
<1>3. /\ query' \in [Chat!Endpoints -> QueryState] /\ query'[e] = c
      /\ \A f \in Chat!Endpoints \ {e} : query'[f] = query[f]
  BY <1>2, Typed DEF Chat!AskAgain
<1>4. \A f \in Chat!Endpoints : Chat!Due(f)' = Chat!Due(f)
  BY DuesKept DEF Chat!AskAgain
<1>5. PaidOf(e, query'[e], Chat!Due(e)')
  BY <1>3, <1>4, Typed DEF Chat!AskAgain, Paid, PaidOf
<1> QED BY <1>3, <1>4, <1>5, Typed DEF Chat!AskAgain, Moved, Chat!Quiet

LEMMA SignsMoves ==
    ASSUME Chat!TypeOK, Paid, NEW e \in Chat!Endpoints, Chat!WalletSigns(e)
    PROVE  Moved(e)
<1> DEFINE at == IF Chat!Plain(e) THEN "reposted" ELSE "asked"
<1>1. at \in Chat!Places /\ at # "idle"
  BY DEF Chat!Places
<1>2. /\ query' \in [Chat!Endpoints -> QueryState]
      /\ query'[e] = [at |-> at, try |-> query[e].try]
      /\ \A f \in Chat!Endpoints \ {e} : query'[f] = query[f]
  BY <1>1, CallSet DEF Chat!WalletSigns
<1>3. /\ payments' \in [Chat!Endpoints -> Nat] /\ payments'[e] = payments[e] + 1
      /\ \A f \in Chat!Endpoints \ {e} : payments'[f] = payments[f]
      /\ unsettled' = unsettled
  BY Typed DEF Chat!WalletSigns
<1>4. /\ Chat!Due(e)' = Chat!Due(e) + 1
      /\ \A f \in Chat!Endpoints \ {e} : Chat!Due(f)' = Chat!Due(f)
  BY <1>3, Typed DEF Chat!Due
<1>5. PaidOf(e, query'[e], Chat!Due(e)')
  BY <1>2, <1>4, Typed DEF Chat!WalletSigns, Paid, PaidOf
<1> QED BY <1>1, <1>2, <1>3, <1>4, <1>5, Typed DEF Chat!WalletSigns, Moved, Chat!Quiet

LEMMA FailsMoves ==
    ASSUME Chat!TypeOK, Paid, NEW e \in Chat!Endpoints, Chat!WalletFails(e)
    PROVE  Moved(e)
<1>1. /\ unsettled' \subseteq Chat!Endpoints /\ unsettled' \in {unsettled, unsettled \cup {e}}
      /\ payments' = payments /\ payments' \in [Chat!Endpoints -> Nat]
  BY Typed DEF Chat!WalletFails
<1>2. /\ Chat!Due(e)' \in Nat /\ Chat!Due(e)' <= Chat!Due(e) + 1
      /\ \A f \in Chat!Endpoints \ {e} : Chat!Due(f)' = Chat!Due(f)
  BY <1>1, Typed DEF Chat!Due
<1>3. /\ query' \in [Chat!Endpoints -> QueryState]
      /\ query'[e] = [at |-> "over", try |-> query[e].try]
      /\ \A f \in Chat!Endpoints \ {e} : query'[f] = query[f]
  BY CallSet DEF Chat!WalletFails, Chat!Places
<1>4. [status |-> IF e = Model THEN "error" ELSE "payment_failed",
       docs |-> FALSE, bill |-> FALSE] \in ResultState
  BY DEF ResultState, Chat!Statuses
<1>5. /\ result' \in [Chat!Endpoints -> ResultState]
      /\ \A f \in Chat!Endpoints \ {e} : result'[f] = result[f]
  BY <1>4, Typed DEF Chat!WalletFails
<1>6. PaidOf(e, [at |-> "over", try |-> query[e].try], Chat!Due(e)')
  BY <1>2, Typed DEF Chat!WalletFails, Paid, PaidOf
<1>7. PaidOf(e, query'[e], Chat!Due(e)')
  BY <1>3, <1>6
<1> QED BY <1>1, <1>2, <1>3, <1>5, <1>7 DEF Chat!WalletFails, Moved, Chat!Quiet

LEMMA NoChallengeMoves ==
    ASSUME Chat!TypeOK, Paid, NEW e \in Chat!Endpoints, Chat!NoChallenge(e)
    PROVE  Moved(e)
<1>1. CASE Chat!Plain(e)
  BY <1>1, SettledMoves DEF Chat!NoChallenge, Chat!Quiet, Chat!Statuses
<1>2. CASE ~Chat!Plain(e)
  <2>1. PaidOf(e, [at |-> "asked", try |-> query[e].try], Chat!Due(e))
    BY <1>2, Typed DEF Chat!NoChallenge, Paid, PaidOf
  <2> QED BY <1>2, <2>1, GoesOn DEF Chat!NoChallenge, Chat!Quiet, Chat!Places
<1> QED BY <1>1, <1>2

LEMMA CallMoves ==
    ASSUME Chat!TypeOK, Paid, NEW e \in Chat!Endpoints, Chat!CallStep(e)
    PROVE  Moved(e)
BY HttpMoves, TunnelMoves, ChallengedMoves, BackoffMoves, AskAgainMoves, SignsMoves,
   FailsMoves, NoChallengeMoves DEF Chat!CallStep

LEMMA ProbedMoves ==
    ASSUME Chat!TypeOK, Paid, Chat!Probed
    PROVE  Moved(Model)
<1>1. PICK r \in Chat!ModelReplies :
        IF r \in Chat!NoAnswer
          THEN Chat!Settle(Model, "crashed", r, FALSE)
          ELSE /\ query' = [query EXCEPT ![Model].at = IF r = "payment" THEN "wallet" ELSE "asked"]
               /\ UNCHANGED <<result, payments, unsettled>>
  BY DEF Chat!Probed
<1>2. CASE r \in Chat!NoAnswer
  BY <1>1, <1>2, SettledMoves, Endings DEF Chat!Probed, Chat!Quiet
<1>3. CASE r \notin Chat!NoAnswer
  <2> DEFINE at == IF r = "payment" THEN "wallet" ELSE "asked"
  <2>1. ~Chat!Tunnelled(Model)
    BY <1>3 DEF Chat!ModelReplies
  <2>2. PaidOf(Model, [at |-> at, try |-> query[Model].try], Chat!Due(Model))
    BY <2>1, Typed, Endings DEF Chat!Probed, Paid, PaidOf
  <2>3. at \in Chat!Places /\ at # "idle"
    BY DEF Chat!Places
  <2> QED BY <1>1, <1>3, <2>2, <2>3, GoesOn, Endings DEF Chat!Probed, Chat!Quiet
<1> QED BY <1>2, <1>3

LEMMA StreamedMoves ==
    ASSUME Chat!TypeOK, Paid, Chat!StreamAnswered
    PROVE  Moved(Model)
<1> DEFINE s(r) == IF r \in {"empty", "garbage"} THEN "success"
                   ELSE IF r = "misshapen" THEN "crashed" ELSE "error"
<1>1. PICK r \in Chat!ModelReplies :
        IF r = "ok"
          THEN /\ query' = [query EXCEPT ![Model].at = "chunks"]
               /\ UNCHANGED <<result, payments, unsettled>>
          ELSE Chat!Settle(Model, s(r), r, FALSE)
  BY DEF Chat!StreamAnswered
<1>2. CASE r = "ok"
  <2>1. PaidOf(Model, [at |-> "chunks", try |-> query[Model].try], Chat!Due(Model))
    BY Typed, Endings DEF Chat!StreamAnswered, Paid, PaidOf
  <2> QED BY <1>1, <1>2, <2>1, GoesOn, Endings DEF Chat!StreamAnswered, Chat!Quiet, Chat!Places
<1>3. CASE r # "ok"
  <2>1. \/ s(r) = "success" \/ s(r) = "crashed" \/ s(r) = "error"
    OBVIOUS
  <2> QED BY <1>1, <1>3, <2>1, SettledMoves, Endings DEF Chat!StreamAnswered, Chat!Quiet,
                              Chat!Statuses
<1> QED BY <1>2, <1>3

LEMMA ModelMoves ==
    ASSUME Chat!TypeOK, Paid, Chat!ModelStep
    PROVE  Moved(Model)
<1>1. CASE Chat!ChunksEnd
  <2>1. PICK r \in {"ok"} \cup Chat!NoAnswer :
          Chat!Settle(Model, IF r = "ok" THEN "success" ELSE "error", r, FALSE)
    BY <1>1 DEF Chat!ChunksEnd
  <2> QED BY <1>1, <2>1, SettledMoves, Endings DEF Chat!ChunksEnd, Chat!Quiet, Chat!Statuses
<1> QED BY <1>1, ProbedMoves, StreamedMoves DEF Chat!ModelStep

-----------------------------------------------------------------------------
(* Steps of the calls keep the invariant.                                  *)

LEMMA Quietly ==
    ASSUME NEW e \in Chat!Endpoints, Moved(e)
    PROVE  /\ Chat!Streaming' = Chat!Streaming /\ Phase' = Phase /\ Chat!Completed' = Chat!Completed
           /\ \A f \in Chat!Endpoints :
                Chat!Plain(f)' = Chat!Plain(f) /\ Chat!Tunnelled(f)' = Chat!Tunnelled(f)
BY DEF Moved, Chat!Streaming, Phase, Chat!Completed, Chat!Plain, Chat!Tunnelled

LEMMA MovedKeeps ==
    ASSUME ChatIInv, NEW e \in Chat!Endpoints, Moved(e)
    PROVE  ChatIInv'
<1>1. Chat!TypeOK'
  BY DEF ChatIInv, Chat!TypeOK, Moved, QueryState, ResultState
<1>2. client # "preparing"
  BY DEF ChatIInv, NothingSent, Moved, Chat!Idle, Chat!Quiet
<1>3. NothingSent'
  BY <1>2, Quietly DEF ChatIInv, NothingSent, Moved
<1>4. Paid'
  <2>1. \A f \in Chat!Endpoints : PaidOf(f, query'[f], Chat!Due(f)')
    BY DEF Moved, ChatIInv, Paid
  <2> QED BY <2>1, Quietly, Endings DEF Paid, PaidOf, Moved
<1>5. PastRetrieval' => PastRetrieval
  BY Endings DEF PastRetrieval, Moved, Chat!Quiet
<1>6. Retrieved'
  <2>1. ASSUME Chat!Streaming', PastRetrieval'
        PROVE  /\ \A s \in req'.sources : query'[s].at = "over"
               /\ Chat!Refused' = {} /\ Chat!Completed' = req'.sources
    <3>1. /\ \A s \in req.sources : query[s].at = "over"
          /\ Chat!Refused = {} /\ Chat!Completed = req.sources
      BY <1>5, <2>1, Quietly DEF ChatIInv, Retrieved
    <3>2. req.sources \subseteq Chat!Endpoints
      BY Endings DEF ChatIInv, Chat!TypeOK, Chat!AnyRequest
    <3>3. \A s \in req.sources : s # e /\ query'[s] = query[s] /\ result'[s] = result[s]
      BY <3>1, <3>2 DEF Moved, Chat!Quiet
    <3> QED BY <3>1, <3>3, Quietly DEF Chat!Refused, Moved
  <2>2. pc \in {"idle", "retrieving", "ranking"} => query'[Model].at = "idle"
    BY Endings DEF ChatIInv, Retrieved, Moved, Chat!Quiet
  <2> QED BY <2>1, <2>2 DEF Retrieved, Moved
<1>7. Phased'
  BY Quietly DEF ChatIInv, Phased, Moved, Good, Ordered, Fifth
<1>8. ModelQuiet'
  BY Quietly, Endings DEF ChatIInv, ModelQuiet, Moved
<1> QED BY <1>1, <1>3, <1>4, <1>6, <1>7, <1>8 DEF ChatIInv

-----------------------------------------------------------------------------
(* Steps of the client and of the orchestrator.                            *)

LEMMA Reported == Chat!Completed = {s \in req.sources : Said(events, s)}
BY DEF Chat!Completed, Said

(* One more event, sent if there is a stream.                              *)
LEMMA Emitted ==
    ASSUME NEW n \in Nat, Good(events, n), ~Chat!Streaming => events = <<>>,
           NEW m \in Nat, NEW e \in Chat!Event, Chat!Rank(e) <= m, MayFollow(events, n, e),
           Chat!Emit(<<e>>), UNCHANGED req
    PROVE  /\ Good(events', m)
           /\ Fifth(events') => Fifth(events) \/ (Chat!Streaming /\ Chat!Rank(e) = 5)
           /\ \A s : Said(events', s) <=>
                Said(events, s) \/ (Chat!Streaming /\ e = <<"source_complete", s>>)
           /\ ~Chat!Streaming' => events' = <<>>
<1>0. Chat!Streaming' = Chat!Streaming
  BY DEF Chat!Streaming
<1>1. CASE Chat!Streaming
  <2>1. events' = events \o <<e>>
    BY <1>1 DEF Chat!Emit
  <2>2. Chat!Rank(e) \in Nat
    BY EventFacts
  <2>3. Good(events', Chat!Rank(e))
    BY <2>1, AppendOne
  <2>4. Good(events', m)
    BY <2>2, <2>3, Later
  <2> QED BY <1>0, <1>1, <2>1, <2>4, AppendOne
<1>2. CASE ~Chat!Streaming
  BY <1>0, <1>2, Empty DEF Chat!Emit
<1> QED BY <1>1, <1>2

LEMMA PhaseNat == Chat!TypeOK => Phase \in Nat
BY DEF Phase, Chat!TypeOK

(* A step that leaves every call as it is.                                 *)
LEMMA CallsKept ==
    ASSUME Paid, UNCHANGED <<req, query, payments, unsettled>>
    PROVE  Paid'
BY DuesKept DEF Paid, PaidOf, Chat!Plain, Chat!Tunnelled

LEMMA ClientKeeps ==
    ASSUME ChatIInv, Chat!Complete \/ Chat!Retrieve \/ Chat!Stream \/ Chat!ClientLeaves
    PROVE  ChatIInv'
<1>1. /\ UNCHANGED <<req, pc, query, result, payments, unsettled, events, answer>>
      /\ client' \in {"gone", "answered", "raised"} /\ client # "preparing"
  BY DEF Chat!Complete, Chat!Retrieve, Chat!Stream, Chat!Receive, Chat!ClientLeaves
<1>2. Chat!TypeOK'
  BY <1>1 DEF ChatIInv, Chat!TypeOK
<1>3. NothingSent' /\ Phased' /\ ModelQuiet'
  BY <1>1 DEF ChatIInv, NothingSent, Phased, ModelQuiet, Chat!Streaming, Good, Ordered, Fifth,
              Phase, Chat!Completed
<1>4. Retrieved'
  BY <1>1 DEF ChatIInv, Retrieved, PastRetrieval, Chat!Refused, Chat!Completed, Chat!Streaming
<1>5. Paid'
  BY <1>1, CallsKept DEF ChatIInv
<1> QED BY <1>2, <1>3, <1>4, <1>5 DEF ChatIInv

LEMMA PrepareKeeps ==
    ASSUME ChatIInv, Chat!PrepareFails
    PROVE  ChatIInv'
<1>1. /\ client = "preparing" /\ client' = "raised" /\ pc' = "over"
      /\ UNCHANGED <<req, query, result, payments, unsettled, events, answer>>
  BY DEF Chat!PrepareFails
<1>2. /\ events = <<>> /\ answer = Chat!NoneYet
      /\ \A e \in Chat!Endpoints : query[e] = Chat!Idle /\ Chat!Due(e) = 0
  BY <1>1 DEF ChatIInv, NothingSent
<1>3. Chat!TypeOK'
  BY <1>1 DEF ChatIInv, Chat!TypeOK
<1>4. NothingSent' /\ ModelQuiet'
  BY <1>1, <1>2, Endings DEF NothingSent, ModelQuiet, Chat!Idle, Chat!Quiet
<1>5. Retrieved'
  <2>1. query'[Model].at = "idle" /\ answer'.kind = "none"
    BY <1>1, <1>2, Endings DEF Chat!Idle, Chat!NoneYet
  <2> QED BY <1>1, <2>1 DEF Retrieved, PastRetrieval
<1>6. Phased'
  <2>1. Phase' \in Nat
    BY <1>3, PhaseNat, <1>1 DEF Phase
  <2> QED BY <1>1, <1>2, <2>1, Empty DEF Phased
<1>7. Paid'
  BY <1>1, CallsKept DEF ChatIInv
<1> QED BY <1>3, <1>4, <1>5, <1>6, <1>7 DEF ChatIInv

LEMMA StartKeeps ==
    ASSUME ChatIInv, Chat!StartChat
    PROVE  ChatIInv'
<1> DEFINE asked == [Chat!Idle EXCEPT !.at = "asked"]
<1>1. /\ client = "preparing" /\ client' = "waiting" /\ pc' = "retrieving"
      /\ query' = [e \in Chat!Endpoints |-> IF e \in req.sources THEN asked ELSE Chat!Idle]
      /\ Chat!Emit(<< <<"retrieval_start">> >>)
      /\ UNCHANGED <<req, result, payments, unsettled, answer>>
  BY DEF Chat!StartChat
<1>2. /\ events = <<>> /\ answer = Chat!NoneYet /\ pc = "idle"
      /\ \A e \in Chat!Endpoints : query[e] = Chat!Idle /\ Chat!Due(e) = 0
  BY <1>1 DEF ChatIInv, NothingSent
<1>3. asked = [at |-> "asked", try |-> 0] /\ asked \in QueryState /\ Chat!Idle \in QueryState
  BY Endings DEF Chat!Idle, QueryState, Chat!Places
<1>4. <<"retrieval_start">> \in Chat!Event
  BY DEF Chat!Event
<1>5. /\ Good(events', 2) /\ ~Fifth(events')
      /\ ~Chat!Streaming' => events' = <<>>
  <2>1. Good(events, 0) /\ ~Fifth(events)
    BY <1>2, Empty
  <2>2. MayFollow(events, 0, <<"retrieval_start">>)
    BY Ranks DEF MayFollow
  <2>3. Chat!Rank(<<"retrieval_start">>) = 1
    BY Ranks
  <2> QED BY <1>1, <1>2, <1>4, <2>1, <2>2, <2>3, Emitted
<1>6. Chat!TypeOK'
  <2>1. query' \in [Chat!Endpoints -> QueryState]
    BY <1>1, <1>3
  <2>2. events' \in Seq(Chat!Event)
    BY <1>5 DEF Good
  <2> QED BY <1>1, <2>1, <2>2 DEF ChatIInv, Chat!TypeOK, QueryState
<1>7. query'[Model] = Chat!Idle /\ Model \notin req.sources
  BY <1>1, Endings DEF ChatIInv, Chat!TypeOK, Chat!AnyRequest
<1>8. NothingSent' /\ ModelQuiet'
  BY <1>1, <1>5 DEF NothingSent, ModelQuiet
<1>9. Retrieved'
  BY <1>1, <1>2, <1>7 DEF Retrieved, PastRetrieval, Chat!Idle, Chat!NoneYet
<1>10. Phased'
  <2>1. Phase' = 2
    BY <1>1 DEF Phase
  <2> QED BY <1>5, <2>1 DEF Phased
<1>11. Paid'
  <2>1. \A e \in Chat!Endpoints : /\ Chat!Due(e)' = 0
                                  /\ query'[e].at \in {"idle", "asked"} /\ query'[e].try = 0
    BY <1>1, <1>2, <1>3, DuesKept DEF Chat!Idle
  <2>2. \A e \in Chat!Endpoints : PaidOf(e, query'[e], Chat!Due(e)')
    BY <2>1 DEF PaidOf
  <2> QED BY <1>1, <2>2 DEF Paid, PaidOf, Chat!Plain, Chat!Tunnelled
<1> QED BY <1>6, <1>8, <1>9, <1>10, <1>11 DEF ChatIInv

LEMMA TearDownKeeps ==
    ASSUME ChatIInv, Chat!TearDown
    PROVE  ChatIInv'
<1> DEFINE at == IF query[Model].at \in Chat!Quiet THEN query[Model].at ELSE "cancelled"
<1>1. /\ client = "gone" /\ pc' = "over" /\ query' = [query EXCEPT ![Model].at = at]
      /\ unsettled' = IF query[Model].at = "wallet" THEN unsettled \cup {Model} ELSE unsettled
      /\ UNCHANGED <<req, client, result, payments, events, answer>>
  BY DEF Chat!TearDown, Chat!CancelGeneration
<1>2. at \in Chat!Quiet /\ at \in Chat!Places /\ (at = "idle" <=> query[Model].at = "idle")
  BY Endings DEF Chat!Quiet, Chat!Places
<1>3. /\ query' \in [Chat!Endpoints -> QueryState]
      /\ query'[Model] = [at |-> at, try |-> query[Model].try]
      /\ \A f \in Chat!Endpoints \ {Model} : query'[f] = query[f]
  BY <1>1, <1>2, Endings, CallSet DEF ChatIInv
<1>4. Chat!TypeOK'
  BY <1>1, <1>3, Endings DEF ChatIInv, Chat!TypeOK, QueryState
<1>5. NothingSent' /\ ModelQuiet'
  BY <1>1, <1>2, <1>3 DEF ChatIInv, NothingSent, ModelQuiet, Chat!Streaming
<1>6. Retrieved'
  <2>1. PastRetrieval' => PastRetrieval
    BY <1>1, <1>2, <1>3 DEF PastRetrieval
  <2>2. \A s \in req.sources : query'[s] = query[s]
    BY <1>3, Endings DEF ChatIInv, Chat!TypeOK, Chat!AnyRequest
  <2> QED BY <1>1, <2>1, <2>2 DEF ChatIInv, Retrieved, Chat!Refused, Chat!Completed,
                              Chat!Streaming
<1>7. Phased'
  <2>1. Phase' = 9 /\ Phase \in Nat /\ Phase <= 9
    BY <1>1 DEF Phase, ChatIInv, Chat!TypeOK
  <2>2. Good(events', 9)
    BY <1>1, <2>1, Later DEF ChatIInv, Phased
  <2> QED BY <1>1, <2>1, <2>2 DEF ChatIInv, Phased, Chat!Completed, Fifth
<1>8. Paid'
  <2>1. /\ \A e \in Chat!Endpoints \ {Model} : Chat!Due(e)' = Chat!Due(e)
        /\ Chat!Due(Model)' \in Nat /\ Chat!Due(Model)' <= Chat!Due(Model) + 1
        /\ query[Model].at # "wallet" => Chat!Due(Model)' = Chat!Due(Model)
    BY <1>1, Typed, Endings DEF ChatIInv, Chat!Due
  <2>3. PaidOf(Model, [at |-> at, try |-> query[Model].try], Chat!Due(Model)')
    BY <1>2, <2>1, Typed, Endings DEF ChatIInv, Paid, PaidOf, Chat!Quiet
  <2>2. \A e \in Chat!Endpoints : PaidOf(e, query'[e], Chat!Due(e)')
    BY <1>3, <2>1, <2>3 DEF ChatIInv, Paid
  <2> QED BY <1>1, <2>2 DEF Paid, PaidOf, Chat!Plain, Chat!Tunnelled
<1> QED BY <1>4, <1>5, <1>6, <1>7, <1>8 DEF ChatIInv

AnswerState == [kind : {"none", "done", "failed", "denied", "crashed"},
                billing : SUBSET Chat!Endpoints]

(* A step of the orchestrator that touches no call and reports no end of   *)
(* the retrieval.                                                          *)
LEMMA Advances ==
    ASSUME ChatIInv, pc # "idle", UNCHANGED <<req, client, query, result, payments, unsettled>>,
           pc' \in {"retrieving", "ranking", "generating", "over"}, answer' \in AnswerState,
           Good(events', Phase'), ~Chat!Streaming => events' = <<>>,
           Fifth(events') => Fifth(events), \A s : Said(events, s) => Said(events', s),
           Chat!Streaming /\ PastRetrieval' =>
             PastRetrieval \/ (Chat!AllAnswered /\ Chat!Refused = {}),
           pc' \in {"retrieving", "ranking"} => query[Model].at = "idle",
           Chat!Streaming /\ pc' = "over" => query[Model].at \in Chat!Quiet
    PROVE  ChatIInv'
<1>1. Chat!TypeOK'
  <2>1. events' \in Seq(Chat!Event)
    BY DEF Good
  <2> QED BY <2>1 DEF ChatIInv, Chat!TypeOK, AnswerState
<1>2. Chat!Streaming' = Chat!Streaming
  BY DEF Chat!Streaming
<1>3. NothingSent' /\ ModelQuiet'
  BY <1>2 DEF ChatIInv, NothingSent, ModelQuiet
<1>4. Chat!Completed = req.sources => Chat!Completed' = req'.sources
  BY Reported DEF Chat!Completed, Said
<1>5. Retrieved'
  <2>1. ASSUME Chat!Streaming, PastRetrieval'
        PROVE  /\ \A s \in req.sources : query[s].at = "over"
               /\ Chat!Refused = {} /\ Chat!Completed = req.sources
    BY <2>1 DEF ChatIInv, Retrieved, Chat!AllAnswered
  <2>2. Chat!Refused' = Chat!Refused
    BY DEF Chat!Refused
  <2> QED BY <1>2, <1>4, <2>1, <2>2 DEF Retrieved
<1>6. Phased'
  BY <1>4 DEF ChatIInv, Phased
<1>7. Paid'
  BY CallsKept DEF ChatIInv
<1> QED BY <1>1, <1>3, <1>5, <1>6, <1>7 DEF ChatIInv

(* And one that sends an event of the phase it is in or enters.            *)
LEMMA OneEvent ==
    ASSUME ChatIInv, NEW e \in Chat!Event, Chat!Emit(<<e>>), UNCHANGED req, Chat!Rank(e) # 5,
           MayFollow(events, Phase, e), Phase' \in Nat, Chat!Rank(e) <= Phase'
    PROVE  /\ Good(events', Phase') /\ (~Chat!Streaming => events' = <<>>)
           /\ Fifth(events') => Fifth(events)
           /\ \A s : Said(events, s) => Said(events', s)
<1>1. /\ Good(events, Phase) /\ Phase \in Nat
      /\ ~Chat!Streaming => events = <<>>
  BY PhaseNat DEF ChatIInv, Phased, NothingSent
<1>2. Chat!Streaming' = Chat!Streaming
  BY DEF Chat!Streaming
<1> DEFINE n == Phase
           m == Phase'
<1>3. n \in Nat /\ m \in Nat /\ Good(events, n) /\ Chat!Rank(e) <= m /\ MayFollow(events, n, e)
  BY <1>1
<1> HIDE DEF n, m
<1>4. /\ Good(events', m)
      /\ Fifth(events') => Fifth(events) \/ (Chat!Streaming /\ Chat!Rank(e) = 5)
      /\ \A s : Said(events', s) <=>
           Said(events, s) \/ (Chat!Streaming /\ e = <<"source_complete", s>>)
      /\ ~Chat!Streaming' => events' = <<>>
  BY <1>1, <1>3, Emitted
<1> QED BY <1>2, <1>4 DEF m

LEMMA SourceKeeps ==
    ASSUME ChatIInv, NEW s \in Sources, Chat!SourceComplete(s)
    PROVE  ChatIInv'
<1>1. /\ pc = "retrieving" /\ Chat!Streaming /\ s \notin Chat!Completed /\ s \in req.sources
      /\ Chat!Emit(<< <<"source_complete", s>> >>)
      /\ UNCHANGED <<req, client, pc, query, result, payments, unsettled, answer>>
  BY DEF Chat!SourceComplete
<1> DEFINE e == <<"source_complete", s>>
<1>2. e \in Chat!Event /\ Chat!Rank(e) = 2 /\ Phase = 2 /\ Phase' = 2
  BY <1>1, Ranks DEF Chat!Event, Phase
<1>3. MayFollow(events, 2, e)
  BY <1>1, <1>2 DEF MayFollow, Chat!Completed
<1> HIDE DEF e
<1>4. /\ Good(events', Phase') /\ (~Chat!Streaming => events' = <<>>)
      /\ Fifth(events') => Fifth(events)
      /\ \A t : Said(events, t) => Said(events', t)
  BY <1>1, <1>2, <1>3, OneEvent DEF e
<1>5. PastRetrieval' <=> PastRetrieval
  BY <1>1 DEF PastRetrieval
<1>6. answer' \in AnswerState /\ query[Model].at = "idle"
  BY <1>1 DEF AnswerState, ChatIInv, Chat!TypeOK, Retrieved
<1> QED BY <1>1, <1>4, <1>5, <1>6, Advances

LEMMA AbortKeeps ==
    ASSUME ChatIInv, Chat!AbortOnRefusal
    PROVE  ChatIInv'
<1>1. /\ pc = "retrieving" /\ pc' = "over" /\ Chat!Emit(<< <<"error">> >>)
      /\ answer' = [kind |-> "denied", billing |-> {}]
      /\ UNCHANGED <<req, client, query, result, payments, unsettled>>
  BY DEF Chat!AbortOnRefusal, Chat!End
<1>2. <<"error">> \in Chat!Event /\ Chat!Rank(<<"error">>) = 9 /\ Phase = 2 /\ Phase' = 9
  BY <1>1, Ranks DEF Chat!Event, Phase
<1>3. MayFollow(events, 2, <<"error">>)
  BY <1>2 DEF MayFollow
<1>4. /\ Good(events', Phase') /\ (~Chat!Streaming => events' = <<>>)
      /\ Fifth(events') => Fifth(events)
      /\ \A t : Said(events, t) => Said(events', t)
  BY <1>1, <1>2, <1>3, OneEvent
<1>5. answer' \in AnswerState /\ query[Model].at = "idle"
  BY <1>1 DEF AnswerState, ChatIInv, Retrieved
<1>6. ~PastRetrieval'
  BY <1>1, <1>5 DEF PastRetrieval
<1> QED BY <1>1, <1>4, <1>5, <1>6, Advances DEF Chat!Quiet

LEMMA RankingKeeps ==
    ASSUME ChatIInv, Chat!StartRanking
    PROVE  ChatIInv'
<1>1. /\ pc = "retrieving" /\ pc' = "ranking" /\ Chat!Emit(<< <<"reranking_start">> >>)
      /\ Chat!AllAnswered /\ ~Chat!Aborts
      /\ UNCHANGED <<req, client, query, result, payments, unsettled, answer>>
  BY DEF Chat!StartRanking
<1>2. /\ <<"reranking_start">> \in Chat!Event /\ Chat!Rank(<<"reranking_start">>) = 3
      /\ Phase = 2 /\ Phase' = 3
  BY <1>1, Ranks DEF Chat!Event, Phase
<1>3. MayFollow(events, 2, <<"reranking_start">>)
  BY <1>2 DEF MayFollow
<1>4. /\ Good(events', Phase') /\ (~Chat!Streaming => events' = <<>>)
      /\ Fifth(events') => Fifth(events)
      /\ \A t : Said(events, t) => Said(events', t)
  BY <1>1, <1>2, <1>3, OneEvent
<1>5. answer' \in AnswerState /\ query[Model].at = "idle"
  BY <1>1 DEF AnswerState, ChatIInv, Chat!TypeOK, Retrieved
<1>6. Chat!Streaming => Chat!AllAnswered /\ Chat!Refused = {}
  BY <1>1 DEF Chat!Aborts
<1> QED BY <1>1, <1>4, <1>5, <1>6, Advances

LEMMA HeartbeatKeeps ==
    ASSUME ChatIInv, Chat!Heartbeat
    PROVE  ChatIInv'
<1>1. /\ pc = "generating" /\ pc' = "generating" /\ req.mode = "stream"
      /\ Chat!Emit(<< <<"generation_heartbeat">> >>)
      /\ UNCHANGED <<req, client, query, result, payments, unsettled, answer>>
  BY DEF Chat!Heartbeat
<1>2. /\ <<"generation_heartbeat">> \in Chat!Event /\ Chat!Rank(<<"generation_heartbeat">>) = 7
      /\ Phase = 7 /\ Phase' = 7
  BY <1>1, Ranks DEF Chat!Event, Phase
<1>3. MayFollow(events, 7, <<"generation_heartbeat">>)
  BY <1>2 DEF MayFollow
<1>4. /\ Good(events', Phase') /\ (~Chat!Streaming => events' = <<>>)
      /\ Fifth(events') => Fifth(events)
      /\ \A t : Said(events, t) => Said(events', t)
  BY <1>1, <1>2, <1>3, OneEvent
<1>5. answer' \in AnswerState /\ PastRetrieval
  BY <1>1 DEF AnswerState, ChatIInv, Chat!TypeOK, PastRetrieval
<1> QED BY <1>1, <1>4, <1>5, Advances

LEMMA ChunkKeeps ==
    ASSUME ChatIInv, Chat!Chunk
    PROVE  ChatIInv'
<1>1. /\ pc = "generating" /\ pc' = "generating" /\ query[Model].at = "chunks"
      /\ Chat!Emit(<< <<"token">> >>)
      /\ UNCHANGED <<req, client, query, result, payments, unsettled, answer>>
  BY DEF Chat!Chunk
<1>2. req.mode = "tokens"
  BY <1>1, Endings DEF ChatIInv, Paid, PaidOf, Chat!Plain
<1>3. <<"token">> \in Chat!Event /\ Chat!Rank(<<"token">>) = 8 /\ Phase = 8 /\ Phase' = 8
  BY <1>1, <1>2, Ranks DEF Chat!Event, Phase
<1>4. MayFollow(events, 8, <<"token">>)
  BY <1>3 DEF MayFollow
<1>5. /\ Good(events', Phase') /\ (~Chat!Streaming => events' = <<>>)
      /\ Fifth(events') => Fifth(events)
      /\ \A t : Said(events, t) => Said(events', t)
  BY <1>1, <1>3, <1>4, OneEvent
<1>6. answer' \in AnswerState /\ PastRetrieval
  BY <1>1 DEF AnswerState, ChatIInv, Chat!TypeOK, PastRetrieval
<1> QED BY <1>1, <1>5, <1>6, Advances

LEMMA RetrievalKeeps ==
    ASSUME ChatIInv, Chat!RetrievalOnly
    PROVE  ChatIInv'
<1>1. /\ pc = "retrieving" /\ pc' = "over" /\ Chat!Emit(<<>>) /\ req.mode = "retrieve"
      /\ answer' = [kind |-> "done", billing |-> Chat!Charged(req.sources)]
      /\ UNCHANGED <<req, client, query, result, payments, unsettled>>
  BY DEF Chat!RetrievalOnly, Chat!End
<1>2. ~Chat!Streaming /\ events = <<>> /\ events' = <<>> /\ Phase' = 9
  BY <1>1 DEF Chat!Streaming, Chat!Emit, ChatIInv, NothingSent, Phase
<1>3. answer' \in AnswerState
  BY <1>1, Endings DEF AnswerState, Chat!Charged, ChatIInv, Chat!TypeOK, Chat!AnyRequest
<1> QED BY <1>1, <1>2, <1>3, Empty, Advances

LEMMA BillingTyped == Chat!TypeOK => Chat!Billing \in SUBSET Chat!Endpoints
BY Endings DEF Chat!TypeOK, Chat!AnyRequest, Chat!Billing, Chat!Charged

(* The end of the generation.                                              *)
LEMMA ChatEndKeeps ==
    ASSUME ChatIInv, Chat!FinishChat
    PROVE  ChatIInv'
<1>1. /\ pc = "generating" /\ query[Model].at = "over" /\ ~Chat!Streaming
      /\ UNCHANGED <<req, client, query, result, payments, unsettled>>
  BY DEF Chat!FinishChat, Chat!Generated
<1>2. PICK kind \in {"done", "failed", "crashed"}, billing \in {Chat!Billing, {}} :
        Chat!End(kind, billing, <<>>)
  BY DEF Chat!FinishChat
<1>3. pc' = "over" /\ answer' \in AnswerState
  BY <1>2, BillingTyped DEF Chat!End, AnswerState, ChatIInv
<1>4. events = <<>> /\ events' = <<>> /\ Phase' = 9
  BY <1>1, <1>2 DEF ChatIInv, NothingSent, Chat!Emit, Chat!End, Phase
<1> QED BY <1>1, <1>3, <1>4, Empty, Advances

LEMMA TwoAppended ==
    ASSUME NEW es \in Seq(Chat!Event), NEW d \in Chat!Event, NEW e \in Chat!Event
    PROVE  /\ <<d>> \o <<e>> = <<d, e>> /\ <<>> \o <<d, e>> = <<d, e>> /\ <<>> \o <<e>> = <<e>>
           /\ es \o (<<d>> \o <<e>>) = (es \o <<d>>) \o <<e>>
<1>1. <<d>> \in Seq(Chat!Event) /\ <<e>> \in Seq(Chat!Event) /\ <<d, e>> \in Seq(Chat!Event)
  OBVIOUS
<1>2. <<>> \o <<d, e>> = <<d, e>> /\ <<>> \o <<e>> = <<e>>
  BY <1>1, ConcatEmptySeq
<1>3. es \o (<<d>> \o <<e>>) = (es \o <<d>>) \o <<e>>
  BY <1>1, ConcatAssociative
<1>4. <<d>> \o <<e>> = <<d, e>>
  <2>1. Len(<<d>>) = 1 /\ Len(<<e>>) = 1 /\ Len(<<d, e>>) = 2
    OBVIOUS
  <2>2. /\ <<d>> \o <<e>> \in Seq(Chat!Event) /\ Len(<<d>> \o <<e>>) = 2
        /\ (<<d>> \o <<e>>)[1] = d /\ (<<d>> \o <<e>>)[2] = e
    BY <1>1, <2>1, ConcatProperties
  <2>3. <<d, e>>[1] = d /\ <<d, e>>[2] = e
    OBVIOUS
  <2>4. \A i \in 1..2 : (<<d>> \o <<e>>)[i] = <<d, e>>[i]
    BY <2>2, <2>3
  <2> QED BY <1>1, <2>1, <2>2, <2>4, SeqEqual
<1> QED BY <1>2, <1>3, <1>4

LEMMA StreamEndKeeps ==
    ASSUME ChatIInv, Chat!FinishStream
    PROVE  ChatIInv'
<1>1. /\ pc = "generating" /\ query[Model].at = "over" /\ Chat!Streaming
      /\ UNCHANGED <<req, client, query, result, payments, unsettled>>
  BY DEF Chat!FinishStream, Chat!Generated
<1>2. PICK kind \in {"done", "failed", "crashed"}, billing \in {Chat!Billing, {}},
           new \in {<<>>, << <<"error">> >>, Chat!LastToken \o << <<"done">> >>} :
        Chat!End(kind, billing, new)
  BY DEF Chat!FinishStream
<1>3. pc' = "over" /\ answer' \in AnswerState /\ events' = events \o new
  BY <1>1, <1>2, BillingTyped DEF Chat!End, AnswerState, ChatIInv, Chat!Emit
<1>4. /\ <<"error">> \in Chat!Event /\ <<"done">> \in Chat!Event /\ <<"token">> \in Chat!Event
      /\ Chat!Rank(<<"error">>) = 9 /\ Chat!Rank(<<"done">>) = 9 /\ Chat!Rank(<<"token">>) = 8
      /\ Phase' = 9
  BY <1>3, Ranks DEF Chat!Event, Phase
<1>5. /\ Good(events, Phase) /\ Phase \in {7, 8}
      /\ req.mode = "stream" => Phase = 7
  BY <1>1 DEF ChatIInv, Phased, Phase
<1> DEFINE Ends == /\ Good(events', 9) /\ (Fifth(events') => Fifth(events))
                   /\ \A s : Said(events, s) => Said(events', s)
<1>6. Ends
  <2>1. CASE new = <<>>
    <3>1. events' = events
      BY <1>3, <1>5, <2>1 DEF Good
    <3> QED BY <1>5, <3>1, Later
  <2>2. ASSUME NEW e \in {<<"error">>, <<"done">>}, new = <<e>>
        PROVE  Ends
    <3>1. MayFollow(events, Phase, e) /\ e \in Chat!Event /\ Chat!Rank(e) = 9
      BY <1>4, <1>5, <2>2 DEF MayFollow
    <3> QED BY <1>3, <1>5, <2>2, <3>1, AppendOne
  <2>3. CASE req.mode = "stream" /\ new = << <<"token">> >> \o << <<"done">> >>
    <3> DEFINE es == events \o << <<"token">> >>
    <3>1. MayFollow(events, 7, <<"token">>)
      BY <1>4 DEF MayFollow
    <3>2. /\ Good(es, 8) /\ (Fifth(es) => Fifth(events))
          /\ \A s : Said(events, s) => Said(es, s)
      BY <1>4, <1>5, <2>3, <3>1, AppendOne
    <3>3. events' = es \o << <<"done">> >>
      BY <1>3, <1>4, <1>5, <2>3, TwoAppended DEF Good
    <3> HIDE DEF es
    <3>4. MayFollow(es, 8, <<"done">>)
      BY <1>4 DEF MayFollow
    <3>5. /\ Good(events', 9) /\ (Fifth(events') => Fifth(es))
          /\ \A s : Said(es, s) => Said(events', s)
      BY <1>4, <3>2, <3>3, <3>4, AppendOne
    <3> QED BY <3>2, <3>5
  <2>4. events \in Seq(Chat!Event)
    BY <1>5 DEF Good
  <2>5. <<>> \o << <<"done">> >> = << <<"done">> >>
    BY <1>4, <2>4, TwoAppended
  <2> QED BY <1>2, <2>1, <2>2, <2>3, <2>5 DEF Chat!LastToken
<1> QED BY <1>1, <1>3, <1>4, <1>6, Advances DEF PastRetrieval, Chat!Quiet

LEMMA GenerationEvents ==
    ASSUME NEW n \in {2, 3}, Good(events, n), Chat!Streaming,
           NEW first \in {<<>>, << <<"reranking_complete">> >>},
           Chat!Emit(first \o << <<"retrieval_complete">>, <<"generation_start">> >>)
    PROVE  Good(events', 6) /\ \A s : Said(events, s) => Said(events', s)
<1> DEFINE r == <<"reranking_complete">>
           c == <<"retrieval_complete">>
           g == <<"generation_start">>
           es == events \o first
           fs == es \o <<c>>
<1>1. /\ r \in Chat!Event /\ c \in Chat!Event /\ g \in Chat!Event
      /\ Chat!Rank(r) = 4 /\ Chat!Rank(c) = 5 /\ Chat!Rank(g) = 6
  BY Ranks DEF Chat!Event
<1> HIDE DEF r, c, g
<1>2. /\ events \in Seq(Chat!Event) /\ first \in Seq(Chat!Event)
      /\ <<c>> \in Seq(Chat!Event) /\ <<g>> \in Seq(Chat!Event)
      /\ <<c>> \o <<g>> = <<c, g>>
  BY <1>1, TwoAppended DEF Good, r
<1>3. Good(es, 4) /\ \A s : Said(events, s) => Said(es, s)
  <2>1. CASE first = <<>>
    <3>1. es = events
      BY <1>2, <2>1, ConcatEmptySeq
    <3> QED BY <3>1, Later
  <2>2. CASE first = <<r>>
    <3>1. MayFollow(events, n, r)
      BY <1>1 DEF MayFollow
    <3> QED BY <1>1, <2>2, <3>1, AppendOne
  <2> QED BY <2>1, <2>2 DEF r
<1>4. es \in Seq(Chat!Event)
  BY <1>3 DEF Good
<1>5. events' = fs \o <<g>>
  <2>1. events' = events \o (first \o <<c, g>>)
    BY DEF Chat!Emit, c, g
  <2>2. events \o (first \o <<c, g>>) = es \o <<c, g>>
    BY <1>1, <1>2, ConcatAssociative
  <2>3. es \o (<<c>> \o <<g>>) = fs \o <<g>>
    BY <1>1, <1>4, TwoAppended
  <2> QED BY <1>2, <2>1, <2>2, <2>3
<1> HIDE DEF es
<1>6. Good(fs, 5) /\ \A s : Said(es, s) => Said(fs, s)
  <2>1. MayFollow(es, 4, c)
    BY <1>1 DEF MayFollow
  <2> QED BY <1>1, <1>3, <2>1, AppendOne
<1> HIDE DEF fs
<1>7. Good(events', 6) /\ \A s : Said(fs, s) => Said(events', s)
  <2>1. MayFollow(fs, 5, g)
    BY <1>1 DEF MayFollow
  <2> QED BY <1>1, <1>5, <1>6, <2>1, AppendOne
<1> QED BY <1>3, <1>6, <1>7

LEMMA GenerationKeeps ==
    ASSUME ChatIInv, Chat!StartGeneration
    PROVE  ChatIInv'
<1> DEFINE at == IF ~Chat!Plain(Model) /\ req.user THEN "probing" ELSE "asked"
           first == IF pc = "ranking" THEN << <<"reranking_complete">> >> ELSE <<>>
<1>1. /\ pc \in {"retrieving", "ranking"} /\ pc' = "generating"
      /\ pc = "retrieving" => Chat!AllAnswered /\ ~Chat!Aborts
      /\ Chat!Emit(first \o << <<"retrieval_complete">>, <<"generation_start">> >>)
      /\ UNCHANGED <<req, client, answer>>
      /\ \/ /\ query' = [query EXCEPT ![Model].at = at]
            /\ UNCHANGED <<result, payments, unsettled>>
         \/ Chat!Tunnelled(Model) /\ Chat!Plain(Model) /\ Chat!Settle(Model, "error", "none", FALSE)
  BY DEF Chat!StartGeneration
<1>2. query[Model].at = "idle" /\ client # "preparing"
  BY <1>1 DEF ChatIInv, Retrieved, NothingSent
<1>3. Chat!Streaming' = Chat!Streaming
  BY <1>1 DEF Chat!Streaming
<1>4. /\ query' \in [Chat!Endpoints -> QueryState] /\ result' \in [Chat!Endpoints -> ResultState]
      /\ \A f \in Chat!Endpoints \ {Model} : query'[f] = query[f] /\ result'[f] = result[f]
      /\ UNCHANGED <<payments, unsettled>> /\ query'[Model].try = query[Model].try
      /\ \/ query'[Model].at = at
         \/ query'[Model].at = "over" /\ Chat!Tunnelled(Model) /\ Chat!Plain(Model)
  <2>1. CASE query' = [query EXCEPT ![Model].at = at] /\ UNCHANGED <<result, payments, unsettled>>
    <3>1. at \in Chat!Places
      BY DEF Chat!Places
    <3>2. /\ query' \in [Chat!Endpoints -> QueryState]
          /\ query'[Model] = [at |-> at, try |-> query[Model].try]
          /\ \A f \in Chat!Endpoints \ {Model} : query'[f] = query[f]
      BY <2>1, <3>1, CallSet, Endings DEF ChatIInv
    <3> QED BY <2>1, <3>2, Typed, Endings DEF ChatIInv
  <2>2. CASE /\ Chat!Tunnelled(Model) /\ Chat!Plain(Model)
             /\ Chat!Settle(Model, "error", "none", FALSE)
    <3>1. Chat!TypeOK /\ Model \in Chat!Endpoints /\ "error" \in Chat!Statuses
      BY Endings DEF ChatIInv, Chat!Statuses
    <3>2. /\ query' \in [Chat!Endpoints -> QueryState]
          /\ result' \in [Chat!Endpoints -> ResultState]
          /\ query'[Model] = [at |-> "over", try |-> query[Model].try]
          /\ \A f \in Chat!Endpoints \ {Model} : query'[f] = query[f] /\ result'[f] = result[f]
          /\ UNCHANGED <<payments, unsettled>>
      BY <2>2, <3>1, Settles
    <3> QED BY <2>2, <3>2
  <2> QED BY <1>1, <2>1, <2>2
<1>5. Chat!Streaming => /\ \A s \in req.sources : query[s].at = "over"
                        /\ Chat!Refused = {} /\ Chat!Completed = req.sources
  BY <1>1 DEF Chat!AllAnswered, Chat!Aborts, ChatIInv, Retrieved, PastRetrieval
<1>6. /\ Good(events', Phase') /\ (~Chat!Streaming => events' = <<>>)
      /\ \A s : Said(events, s) => Said(events', s)
  <2>1. CASE ~Chat!Streaming
    <3>1. events = <<>> /\ events' = <<>> /\ Phase' \in Nat
      BY <1>1, <2>1 DEF Chat!Emit, ChatIInv, NothingSent, Phase
    <3> QED BY <3>1, Empty
  <2>2. CASE Chat!Streaming
    <3>1. Phase \in {2, 3} /\ Good(events, Phase) /\ Phase' \in {7, 8}
      BY <1>1 DEF ChatIInv, Phased, Phase
    <3>2. first \in {<<>>, << <<"reranking_complete">> >>}
      OBVIOUS
    <3>3. Good(events', 6) /\ \A s : Said(events, s) => Said(events', s)
      BY <1>1, <2>2, <3>1, <3>2, GenerationEvents
    <3> QED BY <2>2, <3>1, <3>3, Later
  <2> QED BY <2>1, <2>2
<1>7. Chat!Streaming => Chat!Completed' = req'.sources
  BY <1>1, <1>5, <1>6, Reported DEF Chat!Completed, Said
<1>8. Chat!TypeOK'
  <2>1. events' \in Seq(Chat!Event)
    BY <1>6 DEF Good
  <2> QED BY <1>1, <1>4, <2>1 DEF ChatIInv, Chat!TypeOK, QueryState, ResultState
<1>9. NothingSent' /\ ModelQuiet'
  BY <1>1, <1>2, <1>3, <1>6 DEF NothingSent, ModelQuiet
<1>10. Retrieved'
  <2>1. \A s \in req.sources : query'[s] = query[s] /\ result'[s] = result[s]
    BY <1>4, Endings DEF ChatIInv, Chat!TypeOK, Chat!AnyRequest
  <2>2. Chat!Refused' = Chat!Refused
    BY <1>1, <2>1 DEF Chat!Refused
  <2> QED BY <1>1, <1>3, <1>5, <1>7, <2>1, <2>2 DEF Retrieved
<1>11. Phased'
  <2>1. ~Chat!Streaming => ~Fifth(events')
    BY <1>6, Empty
  <2> QED BY <1>6, <1>7, <2>1 DEF Phased
<1>12. Paid'
  <2>1. PaidOf(Model, query[Model], Chat!Due(Model))
    BY Endings DEF ChatIInv, Paid
  <2>4. \A e \in Chat!Endpoints : Chat!Due(e)' = Chat!Due(e)
    BY <1>4, DuesKept
  <2>2. PaidOf(Model, query'[Model], Chat!Due(Model)')
    BY <1>2, <1>4, <2>1, <2>4, Typed, Endings DEF PaidOf, ChatIInv
  <2>3. \A e \in Chat!Endpoints : PaidOf(e, query'[e], Chat!Due(e)')
    BY <1>4, <2>2, <2>4 DEF ChatIInv, Paid
  <2> QED BY <1>1, <2>3 DEF Paid, PaidOf, Chat!Plain, Chat!Tunnelled
<1> QED BY <1>8, <1>9, <1>10, <1>11, <1>12 DEF ChatIInv

-----------------------------------------------------------------------------
(* The theorems.                                                           *)

LEMMA ChatFirst == Chat!Init => ChatIInv
<1> SUFFICES ASSUME Chat!Init PROVE ChatIInv
  OBVIOUS
<1>1. /\ client = "preparing" /\ pc = "idle" /\ events = <<>> /\ answer = Chat!NoneYet
      /\ \A e \in Chat!Endpoints : query[e] = Chat!Idle /\ Chat!Due(e) = 0
  BY DEF Chat!Init, Chat!Due
<1>2. Chat!TypeOK
  <2>1. req \in Chat!AnyRequest
    BY ChatBounds DEF Chat!RequestsTyped, Chat!Init
  <2>2. query \in [Chat!Endpoints -> QueryState] /\ result \in [Chat!Endpoints -> ResultState]
    BY Endings DEF Chat!Init
  <2> QED BY <1>1, <2>1, <2>2 DEF Chat!Init, Chat!TypeOK, QueryState, ResultState, Chat!NoneYet
<1>3. NothingSent /\ ModelQuiet
  BY <1>1 DEF NothingSent, ModelQuiet
<1>4. Paid
  BY <1>1 DEF Paid, PaidOf, Chat!Idle
<1>5. Retrieved
  BY <1>1, Endings DEF Retrieved, PastRetrieval, Chat!Idle, Chat!NoneYet
<1>6. Phased
  <2>1. Phase \in Nat
    BY <1>2, PhaseNat
  <2> QED BY <1>1, <2>1, Empty DEF Phased
<1> QED BY <1>2, <1>3, <1>4, <1>5, <1>6 DEF ChatIInv

(* A late payment is one that was due.                                     *)
LEMMA LateKeeps ==
    ASSUME ChatIInv, NEW e \in Chat!Endpoints, Chat!WalletSignsLate(e)
    PROVE  ChatIInv' /\ \A f \in Chat!Endpoints : Chat!Due(f)' <= Chat!Due(f)
<1>1. /\ UNCHANGED <<req, client, pc, query, result, events, answer>>
      /\ e \in unsettled /\ unsettled' = unsettled \ {e}
      /\ \E signed \in {0, 1} : payments' = [payments EXCEPT ![e] = @ + signed]
  BY DEF Chat!WalletSignsLate
<1>2. /\ payments' \in [Chat!Endpoints -> Nat] /\ payments'[e] \in {payments[e], payments[e] + 1}
      /\ \A f \in Chat!Endpoints \ {e} : payments'[f] = payments[f]
      /\ unsettled' \subseteq Chat!Endpoints
  BY <1>1, Typed DEF ChatIInv
<1>3. \A f \in Chat!Endpoints : Chat!Due(f)' \in Nat /\ Chat!Due(f)' <= Chat!Due(f)
  BY <1>1, <1>2, Typed DEF Chat!Due, ChatIInv
<1>4. Chat!TypeOK'
  BY <1>1, <1>2 DEF ChatIInv, Chat!TypeOK
<1>5. client # "preparing"
  BY <1>1 DEF ChatIInv, NothingSent, Chat!Due, Chat!TypeOK
<1>6. NothingSent' /\ Phased' /\ ModelQuiet'
  BY <1>1, <1>5 DEF ChatIInv, NothingSent, Phased, ModelQuiet, Chat!Streaming, Good, Ordered,
                    Fifth, Phase, Chat!Completed
<1>7. Retrieved'
  BY <1>1 DEF ChatIInv, Retrieved, PastRetrieval, Chat!Refused, Chat!Completed, Chat!Streaming
<1>8. Paid'
  <2>1. \A f \in Chat!Endpoints : PaidOf(f, query[f], Chat!Due(f)')
    BY <1>3, Typed DEF ChatIInv, Paid, PaidOf
  <2> QED BY <1>1, <2>1 DEF Paid, PaidOf, Chat!Plain, Chat!Tunnelled
<1> QED BY <1>3, <1>4, <1>6, <1>7, <1>8 DEF ChatIInv

LEMMA ChatStep == ChatIInv /\ [Chat!Next]_(Chat!vars) => ChatIInv'
<1> SUFFICES ASSUME ChatIInv, [Chat!Next]_(Chat!vars) PROVE ChatIInv'
  OBVIOUS
<1>1. Chat!TypeOK /\ Paid /\ Model \in Chat!Endpoints /\ Sources \subseteq Chat!Endpoints
  BY Endings DEF ChatIInv
<1>2. CASE UNCHANGED Chat!vars
  BY <1>2 DEF Chat!vars, ChatIInv, Chat!TypeOK, NothingSent, Paid, PaidOf, Retrieved,
              PastRetrieval, Phased, ModelQuiet, Chat!Streaming, Chat!Plain, Chat!Due,
              Chat!Tunnelled, Chat!Refused, Chat!Completed, Good, Ordered, Fifth, Phase
<1>3. CASE \E e \in Chat!Endpoints : Chat!CallStep(e)
  BY <1>1, <1>3, CallMoves, MovedKeeps
<1>4. CASE Chat!ModelStep
  BY <1>1, <1>4, ModelMoves, MovedKeeps
<1>5. CASE Chat!OrchestratorStep
  BY <1>5, SourceKeeps, AbortKeeps, RetrievalKeeps, RankingKeeps, GenerationKeeps, ChatEndKeeps,
     StreamEndKeeps DEF Chat!OrchestratorStep
<1>6. CASE Chat!Chunk \/ Chat!Heartbeat \/ Chat!PrepareFails \/ Chat!StartChat \/ Chat!TearDown
  BY <1>6, ChunkKeeps, HeartbeatKeeps, PrepareKeeps, StartKeeps, TearDownKeeps
<1>7. CASE Chat!Complete \/ Chat!Retrieve \/ Chat!Stream \/ Chat!ClientLeaves
  BY <1>7, ClientKeeps
<1>8. CASE \E e \in Chat!Endpoints : Chat!WalletSignsLate(e)
  BY <1>8, LateKeeps
<1> QED BY <1>2, <1>3, <1>4, <1>5, <1>6, <1>7, <1>8 DEF Chat!Next

LEMMA ChatInvariant == Chat!Spec => []ChatIInv
BY ChatFirst, ChatStep, PTL DEF Chat!Spec

(* Every reachable state of a chat has its type, for all requests, replies *)
(* and bounds.                                                             *)
THEOREM ChatTypeCorrect == Chat!Spec => []Chat!TypeOK
BY ChatInvariant, PTL DEF ChatIInv

(* However often a call is repeated, the wallet signs one credential per   *)
(* attempt at most, and none for a guest or a tunnelled endpoint           *)
(* (mpp_payment.py:38-69 under the retries of data_source.py and model.py).*)
THEOREM PaymentsAreBounded == Chat!Spec => []PaymentsBounded
<1>1. ChatIInv => PaymentsBounded
  <2> SUFFICES ASSUME ChatIInv, NEW e \in Chat!Endpoints
               PROVE  /\ payments[e] <= query[e].try + 1
                      /\ payments[e] > 0 => req.user /\ ~Chat!Tunnelled(e)
    BY DEF PaymentsBounded, Chat!PaymentsBounded
  <2> QED BY Typed DEF ChatIInv, Paid, PaidOf
<1> QED BY <1>1, ChatInvariant, PTL

(* The stream of every chat is in order, and a refusal ends it before the  *)
(* model is asked or paid (orchestrator.py:577-824).                       *)
THEOREM StreamsWellFormed == Chat!Spec => []StreamWellFormed
<1>1. ChatIInv => StreamWellFormed
  <2> SUFFICES ASSUME ChatIInv PROVE StreamWellFormed
    OBVIOUS
  <2>1. Chat!StreamOrdered
    BY DEF ChatIInv, Phased, Good, Ordered, Follows, Fifth, Chat!StreamOrdered
  <2>2. Chat!RefusedNeverGenerates
    <3> SUFFICES ASSUME Chat!Streaming, Chat!Refused # {}
                 PROVE  /\ query[Model].at = "idle" /\ payments[Model] = 0
                        /\ answer.kind \in {"none", "denied"}
      BY DEF Chat!RefusedNeverGenerates
    <3>1. query[Model].at = "idle" /\ answer.kind \in {"none", "denied"}
      BY DEF ChatIInv, Retrieved, PastRetrieval
    <3>2. Chat!TypeOK /\ PaidOf(Model, query[Model], Chat!Due(Model))
      BY Endings DEF ChatIInv, Paid
    <3>3. query[Model].try = 0 /\ payments[Model] <= 0
      BY <3>1, <3>2, Typed, Endings DEF PaidOf
    <3> QED BY <3>1, <3>2, <3>3, Typed, Endings
  <2> QED BY <2>1, <2>2 DEF StreamWellFormed, Chat!StreamWellFormed
<1> QED BY <1>1, ChatInvariant, PTL

(* Once the response task of an abandoned stream is gone, no step asks the *)
(* model again, and none pays it but for a request that was at the hub by  *)
(* then (orchestrator.py:741-743, mpp_payment.py:56-64).                   *)
THEOREM ModelStaysAlone == Chat!Spec => ModelLeftAlone
<1>1. ASSUME ChatIInv, [Chat!Next]_(Chat!vars), client = "gone", Chat!Streaming, pc = "over"
      PROVE  UNCHANGED query[Model] /\ Chat!Due(Model)' <= Chat!Due(Model)
  <2>1. /\ query[Model].at \in Chat!Quiet /\ Chat!TypeOK /\ Paid /\ Model \in Chat!Endpoints
        /\ Chat!Due(Model) \in Nat
    BY <1>1, Endings, Typed DEF ChatIInv, ModelQuiet
  <2>2. CASE \E e \in Chat!Endpoints : Chat!CallStep(e)
    <3>1. PICK e \in Chat!Endpoints : Moved(e)
      BY <2>1, <2>2, CallMoves
    <3>2. e # Model
      BY <2>1, <3>1 DEF Moved
    <3> QED BY <2>1, <3>1, <3>2 DEF Moved
  <2>3. CASE Chat!ModelStep
    BY <2>1, <2>3, ModelMoves DEF Moved
  <2>4. CASE Chat!OrchestratorStep
    <3>1. UNCHANGED <<query, payments, unsettled>>
      BY <1>1, <2>4 DEF Chat!OrchestratorStep, Chat!SourceComplete, Chat!AbortOnRefusal,
                        Chat!RetrievalOnly, Chat!StartRanking, Chat!StartGeneration,
                        Chat!FinishChat, Chat!FinishStream, Chat!Generated
    <3> QED BY <2>1, <3>1, DuesKept
  <2>5. CASE \/ Chat!Chunk \/ Chat!Heartbeat \/ Chat!PrepareFails \/ Chat!StartChat \/ Chat!TearDown
             \/ Chat!Complete \/ Chat!Retrieve \/ Chat!Stream \/ Chat!ClientLeaves
             \/ UNCHANGED Chat!vars
    <3>1. UNCHANGED <<query, payments, unsettled>>
      BY <1>1, <2>5 DEF Chat!Chunk, Chat!Heartbeat, Chat!PrepareFails, Chat!StartChat,
                        Chat!TearDown, Chat!Complete, Chat!Retrieve, Chat!Stream, Chat!Receive,
                        Chat!ClientLeaves, Chat!vars
    <3> QED BY <2>1, <3>1, DuesKept
  <2>6. CASE \E e \in Chat!Endpoints : Chat!WalletSignsLate(e)
    BY <1>1, <2>1, <2>6, LateKeeps DEF Chat!WalletSignsLate
  <2> QED BY <1>1, <2>2, <2>3, <2>4, <2>5, <2>6 DEF Chat!Next
<1>2. ChatIInv /\ [Chat!Next]_(Chat!vars) =>
        [(client = "gone" /\ Chat!Streaming /\ pc = "over") =>
           UNCHANGED query[Model] /\ Chat!Due(Model)' <= Chat!Due(Model)]_(Chat!vars)
  BY <1>1
<1> QED BY <1>2, ChatInvariant, PTL DEF Chat!Spec, ModelLeftAlone, Chat!ModelLeftAlone
=============================================================================
