--------------------------- MODULE TunnelRequest ---------------------------
(***************************************************************************)
(* Requests of the aggregator to one Space through NATS:                   *)
(* NATSTransport._send_and_receive with its cache of the Space's public    *)
(* key, the Space's NATSTransport.handleMessage, and the start of a Space, *)
(* which registers its key with the hub before it subscribes.              *)
(*                                                                         *)
(* Keys are numbered in the order in which they are generated; decryption  *)
(* succeeds when the request was encrypted for the key the Space has.      *)
(* NATS delivers a message at most once, and not at all when nobody is     *)
(* subscribed.  All calls share one peer channel.                          *)
(***************************************************************************)
EXTENDS Naturals

CONSTANTS Call,     \* requests of the aggregator
          MaxKey    \* keys a Space generates

ASSUME TunnelAssumption == MaxKey \in Nat \ {0}

VARIABLES space,     \* "down", "starting", "registered" or "up"
          key,       \* the key of the running, or last run, Space process
          hubKey,    \* the key registered with the hub; 0 when there is none
          cache,     \* the aggregator's cached key; 0 when it must be fetched
          call,      \* Call -> the state of its coroutine
          inbox,     \* requests that wait at the Space's subscription
          current,   \* the request whose handler runs, or NoRequest
          replies,   \* replies on the peer channel
          executed   \* history: Call -> runs of the endpoint's handler

vars == <<space, key, hubKey, cache, call, inbox, current, replies, executed>>

NoRequest == [call |-> "none", attempt |-> 0, key |-> 0]
KeyOrNone == 0..MaxKey
Request == [call: Call, attempt: {1, 2}, key: 1..MaxKey]
(* by: the key of the process that replied.                                *)
Reply == [call: Call, attempt: {1, 2}, ok: BOOLEAN, by: 1..MaxKey]
(* rejectedBy, finallyBy: history, the processes that refused the first    *)
(* and the second attempt.                                                 *)
CallState == [pc: {"idle", "fetch", "fetched", "send", "wait", "answered", "failed"},
              attempt: {1, 2}, key: KeyOrNone, rejectedBy: KeyOrNone, finallyBy: KeyOrNone]

TypeOK ==
    /\ space \in {"down", "starting", "registered", "up"}
    /\ key \in 1..MaxKey /\ hubKey \in KeyOrNone /\ cache \in KeyOrNone
    /\ call \in [Call -> CallState]
    /\ inbox \subseteq Request
    /\ current \in Request \cup {NoRequest}
    /\ replies \subseteq Reply
    /\ executed \in [Call -> Nat]

Init ==
    /\ space = "down" /\ key = 1 /\ hubKey = 0
    /\ cache = 0
    /\ call = [c \in Call |-> [pc |-> "idle", attempt |-> 1, key |-> 0,
                               rejectedBy |-> 0, finallyBy |-> 0]]
    /\ inbox = {} /\ current = NoRequest /\ replies = {}
    /\ executed = [c \in Call |-> 0]

spaceVars == <<space, key, hubKey, inbox, current, executed>>
aggregatorVars == <<cache, call>>

-----------------------------------------------------------------------------
(* The aggregator: one coroutine per call.                                 *)

(* A fresh cached key is used; otherwise the hub is asked.                 *)
GetSpacePublicKey(c) ==
    /\ call[c].pc = "idle"
    /\ call' = [call EXCEPT ![c].pc = IF cache = 0 THEN "fetch" ELSE "send",
                            ![c].key = cache]
    /\ UNCHANGED <<spaceVars, cache, replies>>

(* The hub's answer; the request to the hub may also fail.                 *)
FetchKey(c) ==
    /\ call[c].pc = "fetch"
    /\ \/ hubKey # 0 /\ call' = [call EXCEPT ![c].pc = "fetched", ![c].key = hubKey]
       \/ call' = [call EXCEPT ![c].pc = "failed"]
    /\ UNCHANGED <<spaceVars, cache, replies>>

(* The key is stored when the coroutine resumes: it may be older than the  *)
(* key another call has stored or evicted in between.                      *)
StoreKey(c) ==
    /\ call[c].pc = "fetched"
    /\ cache' = call[c].key
    /\ call' = [call EXCEPT ![c].pc = "send"]
    /\ UNCHANGED <<spaceVars, replies>>

(* The entry has reached its time to live.                                 *)
ExpireKey ==
    /\ cache # 0
    /\ cache' = 0
    /\ UNCHANGED <<spaceVars, call, replies>>

(* Subscribe to the peer channel, then publish; the request may be lost.   *)
SendRequest(c) ==
    /\ call[c].pc = "send"
    /\ call' = [call EXCEPT ![c].pc = "wait"]
    /\ \/ /\ space = "up"
          /\ inbox' = inbox \cup {[call |-> c, attempt |-> call[c].attempt,
                                   key |-> call[c].key]}
       \/ UNCHANGED inbox
    /\ UNCHANGED <<space, key, hubKey, current, executed, cache, replies>>

(* message_handler takes the replies with its own correlation id.          *)
Concerns(m, c) == m.call = c /\ m.attempt = call[c].attempt /\ call[c].pc = "wait"

(* Faulty: the retry keeps the key it has in its hands.                    *)
ReceiveReplyKeepingKey(c) ==
    /\ \E m \in replies :
          /\ Concerns(m, c)
          /\ replies' = replies \ {m}
          /\ \/ m.ok /\ call' = [call EXCEPT ![c].pc = "answered"]
             \/ /\ ~m.ok /\ call[c].attempt = 1
                /\ call' = [call EXCEPT ![c].pc = "send", ![c].attempt = 2,
                                        ![c].rejectedBy = m.by]
             \/ /\ ~m.ok /\ call[c].attempt = 2
                /\ call' = [call EXCEPT ![c].pc = "failed", ![c].finallyBy = m.by]
    /\ UNCHANGED <<spaceVars, cache>>

ReceiveReply(c) ==
    /\ \E m \in replies :
          /\ Concerns(m, c)
          /\ replies' = replies \ {m}
          /\ \/ m.ok /\ call' = [call EXCEPT ![c].pc = "answered"] /\ UNCHANGED cache
             \/ /\ ~m.ok /\ call[c].attempt = 1
                /\ cache' = 0
                /\ call' = [call EXCEPT ![c].pc = "fetch", ![c].attempt = 2,
                                        ![c].rejectedBy = m.by]
             \/ /\ ~m.ok /\ call[c].attempt = 2
                /\ call' = [call EXCEPT ![c].pc = "failed", ![c].finallyBy = m.by]
                /\ UNCHANGED cache
    /\ UNCHANGED spaceVars

(* No subscription matches any more, or the reply is lost on its way.      *)
LoseReply ==
    /\ \E m \in replies : replies' = replies \ {m}
    /\ UNCHANGED <<spaceVars, aggregatorVars>>

(* Faulty: a timeout is retried like a refusal.                            *)
TimeoutRetries(c) ==
    /\ call[c].pc = "wait"
    /\ call' = [call EXCEPT ![c].pc = IF call[c].attempt = 1 THEN "fetch" ELSE "failed",
                            ![c].attempt = 2]
    /\ UNCHANGED <<spaceVars, cache, replies>>

(* Faulty: no timeout once the request was published to a running Space.   *)
TimeoutUnlessUp(c) ==
    /\ call[c].pc = "wait" /\ space # "up"
    /\ call' = [call EXCEPT ![c].pc = "failed"]
    /\ UNCHANGED <<spaceVars, cache, replies>>

Timeout(c) ==
    /\ call[c].pc = "wait"
    /\ call' = [call EXCEPT ![c].pc = "failed"]
    /\ UNCHANGED <<spaceVars, cache, replies>>

-----------------------------------------------------------------------------
(* The Space.  Its subscription's callback handles one request at a time.  *)

(* A new process; without a key file it has a new key.                     *)
Start ==
    /\ space = "down"
    /\ space' = "starting"
    /\ key' \in {key} \cup (IF key < MaxKey THEN {key + 1} ELSE {})
    /\ UNCHANGED <<hubKey, inbox, current, replies, executed, aggregatorVars>>

RegisterKey ==
    /\ space = "starting"
    /\ space' = "registered"
    /\ hubKey' = key
    /\ UNCHANGED <<key, inbox, current, replies, executed, aggregatorVars>>

Subscribe ==
    /\ space = "registered"
    /\ space' = "up"
    /\ UNCHANGED <<key, hubKey, inbox, current, replies, executed, aggregatorVars>>

(* Shutdown, crash, or a failed registration.                              *)
Stop ==
    /\ space # "down"
    /\ space' = "down"
    /\ inbox' = {} /\ current' = NoRequest
    /\ UNCHANGED <<key, hubKey, replies, executed, aggregatorVars>>

RejectRequest(m) ==
    /\ space = "up" /\ current = NoRequest
    /\ m.key # key
    /\ inbox' = inbox \ {m}
    /\ replies' = replies \cup {[call |-> m.call, attempt |-> m.attempt,
                                 ok |-> FALSE, by |-> key]}
    /\ UNCHANGED <<space, key, hubKey, current, executed, aggregatorVars>>

HandleRequest(m) ==
    /\ space = "up" /\ current = NoRequest
    /\ m.key = key
    /\ inbox' = inbox \ {m}
    /\ current' = m
    /\ executed' = [executed EXCEPT ![m.call] = @ + 1]
    /\ UNCHANGED <<space, key, hubKey, replies, aggregatorVars>>

(* The handler's result, or its error, encrypted for this request.         *)
SendResponse ==
    /\ current # NoRequest
    /\ current' = NoRequest
    /\ replies' = replies \cup {[call |-> current.call, attempt |-> current.attempt,
                                 ok |-> TRUE, by |-> key]}
    /\ UNCHANGED <<space, key, hubKey, inbox, executed, aggregatorVars>>

-----------------------------------------------------------------------------
CallStep(c) ==
    \/ GetSpacePublicKey(c) \/ FetchKey(c) \/ StoreKey(c)
    \/ SendRequest(c) \/ ReceiveReply(c) \/ Timeout(c)

SpaceStep ==
    \/ Start \/ RegisterKey \/ Subscribe \/ Stop
    \/ \E m \in inbox : RejectRequest(m) \/ HandleRequest(m)
    \/ SendResponse

Next == (\E c \in Call : CallStep(c)) \/ SpaceStep \/ ExpireKey \/ LoseReply

(* The event loop resumes a coroutine whose await has ended, the hub's     *)
(* answer and the reply are awaited with a timeout.  Nothing is assumed of *)
(* the Space and of NATS.                                                  *)
Fairness == \A c \in Call : WF_vars(CallStep(c))

Spec == Init /\ [][Next]_vars /\ Fairness

-----------------------------------------------------------------------------
Outcome == [c \in Call |-> CASE call[c].pc = "answered" -> "answered"
                             [] call[c].pc = "failed" -> "failed"
                             [] OTHER -> "none"]

RC == INSTANCE RemoteCall WITH outcome <- Outcome

(* The endpoint runs at most once for a call, although a request that was  *)
(* not decrypted is sent a second time, replies arrive late, and all calls *)
(* share a peer channel; and a call is only answered when its own request  *)
(* has run (nats_transport.py:243-390, nats.go:500-588).                   *)
AtMostOnce == RC!RCSpec

(* The retry hides a restart of the Space from the caller: a call that     *)
(* ends with DECRYPTION_FAILED met two restarts, the second after its      *)
(* first attempt was refused (nats_transport.py:362-388, api.go:397-406).  *)
RetryHidesRotation ==
    \A c \in Call : call[c].finallyBy # 0 => call[c].finallyBy > call[c].rejectedBy

(* A call ends, whatever the Space does: a handler that never returns, a   *)
(* lost request, a restart (nats_transport.py:311-329).                    *)
CallEnds == \A c \in Call :
    call[c].pc # "idle" ~> call[c].pc \in {"answered", "failed"}
=============================================================================
