----------------------------- MODULE AgentRelay -----------------------------
(***************************************************************************)
(* One agent session in the aggregator: the WebSocket handler              *)
(* (api/endpoints/agent.py), its two relay coroutines                      *)
(* (services/session_manager.py) and the NATS session transport            *)
(* (services/session_transport.py) between a client and a Space.           *)
(*                                                                         *)
(* The coroutines share one event loop: an action is what runs between two *)
(* awaits, and the session's state may have changed when an await returns. *)
(* The Space is the environment: what it publishes is an EventStream, the  *)
(* promise AgentSession implements on the other side of the tunnel.        *)
(***************************************************************************)
EXTENDS Naturals, Sequences

CONSTANTS Source,          \* the goroutines that number events of the session
          Runner,          \* the one of RunHandler, which reports the end
          Published,       \* bound: the types of event it sends
          MaxSpaceEvents,  \* bound: sequence numbers the Space uses
          MaxUserMessages, \* bound: messages the client sends
          NatsMayFail      \* a NATS operation may fail, a message get lost

ASSUME RunnerIsSource == Runner \in Source
ASSUME RelayBounds == MaxSpaceEvents \in Nat /\ MaxUserMessages \in Nat
ASSUME NatsBool == NatsMayFail \in BOOLEAN

VARIABLES spaceArrived, spaceStatus, \* the Space's event stream
          started,      \* agent_session_start was published
          cancelSent,   \* agent_session_cancel was published
          wire,         \* messages on the peer channel, not yet delivered
          subscribed,   \* the transport's subscription of the peer channel
          messageQueue, \* events the subscription put into the queue
          client,       \* the WebSocket's far end: "open" or "gone"
          wsIn,         \* messages of the client not yet received
          userSent,     \* number of messages the client has sent
          stage,        \* progress of agent_session_ws
          state,        \* session.state
          counter,      \* session.sequence_counter
          down,         \* progress of relay_space_to_frontend
          downEvent,    \* the event it is sending
          up,           \* progress of relay_frontend_to_space
          shown,        \* what the client saw: the Space's stamp, the relay's number
          ended         \* the latest of it was terminal

spaceVars  == <<spaceArrived, spaceStatus, started, cancelSent>>
queueVars  == <<wire, subscribed, messageQueue>>
clientVars == <<client, wsIn, userSent>>
relayVars  == <<down, downEvent, up, counter, shown, ended>>
vars == <<spaceVars, queueVars, clientVars, stage, state, relayVars>>

-----------------------------------------------------------------------------
Finals   == {"session.completed", "session.failed"}
Ordinary == {"event", "request_input"}
Kinds    == Ordinary \cup Finals
Event    == [by : Source, seq : Nat, kind : Kinds]
ASSUME PublishedAreKinds == Published \subseteq Kinds

Reply    == [by |-> Runner, seq |-> 0, kind |-> "error"]   \* an error of the tunnel
NoEvent  == [by |-> Runner, seq |-> 0, kind |-> "event"]
Shown    == [by : Source, seq : Nat, number : Nat]
TerminalStates == {"completed", "failed", "cancelled", "timed_out"}
States == {"initializing", "running", "awaiting_input"} \cup TerminalStates
UserMessages == {"message", "cancel", "ping", "unknown", "malformed"}

RelayTypeOK ==
    /\ spaceArrived \subseteq [by : Source, seq : Nat]
    /\ spaceStatus \in {"open", "terminated", "ended"}
    /\ started \in BOOLEAN
    /\ cancelSent \in BOOLEAN
    /\ wire \in Seq(Event \cup {Reply})
    /\ subscribed \in BOOLEAN
    /\ messageQueue \in Seq(Event)
    /\ client \in {"open", "gone"}
    /\ wsIn \in Seq(UserMessages)
    /\ userSent \in Nat
    /\ stage \in {"accepted", "subscribed", "started", "relaying",
                  "disconnected", "closing", "closed"}
    /\ state \in States
    /\ counter \in Nat
    /\ down \in {"none", "waiting", "sending", "done"}
    /\ downEvent \in Event
    /\ up \in {"none", "checking", "receiving", "forwarding", "ponging",
               "cancelling", "done"}
    /\ shown \subseteq Shown
    /\ ended \in BOOLEAN

Init ==
    /\ spaceArrived = {}
    /\ spaceStatus = "open"
    /\ started = FALSE
    /\ cancelSent = FALSE
    /\ wire = <<>>
    /\ subscribed = FALSE
    /\ messageQueue = <<>>
    /\ client = "open"
    /\ wsIn = <<>>
    /\ userSent = 0
    /\ stage = "accepted"
    /\ state = "initializing"
    /\ counter = 0
    /\ down = "none"
    /\ downEvent = NoEvent
    /\ up = "none"
    /\ shown = {}
    /\ ended = FALSE

-----------------------------------------------------------------------------
(* The environment: the Space and the client.                               *)

Space == INSTANCE EventStream WITH arrived <- spaceArrived, status <- spaceStatus

\* RunHandler reports the end once; a handler may send any type of event, a
\* session.completed or session.failed of its own included, and more after it.
SpacePublishes(by, seq, kind) ==
    /\ started
    /\ spaceArrived' = spaceArrived \cup {[by |-> by, seq |-> seq]}
    /\ IF by = Runner THEN kind \in Finals /\ Space!DeliverTerminal
                      ELSE Space!Deliver
    /\ wire' = Append(wire, [by |-> by, seq |-> seq, kind |-> kind])
    /\ UNCHANGED <<started, cancelSent, subscribed, messageQueue, clientVars,
                   stage, state, relayVars>>

\* The Space stops publishing: after a terminal event, without one, or, when
\* it refuses the session, with an error reply in place of any event.
SpaceStops ==
    /\ started
    /\ Space!End
    /\ wire' \in {wire} \cup (IF spaceArrived = {} THEN {Append(wire, Reply)} ELSE {})
    /\ UNCHANGED <<started, cancelSent, subscribed, messageQueue, clientVars,
                   stage, state, relayVars>>

ClientSends(message) ==
    /\ client = "open"
    /\ userSent < MaxUserMessages
    /\ userSent' = userSent + 1
    /\ wsIn' = Append(wsIn, message)
    /\ UNCHANGED <<spaceVars, queueVars, client, stage, state, relayVars>>

ClientLeaves ==
    /\ client = "open"
    /\ client' = "gone"
    /\ UNCHANGED <<spaceVars, queueVars, wsIn, userSent, stage, state, relayVars>>

-----------------------------------------------------------------------------
(* The transport.                                                           *)

\* _on_message: replies of another type are dropped, and so is what cannot be
\* decrypted; without a subscription the message is lost.
OnMessage ==
    /\ wire # <<>>
    /\ wire' = Tail(wire)
    /\ \/ /\ subscribed
          /\ Head(wire) # Reply
          /\ messageQueue' = Append(messageQueue, Head(wire))
       \/ /\ ~subscribed \/ Head(wire) = Reply \/ NatsMayFail
          /\ UNCHANGED messageQueue
    /\ UNCHANGED <<spaceVars, subscribed, clientVars, stage, state, relayVars>>

\* send_cancel, which raises when it cannot publish.
SendCancel == cancelSent' = TRUE \/ (NatsMayFail /\ UNCHANGED cancelSent)

-----------------------------------------------------------------------------
(* agent_session_ws.                                                        *)

\* No session.start in time, an invalid one, no key of the Space, or the client
\* has left: there is no transport yet.
Reject ==
    /\ stage = "accepted"
    /\ stage' = "closed"
    /\ UNCHANGED <<spaceVars, queueVars, clientVars, state, relayVars>>

\* Faulty: the subscription is left for later.
SubscribeLater ==
    /\ stage = "accepted"
    /\ stage' = "subscribed"
    /\ UNCHANGED <<spaceVars, queueVars, clientVars, state, relayVars>>

\* start_session: subscribe first ...
Subscribe ==
    /\ stage = "accepted"
    /\ \/ stage' = "subscribed" /\ subscribed' = TRUE
       \/ NatsMayFail /\ stage' = "closing" /\ UNCHANGED subscribed
    /\ UNCHANGED <<spaceVars, wire, messageQueue, clientVars, state, relayVars>>

\* ... then publish agent_session_start; flush may fail after the publication.
PublishStart ==
    /\ stage = "subscribed"
    /\ \/ stage' = "started" /\ started' = TRUE /\ state' = "running"
       \/ /\ NatsMayFail
          /\ stage' = "closing"
          /\ started' \in BOOLEAN
          /\ UNCHANGED state
    /\ UNCHANGED <<spaceArrived, spaceStatus, cancelSent, queueVars, clientVars,
                   relayVars>>

\* session.created.  A send to a client that left may go unnoticed, raise
\* WebSocketDisconnect or raise another exception.
SendCreated ==
    /\ stage = "started"
    /\ \/ /\ stage' = "relaying"
          /\ down' = "waiting"
          /\ up' = "checking"
       \/ /\ client = "gone"
          /\ stage' \in {"disconnected", "closing"}
          /\ UNCHANGED <<down, up>>
    /\ UNCHANGED <<spaceVars, queueVars, clientVars, state, downEvent, counter,
                   shown, ended>>

\* The handler of WebSocketDisconnect: send_cancel, whose failure is logged.
CancelOnDisconnect ==
    /\ stage = "disconnected"
    /\ stage' = "closing"
    /\ SendCancel
    /\ UNCHANGED <<spaceArrived, spaceStatus, started, queueVars, clientVars, state,
                   relayVars>>

\* asyncio.gather returns when both relays have ended, however they ended.
GatherReturns ==
    /\ stage = "relaying"
    /\ down = "done"
    /\ up = "done"
    /\ stage' = "closing"
    /\ UNCHANGED <<spaceVars, queueVars, clientVars, state, relayVars>>

Close ==
    /\ stage = "closing"
    /\ stage' = "closed"
    /\ subscribed' = FALSE
    /\ UNCHANGED <<spaceVars, wire, messageQueue, clientVars, state, relayVars>>

-----------------------------------------------------------------------------
(* relay_space_to_frontend.                                                 *)

StateAfter(kind) ==
    CASE kind = "request_input"     -> "awaiting_input"
      [] kind = "session.completed" -> "completed"
      [] kind = "session.failed"    -> "failed"
      [] OTHER -> IF state = "awaiting_input" THEN state ELSE "running"

\* Faulty: the latest event is taken first.
DownTakesLatest ==
    /\ down = "waiting" /\ messageQueue # <<>>
    /\ messageQueue' = SubSeq(messageQueue, 1, Len(messageQueue) - 1)
    /\ downEvent' = messageQueue[Len(messageQueue)]
    /\ counter' = counter + 1
    /\ state' = StateAfter(downEvent'.kind)
    /\ down' = "sending"
    /\ UNCHANGED <<spaceVars, wire, subscribed, clientVars, stage, up, shown, ended>>

\* Up to the await of send_json.
DownTakes ==
    /\ down = "waiting"
    /\ messageQueue # <<>>
    /\ messageQueue' = Tail(messageQueue)
    /\ downEvent' = Head(messageQueue)
    /\ counter' = counter + 1
    /\ state' = StateAfter(Head(messageQueue).kind)
    /\ down' = "sending"
    /\ UNCHANGED <<spaceVars, wire, subscribed, clientVars, stage, up, shown, ended>>

Show(event, number) ==
    /\ shown' = shown \cup {[by |-> event.by, seq |-> event.seq, number |-> number]}
    /\ ended' = (event.kind \in Finals)

\* send_json returns, and the loop ends if the state is terminal by now; or it
\* raises, which only a client that left can cause.
DownSends ==
    /\ down = "sending"
    /\ \/ /\ \/ client = "open" /\ Show(downEvent, counter)
             \/ client = "gone" /\ UNCHANGED <<shown, ended>>
          /\ down' = IF state \in TerminalStates THEN "done" ELSE "waiting"
       \/ /\ client = "gone"
          /\ down' = "done"
          /\ UNCHANGED <<shown, ended>>
    /\ UNCHANGED <<spaceVars, queueVars, clientVars, stage, state, downEvent,
                   counter, up>>

-----------------------------------------------------------------------------
(* relay_frontend_to_space.                                                 *)

UpChecks ==
    /\ up = "checking"
    /\ up' = IF state \in TerminalStates THEN "done" ELSE "receiving"
    /\ UNCHANGED <<spaceVars, queueVars, clientVars, stage, state, down,
                   downEvent, counter, shown, ended>>

UpReceives ==
    /\ up = "receiving"
    /\ wsIn # <<>>
    /\ wsIn' = Tail(wsIn)
    /\ up' = CASE Head(wsIn) = "message"   -> "forwarding"
               [] Head(wsIn) = "cancel"    -> "cancelling"
               [] Head(wsIn) = "ping"      -> "ponging"
               [] Head(wsIn) = "unknown"   -> "checking"
               [] Head(wsIn) = "malformed" -> "done"
    /\ state' = IF Head(wsIn) = "cancel" THEN "cancelled" ELSE state
    /\ UNCHANGED <<spaceVars, queueVars, client, userSent, stage, down,
                   downEvent, counter, shown, ended>>

\* The disconnect of the client is an exception of receive_json like any other.
UpDisconnected ==
    /\ up = "receiving"
    /\ wsIn = <<>>
    /\ client = "gone"
    /\ up' = "done"
    /\ UNCHANGED <<spaceVars, queueVars, clientVars, stage, state, down,
                   downEvent, counter, shown, ended>>

\* Faulty: receive_json is awaited without a timeout.
UpWaitsForever == FALSE

\* No message for INACTIVITY_TIMEOUT.
UpTimesOut ==
    /\ up = "receiving"
    /\ wsIn = <<>>
    /\ state' = "timed_out"
    /\ up' = "cancelling"
    /\ UNCHANGED <<spaceVars, queueVars, clientVars, stage, down, downEvent,
                   counter, shown, ended>>

\* send_to_space returns, or raises and ends the loop.
UpForwards ==
    /\ up = "forwarding"
    /\ up' = "checking" \/ (NatsMayFail /\ up' = "done")
    /\ UNCHANGED <<spaceVars, queueVars, clientVars, stage, state, down,
                   downEvent, counter, shown, ended>>

UpPongs ==
    /\ up = "ponging"
    /\ \/ up' = "checking"
       \/ client = "gone" /\ up' = "done"
    /\ UNCHANGED <<spaceVars, queueVars, clientVars, stage, state, down,
                   downEvent, counter, shown, ended>>

\* send_cancel, which may raise; the loop ends either way.
UpCancels ==
    /\ up = "cancelling"
    /\ up' = "done"
    /\ SendCancel
    /\ UNCHANGED <<spaceArrived, spaceStatus, started, queueVars, clientVars, stage,
                   state, down, downEvent, counter, shown, ended>>

-----------------------------------------------------------------------------
Handler == Reject \/ Subscribe \/ PublishStart \/ SendCreated
           \/ CancelOnDisconnect \/ GatherReturns \/ Close
Down    == DownTakes \/ DownSends
Up      == UpChecks \/ UpReceives \/ UpDisconnected \/ UpTimesOut
           \/ UpForwards \/ UpPongs \/ UpCancels

Next ==
    \/ \E by \in Source, seq \in 1..MaxSpaceEvents, kind \in Published :
         SpacePublishes(by, seq, kind)
    \/ SpaceStops
    \/ \E message \in UserMessages : ClientSends(message)
    \/ ClientLeaves
    \/ OnMessage
    \/ Handler
    \/ Down
    \/ Up

Spec == Init /\ [][Next]_vars

\* The event loop runs every coroutine whose await is over (the inactivity
\* timer included) and NATS delivers.  Nothing is assumed of the client, nor
\* of the Space.
Fairness ==
    /\ WF_vars(OnMessage)
    /\ WF_vars(Handler)
    /\ WF_vars(Down)
    /\ WF_vars(Up)

FairSpec == Spec /\ Fairness

-----------------------------------------------------------------------------
(* Properties.                                                              *)

\* The client sees an event stream again, with the stamps of the Space and in
\* the relay's own numbering: no event is repeated, none of one goroutine
\* overtakes another, and nothing follows the first terminal event, whatever the
\* other coroutine does to the session's state while an event is being sent
\* (session_manager.py:66-95).
ViewStatus == IF stage = "closed" THEN "ended"
              ELSE IF ended THEN "terminated" ELSE "open"
Original == INSTANCE EventStream
            WITH arrived <- {[by |-> e.by, seq |-> e.seq] : e \in shown},
                 status  <- ViewStatus
Numbered == INSTANCE EventStream
            WITH Source  <- {Runner},
                 arrived <- {[by |-> Runner, seq |-> e.number] : e \in shown},
                 status  <- ViewStatus

ClientSeesEventStream == Numbered!StreamSpec /\ Original!StreamSpec

\* No message of the Space can miss the subscription while the handler is not
\* through: it subscribes before it starts the session and unsubscribes after
\* both relays have ended (session_transport.py:84-99; agent.py:192-222).
SubscribedInTime == (wire # <<>> /\ stage \notin {"closing", "closed"}) => subscribed

\* A terminal event in the queue reaches the client, unless it left or the
\* session was cancelled or timed out first, and it ends the whole handler: the
\* relay of the client's messages, which does not see it, ends with the next
\* message or the inactivity timeout (session_manager.py:112-131).
QueuedFinal == \E i \in 1..Len(messageQueue) : messageQueue[i].kind \in Finals
FinalEndsSession ==
    /\ (QueuedFinal /\ stage = "relaying") ~>
          (ended \/ client = "gone" \/ state \in {"cancelled", "timed_out"})
    /\ ended ~> (stage = "closed")
=============================================================================
