---------------------------- MODULE AgentSession ----------------------------
(***************************************************************************)
(* One agent session inside a Space: the handler goroutine with its session *)
(* API, the two buffered channels, RunHandler's deferred clean-up and the  *)
(* goroutine that consumes the outbound channel                            *)
(* (sdk/golang/syfthubapi/agent.go, transport/nats.go and, for a one-shot  *)
(* invocation, processor.go).                                              *)
(*                                                                         *)
(* A handler may call Send from several goroutines, with events of any     *)
(* type, and Receive from another one; it has no Send in flight when it    *)
(* returns.  A select of Go with several ready cases picks any of them.    *)
(***************************************************************************)
EXTENDS Naturals, Sequences

CONSTANTS Sender,       \* the handler's goroutines that call Send
          Runner,       \* the goroutine of RunHandler, which reports the end
          SendCap,      \* capacity of sendCh (100 in the code)
          RecvCap,      \* capacity of recvCh (100 in the code)
          MaxEvents,    \* bound: Send calls of one handler
          MaxMessages   \* bound: user messages routed to the session

ASSUME RunnerIsApart == Runner \notin Sender
ASSUME CapsAreNat == SendCap \in Nat /\ RecvCap \in Nat
ASSUME BoundsAreNat == MaxEvents \in Nat /\ MaxMessages \in Nat

VARIABLES mode,       \* "interactive" (NATS relay) or "oneshot" (processor)
          ctxDone,    \* the session context is cancelled
          sequence,   \* the session's event counter
          sendCh,     \* outbound events in the channel
          inbox,      \* number of user messages in recvCh
          routed,     \* number of user messages routed so far
          sendCall,   \* per goroutine: the event its Send is placing, or NoEvent
          recvCall,   \* a goroutine is blocked in Receive
          phase,      \* progress of the goroutine of RunHandler
          result,     \* how the handler ended
          reported,   \* the report of the end went into sendCh
          relay,      \* state of the consumer of sendCh
          arrived,    \* goroutine and number of every event sent to the peer
          peerEnd     \* the report sent to the peer, or "none"

handlerVars == <<sequence, sendCall, recvCall, phase, result, reported>>
relayVars   == <<relay, arrived, peerEnd>>
vars == <<mode, ctxDone, sequence, sendCh, inbox, routed, sendCall, recvCall,
          phase, result, reported, relay, arrived, peerEnd>>

-----------------------------------------------------------------------------
Modes    == {"interactive", "oneshot"}
Ordinary == {"event", "request_input"}
Terminal == {"session.completed", "session.failed"}
Kinds    == Ordinary \cup Terminal
Source   == Sender \cup {Runner}
Event    == [by : Source, seq : Nat, kind : Kinds]
NoEvent  == [by |-> Runner, seq |-> 0, kind |-> "event"]
Results  == {"ok", "error", "panic"}
Phases   == {"running", "returned", "reported", "cleaned", "closed", "done"}
Relays   == {"unstarted", "publishing", "draining", "collecting", "stopped"}

SendChClosed == phase \in {"closed", "done"}
InFlight     == {g \in Sender : sendCall[g] # NoEvent}
Over         == phase \notin {"running", "returned"} /\ InFlight = {}
Consuming    == relay \in {"publishing", "draining", "collecting"}

TypeOK ==
    /\ mode \in Modes
    /\ ctxDone \in BOOLEAN
    /\ sequence \in Nat
    /\ sendCh \in Seq(Event)
    /\ inbox \in Nat
    /\ routed \in Nat
    /\ sendCall \in [Sender -> Event]
    /\ recvCall \in BOOLEAN
    /\ phase \in Phases
    /\ result \in Results \cup {"none"}
    /\ reported \in BOOLEAN
    /\ relay \in Relays
    /\ arrived \subseteq [by : Source, seq : Nat]
    /\ peerEnd \in Kinds \cup {"none"}

\* NewAgentSession followed by RunHandler, which spawns the handler.
Init ==
    /\ mode \in Modes
    /\ ctxDone = FALSE
    /\ sequence = 0
    /\ sendCh = <<>>
    /\ inbox = 0
    /\ routed = 0
    /\ sendCall = [g \in Sender |-> NoEvent]
    /\ recvCall = FALSE
    /\ phase = "running"
    /\ result = "none"
    /\ reported = FALSE
    /\ relay = "unstarted"
    /\ arrived = {}
    /\ peerEnd = "none"

-----------------------------------------------------------------------------
(* The session API, called by the handler's goroutines.                     *)

\* Send takes its sequence number from the atomic counter and only then waits
\* in the select, where another goroutine may be served first.  Nothing keeps a
\* handler from sending a session.completed or session.failed of its own.
CallSend(g, kind) ==
    /\ phase = "running"
    /\ sendCall[g] = NoEvent
    /\ sequence < MaxEvents
    /\ sequence' = sequence + 1
    /\ sendCall' = [sendCall EXCEPT ![g] = [by |-> g, seq |-> sequence + 1, kind |-> kind]]
    /\ UNCHANGED <<mode, ctxDone, sendCh, inbox, routed, recvCall, phase, result,
                   reported, relayVars>>

\* The select of Send finds room in sendCh.
SendEnqueues(g) ==
    /\ sendCall[g] # NoEvent
    /\ Len(sendCh) < SendCap
    /\ sendCh' = Append(sendCh, sendCall[g])
    /\ sendCall' = [sendCall EXCEPT ![g] = NoEvent]
    /\ UNCHANGED <<mode, ctxDone, sequence, inbox, routed, recvCall, phase,
                   result, reported, relayVars>>

\* The select of Send takes ctx.Done(): the event and its number are lost.
SendAborts(g) ==
    /\ sendCall[g] # NoEvent
    /\ ctxDone
    /\ sendCall' = [sendCall EXCEPT ![g] = NoEvent]
    /\ UNCHANGED <<mode, ctxDone, sequence, sendCh, inbox, routed, recvCall,
                   phase, result, reported, relayVars>>

\* Receive may still be called by a goroutine that outlives the handler:
\* recvCh is never closed.
CallReceive ==
    /\ ~recvCall
    /\ recvCall' = TRUE
    /\ UNCHANGED <<mode, ctxDone, sequence, sendCh, inbox, routed, sendCall,
                   phase, result, reported, relayVars>>

\* The select of Receive: a message, or the end of the context.
ReceiveReturns ==
    /\ recvCall
    /\ \/ inbox > 0 /\ inbox' = inbox - 1
       \/ ctxDone /\ UNCHANGED inbox
    /\ recvCall' = FALSE
    /\ UNCHANGED <<mode, ctxDone, sequence, sendCh, routed, sendCall, phase,
                   result, reported, relayVars>>

\* DeliverMessage: dropped when recvCh is full.  A one-shot session is not
\* known to the session manager, so nothing is ever routed to it.
DeliverMessage ==
    /\ mode = "interactive"
    /\ routed < MaxMessages
    /\ routed' = routed + 1
    /\ inbox' = IF inbox < RecvCap THEN inbox + 1 ELSE inbox
    /\ UNCHANGED <<mode, ctxDone, handlerVars, sendCh, relayVars>>

\* Cancel, by the user, the reaper, a shutdown, the handler itself or, for a
\* one-shot session, by the deadline of the request.
Cancel ==
    /\ ~ctxDone
    /\ ctxDone' = TRUE
    /\ UNCHANGED <<mode, handlerVars, sendCh, inbox, routed, relayVars>>

-----------------------------------------------------------------------------
(* The goroutine of RunHandler once the handler returns or panics.          *)

\* Faulty: the handler leaves a goroutine behind that is still in Send.
HandlerAbandonsSend(r) ==
    /\ phase = "running"
    /\ phase' = "returned" /\ result' = r
    /\ UNCHANGED <<mode, ctxDone, sequence, sendCh, inbox, routed, sendCall,
                   recvCall, reported, relayVars>>

HandlerReturns(r) ==
    /\ phase = "running"
    /\ InFlight = {}
    /\ phase' = "returned"
    /\ result' = r
    /\ UNCHANGED <<mode, ctxDone, sequence, sendCh, inbox, routed, sendCall,
                   recvCall, reported, relayVars>>

TerminalKind(r) == IF r = "ok" THEN "session.completed" ELSE "session.failed"

\* The report of the end.  The select has a default case: the number is taken
\* either way, the event is dropped when sendCh is full.
ReportTerminal ==
    /\ phase = "returned"
    /\ phase' = "reported"
    /\ sequence' = sequence + 1
    /\ reported' = (Len(sendCh) < SendCap)
    /\ sendCh' = IF Len(sendCh) < SendCap
                 THEN Append(sendCh, [by   |-> Runner,
                                      seq  |-> sequence + 1,
                                      kind |-> TerminalKind(result)])
                 ELSE sendCh
    /\ UNCHANGED <<mode, ctxDone, inbox, routed, sendCall, recvCall, result,
                   relayVars>>

\* The OnDone callback, close(sendCh) and close(done), in this order.
CleanUp ==
    /\ \/ phase = "reported" /\ phase' = "cleaned"
       \/ phase = "cleaned"  /\ phase' = "closed"
       \/ phase = "closed"   /\ phase' = "done"
    /\ UNCHANGED <<mode, ctxDone, sequence, sendCh, inbox, routed, sendCall,
                   recvCall, result, reported, relayVars>>

-----------------------------------------------------------------------------
(* The consumer of sendCh: relayEvents, or the loop of invokeEndpoint.      *)

\* An event goes to the peer.
Pass(event) ==
    /\ arrived' = arrived \cup {[by |-> event.by, seq |-> event.seq]}
    /\ peerEnd' = IF event.by = Runner THEN event.kind ELSE peerEnd

RelayStart ==
    /\ relay = "unstarted"
    /\ relay' \in IF mode = "oneshot" THEN {"collecting"}
                  ELSE {"publishing", "draining"}
    /\ UNCHANGED <<mode, ctxDone, handlerVars, sendCh, inbox, routed, arrived,
                   peerEnd>>

\* Faulty: the latest event is published first.
PublishLatest ==
    /\ relay = "publishing" /\ sendCh # <<>>
    /\ sendCh' = SubSeq(sendCh, 1, Len(sendCh) - 1)
    /\ Pass(sendCh[Len(sendCh)])
    /\ UNCHANGED <<mode, ctxDone, handlerVars, inbox, routed, relay>>

\* One event is taken from the channel and published, unless encryption,
\* encoding or publication fails, which relayEvents only logs.
Publish ==
    /\ relay = "publishing"
    /\ sendCh # <<>>
    /\ sendCh' = Tail(sendCh)
    /\ Pass(Head(sendCh)) \/ UNCHANGED <<arrived, peerEnd>>
    /\ UNCHANGED <<mode, ctxDone, handlerVars, inbox, routed, relay>>

\* No session encryptor: the channel is drained so that Send never blocks.
Drain ==
    /\ relay = "draining"
    /\ sendCh # <<>>
    /\ sendCh' = Tail(sendCh)
    /\ UNCHANGED <<mode, ctxDone, handlerVars, inbox, routed, relayVars>>

\* One-shot: an input request, which nobody can answer, cancels the session.
Collect ==
    /\ relay = "collecting"
    /\ sendCh # <<>>
    /\ sendCh' = Tail(sendCh)
    /\ ctxDone' = (ctxDone \/ Head(sendCh).kind = "request_input")
    /\ Pass(Head(sendCh))
    /\ UNCHANGED <<mode, handlerVars, inbox, routed, relay>>

\* Faulty: the relay stops at the report of the end.
RelayStopsOnTerminal ==
    /\ Consuming /\ peerEnd # "none"
    /\ relay' = "stopped"
    /\ UNCHANGED <<mode, ctxDone, handlerVars, sendCh, inbox, routed, arrived,
                   peerEnd>>

\* The range over sendCh ends once the channel is closed and empty.
RelayStop ==
    /\ Consuming
    /\ SendChClosed
    /\ sendCh = <<>>
    /\ relay' = "stopped"
    /\ UNCHANGED <<mode, ctxDone, handlerVars, sendCh, inbox, routed, arrived,
                   peerEnd>>

-----------------------------------------------------------------------------
SessionApi ==
    \/ \E g \in Sender : \E kind \in Kinds : CallSend(g, kind)
    \/ \E g \in Sender : SendEnqueues(g) \/ SendAborts(g)
    \/ CallReceive
    \/ ReceiveReturns

Consume == RelayStart \/ Publish \/ Drain \/ Collect \/ RelayStop

Next ==
    \/ SessionApi
    \/ DeliverMessage
    \/ Cancel
    \/ \E r \in Results : HandlerReturns(r)
    \/ ReportTerminal
    \/ CleanUp
    \/ Consume

Spec == Init /\ [][Next]_vars

\* Go runs every goroutine that is not blocked.  The handler is user code: it
\* is only assumed to return once its context is cancelled.  The deadline of a
\* one-shot request always passes.
HonourContext == ctxDone /\ \E r \in Results : HandlerReturns(r)
Deadline      == mode = "oneshot" /\ Cancel

Fairness ==
    /\ \A g \in Sender : WF_vars(SendEnqueues(g) \/ SendAborts(g))
    /\ WF_vars(ReceiveReturns)
    /\ WF_vars(HonourContext)
    /\ WF_vars(ReportTerminal)
    /\ WF_vars(CleanUp)
    /\ WF_vars(Consume)
    /\ WF_vars(Deadline)

FairSpec == Spec /\ Fairness

-----------------------------------------------------------------------------
(* Properties.                                                              *)

\* What the peer sees of a session is an EventStream, whatever is lost on the
\* way: relayEvents (nats.go:185-229) never reorders what is in the channel and
\* publishes nothing after the report of the end.
Stream == INSTANCE EventStream
          WITH status <- IF relay = "stopped" THEN "ended"
                         ELSE IF peerEnd # "none" THEN "terminated" ELSE "open"

PeerSeesEventStream == Stream!StreamSpec

\* Send numbers outside the select (agent.go:138-148), so two goroutines may
\* enqueue 2 before 1.  But no number is used twice, and the events of one
\* goroutine keep their order on their whole way: those the peer has seen come
\* before those in sendCh, in their order, and these before the ones in flight.
NumbersTaken ==
    /\ \A e \in arrived : e.seq <= sequence
    /\ \A i \in 1..Len(sendCh) : sendCh[i].seq <= sequence
    /\ \A g \in InFlight : sendCall[g].by = g /\ sendCall[g].seq <= sequence

ChannelOrder ==
    /\ \A i \in 1..Len(sendCh) : \A e \in arrived : Stream!Before(e, sendCh[i])
    /\ \A i, j \in 1..Len(sendCh) : i < j => Stream!Before(sendCh[i], sendCh[j])

FlightOrder ==
    \A g \in InFlight :
        /\ \A e \in arrived : Stream!Before(e, sendCall[g])
        /\ \A i \in 1..Len(sendCh) : Stream!Before(sendCh[i], sendCall[g])
        /\ \A h \in InFlight \ {g} : sendCall[g].seq # sendCall[h].seq

InOrder == NumbersTaken /\ ChannelOrder /\ FlightOrder

\* The report of the end is true and closes the stream: it says how the handler
\* ended, carries the greatest number of all, and nothing is queued, or waits to
\* be queued, behind it - in the panic path too, where it comes from the deferred
\* function (agent.go:304-320, 331-360).  A session.completed that the handler
\* itself sends promises none of this.
ReportQueuedLast ==
    \A i \in 1..Len(sendCh) : sendCh[i].by = Runner =>
        /\ Over /\ peerEnd = "none"
        /\ i = Len(sendCh)
        /\ sendCh[i].kind = TerminalKind(result) /\ sendCh[i].seq = sequence
        /\ \A j \in 1..Len(sendCh) : j # i => sendCh[j].seq < sequence
        /\ \A e \in arrived : e.seq < sequence

ReportSentLast ==
    peerEnd # "none" =>
        /\ Over /\ sendCh = <<>>
        /\ peerEnd = TerminalKind(result)
        /\ \A e \in arrived : e.by # Runner => e.seq < sequence

TerminalIsLast == ReportQueuedLast /\ ReportSentLast

\* A cancelled session winds down completely, with its channels closed and its
\* relay goroutine gone, whatever is queued or blocked at that moment. So does
\* a one-shot invocation, even when its handler waits for a user message nobody
\* can send (processor.go:367-392 and the deadline of nats.go:563-569).
SessionsWindDown == (ctxDone \/ mode = "oneshot") ~> (phase = "done" /\ relay = "stopped")
=============================================================================
