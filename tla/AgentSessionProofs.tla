------------------------- MODULE AgentSessionProofs -------------------------
(***************************************************************************)
(* Proofs about AgentSession for every number of sending goroutines and    *)
(* every channel capacity - type correctness, the order of events, the     *)
(* place of the report of the end, and that what the peer sees is an       *)
(* EventStream - and about AgentSubprocess, for every capacity of its      *)
(* pipes: type correctness, that the bridge is a handler as AgentSession   *)
(* assumes it, so that what is proved of a session holds of a file-mode    *)
(* agent, and that the numbers of its stream grow.                         *)
(***************************************************************************)
EXTENDS AgentSubprocess, SequenceTheorems, TLAPS

\* The control facts the stream invariants rest on: only a running handler has
\* a Send in flight, a stopped relay has emptied a closed channel, and the peer
\* knows of the report once it arrived.
Control ==
    /\ phase # "running" => InFlight = {}
    /\ peerEnd = "none" => \A e \in arrived : e.by # Runner
    /\ relay = "stopped" => SendChClosed /\ sendCh = <<>>

IInv == TypeOK /\ Control /\ InOrder /\ TerminalIsLast

-----------------------------------------------------------------------------
(* Lemmas on events and on the channel that holds them.                     *)

\* An event that Send or RunHandler builds is an Event, and a Send in flight is
\* not NoEvent.
LEMMA NumberedEvent ==
    ASSUME NEW by \in Source, NEW n \in Nat, NEW k \in Kinds
    PROVE  /\ [by |-> by, seq |-> n + 1, kind |-> k] \in Event
           /\ [by |-> by, seq |-> n + 1, kind |-> k] # NoEvent
    BY DEF Event, NoEvent

LEMMA NoEventType == NoEvent \in Event
    BY DEF NoEvent, Event, Source, Kinds, Ordinary

\* The events on their way, in any state of the right type.
LEMMA EventFacts ==
    ASSUME TypeOK
    PROVE  /\ Len(sendCh) \in Nat
           /\ \A i \in 1..Len(sendCh) : sendCh[i] \in Event /\ sendCh[i].seq \in Nat
           /\ \A i \in 1..Len(sendCh) : sendCh[i].by \in Source /\ sendCh[i].kind \in Kinds
           /\ \A e \in arrived : e.seq \in Nat /\ e.by \in Source
           /\ \A g \in Sender : sendCall[g] \in Event /\ sendCall[g].seq \in Nat
  <1>1. \A i \in 1..Len(sendCh) : sendCh[i] \in Event
      BY DEF TypeOK
  <1>2. \A e \in Event : e.seq \in Nat /\ e.by \in Source /\ e.kind \in Kinds
      BY DEF Event
  <1>3. \A g \in Sender : sendCall[g] \in Event
      BY DEF TypeOK
  <1> QED
      BY <1>1, <1>2, <1>3 DEF TypeOK

\* A fresh number comes after every number taken.
LEMMA FreshIsLater ==
    ASSUME NEW n \in Nat, NEW e, NEW f, e.seq \in Nat, e.seq <= n, f.seq = n + 1
    PROVE  Stream!Before(e, f) /\ e.seq <= n + 1 /\ e.seq # n + 1
    BY DEF Stream!Before

\* What arrives is the stamp of an event, which is ordered as the event is.
Stamp(e) == [by |-> e.by, seq |-> e.seq]

LEMMA StampOrder ==
    ASSUME NEW e, NEW f
    PROVE  Stream!Before(Stamp(e), f) <=> Stream!Before(e, f)
    BY DEF Stream!Before, Stamp

\* The channel after an event went in ...
LEMMA Appended ==
    ASSUME TypeOK, NEW f \in Event, sendCh' = Append(sendCh, f)
    PROVE  /\ sendCh' \in Seq(Event)
           /\ Len(sendCh') = Len(sendCh) + 1
           /\ sendCh'[Len(sendCh) + 1] = f
           /\ \A i \in 1..Len(sendCh) : sendCh'[i] = sendCh[i]
           /\ \A i \in 1..Len(sendCh') :
                \/ i \in 1..Len(sendCh) /\ sendCh'[i] = sendCh[i] /\ i < Len(sendCh')
                \/ i = Len(sendCh') /\ sendCh'[i] = f
  <1>1. /\ sendCh' \in Seq(Event) /\ Len(sendCh') = Len(sendCh) + 1
        /\ sendCh'[Len(sendCh) + 1] = f
        /\ \A i \in 1..Len(sendCh) : sendCh'[i] = sendCh[i]
      BY AppendProperties DEF TypeOK
  <1>2. Len(sendCh) \in Nat
      BY EventFacts
  <1> QED
      BY <1>1, <1>2

\* ... and after the first one was taken.
LEMMA Taken ==
    ASSUME TypeOK, sendCh # <<>>, sendCh' = Tail(sendCh)
    PROVE  /\ sendCh' \in Seq(Event)
           /\ Head(sendCh) = sendCh[1] /\ 1 \in 1..Len(sendCh)
           /\ Len(sendCh') = Len(sendCh) - 1
           /\ \A i \in 1..Len(sendCh') :
                /\ i \in Nat /\ i + 1 \in 1..Len(sendCh) /\ 1 < i + 1
                /\ sendCh'[i] = sendCh[i + 1]
  <1>1. /\ sendCh' \in Seq(Event) /\ Head(sendCh) = sendCh[1]
        /\ Len(sendCh) \in Nat /\ Len(sendCh) > 0
        /\ Len(sendCh') = Len(sendCh) - 1
        /\ \A i \in 1..(Len(sendCh) - 1) : sendCh'[i] = sendCh[i + 1]
      BY HeadTailProperties DEF TypeOK
  <1> QED
      BY <1>1

-----------------------------------------------------------------------------
(* The steps, as far as events are concerned.                               *)

\* The consumer takes an event, which reaches the peer or is lost.
Takes ==
    /\ sendCh # <<>> /\ sendCh' = Tail(sendCh)
    /\ Pass(Head(sendCh)) \/ UNCHANGED <<arrived, peerEnd>>
    /\ relay \in {"publishing", "draining", "collecting"} /\ relay' = relay
    /\ UNCHANGED <<sequence, sendCall, phase, result>>

\* Nothing that concerns events happens.
Quiet ==
    /\ UNCHANGED <<sequence, sendCh, sendCall, phase, result, arrived, peerEnd>>
    /\ \/ relay' = relay
       \/ relay = "unstarted" /\ relay' \in {"publishing", "draining", "collecting"}

CallsSend == \E g \in Sender : \E kind \in Kinds : CallSend(g, kind)
Enqueues  == \E g \in Sender : SendEnqueues(g)
Aborts    == \E g \in Sender : SendAborts(g)
Returns   == \E r \in Results : HandlerReturns(r)

LEMMA StepCases ==
    ASSUME [Next]_vars
    PROVE  \/ CallsSend \/ Enqueues \/ Aborts \/ Returns \/ ReportTerminal
           \/ CleanUp \/ Takes \/ RelayStop \/ Quiet
  <1>1. CASE CallReceive \/ ReceiveReturns
      BY <1>1 DEF CallReceive, ReceiveReturns, relayVars, Quiet
  <1>2. CASE DeliverMessage \/ Cancel
      BY <1>2 DEF DeliverMessage, Cancel, handlerVars, relayVars, Quiet
  <1>3. CASE RelayStart
      BY <1>3 DEF RelayStart, handlerVars, Quiet
  <1>4. CASE Publish \/ Drain \/ Collect
      BY <1>4 DEF Publish, Drain, Collect, handlerVars, relayVars, Takes
  <1>5. CASE UNCHANGED vars
      BY <1>5 DEF vars, Quiet
  <1> QED
      BY <1>1, <1>2, <1>3, <1>4, <1>5
      DEF Next, SessionApi, Consume, CallsSend, Enqueues, Aborts, Returns

\* A number is taken for an event that stays in flight.
LEMMA CallFacts ==
    ASSUME TypeOK, NEW g \in Sender, NEW kind \in Kinds, CallSend(g, kind)
    PROVE  /\ sequence \in Nat /\ sequence' = sequence + 1
           /\ sendCall' \in [Sender -> Event]
           /\ sendCall'[g].by = g /\ sendCall'[g].seq = sequence + 1
           /\ \A h \in Sender : h # g => sendCall'[h] = sendCall[h]
           /\ InFlight' = InFlight \cup {g}
           /\ phase = "running"
           /\ UNCHANGED <<sendCh, phase, result, relay, arrived, peerEnd>>
  <1> DEFINE f == [by |-> g, seq |-> sequence + 1, kind |-> kind]
  <1>1. f \in Event /\ f # NoEvent /\ sequence \in Nat
      BY NumberedEvent DEF TypeOK, Source
  <1>2. sendCall' = [sendCall EXCEPT ![g] = f] /\ sendCall \in [Sender -> Event]
      BY DEF CallSend, TypeOK
  <1>3. f.by = g /\ f.seq = sequence + 1
      OBVIOUS
  <1> HIDE DEF f
  <1>4. sendCall' \in [Sender -> Event] /\ sendCall'[g] = f
        /\ \A h \in Sender : h # g => sendCall'[h] = sendCall[h]
      BY <1>1, <1>2
  <1>5. InFlight' = InFlight \cup {g}
      BY <1>1, <1>4 DEF InFlight
  <1> QED
      BY <1>1, <1>3, <1>4, <1>5 DEF CallSend, relayVars

\* A Send that returns leaves the others in flight.
LEMMA ReturnFacts ==
    ASSUME TypeOK, NEW g \in Sender, SendEnqueues(g) \/ SendAborts(g)
    PROVE  /\ g \in InFlight
           /\ sendCall' \in [Sender -> Event]
           /\ \A h \in Sender : h # g => sendCall'[h] = sendCall[h]
           /\ InFlight' = InFlight \ {g}
           /\ UNCHANGED <<sequence, phase, result, relay, arrived, peerEnd>>
  <1>1. sendCall' = [sendCall EXCEPT ![g] = NoEvent] /\ sendCall \in [Sender -> Event]
        /\ sendCall[g] # NoEvent
      BY DEF SendEnqueues, SendAborts, TypeOK
  <1>2. sendCall' \in [Sender -> Event] /\ sendCall'[g] = NoEvent
        /\ \A h \in Sender : h # g => sendCall'[h] = sendCall[h]
      BY <1>1, NoEventType
  <1>3. g \in InFlight /\ InFlight' = InFlight \ {g}
      BY <1>1, <1>2 DEF InFlight
  <1> QED
      BY <1>2, <1>3 DEF SendEnqueues, SendAborts, relayVars

\* The report of the end, queued or dropped.
LEMMA ReportFacts ==
    ASSUME IInv, ReportTerminal
    PROVE  /\ sequence \in Nat /\ sequence' = sequence + 1
           /\ phase = "returned" /\ phase' = "reported"
           /\ InFlight = {} /\ InFlight' = {} /\ peerEnd = "none"
           /\ UNCHANGED <<sendCall, result, relay, arrived, peerEnd>>
           /\ \/ sendCh' = sendCh
              \/ \E f \in Event : /\ sendCh' = Append(sendCh, f)
                                  /\ f.by = Runner /\ f.seq = sequence + 1
                                  /\ f.kind = TerminalKind(result)
  <1> DEFINE f == [by |-> Runner, seq |-> sequence + 1, kind |-> TerminalKind(result)]
  <1>1. sequence \in Nat /\ f \in Event
      BY NumberedEvent DEF IInv, TypeOK, Source, TerminalKind, Terminal, Kinds
  <1>2. f.by = Runner /\ f.seq = sequence + 1 /\ f.kind = TerminalKind(result)
      OBVIOUS
  <1>3. sendCh' = sendCh \/ sendCh' = Append(sendCh, f)
      BY DEF ReportTerminal
  <1> HIDE DEF f
  <1>4. phase = "returned" /\ phase' = "reported" /\ sendCall' = sendCall
      BY DEF ReportTerminal
  <1>5. InFlight = {} /\ InFlight' = {} /\ peerEnd = "none"
      BY <1>4 DEF IInv, Control, InFlight, TerminalIsLast, ReportSentLast, Over
  <1> QED
      BY <1>1, <1>2, <1>3, <1>4, <1>5 DEF ReportTerminal, relayVars

-----------------------------------------------------------------------------
(* Type correctness.                                                        *)

LEMMA InitTypeOK == Init => TypeOK
  <1> SUFFICES ASSUME Init PROVE TypeOK
      OBVIOUS
  <1>1. sendCh \in Seq(Event)
      BY DEF Init
  <1>2. sendCall \in [Sender -> Event]
      BY NoEventType DEF Init
  <1> QED
      BY <1>1, <1>2 DEF Init, TypeOK, Phases, Relays

\* What the consumer passes on has the type of what arrives.
LEMMA PassTypes ==
    ASSUME TypeOK, sendCh # <<>>,
           Pass(Head(sendCh)) \/ UNCHANGED <<arrived, peerEnd>>
    PROVE  arrived' \subseteq [by : Source, seq : Nat] /\ peerEnd' \in Kinds \cup {"none"}
  <1>1. Head(sendCh) \in Event
      BY HeadTailProperties DEF TypeOK
  <1>2. /\ Head(sendCh).by \in Source /\ Head(sendCh).seq \in Nat
        /\ Head(sendCh).kind \in Kinds
      BY <1>1 DEF Event
  <1> QED
      BY <1>2 DEF TypeOK, Pass

LEMMA StepTypeOK == TypeOK /\ [Next]_vars => TypeOK'
  <1> SUFFICES ASSUME TypeOK, [Next]_vars PROVE TypeOK'
      OBVIOUS
  <1> USE DEF TypeOK
  <1>1. ASSUME NEW g \in Sender, NEW kind \in Kinds, CallSend(g, kind) PROVE TypeOK'
    <2>1. sequence' \in Nat /\ sendCall' \in [Sender -> Event]
        BY <1>1, CallFacts
    <2> QED
        BY <1>1, <2>1 DEF CallSend, relayVars
  <1>2. ASSUME NEW g \in Sender, SendEnqueues(g) PROVE TypeOK'
    <2>1. sendCall' \in [Sender -> Event]
        BY <1>2, ReturnFacts
    <2>2. sendCh' \in Seq(Event)
        BY <1>2, EventFacts, Appended DEF SendEnqueues
    <2> QED
        BY <1>2, <2>1, <2>2 DEF SendEnqueues, relayVars
  <1>3. ASSUME NEW g \in Sender, SendAborts(g) PROVE TypeOK'
    <2>1. sendCall' \in [Sender -> Event]
        BY <1>3, ReturnFacts
    <2> QED
        BY <1>3, <2>1 DEF SendAborts, relayVars
  <1>4. CASE CallReceive
      BY <1>4 DEF CallReceive, relayVars
  <1>5. CASE ReceiveReturns
    <2>1. inbox' \in Nat
        BY <1>5 DEF ReceiveReturns
    <2> QED
        BY <1>5, <2>1 DEF ReceiveReturns, relayVars
  <1>6. CASE DeliverMessage
      BY <1>6 DEF DeliverMessage, handlerVars, relayVars
  <1>7. CASE Cancel
      BY <1>7 DEF Cancel, handlerVars, relayVars
  <1>8. ASSUME NEW r \in Results, HandlerReturns(r) PROVE TypeOK'
      BY <1>8 DEF HandlerReturns, relayVars, Phases
  <1>9. CASE ReportTerminal
    <2> DEFINE f == [by |-> Runner, seq |-> sequence + 1, kind |-> TerminalKind(result)]
    <2>1. f \in Event
        BY NumberedEvent DEF Source, TerminalKind, Terminal, Kinds
    <2>2. sendCh' = sendCh \/ sendCh' = Append(sendCh, f)
        BY <1>9 DEF ReportTerminal
    <2> HIDE DEF f
    <2>3. sendCh' \in Seq(Event)
      <3>1. CASE sendCh' = Append(sendCh, f)
          BY <2>1, <3>1, Appended
      <3>2. sendCh \in Seq(Event)
          OBVIOUS
      <3> QED
          BY <2>2, <3>1, <3>2, Zenon
    <2>4. reported' \in BOOLEAN
        BY <1>9 DEF ReportTerminal
    <2> QED
        BY <1>9, <2>3, <2>4 DEF ReportTerminal, relayVars, Phases
  <1>10. CASE CleanUp
      BY <1>10 DEF CleanUp, relayVars, Phases
  <1>11. CASE RelayStart
      BY <1>11 DEF RelayStart, handlerVars, Relays
  <1>12. CASE Publish \/ Collect
    <2>1. arrived' \subseteq [by : Source, seq : Nat] /\ peerEnd' \in Kinds \cup {"none"}
        BY <1>12, PassTypes DEF Publish, Collect
    <2>2. sendCh' \in Seq(Event)
        BY <1>12, Taken DEF Publish, Collect
    <2>3. ctxDone' \in BOOLEAN
        BY <1>12, Zenon DEF Publish, Collect
    <2> QED
        BY <1>12, <2>1, <2>2, <2>3 DEF Publish, Collect, handlerVars
  <1>13. CASE Drain
      BY <1>13, Taken DEF Drain, handlerVars, relayVars
  <1>14. CASE RelayStop
      BY <1>14 DEF RelayStop, handlerVars, Relays
  <1>15. CASE UNCHANGED vars
      BY <1>15 DEF vars
  <1> QED
      BY <1>1, <1>2, <1>3, <1>4, <1>5, <1>6, <1>7, <1>8, <1>9, <1>10, <1>11,
         <1>12, <1>13, <1>14, <1>15
      DEF Next, SessionApi, Consume

\* Every reachable state has its type.
THEOREM TypeCorrect == Spec => []TypeOK
  <1> QED
      BY InitTypeOK, StepTypeOK, PTL DEF Spec

-----------------------------------------------------------------------------
(* The inductive invariant.                                                 *)

LEMMA InitIInv == Init => IInv
  <1> SUFFICES ASSUME Init PROVE IInv
      OBVIOUS
  <1>1. TypeOK
      BY InitTypeOK
  <1>2. InFlight = {} /\ Len(sendCh) = 0 /\ arrived = {}
      BY DEF Init, InFlight
  <1>3. Control
      BY <1>2 DEF Init, Control
  <1>4. InOrder
      BY <1>2 DEF InOrder, NumbersTaken, ChannelOrder, FlightOrder
  <1>5. TerminalIsLast
      BY <1>2 DEF Init, TerminalIsLast, ReportQueuedLast, ReportSentLast
  <1> QED
      BY <1>1, <1>3, <1>4, <1>5 DEF IInv

LEMMA StepControl == IInv /\ [Next]_vars => Control'
  <1> SUFFICES ASSUME IInv, [Next]_vars PROVE Control'
      OBVIOUS
  <1> USE DEF Control, SendChClosed
  <1>0. TypeOK /\ Control
      BY DEF IInv
  <1>1. ASSUME NEW g \in Sender, NEW kind \in Kinds, CallSend(g, kind) PROVE Control'
      BY <1>0, <1>1, CallFacts
  <1>2. ASSUME NEW g \in Sender, SendEnqueues(g) PROVE Control'
    <2>1. phase = "running"
        BY <1>0, <1>2, ReturnFacts
    <2> QED
        BY <1>0, <1>2, <2>1, ReturnFacts
  <1>3. ASSUME NEW g \in Sender, SendAborts(g) PROVE Control'
    <2>1. phase = "running"
        BY <1>0, <1>3, ReturnFacts
    <2> QED
        BY <1>0, <1>3, <2>1, ReturnFacts
  <1>4. CASE Returns
      BY <1>0, <1>4 DEF Returns, HandlerReturns, relayVars, InFlight
  <1>5. CASE ReportTerminal
      BY <1>0, <1>5, ReportFacts
  <1>6. CASE CleanUp
      BY <1>0, <1>6 DEF CleanUp, relayVars, InFlight
  <1>7. CASE Takes
    <2>1. InFlight' = InFlight /\ UNCHANGED phase /\ relay' # "stopped"
        BY <1>7 DEF Takes, InFlight
    <2>2. sendCh[1].kind # "none" /\ Head(sendCh) = sendCh[1]
      <3>1. Head(sendCh) = sendCh[1] /\ sendCh[1].kind \in Kinds
          BY <1>0, <1>7, Taken, EventFacts DEF Takes
      <3> QED
          BY <3>1 DEF Kinds, Ordinary, Terminal
    <2>3. peerEnd' = "none" => \A e \in arrived' : e.by # Runner
      <3>1. CASE Pass(Head(sendCh))
          BY <1>0, <2>2, <3>1 DEF Pass
      <3>2. CASE UNCHANGED <<arrived, peerEnd>>
          BY <1>0, <3>2
      <3> QED
          BY <1>7, <3>1, <3>2 DEF Takes
    <2> QED
        BY <1>0, <2>1, <2>3
  <1>8. CASE RelayStop
      BY <1>0, <1>8 DEF RelayStop, handlerVars, InFlight
  <1>9. CASE Quiet
      BY <1>0, <1>9 DEF Quiet, InFlight
  <1> QED
      BY <1>1, <1>2, <1>3, <1>4, <1>5, <1>6, <1>7, <1>8, <1>9, StepCases
      DEF CallsSend, Enqueues, Aborts

-----------------------------------------------------------------------------
(* Order.                                                                   *)

\* An event that goes into the channel from a Send in flight.
LEMMA EnqueueKeepsOrder ==
    ASSUME TypeOK, InOrder, NEW g \in Sender, SendEnqueues(g)
    PROVE  InOrder'
  <1> DEFINE f == sendCall[g]
  <1>1. /\ g \in InFlight /\ InFlight' = InFlight \ {g}
        /\ \A h \in Sender : h # g => sendCall'[h] = sendCall[h]
        /\ UNCHANGED <<sequence, arrived>>
      BY ReturnFacts
  <1>2. f \in Event /\ sendCh' = Append(sendCh, f)
      BY EventFacts DEF SendEnqueues
  <1>3. /\ \A e \in arrived : Stream!Before(e, f)
        /\ \A i \in 1..Len(sendCh) : Stream!Before(sendCh[i], f)
        /\ f.by = g /\ f.seq <= sequence
        /\ \A h \in InFlight \ {g} : f.seq # sendCall[h].seq
      BY <1>1 DEF InOrder, FlightOrder, NumbersTaken
  <1> HIDE DEF f
  <1>4. \A i \in 1..Len(sendCh') :
          \/ i \in 1..Len(sendCh) /\ sendCh'[i] = sendCh[i] /\ i < Len(sendCh')
          \/ i = Len(sendCh') /\ sendCh'[i] = f
      BY <1>2, Appended
  <1>5. \A h \in InFlight' : h \in InFlight \ {g} /\ sendCall'[h] = sendCall[h]
      BY <1>1 DEF InFlight
  <1>6. NumbersTaken'
      BY <1>1, <1>3, <1>4, <1>5 DEF InOrder, NumbersTaken
  <1>7. ChannelOrder'
    <2>1. \A i \in 1..Len(sendCh') : \A e \in arrived' : Stream!Before(e, sendCh'[i])
        BY <1>1, <1>3, <1>4 DEF InOrder, ChannelOrder
    <2>2. ASSUME NEW i \in 1..Len(sendCh'), NEW j \in 1..Len(sendCh'), i < j
          PROVE  Stream!Before(sendCh'[i], sendCh'[j])
      <3>1. i \in 1..Len(sendCh) /\ sendCh'[i] = sendCh[i]
          BY <1>4, <2>2
      <3>2. CASE j \in 1..Len(sendCh) /\ sendCh'[j] = sendCh[j]
          BY <2>2, <3>1, <3>2 DEF InOrder, ChannelOrder
      <3>3. CASE sendCh'[j] = f
          BY <1>3, <3>1, <3>3
      <3> QED
          BY <1>4, <3>2, <3>3
    <2> QED
        BY <2>1, <2>2 DEF ChannelOrder
  <1>8. FlightOrder'
    <2> SUFFICES ASSUME NEW h \in InFlight'
                 PROVE  /\ \A e \in arrived' : Stream!Before(e, sendCall'[h])
                        /\ \A i \in 1..Len(sendCh') : Stream!Before(sendCh'[i], sendCall'[h])
                        /\ \A k \in InFlight' \ {h} : sendCall'[h].seq # sendCall'[k].seq
        BY DEF FlightOrder
    <2>1. h \in InFlight \ {g} /\ sendCall'[h] = sendCall[h]
        BY <1>5
    <2>2. /\ \A e \in arrived : Stream!Before(e, sendCall[h])
          /\ \A i \in 1..Len(sendCh) : Stream!Before(sendCh[i], sendCall[h])
          /\ \A k \in InFlight \ {h} : sendCall[h].seq # sendCall[k].seq
        BY <2>1 DEF InOrder, FlightOrder
    <2>3. Stream!Before(f, sendCall[h])
      <3>1. f.by # sendCall[h].by
          BY <1>3, <2>1 DEF InOrder, NumbersTaken
      <3> QED
          BY <1>3, <2>1, <3>1 DEF Stream!Before
    <2>4. \A i \in 1..Len(sendCh') : Stream!Before(sendCh'[i], sendCall'[h])
        BY <1>4, <2>1, <2>2, <2>3
    <2>5. \A k \in InFlight' \ {h} : sendCall'[h].seq # sendCall'[k].seq
        BY <1>5, <2>1, <2>2
    <2> QED
        BY <1>1, <2>1, <2>2, <2>4, <2>5
  <1> QED
      BY <1>6, <1>7, <1>8 DEF InOrder

\* Taking the first event keeps the order, whether it arrives or not.
LEMMA TakeKeepsOrder ==
    ASSUME TypeOK, InOrder, Takes
    PROVE  InOrder'
  <1>1. /\ Head(sendCh) = sendCh[1] /\ 1 \in 1..Len(sendCh)
        /\ \A i \in 1..Len(sendCh') :
             /\ i \in Nat /\ i + 1 \in 1..Len(sendCh) /\ 1 < i + 1
             /\ sendCh'[i] = sendCh[i + 1]
      BY Taken DEF Takes
  <1>2. UNCHANGED <<sequence, sendCall>> /\ InFlight' = InFlight
      BY DEF Takes, InFlight
  <1>3. \A e \in arrived' : e \in arrived \/ e = Stamp(sendCh[1])
      BY <1>1 DEF Takes, Pass, Stamp
  <1>4. Stamp(sendCh[1]).seq = sendCh[1].seq
      BY DEF Stamp
  <1>5. NumbersTaken'
    <2>1. \A e \in arrived' : e.seq <= sequence
        BY <1>1, <1>3, <1>4 DEF InOrder, NumbersTaken
    <2>2. \A i \in 1..Len(sendCh') : sendCh'[i].seq <= sequence
        BY <1>1 DEF InOrder, NumbersTaken
    <2> QED
        BY <1>2, <2>1, <2>2 DEF InOrder, NumbersTaken
  <1>6. ChannelOrder'
    <2>1. ASSUME NEW i \in 1..Len(sendCh'), NEW e \in arrived'
          PROVE  Stream!Before(e, sendCh'[i])
      <3>1. i + 1 \in 1..Len(sendCh) /\ 1 < i + 1 /\ sendCh'[i] = sendCh[i + 1]
          BY <1>1
      <3>2. CASE e \in arrived
          BY <3>1, <3>2 DEF InOrder, ChannelOrder
      <3>3. CASE e = Stamp(sendCh[1])
        <4>1. Stream!Before(sendCh[1], sendCh[i + 1])
            BY <1>1, <3>1 DEF InOrder, ChannelOrder
        <4> QED
            BY <3>1, <3>3, <4>1, StampOrder
      <3> QED
          BY <1>3, <3>2, <3>3
    <2>2. ASSUME NEW i \in 1..Len(sendCh'), NEW j \in 1..Len(sendCh'), i < j
          PROVE  Stream!Before(sendCh'[i], sendCh'[j])
      <3>1. /\ i + 1 \in 1..Len(sendCh) /\ sendCh'[i] = sendCh[i + 1]
            /\ j + 1 \in 1..Len(sendCh) /\ sendCh'[j] = sendCh[j + 1]
            /\ i + 1 < j + 1
          BY <1>1, <2>2
      <3> QED
          BY <3>1 DEF InOrder, ChannelOrder
    <2> QED
        BY <2>1, <2>2 DEF ChannelOrder
  <1>7. FlightOrder'
    <2>1. ASSUME NEW g \in InFlight
          PROVE  /\ \A e \in arrived' : Stream!Before(e, sendCall[g])
                 /\ \A i \in 1..Len(sendCh') : Stream!Before(sendCh'[i], sendCall[g])
                 /\ \A h \in InFlight \ {g} : sendCall[g].seq # sendCall[h].seq
      <3>1. /\ \A e \in arrived : Stream!Before(e, sendCall[g])
            /\ \A i \in 1..Len(sendCh) : Stream!Before(sendCh[i], sendCall[g])
            /\ \A h \in InFlight \ {g} : sendCall[g].seq # sendCall[h].seq
          BY DEF InOrder, FlightOrder
      <3>2. Stream!Before(Stamp(sendCh[1]), sendCall[g])
          BY <1>1, <3>1, StampOrder
      <3>3. \A i \in 1..Len(sendCh') : Stream!Before(sendCh'[i], sendCall[g])
          BY <1>1, <3>1
      <3> QED
          BY <1>3, <3>1, <3>2, <3>3
    <2> QED
        BY <1>2, <2>1 DEF FlightOrder
  <1> QED
      BY <1>5, <1>6, <1>7 DEF InOrder

LEMMA StepInOrder == IInv /\ [Next]_vars => InOrder'
  <1> SUFFICES ASSUME IInv, [Next]_vars PROVE InOrder'
      OBVIOUS
  <1>0. TypeOK /\ InOrder
      BY DEF IInv
  <1> USE DEF InOrder
  <1>1. ASSUME NEW g \in Sender, NEW kind \in Kinds, CallSend(g, kind) PROVE InOrder'
    <2>1. /\ sequence \in Nat /\ sequence' = sequence + 1
          /\ sendCall'[g].by = g /\ sendCall'[g].seq = sequence + 1
          /\ \A h \in Sender : h # g => sendCall'[h] = sendCall[h]
          /\ InFlight' = InFlight \cup {g}
          /\ UNCHANGED <<sendCh, arrived>>
        BY <1>0, <1>1, CallFacts
    <2>2. g \notin InFlight
        BY <1>1 DEF CallSend, InFlight
    <2>3. \A h \in InFlight' : h = g \/ (h \in InFlight /\ h # g /\ sendCall'[h] = sendCall[h])
        BY <2>1, <2>2 DEF InFlight
    <2>4. /\ \A e \in arrived : /\ Stream!Before(e, sendCall'[g]) /\ e.seq <= sequence + 1
          /\ \A i \in 1..Len(sendCh) :
               Stream!Before(sendCh[i], sendCall'[g]) /\ sendCh[i].seq <= sequence + 1
          /\ \A h \in InFlight :
               sendCall[h].seq <= sequence + 1 /\ sendCall[h].seq # sequence + 1
      <3>1. \A e \in arrived : e.seq \in Nat /\ e.seq <= sequence
          BY <1>0, EventFacts DEF NumbersTaken
      <3>2. \A i \in 1..Len(sendCh) : sendCh[i].seq \in Nat /\ sendCh[i].seq <= sequence
          BY <1>0, EventFacts DEF NumbersTaken
      <3>3. \A h \in InFlight : sendCall[h].seq \in Nat /\ sendCall[h].seq <= sequence
          BY <1>0, EventFacts DEF NumbersTaken, InFlight
      <3> QED
          BY <2>1, <3>1, <3>2, <3>3, FreshIsLater
    <2>5. NumbersTaken'
        BY <1>0, <2>1, <2>3, <2>4 DEF NumbersTaken
    <2>6. ChannelOrder'
        BY <1>0, <2>1 DEF ChannelOrder
    <2>7. FlightOrder'
        BY <1>0, <2>1, <2>3, <2>4 DEF FlightOrder
    <2> QED
        BY <2>5, <2>6, <2>7
  <1>2. ASSUME NEW g \in Sender, SendEnqueues(g) PROVE InOrder'
      BY <1>0, <1>2, EnqueueKeepsOrder
  <1>3. ASSUME NEW g \in Sender, SendAborts(g) PROVE InOrder'
    <2>1. /\ UNCHANGED <<sendCh, sequence, arrived>>
          /\ \A h \in InFlight' : h \in InFlight /\ sendCall'[h] = sendCall[h]
      <3>1. sendCh' = sendCh
          BY <1>3 DEF SendAborts
      <3> QED
          BY <1>0, <1>3, <3>1, ReturnFacts DEF InFlight
    <2> QED
        BY <1>0, <2>1 DEF NumbersTaken, ChannelOrder, FlightOrder
  <1>4. CASE ReportTerminal
    <2>1. /\ sequence \in Nat /\ sequence' = sequence + 1
          /\ InFlight' = {} /\ UNCHANGED arrived
        BY <1>4, ReportFacts
    <2>2. FlightOrder'
        BY <2>1 DEF FlightOrder
    <2>3. \A e \in arrived : e.seq \in Nat /\ e.seq <= sequence
        BY <1>0, EventFacts DEF NumbersTaken
    <2>4. \A i \in 1..Len(sendCh) : sendCh[i].seq \in Nat /\ sendCh[i].seq <= sequence
        BY <1>0, EventFacts DEF NumbersTaken
    <2>5. CASE sendCh' = sendCh
      <3>1. NumbersTaken'
          BY <2>1, <2>3, <2>4, <2>5, FreshIsLater DEF NumbersTaken
      <3> QED
          BY <1>0, <2>1, <2>2, <2>5, <3>1 DEF ChannelOrder
    <2>6. ASSUME NEW f \in Event, sendCh' = Append(sendCh, f), f.seq = sequence + 1
          PROVE  InOrder'
      <3>1. \A i \in 1..Len(sendCh') :
              \/ i \in 1..Len(sendCh) /\ sendCh'[i] = sendCh[i] /\ i < Len(sendCh')
              \/ i = Len(sendCh') /\ sendCh'[i] = f
          BY <1>0, <2>6, Appended
      <3>2. /\ \A e \in arrived : Stream!Before(e, f) /\ e.seq <= sequence + 1
            /\ \A i \in 1..Len(sendCh) :
                   Stream!Before(sendCh[i], f) /\ sendCh[i].seq <= sequence + 1
          BY <2>1, <2>3, <2>4, <2>6, FreshIsLater
      <3>3. NumbersTaken'
        <4>1. sequence + 1 <= sequence + 1
            BY <2>1
        <4> QED
            BY <2>1, <2>6, <3>1, <3>2, <4>1 DEF NumbersTaken
      <3>4. \A i \in 1..Len(sendCh') : \A e \in arrived' : Stream!Before(e, sendCh'[i])
          BY <1>0, <2>1, <3>1, <3>2 DEF ChannelOrder
      <3>5. ASSUME NEW i \in 1..Len(sendCh'), NEW j \in 1..Len(sendCh'), i < j
            PROVE  Stream!Before(sendCh'[i], sendCh'[j])
        <4>1. i \in 1..Len(sendCh) /\ sendCh'[i] = sendCh[i]
            BY <3>1, <3>5
        <4>2. CASE j \in 1..Len(sendCh) /\ sendCh'[j] = sendCh[j]
            BY <1>0, <3>5, <4>1, <4>2 DEF ChannelOrder
        <4>3. CASE sendCh'[j] = f
            BY <3>2, <4>1, <4>3
        <4> QED
            BY <3>1, <4>2, <4>3
      <3> QED
          BY <2>2, <3>3, <3>4, <3>5 DEF ChannelOrder
    <2> QED
        BY <1>4, <2>5, <2>6, ReportFacts
  <1>5. CASE Takes
      BY <1>0, <1>5, TakeKeepsOrder
  <1>6. CASE Returns \/ CleanUp \/ RelayStop \/ Quiet
    <2>1. UNCHANGED <<sequence, sendCh, sendCall, arrived>>
        BY <1>6 DEF Returns, HandlerReturns, CleanUp, RelayStop, Quiet, handlerVars, relayVars
    <2>2. InFlight' = InFlight
        BY <2>1 DEF InFlight
    <2> QED
        BY <1>0, <2>1, <2>2 DEF NumbersTaken, ChannelOrder, FlightOrder
  <1> QED
      BY <1>1, <1>2, <1>3, <1>4, <1>5, <1>6, StepCases DEF CallsSend, Enqueues, Aborts

-----------------------------------------------------------------------------
(* The report of the end.                                                   *)

\* Taking the first event: the report can only be the first when it is the only
\* one, and what arrives before it has a smaller number.
LEMMA TakeKeepsReport ==
    ASSUME TypeOK, TerminalIsLast, Takes
    PROVE  TerminalIsLast'
  <1>1. /\ sendCh' \in Seq(Event)
        /\ Head(sendCh) = sendCh[1] /\ 1 \in 1..Len(sendCh)
        /\ Len(sendCh') = Len(sendCh) - 1
        /\ \A i \in 1..Len(sendCh') :
             /\ i \in Nat /\ i + 1 \in 1..Len(sendCh) /\ 1 < i + 1
             /\ sendCh'[i] = sendCh[i + 1]
      BY Taken DEF Takes
  <1>2. Len(sendCh) \in Nat
      BY EventFacts
  <1>3. peerEnd = "none"
      BY DEF Takes, TerminalIsLast, ReportSentLast
  <1>4. UNCHANGED <<sequence, phase, result>> /\ InFlight' = InFlight
      BY DEF Takes, InFlight
  <1>5. (Over' <=> Over) /\ TerminalKind(result)' = TerminalKind(result)
      BY <1>4 DEF Over, TerminalKind
  <1>6. \A e \in arrived' : e \in arrived \/ e = Stamp(sendCh[1])
      BY <1>1 DEF Takes, Pass, Stamp
  <1>7. Stamp(sendCh[1]).seq = sendCh[1].seq /\ Stamp(sendCh[1]).by = sendCh[1].by
      BY DEF Stamp
  <1>8. ReportQueuedLast'
    <2> SUFFICES ASSUME NEW i \in 1..Len(sendCh'), sendCh'[i].by = Runner
                 PROVE  /\ Over' /\ peerEnd' = "none"
                        /\ i = Len(sendCh')
                        /\ sendCh'[i].kind = TerminalKind(result)'
                        /\ sendCh'[i].seq = sequence'
                        /\ \A j \in 1..Len(sendCh') : j # i => sendCh'[j].seq < sequence'
                        /\ \A e \in arrived' : e.seq < sequence'
        BY DEF ReportQueuedLast
    <2>1. /\ i \in Nat /\ i + 1 \in 1..Len(sendCh) /\ 1 < i + 1
          /\ sendCh'[i] = sendCh[i + 1]
        BY <1>1
    <2>2. /\ Over /\ i + 1 = Len(sendCh)
          /\ sendCh[i + 1].kind = TerminalKind(result) /\ sendCh[i + 1].seq = sequence
          /\ \A j \in 1..Len(sendCh) : j # i + 1 => sendCh[j].seq < sequence
          /\ \A e \in arrived : e.seq < sequence
        BY <2>1 DEF TerminalIsLast, ReportQueuedLast
    <2>3. sendCh[1].seq < sequence
        BY <1>1, <2>1, <2>2
    <2>4. sendCh[1].by # Runner
      <3>1. sendCh[1].by = Runner => 1 = Len(sendCh)
          BY <1>1 DEF TerminalIsLast, ReportQueuedLast
      <3> QED
          BY <2>1, <2>2, <3>1
    <2>5. peerEnd' = "none"
        BY <1>1, <1>3, <2>4 DEF Takes, Pass
    <2>6. i = Len(sendCh')
        BY <1>1, <1>2, <2>1, <2>2
    <2>7. \A j \in 1..Len(sendCh') : j # i => sendCh'[j].seq < sequence'
      <3>1. ASSUME NEW j \in 1..Len(sendCh'), j # i PROVE sendCh'[j].seq < sequence'
        <4>1. j + 1 \in 1..Len(sendCh) /\ sendCh'[j] = sendCh[j + 1] /\ j + 1 # i + 1
            BY <1>1, <2>1, <3>1
        <4> QED
            BY <1>4, <2>2, <4>1
      <3> QED
          BY <3>1
    <2>8. \A e \in arrived' : e.seq < sequence'
        BY <1>4, <1>6, <1>7, <2>2, <2>3
    <2> QED
        BY <1>4, <1>5, <2>1, <2>2, <2>5, <2>6, <2>7, <2>8
  <1>9. ReportSentLast'
    <2> SUFFICES ASSUME peerEnd' # "none"
                 PROVE  /\ Over' /\ sendCh' = <<>>
                        /\ peerEnd' = TerminalKind(result)'
                        /\ \A e \in arrived' : e.by # Runner => e.seq < sequence'
        BY DEF ReportSentLast
    <2>1. sendCh[1].by = Runner /\ peerEnd' = sendCh[1].kind
        BY <1>1, <1>3 DEF Takes, Pass
    <2>2. /\ Over /\ 1 = Len(sendCh) /\ sendCh[1].kind = TerminalKind(result)
          /\ \A e \in arrived : e.seq < sequence
        BY <1>1, <2>1 DEF TerminalIsLast, ReportQueuedLast
    <2>3. sendCh' = <<>>
      <3>1. Len(sendCh') = 0
        <4>1. Len(sendCh) = 1 /\ Len(sendCh') = Len(sendCh) - 1
            BY <1>1, <2>2, Zenon
        <4> QED
            BY <4>1
      <3>2. \A q \in Seq(Event) : Len(q) = 0 => q = <<>>
          OBVIOUS
      <3> QED
          BY <1>1, <3>1, <3>2, Zenon
    <2>4. \A e \in arrived' : e.by # Runner => e.seq < sequence'
        BY <1>4, <1>6, <1>7, <2>1, <2>2
    <2> QED
        BY <1>5, <2>1, <2>2, <2>3, <2>4
  <1> QED
      BY <1>8, <1>9 DEF TerminalIsLast

LEMMA StepTerminalIsLast == IInv /\ [Next]_vars => TerminalIsLast'
  <1> SUFFICES ASSUME IInv, [Next]_vars PROVE TerminalIsLast'
      OBVIOUS
  <1>0. TypeOK /\ TerminalIsLast /\ InOrder
      BY DEF IInv
  <1> USE DEF TerminalIsLast
  \* While the handler may still send, no report is on its way.
  <1>1. ASSUME ~Over
        PROVE  peerEnd = "none" /\ \A i \in 1..Len(sendCh) : sendCh[i].by # Runner
      BY <1>0, <1>1 DEF ReportQueuedLast, ReportSentLast
  <1>2. ASSUME peerEnd' = "none", \A i \in 1..Len(sendCh') : sendCh'[i].by # Runner
        PROVE  TerminalIsLast'
      BY <1>2 DEF ReportQueuedLast, ReportSentLast
  <1>3. ASSUME NEW g \in Sender, NEW kind \in Kinds, CallSend(g, kind) PROVE TerminalIsLast'
    <2>1. UNCHANGED <<sendCh, peerEnd>> /\ ~Over
        BY <1>0, <1>3, CallFacts DEF Over
    <2> QED
        BY <1>1, <1>2, <2>1
  <1>4. ASSUME NEW g \in Sender, SendEnqueues(g) PROVE TerminalIsLast'
    <2>1. g \in InFlight /\ peerEnd' = peerEnd /\ ~Over
        BY <1>0, <1>4, ReturnFacts DEF Over
    <2>2. sendCall[g] \in Event /\ sendCall[g].by = g /\ g # Runner
        BY <1>0, <2>1, EventFacts, RunnerIsApart DEF InOrder, NumbersTaken
    <2>3. \A i \in 1..Len(sendCh') :
            \/ i \in 1..Len(sendCh) /\ sendCh'[i] = sendCh[i] /\ i < Len(sendCh')
            \/ i = Len(sendCh') /\ sendCh'[i] = sendCall[g]
        BY <1>0, <1>4, <2>2, Appended DEF SendEnqueues
    <2> QED
        BY <1>1, <1>2, <2>1, <2>2, <2>3
  <1>5. ASSUME NEW g \in Sender, SendAborts(g) PROVE TerminalIsLast'
    <2>1. g \in InFlight /\ peerEnd' = peerEnd /\ sendCh' = sendCh /\ ~Over
        BY <1>0, <1>5, ReturnFacts DEF Over, SendAborts
    <2> QED
        BY <1>1, <1>2, <2>1
  <1>6. CASE Returns
    <2>1. UNCHANGED <<sendCh, peerEnd>> /\ ~Over
        BY <1>6 DEF Returns, HandlerReturns, relayVars, Over
    <2> QED
        BY <1>1, <1>2, <2>1
  <1>7. CASE ReportTerminal
    <2>1. /\ sequence \in Nat /\ sequence' = sequence + 1
          /\ peerEnd' = "none" /\ Over' /\ ~Over /\ UNCHANGED <<arrived, result>>
        BY <1>7, ReportFacts DEF Over
    <2>2. CASE sendCh' = sendCh
        BY <1>1, <1>2, <2>1, <2>2
    <2>3. ASSUME NEW f \in Event, sendCh' = Append(sendCh, f),
                 f.seq = sequence + 1, f.kind = TerminalKind(result)
          PROVE  TerminalIsLast'
      <3>1. \A i \in 1..Len(sendCh') :
              \/ i \in 1..Len(sendCh) /\ sendCh'[i] = sendCh[i] /\ i < Len(sendCh')
              \/ i = Len(sendCh') /\ sendCh'[i] = f
          BY <1>0, <2>3, Appended
      <3>2. \A e \in arrived : e.seq < sequence'
          BY <1>0, <2>1, EventFacts DEF InOrder, NumbersTaken
      <3>3. \A i \in 1..Len(sendCh) : sendCh[i].seq < sequence'
          BY <1>0, <2>1, EventFacts DEF InOrder, NumbersTaken
      <3>4. TerminalKind(result)' = TerminalKind(result)
          BY <2>1 DEF TerminalKind
      <3>5. ReportQueuedLast'
          BY <1>1, <2>1, <2>3, <3>1, <3>2, <3>3, <3>4 DEF ReportQueuedLast
      <3> QED
          BY <2>1, <3>5 DEF ReportSentLast
    <2> QED
        BY <1>7, <2>2, <2>3, ReportFacts
  <1>8. CASE Takes
      BY <1>0, <1>8, TakeKeepsReport
  <1>9. CASE CleanUp \/ RelayStop \/ Quiet
    <2>1. UNCHANGED <<sequence, sendCh, sendCall, result, arrived, peerEnd>>
        BY <1>9 DEF CleanUp, RelayStop, Quiet, handlerVars, relayVars
    <2>2. Over => Over'
        BY <1>9, <2>1 DEF CleanUp, RelayStop, Quiet, handlerVars, Over, InFlight
    <2>3. TerminalKind(result)' = TerminalKind(result)
        BY <2>1 DEF TerminalKind
    <2> QED
        BY <1>0, <2>1, <2>2, <2>3 DEF ReportQueuedLast, ReportSentLast
  <1> QED
      BY <1>3, <1>4, <1>5, <1>6, <1>7, <1>8, <1>9, StepCases DEF CallsSend, Enqueues, Aborts

\* The conjunction is inductive and holds in every reachable state.
LEMMA StepIInv == IInv /\ [Next]_vars => IInv'
    BY StepTypeOK, StepControl, StepInOrder, StepTerminalIsLast DEF IInv

LEMMA Invariance == Spec => []IInv
  <1> QED
      BY InitIInv, StepIInv, PTL DEF Spec

\* However many goroutines send at once, no number is used twice and the events
\* of each of them reach the peer in the order in which it sent them.
THEOREM OrderPreserved == Spec => []InOrder
  <1>1. IInv => InOrder
      BY DEF IInv
  <1> QED
      BY Invariance, <1>1, PTL

\* The report of the end tells the handler's own outcome and nothing follows it.
THEOREM TerminalEventIsLast == Spec => []TerminalIsLast
  <1>1. IInv => TerminalIsLast
      BY DEF IInv
  <1> QED
      BY Invariance, <1>1, PTL

-----------------------------------------------------------------------------
(* Refinement: the peer sees an EventStream.                                *)

\* What an arrival is: one event, after all that arrived, on an open stream.
LEMMA ArrivalFacts ==
    ASSUME IInv, Takes, arrived' # arrived
    PROVE  /\ peerEnd = "none" /\ relay # "stopped" /\ relay' = relay
           /\ \E f \in [by : Source, seq : Nat] :
                /\ f \notin arrived /\ arrived' = arrived \cup {f}
                /\ \A e \in arrived : Stream!Before(e, f)
                /\ f.by = Runner => \A e \in arrived : e.seq < f.seq
                /\ peerEnd' # "none" <=> f.by = Runner
  <1> DEFINE f == Stamp(sendCh[1])
  <1>1. Head(sendCh) = sendCh[1] /\ 1 \in 1..Len(sendCh) /\ TypeOK
      BY Taken DEF Takes, IInv
  <1>2. sendCh[1].by \in Source /\ sendCh[1].seq \in Nat /\ sendCh[1].kind \in Kinds
      BY <1>1, EventFacts
  <1>3. f \in [by : Source, seq : Nat] /\ f.by = sendCh[1].by /\ f.seq = sendCh[1].seq
      BY <1>2 DEF Stamp
  <1>4. peerEnd = "none"
      BY DEF Takes, IInv, TerminalIsLast, ReportSentLast
  <1>5. arrived' = arrived \cup {f}
        /\ peerEnd' = IF sendCh[1].by = Runner THEN sendCh[1].kind ELSE peerEnd
      BY <1>1 DEF Takes, Pass, Stamp
  <1>6. \A e \in arrived : Stream!Before(e, sendCh[1])
      BY <1>1 DEF IInv, InOrder, ChannelOrder
  <1>7. f.by = Runner => \A e \in arrived : e.seq < f.seq
      BY <1>1, <1>3 DEF IInv, TerminalIsLast, ReportQueuedLast
  <1>8. "none" \notin Kinds
      BY DEF Kinds, Ordinary, Terminal
  <1>9. \A e \in arrived : Stream!Before(e, f)
      BY <1>3, <1>6 DEF Stream!Before
  <1>10. peerEnd' # "none" <=> f.by = Runner
      BY <1>2, <1>3, <1>4, <1>5, <1>8
  <1>11. f \notin arrived
      BY <1>5
  <1> HIDE DEF f
  <1> QED
      BY <1>3, <1>4, <1>5, <1>7, <1>9, <1>10, <1>11 DEF Takes

\* Only the consumer moves the stream.
LEMMA StreamMoves ==
    ASSUME IInv, [Next]_vars
    PROVE  \/ Takes /\ arrived' # arrived
           \/ RelayStop
           \/ /\ UNCHANGED <<arrived, peerEnd>>
              /\ relay' = relay \/ (relay # "stopped" /\ relay' # "stopped")
  <1>1. ASSUME Takes, arrived' = arrived PROVE UNCHANGED <<arrived, peerEnd, relay>>
    <2>1. Head(sendCh) = sendCh[1] /\ 1 \in 1..Len(sendCh)
        BY <1>1, Taken DEF IInv, Takes
    <2>2. CASE Pass(Head(sendCh))
      <3>1. Stamp(sendCh[1]) \in arrived
          BY <1>1, <2>1, <2>2 DEF Pass, Stamp
      <3>2. Stream!Before(Stamp(sendCh[1]), sendCh[1])
          BY <2>1, <3>1 DEF IInv, InOrder, ChannelOrder
      <3> QED
          BY <3>2, StampOrder DEF Stream!Before
    <2> QED
        BY <1>1, <2>2 DEF Takes
  <1>2. CASE CallsSend \/ Enqueues \/ Aborts
      BY <1>2 DEF CallsSend, Enqueues, Aborts, CallSend, SendEnqueues, SendAborts, relayVars
  <1>3. CASE Returns \/ ReportTerminal \/ CleanUp
      BY <1>3 DEF Returns, HandlerReturns, ReportTerminal, CleanUp, relayVars
  <1>4. CASE Quiet
      BY <1>4 DEF Quiet
  <1> QED
      BY <1>1, <1>2, <1>3, <1>4, StepCases

\* Every step is a step of the stream or leaves it unchanged.
LEMMA StepSimulation ==
    ASSUME IInv, [Next]_vars
    PROVE  [Stream!StreamNext]_(Stream!streamVars)
  <1> USE DEF Stream!StreamNext, Stream!streamVars, Stream!Deliver,
              Stream!DeliverTerminal, Stream!Arrive, Stream!End
  <1>1. CASE Takes /\ arrived' # arrived
    <2>1. PICK f \in [by : Source, seq : Nat] :
             /\ f \notin arrived /\ arrived' = arrived \cup {f}
             /\ \A e \in arrived : Stream!Before(e, f)
             /\ peerEnd' # "none" <=> f.by = Runner
        BY <1>1, ArrivalFacts
    <2>2. peerEnd = "none" /\ relay # "stopped" /\ relay' = relay
        BY <1>1, ArrivalFacts
    <2>3. f \in arrived' \ arrived /\ f.by \in Source /\ f.seq \in Nat
        BY <2>1
    <2> QED
        BY <2>1, <2>2, <2>3
  <1>2. CASE RelayStop
      BY <1>2 DEF RelayStop, Consuming
  <1>3. CASE UNCHANGED <<arrived, peerEnd>>
             /\ (relay' = relay \/ (relay # "stopped" /\ relay' # "stopped"))
      BY <1>3
  <1> QED
      BY <1>1, <1>2, <1>3, StreamMoves

\* The peer of a session observes an EventStream, for every capacity of the
\* channels, every number of sending goroutines and every type of event.
THEOREM ImplementsEventStream == Spec => PeerSeesEventStream
  <1>1. Init => Stream!StreamInit
      BY DEF Init, Stream!StreamInit
  <1>2. IInv /\ [Next]_vars => [Stream!StreamNext]_(Stream!streamVars)
      BY StepSimulation
  <1> QED
      BY <1>1, <1>2, Invariance, PTL
      DEF Spec, PeerSeesEventStream, Stream!StreamSpec

-----------------------------------------------------------------------------
(* The file-mode agent.                                                     *)

\* Reading the first n elements of a buffer at once.
LEMMA SplitFacts ==
    ASSUME NEW S, NEW s \in Seq(S), NEW n \in 1..Len(s)
    PROVE  /\ SubSeq(s, 1, n) \in Seq(S)
           /\ Len(SubSeq(s, 1, n)) = n
           /\ SubSeq(s, n + 1, Len(s)) \in Seq(S)
           /\ Len(SubSeq(s, n + 1, Len(s))) = Len(s) - n
    OBVIOUS

\* The handler, its reader and the session they share: RunHandler waits for as
\* long as the handler is not over, a Send is in flight exactly when the reader
\* waits in it, and the handler joins the reader before it returns.
BridgeControl ==
    /\ phase = "running" <=> bridge # "over"
    /\ reader = "sending" <=> sendCall[Bridge] # NoEvent
    /\ bridge = "starting" => reader = "none"
    /\ bridge \in {"joined", "cancelled", "over"} => reader \in {"none", "stopped"}

Writing == IF pyWrite = "none" THEN 0 ELSE 1

\* No line is sent twice: those sent, read, in the pipe and being written are
\* among the lines the process has begun.
LinesCounted ==
    /\ lines <= MaxEvents
    /\ bridge # "over" =>
         sequence + Len(readBuf) + Len(stdout) + Writing <= lines

SubIInv == SubTypeOK /\ BridgeControl /\ LinesCounted

-----------------------------------------------------------------------------
(* Type correctness.                                                        *)

LEMMA InitSubTypeOK == SubInit => SubTypeOK
  <1> SUFFICES ASSUME SubInit PROVE SubTypeOK
      OBVIOUS
  <1>1. TypeOK
      BY InitTypeOK DEF SubInit
  <1>2. stdout \in Seq(Lines) /\ readBuf \in Seq(Lines)
      BY DEF SubInit
  <1> QED
      BY <1>1, <1>2 DEF SubInit, SubTypeOK

\* A step of the rest of the Space is a step of the session.
LEMMA ElsewhereFacts ==
    ASSUME Elsewhere
    PROVE  /\ Next
           /\ UNCHANGED sendCall
           /\ phase' = "running" <=> phase = "running"
           /\ phase = "running" => sequence' = sequence
  <1>1. Next
      BY DEF Elsewhere, Next
  <1> QED
      BY <1>1
      DEF Elsewhere, DeliverMessage, Cancel, ReportTerminal, CleanUp, Consume,
          RelayStart, Publish, Drain, Collect, RelayStop, handlerVars, relayVars

\* A line the reader passes on is an event, and Send numbers it.
LEMMA ReaderSendFacts ==
    ASSUME SubTypeOK, ReaderCallsSend
    PROVE  /\ Head(readBuf) \in Kinds
           /\ readBuf' \in Seq(Lines) /\ Len(readBuf') = Len(readBuf) - 1
           /\ Len(readBuf) > 0
           /\ sendCall' \in [Sender -> Event] /\ sendCall'[Bridge] # NoEvent
           /\ sequence' = sequence + 1 /\ sequence \in Nat
  <1> DEFINE f == [by |-> Bridge, seq |-> sequence + 1, kind |-> Head(readBuf)]
  <1>1. readBuf \in Seq(Lines) /\ readBuf # <<>> /\ sequence \in Nat
      BY DEF ReaderCallsSend, SubTypeOK, TypeOK
  <1>2. f \in Event /\ f # NoEvent
      BY <1>1, NumberedEvent, OneSender DEF ReaderCallsSend, Source
  <1>3. sendCall' = [sendCall EXCEPT ![Bridge] = f] /\ sendCall \in [Sender -> Event]
        /\ Bridge \in Sender
      BY OneSender DEF ReaderCallsSend, SubTypeOK, TypeOK
  <1> HIDE DEF f
  <1>4. sendCall' \in [Sender -> Event] /\ sendCall'[Bridge] = f
      BY <1>2, <1>3
  <1> QED
      BY <1>1, <1>2, <1>4, HeadTailProperties DEF ReaderCallsSend

\* With one goroutine that sends, nothing is in flight when it has no event.
LEMMA BridgeInFlight == InFlight = {} <=> sendCall[Bridge] = NoEvent
    BY OneSender DEF InFlight

\* The return of the reader's Send is a step of the session.
LEMMA ReaderReturnFacts ==
    ASSUME SubTypeOK, ReaderSendReturns
    PROVE  /\ Next /\ sendCall'[Bridge] = NoEvent
           /\ UNCHANGED <<sequence, phase>>
  <1>1. SendEnqueues(Bridge) \/ SendAborts(Bridge)
      BY DEF ReaderSendReturns
  <1>2. Bridge \in Sender /\ sendCall \in [Sender -> Event]
      BY OneSender DEF SubTypeOK, TypeOK
  <1>3. Next
      BY <1>1, <1>2 DEF Next, SessionApi
  <1>4. sendCall' = [sendCall EXCEPT ![Bridge] = NoEvent] /\ UNCHANGED <<sequence, phase>>
      BY <1>1 DEF SendEnqueues, SendAborts
  <1> QED
      BY <1>2, <1>3, <1>4

\* The actions in which the bridge's own process, pipes and goroutines move and
\* the session does not.
OwnStep == StartProcess \/ WaitReturns \/ JoinReader \/ Process \/ ScanFills
           \/ ScanSkips \/ ScanStops \/ WriterEncodes

LEMMA OwnStepKeepsSession == OwnStep => UNCHANGED vars
    BY DEF OwnStep, StartProcess, WaitReturns, JoinReader, Process, ProcessBeginsLine,
           ProcessWritesLine, ProcessReceives, ChildStartsOrEnds, ProcessExits,
           Kill, ScanFills, ScanSkips, ScanStops, WriterEncodes

LEMMA OwnStepTypeOK ==
    ASSUME SubTypeOK, OwnStep
    PROVE  SubTypeOK'
  <1> USE DEF SubTypeOK, processVars, bridgeVars, readerVars
  <1>1. TypeOK'
      BY OwnStepKeepsSession, StepTypeOK
  <1>2. CASE StartProcess
      BY <1>1, <1>2 DEF StartProcess
  <1>3. CASE WaitReturns
    <2>1. waitErr' \in BOOLEAN
        BY <1>3 DEF WaitReturns
    <2> QED
        BY <1>1, <1>3, <2>1 DEF WaitReturns
  <1>4. CASE JoinReader
      BY <1>1, <1>4 DEF JoinReader
  <1>5. ASSUME NEW line \in Written, ProcessBeginsLine(line) PROVE SubTypeOK'
      BY <1>1, <1>5, WrittenAreLines DEF ProcessBeginsLine
  <1>6. CASE ProcessWritesLine
    <2>1. pyWrite \in Lines
        BY <1>6 DEF ProcessWritesLine
    <2>2. stdout' \in Seq(Lines)
        BY <1>6, <2>1, AppendProperties DEF ProcessWritesLine
    <2> QED
        BY <1>1, <1>6, <2>2 DEF ProcessWritesLine
  <1>7. CASE ProcessReceives
      BY <1>1, <1>7 DEF ProcessReceives
  <1>8. CASE ChildStartsOrEnds
    <2>1. children' \in BOOLEAN
        BY <1>8, Zenon DEF ChildStartsOrEnds
    <2> QED
        BY <1>1, <1>8, <2>1 DEF ChildStartsOrEnds
  <1>9. CASE ProcessExits \/ Kill
      BY <1>1, <1>9 DEF ProcessExits, Kill
  <1>10. CASE ScanFills
    <2>1. readBuf' \in Seq(Lines) /\ stdout' \in Seq(Lines)
        BY <1>10, SplitFacts DEF ScanFills
    <2> QED
        BY <1>1, <1>10, <2>1 DEF ScanFills
  <1>11. CASE ScanSkips
      BY <1>1, <1>11, HeadTailProperties DEF ScanSkips
  <1>12. CASE ScanStops
    <2>1. tooLong' \in BOOLEAN
        BY <1>12, Zenon DEF ScanStops
    <2> QED
        BY <1>1, <1>12, <2>1 DEF ScanStops
  <1>13. CASE WriterEncodes
      BY <1>1, <1>13 DEF WriterEncodes
  <1> QED
      BY <1>2, <1>3, <1>4, <1>5, <1>6, <1>7, <1>8, <1>9, <1>10, <1>11, <1>12, <1>13
      DEF OwnStep, Process

LEMMA StepSubTypeOK == SubTypeOK /\ [SubNext]_allVars => SubTypeOK'
  <1> SUFFICES ASSUME SubTypeOK, [SubNext]_allVars PROVE SubTypeOK'
      OBVIOUS
  <1> USE DEF SubTypeOK, processVars, bridgeVars, readerVars
  <1>1. CASE OwnStep
      BY <1>1, OwnStepTypeOK
  <1>2. CASE StartFails
      BY <1>2 DEF StartFails, TypeOK, relayVars, Phases, Results
  <1>3. CASE CancelOwnSession
      BY <1>3 DEF CancelOwnSession, TypeOK, handlerVars, relayVars
  <1>4. CASE Return
      BY <1>4 DEF Return, TypeOK, relayVars, Phases, Results
  <1>5. CASE ReaderCallsSend
    <2>1. sequence' \in Nat
        BY <1>5, ReaderSendFacts
    <2> QED
        BY <1>5, <2>1, ReaderSendFacts DEF ReaderCallsSend, TypeOK, relayVars
  <1>6. CASE ReaderSendReturns
    <2>1. Next
        BY <1>6, ReaderReturnFacts
    <2> QED
        BY <1>6, <2>1, StepTypeOK DEF ReaderSendReturns
  <1>7. CASE WriterCallsReceive
    <2>1. Next
        BY <1>7 DEF WriterCallsReceive, Next, SessionApi
    <2> QED
        BY <1>7, <2>1, StepTypeOK DEF WriterCallsReceive, subVars
  <1>8. CASE WriterReceiveReturns
    <2>1. Next
        BY <1>8 DEF WriterReceiveReturns, Next, SessionApi
    <2>2. writer' \in {"writing", "stopped"}
        BY <1>8 DEF WriterReceiveReturns
    <2> QED
        BY <1>8, <2>1, <2>2, StepTypeOK DEF WriterReceiveReturns
  <1>9. CASE Elsewhere /\ UNCHANGED subVars
      BY <1>9, ElsewhereFacts, StepTypeOK DEF subVars
  <1>10. CASE UNCHANGED allVars
      BY <1>10, StepTypeOK DEF allVars, subVars
  <1> QED
      BY <1>1, <1>2, <1>3, <1>4, <1>5, <1>6, <1>7, <1>8, <1>9, <1>10
      DEF SubNext, Handler, Reader, Writer, OwnStep

\* Every reachable state of the bridge has its type.
THEOREM SubTypeCorrect == SubSpec => []SubTypeOK
  <1> QED
      BY InitSubTypeOK, StepSubTypeOK, PTL DEF SubSpec

-----------------------------------------------------------------------------
(* The bridge is a handler.                                                 *)

LEMMA InitSubIInv == SubInit => SubIInv
  <1> SUFFICES ASSUME SubInit PROVE SubIInv
      OBVIOUS
  <1>1. SubTypeOK
      BY InitSubTypeOK
  <1>2. Len(readBuf) = 0 /\ Len(stdout) = 0
      BY DEF SubInit
  <1>3. BridgeControl
      BY OneSender DEF SubInit, Init, BridgeControl
  <1>4. LinesCounted
      BY <1>2, BoundsAreNat DEF SubInit, Init, LinesCounted, Writing
  <1> QED
      BY <1>1, <1>3, <1>4 DEF SubIInv

LEMMA StepBridgeControl == SubIInv /\ [SubNext]_allVars => BridgeControl'
  <1> SUFFICES ASSUME SubIInv, [SubNext]_allVars PROVE BridgeControl'
      OBVIOUS
  <1> USE DEF SubIInv, BridgeControl, vars
  <1>1. CASE Handler
      BY <1>1 DEF Handler, StartProcess, StartFails, WaitReturns, JoinReader,
                  CancelOwnSession, Return, handlerVars, processVars, readerVars
  <1>2. CASE Process
      BY <1>2 DEF Process, ProcessBeginsLine, ProcessWritesLine, ProcessReceives,
                  ChildStartsOrEnds, ProcessExits, Kill, bridgeVars, readerVars
  <1>3. CASE ScanFills \/ ScanSkips \/ ScanStops
      BY <1>3 DEF ScanFills, ScanSkips, ScanStops, bridgeVars, processVars
  <1>4. CASE ReaderCallsSend
    <2>1. sendCall'[Bridge] # NoEvent
        BY <1>4, ReaderSendFacts
    <2> QED
        BY <1>4, <2>1 DEF ReaderCallsSend, bridgeVars
  <1>5. CASE ReaderSendReturns
      BY <1>5, ReaderReturnFacts DEF ReaderSendReturns, bridgeVars
  <1>6. CASE Writer
      BY <1>6 DEF Writer, WriterCallsReceive, WriterReceiveReturns, WriterEncodes,
                  CallReceive, ReceiveReturns, bridgeVars, processVars, readerVars,
                  subVars
  <1>7. CASE Elsewhere /\ UNCHANGED subVars
      BY <1>7, ElsewhereFacts DEF subVars
  <1>8. CASE UNCHANGED allVars
      BY <1>8 DEF allVars, subVars
  <1> QED
      BY <1>1, <1>2, <1>3, <1>4, <1>5, <1>6, <1>7, <1>8 DEF SubNext, Reader

\* What the counted sum consists of.
LEMMA CountFacts ==
    ASSUME SubTypeOK
    PROVE  /\ sequence \in Nat /\ lines \in Nat /\ MaxEvents \in Nat
           /\ Len(readBuf) \in Nat /\ Len(stdout) \in Nat /\ Writing \in Nat
    BY BoundsAreNat DEF SubTypeOK, TypeOK, Writing

\* A step after which the lines on their way, and so the sum, are no more than
\* the process has begun.
LEMMA SumKept ==
    ASSUME SubIInv,
           lines' = lines,
           bridge' # "over" => bridge # "over",
           bridge # "over" =>
              sequence' + Len(readBuf)' + Len(stdout)' + Writing'
                <= sequence + Len(readBuf) + Len(stdout) + Writing,
           /\ sequence' \in Nat /\ Len(readBuf)' \in Nat
           /\ Len(stdout)' \in Nat /\ Writing' \in Nat
    PROVE  LinesCounted'
  <1>1. SubTypeOK /\ LinesCounted
      BY DEF SubIInv
  <1> HIDE DEF Writing
  <1>2. /\ sequence \in Nat /\ Len(readBuf) \in Nat /\ Len(stdout) \in Nat
        /\ Writing \in Nat /\ lines \in Nat
      BY <1>1, CountFacts DEF SubTypeOK
  <1>3. lines' <= MaxEvents
      BY <1>1 DEF LinesCounted
  <1>4. ASSUME bridge' # "over"
        PROVE  sequence' + Len(readBuf)' + Len(stdout)' + Writing' <= lines'
    <2>1. sequence + Len(readBuf) + Len(stdout) + Writing <= lines
        BY <1>1, <1>4 DEF LinesCounted
    <2> QED
        BY <1>2, <1>4, <2>1
  <1> QED
      BY <1>3, <1>4 DEF LinesCounted

LEMMA StepLinesCounted == SubIInv /\ [SubNext]_allVars => LinesCounted'
  <1> SUFFICES ASSUME SubIInv, [SubNext]_allVars PROVE LinesCounted'
      OBVIOUS
  <1>1. SubTypeOK /\ SubTypeOK' /\ LinesCounted
      BY StepSubTypeOK DEF SubIInv
  <1>2. /\ sequence \in Nat /\ lines \in Nat /\ MaxEvents \in Nat
        /\ Len(readBuf) \in Nat /\ Len(stdout) \in Nat /\ Writing \in Nat
        /\ sequence' \in Nat /\ Len(readBuf)' \in Nat
        /\ Len(stdout)' \in Nat /\ Writing' \in Nat
      BY <1>1, CountFacts, BoundsAreNat DEF SubTypeOK, TypeOK, Writing
  <1>3. ASSUME UNCHANGED <<lines, readBuf, stdout, pyWrite>>,
               bridge' # "over" => bridge # "over",
               bridge # "over" => sequence' = sequence
        PROVE  LinesCounted'
      BY <1>2, <1>3, SumKept DEF Writing
  <1>4. CASE Handler \/ ScanStops \/ Writer \/ ReaderSendReturns
    <2>1. UNCHANGED <<lines, readBuf, stdout, pyWrite, sequence>>
        BY <1>4 DEF Handler, StartProcess, StartFails, WaitReturns, JoinReader,
             CancelOwnSession, Return, ScanStops, Writer, WriterCallsReceive,
             WriterReceiveReturns, WriterEncodes, CallReceive, ReceiveReturns,
             ReaderSendReturns, SendEnqueues, SendAborts,
             vars, subVars, handlerVars, processVars, bridgeVars, readerVars
    <2>2. bridge' # "over" => bridge # "over"
        BY <1>4 DEF Handler, StartProcess, StartFails, WaitReturns, JoinReader,
             CancelOwnSession, Return, ScanStops, Writer, WriterCallsReceive,
             WriterReceiveReturns, WriterEncodes, ReaderSendReturns,
             subVars, bridgeVars
    <2> QED
        BY <1>3, <2>1, <2>2
  <1>5. ASSUME NEW line \in Written, ProcessBeginsLine(line) PROVE LinesCounted'
    <2>1. /\ lines < MaxEvents /\ lines' = lines + 1
          /\ UNCHANGED <<bridge, sequence, readBuf, stdout>>
        BY <1>5 DEF ProcessBeginsLine, vars, bridgeVars, readerVars
    <2>2. Writing = 0 /\ Writing' <= 1
        BY <1>5 DEF ProcessBeginsLine, Writing
    <2> HIDE DEF Writing
    <2> QED
        BY <1>1, <1>2, <2>1, <2>2 DEF LinesCounted
  <1>6. CASE ProcessWritesLine
    <2>1. Writing = 1 /\ Writing' = 0
        BY <1>6 DEF ProcessWritesLine, Writing
    <2>2. Len(stdout)' = Len(stdout) + 1
      <3>1. pyWrite \in Lines /\ stdout \in Seq(Lines)
          BY <1>1, <1>6 DEF ProcessWritesLine, SubTypeOK
      <3> QED
          BY <1>6, <3>1, AppendProperties DEF ProcessWritesLine
    <2>3. UNCHANGED <<bridge, sequence, readBuf, lines>>
        BY <1>6 DEF ProcessWritesLine, vars, bridgeVars, readerVars
    <2> HIDE DEF Writing
    <2> QED
        BY <1>2, <2>1, <2>2, <2>3, SumKept
  <1>7. CASE Kill
    <2>1. Writing' = 0
        BY <1>7 DEF Kill, Writing
    <2>2. UNCHANGED <<bridge, sequence, readBuf, stdout, lines>>
        BY <1>7 DEF Kill, vars, bridgeVars, readerVars
    <2> HIDE DEF Writing
    <2> QED
        BY <1>2, <2>1, <2>2, SumKept
  <1>8. CASE ProcessReceives \/ ChildStartsOrEnds \/ ProcessExits
      BY <1>3, <1>8 DEF ProcessReceives, ChildStartsOrEnds, ProcessExits, vars,
           bridgeVars, processVars, readerVars
  <1>9. CASE ScanFills
    <2>1. PICK n \in 1..Len(stdout) :
            readBuf' = SubSeq(stdout, 1, n) /\ stdout' = SubSeq(stdout, n + 1, Len(stdout))
        BY <1>9 DEF ScanFills
    <2>2. Len(readBuf)' = n /\ Len(stdout)' = Len(stdout) - n
        BY <1>1, <2>1, SplitFacts DEF SubTypeOK
    <2>3. Len(readBuf) = 0 /\ UNCHANGED <<bridge, sequence, lines, pyWrite>>
        BY <1>9 DEF ScanFills, vars, bridgeVars, processVars
    <2>4. Writing' = Writing
        BY <2>3 DEF Writing
    <2>5. n \in Nat /\ n - n = 0
        BY <1>2
    <2>6. sequence' + Len(readBuf)' + Len(stdout)' + Writing'
            = sequence + Len(readBuf) + Len(stdout) + Writing
      <3> HIDE DEF Writing
      <3> QED
          BY <1>2, <2>2, <2>3, <2>4, <2>5
    <2>7. UNCHANGED <<bridge, lines>>
        BY <2>3
    <2> HIDE DEF Writing
    <2> QED
        BY <1>2, <2>6, <2>7, SumKept
  <1>10. CASE ScanSkips
    <2>1. Len(readBuf)' = Len(readBuf) - 1
        BY <1>1, <1>10, HeadTailProperties DEF ScanSkips, SubTypeOK
    <2>2. UNCHANGED <<bridge, sequence, lines, stdout, pyWrite>>
        BY <1>10 DEF ScanSkips, vars, bridgeVars, processVars
    <2>3. Writing' = Writing
        BY <2>2 DEF Writing
    <2> HIDE DEF Writing
    <2> QED
        BY <1>2, <2>1, <2>2, <2>3, SumKept
  <1>11. CASE ReaderCallsSend
    <2>1. Len(readBuf)' = Len(readBuf) - 1 /\ sequence' = sequence + 1
        BY <1>1, <1>11, ReaderSendFacts
    <2>2. UNCHANGED <<bridge, lines, stdout, pyWrite>>
        BY <1>11 DEF ReaderCallsSend, bridgeVars, processVars
    <2>3. Writing' = Writing
        BY <2>2 DEF Writing
    <2> HIDE DEF Writing
    <2> QED
        BY <1>2, <2>1, <2>2, <2>3, SumKept
  <1>12. CASE Elsewhere /\ UNCHANGED subVars
    <2>1. bridge # "over" => sequence' = sequence
        BY <1>12, ElsewhereFacts DEF SubIInv, BridgeControl
    <2> QED
        BY <1>3, <1>12, <2>1 DEF subVars
  <1>13. CASE UNCHANGED allVars
      BY <1>3, <1>13 DEF allVars, vars, subVars
  <1> QED
      BY <1>4, <1>5, <1>6, <1>7, <1>8, <1>9, <1>10, <1>11, <1>12, <1>13
      DEF SubNext, Process, Reader

LEMMA SubInvariance == SubSpec => []SubIInv
  <1>1. SubIInv /\ [SubNext]_allVars => SubIInv'
      BY StepSubTypeOK, StepBridgeControl, StepLinesCounted DEF SubIInv
  <1> QED
      BY InitSubIInv, <1>1, PTL DEF SubSpec

\* Every step of the bridge is a step AgentSession allows, or leaves the session
\* alone: the reader only sends while the handler runs, the handler returns with
\* no Send in flight.
LEMMA StepIsSessionStep ==
    ASSUME SubIInv, [SubNext]_allVars
    PROVE  [Next]_vars
  <1> USE DEF SubIInv, BridgeControl
  <1>1. CASE OwnStep
      BY <1>1, OwnStepKeepsSession
  <1>2. CASE StartFails
    <2>1. HandlerReturns("error")
        BY <1>2, BridgeInFlight DEF StartFails, HandlerReturns
    <2> QED
        BY <2>1 DEF Next, Results
  <1>3. CASE CancelOwnSession
    <2>1. CASE ctxDone
        BY <1>3, <2>1 DEF CancelOwnSession, vars, handlerVars, relayVars, SubTypeOK, TypeOK
    <2>2. CASE ~ctxDone
        BY <1>3, <2>2 DEF CancelOwnSession, Cancel, Next
    <2> QED
        BY <2>1, <2>2
  <1>4. CASE Return
    <2>1. \E r \in Results : HandlerReturns(r)
        BY <1>4, BridgeInFlight DEF Return, HandlerReturns, Results
    <2> QED
        BY <2>1 DEF Next
  <1>5. CASE ReaderCallsSend
    <2>1. phase = "running" /\ sendCall[Bridge] = NoEvent
        BY <1>5 DEF ReaderCallsSend
    <2>2. sequence < MaxEvents
      <3>1. /\ sequence + Len(readBuf) + Len(stdout) + Writing <= lines
            /\ lines <= MaxEvents /\ Len(readBuf) > 0
          BY <1>5, <2>1, ReaderSendFacts DEF LinesCounted
      <3> QED
          BY <3>1, CountFacts
    <2>3. Head(readBuf) \in Kinds /\ Bridge \in Sender
        BY <1>5, ReaderSendFacts, OneSender
    <2>4. CallSend(Bridge, Head(readBuf))
        BY <1>5, <2>1, <2>2 DEF ReaderCallsSend, CallSend
    <2> QED
        BY <2>3, <2>4 DEF Next, SessionApi
  <1>6. CASE ReaderSendReturns \/ WriterCallsReceive \/ WriterReceiveReturns
      BY <1>6, ReaderReturnFacts DEF WriterCallsReceive, WriterReceiveReturns, Next,
           SessionApi
  <1>7. CASE Elsewhere
      BY <1>7, ElsewhereFacts
  <1>8. CASE UNCHANGED allVars
      BY <1>8 DEF allVars
  <1> QED
      BY <1>1, <1>2, <1>3, <1>4, <1>5, <1>6, <1>7, <1>8
      DEF SubNext, Handler, Reader, Writer, OwnStep

\* The bridge implements the handler AgentSession assumes, for all capacities.
THEOREM BridgeIsHandler == SubSpec => SendsWithinHandler
  <1>1. SubInit => Init
      BY DEF SubInit
  <1>2. SubIInv /\ [SubNext]_allVars => [Next]_vars
      BY StepIsSessionStep
  <1> QED
      BY <1>1, <1>2, SubInvariance, PTL DEF SubSpec, Spec, SendsWithinHandler

\* What is proved of a session holds of the one a bridge serves.
LEMMA BridgeKeepsInvariant == SubSpec => [](SubIInv /\ IInv)
  <1>1. SubInit => IInv
      BY InitIInv DEF SubInit
  <1>2. SubIInv /\ IInv /\ [SubNext]_allVars => IInv'
      BY StepIsSessionStep, StepIInv
  <1> QED
      BY <1>1, <1>2, SubInvariance, PTL DEF SubSpec

\* An arrival in a file-mode session: as no other goroutine sends, its number is
\* greater than all that arrived.
LEMMA WholeArrival ==
    ASSUME IInv, Takes, arrived' # arrived
    PROVE  \E n \in Nat :
             /\ \A e \in arrived : e.seq < n
             /\ \E f : f.seq = n /\ f \notin arrived /\ arrived' = arrived \cup {f}
  <1>1. PICK f \in [by : Source, seq : Nat] :
           /\ f \notin arrived /\ arrived' = arrived \cup {f}
           /\ \A e \in arrived : Stream!Before(e, f)
           /\ f.by = Runner => \A e \in arrived : e.seq < f.seq
      BY ArrivalFacts
  <1>2. peerEnd = "none" /\ TypeOK
      BY ArrivalFacts DEF IInv
  <1>3. \A e \in arrived : e.by = Bridge
    <2>1. \A e \in arrived : e.by # Runner /\ e.by \in Source
        BY <1>2, EventFacts DEF IInv, Control
    <2> QED
        BY <2>1, OneSender DEF Source
  <1>4. \A e \in arrived : e.seq < f.seq
    <2>1. CASE f.by = Bridge
        BY <1>1, <1>3, <2>1 DEF Stream!Before
    <2>2. CASE f.by = Runner
        BY <1>1, <2>2
    <2> QED
        BY <1>1, <2>1, <2>2, OneSender DEF Source
  <1>5. f.seq \in Nat
      BY <1>1
  <1> QED
      BY <1>1, <1>4, <1>5

\* So whoever talks to a file-mode agent sees one stream of growing numbers that
\* nothing follows after the report of the end, whatever its process writes -
\* a session.completed or session.failed of its own included - and however it
\* ends.
THEOREM FileModeStream == SubSpec => NumbersGrow
  <1> DEFINE seen == {[by |-> Bridge, seq |-> e.seq] : e \in arrived}
  <1>1. SubInit => Whole!StreamInit
      BY DEF SubInit, Init, Whole!StreamInit
  <1>2. ASSUME SubIInv, IInv, [SubNext]_allVars
        PROVE  [Whole!StreamNext]_(Whole!streamVars)
    <2> USE DEF Whole!StreamNext, Whole!streamVars, Whole!Deliver,
                Whole!DeliverTerminal, Whole!Arrive, Whole!End
    <2>1. [Next]_vars
        BY <1>2, StepIsSessionStep
    <2>2. CASE Takes /\ arrived' # arrived
      <3>1. PICK n \in Nat :
              /\ \A e \in arrived : e.seq < n
              /\ \E f : f.seq = n /\ f \notin arrived /\ arrived' = arrived \cup {f}
          BY <1>2, <2>2, WholeArrival
      <3> DEFINE g == [by |-> Bridge, seq |-> n]
      <3>2. seen' = seen \cup {g}
          BY <3>1
      <3>3. \A e \in arrived : e.seq \in Nat
          BY <1>2, EventFacts DEF IInv
      <3>4. \A e \in seen : Whole!Before(e, g)
          BY <3>1, <3>3 DEF Whole!Before
      <3>5. g \in seen' \ seen /\ g.by \in {Bridge} /\ g.seq \in Nat
          BY <3>2, <3>4 DEF Whole!Before
      <3>6. peerEnd = "none" /\ relay # "stopped" /\ relay' = relay
          BY <1>2, <2>2, ArrivalFacts
      <3> HIDE DEF seen, g
      <3>7. \E f \in seen' \ seen :
              /\ f.by \in {Bridge} /\ f.seq \in Nat
              /\ \A e \in seen : Whole!Before(e, f)
              /\ seen' = seen \cup {f}
          BY <3>2, <3>4, <3>5
      <3> QED
          BY <3>6, <3>7 DEF seen
    <2>3. CASE RelayStop
        BY <2>3 DEF RelayStop, Consuming
    <2>4. CASE UNCHANGED <<arrived, peerEnd>>
               /\ (relay' = relay \/ (relay # "stopped" /\ relay' # "stopped"))
        BY <2>4
    <2> QED
        BY <1>2, <2>1, <2>2, <2>3, <2>4, StreamMoves
  <1> QED
      BY <1>1, <1>2, BridgeKeepsInvariant, PTL DEF SubSpec, NumbersGrow, Whole!StreamSpec
=============================================================================
