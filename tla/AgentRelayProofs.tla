-------------------------- MODULE AgentRelayProofs --------------------------
(***************************************************************************)
(* Proofs about AgentRelay for every number of events and user messages,   *)
(* with and without failures of NATS: type correctness, the subscription   *)
(* comes in time, and the client sees an event stream.                     *)
(***************************************************************************)
EXTENDS AgentRelay, SequenceTheorems, TLAPS

\* Where the handler is, seen from what it has done: the Space is started from
\* a subscription that stays until Close, the downward relay only runs while the
\* handler waits in gather, and it ends with the first terminal event it sends.
Control ==
    /\ started => stage \notin {"accepted", "subscribed"}
    /\ wire # <<>> => started
    /\ stage \in {"subscribed", "started", "relaying", "disconnected"} => subscribed
    /\ stage \in {"accepted", "subscribed", "started"} => down = "none"
    /\ down \in {"waiting", "sending"} => stage = "relaying"
    /\ down = "sending" /\ downEvent.kind \in Finals => state \in TerminalStates
    /\ ended => down = "done"

\* The relay's own numbers.
Numbers == \A e \in shown :
    e.number <= counter /\ (down = "sending" => e.number < counter)

\* The events of a queue, which may also hold a reply, and their order.
Events(queue)  == {queue[i] : i \in 1..Len(queue)} \ {Reply}
Ordered(queue) == \A i, j \in 1..Len(queue) :
    i < j /\ queue[i] # Reply /\ queue[j] # Reply => Space!Before(queue[i], queue[j])

AllBefore(A, B) == \A e \in A, f \in B : Space!Before(e, f)

\* The event the downward relay has in its hands.
Held == IF down = "sending" THEN {downEvent} ELSE {}

\* On its way from the Space to the client no event overtakes one of its source
\* and none is repeated: what the client has seen comes before what the relay
\* holds, that before the queue and the queue before the wire, each of them in
\* order.
Path ==
    /\ Ordered(messageQueue) /\ Ordered(wire)
    /\ AllBefore(shown, Held \cup Events(messageQueue) \cup Events(wire))
    /\ AllBefore(Held, Events(messageQueue) \cup Events(wire))
    /\ AllBefore(Events(messageQueue), Events(wire))

\* The Space has published all of them.
Genuine(event) == [by |-> event.by, seq |-> event.seq] \in spaceArrived
AllGenuine == \A e \in shown \cup Held \cup Events(messageQueue) \cup Events(wire) :
    Genuine(e)

IInv == RelayTypeOK /\ Control /\ Numbers /\ Path /\ AllGenuine

-----------------------------------------------------------------------------
(* Facts about messages and queues.                                         *)

\* An event of the Space is never taken for an error reply.
LEMMA MessageFacts ==
    /\ Reply \notin Event
    /\ NoEvent \in Event
    /\ \A by \in Source, n \in Nat, kind \in Kinds :
         [by |-> by, seq |-> n, kind |-> kind] \in Event
    BY RunnerIsSource DEF Reply, Event, NoEvent, Kinds, Ordinary, Finals

\* What a queue holds after a message was put into it.
LEMMA AppendQueue ==
    ASSUME NEW S, NEW queue \in Seq(S), NEW f \in S, Ordered(queue),
           f = Reply \/ \A e \in Events(queue) : Space!Before(e, f)
    PROVE  /\ Ordered(Append(queue, f))
           /\ Events(Append(queue, f)) = Events(queue) \cup ({f} \ {Reply})
  <1> DEFINE longer == Append(queue, f)
  <1>1. /\ Len(queue) \in Nat /\ Len(longer) = Len(queue) + 1
        /\ longer[Len(queue) + 1] = f
        /\ \A i \in 1..Len(queue) : longer[i] = queue[i]
      BY AppendProperties
  <1> HIDE DEF longer
  <1>2. \A i : i \in 1..Len(longer) <=> i \in 1..Len(queue) \/ i = Len(queue) + 1
      BY <1>1
  <1>3. Events(longer) = Events(queue) \cup ({f} \ {Reply})
      BY <1>1, <1>2 DEF Events
  <1>4. ASSUME NEW i \in 1..Len(longer), NEW j \in 1..Len(longer), i < j,
               longer[i] # Reply, longer[j] # Reply
        PROVE  Space!Before(longer[i], longer[j])
    <2>1. i \in 1..Len(queue) /\ longer[i] = queue[i]
        BY <1>1, <1>2, <1>4
    <2>2. CASE j \in 1..Len(queue)
        BY <1>1, <1>4, <2>1, <2>2 DEF Ordered
    <2>3. CASE j = Len(queue) + 1
      <3>1. longer[i] \in Events(queue) /\ longer[j] = f
          BY <1>1, <1>4, <2>1, <2>3 DEF Events
      <3> QED
          BY <1>4, <3>1
    <2> QED
        BY <1>2, <2>2, <2>3
  <1>5. Ordered(longer)
      BY <1>4 DEF Ordered
  <1> QED
      BY <1>3, <1>5 DEF longer

\* What it holds after its first message was taken.
LEMMA TailQueue ==
    ASSUME NEW S, NEW queue \in Seq(S), queue # <<>>, Ordered(queue)
    PROVE  /\ Ordered(Tail(queue))
           /\ Events(Tail(queue)) \subseteq Events(queue)
           /\ Head(queue) # Reply =>
                Head(queue) \in Events(queue) /\ AllBefore({Head(queue)}, Events(Tail(queue)))
  <1> DEFINE rest == Tail(queue)
  <1>1. /\ Len(queue) \in Nat /\ Len(queue) > 0 /\ Len(rest) = Len(queue) - 1
        /\ Head(queue) = queue[1]
        /\ \A i \in 1..Len(rest) : rest[i] = queue[i + 1]
      BY HeadTailProperties
  <1> HIDE DEF rest
  <1>2. \A i \in 1..Len(rest) : i + 1 \in 1..Len(queue) /\ 1 < i + 1
      BY <1>1
  <1>3. \A i, j \in 1..Len(rest) : i < j => i + 1 < j + 1
      BY <1>1
  <1>4. Ordered(rest)
      BY <1>1, <1>2, <1>3 DEF Ordered
  <1>5. Events(rest) \subseteq Events(queue)
      BY <1>1, <1>2 DEF Events
  <1>6. 1 \in 1..Len(queue)
      BY <1>1
  <1>7. ASSUME Head(queue) # Reply
        PROVE  Head(queue) \in Events(queue) /\ AllBefore({Head(queue)}, Events(rest))
    <2>1. Head(queue) \in Events(queue)
        BY <1>1, <1>6, <1>7 DEF Events
    <2>2. ASSUME NEW f \in Events(rest) PROVE Space!Before(Head(queue), f)
      <3>1. PICK i \in 1..Len(rest) : f = rest[i]
          BY DEF Events
      <3>2. f = queue[i + 1] /\ f # Reply
          BY <1>1, <3>1 DEF Events
      <3> QED
          BY <1>1, <1>2, <1>6, <1>7, <3>2 DEF Ordered
    <2> QED
        BY <2>1, <2>2 DEF AllBefore
  <1> QED
      BY <1>4, <1>5, <1>7 DEF rest

\* Publishing a cancel is recorded or fails.
LEMMA CancelFacts == cancelSent \in BOOLEAN /\ SendCancel => cancelSent' \in BOOLEAN
    BY Zenon DEF SendCancel

\* A publication takes a stamp none has had, after those of its goroutine.
LEMMA PublishFacts ==
    ASSUME RelayTypeOK, NEW by \in Source, NEW seq \in 1..MaxSpaceEvents,
           NEW kind \in Published, SpacePublishes(by, seq, kind)
    PROVE  LET event == [by |-> by, seq |-> seq, kind |-> kind] IN
           /\ event \in Event
           /\ wire' = Append(wire, event)
           /\ spaceArrived' \in SUBSET [by : Source, seq : Nat]
           /\ spaceStatus' \in {"open", "terminated", "ended"}
           /\ spaceArrived \subseteq spaceArrived' /\ Genuine(event)'
           /\ \A e : Genuine(e) => Space!Before(e, event)
           /\ UNCHANGED <<messageQueue, down, downEvent, counter, shown, ended>>
  <1> DEFINE stamp == [by |-> by, seq |-> seq]
             event == [by |-> by, seq |-> seq, kind |-> kind]
  <1>1. seq \in Nat /\ event \in Event
      BY RelayBounds, PublishedAreKinds, MessageFacts
  <1>2. spaceArrived' = spaceArrived \cup {stamp} /\ wire' = Append(wire, event)
      BY DEF SpacePublishes
  <1>3. Space!Arrive /\ spaceStatus' \in {"open", "terminated", "ended"}
      BY DEF SpacePublishes, Space!Deliver, Space!DeliverTerminal, RelayTypeOK
  <1>4. \A e \in spaceArrived : Space!Before(e, stamp)
      BY <1>2, <1>3 DEF Space!Arrive
  <1>5. \A e : Genuine(e) => Space!Before(e, event)
      BY <1>4 DEF Genuine, Space!Before
  <1>6. Genuine(event)'
      BY <1>2 DEF Genuine
  <1>7. spaceArrived' \in SUBSET [by : Source, seq : Nat]
      BY <1>1, <1>2 DEF RelayTypeOK
  <1> QED
      BY <1>1, <1>2, <1>3, <1>5, <1>6, <1>7 DEF SpacePublishes, relayVars

-----------------------------------------------------------------------------
(* Type correctness.                                                        *)

LEMMA InitTypeOK == Init => RelayTypeOK
  <1> SUFFICES ASSUME Init PROVE RelayTypeOK
      OBVIOUS
  <1>1. /\ wire \in Seq(Event \cup {Reply}) /\ messageQueue \in Seq(Event)
        /\ wsIn \in Seq(UserMessages)
      BY DEF Init
  <1> QED
      BY <1>1, MessageFacts DEF Init, RelayTypeOK, States

LEMMA StepTypeOK == RelayTypeOK /\ [Next]_vars => RelayTypeOK'
  <1> SUFFICES ASSUME RelayTypeOK, [Next]_vars PROVE RelayTypeOK'
      OBVIOUS
  <1> USE DEF RelayTypeOK
  <1>1. ASSUME NEW by \in Source, NEW seq \in 1..MaxSpaceEvents, NEW kind \in Published,
               SpacePublishes(by, seq, kind)
        PROVE  RelayTypeOK'
    <2> DEFINE event == [by |-> by, seq |-> seq, kind |-> kind]
    <2>1. /\ event \in Event /\ wire' = Append(wire, event)
          /\ spaceArrived' \in SUBSET [by : Source, seq : Nat]
          /\ spaceStatus' \in {"open", "terminated", "ended"}
        BY <1>1, PublishFacts
    <2>2. wire' \in Seq(Event \cup {Reply})
        BY <2>1, AppendProperties
    <2> QED
        BY <1>1, <2>1, <2>2 DEF SpacePublishes, clientVars, relayVars
  <1>2. CASE SpaceStops
    <2>1. wire' = wire \/ wire' = Append(wire, Reply)
        BY <1>2 DEF SpaceStops
    <2>2. Append(wire, Reply) \in Seq(Event \cup {Reply})
        BY AppendProperties
    <2>3. wire' \in Seq(Event \cup {Reply})
        BY <2>1, <2>2
    <2>4. spaceArrived' = spaceArrived /\ spaceStatus' \in {"open", "terminated", "ended"}
        BY <1>2 DEF SpaceStops, Space!End
    <2> QED
        BY <1>2, <2>3, <2>4 DEF SpaceStops, clientVars, relayVars
  <1>3. ASSUME NEW message \in UserMessages, ClientSends(message) PROVE RelayTypeOK'
      BY <1>3, AppendProperties DEF ClientSends, spaceVars, queueVars, relayVars
  <1>4. CASE ClientLeaves
      BY <1>4 DEF ClientLeaves, spaceVars, queueVars, relayVars
  <1>5. CASE OnMessage
    <2>1. wire' \in Seq(Event \cup {Reply}) /\ Head(wire) \in Event \cup {Reply}
        BY <1>5, HeadTailProperties DEF OnMessage
    <2>2. CASE messageQueue' = Append(messageQueue, Head(wire)) /\ Head(wire) # Reply
      <3>1. Head(wire) \in Event
          BY <2>1, <2>2
      <3>2. messageQueue' \in Seq(Event)
          BY <2>2, <3>1, AppendProperties
      <3> QED
          BY <1>5, <2>1, <3>2 DEF OnMessage, spaceVars, clientVars, relayVars
    <2>3. CASE UNCHANGED messageQueue
        BY <1>5, <2>1, <2>3 DEF OnMessage, spaceVars, clientVars, relayVars
    <2> QED
        BY <1>5, <2>2, <2>3 DEF OnMessage
  <1>6. CASE Handler
    <2> USE DEF spaceVars, queueVars, clientVars, relayVars
    <2>1. CASE Reject
        BY <2>1 DEF Reject
    <2>2. CASE Subscribe
      <3>1. subscribed' \in BOOLEAN
          BY <2>2, Zenon DEF Subscribe
      <3> QED
          BY <2>2, <3>1 DEF Subscribe
    <2>3. CASE PublishStart
      <3>1. started' \in BOOLEAN
          BY <2>3, Zenon DEF PublishStart
      <3>2. stage' \in {"started", "closing"} /\ state' \in States
          BY <2>3 DEF PublishStart, States
      <3> QED
          BY <2>3, <3>1, <3>2 DEF PublishStart
    <2>4. CASE SendCreated
        BY <2>4 DEF SendCreated
    <2>5. CASE CancelOnDisconnect
        BY <2>5, CancelFacts DEF CancelOnDisconnect
    <2>6. CASE GatherReturns
        BY <2>6 DEF GatherReturns
    <2>7. CASE Close
      <3>1. stage' = "closed" /\ subscribed' \in BOOLEAN
          BY <2>7, Zenon DEF Close
      <3> QED
          BY <2>7, <3>1 DEF Close
    <2> QED
        BY <1>6, <2>1, <2>2, <2>3, <2>4, <2>5, <2>6, <2>7 DEF Handler
  <1>7. CASE DownTakes
    <2>1. Head(messageQueue) \in Event /\ messageQueue' \in Seq(Event)
        BY <1>7, HeadTailProperties DEF DownTakes
    <2>2. state' \in States
        BY <1>7 DEF DownTakes, StateAfter, States, TerminalStates
    <2> QED
        BY <1>7, <2>1, <2>2 DEF DownTakes, spaceVars, clientVars
  <1>8. CASE DownSends
    <2>1. [by |-> downEvent.by, seq |-> downEvent.seq, number |-> counter] \in Shown
        BY DEF Event, Shown
    <2>2. shown' \subseteq Shown
        BY <1>8, <2>1 DEF DownSends, Show
    <2>3. ended' \in BOOLEAN
      <3>1. ended' = (downEvent.kind \in Finals) \/ ended' = ended
          BY <1>8, Zenon DEF DownSends, Show
      <3>2. (downEvent.kind \in Finals) \in BOOLEAN
          BY SMT
      <3> QED
          BY <3>1, <3>2, Zenon
    <2>4. down' \in {"none", "waiting", "sending", "done"}
        BY <1>8 DEF DownSends
    <2> QED
        BY <1>8, <2>2, <2>3, <2>4 DEF DownSends, spaceVars, queueVars, clientVars
  <1>9. CASE Up
    <2> USE DEF spaceVars, queueVars, clientVars
    <2>1. CASE UpChecks
        BY <2>1 DEF UpChecks
    <2>2. CASE UpReceives
      <3>1. Head(wsIn) \in UserMessages /\ wsIn' \in Seq(UserMessages)
          BY <2>2, HeadTailProperties DEF UpReceives
      <3>2. up' \in {"checking", "forwarding", "ponging", "cancelling", "done"}
          BY <2>2, <3>1 DEF UpReceives, UserMessages
      <3>3. state' \in States
          BY <2>2 DEF UpReceives, States, TerminalStates
      <3>4. UNCHANGED <<spaceVars, queueVars, client, userSent, stage, down,
                        downEvent, counter, shown, ended>>
          BY <2>2 DEF UpReceives
      <3> QED
          BY <3>1, <3>2, <3>3, <3>4
    <2>3. CASE UpDisconnected
        BY <2>3 DEF UpDisconnected
    <2>4. CASE UpTimesOut
        BY <2>4 DEF UpTimesOut, States, TerminalStates
    <2>5. CASE UpForwards
        BY <2>5 DEF UpForwards
    <2>6. CASE UpPongs
        BY <2>6 DEF UpPongs
    <2>7. CASE UpCancels
        BY <2>7, CancelFacts DEF UpCancels
    <2> QED
        BY <1>9, <2>1, <2>2, <2>3, <2>4, <2>5, <2>6, <2>7 DEF Up
  <1>10. CASE UNCHANGED vars
      BY <1>10 DEF vars, spaceVars, queueVars, clientVars, relayVars
  <1> QED
      BY <1>1, <1>2, <1>3, <1>4, <1>5, <1>6, <1>7, <1>8, <1>9, <1>10
      DEF Next, Down

\* Every reachable state of the relay has its type.
THEOREM TypeCorrect == Spec => []RelayTypeOK
  <1> QED
      BY InitTypeOK, StepTypeOK, PTL DEF Spec

-----------------------------------------------------------------------------
(* Control and numbers.                                                     *)

LEMMA InitIInv == Init => IInv
  <1> SUFFICES ASSUME Init PROVE IInv
      OBVIOUS
  <1>1. RelayTypeOK
      BY InitTypeOK
  <1>2. Len(wire) = 0 /\ Len(messageQueue) = 0 /\ wire = <<>> /\ Held = {} /\ shown = {}
      BY DEF Init, Held
  <1>3. Control /\ Numbers
      BY <1>2 DEF Init, Control, Numbers
  <1>4. Events(wire) = {} /\ Events(messageQueue) = {}
      BY <1>2 DEF Events
  <1>5. Path /\ AllGenuine
      BY <1>2, <1>4 DEF Path, AllGenuine, Ordered, AllBefore
  <1> QED
      BY <1>1, <1>3, <1>5 DEF IInv

Publishes == \E by \in Source, seq \in 1..MaxSpaceEvents, kind \in Published :
    SpacePublishes(by, seq, kind)

LEMMA StepControl == IInv /\ [Next]_vars => Control'
  <1> SUFFICES ASSUME IInv, [Next]_vars PROVE Control'
      OBVIOUS
  <1> USE DEF IInv, Control
  <1>1. CASE Publishes
      BY <1>1 DEF Publishes, SpacePublishes, relayVars
  <1>2. CASE SpaceStops
      BY <1>2 DEF SpaceStops, relayVars
  <1>3. CASE ClientLeaves \/ \E message \in UserMessages : ClientSends(message)
      BY <1>3 DEF ClientLeaves, ClientSends, spaceVars, queueVars, relayVars
  <1>4. CASE OnMessage
      BY <1>4 DEF OnMessage, spaceVars, relayVars
  <1>5. CASE Handler
    <2> USE DEF spaceVars, queueVars, clientVars, relayVars
    <2>1. CASE Reject
        BY <2>1 DEF Reject
    <2>2. CASE Subscribe
        BY <2>2 DEF Subscribe
    <2>3. CASE PublishStart
        BY <2>3 DEF PublishStart
    <2>4. CASE SendCreated
        BY <2>4 DEF SendCreated
    <2>5. CASE CancelOnDisconnect
        BY <2>5 DEF CancelOnDisconnect
    <2>6. CASE GatherReturns
        BY <2>6 DEF GatherReturns
    <2>7. CASE Close
        BY <2>7 DEF Close
    <2> QED
        BY <1>5, <2>1, <2>2, <2>3, <2>4, <2>5, <2>6, <2>7 DEF Handler
  <1>6. CASE DownTakes
      BY <1>6 DEF DownTakes, StateAfter, Finals, TerminalStates, spaceVars
  <1>7. CASE DownSends
    <2>1. /\ UNCHANGED <<started, wire, stage, subscribed, downEvent, state>>
          /\ down = "sending" /\ down' \in {"waiting", "done"}
        BY <1>7 DEF DownSends, spaceVars, queueVars
    <2>2. CASE ended' = ended
        BY <2>1, <2>2
    <2>3. CASE Show(downEvent, counter) /\ down' = IF state \in TerminalStates
                                                   THEN "done" ELSE "waiting"
      <3>1. ended' = (downEvent.kind \in Finals)
          BY <2>3, Zenon DEF Show
      <3>2. ended' => down' = "done"
          BY <2>1, <2>3, <3>1
      <3> QED
          BY <2>1, <3>2
    <2> QED
        BY <1>7, <2>2, <2>3 DEF DownSends
  <1>8. CASE Up
      BY <1>8 DEF Up, UpChecks, UpReceives, UpDisconnected, UpTimesOut, UpForwards,
                  UpPongs, UpCancels, TerminalStates, spaceVars, queueVars
  <1>9. CASE UNCHANGED vars
      BY <1>9 DEF vars, spaceVars, queueVars, relayVars
  <1> QED
      BY <1>1, <1>2, <1>3, <1>4, <1>5, <1>6, <1>7, <1>8, <1>9 DEF Next, Publishes, Down

\* A step that is neither the Space's, nor a delivery, nor one of the downward
\* relay leaves every event where it is.
Bystander ==
    /\ UNCHANGED <<spaceArrived, wire, messageQueue, downEvent, shown, ended, counter>>
    /\ down' = down \/ (down # "sending" /\ down' = "waiting")

LEMMA StepCases ==
    ASSUME IInv, [Next]_vars
    PROVE  \/ Publishes \/ SpaceStops \/ OnMessage \/ DownTakes \/ DownSends
           \/ Bystander
  <1> USE DEF spaceVars, queueVars, relayVars
  <1>1. CASE ClientLeaves \/ \E message \in UserMessages : ClientSends(message)
      BY <1>1 DEF ClientLeaves, ClientSends, Bystander
  <1>2. CASE SendCreated
      BY <1>2 DEF SendCreated, Bystander, IInv, Control
  <1>3. CASE Reject \/ Subscribe \/ PublishStart \/ CancelOnDisconnect \/ GatherReturns
             \/ Close
      BY <1>3 DEF Reject, Subscribe, PublishStart, CancelOnDisconnect, GatherReturns,
                  Close, Bystander
  <1>4. CASE Up
      BY <1>4 DEF Up, UpChecks, UpReceives, UpDisconnected, UpTimesOut, UpForwards,
                  UpPongs, UpCancels, Bystander
  <1>5. CASE UNCHANGED vars
      BY <1>5 DEF vars, Bystander
  <1> QED
      BY <1>1, <1>2, <1>3, <1>4, <1>5 DEF Next, Handler, Down, Publishes

LEMMA StepNumbers == IInv /\ [Next]_vars => Numbers'
  <1> SUFFICES ASSUME IInv, [Next]_vars PROVE Numbers'
      OBVIOUS
  <1> USE DEF Numbers
  <1>1. \A e \in shown : e.number \in Nat /\ e.number <= counter
      BY DEF IInv, RelayTypeOK, Shown
  <1>2. counter \in Nat
      BY DEF IInv, RelayTypeOK
  <1>3. CASE Publishes \/ SpaceStops \/ OnMessage
      BY <1>3 DEF IInv, Publishes, SpacePublishes, SpaceStops, OnMessage, relayVars
  <1>4. CASE DownTakes
      BY <1>1, <1>2, <1>4 DEF DownTakes
  <1>5. CASE DownSends
    <2>1. down' # "sending" /\ counter' = counter
        BY <1>5 DEF DownSends
    <2>2. \A e \in shown' : e \in shown \/ e.number = counter
        BY <1>5 DEF DownSends, Show
    <2> QED
        BY <1>1, <1>2, <2>1, <2>2
  <1>6. CASE Bystander
      BY <1>6 DEF IInv, Bystander
  <1> QED
      BY <1>3, <1>4, <1>5, <1>6, StepCases

-----------------------------------------------------------------------------
(* Order.                                                                   *)

LEMMA StepPath == IInv /\ [Next]_vars => Path' /\ AllGenuine'
  <1> SUFFICES ASSUME IInv, [Next]_vars PROVE Path' /\ AllGenuine'
      OBVIOUS
  <1>1. /\ wire \in Seq(Event \cup {Reply}) /\ messageQueue \in Seq(Event)
        /\ Ordered(wire) /\ Ordered(messageQueue)
      BY DEF IInv, RelayTypeOK, Path
  <1>2. ASSUME NEW by \in Source, NEW seq \in 1..MaxSpaceEvents, NEW kind \in Published,
               SpacePublishes(by, seq, kind)
        PROVE  Path' /\ AllGenuine'
    <2> DEFINE event == [by |-> by, seq |-> seq, kind |-> kind]
    <2>1. /\ event \in Event /\ wire' = Append(wire, event)
          /\ spaceArrived \subseteq spaceArrived' /\ Genuine(event)'
          /\ \A e : Genuine(e) => Space!Before(e, event)
          /\ UNCHANGED <<messageQueue, down, downEvent, shown>>
        BY <1>2, PublishFacts DEF IInv
    <2> HIDE DEF event
    <2>2. \A e \in shown \cup Held \cup Events(messageQueue) \cup Events(wire) :
            Space!Before(e, event)
        BY <2>1 DEF IInv, AllGenuine
    <2>3. Ordered(wire') /\ Events(wire') \subseteq Events(wire) \cup {event}
        BY <1>1, <2>1, <2>2, AppendQueue
    <2>4. Held' = Held /\ Events(messageQueue)' = Events(messageQueue)
        BY <2>1 DEF Held
    <2>5. Ordered(messageQueue')
        BY <1>1, <2>1
    <2>6. Path'
        BY <2>1, <2>2, <2>3, <2>4, <2>5 DEF IInv, Path, AllBefore
    <2>7. AllGenuine'
        BY <2>1, <2>3, <2>4 DEF IInv, AllGenuine, Genuine
    <2> QED
        BY <2>6, <2>7
  <1>3. CASE SpaceStops
    <2>1. /\ wire' = wire \/ wire' = Append(wire, Reply)
          /\ UNCHANGED <<spaceArrived, messageQueue, down, downEvent, shown>>
        BY <1>3 DEF SpaceStops, Space!End, relayVars
    <2>2. Ordered(wire') /\ Events(wire') \subseteq Events(wire)
      <3>1. /\ Ordered(Append(wire, Reply))
            /\ Events(Append(wire, Reply)) = Events(wire) \cup ({Reply} \ {Reply})
          BY <1>1, AppendQueue
      <3> QED
          BY <1>1, <2>1, <3>1
    <2>3. Held' = Held /\ Events(messageQueue)' = Events(messageQueue)
          /\ Ordered(messageQueue')
        BY <1>1, <2>1 DEF Held
    <2> QED
        BY <2>1, <2>2, <2>3 DEF IInv, Path, AllBefore, AllGenuine, Genuine
  <1>4. CASE OnMessage
    <2>1. /\ wire # <<>> /\ wire' = Tail(wire)
          /\ \/ messageQueue' = messageQueue
             \/ Head(wire) # Reply /\ messageQueue' = Append(messageQueue, Head(wire))
          /\ UNCHANGED <<spaceArrived, down, downEvent, shown>>
        BY <1>4 DEF OnMessage, spaceVars, relayVars
    <2>2. /\ Ordered(wire') /\ Events(wire') \subseteq Events(wire)
          /\ Head(wire) # Reply =>
               Head(wire) \in Events(wire) /\ AllBefore({Head(wire)}, Events(wire'))
        BY <1>1, <2>1, TailQueue
    <2>3. Held' = Held
        BY <2>1 DEF Held
    <2>4. CASE messageQueue' = messageQueue
        BY <1>1, <2>1, <2>2, <2>3, <2>4 DEF IInv, Path, AllBefore, AllGenuine, Genuine
    <2>5. CASE Head(wire) # Reply /\ messageQueue' = Append(messageQueue, Head(wire))
      <3>1. Head(wire) \in Event
          BY <1>1, <2>1, <2>5, HeadTailProperties
      <3>2. \A e \in Events(messageQueue) : Space!Before(e, Head(wire))
          BY <2>2, <2>5 DEF IInv, Path, AllBefore
      <3>3. /\ Ordered(messageQueue')
            /\ Events(messageQueue') \subseteq Events(messageQueue) \cup {Head(wire)}
          BY <1>1, <2>5, <3>1, <3>2, AppendQueue
      <3>4. Path'
          BY <2>1, <2>2, <2>3, <2>5, <3>3 DEF IInv, Path, AllBefore
      <3>5. AllGenuine'
          BY <2>1, <2>2, <2>3, <2>5, <3>3 DEF IInv, AllGenuine, Genuine
      <3> QED
          BY <3>4, <3>5
    <2> QED
        BY <2>1, <2>4, <2>5
  <1>5. CASE DownTakes
    <2>1. /\ messageQueue # <<>> /\ messageQueue' = Tail(messageQueue)
          /\ down = "waiting" /\ down' = "sending" /\ downEvent' = Head(messageQueue)
          /\ UNCHANGED <<spaceArrived, wire, shown>>
        BY <1>5 DEF DownTakes, spaceVars
    <2>2. Head(messageQueue) # Reply
        BY <1>1, <2>1, HeadTailProperties, MessageFacts
    <2>3. /\ Ordered(messageQueue') /\ Events(messageQueue') \subseteq Events(messageQueue)
          /\ Head(messageQueue) \in Events(messageQueue)
          /\ AllBefore({Head(messageQueue)}, Events(messageQueue'))
        BY <1>1, <2>1, <2>2, TailQueue
    <2>4. Held' = {Head(messageQueue)} /\ Ordered(wire') /\ Events(wire)' = Events(wire)
        BY <1>1, <2>1 DEF Held
    <2>5. Path'
        BY <2>1, <2>3, <2>4 DEF IInv, Path, AllBefore
    <2>6. AllGenuine'
        BY <2>1, <2>3, <2>4 DEF IInv, AllGenuine, Genuine
    <2> QED
        BY <2>5, <2>6
  <1>6. CASE DownSends
    <2>1. /\ Held = {downEvent} /\ Held' = {}
          /\ UNCHANGED <<spaceArrived, wire, messageQueue>>
        BY <1>6 DEF DownSends, Held, spaceVars, queueVars
    <2>2. \A e \in shown' : e \in shown \/ (e.by = downEvent.by /\ e.seq = downEvent.seq)
        BY <1>6 DEF DownSends, Show
    <2>3. /\ Ordered(messageQueue') /\ Ordered(wire')
          /\ Events(messageQueue)' = Events(messageQueue) /\ Events(wire)' = Events(wire)
        BY <1>1, <2>1
    <2>4. \A f \in Events(messageQueue) \cup Events(wire) :
            Space!Before(downEvent, f) /\ \A e \in shown : Space!Before(e, f)
        BY <2>1 DEF IInv, Path, AllBefore
    <2>5. \A e \in shown', f \in Events(messageQueue) \cup Events(wire) : Space!Before(e, f)
        BY <2>2, <2>4 DEF Space!Before
    <2>6. Path'
        BY <2>1, <2>3, <2>5 DEF IInv, Path, AllBefore
    <2>7. AllGenuine'
        BY <2>1, <2>2, <2>3 DEF IInv, AllGenuine, Genuine
    <2> QED
        BY <2>6, <2>7
  <1>7. CASE Bystander
    <2>1. Held' = Held /\ UNCHANGED <<spaceArrived, wire, messageQueue, shown>>
        BY <1>7 DEF Bystander, Held
    <2> QED
        BY <2>1 DEF IInv, Path, AllBefore, AllGenuine, Genuine, Ordered, Events
  <1> QED
      BY <1>2, <1>3, <1>4, <1>5, <1>6, <1>7, StepCases DEF Publishes

\* The conjunction is inductive and holds in every reachable state.
LEMMA Invariance == Spec => []IInv
  <1>1. IInv /\ [Next]_vars => IInv'
      BY StepTypeOK, StepControl, StepNumbers, StepPath DEF IInv
  <1> QED
      BY InitIInv, <1>1, PTL DEF Spec

\* No message of the Space misses the subscription.
THEOREM SubscriptionFirst == Spec => []SubscribedInTime
  <1>1. IInv => SubscribedInTime
      BY DEF IInv, Control, RelayTypeOK, SubscribedInTime
  <1> QED
      BY Invariance, <1>1, PTL

-----------------------------------------------------------------------------
(* Refinement: the client sees an event stream, twice.                      *)

Stamps == {[by |-> e.by, seq |-> e.seq] : e \in shown}
Counts == {[by |-> Runner, seq |-> e.number] : e \in shown}

\* Only a send to an open client changes what the client saw, and only Close
\* and Reject end its stream.
LEMMA ViewStep ==
    ASSUME IInv, [Next]_vars
    PROVE  \/ UNCHANGED <<shown, ViewStatus>>
           \/ shown' = shown /\ ViewStatus # "ended" /\ ViewStatus' = "ended"
           \/ /\ ViewStatus = "open" /\ ViewStatus' \in {"open", "terminated"}
              /\ Original!Arrive /\ Numbered!Arrive
  <1>1. CASE DownSends
    <2>1. down = "sending" /\ stage = "relaying" /\ stage' = stage /\ ~ended
        BY <1>1 DEF DownSends, IInv, Control
    <2>2. ViewStatus = "open" /\ ViewStatus' \in {"open", "terminated"}
        BY <2>1 DEF ViewStatus
    <2>3. CASE UNCHANGED <<shown, ended>>
        BY <2>1, <2>3 DEF ViewStatus
    <2>4. CASE Show(downEvent, counter)
      <3> DEFINE stamp == [by |-> downEvent.by, seq |-> downEvent.seq]
                 count == [by |-> Runner, seq |-> counter]
      <3>1. /\ Stamps' = Stamps \cup {stamp}
            /\ Counts' = Counts \cup {count}
        <4> DEFINE x == [by |-> downEvent.by, seq |-> downEvent.seq, number |-> counter]
        <4>1. x.by = downEvent.by /\ x.seq = downEvent.seq /\ x.number = counter
            OBVIOUS
        <4>2. shown' = shown \cup {x}
            BY <2>4, Zenon DEF Show
        <4> HIDE DEF x
        <4> QED
            BY <4>1, <4>2 DEF Stamps, Counts
      <3>2. stamp.by \in Source /\ stamp.seq \in Nat /\ counter \in Nat
          BY DEF IInv, RelayTypeOK, Event
      <3>3. \A e \in shown : Space!Before(e, downEvent) /\ e.number < counter
                             /\ e.number \in Nat
          BY <2>1 DEF IInv, Path, AllBefore, Held, Numbers, RelayTypeOK, Shown
      <3>4. \A e \in Stamps : Original!Before(e, stamp)
          BY <3>3 DEF Stamps, Space!Before, Original!Before
      <3>5. \A e \in Counts : Numbered!Before(e, count)
          BY <3>2, <3>3 DEF Counts, Numbered!Before
      <3>6. stamp \notin Stamps /\ count \notin Counts
          BY <3>4, <3>5 DEF Original!Before, Numbered!Before
      <3>7. Original!Arrive
          BY <2>2, <3>1, <3>2, <3>4, <3>6 DEF Original!Arrive, Stamps
      <3>8. Numbered!Arrive
          BY <2>2, <3>1, <3>2, <3>5, <3>6 DEF Numbered!Arrive, Counts
      <3> QED
          BY <2>2, <3>7, <3>8
    <2> QED
        BY <1>1, <2>3, <2>4 DEF DownSends
  <1>2. CASE ~DownSends
    <2>1. UNCHANGED <<shown, ended>>
        BY <1>2, StepCases
        DEF Publishes, SpacePublishes, SpaceStops, OnMessage, DownTakes, Bystander,
            relayVars
    <2>2. stage = "closed" => stage' = "closed"
        BY DEF Next, SpacePublishes, SpaceStops, ClientSends, ClientLeaves, OnMessage,
               Handler, Reject, Subscribe, PublishStart, SendCreated,
               CancelOnDisconnect, GatherReturns, Close, Down, DownTakes, DownSends,
               Up, UpChecks, UpReceives, UpDisconnected, UpTimesOut, UpForwards,
               UpPongs, UpCancels, vars
    <2> QED
        BY <2>1, <2>2 DEF ViewStatus
  <1> QED
      BY <1>1, <1>2

\* What the client sees is an event stream, in the relay's numbering and in that
\* of the Space, for every number of goroutines, events and messages.
THEOREM ClientStream == Spec => ClientSeesEventStream
  <1>1. Init => Numbered!StreamInit /\ Original!StreamInit
      BY DEF Init, Numbered!StreamInit, Original!StreamInit, ViewStatus
  <1>2. IInv /\ [Next]_vars => [Numbered!StreamNext]_(Numbered!streamVars)
      BY ViewStep
      DEF Numbered!StreamNext, Numbered!Deliver, Numbered!DeliverTerminal,
          Numbered!End, Numbered!streamVars
  <1>3. IInv /\ [Next]_vars => [Original!StreamNext]_(Original!streamVars)
      BY ViewStep
      DEF Original!StreamNext, Original!Deliver, Original!DeliverTerminal,
          Original!End, Original!streamVars
  <1> QED
      BY <1>1, <1>2, <1>3, Invariance, PTL
      DEF Spec, ClientSeesEventStream, Numbered!StreamSpec, Original!StreamSpec
=============================================================================
