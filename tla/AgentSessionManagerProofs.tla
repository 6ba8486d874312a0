---------------------- MODULE AgentSessionManagerProofs ----------------------
(***************************************************************************)
(* Proofs about AgentSessionManager for every set of sessions and every    *)
(* table size: the size of the table, that nothing runs out of reach, and  *)
(* the agreement of the table with the external registry.                  *)
(***************************************************************************)
EXTENDS AgentSessionManager, FiniteSetTheorems, TLAPS

\* The dispatcher starts one session at a time.
OneStart == \A s \in Sessions : phase[s] \in Starting => dispatcher = s

\* Only sessions between insertion and OnDone are in the table.
TablePhases ==
    \A s \in sessions : phase[s] \in {"inserted", "registered", "running", "returned"}

\* Before shutdown empties the table, a session that is being started is not
\* cancelled, because its cancel message waits behind the start; so, once
\* inserted, it stays in the table.
StartUndisturbed ==
    space \in {"up", "stopping"} =>
      \A s \in Sessions :
         /\ phase[s] \in {"unknown"} \cup Starting => s \notin ctxDone
         /\ phase[s] \in {"inserted", "registered"} => s \in sessions

\* Nothing is in the registry before the registrar is set.
RegistrarFirst == ~registrar => kv = {}

IInv ==
    /\ TypeOK /\ OneStart /\ TablePhases /\ StartUndisturbed /\ RegistrarFirst
    /\ TableBounded /\ UntrackedIsCancelled /\ NoKeyLeft /\ TrackedIsVisible

-----------------------------------------------------------------------------
\* What deregisterSession does to the registry: keys outside S stay, a key of S
\* goes away or its delete is recorded as failed, and no key appears.
LEMMA DeregisterFacts ==
    ASSUME NEW S \in SUBSET Sessions, TypeOK, RegistrarFirst, Deregister(S)
    PROVE  /\ kv' \subseteq kv
           /\ kv \ S \subseteq kv'
           /\ kvFaulty \subseteq kvFaulty' /\ kvFaulty' \subseteq kvFaulty \cup S
           /\ S \cap kv' \subseteq kvFaulty'
    BY DEF Deregister, TypeOK, RegistrarFirst

LEMMA InitIInv == Init => IInv
  <1> SUFFICES ASSUME Init PROVE IInv
      OBVIOUS
  <1> USE DEF Init
  <1>1. TypeOK
      BY DEF TypeOK, Phases, Spaces
  <1>2. TableBounded
      BY FS_EmptySet, MaxSessionsNat DEF TableBounded
  <1>3. OneStart /\ UntrackedIsCancelled /\ StartUndisturbed
      BY DEF OneStart, UntrackedIsCancelled, StartUndisturbed, Starting
  <1>4. TablePhases /\ RegistrarFirst /\ NoKeyLeft /\ TrackedIsVisible
      BY DEF TablePhases, RegistrarFirst, NoKeyLeft, TrackedIsVisible
  <1> QED
      BY <1>1, <1>2, <1>3, <1>4 DEF IInv

LEMMA StepTypeOK == TypeOK /\ [Next]_vars => TypeOK'
  <1> SUFFICES ASSUME TypeOK, [Next]_vars PROVE TypeOK'
      OBVIOUS
  <1> USE DEF TypeOK, kvVars, Phases, Starting
  <1>1. ASSUME NEW S \in SUBSET Sessions, Deregister(S)
        PROVE  kv' \subseteq Sessions /\ kvFaulty' \subseteq Sessions
      BY <1>1 DEF Deregister
  <1>2. ASSUME NEW s \in Sessions, BeginStart(s) PROVE TypeOK'
      BY <1>2 DEF BeginStart
  <1>3. ASSUME NEW s \in Sessions, StartSession(s) PROVE TypeOK'
    <2>1. CASE Refuse(s)
        BY <2>1 DEF Refuse
    <2>2. CASE RefuseFull(s)
        BY <2>2 DEF RefuseFull
    <2>3. CASE Insert(s)
        BY <2>3 DEF Insert
    <2>4. CASE Register(s)
        BY <2>4 DEF Register
    <2>5. CASE RunHandler(s)
        BY <2>5 DEF RunHandler
    <2> QED
        BY <1>3, <2>1, <2>2, <2>3, <2>4, <2>5 DEF StartSession
  <1>4. ASSUME NEW s \in Sessions, HandlerCancels(s) \/ HandlerReturns(s) PROVE TypeOK'
      BY <1>4 DEF HandlerCancels, HandlerReturns
  <1>5. ASSUME NEW s \in Sessions, OnDone(s) PROVE TypeOK'
    <2>1. CASE OnDoneUntrack(s)
        BY <2>1 DEF OnDoneUntrack
    <2>2. CASE OnDoneDeregister(s)
        BY <2>2, <1>1 DEF OnDoneDeregister
    <2>3. CASE CloseDone(s)
        BY <2>3 DEF CloseDone
    <2> QED
        BY <1>5, <2>1, <2>2, <2>3 DEF OnDone
  <1>6. ASSUME NEW s \in Sessions, CancelSession(s) \/ Expire(s) PROVE TypeOK'
      BY <1>6 DEF CancelSession, Expire
  <1>7. CASE Reap
      BY <1>7, <1>1 DEF Reap, Stale
  <1>8. CASE SetRegistrar \/ BeginShutdown
      BY <1>8 DEF SetRegistrar, BeginShutdown, Spaces
  <1>9. CASE CancelAllSessions
      BY <1>9, <1>1 DEF CancelAllSessions, Spaces
  <1>10. CASE StopReaper \/ StopTransport
      BY <1>10 DEF StopReaper, StopTransport, Spaces
  <1>11. CASE UNCHANGED vars
      BY <1>11 DEF vars
  <1> QED
      BY <1>2, <1>3, <1>4, <1>5, <1>6, <1>7, <1>8, <1>9, <1>10, <1>11
      DEF Next, Shutdown

\* Every reachable state has its type.
THEOREM TypeCorrect == Spec => []TypeOK
  <1>1. Init => TypeOK
      BY InitIInv DEF IInv
  <1> QED
      BY <1>1, StepTypeOK, PTL DEF Spec

\* The size of the table: only Insert adds a session, after the check.
LEMMA StepTableBounded == TypeOK /\ TableBounded /\ [Next]_vars => TableBounded'
  <1> SUFFICES ASSUME TypeOK, TableBounded, [Next]_vars PROVE TableBounded'
      OBVIOUS
  <1>1. IsFiniteSet(sessions) /\ Cardinality(sessions) \in Nat
      BY SessionsFinite, FS_Subset, FS_CardinalityType DEF TypeOK
  <1>2. ASSUME sessions' \subseteq sessions PROVE TableBounded'
    <2>1. IsFiniteSet(sessions') /\ Cardinality(sessions') <= Cardinality(sessions)
        BY <1>1, <1>2, FS_Subset
    <2>2. Cardinality(sessions') \in Nat
        BY <2>1, FS_CardinalityType
    <2> QED
        BY <1>1, <2>1, <2>2, MaxSessionsNat DEF TableBounded
  <1>3. ASSUME NEW s \in Sessions, Insert(s) PROVE TableBounded'
    <2>1. Cardinality(sessions') \in {Cardinality(sessions), Cardinality(sessions) + 1}
        BY <1>1, <1>3, FS_AddElement DEF Insert
    <2>2. Cardinality(sessions) < MaxSessions
        BY <1>1, <1>3, MaxSessionsNat DEF Insert, TableFull
    <2> QED
        BY <1>1, <2>1, <2>2, MaxSessionsNat DEF TableBounded
  <1>4. ASSUME NEW s \in Sessions, StartSession(s), ~Insert(s)
        PROVE  sessions' \subseteq sessions
      BY <1>4 DEF StartSession, Refuse, RefuseFull, Register, RunHandler
  <1>5. ASSUME NEW s \in Sessions,
               \/ BeginStart(s) \/ HandlerCancels(s) \/ HandlerReturns(s)
               \/ OnDone(s) \/ CancelSession(s) \/ Expire(s)
        PROVE  sessions' \subseteq sessions
      BY <1>5 DEF BeginStart, HandlerCancels, HandlerReturns, OnDone, OnDoneUntrack,
                  OnDoneDeregister, CloseDone, CancelSession, Expire
  <1>6. ASSUME Reap \/ SetRegistrar \/ BeginShutdown \/ Shutdown \/ UNCHANGED vars
        PROVE  sessions' \subseteq sessions
      BY <1>6 DEF Reap, SetRegistrar, BeginShutdown, Shutdown, CancelAllSessions,
                  StopReaper, StopTransport, vars
  <1> QED
      BY <1>2, <1>3, <1>4, <1>5, <1>6 DEF Next

-----------------------------------------------------------------------------
\* The part of the inductive invariant that the steps below maintain together.
Agreement ==
    /\ OneStart /\ TablePhases /\ StartUndisturbed /\ RegistrarFirst
    /\ UntrackedIsCancelled /\ NoKeyLeft /\ TrackedIsVisible

LEMMA StartKeepsAgreement ==
    ASSUME TypeOK, Agreement, NEW s \in Sessions, BeginStart(s) \/ StartSession(s)
    PROVE  Agreement'
  <1> USE DEF TypeOK, kvVars, Phases, Starting
  <1>1. CASE BeginStart(s)
    <2> USE <1>1 DEF BeginStart, Agreement
    <2>1. OneStart'
        BY SessionsFinite DEF OneStart
    <2>2. TablePhases' /\ RegistrarFirst'
        BY DEF TablePhases, RegistrarFirst
    <2>3. StartUndisturbed'
        BY DEF StartUndisturbed
    <2>4. UntrackedIsCancelled' /\ NoKeyLeft' /\ TrackedIsVisible'
        BY DEF UntrackedIsCancelled, NoKeyLeft, TrackedIsVisible
    <2> QED
        BY <2>1, <2>2, <2>3, <2>4
  <1>2. CASE Refuse(s) \/ RefuseFull(s)
    <2> USE <1>2 DEF Refuse, RefuseFull, Agreement
    <2>1. OneStart'
        BY DEF OneStart
    <2>2. TablePhases' /\ RegistrarFirst'
        BY DEF TablePhases, RegistrarFirst
    <2>3. StartUndisturbed'
        BY DEF StartUndisturbed
    <2>4. UntrackedIsCancelled' /\ NoKeyLeft' /\ TrackedIsVisible'
        BY DEF UntrackedIsCancelled, NoKeyLeft, TrackedIsVisible
    <2> QED
        BY <2>1, <2>2, <2>3, <2>4
  <1>3. CASE Insert(s)
    <2> USE <1>3 DEF Insert, Agreement
    <2>1. OneStart'
        BY DEF OneStart
    <2>2. TablePhases' /\ RegistrarFirst'
        BY DEF TablePhases, RegistrarFirst
    <2>3. StartUndisturbed'
        BY DEF StartUndisturbed
    <2>4. UntrackedIsCancelled' /\ NoKeyLeft'
        BY DEF UntrackedIsCancelled, NoKeyLeft
    <2>5. TrackedIsVisible'
        BY DEF TrackedIsVisible
    <2> QED
        BY <2>1, <2>2, <2>3, <2>4, <2>5
  <1>4. CASE Register(s)
    <2> USE <1>4 DEF Register, Agreement
    <2>1. OneStart'
        BY DEF OneStart
    <2>2. TablePhases' /\ RegistrarFirst'
        BY DEF TablePhases, RegistrarFirst
    <2>3. StartUndisturbed' /\ UntrackedIsCancelled'
        BY DEF StartUndisturbed, UntrackedIsCancelled
    <2>4. NoKeyLeft'
        BY DEF StartUndisturbed, NoKeyLeft
    <2>5. TrackedIsVisible'
        BY DEF TrackedIsVisible
    <2> QED
        BY <2>1, <2>2, <2>3, <2>4, <2>5
  <1>5. CASE RunHandler(s)
    <2> USE <1>5 DEF RunHandler, Agreement
    <2>1. OneStart'
        BY DEF OneStart
    <2>2. TablePhases' /\ RegistrarFirst'
        BY DEF TablePhases, RegistrarFirst
    <2>3. StartUndisturbed' /\ UntrackedIsCancelled'
        BY DEF StartUndisturbed, UntrackedIsCancelled
    <2>4. NoKeyLeft' /\ TrackedIsVisible'
        BY DEF NoKeyLeft, TrackedIsVisible
    <2> QED
        BY <2>1, <2>2, <2>3, <2>4
  <1> QED
      BY <1>1, <1>2, <1>3, <1>4, <1>5 DEF StartSession

LEMMA HandlerKeepsAgreement ==
    ASSUME TypeOK, Agreement, NEW s \in Sessions,
           HandlerCancels(s) \/ HandlerReturns(s) \/ OnDone(s)
    PROVE  Agreement'
  <1> USE DEF TypeOK, kvVars, Phases, Starting
  <1>1. CASE HandlerCancels(s) \/ HandlerReturns(s)
    <2> USE <1>1 DEF HandlerCancels, HandlerReturns, Agreement
    <2>1. OneStart'
        BY DEF OneStart
    <2>2. TablePhases' /\ RegistrarFirst'
        BY DEF TablePhases, RegistrarFirst
    <2>3. StartUndisturbed' /\ UntrackedIsCancelled'
        BY DEF StartUndisturbed, UntrackedIsCancelled
    <2>4. NoKeyLeft' /\ TrackedIsVisible'
        BY DEF NoKeyLeft, TrackedIsVisible
    <2> QED
        BY <2>1, <2>2, <2>3, <2>4
  <1>2. CASE OnDoneUntrack(s)
    <2> USE <1>2 DEF OnDoneUntrack, Agreement
    <2>1. OneStart'
        BY DEF OneStart
    <2>2. TablePhases' /\ RegistrarFirst'
        BY DEF TablePhases, RegistrarFirst
    <2>3. StartUndisturbed' /\ UntrackedIsCancelled'
        BY DEF StartUndisturbed, UntrackedIsCancelled
    <2>4. NoKeyLeft' /\ TrackedIsVisible'
        BY DEF NoKeyLeft, TrackedIsVisible
    <2> QED
        BY <2>1, <2>2, <2>3, <2>4
  <1>3. CASE OnDoneDeregister(s)
    <2> USE <1>3 DEF OnDoneDeregister, Agreement
    <2>1. /\ kv' \subseteq kv /\ kv \ {s} \subseteq kv' /\ kvFaulty \subseteq kvFaulty'
          /\ s \in stillTracked => {s} \cap kv' \subseteq kvFaulty'
      <3>1. CASE s \in stillTracked
          BY <3>1, DeregisterFacts
      <3>2. CASE s \notin stillTracked
          BY <3>2
      <3> QED
          BY <3>1, <3>2
    <2>2. OneStart'
        BY DEF OneStart
    <2>3. TablePhases' /\ RegistrarFirst'
        BY <2>1 DEF TablePhases, RegistrarFirst
    <2>4. StartUndisturbed' /\ UntrackedIsCancelled'
        BY DEF StartUndisturbed, UntrackedIsCancelled
    <2>5. NoKeyLeft'
        BY <2>1 DEF NoKeyLeft, TablePhases
    <2>6. TrackedIsVisible'
        BY <2>1 DEF TrackedIsVisible, TablePhases
    <2> QED
        BY <2>2, <2>3, <2>4, <2>5, <2>6
  <1>4. CASE CloseDone(s)
    <2> USE <1>4 DEF CloseDone, Agreement
    <2>1. OneStart'
        BY DEF OneStart
    <2>2. TablePhases' /\ RegistrarFirst'
        BY DEF TablePhases, RegistrarFirst
    <2>3. StartUndisturbed' /\ UntrackedIsCancelled'
        BY DEF StartUndisturbed, UntrackedIsCancelled
    <2>4. NoKeyLeft' /\ TrackedIsVisible'
        BY DEF NoKeyLeft, TrackedIsVisible
    <2> QED
        BY <2>1, <2>2, <2>3, <2>4
  <1> QED
      BY <1>1, <1>2, <1>3, <1>4 DEF OnDone

LEMMA OthersKeepAgreement ==
    ASSUME TypeOK, Agreement,
           \/ \E s \in Sessions : CancelSession(s) \/ Expire(s)
           \/ Reap \/ SetRegistrar \/ BeginShutdown \/ Shutdown \/ UNCHANGED vars
    PROVE  Agreement'
  <1> USE DEF TypeOK, kvVars, Phases, Starting
  <1>1. ASSUME NEW s \in Sessions, CancelSession(s) PROVE Agreement'
    <2> USE <1>1 DEF CancelSession, Agreement
    <2>1. OneStart'
        BY DEF OneStart
    <2>2. TablePhases' /\ RegistrarFirst'
        BY DEF TablePhases, RegistrarFirst
    <2>3. StartUndisturbed'
        BY SessionsFinite DEF StartUndisturbed, OneStart, TablePhases
    <2>4. UntrackedIsCancelled' /\ NoKeyLeft' /\ TrackedIsVisible'
        BY DEF UntrackedIsCancelled, NoKeyLeft, TrackedIsVisible
    <2> QED
        BY <2>1, <2>2, <2>3, <2>4
  <1>2. ASSUME NEW s \in Sessions, Expire(s) PROVE Agreement'
    <2> USE <1>2 DEF Expire, Agreement
    <2>1. OneStart' /\ TablePhases' /\ RegistrarFirst'
        BY DEF OneStart, TablePhases, RegistrarFirst
    <2>2. StartUndisturbed' /\ UntrackedIsCancelled'
        BY DEF StartUndisturbed, UntrackedIsCancelled
    <2>3. NoKeyLeft' /\ TrackedIsVisible'
        BY DEF NoKeyLeft, TrackedIsVisible
    <2> QED
        BY <2>1, <2>2, <2>3
  <1>3. CASE Reap
    <2> USE <1>3 DEF Reap, Agreement
    <2>1. Stale \in SUBSET Sessions
        BY DEF Stale
    <2>2. /\ kv' \subseteq kv /\ kv \ Stale \subseteq kv' /\ kvFaulty \subseteq kvFaulty'
          /\ Stale \cap kv' \subseteq kvFaulty'
        BY <2>1, DeregisterFacts
    <2>3. OneStart' /\ TablePhases' /\ RegistrarFirst'
        BY <2>2 DEF OneStart, TablePhases, RegistrarFirst
    <2>4. StartUndisturbed'
        BY DEF StartUndisturbed, Stale
    <2>5. UntrackedIsCancelled'
        BY DEF UntrackedIsCancelled, Stale
    <2>6. NoKeyLeft'
        BY <2>2 DEF NoKeyLeft
    <2>7. TrackedIsVisible'
        BY <2>2 DEF TrackedIsVisible
    <2> QED
        BY <2>3, <2>4, <2>5, <2>6, <2>7
  <1>4. CASE SetRegistrar \/ BeginShutdown
    <2> USE <1>4 DEF SetRegistrar, BeginShutdown, Agreement
    <2>1. OneStart' /\ TablePhases' /\ RegistrarFirst'
        BY DEF OneStart, TablePhases, RegistrarFirst
    <2>2. StartUndisturbed' /\ UntrackedIsCancelled'
        BY DEF StartUndisturbed, UntrackedIsCancelled
    <2>3. NoKeyLeft' /\ TrackedIsVisible'
        BY DEF NoKeyLeft, TrackedIsVisible
    <2> QED
        BY <2>1, <2>2, <2>3
  <1>5. CASE CancelAllSessions
    <2> USE <1>5 DEF CancelAllSessions, Agreement
    <2>1. kv' \subseteq kv
        BY DeregisterFacts
    <2>2. OneStart' /\ TablePhases' /\ RegistrarFirst'
        BY <2>1 DEF OneStart, TablePhases, RegistrarFirst
    <2>3. StartUndisturbed' /\ UntrackedIsCancelled'
        BY DEF StartUndisturbed, UntrackedIsCancelled
    <2>4. NoKeyLeft' /\ TrackedIsVisible'
        BY DEF NoKeyLeft, TrackedIsVisible
    <2> QED
        BY <2>2, <2>3, <2>4
  <1>6. CASE StopReaper \/ StopTransport
    <2> USE <1>6 DEF StopReaper, StopTransport, Agreement
    <2>1. OneStart' /\ TablePhases' /\ RegistrarFirst'
        BY DEF OneStart, TablePhases, RegistrarFirst
    <2>2. StartUndisturbed' /\ UntrackedIsCancelled'
        BY DEF StartUndisturbed, UntrackedIsCancelled
    <2>3. NoKeyLeft' /\ TrackedIsVisible'
        BY DEF NoKeyLeft, TrackedIsVisible
    <2> QED
        BY <2>1, <2>2, <2>3
  <1>7. CASE UNCHANGED vars
      BY <1>7 DEF vars, Agreement, OneStart, TablePhases, RegistrarFirst,
                  StartUndisturbed, UntrackedIsCancelled, NoKeyLeft, TrackedIsVisible
  <1> QED
      BY <1>1, <1>2, <1>3, <1>4, <1>5, <1>6, <1>7 DEF Shutdown

LEMMA Invariance == Spec => []IInv
  <1>1. IInv /\ [Next]_vars => IInv'
    <2> SUFFICES ASSUME IInv, [Next]_vars PROVE IInv'
        OBVIOUS
    <2>1. TypeOK /\ TableBounded /\ Agreement
        BY DEF IInv, Agreement
    <2>2. TypeOK' /\ TableBounded'
        BY <2>1, StepTypeOK, StepTableBounded
    <2>3. ASSUME NEW s \in Sessions, BeginStart(s) \/ StartSession(s)
          PROVE  Agreement'
        BY <2>1, <2>3, StartKeepsAgreement
    <2>4. ASSUME NEW s \in Sessions, HandlerCancels(s) \/ HandlerReturns(s) \/ OnDone(s)
          PROVE  Agreement'
        BY <2>1, <2>4, HandlerKeepsAgreement
    <2>5. ASSUME \/ \E s \in Sessions : CancelSession(s) \/ Expire(s)
                 \/ Reap \/ SetRegistrar \/ BeginShutdown \/ Shutdown \/ UNCHANGED vars
          PROVE  Agreement'
        BY <2>1, <2>5, OthersKeepAgreement
    <2>6. Agreement'
        BY <2>3, <2>4, <2>5 DEF Next
    <2> QED
        BY <2>2, <2>6 DEF IInv, Agreement
  <1> QED
      BY InitIInv, <1>1, PTL DEF Spec

-----------------------------------------------------------------------------
\* The table never holds more than MaxSessions sessions, however the starts
\* interleave with the reaper, the handlers' OnDone and a shutdown
\* (session_manager.go:155-162).
THEOREM TableNeverOverflows == Spec => []TableBounded
  <1>1. IInv => TableBounded
      BY DEF IInv
  <1> QED
      BY Invariance, <1>1, PTL

\* Nothing runs on out of the reach of CancelSession: a session that left the
\* table before its handler returned has been cancelled
\* (session_manager.go:227-239, 286-303, 322-328).
THEOREM NothingOutOfReach == Spec => []UntrackedIsCancelled
  <1>1. IInv => UntrackedIsCancelled
      BY DEF IInv
  <1> QED
      BY Invariance, <1>1, PTL

\* Before shutdown, every key of the registry whose delete did not fail belongs
\* to a session in the table or to one whose OnDone is about to delete it
\* (session_manager.go:188-196, 306-329).
THEOREM NoKeyLeftBehind == Spec => []NoKeyLeft
  <1>1. IInv => NoKeyLeft
      BY DEF IInv
  <1> QED
      BY Invariance, <1>1, PTL

\* A session in the table whose put succeeded is visible in the registry until
\* its key expires (session_manager.go:178-180, 188-196).
THEOREM TrackedStaysVisible == Spec => []TrackedIsVisible
  <1>1. IInv => TrackedIsVisible
      BY DEF IInv
  <1> QED
      BY Invariance, <1>1, PTL
=============================================================================
