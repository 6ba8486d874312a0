------------------------ MODULE AgentSessionManager ------------------------
(***************************************************************************)
(* The session table of a Space (sdk/golang/syfthubapi/session_manager.go) *)
(* with everything that works on it concurrently: the NATS dispatcher that *)
(* starts and cancels sessions, the goroutine of every handler with its    *)
(* OnDone callback, the reaper, the external registry (a JetStream KV      *)
(* bucket, transport/nats_kv.go) and the shutdown of the Space (api.go).   *)
(*                                                                         *)
(* StartSession, and OnDone, are split where the code gives up the mutex.  *)
(* The dispatcher runs one message callback at a time (one subscription,   *)
(* nats.go:387), so a start and a cancel never overlap each other, but     *)
(* both overlap the reaper, the handlers and the shutdown.  Session ids    *)
(* are fresh (the aggregator draws a UUID for each).                       *)
(***************************************************************************)
EXTENDS Naturals, FiniteSets

CONSTANTS Sessions,      \* ids of the sessions peers may ask for
          MaxSessions,   \* size limit of the table (100 in the code)
          Idle,          \* the dispatcher is not in StartSession
          KVMayFail      \* whether a KV operation may fail while connected

ASSUME SessionsFinite == IsFiniteSet(Sessions) /\ Idle \notin Sessions
ASSUME MaxSessionsNat == MaxSessions \in Nat
ASSUME KVMayFailBool  == KVMayFail \in BOOLEAN

VARIABLES phase,        \* progress of each session
          sessions,     \* m.sessions: the sessions in the table
          ctxDone,      \* sessions whose context is cancelled
          stillTracked, \* sessions whose OnDone found them in the table
          dispatcher,   \* the session being started, or Idle
          registrar,    \* m.registrar is set
          kv,           \* keys of the KV bucket
          kvMissed,     \* sessions never put: no registrar, or the put failed
          kvFaulty,     \* sessions whose delete failed
          kvExpired,    \* sessions whose key reached its time to live
          reaper,       \* the reaper goroutine runs
          space         \* "up", "stopping", "cancelled" or "stopped"

kvVars == <<kv, kvMissed, kvFaulty, kvExpired>>
vars == <<phase, sessions, ctxDone, stillTracked, dispatcher, registrar, kv,
          kvMissed, kvFaulty, kvExpired, reaper, space>>

-----------------------------------------------------------------------------
Starting == {"checking", "inserted", "registered"}
Phases   == {"unknown", "refused", "running", "returned", "untracked",
             "cleaned", "done"} \cup Starting
Spaces   == {"up", "stopping", "cancelled", "stopped"}

TypeOK ==
    /\ phase \in [Sessions -> Phases]
    /\ sessions \subseteq Sessions
    /\ ctxDone \subseteq Sessions
    /\ stillTracked \subseteq Sessions
    /\ dispatcher \in Sessions \cup {Idle}
    /\ registrar \in BOOLEAN
    /\ kv \subseteq Sessions
    /\ kvMissed \subseteq Sessions
    /\ kvFaulty \subseteq Sessions
    /\ kvExpired \subseteq Sessions
    /\ reaper \in BOOLEAN
    /\ space \in Spaces

Init ==
    /\ phase = [s \in Sessions |-> "unknown"]
    /\ sessions = {}
    /\ ctxDone = {}
    /\ stillTracked = {}
    /\ dispatcher = Idle
    /\ registrar = FALSE
    /\ kv = {}
    /\ kvMissed = {}
    /\ kvFaulty = {}
    /\ kvExpired = {}
    /\ reaper = TRUE
    /\ space = "up"

Connected == space # "stopped"   \* transport.Stop closes the connection

\* deregisterSession for every session of S: a failing delete is only logged,
\* and without a connection every delete fails.
Deregister(S) ==
    IF ~registrar THEN UNCHANGED <<kv, kvFaulty>>
    ELSE \E F \in SUBSET S :
           /\ KVMayFail \/ ~Connected \/ F = {}
           /\ Connected \/ F = S
           /\ kv' = kv \ (S \ F)
           /\ kvFaulty' = kvFaulty \cup F

-----------------------------------------------------------------------------
(* StartSession, in the dispatcher's callback.                              *)

\* handleSessionStart hands a verified start message to StartSession.
BeginStart(s) ==
    /\ Connected
    /\ dispatcher = Idle
    /\ phase[s] = "unknown"
    /\ phase' = [phase EXCEPT ![s] = "checking"]
    /\ dispatcher' = s
    /\ UNCHANGED <<sessions, ctxDone, stillTracked, registrar, kvVars, reaper,
                   space>>

\* Unknown endpoint, not an agent, denied by a policy, or without a handler.
Refuse(s) ==
    /\ phase[s] = "checking"
    /\ phase' = [phase EXCEPT ![s] = "refused"]
    /\ dispatcher' = Idle
    /\ UNCHANGED <<sessions, ctxDone, stillTracked, registrar, kvVars, reaper,
                   space>>

TableFull == Cardinality(sessions) >= MaxSessions

\* Under the mutex: the table is full and the new session is cancelled ...
RefuseFull(s) ==
    /\ phase[s] = "checking"
    /\ TableFull
    /\ phase' = [phase EXCEPT ![s] = "refused"]
    /\ ctxDone' = ctxDone \cup {s}
    /\ dispatcher' = Idle
    /\ UNCHANGED <<sessions, stillTracked, registrar, kvVars, reaper, space>>

\* ... or the session enters the table.
Insert(s) ==
    /\ phase[s] = "checking"
    /\ ~TableFull
    /\ phase' = [phase EXCEPT ![s] = "inserted"]
    /\ sessions' = sessions \cup {s}
    /\ UNCHANGED <<ctxDone, stillTracked, dispatcher, registrar, kvVars, reaper,
                   space>>

\* RegisterSession, after the mutex was given up.
Register(s) ==
    /\ phase[s] = "inserted"
    /\ phase' = [phase EXCEPT ![s] = "registered"]
    /\ \/ /\ registrar /\ Connected
          /\ kv' = kv \cup {s}
          /\ UNCHANGED kvMissed
       \/ /\ ~registrar \/ KVMayFail \/ ~Connected
          /\ kvMissed' = kvMissed \cup {s}
          /\ UNCHANGED kv
    /\ UNCHANGED <<sessions, ctxDone, stillTracked, dispatcher, registrar,
                   kvFaulty, kvExpired, reaper, space>>

\* OnDone is set, RunHandler spawns the handler and StartSession returns.
RunHandler(s) ==
    /\ phase[s] = "registered"
    /\ phase' = [phase EXCEPT ![s] = "running"]
    /\ dispatcher' = Idle
    /\ UNCHANGED <<sessions, ctxDone, stillTracked, registrar, kvVars, reaper,
                   space>>

-----------------------------------------------------------------------------
(* The goroutine of a handler.                                              *)

\* The handler cancels its own session (the subprocess bridge does, to stop
\* its writer goroutine, before it returns).
HandlerCancels(s) ==
    /\ phase[s] = "running"
    /\ ctxDone' = ctxDone \cup {s}
    /\ UNCHANGED <<phase, sessions, stillTracked, dispatcher, registrar, kvVars,
                   reaper, space>>

\* The handler returns; RunHandler reports the terminal event.
HandlerReturns(s) ==
    /\ phase[s] = "running"
    /\ phase' = [phase EXCEPT ![s] = "returned"]
    /\ UNCHANGED <<sessions, ctxDone, stillTracked, dispatcher, registrar,
                   kvVars, reaper, space>>

\* OnDone under the mutex: look the session up and delete it.
OnDoneUntrack(s) ==
    /\ phase[s] = "returned"
    /\ phase' = [phase EXCEPT ![s] = "untracked"]
    /\ stillTracked' = IF s \in sessions THEN stillTracked \cup {s}
                       ELSE stillTracked
    /\ sessions' = sessions \ {s}
    /\ UNCHANGED <<ctxDone, dispatcher, registrar, kvVars, reaper, space>>

\* OnDone after the mutex: deregister, but only a session it found.
OnDoneDeregister(s) ==
    /\ phase[s] = "untracked"
    /\ phase' = [phase EXCEPT ![s] = "cleaned"]
    /\ IF s \in stillTracked THEN Deregister({s})
       ELSE UNCHANGED <<kv, kvFaulty>>
    /\ UNCHANGED <<sessions, ctxDone, stillTracked, dispatcher, registrar,
                   kvMissed, kvExpired, reaper, space>>

\* close(sendCh) and close(done).
CloseDone(s) ==
    /\ phase[s] = "cleaned"
    /\ phase' = [phase EXCEPT ![s] = "done"]
    /\ UNCHANGED <<sessions, ctxDone, stillTracked, dispatcher, registrar,
                   kvVars, reaper, space>>

-----------------------------------------------------------------------------
(* The other users of the table.                                            *)

\* CancelSession, in the dispatcher's callback of an agent_session_cancel.
CancelSession(s) ==
    /\ Connected
    /\ dispatcher = Idle
    /\ s \in sessions
    /\ ctxDone' = ctxDone \cup {s}
    /\ UNCHANGED <<phase, sessions, stillTracked, dispatcher, registrar, kvVars,
                   reaper, space>>

\* Faulty: only sessions that are done are stale.
StaleDone == {s \in sessions : phase[s] = "done"}

\* reapStaleSessions, one pass of the reaper under the mutex.
Stale == {s \in sessions : phase[s] = "done" \/ s \in ctxDone}

\* Faulty: the reaper forgets the registry, or the table.
ReapKeepsKeys ==
    /\ reaper /\ Stale # {}
    /\ sessions' = sessions \ Stale
    /\ UNCHANGED <<phase, ctxDone, stillTracked, dispatcher, registrar, kvVars,
                   reaper, space>>

ReapKeepsEntries ==
    /\ reaper /\ Stale # {}
    /\ Deregister(Stale)
    /\ UNCHANGED <<phase, sessions, ctxDone, stillTracked, dispatcher, registrar,
                   kvMissed, kvExpired, reaper, space>>

Reap ==
    /\ reaper
    /\ Stale # {}
    /\ sessions' = sessions \ Stale
    /\ Deregister(Stale)
    /\ UNCHANGED <<phase, ctxDone, stillTracked, dispatcher, registrar,
                   kvMissed, kvExpired, reaper, space>>

\* The KV server drops a key two hours after its put; nothing refreshes it.
Expire(s) ==
    /\ s \in kv
    /\ kv' = kv \ {s}
    /\ kvExpired' = kvExpired \cup {s}
    /\ UNCHANGED <<phase, sessions, ctxDone, stillTracked, dispatcher,
                   registrar, kvMissed, kvFaulty, reaper, space>>

\* transport.Start sets the registrar after it has subscribed, if JetStream is
\* there at all.
SetRegistrar ==
    /\ ~registrar
    /\ space = "up"
    /\ registrar' = TRUE
    /\ UNCHANGED <<phase, sessions, ctxDone, stillTracked, dispatcher, kvVars,
                   reaper, space>>

\* A signal cancels the context of Run, or somebody calls Shutdown.
BeginShutdown ==
    /\ space = "up"
    /\ space' = "stopping"
    /\ UNCHANGED <<phase, sessions, ctxDone, stillTracked, dispatcher,
                   registrar, kvVars, reaper>>

\* The reaper sees its context cancelled (by Run's context or StopReaper).
StopReaper ==
    /\ space # "up"
    /\ reaper
    /\ reaper' = FALSE
    /\ UNCHANGED <<phase, sessions, ctxDone, stillTracked, dispatcher,
                   registrar, kvVars, space>>

\* Faulty: shutdown empties the table without cancelling.
CancelNoSession ==
    /\ space = "stopping" /\ space' = "cancelled"
    /\ sessions' = {}
    /\ Deregister(sessions)
    /\ UNCHANGED <<phase, ctxDone, stillTracked, dispatcher, registrar, kvMissed,
                   kvExpired, reaper>>

\* CancelAllSessions, the first step of shutdown, under the mutex.
CancelAllSessions ==
    /\ space = "stopping"
    /\ space' = "cancelled"
    /\ ctxDone' = ctxDone \cup sessions
    /\ sessions' = {}
    /\ Deregister(sessions)
    /\ UNCHANGED <<phase, stillTracked, dispatcher, registrar, kvMissed,
                   kvExpired, reaper>>

\* transport.Stop, a later step of shutdown: unsubscribe and close.
StopTransport ==
    /\ space = "cancelled"
    /\ space' = "stopped"
    /\ UNCHANGED <<phase, sessions, ctxDone, stillTracked, dispatcher,
                   registrar, kvVars, reaper>>

-----------------------------------------------------------------------------
StartSession(s) ==
    Refuse(s) \/ RefuseFull(s) \/ Insert(s) \/ Register(s) \/ RunHandler(s)

OnDone(s) == OnDoneUntrack(s) \/ OnDoneDeregister(s) \/ CloseDone(s)

Shutdown == CancelAllSessions \/ StopReaper \/ StopTransport

Next ==
    \/ \E s \in Sessions :
         \/ BeginStart(s) \/ StartSession(s)
         \/ HandlerCancels(s) \/ HandlerReturns(s) \/ OnDone(s)
         \/ CancelSession(s) \/ Expire(s)
    \/ Reap
    \/ SetRegistrar
    \/ BeginShutdown
    \/ Shutdown

Spec == Init /\ [][Next]_vars

\* The callback, OnDone, the reaper's ticker and shutdown run on; nothing is
\* assumed of a handler, which is user code and may ignore its context.
Fairness ==
    /\ \A s \in Sessions : WF_vars(StartSession(s)) /\ WF_vars(OnDone(s))
    /\ WF_vars(Reap)
    /\ WF_vars(Shutdown)

FairSpec == Spec /\ Fairness

-----------------------------------------------------------------------------
(* Properties.                                                              *)

\* The table never exceeds its limit (the check and the insertion share one
\* critical section, session_manager.go:155-162).
TableBounded == Cardinality(sessions) <= MaxSessions

\* A session that is not in the table can no longer be cancelled by its user
\* (CancelSession, :227-239, finds nothing), so it must have been cancelled
\* before it was taken out: nothing runs on out of reach.
UntrackedIsCancelled ==
    \A s \in Sessions : phase[s] \in {"inserted", "registered", "running"}
                        => s \in sessions \/ s \in ctxDone

\* Until shutdown takes the table down, a key in the registry belongs to a
\* session in the table, or to one whose OnDone is about to delete the key:
\* neither the reaper nor OnDone (:188-196, :306-329) leaves a key behind.
NoKeyLeft ==
    space \in {"up", "stopping"} =>
      \A s \in kv \ kvFaulty :
         s \in sessions \/ (phase[s] = "untracked" /\ s \in stillTracked)

\* And the other way round: a session in the table whose put succeeded stays
\* visible in the registry, until its time to live passes, as long as it is in
\* the table.
TrackedIsVisible ==
    \A s \in sessions : phase[s] \in {"registered", "running", "returned"}
                        => s \in kv \cup kvMissed \cup kvExpired

\* Slots and keys come back. While the Space is up, the reaper takes a cancelled
\* session out of the table even if its handler ignores its context (:322-328);
\* and a session whose handler has returned leaves the table and, unless the
\* delete fails, the registry, whoever takes it out first: OnDone, the reaper or
\* the shutdown.
SlotsComeBack ==
    \A s \in Sessions :
       /\ (s \in ctxDone /\ space = "up") ~> (s \notin sessions \/ space # "up")
       /\ (phase[s] = "returned") ~>
             (s \notin sessions /\ (s \in kv => s \in kvFaulty \/ space # "up"))
=============================================================================
