---------------------------- MODULE HealthMonitor ----------------------------
(***************************************************************************)
(* The health monitors of the hub's workers (jobs/health_monitor.py).      *)
(* Every worker process runs the loop; PostgreSQL's advisory lock is to    *)
(* admit one cycle at a time.  The lock belongs to the database connection *)
(* it was taken on, nothing in the code unlocks it, and a session gives    *)
(* its connection back to the worker's pool at every commit: the pool is   *)
(* part of the model.  It is SQLAlchemy's QueuePool: a first-in-first-out  *)
(* queue of PoolSize idle connections; a connection that is returned to a  *)
(* full queue is closed.                                                   *)
(***************************************************************************)
EXTENDS Naturals, Sequences, SequencesExt

CONSTANTS Worker, Endpoint,
          PoolSize, MaxOverflow,   \* of each worker's pool
          Threshold                \* consecutive failures that deactivate

ASSUME MonitorAssumption ==
    /\ PoolSize \in Nat \ {0} /\ MaxOverflow \in Nat
    /\ Threshold \in Nat \ {0}

VARIABLES up,         \* workers whose process runs
          idle,       \* Worker -> the queue of idle connections
          busy,       \* Worker -> connections that requests use
          lock,       \* the connection that holds the advisory lock, or NoLock
          cycle,      \* Worker -> its health check cycle
          active,     \* Endpoint -> is_active
          failures,   \* Endpoint -> consecutive_failure_count, up to Threshold
          report,     \* Endpoint -> the client's report that has not expired
          discarded,  \* history: the lock's connection was closed by a pool
          switchedOff \* history: endpoints whose is_active an admin took away

vars == <<up, idle, busy, lock, cycle, active, failures, report, discarded, switchedOff>>
pools == <<up, idle, busy>>
endpoints == <<active, failures, report, switchedOff>>

Connection == 1..(PoolSize + MaxOverflow)
NoLock == [worker |-> "none", conn |-> 0]
Report == {"none", "healthy", "unhealthy"}
Asleep == [pc |-> "asleep", conn |-> 0, left |-> {}, seen |-> [e \in Endpoint |-> "none"]]

Cycle == [pc: {"asleep", "locked", "checking", "sampling"},
          conn: Connection \cup {0},
          left: SUBSET Endpoint, seen: [Endpoint -> Report]]

TypeOK ==
    /\ up \subseteq Worker
    /\ idle \in [Worker -> Seq(Connection)]
    /\ busy \in [Worker -> SUBSET Connection]
    /\ lock \in [worker: Worker, conn: Connection] \cup {NoLock}
    /\ cycle \in [Worker -> Cycle]
    /\ active \in [Endpoint -> BOOLEAN]
    /\ failures \in [Endpoint -> 0..Threshold]
    /\ report \in [Endpoint -> Report]
    /\ discarded \in BOOLEAN /\ switchedOff \subseteq Endpoint

Init ==
    /\ up = Worker
    /\ idle = [w \in Worker |-> <<>>] /\ busy = [w \in Worker |-> {}]
    /\ lock = NoLock
    /\ cycle = [w \in Worker |-> Asleep]
    /\ active = [e \in Endpoint |-> TRUE] /\ failures = [e \in Endpoint |-> 0]
    /\ report = [e \in Endpoint |-> "none"]
    /\ discarded = FALSE /\ switchedOff = {}

-----------------------------------------------------------------------------
(* The pool of a worker.                                                   *)
Open(w) == ToSet(idle[w]) \cup busy[w] \cup ({cycle[w].conn} \ {0})

(* The connections a checkout may give out: the one that has been idle     *)
(* for longest, or a new one while the limit allows.                       *)
Available(w) == IF idle[w] # <<>> THEN {Head(idle[w])} ELSE Connection \ Open(w)

Remaining(w) == IF idle[w] # <<>> THEN Tail(idle[w]) ELSE <<>>

(* Connection c goes back to a queue q: it is closed when q is full, and   *)
(* its lock is released with it.                                           *)
Full(q) == Len(q) >= PoolSize
Returned(q, c) == IF Full(q) THEN q ELSE Append(q, c)
LockReturned(w, q, c) ==
    IF Full(q) /\ lock = [worker |-> w, conn |-> c]
    THEN lock' = NoLock /\ discarded' = TRUE
    ELSE UNCHANGED <<lock, discarded>>

(* Other requests of the worker.                                           *)
RequestConnects(w) ==
    /\ w \in up
    /\ \E c \in Available(w) : busy' = [busy EXCEPT ![w] = @ \cup {c}]
    /\ idle' = [idle EXCEPT ![w] = Remaining(w)]
    /\ UNCHANGED <<up, lock, cycle, discarded, endpoints>>

RequestEnds(w) ==
    /\ \E c \in busy[w] :
          /\ busy' = [busy EXCEPT ![w] = @ \ {c}]
          /\ idle' = [idle EXCEPT ![w] = Returned(@, c)]
          /\ LockReturned(w, idle[w], c)
    /\ UNCHANGED <<up, cycle, endpoints>>

-----------------------------------------------------------------------------
(* A cycle.  A session takes a connection for its first statement and      *)
(* gives it back when it commits, rolls back or is closed.                 *)
Held(w) == cycle[w].conn # 0
Connections(w) == IF Held(w) THEN {cycle[w].conn} ELSE Available(w)
QueueOf(w) == IF Held(w) THEN idle[w] ELSE Remaining(w)

(* The statement runs and its transaction stays open.                      *)
KeepConnection(w, c, next) ==
    /\ idle' = [idle EXCEPT ![w] = QueueOf(w)]
    /\ cycle' = [cycle EXCEPT ![w] = [next EXCEPT !.conn = c]]

(* The transaction ends.                                                   *)
ReleaseConnection(w, c, next) ==
    /\ idle' = [idle EXCEPT ![w] = Returned(QueueOf(w), c)]
    /\ LockReturned(w, QueueOf(w), c)
    /\ cycle' = [cycle EXCEPT ![w] = [next EXCEPT !.conn = 0]]

(* Faulty: the lock is asked for and the answer ignored.                   *)
AcquireRegardless(w) ==
    /\ w \in up /\ cycle[w].pc = "asleep"
    /\ \E c \in Available(w) :
          /\ lock' = IF lock = NoLock THEN [worker |-> w, conn |-> c] ELSE lock
          /\ KeepConnection(w, c, [Asleep EXCEPT !.pc = "locked"])
    /\ UNCHANGED <<up, busy, discarded, endpoints>>

(* pg_try_advisory_lock: a connection may take again what it holds.        *)
AcquireCycleLock(w) ==
    /\ w \in up /\ cycle[w].pc = "asleep"
    /\ \E c \in Available(w) :
          /\ lock \in {NoLock, [worker |-> w, conn |-> c]}
          /\ lock' = [worker |-> w, conn |-> c]
          /\ KeepConnection(w, c, [Asleep EXCEPT !.pc = "locked"])
    /\ UNCHANGED <<up, busy, discarded, endpoints>>

SkipCycle(w) ==
    /\ w \in up /\ cycle[w].pc = "asleep"
    /\ \E c \in Available(w) :
          /\ lock \notin {NoLock, [worker |-> w, conn |-> c]}
          /\ ReleaseConnection(w, c, Asleep)
    /\ UNCHANGED <<up, busy, endpoints>>

(* Once a day old uptime samples are deleted, in a transaction of its own. *)
UptimeRetention(w) ==
    /\ cycle[w].pc = "locked" /\ Held(w)
    /\ ReleaseConnection(w, cycle[w].conn, cycle[w])
    /\ UNCHANGED <<up, busy, endpoints>>

GetEndpoints(w) ==
    /\ cycle[w].pc = "locked"
    /\ \E c \in Connections(w) :
          KeepConnection(w, c, [cycle[w] EXCEPT !.pc = "checking", !.left = Endpoint,
                                                !.seen = report])
    /\ UNCHANGED <<up, busy, lock, discarded, endpoints>>

(* Faulty: is_active looks at a count that includes the failure twice.     *)
EvaluateEarly(e, healthy) ==
    /\ failures' = [failures EXCEPT ![e] = IF healthy THEN 0
                                           ELSE IF @ < Threshold THEN @ + 1 ELSE @]
    /\ active' = [active EXCEPT ![e] = IF healthy THEN TRUE
                                       ELSE IF failures[e] + 2 >= Threshold THEN FALSE
                                       ELSE @]
    /\ switchedOff' = IF healthy THEN switchedOff \ {e} ELSE switchedOff

(* UPDATE ... CASE, committed at once.                                     *)
Evaluate(e, healthy) ==
    /\ failures' = [failures EXCEPT ![e] = IF healthy THEN 0
                                           ELSE IF @ < Threshold THEN @ + 1 ELSE @]
    /\ active' = [active EXCEPT ![e] = IF healthy THEN TRUE
                                       ELSE IF failures[e] + 1 >= Threshold THEN FALSE
                                       ELSE @]
    /\ switchedOff' = IF healthy THEN switchedOff \ {e} ELSE switchedOff

UpdateHealthStatus(w, e) ==
    /\ cycle[w].pc = "checking" /\ e \in cycle[w].left
    /\ \E c \in Connections(w) :
          \/ /\ Evaluate(e, cycle[w].seen[e] = "healthy")
             /\ ReleaseConnection(w, c, [cycle[w] EXCEPT !.pc = "sampling",
                                                         !.left = @ \ {e}])
          \/ /\ ReleaseConnection(w, c, [cycle[w] EXCEPT !.left = @ \ {e}])
             /\ UNCHANGED <<active, failures, switchedOff>>
    /\ UNCHANGED <<up, busy, report>>

EmitUptimeSample(w) ==
    /\ cycle[w].pc = "sampling"
    /\ \E c \in Connections(w) :
          ReleaseConnection(w, c, [cycle[w] EXCEPT !.pc = "checking"])
    /\ UNCHANGED <<up, busy, endpoints>>

(* session.close(), at the end or after an exception: the connection goes  *)
(* back and the lock stays with it.                                        *)
CloseSession(w) ==
    /\ cycle[w].pc # "asleep"
    /\ IF Held(w)
       THEN ReleaseConnection(w, cycle[w].conn, Asleep)
       ELSE /\ cycle' = [cycle EXCEPT ![w] = Asleep]
            /\ UNCHANGED <<idle, lock, discarded>>
    /\ UNCHANGED <<up, busy, endpoints>>

-----------------------------------------------------------------------------
(* POST /endpoints/health.                                                 *)
ReportEndpointHealth(e) ==
    /\ \E status \in Report \ {"none"} : report' = [report EXCEPT ![e] = status]
    /\ UNCHANGED <<pools, lock, cycle, active, failures, discarded, switchedOff>>

(* The report, and the copy a cycle has read, pass their time to live.     *)
ReportExpires(e) ==
    /\ report[e] # "none"
    /\ report' = [report EXCEPT ![e] = "none"]
    /\ cycle' = [w \in Worker |-> [cycle[w] EXCEPT !.seen[e] = "none"]]
    /\ UNCHANGED <<pools, lock, active, failures, discarded, switchedOff>>

AdminUpdateEndpoint(e) ==
    /\ \E b \in BOOLEAN : /\ active' = [active EXCEPT ![e] = b]
                          /\ switchedOff' = IF b THEN switchedOff \ {e}
                                            ELSE switchedOff \cup {e}
    /\ UNCHANGED <<pools, lock, cycle, failures, report, discarded>>

(* A worker's process ends, and its connections with it; a new one starts. *)
WorkerEnds(w) ==
    /\ w \in up
    /\ up' = up \ {w}
    /\ idle' = [idle EXCEPT ![w] = <<>>] /\ busy' = [busy EXCEPT ![w] = {}]
    /\ cycle' = [cycle EXCEPT ![w] = Asleep]
    /\ lock' = IF lock.worker = w THEN NoLock ELSE lock
    /\ UNCHANGED <<discarded, endpoints>>

WorkerStarts(w) ==
    /\ w \notin up
    /\ up' = up \cup {w}
    /\ UNCHANGED <<idle, busy, lock, cycle, discarded, endpoints>>

-----------------------------------------------------------------------------
CycleStep(w) ==
    \/ AcquireCycleLock(w) \/ SkipCycle(w) \/ UptimeRetention(w) \/ GetEndpoints(w)
    \/ \E e \in Endpoint : UpdateHealthStatus(w, e)
    \/ EmitUptimeSample(w) \/ CloseSession(w)

Next ==
    \/ \E w \in Worker : \/ CycleStep(w)
                         \/ RequestConnects(w) \/ RequestEnds(w)
                         \/ WorkerEnds(w) \/ WorkerStarts(w)
    \/ \E e \in Endpoint : \/ ReportEndpointHealth(e) \/ ReportExpires(e)
                           \/ AdminUpdateEndpoint(e)

Spec == Init /\ [][Next]_vars

-----------------------------------------------------------------------------
(* Two workers' cycles overlap only after a pool has closed the connection *)
(* that held the lock: neither commits in mid-cycle, nor crashes and       *)
(* restarts, nor failed cycles let a second one in                         *)
(* (health_monitor.py:111-140, 407-500).                                   *)
OneCycleUnlessDiscarded ==
    ~discarded => \A v, w \in Worker :
        cycle[v].pc # "asleep" /\ cycle[w].pc # "asleep" => v = w

(* An endpoint is inactive because its last Threshold evaluations found no *)
(* healthy report, or because an admin said so and none was found since:   *)
(* also when cycles overlap, fail half way and use old snapshots           *)
(* (health_monitor.py:274-335).                                            *)
InactiveHasReason ==
    \A e \in Endpoint : ~active[e] => failures[e] >= Threshold \/ e \in switchedOff
=============================================================================
