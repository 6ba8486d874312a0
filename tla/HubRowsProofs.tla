---------------------------- MODULE HubRowsProofs ----------------------------
(***************************************************************************)
(* Proofs about the rows of HubRows, for any workers, endpoints, pools,    *)
(* thresholds, tokens and limits: safety of the health monitor, the limit  *)
(* on a user's tokens, and that a revoked token stays revoked.             *)
(***************************************************************************)
EXTENDS HubRows, FiniteSetTheorems, WellFoundedInduction, TLAPS

(* While no pool has thrown the lock away, it belongs to the worker whose  *)
(* cycle runs, whichever connection the cycle uses by now.                 *)
CycleHasLock ==
    ~discarded => \A w \in Worker :
        cycle[w].pc # "asleep" => lock # NoLock /\ lock.worker = w

IInv == TypeOK /\ CycleHasLock /\ InactiveHasReason

-----------------------------------------------------------------------------
(* Types.                                                                  *)

LEMMA ConnectionsAreNumbers == Connection \subseteq Nat \ {0}
BY MonitorAssumption DEF Connection

LEMMA AsleepIsCycle == Asleep \in Cycle
BY DEF Asleep, Cycle, Report

(* A queue stays a queue of connections.                                   *)
LEMMA QueueTyped ==
    ASSUME NEW q \in Seq(Connection), NEW c \in Connection
    PROVE  Returned(q, c) \in Seq(Connection)
BY DEF Returned

LEMMA PoolTyped ==
    ASSUME TypeOK, NEW w \in Worker
    PROVE  /\ Available(w) \subseteq Connection /\ Remaining(w) \in Seq(Connection)
           /\ Connections(w) \subseteq Connection /\ QueueOf(w) \in Seq(Connection)
<1>1. idle[w] \in Seq(Connection) /\ cycle[w].conn \in Connection \cup {0}
  BY DEF TypeOK, Cycle
<1>2. Available(w) \subseteq Connection /\ Remaining(w) \in Seq(Connection)
  BY <1>1 DEF Available, Remaining
<1> QED BY <1>1, <1>2 DEF Connections, QueueOf, Held

PoolAndCycleTyped ==
    /\ idle' \in [Worker -> Seq(Connection)]
    /\ cycle' \in [Worker -> Cycle]
    /\ lock' \in [worker: Worker, conn: Connection] \cup {NoLock}
    /\ discarded' \in BOOLEAN

LEMMA KeepTyped ==
    ASSUME TypeOK, NEW w \in Worker, NEW c \in Connection, NEW next \in Cycle,
           KeepConnection(w, c, next)
    PROVE  idle' \in [Worker -> Seq(Connection)] /\ cycle' \in [Worker -> Cycle]
<1>1. [next EXCEPT !.conn = c] \in Cycle
  BY DEF Cycle
<1> QED BY <1>1, PoolTyped DEF KeepConnection, TypeOK

LEMMA ReleaseTyped ==
    ASSUME TypeOK, NEW w \in Worker, NEW c \in Connection, NEW next \in Cycle,
           ReleaseConnection(w, c, next)
    PROVE  PoolAndCycleTyped
<1>1. [next EXCEPT !.conn = 0] \in Cycle
  BY DEF Cycle
<1>2. Returned(QueueOf(w), c) \in Seq(Connection)
  BY PoolTyped, QueueTyped
<1>3. lock' \in [worker: Worker, conn: Connection] \cup {NoLock} /\ discarded' \in BOOLEAN
  BY DEF ReleaseConnection, LockReturned, TypeOK
<1> QED BY <1>1, <1>2, <1>3 DEF ReleaseConnection, TypeOK, PoolAndCycleTyped

(* What a step of a cycle makes of pool, lock and cycle.                   *)
LEMMA CycleStepTyped ==
    ASSUME TypeOK, NEW w \in Worker, CycleStep(w)
    PROVE  PoolAndCycleTyped /\ UNCHANGED <<up, busy, report>>
<1>1. cycle[w] \in Cycle /\ cycle[w].conn \in Connection \cup {0}
  BY DEF TypeOK, Cycle
<1>2. CASE AcquireCycleLock(w)
  <2>1. [Asleep EXCEPT !.pc = "locked"] \in Cycle
    BY AsleepIsCycle DEF Cycle
  <2> QED BY <1>2, <2>1, PoolTyped, KeepTyped
          DEF AcquireCycleLock, TypeOK, PoolAndCycleTyped, endpoints
<1>3. CASE SkipCycle(w)
  BY <1>3, PoolTyped, ReleaseTyped, AsleepIsCycle DEF SkipCycle, endpoints
<1>4. CASE UptimeRetention(w)
  BY <1>1, <1>4, ReleaseTyped DEF UptimeRetention, Held, endpoints
<1>5. CASE GetEndpoints(w)
  <2>1. [cycle[w] EXCEPT !.pc = "checking", !.left = Endpoint, !.seen = report] \in Cycle
    BY <1>1 DEF Cycle, TypeOK
  <2> QED BY <1>5, <2>1, PoolTyped, KeepTyped
          DEF GetEndpoints, TypeOK, PoolAndCycleTyped, endpoints
<1>6. CASE \E e \in Endpoint : UpdateHealthStatus(w, e)
  <2>1. \A e : /\ [cycle[w] EXCEPT !.pc = "sampling", !.left = @ \ {e}] \in Cycle
               /\ [cycle[w] EXCEPT !.left = @ \ {e}] \in Cycle
    BY <1>1 DEF Cycle
  <2> QED BY <1>6, <2>1, PoolTyped, ReleaseTyped DEF UpdateHealthStatus
<1>7. CASE EmitUptimeSample(w)
  <2>1. [cycle[w] EXCEPT !.pc = "checking"] \in Cycle
    BY <1>1 DEF Cycle
  <2> QED BY <1>7, <2>1, PoolTyped, ReleaseTyped DEF EmitUptimeSample, endpoints
<1>8. CASE CloseSession(w)
  <2>1. CASE Held(w)
    BY <1>1, <1>8, <2>1, ReleaseTyped, AsleepIsCycle DEF CloseSession, Held, endpoints
  <2>2. CASE ~Held(w)
    BY <1>8, <2>2, AsleepIsCycle DEF CloseSession, TypeOK, PoolAndCycleTyped, endpoints
  <2> QED BY <2>1, <2>2
<1> QED BY <1>2, <1>3, <1>4, <1>5, <1>6, <1>7, <1>8 DEF CycleStep

(* What an evaluation makes of its endpoint.                               *)
LEMMA EvaluateKeeps ==
    ASSUME TypeOK, InactiveHasReason, NEW e \in Endpoint, NEW healthy \in BOOLEAN,
           Evaluate(e, healthy)
    PROVE  /\ active' \in [Endpoint -> BOOLEAN] /\ failures' \in [Endpoint -> 0..Threshold]
           /\ switchedOff' \subseteq Endpoint /\ InactiveHasReason'
<1>1. failures[e] \in 0..Threshold /\ Threshold \in Nat \ {0}
  BY MonitorAssumption DEF TypeOK
<1>2. failures' \in [Endpoint -> 0..Threshold]
  BY <1>1 DEF Evaluate, TypeOK
<1>3. active' \in [Endpoint -> BOOLEAN] /\ switchedOff' \subseteq Endpoint
  BY DEF Evaluate, TypeOK
<1>4. ~active'[e] => failures'[e] >= Threshold \/ e \in switchedOff'
  BY <1>1 DEF Evaluate, TypeOK, InactiveHasReason
<1>5. \A d \in Endpoint \ {e} : /\ active'[d] = active[d] /\ failures'[d] = failures[d]
                                /\ d \in switchedOff' <=> d \in switchedOff
  BY DEF Evaluate, TypeOK
<1> QED BY <1>2, <1>3, <1>4, <1>5 DEF InactiveHasReason

LEMMA EndpointsKept ==
    ASSUME TypeOK, InactiveHasReason, NEW w \in Worker, CycleStep(w)
    PROVE  /\ active' \in [Endpoint -> BOOLEAN] /\ failures' \in [Endpoint -> 0..Threshold]
           /\ switchedOff' \subseteq Endpoint /\ InactiveHasReason'
<1>1. CASE UNCHANGED <<active, failures, switchedOff>>
  BY <1>1 DEF TypeOK, InactiveHasReason
<1>2. ASSUME NEW e \in Endpoint, UpdateHealthStatus(w, e)
      PROVE  \/ UNCHANGED <<active, failures, switchedOff>>
             \/ Evaluate(e, cycle[w].seen[e] = "healthy")
  BY <1>2 DEF UpdateHealthStatus
<1>3. \A e \in Endpoint : (cycle[w].seen[e] = "healthy") \in BOOLEAN
  OBVIOUS
<1> QED BY <1>1, <1>2, <1>3, EvaluateKeeps
        DEF CycleStep, AcquireCycleLock, SkipCycle, UptimeRetention, GetEndpoints,
            EmitUptimeSample, CloseSession, endpoints

LEMMA TypePreserved ==
    ASSUME IInv, Next
    PROVE  TypeOK'
<1> USE DEF IInv
<1>1. ASSUME NEW w \in Worker, CycleStep(w) PROVE TypeOK'
  BY <1>1, CycleStepTyped, EndpointsKept DEF PoolAndCycleTyped, TypeOK
<1>2. ASSUME NEW w \in Worker, RequestConnects(w) PROVE TypeOK'
  BY <1>2, PoolTyped DEF RequestConnects, endpoints, TypeOK
<1>3. ASSUME NEW w \in Worker, RequestEnds(w) PROVE TypeOK'
  <2>1. PICK c \in busy[w] : /\ busy' = [busy EXCEPT ![w] = @ \ {c}]
                             /\ idle' = [idle EXCEPT ![w] = Returned(@, c)]
                             /\ LockReturned(w, idle[w], c)
    BY <1>3 DEF RequestEnds
  <2>2. c \in Connection /\ idle[w] \in Seq(Connection)
    BY DEF TypeOK
  <2>3. Returned(idle[w], c) \in Seq(Connection)
    BY <2>2, QueueTyped
  <2>4. lock' \in [worker: Worker, conn: Connection] \cup {NoLock} /\ discarded' \in BOOLEAN
    BY <2>1 DEF LockReturned, TypeOK
  <2> QED BY <1>3, <2>1, <2>3, <2>4 DEF RequestEnds, endpoints, TypeOK
<1>4. ASSUME NEW w \in Worker, WorkerEnds(w) \/ WorkerStarts(w) PROVE TypeOK'
  <2>1. <<>> \in Seq(Connection)
    OBVIOUS
  <2> QED BY <1>4, <2>1, AsleepIsCycle DEF WorkerEnds, WorkerStarts, endpoints, TypeOK
<1>5. ASSUME NEW e \in Endpoint, ReportEndpointHealth(e) PROVE TypeOK'
  BY <1>5 DEF ReportEndpointHealth, pools, TypeOK
<1>6. ASSUME NEW e \in Endpoint, ReportExpires(e) PROVE TypeOK'
  <2>1. \A w \in Worker : [cycle[w] EXCEPT !.seen[e] = "none"] \in Cycle
    BY DEF TypeOK, Cycle, Report
  <2> QED BY <1>6, <2>1 DEF ReportExpires, pools, TypeOK, Report
<1>7. ASSUME NEW e \in Endpoint, AdminUpdateEndpoint(e) PROVE TypeOK'
  BY <1>7 DEF AdminUpdateEndpoint, pools, TypeOK
<1> QED BY <1>1, <1>2, <1>3, <1>4, <1>5, <1>6, <1>7 DEF Next

-----------------------------------------------------------------------------
(* The lock.                                                               *)

(* Giving back a connection takes the lock from nobody, or is recorded.    *)
LEMMA ReturnKeepsLock ==
    ASSUME NEW w, NEW q, NEW c, LockReturned(w, q, c)
    PROVE  discarded' \/ UNCHANGED <<lock, discarded>>
BY DEF LockReturned

LEMMA LockKept ==
    ASSUME IInv, Next
    PROVE  CycleHasLock'
<1> USE DEF IInv
<1> SUFFICES ASSUME ~discarded', NEW v \in Worker, cycle'[v].pc # "asleep"
             PROVE  lock' # NoLock /\ lock'.worker = v
  BY DEF CycleHasLock
<1>1. cycle \in [Worker -> Cycle]
  BY DEF TypeOK
<1>2. CASE lock' = lock /\ discarded' = discarded /\ cycle[v].pc # "asleep"
  BY <1>2 DEF CycleHasLock
<1>3. ASSUME NEW w \in Worker, AcquireCycleLock(w) PROVE lock' # NoLock /\ lock'.worker = v
  <2>1. /\ lock' # NoLock /\ lock'.worker = w
    BY <1>3, PoolTyped, ConnectionsAreNumbers DEF AcquireCycleLock, NoLock
  <2>2. CASE v # w
    <3>1. cycle[v].pc # "asleep" /\ ~discarded
      BY <1>1, <1>3, <2>2 DEF AcquireCycleLock, KeepConnection
    <3>2. lock # NoLock /\ lock.worker = v
      BY <3>1 DEF CycleHasLock
    <3> QED BY <1>3, <2>2, <3>2 DEF AcquireCycleLock
  <2> QED BY <2>1, <2>2
<1>4. ASSUME NEW w \in Worker, NEW c, NEW next,
             ReleaseConnection(w, c, next), next.pc # "asleep" => cycle[w].pc # "asleep",
             next \in Cycle
      PROVE  lock' # NoLock /\ lock'.worker = v
  <2>1. lock' = lock /\ discarded' = discarded
    BY <1>4, ReturnKeepsLock DEF ReleaseConnection
  <2>2. cycle[v].pc # "asleep"
    BY <1>1, <1>4 DEF ReleaseConnection, Cycle
  <2> QED BY <1>2, <2>1, <2>2
<1>5. ASSUME NEW w \in Worker, CycleStep(w) PROVE lock' # NoLock /\ lock'.worker = v
  <2>1. cycle[w] \in Cycle /\ Asleep \in Cycle /\ Asleep.pc = "asleep"
    BY <1>1, AsleepIsCycle DEF Asleep
  <2>2. CASE SkipCycle(w)
    BY <1>4, <2>1, <2>2 DEF SkipCycle
  <2>3. CASE UptimeRetention(w)
    BY <1>4, <2>1, <2>3 DEF UptimeRetention
  <2>4. CASE GetEndpoints(w)
    <3>1. cycle[v].pc # "asleep"
      BY <1>1, <2>4 DEF GetEndpoints, KeepConnection
    <3> QED BY <1>2, <2>4, <3>1 DEF GetEndpoints
  <2>5. CASE \E e \in Endpoint : UpdateHealthStatus(w, e)
    <3>1. \A e : /\ [cycle[w] EXCEPT !.pc = "sampling", !.left = @ \ {e}] \in Cycle
                 /\ [cycle[w] EXCEPT !.left = @ \ {e}] \in Cycle
      BY <2>1 DEF Cycle
    <3> QED BY <1>4, <2>5, <3>1 DEF UpdateHealthStatus
  <2>6. CASE EmitUptimeSample(w)
    <3>1. [cycle[w] EXCEPT !.pc = "checking"] \in Cycle
      BY <2>1 DEF Cycle
    <3> QED BY <1>4, <2>6, <3>1 DEF EmitUptimeSample
  <2>7. CASE CloseSession(w)
    <3>1. CASE Held(w)
      BY <1>4, <2>1, <2>7, <3>1 DEF CloseSession
    <3>2. CASE ~Held(w)
      BY <1>1, <1>2, <2>1, <2>7, <3>2 DEF CloseSession
    <3> QED BY <3>1, <3>2
  <2> QED BY <1>3, <1>5, <2>2, <2>3, <2>4, <2>5, <2>6, <2>7 DEF CycleStep
<1>6. ASSUME NEW w \in Worker, RequestConnects(w) \/ RequestEnds(w) \/ WorkerStarts(w)
      PROVE  lock' # NoLock /\ lock'.worker = v
  BY <1>2, <1>6, ReturnKeepsLock DEF RequestConnects, RequestEnds, WorkerStarts
<1>7. ASSUME NEW w \in Worker, WorkerEnds(w) PROVE lock' # NoLock /\ lock'.worker = v
  <2>1. v # w /\ cycle[v].pc # "asleep" /\ ~discarded
    BY <1>1, <1>7 DEF WorkerEnds, Asleep
  <2>2. lock # NoLock /\ lock.worker = v
    BY <2>1 DEF CycleHasLock
  <2> QED BY <1>7, <2>1, <2>2 DEF WorkerEnds
<1>8. ASSUME NEW e \in Endpoint,
             ReportEndpointHealth(e) \/ ReportExpires(e) \/ AdminUpdateEndpoint(e)
      PROVE  lock' # NoLock /\ lock'.worker = v
  <2>1. cycle[v].pc # "asleep"
    BY <1>1, <1>8 DEF ReportEndpointHealth, ReportExpires, AdminUpdateEndpoint, Cycle
  <2> QED BY <1>2, <1>8, <2>1 DEF ReportEndpointHealth, ReportExpires, AdminUpdateEndpoint
<1> QED BY <1>5, <1>6, <1>7, <1>8 DEF Next

-----------------------------------------------------------------------------
LEMMA InitEstablishes == Init => IInv
<1> SUFFICES ASSUME Init PROVE IInv
  OBVIOUS
<1>1. <<>> \in Seq(Connection) /\ 0 \in 0..Threshold
  BY MonitorAssumption
<1>2. TypeOK
  BY <1>1, AsleepIsCycle DEF Init, TypeOK, Report
<1> QED BY <1>2 DEF Init, IInv, CycleHasLock, InactiveHasReason, Asleep

LEMMA ReasonKept ==
    ASSUME IInv, Next
    PROVE  InactiveHasReason'
<1> USE DEF IInv
<1>1. CASE UNCHANGED <<active, failures, switchedOff>>
  BY <1>1 DEF InactiveHasReason
<1>2. ASSUME NEW e \in Endpoint, AdminUpdateEndpoint(e) PROVE InactiveHasReason'
  BY <1>2 DEF AdminUpdateEndpoint, InactiveHasReason, TypeOK
<1> QED BY <1>1, <1>2, EndpointsKept
        DEF Next, RequestConnects, RequestEnds, WorkerEnds, WorkerStarts,
            ReportEndpointHealth, ReportExpires, endpoints

LEMMA NextPreserves == IInv /\ [Next]_vars => IInv'
<1> SUFFICES ASSUME IInv, [Next]_vars PROVE IInv'
  OBVIOUS
<1>1. CASE Next
  BY <1>1, TypePreserved, LockKept, ReasonKept DEF IInv
<1>2. CASE UNCHANGED vars
  BY <1>2 DEF vars, IInv, TypeOK, CycleHasLock, InactiveHasReason
<1> QED BY <1>1, <1>2

LEMMA Invariant == Spec => []IInv
BY InitEstablishes, NextPreserves, PTL DEF Spec

-----------------------------------------------------------------------------
(* Every reachable state of the monitors has its type.                     *)
THEOREM TypeCorrect == Spec => []TypeOK
<1>1. IInv => TypeOK
  BY DEF IInv
<1> QED BY <1>1, Invariant, PTL

(* For any number of workers and any pool, health check cycles overlap     *)
(* only after a pool has closed the connection that held the lock          *)
(* (health_monitor.py:111-140).                                            *)
THEOREM CyclesExclusive == Spec => []OneCycleUnlessDiscarded
<1>1. IInv => OneCycleUnlessDiscarded
  BY DEF IInv, CycleHasLock, OneCycleUnlessDiscarded
<1> QED BY <1>1, Invariant, PTL

(* For every threshold, an inactive endpoint has failed that often in a    *)
(* row, or was switched off by an admin (health_monitor.py:274-335).       *)
THEOREM DeactivationJustified == Spec => []InactiveHasReason
<1>1. IInv => InactiveHasReason
  BY DEF IInv
<1> QED BY <1>1, Invariant, PTL

-----------------------------------------------------------------------------
(* Each kind of row behaves as if the others were not there.               *)
LEMMA RowsAreApart == RowsSpec => Spec /\ Tokens!Spec /\ Aggregators!Spec
<1>1. RowsInit => Init /\ Tokens!Init /\ Aggregators!Init
  BY DEF RowsInit
<1>2. [RowsNext]_allVars =>
        [Next]_vars /\ [Tokens!Next]_(Tokens!vars) /\ [Aggregators!Next]_(Aggregators!vars)
  BY DEF RowsNext, allVars, tokenVars, aggVars, Tokens!vars, Aggregators!vars
<1> QED BY <1>1, <1>2, PTL DEF RowsSpec, Spec, Tokens!Spec, Aggregators!Spec

-----------------------------------------------------------------------------
(* A user's tokens.                                                        *)

LEMMA RowBounds ==
    /\ MaxTokensPerUser \in Nat /\ MaxTime \in Nat /\ MaxSwitches \in Nat
    /\ MaxSigned \in Nat /\ MaxAgg \in Nat /\ MaxLost \in Nat
BY RowsAssumption

(* Requests that have passed the limit and not inserted their token yet.   *)
Inserters == {th \in Worker : tokenReq[th].at = "insert"}

(* Every such request may still add a token.                               *)
SlotsCounted ==
    /\ IsFiniteSet(Tokens!ActiveTokens)
    /\ Cardinality(Tokens!ActiveTokens) + Cardinality(Inserters)
         <= MaxTokensPerUser + (Cardinality(Worker) - 1)

(* A revoked token is inactive for good; a request that is about to write  *)
(* a token back has found it, and has not read it inactive while it is     *)
(* active.                                                                 *)
RevokedInactive ==
    /\ \A t \in revoked : token[t].there /\ ~token[t].active
    /\ \A th \in Worker :
         LET r == tokenReq[th] IN
         /\ r.gone \subseteq revoked
         /\ r.at = "find" => r.call.on \in Token
         /\ r.at = "write" =>
              /\ r.call.on \in Token /\ token[r.call.on].there
              /\ ~r.read.active => ~token[r.call.on].active

TokensIInv == Tokens!TypeOK /\ SlotsCounted /\ RevokedInactive /\ RevokedStaysRevoked

(* What a commit makes of a row, and what the handlers set in a row.       *)
LEMMA FlushFacts ==
    ASSUME NEW row \in Tokens!Row, NEW read \in Tokens!Row, NEW new \in Tokens!Row
    PROVE  LET f == Tokens!Flush(row, read, new) IN
           /\ f \in Tokens!Row
           /\ f.there = IF new.there # read.there THEN new.there ELSE row.there
           /\ f.active = IF new.active # read.active THEN new.active ELSE row.active
BY DEF Tokens!Flush, Tokens!Row

LEMMA ReadFacts ==
    ASSUME NEW read \in Tokens!Row
    PROVE  /\ Tokens!Used(read) \in Tokens!Row /\ Tokens!Renamed(read) \in Tokens!Row
           /\ Tokens!Revoked(read) \in Tokens!Row
           /\ Tokens!Used(read).there = read.there /\ Tokens!Used(read).active = read.active
           /\ Tokens!Renamed(read).there = read.there /\ Tokens!Renamed(read).active = read.active
           /\ Tokens!Revoked(read).there = read.there /\ Tokens!Revoked(read).active = FALSE
BY DEF Tokens!Used, Tokens!Renamed, Tokens!Revoked, Tokens!Row

LEMMA NewRowFacts ==
    /\ Tokens!NoToken \in Tokens!Row /\ Tokens!Idle \in Tokens!Request
    /\ Tokens!NoToken.there = FALSE /\ Tokens!Idle.at = "idle" /\ Tokens!Idle.gone = {}
    /\ Tokens!Idle.by = Tokens!Jwt /\ Tokens!Idle.shown = {}
    /\ \A e \in {Tokens!Never} \cup (1..MaxTime) :
         Tokens!NewRow(e) \in Tokens!Row /\ Tokens!NewRow(e).there /\ Tokens!NewRow(e).active
BY DEF Tokens!NoToken, Tokens!Idle, Tokens!NewRow, Tokens!Row, Tokens!Request, Tokens!Call,
       Tokens!Jwt, Tokens!Never

(* Where the handler of a call begins, and what calls carry.               *)
LEMMA CallFacts ==
    ASSUME NEW call \in Tokens!Call
    PROVE  /\ Tokens!Handler(call.op) \in {"count", "list", "get", "find", "answer"}
           /\ call.op \in {"get", "rename", "revoke"} => call.on \in Token
           /\ Tokens!Handler(call.op) \in {"get", "find"} => call.op \in {"get", "rename", "revoke"}
           /\ call.expires \in {Tokens!Never} \cup (1..MaxTime)
BY DEF Tokens!Handler, Tokens!Call

(* A step of a request changes that request only.                          *)
RequestBecomes(th, r) == tokenReq' = [tokenReq EXCEPT ![th] = r]

TokenStep(th) ==
    \/ \E call \in Tokens!Call : \/ Tokens!AuthenticateWithJwt(th, call)
                                 \/ \E t \in Token : Tokens!AuthenticateWithApiToken(th, call, t)
    \/ Tokens!Touch(th) \/ Tokens!CountTokens(th) \/ Tokens!InsertToken(th)
    \/ Tokens!ListTokens(th) \/ Tokens!GetToken(th) \/ Tokens!Find(th)
    \/ Tokens!UpdateToken(th) \/ Tokens!RevokeToken(th) \/ Tokens!Answer(th)

(* A commit of a row that was read neither makes nor unmakes tokens, and   *)
(* makes none active.                                                      *)
OnlyShrinks ==
    /\ token' \in [Token -> Tokens!Row]
    /\ \A t \in Token : /\ token'[t].there = token[t].there
                        /\ token'[t].active => token[t].active

LEMMA FlushShrinks ==
    ASSUME Tokens!TypeOK, NEW t, NEW read \in Tokens!Row, NEW new \in Tokens!Row,
           new.there = read.there, new.active \in {read.active, FALSE},
           token' = [token EXCEPT ![t] = Tokens!Flush(@, read, new)]
    PROVE  OnlyShrinks
<1>1. token \in [Token -> Tokens!Row]
  BY DEF Tokens!TypeOK
<1>2. \A u \in Token : token[u] \in Tokens!Row /\ token[u].active \in BOOLEAN
                       /\ token[u].there \in BOOLEAN
  BY <1>1 DEF Tokens!Row
<1> DEFINE f == Tokens!Flush(token[t], read, new)
<1>3. ASSUME t \in Token
      PROVE  f \in Tokens!Row /\ f.there = token[t].there /\ (f.active => token[t].active)
  <2>1. read.active \in BOOLEAN /\ new.active \in BOOLEAN /\ token[t] \in Tokens!Row
    BY <1>2, <1>3 DEF Tokens!Row
  <2>2. /\ f \in Tokens!Row
        /\ f.there = IF new.there # read.there THEN new.there ELSE token[t].there
        /\ f.active = IF new.active # read.active THEN new.active ELSE token[t].active
    BY <2>1, FlushFacts
  <2> QED BY <2>1, <2>2
<1>4. token' = [token EXCEPT ![t] = f]
  OBVIOUS
<1> HIDE DEF f
<1>5. \A u \in Token : token'[u] = IF u = t THEN f ELSE token[u]
  BY <1>1, <1>4
<1>6. token' \in [Token -> Tokens!Row]
  BY <1>1, <1>3, <1>4
<1> QED BY <1>2, <1>3, <1>5, <1>6 DEF OnlyShrinks

LEMMA CommitsShrink ==
    ASSUME Tokens!TypeOK, NEW th \in Worker,
           Tokens!Touch(th) \/ Tokens!UpdateToken(th) \/ Tokens!RevokeToken(th)
    PROVE  OnlyShrinks
<1> DEFINE read == tokenReq[th].read
<1>1. read \in Tokens!Row /\ token \in [Token -> Tokens!Row]
  BY DEF Tokens!TypeOK, Tokens!Request
<1>2. CASE UNCHANGED token
  BY <1>1, <1>2 DEF OnlyShrinks
<1>3. CASE ~UNCHANGED token /\ Tokens!Touch(th)
  BY <1>1, <1>3, ReadFacts, FlushShrinks DEF Tokens!Touch
<1>4. CASE ~UNCHANGED token /\ Tokens!UpdateToken(th)
  BY <1>1, <1>4, ReadFacts, FlushShrinks DEF Tokens!UpdateToken
<1>5. CASE ~UNCHANGED token /\ Tokens!RevokeToken(th)
  BY <1>1, <1>5, ReadFacts, FlushShrinks DEF Tokens!RevokeToken
<1> QED BY <1>2, <1>3, <1>4, <1>5

(* What a step makes of the request and of the rows, the type included.    *)
LEMMA TokenRequestTyped ==
    ASSUME Tokens!TypeOK, RevokedInactive, NEW th \in Worker, TokenStep(th)
    PROVE  \E r \in Tokens!Request : RequestBecomes(th, r)
<1>1. tokenReq \in [Worker -> Tokens!Request] /\ tokenReq[th] \in Tokens!Request
  BY DEF Tokens!TypeOK
<1>2. revoked \subseteq Token /\ token \in [Token -> Tokens!Row]
  BY DEF Tokens!TypeOK
<1>3. Tokens!Idle \in Tokens!Request
  BY NewRowFacts
<1>4. ASSUME NEW place \in {"idle", "touch", "count", "insert", "list", "get", "find", "write", "answer"}
      PROVE  [tokenReq[th] EXCEPT !.at = place] \in Tokens!Request
  BY <1>1 DEF Tokens!Request
<1>5. CASE \E place \in {"count", "insert", "list", "get", "find", "write", "answer"} :
             Tokens!Goto(th, place)
  BY <1>4, <1>5 DEF Tokens!Goto, RequestBecomes
<1>6. CASE Tokens!End(th)
  BY <1>3, <1>6 DEF Tokens!End, RequestBecomes
<1>7. ASSUME NEW call \in Tokens!Call, Tokens!AuthenticateWithJwt(th, call)
      PROVE  \E r \in Tokens!Request : RequestBecomes(th, r)
  <2>1. [Tokens!Idle EXCEPT !.at = Tokens!Handler(call.op), !.call = call, !.gone = revoked]
          \in Tokens!Request
    BY <1>2, <1>3, CallFacts DEF Tokens!Request
  <2> QED BY <1>7, <2>1 DEF Tokens!AuthenticateWithJwt, RequestBecomes
<1>8. ASSUME NEW call \in Tokens!Call, NEW t \in Token,
             Tokens!AuthenticateWithApiToken(th, call, t)
      PROVE  \E r \in Tokens!Request : RequestBecomes(th, r)
  <2>1. [Tokens!Idle EXCEPT !.at = "touch", !.call = call, !.by = t, !.read = token[t],
                            !.gone = revoked] \in Tokens!Request
    BY <1>2, <1>3 DEF Tokens!Request
  <2> QED BY <1>8, <2>1 DEF Tokens!AuthenticateWithApiToken, RequestBecomes
<1>9. CASE Tokens!Touch(th)
  <2>1. tokenReq[th].call \in Tokens!Call
    BY <1>1 DEF Tokens!Request
  <2> QED BY <1>5, <1>6, <1>9, <2>1, CallFacts DEF Tokens!Touch
<1>10. CASE Tokens!CountTokens(th) \/ Tokens!InsertToken(th) \/ Tokens!Answer(th)
              \/ Tokens!UpdateToken(th) \/ Tokens!RevokeToken(th)
  BY <1>5, <1>6, <1>10 DEF Tokens!CountTokens, Tokens!InsertToken, Tokens!Answer,
                           Tokens!UpdateToken, Tokens!RevokeToken
<1>11. ASSUME Tokens!ListTokens(th) \/ Tokens!GetToken(th), ~Tokens!End(th)
       PROVE  \E r \in Tokens!Request : RequestBecomes(th, r)
  <2>1. PICK S \in SUBSET Token : tokenReq' = [tokenReq EXCEPT ![th].at = "answer", ![th].shown = S]
    BY <1>11 DEF Tokens!ListTokens, Tokens!GetToken, Tokens!ActiveTokens, Tokens!ExistingTokens
  <2>2. [[tokenReq[th] EXCEPT !.at = "answer"] EXCEPT !.shown = S] \in Tokens!Request
    BY <1>1 DEF Tokens!Request
  <2> QED BY <1>1, <2>1, <2>2 DEF RequestBecomes
<1>12. ASSUME Tokens!Find(th), ~Tokens!End(th), tokenReq[th].call.on \in Token
       PROVE  \E r \in Tokens!Request : RequestBecomes(th, r)
  <2> DEFINE t == tokenReq[th].call.on
  <2>1. tokenReq' = [tokenReq EXCEPT ![th].at = "write", ![th].read = token[t]]
    BY <1>12 DEF Tokens!Find
  <2>2. [[tokenReq[th] EXCEPT !.at = "write"] EXCEPT !.read = token[t]] \in Tokens!Request
    BY <1>1, <1>2, <1>12 DEF Tokens!Request
  <2> QED BY <1>1, <2>1, <2>2 DEF RequestBecomes
<1>13. Tokens!Find(th) => tokenReq[th].call.on \in Token
  BY DEF RevokedInactive, Tokens!Find, Tokens!At
<1> QED BY <1>6, <1>7, <1>8, <1>9, <1>10, <1>11, <1>12, <1>13 DEF TokenStep

(* Steps either only shrink the rows, or insert one that was not there.    *)
Inserts(t) ==
    /\ t \in Token /\ ~token[t].there
    /\ \E row \in Tokens!Row : row.there /\ row.active /\ token' = [token EXCEPT ![t] = row]

LEMMA RowsMove ==
    ASSUME Tokens!TypeOK, NEW th \in Worker, TokenStep(th)
    PROVE  OnlyShrinks \/ (Tokens!InsertToken(th) /\ \E t \in Token : Inserts(t))
<1>1. token \in [Token -> Tokens!Row]
  BY DEF Tokens!TypeOK
<1>2. CASE UNCHANGED token
  BY <1>1, <1>2 DEF OnlyShrinks
<1>3. CASE Tokens!InsertToken(th) /\ ~UNCHANGED token
  <2>1. tokenReq[th].call \in Tokens!Call
    BY DEF Tokens!TypeOK, Tokens!Request
  <2>2. tokenReq[th].call.expires \in {Tokens!Never} \cup (1..MaxTime)
    BY <2>1, CallFacts
  <2>3. PICK t \in Tokens!NewTokens :
          token' = [token EXCEPT ![t] = Tokens!NewRow(tokenReq[th].call.expires)]
    BY <1>3 DEF Tokens!InsertToken
  <2>4. t \in Token /\ ~token[t].there
    BY <2>3 DEF Tokens!NewTokens, Tokens!ExistingTokens
  <2> QED BY <1>3, <2>2, <2>3, <2>4, NewRowFacts DEF Inserts
<1>4. CASE Tokens!Touch(th) \/ Tokens!UpdateToken(th) \/ Tokens!RevokeToken(th)
  BY <1>4, CommitsShrink
<1> QED BY <1>2, <1>3, <1>4
        DEF TokenStep, Tokens!AuthenticateWithJwt, Tokens!AuthenticateWithApiToken,
            Tokens!CountTokens, Tokens!ListTokens, Tokens!GetToken, Tokens!Find, Tokens!Answer

LEMMA TokenRestTyped ==
    ASSUME Tokens!TypeOK, RevokedInactive, NEW th \in Worker, TokenStep(th)
    PROVE  user' = user /\ now' = now /\ signed' \in 0..MaxSigned /\ revoked' \subseteq Token
<1>1. signed \in 0..MaxSigned /\ revoked \subseteq Token /\ MaxSigned \in Nat
  BY RowBounds DEF Tokens!TypeOK
<1>2. Tokens!RevokeToken(th) => tokenReq[th].at = "write"
  BY Zenon DEF Tokens!RevokeToken, Tokens!At
<1>3. tokenReq[th].at = "write" => tokenReq[th].call.on \in Token
  BY DEF RevokedInactive
<1>4. CASE Tokens!RevokeToken(th)
  <2>1. /\ user' = user /\ now' = now /\ signed' = signed
        /\ revoked' = revoked \/ revoked' = revoked \cup {tokenReq[th].call.on}
    BY <1>4, Zenon DEF Tokens!RevokeToken
  <2> QED BY <1>1, <1>2, <1>3, <1>4, <2>1
<1>5. Tokens!CountSigned => signed' \in 0..MaxSigned
  BY <1>1 DEF Tokens!CountSigned
<1>6. CASE \E call \in Tokens!Call :
             \/ Tokens!AuthenticateWithJwt(th, call)
             \/ \E t \in Token : Tokens!AuthenticateWithApiToken(th, call, t)
  BY <1>1, <1>5, <1>6 DEF Tokens!AuthenticateWithJwt, Tokens!AuthenticateWithApiToken
<1>7. CASE UNCHANGED <<user, now, signed, revoked>>
  BY <1>1, <1>7
<1> QED BY <1>4, <1>6, <1>7
        DEF TokenStep, Tokens!Touch, Tokens!CountTokens, Tokens!InsertToken,
            Tokens!ListTokens, Tokens!GetToken, Tokens!Find, Tokens!UpdateToken, Tokens!Answer

LEMMA TokenTypePreserved ==
    ASSUME TokensIInv, Tokens!Next
    PROVE  Tokens!TypeOK'
<1> USE DEF TokensIInv
<1>1. ASSUME NEW th \in Worker, TokenStep(th) PROVE Tokens!TypeOK'
  <2>1. token' \in [Token -> Tokens!Row]
    <3>1. CASE OnlyShrinks
      BY <3>1 DEF OnlyShrinks
    <3>2. CASE \E t \in Token : Inserts(t)
      BY <3>2 DEF Inserts, Tokens!TypeOK
    <3> QED BY <1>1, <3>1, <3>2, RowsMove
  <2>2. tokenReq' \in [Worker -> Tokens!Request]
    BY <1>1, TokenRequestTyped DEF RequestBecomes, Tokens!TypeOK
  <2>3. user' = user /\ now' = now /\ signed' \in 0..MaxSigned /\ revoked' \subseteq Token
    BY <1>1, TokenRestTyped
  <2> QED BY <2>1, <2>2, <2>3 DEF Tokens!TypeOK
<1>2. CASE Tokens!SwitchUser
  BY <1>2, RowBounds DEF Tokens!SwitchUser, Tokens!TypeOK
<1>3. CASE Tokens!Tick
  BY <1>3, RowBounds DEF Tokens!Tick, Tokens!TypeOK
<1> QED BY <1>1, <1>2, <1>3 DEF Tokens!Next, TokenStep

-----------------------------------------------------------------------------
(* The limit.                                                              *)

LEMMA SameCardinality == \A S : Tokens!Cardinality(S) = Cardinality(S)
BY DEF Tokens!Cardinality, Cardinality

LEMMA InsertersAreWorkers ==
    /\ IsFiniteSet(Inserters) /\ Cardinality(Inserters) \in Nat
    /\ Cardinality(Inserters) <= Cardinality(Worker) /\ Cardinality(Worker) \in Nat \ {0}
<1>1. IsFiniteSet(Worker) /\ Worker # {}
  BY RowsAssumption
<1>2. IsFiniteSet(Inserters) /\ Cardinality(Inserters) <= Cardinality(Worker)
  BY <1>1, FS_Subset DEF Inserters
<1> QED BY <1>1, <1>2, FS_CardinalityType, FS_EmptySet

(* Neither set grows: nothing is to be shown.                              *)
LEMMA SlotsShrink ==
    ASSUME SlotsCounted, Tokens!ActiveTokens' \subseteq Tokens!ActiveTokens,
           Inserters' \subseteq Inserters
    PROVE  SlotsCounted'
<1>1. IsFiniteSet(Tokens!ActiveTokens) /\ IsFiniteSet(Inserters)
  BY InsertersAreWorkers DEF SlotsCounted
<1>2. /\ IsFiniteSet(Tokens!ActiveTokens')
      /\ Cardinality(Tokens!ActiveTokens') <= Cardinality(Tokens!ActiveTokens)
  BY <1>1, FS_Subset
<1>3. Cardinality(Inserters') <= Cardinality(Inserters) /\ IsFiniteSet(Inserters')
  BY <1>1, FS_Subset
<1>4. /\ Cardinality(Tokens!ActiveTokens) \in Nat /\ Cardinality(Inserters) \in Nat
      /\ Cardinality(Tokens!ActiveTokens') \in Nat /\ Cardinality(Inserters') \in Nat
  BY <1>1, <1>2, <1>3, FS_CardinalityType
<1> QED BY <1>2, <1>3, <1>4, RowBounds, InsertersAreWorkers DEF SlotsCounted

LEMMA ShrinkShrinks ==
    ASSUME OnlyShrinks
    PROVE  Tokens!ActiveTokens' \subseteq Tokens!ActiveTokens
BY DEF OnlyShrinks, Tokens!ActiveTokens, Tokens!ExistingTokens

(* Only the count of tokens lets a request go on to insert one.            *)
LEMMA InsertersMove ==
    ASSUME Tokens!TypeOK, NEW th \in Worker, TokenStep(th)
    PROVE  \/ Inserters' \subseteq Inserters
           \/ Tokens!CountTokens(th) /\ Tokens!UnderLimit(Cardinality(Tokens!ActiveTokens))
<1>1. tokenReq \in [Worker -> Tokens!Request] /\ tokenReq[th].call \in Tokens!Call
  BY DEF Tokens!TypeOK, Tokens!Request
<1>2. ASSUME NEW r, RequestBecomes(th, r), r.at # "insert" PROVE Inserters' \subseteq Inserters
  BY <1>1, <1>2 DEF RequestBecomes, Inserters
<1>3. CASE Tokens!End(th)
  BY <1>2, <1>3, NewRowFacts DEF Tokens!End, RequestBecomes
<1>4. ASSUME NEW place, Tokens!Goto(th, place), place # "insert"
      PROVE  Inserters' \subseteq Inserters
  BY <1>1, <1>4 DEF Tokens!Goto, Inserters
<1>5. ASSUME NEW call \in Tokens!Call, Tokens!AuthenticateWithJwt(th, call)
      PROVE  Inserters' \subseteq Inserters
  <2> DEFINE r == [Tokens!Idle EXCEPT !.at = Tokens!Handler(call.op), !.call = call,
                                      !.gone = revoked]
  <2>1. r.at = Tokens!Handler(call.op)
    BY DEF Tokens!Idle
  <2>2. RequestBecomes(th, r)
    BY <1>5 DEF Tokens!AuthenticateWithJwt, RequestBecomes
  <2>3. r.at # "insert"
    BY <2>1, CallFacts
  <2> HIDE DEF r
  <2> QED BY <1>2, <2>2, <2>3
<1>6. ASSUME NEW call \in Tokens!Call, NEW t \in Token,
             Tokens!AuthenticateWithApiToken(th, call, t)
      PROVE  Inserters' \subseteq Inserters
  <2> DEFINE r == [Tokens!Idle EXCEPT !.at = "touch", !.call = call, !.by = t,
                                      !.read = token[t], !.gone = revoked]
  <2>1. r.at # "insert"
    BY DEF Tokens!Idle
  <2>2. RequestBecomes(th, r)
    BY <1>6 DEF Tokens!AuthenticateWithApiToken, RequestBecomes
  <2> HIDE DEF r
  <2> QED BY <1>2, <2>1, <2>2
<1>7. CASE Tokens!Touch(th)
  <2>1. Tokens!Handler(tokenReq[th].call.op) # "insert"
    BY <1>1, CallFacts
  <2> QED BY <1>3, <1>4, <1>7, <2>1 DEF Tokens!Touch
<1>8. CASE Tokens!CountTokens(th)
  BY <1>3, <1>8, SameCardinality DEF Tokens!CountTokens
<1>9. CASE Tokens!ListTokens(th) \/ Tokens!GetToken(th) \/ Tokens!Find(th)
  <2>1. ASSUME NEW S, tokenReq' = [tokenReq EXCEPT ![th].at = "answer", ![th].shown = S]
        PROVE  Inserters' \subseteq Inserters
    BY <1>1, <2>1 DEF Inserters, Tokens!Request
  <2>2. ASSUME NEW row, tokenReq' = [tokenReq EXCEPT ![th].at = "write", ![th].read = row]
        PROVE  Inserters' \subseteq Inserters
    BY <1>1, <2>2 DEF Inserters, Tokens!Request
  <2> QED BY <1>3, <1>9, <2>1, <2>2 DEF Tokens!ListTokens, Tokens!GetToken, Tokens!Find
<1> QED BY <1>3, <1>5, <1>6, <1>7, <1>8, <1>9
        DEF TokenStep, Tokens!InsertToken, Tokens!UpdateToken, Tokens!RevokeToken, Tokens!Answer

LEMMA SlotsPreserved ==
    ASSUME TokensIInv, Tokens!Next
    PROVE  SlotsCounted'
<1> USE DEF TokensIInv
<1>1. ASSUME NEW th \in Worker, Tokens!CountTokens(th),
             Tokens!UnderLimit(Cardinality(Tokens!ActiveTokens))
      PROVE  SlotsCounted'
  <2>1. Tokens!ActiveTokens' = Tokens!ActiveTokens
    BY <1>1 DEF Tokens!CountTokens, Tokens!ActiveTokens, Tokens!ExistingTokens
  <2>2. Cardinality(Inserters') <= Cardinality(Worker) /\ Cardinality(Inserters') \in Nat
    <3>1. Inserters' \subseteq Worker /\ IsFiniteSet(Worker)
      BY RowsAssumption DEF Inserters
    <3> QED BY <3>1, FS_Subset, FS_CardinalityType
  <2>3. Cardinality(Tokens!ActiveTokens) \in Nat
    BY FS_CardinalityType DEF SlotsCounted
  <2> QED BY <1>1, <2>1, <2>2, <2>3, RowBounds, InsertersAreWorkers
          DEF SlotsCounted, Tokens!UnderLimit
<1>2. ASSUME NEW th \in Worker, Tokens!InsertToken(th), NEW t \in Token, Inserts(t)
      PROVE  SlotsCounted'
  <2>1. Tokens!ActiveTokens' = Tokens!ActiveTokens \cup {t} /\ t \notin Tokens!ActiveTokens
    BY <1>2 DEF Inserts, Tokens!TypeOK, Tokens!ActiveTokens, Tokens!ExistingTokens
  <2>2. th \in Inserters /\ Inserters' = Inserters \ {th}
    BY <1>2, NewRowFacts DEF Tokens!InsertToken, Tokens!At, Tokens!End, Inserters, Tokens!TypeOK
  <2>3. /\ IsFiniteSet(Tokens!ActiveTokens')
        /\ Cardinality(Tokens!ActiveTokens') = Cardinality(Tokens!ActiveTokens) + 1
    BY <2>1, FS_AddElement DEF SlotsCounted
  <2>4. Cardinality(Inserters') = Cardinality(Inserters) - 1
    BY <2>2, InsertersAreWorkers, FS_RemoveElement
  <2>5. Cardinality(Tokens!ActiveTokens) \in Nat
    BY FS_CardinalityType DEF SlotsCounted
  <2> QED BY <2>3, <2>4, <2>5, RowBounds, InsertersAreWorkers DEF SlotsCounted
<1>3. ASSUME NEW th \in Worker, TokenStep(th) PROVE SlotsCounted'
  <2>1. CASE Tokens!ActiveTokens' \subseteq Tokens!ActiveTokens /\ Inserters' \subseteq Inserters
    BY <2>1, SlotsShrink
  <2>2. CASE ~(Inserters' \subseteq Inserters)
    BY <1>1, <1>3, <2>2, InsertersMove
  <2>3. CASE ~(Tokens!ActiveTokens' \subseteq Tokens!ActiveTokens)
    BY <1>2, <1>3, <2>3, RowsMove, ShrinkShrinks
  <2> QED BY <2>1, <2>2, <2>3
<1>4. CASE Tokens!SwitchUser \/ Tokens!Tick
  BY <1>4 DEF Tokens!SwitchUser, Tokens!Tick, SlotsCounted, Inserters,
              Tokens!ActiveTokens, Tokens!ExistingTokens
<1> QED BY <1>3, <1>4 DEF Tokens!Next, TokenStep

-----------------------------------------------------------------------------
(* Revocation.                                                             *)

(* What the invariants say of one request.                                 *)
Remembers(th) ==
    LET r == tokenReq[th] IN
    /\ r.gone \subseteq revoked
    /\ r.at = "find" => r.call.on \in Token
    /\ r.at = "write" =>
         /\ r.call.on \in Token /\ token[r.call.on].there
         /\ ~r.read.active => ~token[r.call.on].active
    /\ r.gone \cap ({r.by} \cup r.shown) = {}

LEMMA RevocationOf ==
    RevokedInactive /\ RevokedStaysRevoked <=>
        /\ \A t \in revoked : token[t].there /\ ~token[t].active
        /\ \A th \in Worker : Remembers(th)
BY DEF RevokedInactive, RevokedStaysRevoked, Tokens!RevokedStaysRevoked, Remembers

(* A token that is there stays there, and never becomes active again.      *)
RowsEvolve ==
    \A t \in Token : token[t].there => token'[t].there /\ (token'[t].active => token[t].active)

LEMMA StepEvolves ==
    ASSUME Tokens!TypeOK, NEW th \in Worker, TokenStep(th)
    PROVE  RowsEvolve /\ revoked \subseteq revoked'
<1>1. RowsEvolve
  <2>1. OnlyShrinks => RowsEvolve
    BY DEF OnlyShrinks, RowsEvolve
  <2>2. ASSUME NEW t \in Token, Inserts(t) PROVE RowsEvolve
    BY <2>2 DEF Inserts, RowsEvolve, Tokens!TypeOK
  <2> QED BY <2>1, <2>2, RowsMove
<1>2. revoked \subseteq revoked'
  <2>1. Tokens!RevokeToken(th) =>
          revoked' = revoked \/ revoked' = revoked \cup {tokenReq[th].call.on}
    BY Zenon DEF Tokens!RevokeToken
  <2> QED BY <2>1 DEF TokenStep, Tokens!AuthenticateWithJwt, Tokens!AuthenticateWithApiToken,
            Tokens!Touch, Tokens!CountTokens, Tokens!InsertToken,
            Tokens!ListTokens, Tokens!GetToken, Tokens!Find, Tokens!UpdateToken, Tokens!Answer
<1> QED BY <1>1, <1>2

LEMMA OtherRequestRemembers ==
    ASSUME NEW u \in Worker, Remembers(u), RowsEvolve, revoked \subseteq revoked',
           tokenReq'[u] = tokenReq[u]
    PROVE  Remembers(u)'
BY DEF Remembers, RowsEvolve

(* A request that neither writes nor reads a row next remembers what it    *)
(* did, or nothing.                                                        *)
LEMMA PlaceRemembers ==
    ASSUME NEW th \in Worker, Remembers(th), revoked \subseteq revoked', Tokens!TypeOK,
           \/ Tokens!End(th)
           \/ \E place : /\ Tokens!Goto(th, place) /\ place # "write"
                         /\ place = "find" => tokenReq[th].call.on \in Token
    PROVE  Remembers(th)'
<1>1. tokenReq \in [Worker -> Tokens!Request]
  BY DEF Tokens!TypeOK
<1>2. CASE Tokens!End(th)
  <2>1. tokenReq'[th] = Tokens!Idle
    BY <1>1, <1>2 DEF Tokens!End
  <2> QED BY <2>1, NewRowFacts DEF Remembers
<1>3. ASSUME NEW place, Tokens!Goto(th, place), place # "write",
             place = "find" => tokenReq[th].call.on \in Token
      PROVE  Remembers(th)'
  <2>1. tokenReq'[th] = [tokenReq[th] EXCEPT !.at = place]
    BY <1>1, <1>3 DEF Tokens!Goto
  <2>2. /\ tokenReq'[th].at = place /\ tokenReq'[th].call = tokenReq[th].call
        /\ tokenReq'[th].gone = tokenReq[th].gone /\ tokenReq'[th].by = tokenReq[th].by
        /\ tokenReq'[th].shown = tokenReq[th].shown
    BY <1>1, <2>1 DEF Tokens!Request
  <2> QED BY <1>3, <2>2 DEF Remembers
<1> QED BY <1>2, <1>3

(* A request that begins knows what is revoked, and is not signed in by it. *)
LEMMA BeginRemembers ==
    ASSUME Tokens!TypeOK, \A t \in revoked : ~token[t].active, NEW th \in Worker,
           NEW call \in Tokens!Call,
           \/ Tokens!AuthenticateWithJwt(th, call)
           \/ \E t \in Token : Tokens!AuthenticateWithApiToken(th, call, t)
    PROVE  Remembers(th)'
<1>1. tokenReq \in [Worker -> Tokens!Request] /\ revoked \subseteq Token /\ revoked' = revoked
  BY DEF Tokens!TypeOK, Tokens!AuthenticateWithJwt, Tokens!AuthenticateWithApiToken
<1>2. Tokens!Jwt \notin revoked
  BY <1>1, RowsAssumption
<1>3. CASE Tokens!AuthenticateWithJwt(th, call)
  <2> DEFINE r == [Tokens!Idle EXCEPT !.at = Tokens!Handler(call.op), !.call = call,
                                      !.gone = revoked]
  <2>1. tokenReq'[th] = r
    BY <1>1, <1>3 DEF Tokens!AuthenticateWithJwt
  <2>2. /\ r.at = Tokens!Handler(call.op) /\ r.call = call /\ r.gone = revoked
        /\ r.by = Tokens!Jwt /\ r.shown = {}
    BY DEF Tokens!Idle
  <2> HIDE DEF r
  <2> QED BY <1>1, <1>2, <2>1, <2>2, CallFacts DEF Remembers
<1>4. ASSUME NEW t \in Token, Tokens!AuthenticateWithApiToken(th, call, t)
      PROVE  Remembers(th)'
  <2> DEFINE r == [Tokens!Idle EXCEPT !.at = "touch", !.call = call, !.by = t,
                                      !.read = token[t], !.gone = revoked]
  <2>1. tokenReq'[th] = r /\ token[t].active
    BY <1>1, <1>4 DEF Tokens!AuthenticateWithApiToken, Tokens!Accepts
  <2>2. r.at = "touch" /\ r.gone = revoked /\ r.by = t /\ r.shown = {}
    BY DEF Tokens!Idle
  <2> HIDE DEF r
  <2> QED BY <1>1, <2>1, <2>2 DEF Remembers
<1> QED BY <1>3, <1>4

(* Only active tokens are shown, and none of those is revoked.             *)
LEMMA ShownRemembers ==
    ASSUME Tokens!TypeOK, \A t \in revoked : ~token[t].active, NEW th \in Worker,
           Remembers(th), Tokens!ListTokens(th) \/ Tokens!GetToken(th)
    PROVE  Remembers(th)'
<1>1. tokenReq \in [Worker -> Tokens!Request] /\ revoked' = revoked
  BY DEF Tokens!TypeOK, Tokens!ListTokens, Tokens!GetToken
<1>2. CASE Tokens!End(th)
  BY <1>1, <1>2, PlaceRemembers
<1>3. CASE ~Tokens!End(th)
  <2>1. PICK S \in SUBSET Tokens!ActiveTokens :
          tokenReq' = [tokenReq EXCEPT ![th].at = "answer", ![th].shown = S]
    BY <1>3 DEF Tokens!ListTokens, Tokens!GetToken
  <2>2. /\ tokenReq'[th].at = "answer" /\ tokenReq'[th].gone = tokenReq[th].gone
        /\ tokenReq'[th].by = tokenReq[th].by /\ tokenReq'[th].shown = S
    BY <1>1, <2>1 DEF Tokens!Request
  <2>3. S \cap revoked = {}
    BY DEF Tokens!ActiveTokens
  <2> QED BY <1>1, <2>2, <2>3 DEF Remembers
<1> QED BY <1>2, <1>3

(* A token that is found is remembered as it is.                           *)
LEMMA FindRemembers ==
    ASSUME Tokens!TypeOK, NEW th \in Worker, Remembers(th), Tokens!Find(th)
    PROVE  Remembers(th)'
<1> DEFINE t == tokenReq[th].call.on
<1>1. /\ tokenReq \in [Worker -> Tokens!Request] /\ revoked' = revoked /\ token' = token
      /\ t \in Token
  BY DEF Tokens!TypeOK, Tokens!Find, Tokens!At, Remembers
<1>2. CASE Tokens!End(th)
  BY <1>1, <1>2, PlaceRemembers
<1>3. CASE ~Tokens!End(th)
  <2>1. /\ token[t].there
        /\ tokenReq' = [tokenReq EXCEPT ![th].at = "write", ![th].read = token[t]]
    BY <1>3 DEF Tokens!Find
  <2>2. /\ tokenReq'[th].at = "write" /\ tokenReq'[th].gone = tokenReq[th].gone
        /\ tokenReq'[th].by = tokenReq[th].by /\ tokenReq'[th].shown = tokenReq[th].shown
        /\ tokenReq'[th].call = tokenReq[th].call /\ tokenReq'[th].read = token[t]
    BY <1>1, <2>1 DEF Tokens!Request
  <2> QED BY <1>1, <2>1, <2>2 DEF Remembers
<1> QED BY <1>2, <1>3

LEMMA StepRemembers ==
    ASSUME Tokens!TypeOK, \A t \in revoked : ~token[t].active, NEW th \in Worker,
           Remembers(th), revoked \subseteq revoked', TokenStep(th)
    PROVE  Remembers(th)'
<1>1. CASE Tokens!Touch(th)
  <2> DEFINE call == tokenReq[th].call
  <2>1. call \in Tokens!Call
    BY DEF Tokens!TypeOK, Tokens!Request
  <2>2. /\ Tokens!Handler(call.op) # "write"
        /\ Tokens!Handler(call.op) = "find" => call.on \in Token
    BY <2>1, CallFacts
  <2>3. Tokens!Goto(th, Tokens!Handler(call.op)) \/ Tokens!End(th)
    BY <1>1 DEF Tokens!Touch
  <2> QED BY <2>2, <2>3, PlaceRemembers
<1>2. Tokens!CountTokens(th) => Tokens!Goto(th, "insert") \/ Tokens!End(th)
  BY DEF Tokens!CountTokens
<1>3. CASE Tokens!CountTokens(th)
  BY <1>2, <1>3, PlaceRemembers
<1>4. CASE \/ Tokens!InsertToken(th) \/ Tokens!UpdateToken(th)
           \/ Tokens!RevokeToken(th) \/ Tokens!Answer(th)
  <2>1. Tokens!End(th)
    BY <1>4, Zenon DEF Tokens!InsertToken, Tokens!UpdateToken, Tokens!RevokeToken, Tokens!Answer
  <2> QED BY <2>1, PlaceRemembers
<1> QED BY <1>1, <1>3, <1>4, BeginRemembers, ShownRemembers, FindRemembers DEF TokenStep

(* Whatever is revoked by a step is inactive after it.                     *)
LEMMA RevokesInactive ==
    ASSUME Tokens!TypeOK, NEW th \in Worker, Remembers(th), TokenStep(th),
           NEW t \in revoked' \ revoked
    PROVE  token'[t].there /\ ~token'[t].active
<1>1. Tokens!RevokeToken(th)
  BY Zenon DEF TokenStep, Tokens!AuthenticateWithJwt, Tokens!AuthenticateWithApiToken,
            Tokens!Touch, Tokens!CountTokens, Tokens!InsertToken,
            Tokens!ListTokens, Tokens!GetToken, Tokens!Find, Tokens!UpdateToken, Tokens!Answer
<1> DEFINE read == tokenReq[th].read
<1>2. /\ t = tokenReq[th].call.on /\ tokenReq[th].at = "write"
      /\ token' = [token EXCEPT ![t] = Tokens!Flush(@, read, Tokens!Revoked(read))]
  BY <1>1 DEF Tokens!RevokeToken, Tokens!At
<1>3. /\ token \in [Token -> Tokens!Row] /\ read \in Tokens!Row /\ t \in Token
      /\ token[t].there /\ (~read.active => ~token[t].active)
  BY <1>2 DEF Tokens!TypeOK, Tokens!Request, Remembers
<1> DEFINE new == Tokens!Revoked(read)
           f == Tokens!Flush(token[t], read, new)
<1>4. /\ f.there = token[t].there
      /\ f.active = IF FALSE # read.active THEN FALSE ELSE token[t].active
  <2>1. new \in Tokens!Row /\ new.there = read.there /\ new.active = FALSE
    BY <1>3, ReadFacts
  <2>2. token[t] \in Tokens!Row
    BY <1>3
  <2> HIDE DEF new, read
  <2>3. read \in Tokens!Row
    BY <1>3
  <2>4. /\ f \in Tokens!Row
        /\ f.there = IF new.there # read.there THEN new.there ELSE token[t].there
        /\ f.active = IF new.active # read.active THEN new.active ELSE token[t].active
    BY <2>1, <2>2, <2>3, FlushFacts
  <2> HIDE DEF f
  <2> QED BY <2>1, <2>4
<1>5. token'[t] = f
  BY <1>2, <1>3
<1>6. read.active \in BOOLEAN
  BY <1>3 DEF Tokens!Row
<1> HIDE DEF f
<1> QED BY <1>3, <1>4, <1>5, <1>6

LEMMA RevocationPreserved ==
    ASSUME TokensIInv, Tokens!Next
    PROVE  (RevokedInactive /\ RevokedStaysRevoked)'
<1>1. /\ Tokens!TypeOK /\ \A t \in revoked : t \in Token /\ token[t].there /\ ~token[t].active
      /\ \A th \in Worker : Remembers(th)
  BY RevocationOf DEF TokensIInv, Tokens!TypeOK
<1>2. ASSUME NEW th \in Worker, TokenStep(th)
      PROVE  /\ \A t \in revoked' : token'[t].there /\ ~token'[t].active
             /\ \A u \in Worker : Remembers(u)'
  <2>1. RowsEvolve /\ revoked \subseteq revoked'
    BY <1>1, <1>2, StepEvolves
  <2>2. \A t \in revoked : token'[t].there /\ ~token'[t].active
    BY <1>1, <2>1 DEF RowsEvolve
  <2>3. \A t \in revoked' \ revoked : token'[t].there /\ ~token'[t].active
    BY <1>1, <1>2, RevokesInactive
  <2>4. Remembers(th)'
    BY <1>1, <1>2, <2>1, StepRemembers
  <2>5. \A u \in Worker \ {th} : Remembers(u)'
    <3>1. \A u \in Worker \ {th} : tokenReq'[u] = tokenReq[u]
      BY <1>1, <1>2, TokenRequestTyped DEF RequestBecomes, Tokens!TypeOK, TokensIInv
    <3> QED BY <1>1, <2>1, <3>1, OtherRequestRemembers
  <2> QED BY <2>2, <2>3, <2>4, <2>5
<1>3. CASE Tokens!SwitchUser \/ Tokens!Tick
  BY <1>3 DEF Tokens!SwitchUser, Tokens!Tick, TokensIInv, RevokedInactive,
              RevokedStaysRevoked, Tokens!RevokedStaysRevoked
<1>4. CASE \E th \in Worker : TokenStep(th)
  BY <1>2, <1>4 DEF RevokedInactive, RevokedStaysRevoked, Tokens!RevokedStaysRevoked, Remembers
<1> QED BY <1>3, <1>4 DEF Tokens!Next, TokenStep

-----------------------------------------------------------------------------
LEMMA TokensInit == Tokens!Init => TokensIInv
<1> SUFFICES ASSUME Tokens!Init PROVE TokensIInv
  OBVIOUS
<1>1. Tokens!TypeOK
  BY NewRowFacts, RowBounds DEF Tokens!Init, Tokens!TypeOK
<1>2. Tokens!ActiveTokens = {} /\ Inserters = {}
  BY NewRowFacts DEF Tokens!Init, Tokens!ActiveTokens, Tokens!ExistingTokens, Inserters
<1>3. SlotsCounted
  BY <1>2, FS_EmptySet, RowBounds, InsertersAreWorkers DEF SlotsCounted
<1>4. RevokedInactive /\ RevokedStaysRevoked
  BY NewRowFacts DEF Tokens!Init, RevokedInactive, RevokedStaysRevoked,
                     Tokens!RevokedStaysRevoked
<1> QED BY <1>1, <1>3, <1>4 DEF TokensIInv

LEMMA TokensNext == TokensIInv /\ [Tokens!Next]_(Tokens!vars) => TokensIInv'
<1> SUFFICES ASSUME TokensIInv, [Tokens!Next]_(Tokens!vars) PROVE TokensIInv'
  OBVIOUS
<1>1. CASE Tokens!Next
  BY <1>1, TokenTypePreserved, SlotsPreserved, RevocationPreserved DEF TokensIInv
<1>2. CASE UNCHANGED Tokens!vars
  BY <1>2 DEF Tokens!vars, TokensIInv, Tokens!TypeOK, SlotsCounted, Inserters,
              Tokens!ActiveTokens, Tokens!ExistingTokens, RevokedInactive,
              RevokedStaysRevoked, Tokens!RevokedStaysRevoked
<1> QED BY <1>1, <1>2

LEMMA TokensInvariant == RowsSpec => []TokensIInv
BY TokensInit, TokensNext, RowsAreApart, PTL DEF Tokens!Spec

(* For any number of threads, tokens and any limit, a user has at most as  *)
(* many active tokens more than the limit as other requests can count at   *)
(* the same time (api_token_service.py:63-72).                             *)
THEOREM TokensAreCapped == RowsSpec => []TokensCapped
<1>1. TokensIInv => TokensCapped
  BY SameCardinality, InsertersAreWorkers, RowBounds, FS_CardinalityType
     DEF TokensIInv, SlotsCounted, TokensCapped, Tokens!TokensCapped
<1> QED BY <1>1, TokensInvariant, PTL

(* For any number of threads and tokens, no request that began after a     *)
(* token's revocation was committed is signed in by it or shows it as      *)
(* active (repositories/api_token.py:144-223).                             *)
THEOREM RevocationIsFinal == RowsSpec => []RevokedStaysRevoked
<1>1. TokensIInv => RevokedStaysRevoked
  BY DEF TokensIInv
<1> QED BY <1>1, TokensInvariant, PTL

-----------------------------------------------------------------------------
(* A user's aggregators.                                                   *)

Agg == Aggregators!Agg
Row == Aggregators!Row
There == Aggregators!There
Defaults == Aggregators!Defaults

Resting == \A th \in Worker : aggReq[th].at = "idle"

(* One default, unless the last choice was disturbed.                      *)
OneUnlessDisturbed ==
    clean /\ There # {} => (\E a \in There : Defaults = {a})

(* A request that has run alone so far.                                    *)
Undisturbed(th) == aggReq[th].at # "idle" /\ ~aggReq[th].disturbed
Alone(th) == \A u \in Worker \ {th} : aggReq[u].at = "idle"

(* How far such a request has come: its session holds the rows as they     *)
(* are, it reads them before it changes any, and what it still has to look *)
(* at includes every default but the one it will choose.                   *)
Stage(th) ==
    LET r == aggReq[th] IN
    /\ \A a \in DOMAIN r.seen : r.seen[a] = agg[a]
    /\ r.op = "create" => r.on = 0
    /\ r.op \in {"update", "set"} => agg[r.on].there
    /\ (r.op = "update" /\ ~r.to) => r.was = agg[r.on].default
    /\ r.op = "set" => r.to
    /\ r.op = "delete" => ~r.to
    /\ r.at = "list" => r.op # "delete" /\ (r.op # "create" => r.to) /\ OneUnlessDisturbed
    /\ r.at \in {"look", "unset"} =>
         /\ r.op # "delete" /\ r.to
         /\ Defaults \ {r.on} \subseteq r.todo /\ r.todo \subseteq There
    /\ r.at = "unset" => agg[Aggregators!Newest(r.todo)].there
    /\ r.at = "write" =>
         /\ r.to => Defaults \subseteq {r.on}
         /\ (~r.to /\ r.op = "create") => There # {} /\ OneUnlessDisturbed
         /\ (~r.to /\ r.op = "update") => OneUnlessDisturbed
         /\ r.op = "delete" => agg[r.on].there /\ (clean => Defaults = {})
    /\ r.at = "delete" => /\ r.op = "delete" /\ agg[r.on].there
                          /\ r.was = agg[r.on].default /\ OneUnlessDisturbed
    /\ r.at = "remaining" => r.op = "delete" /\ (clean => Defaults = {})

(* Every creation has its identity.                                        *)
BornCounted == born + Cardinality(Aggregators!Creating) <= MaxAgg

(* What is always true of a request: its type, and that one that lists the *)
(* aggregators of the user looks for a default, unless it creates one.     *)
ReqTyped(r) ==
    /\ r \in Aggregators!RequestState
    /\ r.at = "idle" <=> r.op = "none"
    /\ r.op \in {"update", "set", "delete"} => r.on \in Agg
    /\ (r.at = "list" /\ r.op # "create") => r.to
    /\ r.at = "unset" => r.todo # {} /\ Aggregators!Newest(r.todo) \in DOMAIN r.seen
    /\ (r.at = "write" /\ r.op # "create") => r.on \in DOMAIN r.seen

AggTyped ==
    /\ agg \in [Agg -> Row]
    /\ born \in 0..MaxAgg /\ lost \in 0..MaxLost /\ clean \in BOOLEAN
    /\ aggReq \in [Worker -> Aggregators!RequestState]
    /\ \A th \in Worker : ReqTyped(aggReq[th])

(* Identities grow.                                                        *)
Dated == \A a \in Agg : agg[a].there => a <= born

AggIInv ==
    /\ AggTyped /\ BornCounted /\ Dated
    /\ \A th \in Worker : Undisturbed(th) => Stage(th) /\ Alone(th)
    /\ Resting => OneUnlessDisturbed

(* The newest of some aggregators is one of them.                          *)
LEMMA NewestIsOne ==
    ASSUME NEW S, S \subseteq Agg, S # {}
    PROVE  Aggregators!Newest(S) \in S /\ \A b \in S : Aggregators!Newest(S) >= b
<1>1. S \subseteq 1..MaxAgg /\ MaxAgg \in Nat
  BY RowBounds DEF Agg, Aggregators!Agg
<1> DEFINE T == {MaxAgg - a : a \in S}
<1>2. T \subseteq Nat /\ T # {}
  <2>1. \A a \in S : MaxAgg - a \in Nat
    BY <1>1
  <2>2. PICK a \in S : TRUE
    OBVIOUS
  <2>3. MaxAgg - a \in T
    OBVIOUS
  <2> QED BY <2>1, <2>3
<1>3. PICK x \in T : \A y \in T : ~(<<y, x>> \in OpToRel(<, Nat))
  BY <1>2, NatLessThanWellFounded, WFMin
<1>4. \A y \in T : ~(y < x)
  BY <1>2, <1>3 DEF OpToRel
<1>5. PICK a \in S : x = MaxAgg - a
  OBVIOUS
<1>6. \A b \in S : a >= b
  <2> SUFFICES ASSUME NEW b \in S PROVE a >= b
    OBVIOUS
  <2>1. MaxAgg - b \in T
    OBVIOUS
  <2> QED BY <1>1, <1>4, <1>5, <2>1
<1> QED BY <1>6 DEF Aggregators!Newest

LEMMA SameCardinalityHere == \A S : Aggregators!Cardinality(S) = Cardinality(S)
BY DEF Aggregators!Cardinality, Cardinality

(* What the sessions hold.                                                 *)
Seeing == UNION {[S -> Row] : S \in SUBSET Agg}

LEMMA SeeingHolds ==
    ASSUME NEW f \in Seeing
    PROVE  DOMAIN f \subseteq Agg /\ \A a \in DOMAIN f : f[a] \in Row
BY DEF Seeing

LEMMA HoldsSeeing ==
    ASSUME NEW S \in SUBSET Agg, NEW f \in [S -> Row]
    PROVE  f \in Seeing
BY DEF Seeing

LEMMA SeenTyped ==
    ASSUME NEW r, r.seen \in Seeing, NEW S \in SUBSET Agg, agg \in [Agg -> Row]
    PROVE  /\ Aggregators!Seen(r, S) \in Seeing
           /\ DOMAIN Aggregators!Seen(r, S) = DOMAIN r.seen \cup S
           /\ \A a \in DOMAIN r.seen : Aggregators!Seen(r, S)[a] = r.seen[a]
           /\ \A a \in S \ DOMAIN r.seen : Aggregators!Seen(r, S)[a] = agg[a]
<1> DEFINE f == Aggregators!Seen(r, S)
<1>1. DOMAIN r.seen \subseteq Agg /\ \A a \in DOMAIN r.seen : r.seen[a] \in Row
  BY SeeingHolds
<1>2. /\ f = [a \in DOMAIN r.seen \cup S |-> f[a]] /\ DOMAIN f = DOMAIN r.seen \cup S
      /\ \A a \in DOMAIN r.seen : f[a] = r.seen[a]
      /\ \A a \in S \ DOMAIN r.seen : f[a] = agg[a]
  BY DEF Aggregators!Seen
<1> HIDE DEF f
<1>3. \A a \in DOMAIN r.seen \cup S : f[a] \in Row
  BY <1>1, <1>2
<1>4. f \in [DOMAIN r.seen \cup S -> Row] /\ DOMAIN r.seen \cup S \in SUBSET Agg
  BY <1>1, <1>2, <1>3
<1>5. f \in Seeing
  BY <1>4, HoldsSeeing
<1> QED BY <1>2, <1>5 DEF f

LEMMA SmallSessions ==
    /\ Aggregators!Unread \in Seeing /\ DOMAIN Aggregators!Unread = {}
    /\ \A a \in Agg, row \in Row : [b \in {a} |-> row] \in Seeing
<1>1. Aggregators!Unread \in [{} -> Row] /\ DOMAIN Aggregators!Unread = {}
  BY DEF Aggregators!Unread
<1>2. \A a \in Agg, row \in Row : [b \in {a} |-> row] \in [{a} -> Row]
  OBVIOUS
<1> QED BY <1>1, <1>2, HoldsSeeing

LEMMA RequestStates ==
    /\ Aggregators!RequestState =
        [at : {"idle", "list", "look", "unset", "write", "delete", "remaining"},
         op : {"none", "create", "update", "set", "delete"}, on : {0} \cup Agg, to : BOOLEAN,
         seen : Seeing, todo : SUBSET Agg, was : BOOLEAN, disturbed : BOOLEAN]
    /\ Aggregators!Idle \in Aggregators!RequestState
    /\ Aggregators!Gone \in Row /\ 0 \notin Agg
<1>1. Aggregators!RequestState =
        [at : {"idle", "list", "look", "unset", "write", "delete", "remaining"},
         op : {"none", "create", "update", "set", "delete"}, on : {0} \cup Agg, to : BOOLEAN,
         seen : Seeing, todo : SUBSET Agg, was : BOOLEAN, disturbed : BOOLEAN]
  BY DEF Aggregators!RequestState, Seeing, Row, Agg
<1>2. Aggregators!Idle \in Aggregators!RequestState
  BY <1>1, SmallSessions DEF Aggregators!Idle
<1> QED BY <1>1, <1>2, RowBounds DEF Aggregators!Gone, Row, Aggregators!Row, Agg, Aggregators!Agg

(* Steps of a request that runs change only that request.                  *)
AggStep(th) ==
    \/ Aggregators!List(th) \/ Aggregators!Look(th) \/ Aggregators!Unset(th)
    \/ Aggregators!Find(th) \/ Aggregators!Insert(th) \/ Aggregators!Set(th)
    \/ Aggregators!Delete(th) \/ Aggregators!Remaining(th) \/ Aggregators!Abort(th)

ReqBecomes(th, r) == aggReq' = [aggReq EXCEPT ![th] = r]

LEMMA ThereIsAgg == There \in SUBSET Agg /\ Defaults \subseteq There
BY DEF There, Defaults, Aggregators!There, Aggregators!Defaults, Agg

(* The result of an unset or a set.                                        *)
LEMMA AggFlush ==
    ASSUME NEW row \in Row, NEW read \in Row, NEW new \in Row
    PROVE  LET f == Aggregators!Flush(row, read, new) IN
           /\ f \in Row
           /\ f.there = IF new.there # read.there THEN new.there ELSE row.there
           /\ f.default = IF new.default # read.default THEN new.default ELSE row.default
BY DEF Aggregators!Flush, Row, Aggregators!Row

LEMMA DefaultOf ==
    ASSUME NEW read \in Row, NEW d \in BOOLEAN
    PROVE  LET new == [read EXCEPT !.default = d] IN
           new \in Row /\ new.there = read.there /\ new.default = d
BY DEF Row, Aggregators!Row

(* A request that ends.                                                    *)
LEMMA EndsTyped ==
    ASSUME NEW th \in Worker, NEW d \in BOOLEAN, Aggregators!EndAs(th, d)
    PROVE  /\ ReqBecomes(th, Aggregators!Idle) /\ ReqTyped(Aggregators!Idle)
           /\ clean' \in BOOLEAN
<1>1. ReqTyped(Aggregators!Idle)
  BY RequestStates DEF ReqTyped, Aggregators!Idle
<1>2. ReqBecomes(th, Aggregators!Idle) /\ clean' \in BOOLEAN
  BY Zenon DEF Aggregators!EndAs, ReqBecomes
<1> QED BY <1>1, <1>2

(* A step to another place, as far as the type goes: the new request n.    *)
Becomes(th, n) == ReqBecomes(th, n) /\ n = aggReq'[th] /\ ReqTyped(n)

LEMMA ListDoes ==
    ASSUME AggTyped, NEW th \in Worker, Aggregators!List(th)
    PROVE  LET r == aggReq[th]
               n == aggReq'[th]
               to == r.to \/ There = {}
           IN  /\ Becomes(th, n) /\ UNCHANGED <<agg, born, lost, clean>> /\ r.at = "list"
               /\ n.at = (IF to THEN "look" ELSE "write") /\ n.to = to /\ n.todo = There
               /\ n.seen = Aggregators!Seen(r, There)
               /\ n.op = r.op /\ n.on = r.on /\ n.was = r.was /\ n.disturbed = r.disturbed
<1> DEFINE r == aggReq[th]
           to == r.to \/ There = {}
           S == Aggregators!Seen(r, There)
           place == IF to THEN "look" ELSE "write"
           n == [[[[r EXCEPT !.seen = S] EXCEPT !.to = to] EXCEPT !.todo = There] EXCEPT !.at = place]
<1>1. /\ aggReq' = [aggReq EXCEPT ![th].seen = S, ![th].to = to, ![th].todo = There, ![th].at = place]
      /\ r.at = "list" /\ UNCHANGED <<agg, born, lost, clean>>
  BY Zenon DEF Aggregators!List, There, Aggregators!At
<1>2. /\ aggReq \in [Worker -> Aggregators!RequestState] /\ agg \in [Agg -> Row]
      /\ ReqTyped(r) /\ r \in Aggregators!RequestState /\ r.seen \in Seeing
  BY RequestStates DEF AggTyped
<1>3. S \in Seeing /\ DOMAIN S = DOMAIN r.seen \cup There
  BY <1>2, SeenTyped, ThereIsAgg
<1>4. to \in BOOLEAN /\ place \in {"look", "write"} /\ There \in SUBSET Agg
      /\ (place = "look" <=> to)
  BY <1>2, RequestStates, ThereIsAgg, Zenon
<1> HIDE DEF to, S, place
<1>5. aggReq' = [aggReq EXCEPT ![th] = n] /\ aggReq'[th] = n
  BY <1>1, <1>2
<1>6. /\ n \in Aggregators!RequestState
      /\ n.at = place /\ n.to = to /\ n.todo = There /\ n.seen = S
      /\ n.op = r.op /\ n.on = r.on /\ n.was = r.was /\ n.disturbed = r.disturbed
  BY <1>2, <1>3, <1>4, RequestStates
<1> HIDE DEF n
<1>7. ReqTyped(n)
  <2>1. r.to => to
    BY <1>2, RequestStates DEF to
  <2> QED BY <1>1, <1>2, <1>4, <1>6, <2>1 DEF ReqTyped
<1> QED BY <1>1, <1>5, <1>6, <1>7, Zenon DEF Becomes, ReqBecomes, to, S, place

(* What most steps leave of a request.                                     *)
Keeps(r, n) == n.op = r.op /\ n.to = r.to /\ n.was = r.was

LEMMA LookDoes ==
    ASSUME AggTyped, NEW th \in Worker, Aggregators!Look(th)
    PROVE  LET r == aggReq[th]
               n == aggReq'[th]
               a == Aggregators!Newest(r.todo)
               S == Aggregators!Seen(r, {a})
           IN  /\ UNCHANGED <<agg, born, lost>> /\ r.at = "look" /\ a \in r.todo /\ r.todo \subseteq Agg
               /\ \/ a \notin DOMAIN r.seen /\ ~agg[a].there /\ Aggregators!EndAs(th, r.disturbed)
                  \/ /\ Becomes(th, n) /\ UNCHANGED clean
                     /\ n.seen = S /\ Keeps(r, n) /\ n.on = r.on /\ n.disturbed = r.disturbed
                     /\ \/ S[a].default /\ a # r.on /\ n.at = "unset" /\ n.todo = r.todo
                        \/ ~(S[a].default /\ a # r.on) /\ n.at = "look" /\ n.todo = r.todo \ {a}
<1> DEFINE r == aggReq[th]
           a == Aggregators!Newest(r.todo)
           S == Aggregators!Seen(r, {a})
           n1 == [[r EXCEPT !.seen = S] EXCEPT !.at = "unset"]
           n2 == [[r EXCEPT !.seen = S] EXCEPT !.todo = r.todo \ {a}]
<1>1. /\ aggReq \in [Worker -> Aggregators!RequestState] /\ agg \in [Agg -> Row]
      /\ ReqTyped(r) /\ r \in Aggregators!RequestState /\ r.seen \in Seeing
      /\ r.todo \in SUBSET Agg
  BY RequestStates DEF AggTyped
<1>2. r.at = "look" /\ r.todo # {} /\ UNCHANGED <<agg, born, lost>>
  BY DEF Aggregators!Look, Aggregators!At
<1>3. a \in r.todo
  BY <1>1, <1>2, NewestIsOne
<1>4. S \in Seeing /\ DOMAIN S = DOMAIN r.seen \cup {a}
  BY <1>1, <1>3, SeenTyped
<1>5. \/ a \notin DOMAIN r.seen /\ ~agg[a].there /\ Aggregators!EndAs(th, r.disturbed)
      \/ /\ aggReq' = [aggReq EXCEPT ![th].seen = S, ![th].at = "unset"]
         /\ clean' = clean /\ S[a].default /\ a # r.on
      \/ /\ aggReq' = [aggReq EXCEPT ![th].seen = S, ![th].todo = @ \ {a}]
         /\ clean' = clean /\ ~(S[a].default /\ a # r.on)
  BY DEF Aggregators!Look, Aggregators!End
<1> HIDE DEF S
<1> HIDE DEF a
<1>6. CASE /\ aggReq' = [aggReq EXCEPT ![th].seen = S, ![th].at = "unset"]
           /\ clean' = clean /\ S[a].default /\ a # r.on
  <2>1. aggReq' = [aggReq EXCEPT ![th] = n1] /\ aggReq'[th] = n1
    BY <1>1, <1>6
  <2>2. /\ n1 \in Aggregators!RequestState
        /\ n1.at = "unset" /\ n1.seen = S /\ n1.todo = r.todo /\ n1.on = r.on
        /\ n1.op = r.op /\ n1.to = r.to /\ n1.was = r.was /\ n1.disturbed = r.disturbed
    BY <1>1, <1>4, RequestStates
  <2> HIDE DEF n1
  <2>3. ReqTyped(n1)
    BY <1>1, <1>2, <1>4, <2>2 DEF ReqTyped, a
  <2> QED BY <1>1, <1>2, <1>3, <1>6, <2>1, <2>2, <2>3 DEF S, a, Becomes, ReqBecomes, Keeps
<1>7. CASE /\ aggReq' = [aggReq EXCEPT ![th].seen = S, ![th].todo = @ \ {a}]
           /\ clean' = clean /\ ~(S[a].default /\ a # r.on)
  <2>1. aggReq' = [aggReq EXCEPT ![th] = n2] /\ aggReq'[th] = n2
    BY <1>1, <1>7
  <2>2. /\ n2 \in Aggregators!RequestState
        /\ n2.at = "look" /\ n2.seen = S /\ n2.todo = r.todo \ {a} /\ n2.on = r.on
        /\ n2.op = r.op /\ n2.to = r.to /\ n2.was = r.was /\ n2.disturbed = r.disturbed
    BY <1>1, <1>2, <1>4, RequestStates
  <2> HIDE DEF n2
  <2>3. ReqTyped(n2)
    BY <1>1, <1>2, <1>4, <2>2 DEF ReqTyped
  <2> QED BY <1>1, <1>2, <1>3, <1>7, <2>1, <2>2, <2>3 DEF S, a, Becomes, ReqBecomes, Keeps
<1> QED BY <1>1, <1>2, <1>3, <1>5, <1>6, <1>7 DEF S, a

LEMMA UnsetDoes ==
    ASSUME AggTyped, NEW th \in Worker, Aggregators!Unset(th)
    PROVE  LET r == aggReq[th]
               n == aggReq'[th]
               a == Aggregators!Newest(r.todo)
           IN  /\ UNCHANGED <<born, clean>> /\ r.at = "unset" /\ a \in r.todo /\ r.todo \subseteq Agg
               /\ a \in DOMAIN r.seen
               /\ Becomes(th, n) /\ n.at = "look" /\ n.todo = r.todo \ {a}
               /\ Keeps(r, n) /\ n.on = r.on
               /\ agg' \in [Agg -> Row] /\ lost' \in 0..MaxLost
               /\ \/ /\ \A b \in Agg \ {a} : agg'[b] = agg[b]
                     /\ agg[a].there /\ agg'[a].there
                     /\ agg'[a].default = (IF r.seen[a].default THEN FALSE ELSE agg[a].default)
                     /\ n.seen = [b \in {a} |-> agg'[a]] /\ n.disturbed = r.disturbed
                  \/ agg' = agg /\ n.disturbed
<1> DEFINE r == aggReq[th]
           a == Aggregators!Newest(r.todo)
           new == [r.seen[a] EXCEPT !.default = FALSE]
           unset == Aggregators!Flush(agg[a], r.seen[a], new)
           seen == [b \in {a} |-> unset]
           n1 == [[[r EXCEPT !.at = "look"] EXCEPT !.todo = r.todo \ {a}] EXCEPT !.seen = seen]
           n2 == [[[[r EXCEPT !.at = "look"] EXCEPT !.todo = r.todo \ {a}]
                     EXCEPT !.seen = Aggregators!Unread] EXCEPT !.disturbed = TRUE]
<1>1. /\ aggReq \in [Worker -> Aggregators!RequestState] /\ agg \in [Agg -> Row]
      /\ ReqTyped(r) /\ r \in Aggregators!RequestState /\ r.seen \in Seeing
      /\ r.todo \in SUBSET Agg /\ lost \in 0..MaxLost /\ MaxLost \in Nat
  BY RequestStates, RowBounds DEF AggTyped
<1>2. r.at = "unset" /\ UNCHANGED <<born, clean>> /\ r.todo # {} /\ a \in DOMAIN r.seen
  <2>1. r.at = "unset" /\ UNCHANGED <<born, clean>>
    BY DEF Aggregators!Unset, Aggregators!At
  <2> QED BY <1>1, <2>1 DEF ReqTyped
<1>3. a \in r.todo /\ a \in Agg
  BY <1>1, <1>2, NewestIsOne
<1>4. r.seen[a] \in Row /\ agg[a] \in Row
  BY <1>1, <1>2, <1>3, SeeingHolds
<1>5. \/ /\ agg[a].there /\ agg' = [agg EXCEPT ![a] = unset] /\ lost' = lost
         /\ aggReq' = [aggReq EXCEPT ![th].at = "look", ![th].todo = @ \ {a}, ![th].seen = seen]
      \/ /\ agg' = agg /\ (lost' = lost \/ Aggregators!Lose)
         /\ aggReq' = [aggReq EXCEPT ![th].at = "look", ![th].todo = @ \ {a},
                          ![th].seen = Aggregators!Unread, ![th].disturbed = TRUE]
  BY DEF Aggregators!Unset
<1>6. lost' \in 0..MaxLost
  BY <1>1, <1>5 DEF Aggregators!Lose
<1>7. new \in Row /\ new.there = r.seen[a].there /\ new.default = FALSE
  BY <1>4, DefaultOf
<1> HIDE DEF new
<1>8. /\ unset \in Row
      /\ unset.there = IF new.there # r.seen[a].there THEN new.there ELSE agg[a].there
      /\ unset.default = IF new.default # r.seen[a].default THEN new.default ELSE agg[a].default
  BY <1>4, <1>7, AggFlush
<1>9. r.seen[a].default \in BOOLEAN
  BY <1>4 DEF Row, Aggregators!Row
<1>10. unset.there = agg[a].there
       /\ unset.default = (IF r.seen[a].default THEN FALSE ELSE agg[a].default)
  <2> HIDE DEF unset, a, r
  <2> QED BY <1>7, <1>8, <1>9
<1> HIDE DEF unset
<1>11. seen \in Seeing /\ Aggregators!Unread \in Seeing
  BY <1>3, <1>8, SmallSessions
<1> HIDE DEF seen
<1> HIDE DEF a
<1>12. CASE /\ agg[a].there /\ agg' = [agg EXCEPT ![a] = unset] /\ lost' = lost
            /\ aggReq' = [aggReq EXCEPT ![th].at = "look", ![th].todo = @ \ {a}, ![th].seen = seen]
  <2>1. aggReq' = [aggReq EXCEPT ![th] = n1] /\ aggReq'[th] = n1
    BY <1>1, <1>12
  <2>2. /\ n1 \in Aggregators!RequestState
        /\ n1.at = "look" /\ n1.seen = seen /\ n1.todo = r.todo \ {a} /\ n1.on = r.on
        /\ n1.op = r.op /\ n1.to = r.to /\ n1.was = r.was /\ n1.disturbed = r.disturbed
    BY <1>1, <1>11, RequestStates
  <2> HIDE DEF n1
  <2>3. ReqTyped(n1)
    BY <1>1, <1>2, <2>2 DEF ReqTyped
  <2>4. agg' \in [Agg -> Row] /\ agg'[a] = unset /\ \A b \in Agg \ {a} : agg'[b] = agg[b]
    BY <1>1, <1>3, <1>8, <1>12
  <2>5. Becomes(th, n1) /\ Keeps(r, n1)
    BY <2>1, <2>2, <2>3 DEF Becomes, ReqBecomes, Keeps
  <2>6. n1.seen = [b \in {a} |-> agg'[a]]
    BY <2>2, <2>4 DEF seen
  <2> QED BY <1>1, <1>2, <1>3, <1>6, <1>10, <1>12, <2>1, <2>2, <2>4, <2>5, <2>6 DEF a
<1>13. CASE /\ agg' = agg
            /\ aggReq' = [aggReq EXCEPT ![th].at = "look", ![th].todo = @ \ {a},
                            ![th].seen = Aggregators!Unread, ![th].disturbed = TRUE]
  <2>1. aggReq' = [aggReq EXCEPT ![th] = n2] /\ aggReq'[th] = n2
    BY <1>1, <1>13
  <2>2. /\ n2 \in Aggregators!RequestState
        /\ n2.at = "look" /\ n2.todo = r.todo \ {a} /\ n2.on = r.on
        /\ n2.op = r.op /\ n2.to = r.to /\ n2.was = r.was /\ n2.disturbed = TRUE
    BY <1>1, <1>11, RequestStates
  <2> HIDE DEF n2
  <2>3. ReqTyped(n2)
    BY <1>1, <1>2, <2>2 DEF ReqTyped
  <2> QED BY <1>1, <1>2, <1>3, <1>6, <1>13, <2>1, <2>2, <2>3 DEF a, Becomes, ReqBecomes, Keeps
<1> QED BY <1>5, <1>12, <1>13

LEMMA FindDoes ==
    ASSUME AggTyped, NEW th \in Worker, Aggregators!Find(th)
    PROVE  LET r == aggReq[th]
               n == aggReq'[th]
               S == Aggregators!Seen(r, {r.on})
           IN  /\ UNCHANGED <<agg, born, lost>> /\ r.at = "look" /\ r.todo = {}
               /\ \/ /\ r.op # "create" /\ r.on \in Agg /\ r.on \notin DOMAIN r.seen /\ ~agg[r.on].there
                     /\ Aggregators!EndAs(th, r.disturbed)
                  \/ /\ Becomes(th, n) /\ UNCHANGED clean /\ n.at = "write"
                     /\ n.seen = (IF r.op = "create" THEN r.seen ELSE S)
                     /\ Keeps(r, n) /\ n.on = r.on /\ n.disturbed = r.disturbed
<1> DEFINE r == aggReq[th]
           S == Aggregators!Seen(r, {r.on})
           n1 == [r EXCEPT !.at = "write"]
           n2 == [[r EXCEPT !.at = "write"] EXCEPT !.seen = S]
<1>1. /\ aggReq \in [Worker -> Aggregators!RequestState] /\ agg \in [Agg -> Row]
      /\ ReqTyped(r) /\ r \in Aggregators!RequestState /\ r.seen \in Seeing
  BY RequestStates DEF AggTyped
<1>2. r.at = "look" /\ r.todo = {} /\ UNCHANGED <<agg, born, lost>>
  BY DEF Aggregators!Find, Aggregators!At
<1>3. r.op # "create" => r.on \in Agg /\ S \in Seeing /\ DOMAIN S = DOMAIN r.seen \cup {r.on}
  <2>1. r.op # "create" => r.on \in Agg
    BY <1>1, <1>2, RequestStates DEF ReqTyped
  <2>2. r.op # "create" => {r.on} \in SUBSET Agg
    BY <2>1
  <2> HIDE DEF r
  <2>3. r.op # "create" => S \in Seeing /\ DOMAIN S = DOMAIN r.seen \cup {r.on}
    BY <1>1, <2>2, SeenTyped
  <2> QED BY <2>1, <2>3
<1>4. \/ /\ r.op # "create" /\ r.on \notin DOMAIN r.seen /\ ~agg[r.on].there
         /\ Aggregators!EndAs(th, r.disturbed)
      \/ r.op = "create" /\ aggReq' = [aggReq EXCEPT ![th].at = "write"] /\ clean' = clean
      \/ /\ r.op # "create" /\ clean' = clean
         /\ aggReq' = [aggReq EXCEPT ![th].at = "write", ![th].seen = S]
  BY Zenon DEF Aggregators!Find, Aggregators!End
<1> HIDE DEF S
<1>5. CASE r.op = "create" /\ aggReq' = [aggReq EXCEPT ![th].at = "write"] /\ clean' = clean
  <2>1. aggReq' = [aggReq EXCEPT ![th] = n1] /\ aggReq'[th] = n1
    BY <1>1, <1>5
  <2>2. /\ n1 \in Aggregators!RequestState
        /\ n1.at = "write" /\ n1.seen = r.seen /\ n1.todo = r.todo /\ n1.on = r.on
        /\ n1.op = r.op /\ n1.to = r.to /\ n1.was = r.was /\ n1.disturbed = r.disturbed
    BY <1>1, RequestStates
  <2> HIDE DEF n1
  <2>3. ReqTyped(n1)
    BY <1>1, <1>2, <1>5, <2>2 DEF ReqTyped
  <2> QED BY <1>1, <1>2, <1>5, <2>1, <2>2, <2>3 DEF Becomes, ReqBecomes, Keeps
<1>6. CASE /\ r.op # "create" /\ clean' = clean
           /\ aggReq' = [aggReq EXCEPT ![th].at = "write", ![th].seen = S]
  <2>1. aggReq' = [aggReq EXCEPT ![th] = n2] /\ aggReq'[th] = n2
    BY <1>1, <1>6
  <2>2. /\ n2 \in Aggregators!RequestState
        /\ n2.at = "write" /\ n2.seen = S /\ n2.todo = r.todo /\ n2.on = r.on
        /\ n2.op = r.op /\ n2.to = r.to /\ n2.was = r.was /\ n2.disturbed = r.disturbed
    BY <1>1, <1>3, <1>6, RequestStates
  <2> HIDE DEF n2
  <2>3. ReqTyped(n2)
    BY <1>1, <1>2, <1>3, <1>6, <2>2 DEF ReqTyped
  <2> QED BY <1>1, <1>2, <1>6, <2>1, <2>2, <2>3 DEF S, Becomes, ReqBecomes, Keeps
<1> QED BY <1>2, <1>3, <1>4, <1>5, <1>6

(* Insertion: the identity of the new row is in range, as it was counted.  *)
LEMMA InsertDoes ==
    ASSUME AggTyped, BornCounted, NEW th \in Worker, Aggregators!Insert(th)
    PROVE  LET r == aggReq[th] IN
           /\ r.at = "write" /\ r.op = "create"
           /\ \/ /\ born' = born + 1 /\ born + 1 \in Agg /\ lost' = lost
                 /\ agg' = [agg EXCEPT ![born + 1] = [there |-> TRUE, default |-> r.to]]
                 /\ agg' \in [Agg -> Row] /\ Aggregators!EndAs(th, r.disturbed)
              \/ UNCHANGED <<agg, born>> /\ Aggregators!Lose /\ Aggregators!EndAs(th, TRUE)
<1> DEFINE r == aggReq[th]
           row == [there |-> TRUE, default |-> r.to]
<1>1. /\ r.at = "write" /\ r.op = "create"
      /\ \/ /\ born' = born + 1 /\ lost' = lost
            /\ agg' = [agg EXCEPT ![born + 1] = row]
            /\ Aggregators!EndAs(th, r.disturbed)
         \/ UNCHANGED <<agg, born>> /\ Aggregators!Lose /\ Aggregators!EndAs(th, TRUE)
  BY Zenon DEF Aggregators!Insert, Aggregators!At, Aggregators!End
<1>2. th \in Aggregators!Creating /\ Aggregators!Creating \subseteq Worker
  BY <1>1 DEF Aggregators!Creating
<1>3. Cardinality(Aggregators!Creating) \in Nat \ {0}
  <2>1. IsFiniteSet(Aggregators!Creating)
    BY <1>2, RowsAssumption, FS_Subset
  <2> QED BY <1>2, <2>1, FS_EmptySet, FS_CardinalityType
<1>4. born + 1 \in Agg
  BY <1>3, RowBounds DEF BornCounted, AggTyped, Agg, Aggregators!Agg
<1>5. row \in Row /\ agg \in [Agg -> Row]
  BY RequestStates DEF AggTyped, Row, Aggregators!Row
<1>6. [agg EXCEPT ![born + 1] = row] \in [Agg -> Row]
  BY <1>5
<1> QED BY <1>1, <1>4, <1>6

LEMMA SetDoes ==
    ASSUME AggTyped, NEW th \in Worker, Aggregators!Set(th)
    PROVE  LET r == aggReq[th] IN
           /\ r.at = "write" /\ r.op # "create" /\ born' = born
           /\ r.on \in Agg /\ r.on \in DOMAIN r.seen /\ r.seen[r.on] \in Row
           /\ \/ /\ Aggregators!EndAs(th, r.disturbed) /\ lost' = lost /\ agg' \in [Agg -> Row]
                 /\ \A b \in Agg \ {r.on} : agg'[b] = agg[b]
                 /\ agg'[r.on].there = agg[r.on].there
                 /\ agg[r.on].there =>
                      agg'[r.on].default =
                        LET d == r.to \/ r.op = "delete" IN
                        (IF d # r.seen[r.on].default THEN d ELSE agg[r.on].default)
              \/ agg' = agg /\ Aggregators!Lose /\ Aggregators!EndAs(th, TRUE)
<1> DEFINE r == aggReq[th]
           a == r.on
           read == r.seen[a]
           d == r.to \/ r.op = "delete"
           new == [read EXCEPT !.default = d]
           set == Aggregators!Flush(agg[a], read, new)
<1>1. /\ r.at = "write" /\ r.op # "create" /\ born' = born
      /\ \/ /\ agg' = IF agg[a].there THEN [agg EXCEPT ![a] = set] ELSE agg
            /\ lost' = lost /\ Aggregators!EndAs(th, r.disturbed)
         \/ agg' = agg /\ Aggregators!Lose /\ Aggregators!EndAs(th, TRUE)
  BY Zenon DEF Aggregators!Set, Aggregators!At, Aggregators!End
<1>2. /\ aggReq \in [Worker -> Aggregators!RequestState] /\ agg \in [Agg -> Row]
      /\ ReqTyped(r) /\ r \in Aggregators!RequestState /\ r.seen \in Seeing
  BY RequestStates DEF AggTyped
<1>3. a \in DOMAIN r.seen
  BY <1>1, <1>2 DEF ReqTyped
<1>4. a \in Agg /\ read \in Row /\ agg[a] \in Row
  BY <1>2, <1>3, SeeingHolds
<1>5. d \in BOOLEAN
  BY Zenon
<1> HIDE DEF d
<1>6. new \in Row /\ new.there = read.there /\ new.default = d
  BY <1>4, <1>5, DefaultOf
<1> HIDE DEF new
<1> HIDE DEF read
<1>7. /\ set \in Row
      /\ set.there = IF new.there # read.there THEN new.there ELSE agg[a].there
      /\ set.default = IF new.default # read.default THEN new.default ELSE agg[a].default
  BY <1>4, <1>6, AggFlush
<1> HIDE DEF set
<1>8. set.there = agg[a].there /\ set.default = IF d # read.default THEN d ELSE agg[a].default
  BY <1>6, <1>7
<1>9. CASE agg[a].there /\ agg' = [agg EXCEPT ![a] = set]
  <2>1. agg' \in [Agg -> Row] /\ agg'[a] = set /\ \A b \in Agg \ {a} : agg'[b] = agg[b]
    BY <1>2, <1>4, <1>7, <1>9
  <2> QED BY <1>1, <1>3, <1>4, <1>8, <2>1 DEF d, read
<1>10. CASE ~agg[a].there /\ agg' = agg
  BY <1>1, <1>2, <1>3, <1>4, <1>10 DEF read
<1>11. CASE agg' = agg /\ Aggregators!Lose /\ Aggregators!EndAs(th, TRUE)
  BY <1>1, <1>3, <1>4, <1>11 DEF read
<1> QED BY <1>1, <1>9, <1>10, <1>11

LEMMA DeleteDoes ==
    ASSUME AggTyped, NEW th \in Worker, Aggregators!Delete(th)
    PROVE  LET r == aggReq[th]
               n == aggReq'[th]
           IN  /\ r.at = "delete" /\ born' = born
               /\ \/ /\ lost' = lost /\ agg' = [agg EXCEPT ![r.on] = Aggregators!Gone]
                     /\ agg' \in [Agg -> Row]
                     /\ \/ ~r.was /\ Aggregators!EndAs(th, r.disturbed)
                        \/ /\ r.was /\ clean' = clean /\ Becomes(th, n) /\ n.at = "remaining"
                           /\ n.seen = Aggregators!Unread
                           /\ Keeps(r, n) /\ n.on = r.on /\ n.disturbed = r.disturbed
                  \/ agg' = agg /\ Aggregators!Lose /\ Aggregators!EndAs(th, TRUE)
<1> DEFINE r == aggReq[th]
           n1 == [[r EXCEPT !.at = "remaining"] EXCEPT !.seen = Aggregators!Unread]
<1>1. /\ r.at = "delete" /\ born' = born
      /\ \/ /\ agg' = [agg EXCEPT ![r.on] = Aggregators!Gone] /\ lost' = lost
            /\ \/ ~r.was /\ Aggregators!EndAs(th, r.disturbed)
               \/ /\ r.was /\ clean' = clean
                  /\ aggReq' = [aggReq EXCEPT ![th].at = "remaining", ![th].seen = Aggregators!Unread]
         \/ agg' = agg /\ Aggregators!Lose /\ Aggregators!EndAs(th, TRUE)
  BY Zenon DEF Aggregators!Delete, Aggregators!At, Aggregators!End, Aggregators!Promotes
<1>2. /\ aggReq \in [Worker -> Aggregators!RequestState] /\ agg \in [Agg -> Row]
      /\ ReqTyped(r) /\ r \in Aggregators!RequestState
  BY DEF AggTyped
<1>3. [agg EXCEPT ![r.on] = Aggregators!Gone] \in [Agg -> Row]
  BY <1>2, RequestStates
<1>4. CASE aggReq' = [aggReq EXCEPT ![th].at = "remaining", ![th].seen = Aggregators!Unread]
  <2>1. aggReq' = [aggReq EXCEPT ![th] = n1] /\ aggReq'[th] = n1
    BY <1>2, <1>4
  <2>2. /\ n1 \in Aggregators!RequestState
        /\ n1.at = "remaining" /\ n1.seen = Aggregators!Unread /\ n1.on = r.on
        /\ n1.op = r.op /\ n1.to = r.to /\ n1.was = r.was /\ n1.disturbed = r.disturbed
    BY <1>2, RequestStates, SmallSessions
  <2> HIDE DEF n1
  <2>3. ReqTyped(n1)
    BY <1>1, <1>2, <2>2 DEF ReqTyped
  <2>4. Becomes(th, n1) /\ Keeps(r, n1)
    BY <2>1, <2>2, <2>3 DEF Becomes, ReqBecomes, Keeps
  <2> QED BY <1>1, <1>3, <2>1, <2>2, <2>4
<1> QED BY <1>1, <1>3, <1>4

LEMMA RemainingDoes ==
    ASSUME AggTyped, NEW th \in Worker, Aggregators!Remaining(th)
    PROVE  LET r == aggReq[th]
               n == aggReq'[th]
           IN  /\ r.at = "remaining" /\ UNCHANGED <<agg, born, lost>>
               /\ \/ There = {} /\ Aggregators!EndAs(th, r.disturbed)
                  \/ /\ There # {} /\ clean' = clean /\ Becomes(th, n) /\ n.at = "write"
                     /\ n.on \in There /\ n.seen = Aggregators!Seen(r, There)
                     /\ Keeps(r, n) /\ n.disturbed = r.disturbed
<1> DEFINE r == aggReq[th]
           on == Aggregators!Newest(There)
           S == Aggregators!Seen(r, There)
           n1 == [[[r EXCEPT !.at = "write"] EXCEPT !.on = on] EXCEPT !.seen = S]
<1>1. /\ r.at = "remaining" /\ UNCHANGED <<agg, born, lost>>
      /\ \/ There = {} /\ Aggregators!EndAs(th, r.disturbed)
         \/ /\ There # {} /\ clean' = clean
            /\ aggReq' = [aggReq EXCEPT ![th].at = "write", ![th].on = on, ![th].seen = S]
  BY Zenon DEF Aggregators!Remaining, Aggregators!At, Aggregators!End, There
<1>2. /\ aggReq \in [Worker -> Aggregators!RequestState] /\ agg \in [Agg -> Row]
      /\ ReqTyped(r) /\ r \in Aggregators!RequestState /\ r.seen \in Seeing
  BY RequestStates DEF AggTyped
<1>3. There # {} => on \in There
  BY ThereIsAgg, NewestIsOne
<1>4. S \in Seeing /\ DOMAIN S = DOMAIN r.seen \cup There
  BY <1>2, ThereIsAgg, SeenTyped
<1> HIDE DEF S
<1> HIDE DEF on
<1>5. CASE /\ There # {} /\ clean' = clean
           /\ aggReq' = [aggReq EXCEPT ![th].at = "write", ![th].on = on, ![th].seen = S]
  <2>1. aggReq' = [aggReq EXCEPT ![th] = n1] /\ aggReq'[th] = n1
    BY <1>2, <1>5
  <2>2. on \in Agg /\ on \in There
    BY <1>3, <1>5, ThereIsAgg
  <2>3. /\ n1 \in Aggregators!RequestState
        /\ n1.at = "write" /\ n1.seen = S /\ n1.on = on
        /\ n1.op = r.op /\ n1.to = r.to /\ n1.was = r.was /\ n1.disturbed = r.disturbed
    BY <1>2, <1>4, <2>2, RequestStates
  <2> HIDE DEF n1
  <2>4. ReqTyped(n1)
    BY <1>1, <1>2, <1>4, <2>2, <2>3 DEF ReqTyped
  <2> QED BY <1>1, <1>5, <2>1, <2>2, <2>3, <2>4 DEF Becomes, ReqBecomes, Keeps, S
<1> QED BY <1>1, <1>5

LEMMA LoseTyped ==
    ASSUME AggTyped, Aggregators!Lose \/ lost' = lost
    PROVE  lost' \in 0..MaxLost
BY RowBounds DEF AggTyped, Aggregators!Lose

LEMMA AbortDoes ==
    ASSUME NEW th \in Worker, Aggregators!Abort(th)
    PROVE  /\ aggReq[th].at \in {"list", "look", "remaining"} /\ UNCHANGED <<agg, born>>
           /\ Aggregators!Lose /\ Aggregators!EndAs(th, TRUE)
BY Zenon DEF Aggregators!Abort

(* What all of them have in common.                                        *)
LEMMA AggStepDoes ==
    ASSUME AggTyped, BornCounted, NEW th \in Worker, AggStep(th)
    PROVE  LET r == aggReq[th]
               n == aggReq'[th]
           IN  /\ ReqTyped(n) /\ ReqBecomes(th, n) /\ r.at # "idle"
               /\ n.op = r.op \/ n.op = "none"
               /\ agg' \in [Agg -> Row] /\ lost' \in 0..MaxLost /\ clean' \in BOOLEAN
               /\ \/ born' = born
                  \/ born' = born + 1 /\ born + 1 \in Agg /\ r.op = "create" /\ n.op = "none"
<1> DEFINE r == aggReq[th]
           n == aggReq'[th]
<1>1. /\ aggReq \in [Worker -> Aggregators!RequestState] /\ ReqTyped(r)
      /\ agg \in [Agg -> Row] /\ clean \in BOOLEAN /\ lost \in 0..MaxLost
      /\ r.disturbed \in BOOLEAN
  BY RequestStates DEF AggTyped
<1>2. ASSUME NEW d \in BOOLEAN, Aggregators!EndAs(th, d)
      PROVE  /\ ReqTyped(n) /\ ReqBecomes(th, n) /\ n.op = "none" /\ clean' \in BOOLEAN
  <2>1. ReqBecomes(th, Aggregators!Idle) /\ ReqTyped(Aggregators!Idle) /\ clean' \in BOOLEAN
    BY <1>2, EndsTyped
  <2>2. n = Aggregators!Idle
    BY <1>1, <2>1 DEF ReqBecomes
  <2> QED BY <2>1, <2>2 DEF Aggregators!Idle
<1>3. CASE Aggregators!List(th)
  BY <1>1, <1>3, ListDoes DEF Becomes
<1>4. CASE Aggregators!Look(th)
  BY <1>1, <1>2, <1>4, LookDoes DEF Becomes, Keeps
<1>5. CASE Aggregators!Unset(th)
  BY <1>1, <1>5, UnsetDoes DEF Becomes, Keeps
<1>6. CASE Aggregators!Find(th)
  BY <1>1, <1>2, <1>6, FindDoes DEF Becomes, Keeps
<1>7. CASE Aggregators!Insert(th)
  BY <1>1, <1>2, <1>7, InsertDoes, LoseTyped
<1>8. CASE Aggregators!Set(th)
  BY <1>1, <1>2, <1>8, SetDoes, LoseTyped
<1>9. CASE Aggregators!Delete(th)
  BY <1>1, <1>2, <1>9, DeleteDoes, LoseTyped DEF Becomes, Keeps
<1>10. CASE Aggregators!Remaining(th)
  BY <1>1, <1>2, <1>10, RemainingDoes DEF Becomes, Keeps
<1>11. CASE Aggregators!Abort(th)
  BY <1>1, <1>2, <1>11, AbortDoes, LoseTyped
<1> QED BY <1>3, <1>4, <1>5, <1>6, <1>7, <1>8, <1>9, <1>10, <1>11 DEF AggStep

LEMMA CreatingFinite ==
    /\ Aggregators!Creating = {th \in Worker : aggReq[th].op = "create"}
    /\ IsFiniteSet(Aggregators!Creating) /\ Cardinality(Aggregators!Creating) \in Nat
<1>1. Aggregators!Creating = {th \in Worker : aggReq[th].op = "create"}
  BY DEF Aggregators!Creating
<1>2. IsFiniteSet(Aggregators!Creating)
  BY <1>1, RowsAssumption, FS_Subset
<1> QED BY <1>1, <1>2, FS_CardinalityType

LEMMA AggStepCounted ==
    ASSUME AggTyped, BornCounted, NEW th \in Worker, AggStep(th)
    PROVE  AggTyped' /\ BornCounted'
<1> DEFINE r == aggReq[th]
           n == aggReq'[th]
           C == Aggregators!Creating
<1>1. /\ ReqTyped(n) /\ aggReq' = [aggReq EXCEPT ![th] = n] /\ n.op \in {r.op, "none"}
      /\ agg' \in [Agg -> Row] /\ lost' \in 0..MaxLost /\ clean' \in BOOLEAN
      /\ \/ born' = born
         \/ born' = born + 1 /\ born + 1 \in Agg /\ r.op = "create" /\ n.op = "none"
  BY AggStepDoes DEF ReqBecomes
<1>2. aggReq \in [Worker -> Aggregators!RequestState] /\ \A u \in Worker : ReqTyped(aggReq[u])
  BY DEF AggTyped
<1>3. \A u \in Worker \ {th} : aggReq'[u] = aggReq[u]
  BY <1>1, <1>2
<1>4. born \in Nat /\ born \in 0..MaxAgg /\ MaxAgg \in Nat
  BY RowBounds DEF AggTyped
<1>5. born' \in 0..MaxAgg
  BY <1>1, <1>4 DEF Agg, Aggregators!Agg
<1>6. aggReq' \in [Worker -> Aggregators!RequestState]
  BY <1>1, <1>2 DEF ReqTyped
<1>7. AggTyped'
  BY <1>1, <1>2, <1>3, <1>5, <1>6 DEF AggTyped
<1>8. C' = C \/ (th \in C /\ C' = C \ {th} /\ n.op # "create")
  <2>1. C = {u \in Worker : aggReq[u].op = "create"} /\ C' = {u \in Worker : aggReq'[u].op = "create"}
    BY DEF Aggregators!Creating
  <2> HIDE DEF C
  <2> QED BY <1>1, <1>3, <2>1
<1>9. r.op = "create" => th \in C
  BY DEF Aggregators!Creating
<1>10. n.op = "none" => th \notin C'
  BY DEF Aggregators!Creating
<1>11. IsFiniteSet(C) /\ Cardinality(C) \in Nat
  BY CreatingFinite
<1> HIDE DEF C
<1>12. \/ C' = C /\ Cardinality(C') = Cardinality(C) /\ born' = born
       \/ C' = C \ {th} /\ th \in C /\ Cardinality(C') = Cardinality(C) - 1
  <2>1. th \in C => Cardinality(C \ {th}) = Cardinality(C) - 1
    BY <1>11, FS_RemoveElement
  <2>2. CASE C' = C
    <3>1. born' = born
      BY <1>1, <1>9, <1>10, <2>2
    <3> QED BY <2>2, <3>1
  <2> QED BY <1>8, <2>1, <2>2
<1>13. born + Cardinality(C) <= MaxAgg
  BY DEF BornCounted, C
<1>14. born' + Cardinality(C') <= MaxAgg
  BY <1>1, <1>4, <1>11, <1>12, <1>13
<1> QED BY <1>7, <1>14 DEF BornCounted, C

(* A request that begins: r as it asks, and who is disturbed by it.        *)
LikeBut(n, r) ==
    /\ n \in Aggregators!RequestState
    /\ n.at = r.at /\ n.op = r.op /\ n.on = r.on /\ n.to = r.to /\ n.seen = r.seen
    /\ n.todo = r.todo /\ n.was = r.was

LEMMA LikeIsTyped ==
    ASSUME NEW r, NEW n, ReqTyped(r), LikeBut(n, r)
    PROVE  ReqTyped(n)
BY DEF LikeBut, ReqTyped

LEMMA BeginDoes ==
    ASSUME AggTyped, NEW th \in Worker, NEW r \in Aggregators!RequestState,
           Aggregators!Begin(th, r)
    PROVE  /\ UNCHANGED <<agg, born, lost, clean>> /\ aggReq[th].at = "idle"
           /\ LikeBut(aggReq'[th], r)
           /\ \A u \in Worker \ {th} : LikeBut(aggReq'[u], aggReq[u])
           /\ \A u \in Worker \ {th} :
                aggReq[u].at # "idle" => aggReq'[u].disturbed /\ aggReq'[th].disturbed
           /\ aggReq' \in [Worker -> Aggregators!RequestState]
<1> DEFINE others == {u \in Worker \ {th} : aggReq[u].at # "idle"}
           d == others # {}
           n == [r EXCEPT !.disturbed = d]
<1>1. /\ UNCHANGED <<agg, born, lost, clean>> /\ aggReq[th].at = "idle"
      /\ aggReq' = [u \in Worker |-> IF u = th THEN n
                                     ELSE IF u \in others THEN [aggReq[u] EXCEPT !.disturbed = TRUE]
                                     ELSE aggReq[u]]
  BY Zenon DEF Aggregators!Begin, Aggregators!At
<1>2. aggReq \in [Worker -> Aggregators!RequestState]
  BY DEF AggTyped
<1>3. d \in BOOLEAN
  BY Zenon
<1>4. \A u \in Worker \ {th} : aggReq[u].at # "idle" => d
  BY Zenon
<1>5. \A u \in Worker : u \in others <=> u # th /\ aggReq[u].at # "idle"
  OBVIOUS
<1> HIDE DEF d
<1>6. LikeBut(n, r) /\ n.disturbed = d
  BY <1>3, RequestStates DEF LikeBut
<1>7. ASSUME NEW u \in Worker
      PROVE  /\ LikeBut([aggReq[u] EXCEPT !.disturbed = TRUE], aggReq[u])
             /\ [aggReq[u] EXCEPT !.disturbed = TRUE].disturbed
             /\ LikeBut(aggReq[u], aggReq[u])
  BY <1>2, RequestStates DEF LikeBut
<1> HIDE DEF n, others
<1>8. aggReq'[th] = n
  BY <1>1
<1>9. ASSUME NEW u \in Worker \ {th}
      PROVE  /\ LikeBut(aggReq'[u], aggReq[u])
             /\ aggReq[u].at # "idle" => aggReq'[u].disturbed
  BY <1>1, <1>5, <1>7
<1>10. aggReq' \in [Worker -> Aggregators!RequestState]
  <2>1. \A u \in Worker : aggReq'[u] \in Aggregators!RequestState
    BY <1>6, <1>8, <1>9 DEF LikeBut
  <2> QED BY <1>1, <2>1
<1> QED BY <1>1, <1>4, <1>6, <1>8, <1>9, <1>10

(* What is asked: the handlers of one aggregator have read it.             *)
Asked(r) ==
    /\ ReqTyped(r) /\ r.at # "idle"
    /\ \/ r.op = "create" /\ r.at = "list" /\ r.on = 0 /\ DOMAIN r.seen = {}
       \/ /\ r.op # "create" /\ r.on \in Agg /\ agg[r.on].there
          /\ DOMAIN r.seen = {r.on} /\ r.seen[r.on] = agg[r.on] /\ r.was = agg[r.on].default
          /\ \/ r.op = "update" /\ r.at = (IF r.to THEN "list" ELSE "write")
             \/ r.op = "set" /\ r.at = "list" /\ r.to
             \/ r.op = "delete" /\ r.at = "delete" /\ ~r.to

LEMMA ReadAsks ==
    ASSUME AggTyped, NEW a \in Agg, NEW to \in BOOLEAN, agg[a].there, NEW op, NEW place,
           \/ op = "update" /\ place = (IF to THEN "list" ELSE "write")
           \/ op = "set" /\ place = "list" /\ to
           \/ op = "delete" /\ place = "delete" /\ ~to
    PROVE  Asked(Aggregators!Read(op, a, to, place))
<1> DEFINE seen == [b \in {a} |-> agg[b]]
           n == [[[[[[Aggregators!Idle EXCEPT !.at = place] EXCEPT !.op = op] EXCEPT !.on = a]
                    EXCEPT !.to = to] EXCEPT !.seen = seen] EXCEPT !.was = agg[a].default]
<1>1. Aggregators!Read(op, a, to, place) = n
  BY DEF Aggregators!Read
<1>2. agg[a] \in Row /\ agg[a].default \in BOOLEAN
  BY DEF AggTyped, Row, Aggregators!Row
<1>3. seen \in Seeing /\ DOMAIN seen = {a} /\ seen[a] = agg[a]
  <2>1. seen \in [{a} -> Row]
    BY <1>2
  <2>2. {a} \in SUBSET Agg
    OBVIOUS
  <2> HIDE DEF seen
  <2>3. seen \in Seeing
    BY <2>1, <2>2, HoldsSeeing
  <2> QED BY <2>3 DEF seen
<1> HIDE DEF seen
<1>4. /\ n \in Aggregators!RequestState
      /\ n.at = place /\ n.op = op /\ n.on = a /\ n.to = to /\ n.seen = seen
      /\ n.was = agg[a].default
  BY <1>2, <1>3, RequestStates
<1> HIDE DEF n
<1>5. ReqTyped(n)
  BY <1>3, <1>4 DEF ReqTyped
<1> QED BY <1>1, <1>3, <1>4, <1>5 DEF Asked

LEMMA RequestAsks ==
    ASSUME AggTyped, NEW th \in Worker, Aggregators!Request(th)
    PROVE  \E r : /\ Aggregators!Begin(th, r) /\ Asked(r)
                  /\ r.op = "create" => born + Cardinality(Aggregators!Creating) < MaxAgg
<1>1. ASSUME NEW d \in BOOLEAN, Aggregators!CreateAggregator(th, d)
      PROVE  \E r : /\ Aggregators!Begin(th, r) /\ Asked(r)
                    /\ r.op = "create" => born + Cardinality(Aggregators!Creating) < MaxAgg
  <2> DEFINE r == [[[Aggregators!Idle EXCEPT !.at = "list"] EXCEPT !.op = "create"] EXCEPT !.to = d]
  <2>1. Aggregators!Begin(th, r) /\ born + Cardinality(Aggregators!Creating) < MaxAgg
    BY <1>1, SameCardinalityHere DEF Aggregators!CreateAggregator
  <2>2. /\ r \in Aggregators!RequestState /\ r.at = "list" /\ r.op = "create" /\ r.to = d
        /\ r.on = Aggregators!Idle.on /\ r.seen = Aggregators!Idle.seen
    BY RequestStates
  <2>3. Aggregators!Idle.on = 0 /\ DOMAIN Aggregators!Idle.seen = {}
    BY SmallSessions DEF Aggregators!Idle
  <2> HIDE DEF r
  <2>4. Asked(r)
    BY <2>2, <2>3 DEF Asked, ReqTyped
  <2> QED BY <2>1, <2>4
<1>2. ASSUME NEW a \in Agg, NEW d \in BOOLEAN, Aggregators!UpdateAggregator(th, a, d)
      PROVE  \E r : Aggregators!Begin(th, r) /\ Asked(r) /\ r.op # "create"
  <2> DEFINE r == Aggregators!Read("update", a, d, IF d THEN "list" ELSE "write")
  <2>1. Aggregators!Begin(th, r) /\ agg[a].there
    BY <1>2 DEF Aggregators!UpdateAggregator
  <2>2. Asked(r)
    BY <2>1, ReadAsks
  <2>3. r.op = "update"
    BY DEF Aggregators!Read, Aggregators!Idle
  <2> QED BY <2>1, <2>2, <2>3
<1>3. ASSUME NEW a \in Agg, Aggregators!SetDefaultAggregator(th, a)
      PROVE  \E r : Aggregators!Begin(th, r) /\ Asked(r) /\ r.op # "create"
  <2> DEFINE r == Aggregators!Read("set", a, TRUE, "list")
  <2>1. Aggregators!Begin(th, r) /\ agg[a].there
    BY <1>3 DEF Aggregators!SetDefaultAggregator
  <2>2. Asked(r)
    BY <2>1, ReadAsks
  <2>3. r.op = "set"
    BY DEF Aggregators!Read, Aggregators!Idle
  <2> QED BY <2>1, <2>2, <2>3
<1>4. ASSUME NEW a \in Agg, Aggregators!DeleteAggregator(th, a)
      PROVE  \E r : Aggregators!Begin(th, r) /\ Asked(r) /\ r.op # "create"
  <2> DEFINE r == Aggregators!Read("delete", a, FALSE, "delete")
  <2>1. Aggregators!Begin(th, r) /\ agg[a].there
    BY <1>4 DEF Aggregators!DeleteAggregator
  <2>2. Asked(r)
    BY <2>1, ReadAsks
  <2>3. r.op = "delete"
    BY DEF Aggregators!Read, Aggregators!Idle
  <2> QED BY <2>1, <2>2, <2>3
<1> QED BY <1>1, <1>2, <1>3, <1>4, Zenon DEF Aggregators!Request, Agg

LEMMA RequestCounted ==
    ASSUME AggTyped, BornCounted, NEW th \in Worker, Aggregators!Request(th)
    PROVE  AggTyped' /\ BornCounted'
<1> DEFINE C == Aggregators!Creating
<1>1. PICK r : /\ Aggregators!Begin(th, r) /\ Asked(r)
               /\ r.op = "create" => born + Cardinality(Aggregators!Creating) < MaxAgg
  BY RequestAsks
<1>2. ReqTyped(r) /\ r \in Aggregators!RequestState
  BY <1>1 DEF Asked, ReqTyped
<1>3. /\ UNCHANGED <<agg, born, lost, clean>> /\ aggReq[th].at = "idle"
      /\ LikeBut(aggReq'[th], r) /\ \A u \in Worker \ {th} : LikeBut(aggReq'[u], aggReq[u])
      /\ aggReq' \in [Worker -> Aggregators!RequestState]
  BY <1>1, <1>2, BeginDoes
<1>4. \A u \in Worker : ReqTyped(aggReq'[u])
  BY <1>2, <1>3, LikeIsTyped DEF AggTyped
<1>5. AggTyped'
  BY <1>3, <1>4 DEF AggTyped
<1>6. C = {u \in Worker : aggReq[u].op = "create"} /\ C' = {u \in Worker : aggReq'[u].op = "create"}
  BY DEF Aggregators!Creating
<1>7. IsFiniteSet(C) /\ Cardinality(C) \in Nat
  BY CreatingFinite
<1> HIDE DEF C
<1>8. th \notin C
  BY <1>3, <1>6 DEF AggTyped, ReqTyped
<1>9. /\ r.op = "create" => C' = C \cup {th}
      /\ r.op # "create" => C' = C
  BY <1>3, <1>6, <1>8 DEF LikeBut
<1>10. Cardinality(C \cup {th}) = Cardinality(C) + 1
  BY <1>7, <1>8, FS_AddElement
<1>11. born + Cardinality(C) <= MaxAgg /\ born \in Nat /\ MaxAgg \in Nat
  BY RowBounds DEF BornCounted, C, AggTyped
<1>12. born' + Cardinality(C') <= MaxAgg
  <2>1. r.op = "create" => born + Cardinality(C) < MaxAgg
    BY <1>1 DEF C
  <2> QED BY <1>3, <1>7, <1>9, <1>10, <1>11, <2>1
<1> QED BY <1>5, <1>12 DEF BornCounted, C

-----------------------------------------------------------------------------
(* One default.                                                            *)

(* A disturbed request stays so, and so does what it leaves behind.        *)
LEMMA DisturbedStays ==
    ASSUME AggTyped, BornCounted, NEW th \in Worker, AggStep(th), aggReq[th].disturbed
    PROVE  IF aggReq'[th].at = "idle" THEN ~clean' ELSE aggReq'[th].disturbed
<1> DEFINE r == aggReq[th]
           n == aggReq'[th]
<1>1. ASSUME NEW d \in BOOLEAN, d, Aggregators!EndAs(th, d) PROVE n.at = "idle" /\ ~clean'
  <2>1. n = Aggregators!Idle
    BY <1>1 DEF Aggregators!EndAs, AggTyped
  <2> QED BY <1>1, <2>1 DEF Aggregators!EndAs, Aggregators!Idle
<1>2. r.disturbed \in BOOLEAN /\ r.disturbed
  BY RequestStates DEF AggTyped
<1>3. CASE Aggregators!List(th)
  BY <1>2, <1>3, ListDoes
<1>4. CASE Aggregators!Look(th)
  BY <1>1, <1>2, <1>4, LookDoes
<1>5. CASE Aggregators!Unset(th)
  BY <1>2, <1>5, UnsetDoes
<1>6. CASE Aggregators!Find(th)
  BY <1>1, <1>2, <1>6, FindDoes
<1>7. CASE Aggregators!Insert(th)
  BY <1>1, <1>2, <1>7, InsertDoes
<1>8. CASE Aggregators!Set(th)
  BY <1>1, <1>2, <1>8, SetDoes
<1>9. CASE Aggregators!Delete(th)
  BY <1>1, <1>2, <1>9, DeleteDoes
<1>10. CASE Aggregators!Remaining(th)
  BY <1>1, <1>2, <1>10, RemainingDoes
<1>11. CASE Aggregators!Abort(th)
  BY <1>1, <1>11, AbortDoes
<1> QED BY <1>3, <1>4, <1>5, <1>6, <1>7, <1>8, <1>9, <1>10, <1>11 DEF AggStep

(* What an undisturbed request leaves behind when it ends.                 *)
LEMMA EndLeaves ==
    ASSUME AggTyped, NEW th \in Worker, NEW d \in BOOLEAN, Aggregators!EndAs(th, d)
    PROVE  /\ aggReq'[th].at = "idle"
           /\ d => ~clean'
           /\ clean' => aggReq[th].to \/ (clean /\ ~(aggReq[th].op = "update" /\ aggReq[th].was))
<1>1. aggReq'[th] = Aggregators!Idle
  BY DEF Aggregators!EndAs, AggTyped
<1> QED BY <1>1 DEF Aggregators!EndAs, Aggregators!Idle

(* The obligation of a step of an undisturbed request.                     *)
Progresses(th) ==
    IF aggReq'[th].at = "idle" THEN OneUnlessDisturbed'
    ELSE aggReq'[th].disturbed \/ Stage(th)'

LEMMA SeenFresh ==
    ASSUME AggTyped, NEW th \in Worker, Stage(th), NEW S \in SUBSET Agg
    PROVE  LET f == Aggregators!Seen(aggReq[th], S) IN
           DOMAIN f = DOMAIN aggReq[th].seen \cup S /\ \A a \in DOMAIN f : f[a] = agg[a]
<1> DEFINE r == aggReq[th]
           f == Aggregators!Seen(r, S)
<1>1. r.seen \in Seeing /\ agg \in [Agg -> Row]
  BY RequestStates DEF AggTyped
<1>2. \A a \in DOMAIN r.seen : r.seen[a] = agg[a]
  BY DEF Stage
<1>3. /\ DOMAIN f = DOMAIN r.seen \cup S
      /\ \A a \in DOMAIN r.seen : f[a] = r.seen[a]
      /\ \A a \in S \ DOMAIN r.seen : f[a] = agg[a]
  BY <1>1, SeenTyped
<1> HIDE DEF f
<1> QED BY <1>2, <1>3 DEF f

LEMMA ListProgresses ==
    ASSUME AggTyped, NEW th \in Worker, Stage(th), Aggregators!List(th)
    PROVE  Progresses(th)
<1> DEFINE r == aggReq[th]
           n == aggReq'[th]
           to == r.to \/ There = {}
<1>1. /\ UNCHANGED <<agg, clean>> /\ r.at = "list"
      /\ n.at = (IF to THEN "look" ELSE "write") /\ n.to = to /\ n.todo = There
      /\ n.seen = Aggregators!Seen(r, There)
      /\ n.op = r.op /\ n.on = r.on /\ n.was = r.was
  BY ListDoes
<1>2. r.seen \in Seeing /\ agg \in [Agg -> Row] /\ r.op # "none"
  BY <1>1, RequestStates DEF AggTyped, ReqTyped
<1>3. \A a \in DOMAIN n.seen : n.seen[a] = agg[a]
  <2>1. There \in SUBSET Agg
    BY ThereIsAgg
  <2>2. \A a \in DOMAIN Aggregators!Seen(r, There) : Aggregators!Seen(r, There)[a] = agg[a]
    BY <2>1, SeenFresh
  <2> QED BY <1>1, <2>2
<1>4. There' = There /\ Defaults' = Defaults /\ (OneUnlessDisturbed' <=> OneUnlessDisturbed)
  BY <1>1 DEF There, Defaults, Aggregators!There, Aggregators!Defaults, OneUnlessDisturbed
<1>5. /\ r.op # "delete" /\ (r.op # "create" => r.to) /\ OneUnlessDisturbed
      /\ r.op = "create" => r.on = 0
      /\ r.op \in {"update", "set"} => agg[r.on].there
  BY <1>1 DEF Stage
<1>6. Defaults \subseteq There
  BY ThereIsAgg
<1>7. to \in BOOLEAN /\ (r.to => to) /\ (~to => There # {})
  BY Zenon
<1> HIDE DEF to
<1>8. Stage(th)'
  BY <1>1, <1>3, <1>4, <1>5, <1>6, <1>7 DEF Stage
<1>9. n.at # "idle"
  BY <1>1
<1> QED BY <1>8, <1>9 DEF Progresses

LEMMA LookProgresses ==
    ASSUME AggTyped, NEW th \in Worker, Stage(th), Aggregators!Look(th)
    PROVE  Progresses(th)
<1> DEFINE r == aggReq[th]
           n == aggReq'[th]
           a == Aggregators!Newest(r.todo)
           S == Aggregators!Seen(r, {a})
<1>1. /\ UNCHANGED <<agg, born, lost>> /\ r.at = "look" /\ a \in r.todo /\ r.todo \subseteq Agg
      /\ \/ a \notin DOMAIN r.seen /\ ~agg[a].there /\ Aggregators!EndAs(th, r.disturbed)
         \/ /\ Becomes(th, n) /\ UNCHANGED clean
            /\ n.seen = S /\ Keeps(r, n) /\ n.on = r.on /\ n.disturbed = r.disturbed
            /\ \/ S[a].default /\ a # r.on /\ n.at = "unset" /\ n.todo = r.todo
               \/ ~(S[a].default /\ a # r.on) /\ n.at = "look" /\ n.todo = r.todo \ {a}
  BY LookDoes, Zenon
<1>2. /\ r.op # "delete" /\ r.to /\ Defaults \ {r.on} \subseteq r.todo /\ r.todo \subseteq There
      /\ r.op = "create" => r.on = 0
      /\ r.op \in {"update", "set"} => agg[r.on].there
  BY <1>1 DEF Stage
<1>3. {a} \in SUBSET Agg
  BY <1>1
<1>4. DOMAIN S = DOMAIN r.seen \cup {a} /\ \A b \in DOMAIN S : S[b] = agg[b]
  BY <1>3, SeenFresh
<1> HIDE DEF S, a
<1>5. There' = There /\ Defaults' = Defaults
  BY <1>1 DEF There, Defaults, Aggregators!There, Aggregators!Defaults
<1>6. agg[a].there /\ S[a] = agg[a]
  BY <1>1, <1>2, <1>4 DEF There, Aggregators!There
<1>7. (S[a].default /\ a # r.on) \/ (Defaults \ {r.on} \subseteq r.todo \ {a})
  BY <1>2, <1>6 DEF Defaults, Aggregators!Defaults
<1>8. Stage(th)' /\ n.at # "idle"
  BY <1>1, <1>2, <1>4, <1>5, <1>6, <1>7 DEF Stage, Keeps, a
<1> QED BY <1>8 DEF Progresses

(* Sets of aggregators in terms of the rows.                               *)
LEMMA SetsOf ==
    /\ There = {a \in Agg : agg[a].there}
    /\ Defaults = {a \in Agg : agg[a].there /\ agg[a].default}
BY DEF There, Defaults, Aggregators!There, Aggregators!Defaults, Agg

LEMMA SetsOfNext ==
    /\ There' = {a \in Agg : agg'[a].there}
    /\ Defaults' = {a \in Agg : agg'[a].there /\ agg'[a].default}
BY DEF There, Defaults, Aggregators!There, Aggregators!Defaults, Agg, Aggregators!Agg

LEMMA UnsetProgresses ==
    ASSUME AggTyped, NEW th \in Worker, Stage(th), Aggregators!Unset(th)
    PROVE  Progresses(th)
<1> DEFINE r == aggReq[th]
           n == aggReq'[th]
           a == Aggregators!Newest(r.todo)
<1>1. /\ UNCHANGED <<born, clean>> /\ r.at = "unset" /\ a \in r.todo /\ r.todo \subseteq Agg
      /\ a \in DOMAIN r.seen
      /\ Becomes(th, n) /\ n.at = "look" /\ n.todo = r.todo \ {a}
      /\ Keeps(r, n) /\ n.on = r.on
      /\ agg' \in [Agg -> Row] /\ lost' \in 0..MaxLost
      /\ \/ /\ \A b \in Agg \ {a} : agg'[b] = agg[b]
            /\ agg[a].there /\ agg'[a].there
            /\ agg'[a].default = (IF r.seen[a].default THEN FALSE ELSE agg[a].default)
            /\ n.seen = [b \in {a} |-> agg'[a]] /\ n.disturbed = r.disturbed
         \/ agg' = agg /\ n.disturbed
  BY UnsetDoes, Zenon
<1>2. /\ r.op # "delete" /\ r.to /\ Defaults \ {r.on} \subseteq r.todo /\ r.todo \subseteq There
      /\ r.op = "create" => r.on = 0
      /\ r.op \in {"update", "set"} => agg[r.on].there
      /\ r.seen[a] = agg[a]
  BY <1>1 DEF Stage
<1>3. agg[a] \in Row /\ agg[a].default \in BOOLEAN /\ r.on \in {0} \cup Agg
      /\ (r.op \in {"update", "set"} => r.on \in Agg)
  BY <1>1, RequestStates DEF AggTyped, ReqTyped, Row, Aggregators!Row
<1> HIDE DEF a
<1>4. CASE n.disturbed
  BY <1>1, <1>4 DEF Progresses
<1>5. CASE /\ \A b \in Agg \ {a} : agg'[b] = agg[b]
           /\ agg[a].there /\ agg'[a].there
           /\ agg'[a].default = (IF r.seen[a].default THEN FALSE ELSE agg[a].default)
           /\ n.seen = [b \in {a} |-> agg'[a]]
  <2>1. a \in Agg /\ ~agg'[a].default
    BY <1>1, <1>2, <1>3, <1>5
  <2>2. There' = There /\ Defaults' = Defaults \ {a}
    BY <1>5, <2>1, SetsOf, SetsOfNext
  <2>3. \A b \in Agg : agg'[b].there <=> agg[b].there
    BY <1>5
  <2>4. \A b \in DOMAIN n.seen : n.seen[b] = agg'[b]
    BY <1>5
  <2>5. Stage(th)'
    BY <1>1, <1>2, <1>3, <2>2, <2>3, <2>4 DEF Stage, Keeps
  <2> QED BY <1>1, <2>5 DEF Progresses
<1> QED BY <1>1, <1>4, <1>5

LEMMA FindProgresses ==
    ASSUME AggTyped, NEW th \in Worker, Stage(th), Aggregators!Find(th)
    PROVE  Progresses(th)
<1> DEFINE r == aggReq[th]
           n == aggReq'[th]
           S == Aggregators!Seen(r, {r.on})
<1>1. /\ UNCHANGED <<agg, born, lost>> /\ r.at = "look" /\ r.todo = {}
      /\ \/ /\ r.op # "create" /\ r.on \in Agg /\ r.on \notin DOMAIN r.seen /\ ~agg[r.on].there
            /\ Aggregators!EndAs(th, r.disturbed)
         \/ /\ Becomes(th, n) /\ UNCHANGED clean /\ n.at = "write"
            /\ n.seen = (IF r.op = "create" THEN r.seen ELSE S)
            /\ Keeps(r, n) /\ n.on = r.on /\ n.disturbed = r.disturbed
  BY FindDoes, Zenon
<1>2. /\ r.op # "delete" /\ r.to /\ Defaults \ {r.on} \subseteq r.todo
      /\ r.op = "create" => r.on = 0
      /\ r.op \in {"update", "set"} => agg[r.on].there
      /\ \A b \in DOMAIN r.seen : r.seen[b] = agg[b]
  BY <1>1 DEF Stage
<1>3. r.op \in {"create", "update", "set"} /\ (r.op # "create" => r.on \in Agg)
  BY <1>1, <1>2, RequestStates DEF AggTyped, ReqTyped
<1>4. r.op # "create" => \A b \in DOMAIN S : S[b] = agg[b]
  <2>1. r.op # "create" => {r.on} \in SUBSET Agg
    BY <1>3
  <2> HIDE DEF r
  <2> QED BY <2>1, SeenFresh DEF r
<1> HIDE DEF S
<1>5. There' = There /\ Defaults' = Defaults
  BY <1>1, SetsOf, SetsOfNext
<1>6. \A b \in DOMAIN n.seen : n.seen[b] = agg[b]
  BY <1>1, <1>2, <1>3, <1>4
<1>7. Stage(th)' /\ n.at = "write"
  BY <1>1, <1>2, <1>3, <1>5, <1>6 DEF Stage, Keeps
<1> QED BY <1>7 DEF Progresses

(* One default after the rows have changed.                                *)
LEMMA OneNow ==
    ASSUME NEW a \in There', Defaults' = {a}
    PROVE  OneUnlessDisturbed'
BY DEF OneUnlessDisturbed

LEMMA InsertProgresses ==
    ASSUME AggTyped, BornCounted, Dated, NEW th \in Worker, Stage(th), Aggregators!Insert(th)
    PROVE  Progresses(th)
<1> DEFINE r == aggReq[th]
           row == [there |-> TRUE, default |-> r.to]
<1>1. /\ r.at = "write" /\ r.op = "create"
      /\ \/ /\ born' = born + 1 /\ born + 1 \in Agg /\ lost' = lost
            /\ agg' = [agg EXCEPT ![born + 1] = row]
            /\ agg' \in [Agg -> Row] /\ Aggregators!EndAs(th, r.disturbed)
         \/ UNCHANGED <<agg, born>> /\ Aggregators!Lose /\ Aggregators!EndAs(th, TRUE)
  BY InsertDoes, Zenon
<1>2. /\ r.to => Defaults \subseteq {r.on}
      /\ ~r.to => There # {} /\ OneUnlessDisturbed
      /\ r.on = 0
  BY <1>1 DEF Stage
<1>3. r.to \in BOOLEAN /\ r.disturbed \in BOOLEAN /\ agg \in [Agg -> Row] /\ 0 \notin Agg
  BY RequestStates DEF AggTyped
<1>4. CASE Aggregators!EndAs(th, TRUE)
  BY <1>4, EndLeaves DEF Progresses, OneUnlessDisturbed
<1>5. CASE /\ born + 1 \in Agg /\ agg' = [agg EXCEPT ![born + 1] = row]
           /\ Aggregators!EndAs(th, r.disturbed)
  <2>1. aggReq'[th].at = "idle" /\ (clean' => r.to \/ clean)
    BY <1>3, <1>5, EndLeaves
  <2>2. /\ agg'[born + 1].there /\ agg'[born + 1].default = r.to
        /\ \A b \in Agg \ {born + 1} : agg'[b] = agg[b]
    BY <1>3, <1>5
  <2>3. CASE r.to
    <3>1. Defaults = {}
      BY <1>2, <1>3, <2>3, SetsOf
    <3>2. born + 1 \in There' /\ Defaults' = {born + 1}
      BY <1>5, <2>2, <2>3, <3>1, SetsOf, SetsOfNext
    <3> QED BY <2>1, <3>2, OneNow DEF Progresses
  <2>4. CASE ~r.to
    <3>1. SUFFICES ASSUME clean' PROVE \E a \in There' : Defaults' = {a}
      BY <2>1 DEF Progresses, OneUnlessDisturbed
    <3>2. PICK a \in There : Defaults = {a}
      BY <1>2, <2>1, <2>4, <3>1 DEF OneUnlessDisturbed
    <3>3. born + 1 \notin There /\ a # born + 1
      BY <1>5, <3>2, SetsOf DEF Dated, AggTyped
    <3>4. a \in There' /\ Defaults' = {a}
      BY <1>5, <2>2, <2>4, <3>2, <3>3, SetsOf, SetsOfNext
    <3> QED BY <3>4
  <2> QED BY <1>3, <2>3, <2>4
<1> QED BY <1>1, <1>4, <1>5

LEMMA SetProgresses ==
    ASSUME AggTyped, NEW th \in Worker, Stage(th), Aggregators!Set(th)
    PROVE  Progresses(th)
<1> DEFINE r == aggReq[th]
           d == r.to \/ r.op = "delete"
<1>1. /\ r.at = "write" /\ r.op # "create" /\ born' = born
      /\ r.on \in Agg /\ r.on \in DOMAIN r.seen /\ r.seen[r.on] \in Row
      /\ \/ /\ Aggregators!EndAs(th, r.disturbed) /\ lost' = lost /\ agg' \in [Agg -> Row]
            /\ \A b \in Agg \ {r.on} : agg'[b] = agg[b]
            /\ agg'[r.on].there = agg[r.on].there
            /\ agg[r.on].there =>
                 agg'[r.on].default =
                   (IF d # r.seen[r.on].default THEN d ELSE agg[r.on].default)
         \/ agg' = agg /\ Aggregators!Lose /\ Aggregators!EndAs(th, TRUE)
  BY SetDoes, Zenon
<1>2. /\ r.to => Defaults \subseteq {r.on}
      /\ (~r.to /\ r.op = "update") => OneUnlessDisturbed /\ r.was = agg[r.on].default
      /\ r.op = "delete" => agg[r.on].there /\ (clean => Defaults = {}) /\ ~r.to
      /\ r.op \in {"update", "set"} => agg[r.on].there
      /\ r.op = "set" => r.to
      /\ r.seen[r.on] = agg[r.on]
  BY <1>1 DEF Stage
<1>3. /\ r.to \in BOOLEAN /\ r.disturbed \in BOOLEAN /\ agg \in [Agg -> Row] /\ d \in BOOLEAN
      /\ agg[r.on].default \in BOOLEAN /\ r.op \in {"update", "set", "delete"}
      /\ clean \in BOOLEAN
  <2>1. d \in BOOLEAN
    BY Zenon
  <2>2. /\ r.to \in BOOLEAN /\ r.disturbed \in BOOLEAN /\ agg \in [Agg -> Row]
        /\ r.op \in {"update", "set", "delete"} /\ clean \in BOOLEAN
    BY <1>1, RequestStates DEF AggTyped, ReqTyped
  <2>3. agg[r.on].default \in BOOLEAN
    BY <1>1, <2>2 DEF Row, Aggregators!Row
  <2> QED BY <2>1, <2>2, <2>3
<1>4. CASE Aggregators!EndAs(th, TRUE)
  BY <1>4, EndLeaves DEF Progresses, OneUnlessDisturbed
<1>5. CASE /\ Aggregators!EndAs(th, r.disturbed)
           /\ \A b \in Agg \ {r.on} : agg'[b] = agg[b]
           /\ agg'[r.on].there = agg[r.on].there
           /\ agg[r.on].there =>
                agg'[r.on].default =
                  (IF d # r.seen[r.on].default THEN d ELSE agg[r.on].default)
  <2>1. /\ aggReq'[th].at = "idle"
        /\ clean' => r.to \/ (clean /\ ~(r.op = "update" /\ r.was))
    BY <1>3, <1>5, EndLeaves
  <2>2. agg[r.on].there /\ agg'[r.on].there /\ agg'[r.on].default = d
    <3>1. agg[r.on].there
      BY <1>2, <1>3
    <3>2. agg'[r.on].default = (IF d # agg[r.on].default THEN d ELSE agg[r.on].default)
      BY <1>2, <1>5, <3>1
    <3> HIDE DEF d
    <3> QED BY <1>3, <1>5, <3>1, <3>2
  <2>3. SUFFICES ASSUME clean' PROVE \E a \in There' : Defaults' = {a}
    BY <2>1 DEF Progresses, OneUnlessDisturbed
  <2>4. CASE r.to \/ r.op = "delete"
    <3>1. Defaults \subseteq {r.on}
      BY <1>2, <2>1, <2>3, <2>4
    <3>2. agg'[r.on].default
      BY <2>2, <2>4
    <3>3. r.on \in There' /\ Defaults' = {r.on}
      BY <1>1, <1>5, <2>2, <3>1, <3>2, SetsOf, SetsOfNext
    <3> QED BY <3>3
  <2>5. CASE ~r.to /\ r.op = "update"
    <3>1. clean /\ ~r.was /\ ~agg[r.on].default /\ OneUnlessDisturbed
      BY <1>2, <2>1, <2>3, <2>5
    <3>2. ~agg'[r.on].default
      BY <2>2, <2>5
    <3>3. There' = There /\ Defaults' = Defaults
      BY <1>1, <1>5, <2>2, <3>1, <3>2, SetsOf, SetsOfNext
    <3>4. r.on \in There
      BY <1>1, <2>2, SetsOf
    <3> QED BY <3>1, <3>3, <3>4 DEF OneUnlessDisturbed
  <2> QED BY <1>2, <1>3, <2>4, <2>5
<1> QED BY <1>1, <1>4, <1>5

LEMMA DeleteProgresses ==
    ASSUME AggTyped, NEW th \in Worker, Stage(th), Aggregators!Delete(th)
    PROVE  Progresses(th)
<1> DEFINE r == aggReq[th]
           n == aggReq'[th]
<1>1. /\ r.at = "delete" /\ born' = born
      /\ \/ /\ lost' = lost /\ agg' = [agg EXCEPT ![r.on] = Aggregators!Gone]
            /\ agg' \in [Agg -> Row]
            /\ \/ ~r.was /\ Aggregators!EndAs(th, r.disturbed)
               \/ /\ r.was /\ clean' = clean /\ Becomes(th, n) /\ n.at = "remaining"
                  /\ n.seen = Aggregators!Unread
                  /\ Keeps(r, n) /\ n.on = r.on /\ n.disturbed = r.disturbed
         \/ agg' = agg /\ Aggregators!Lose /\ Aggregators!EndAs(th, TRUE)
  BY DeleteDoes, Zenon
<1>2. /\ r.op = "delete" /\ agg[r.on].there /\ r.was = agg[r.on].default /\ OneUnlessDisturbed
      /\ ~r.to
  BY <1>1 DEF Stage
<1>3. r.disturbed \in BOOLEAN /\ agg \in [Agg -> Row] /\ r.on \in Agg
  BY <1>2, RequestStates DEF AggTyped, ReqTyped
<1>4. CASE Aggregators!EndAs(th, TRUE)
  BY <1>4, EndLeaves DEF Progresses, OneUnlessDisturbed
<1>5. CASE agg' = [agg EXCEPT ![r.on] = Aggregators!Gone]
  <2>1. ~agg'[r.on].there /\ ~agg'[r.on].default /\ \A b \in Agg \ {r.on} : agg'[b] = agg[b]
    BY <1>3, <1>5 DEF Aggregators!Gone
  <2>2. There' = There \ {r.on} /\ Defaults' = Defaults \ {r.on} /\ r.on \in There
    BY <1>2, <1>3, <2>1, SetsOf, SetsOfNext
  <2>3. r.was <=> r.on \in Defaults
    BY <1>2, <1>3, SetsOf
  <2>4. CASE ~r.was /\ Aggregators!EndAs(th, r.disturbed)
    <3>1. aggReq'[th].at = "idle" /\ (clean' => clean)
      BY <1>2, <1>3, <2>4, EndLeaves
    <3>2. clean' => \E a \in There : Defaults = {a}
      BY <1>2, <2>2, <3>1 DEF OneUnlessDisturbed
    <3> QED BY <2>2, <2>3, <2>4, <3>1, <3>2 DEF Progresses, OneUnlessDisturbed
  <2>5. CASE /\ r.was /\ clean' = clean /\ n.at = "remaining"
             /\ n.seen = Aggregators!Unread /\ Keeps(r, n) /\ n.on = r.on
    <3>1. clean => Defaults' = {}
      BY <1>2, <2>2, <2>3, <2>5 DEF OneUnlessDisturbed
    <3>2. \A b \in DOMAIN n.seen : n.seen[b] = agg'[b]
      BY <2>5, SmallSessions
    <3>3. Stage(th)'
      BY <1>2, <2>5, <3>1, <3>2 DEF Stage, Keeps
    <3> QED BY <2>5, <3>3 DEF Progresses
  <2> QED BY <1>1, <1>4, <2>4, <2>5
<1> QED BY <1>1, <1>4, <1>5

LEMMA RemainingProgresses ==
    ASSUME AggTyped, NEW th \in Worker, Stage(th), Aggregators!Remaining(th)
    PROVE  Progresses(th)
<1> DEFINE r == aggReq[th]
           n == aggReq'[th]
<1>1. /\ r.at = "remaining" /\ UNCHANGED <<agg, born, lost>>
      /\ \/ There = {} /\ Aggregators!EndAs(th, r.disturbed)
         \/ /\ There # {} /\ clean' = clean /\ Becomes(th, n) /\ n.at = "write"
            /\ n.on \in There /\ n.seen = Aggregators!Seen(r, There)
            /\ Keeps(r, n) /\ n.disturbed = r.disturbed
  BY RemainingDoes, Zenon
<1>2. r.op = "delete" /\ (clean => Defaults = {}) /\ ~r.to
  BY <1>1 DEF Stage
<1>3. r.disturbed \in BOOLEAN
  BY RequestStates DEF AggTyped
<1>4. There' = There /\ Defaults' = Defaults
  BY <1>1, SetsOf, SetsOfNext
<1>5. CASE There = {} /\ Aggregators!EndAs(th, r.disturbed)
  BY <1>3, <1>4, <1>5, EndLeaves DEF Progresses, OneUnlessDisturbed
<1>6. CASE /\ clean' = clean /\ n.at = "write" /\ n.on \in There
           /\ n.seen = Aggregators!Seen(r, There) /\ Keeps(r, n)
  <2>1. \A b \in DOMAIN n.seen : n.seen[b] = agg[b]
    <3>1. There \in SUBSET Agg
      BY ThereIsAgg
    <3>2. \A a \in DOMAIN Aggregators!Seen(r, There) : Aggregators!Seen(r, There)[a] = agg[a]
      BY <3>1, SeenFresh
    <3> QED BY <1>6, <3>2
  <2>2. agg[n.on].there
    BY <1>6, SetsOf
  <2>3. Stage(th)'
    BY <1>1, <1>2, <1>4, <1>6, <2>1, <2>2 DEF Stage, Keeps
  <2> QED BY <1>6, <2>3 DEF Progresses
<1> QED BY <1>1, <1>5, <1>6

LEMMA StepProgresses ==
    ASSUME AggTyped, BornCounted, Dated, NEW th \in Worker, Stage(th), AggStep(th)
    PROVE  Progresses(th)
<1>1. ASSUME Aggregators!Abort(th) PROVE Progresses(th)
  BY <1>1, AbortDoes, EndLeaves DEF Progresses, OneUnlessDisturbed
<1> QED BY <1>1, ListProgresses, LookProgresses, UnsetProgresses, FindProgresses,
           InsertProgresses, SetProgresses, DeleteProgresses, RemainingProgresses DEF AggStep

(* Identities: only an insertion makes one exist.                          *)
LEMMA DatedKept ==
    ASSUME AggTyped, BornCounted, Dated, NEW th \in Worker, AggStep(th)
    PROVE  Dated'
<1> DEFINE r == aggReq[th]
<1>1. born \in Nat /\ agg \in [Agg -> Row]
  BY DEF AggTyped
<1>2. CASE UNCHANGED <<agg, born>>
  BY <1>2 DEF Dated
<1>3. ASSUME born' = born, \A a \in Agg : agg'[a].there => agg[a].there
      PROVE  Dated'
  BY <1>3 DEF Dated, Agg, Aggregators!Agg
<1>4. CASE Aggregators!Unset(th)
  <2> DEFINE a == Aggregators!Newest(r.todo)
  <2>1. /\ born' = born
        /\ \/ (\A b \in Agg \ {a} : agg'[b] = agg[b]) /\ agg[a].there
           \/ agg' = agg
    BY <1>4, UnsetDoes, Zenon
  <2> QED BY <1>3, <2>1
<1>5. CASE Aggregators!Insert(th)
  <2>1. \/ UNCHANGED <<agg, born>>
        \/ born' = born + 1 /\ agg' = [agg EXCEPT ![born + 1] = [there |-> TRUE, default |-> r.to]]
    BY <1>5, InsertDoes, Zenon
  <2>2. ASSUME NEW v, born' = born + 1, agg' = [agg EXCEPT ![born + 1] = v] PROVE Dated'
    <3>1. \A b \in Agg : b = born + 1 \/ agg'[b] = agg[b]
      BY <1>1, <2>2
    <3> QED BY <1>1, <2>2, <3>1, RowsAssumption DEF Dated, Agg, Aggregators!Agg
  <2> QED BY <1>2, <2>1, <2>2
<1>6. CASE Aggregators!Set(th)
  BY <1>3, <1>6, SetDoes
<1>7. CASE Aggregators!Delete(th)
  <2>1. born' = born /\ (agg' = agg \/ agg' = [agg EXCEPT ![r.on] = Aggregators!Gone])
    BY <1>7, DeleteDoes, Zenon
  <2>2. ~Aggregators!Gone.there
    BY DEF Aggregators!Gone
  <2> QED BY <1>1, <1>3, <2>1, <2>2
<1> QED BY <1>2, <1>4, <1>5, <1>6, <1>7, ListDoes, LookDoes, FindDoes, RemainingDoes, AbortDoes
        DEF AggStep

(* A request that begins while none runs finds the rows at rest.           *)
LEMMA AskedStages ==
    ASSUME AggTyped, OneUnlessDisturbed, NEW th \in Worker, NEW r, Asked(r),
           LikeBut(aggReq'[th], r), UNCHANGED <<agg, clean>>
    PROVE  Stage(th)'
<1> DEFINE n == aggReq'[th]
<1>1. There' = There /\ Defaults' = Defaults
  BY SetsOf, SetsOfNext
<1>2. OneUnlessDisturbed'
  BY <1>1 DEF OneUnlessDisturbed
<1>3. /\ n.at = r.at /\ n.op = r.op /\ n.on = r.on /\ n.to = r.to /\ n.seen = r.seen
      /\ n.todo = r.todo /\ n.was = r.was
  BY DEF LikeBut
<1>4. \A b \in DOMAIN n.seen : n.seen[b] = agg'[b]
  BY <1>3 DEF Asked
<1>5. r.to \in BOOLEAN
  BY RequestStates DEF Asked, ReqTyped
<1>6. CASE r.op = "create"
  BY <1>2, <1>3, <1>4, <1>6 DEF Asked, Stage
<1>7. CASE r.op = "update"
  BY <1>2, <1>3, <1>4, <1>5, <1>7 DEF Asked, Stage
<1>8. CASE r.op = "set"
  BY <1>2, <1>3, <1>4, <1>8 DEF Asked, Stage
<1>9. CASE r.op = "delete"
  BY <1>2, <1>3, <1>4, <1>9 DEF Asked, Stage
<1> QED BY <1>6, <1>7, <1>8, <1>9 DEF Asked

LEMMA AggNext ==
    ASSUME AggIInv, Aggregators!Next
    PROVE  AggIInv'
<1> USE DEF AggIInv
<1>1. ASSUME NEW th \in Worker, AggStep(th) PROVE AggIInv'
  <2>1. AggTyped' /\ BornCounted' /\ Dated'
    BY <1>1, AggStepCounted, DatedKept
  <2>2. aggReq[th].at # "idle" /\ \A u \in Worker \ {th} : aggReq'[u] = aggReq[u]
    BY <1>1, AggStepDoes DEF ReqBecomes, AggTyped
  <2>3. CASE aggReq[th].disturbed
    <3>1. \A u \in Worker : ~Undisturbed(u)
      BY <2>2, <2>3 DEF Undisturbed, Alone
    <3>2. IF aggReq'[th].at = "idle" THEN ~clean' ELSE aggReq'[th].disturbed
      BY <1>1, <2>3, DisturbedStays
    <3>3. \A u \in Worker : ~Undisturbed(u)'
      BY <2>2, <3>1, <3>2 DEF Undisturbed
    <3>4. Resting' => OneUnlessDisturbed'
      BY <3>2 DEF Resting, OneUnlessDisturbed
    <3> QED BY <2>1, <3>3, <3>4
  <2>4. CASE ~aggReq[th].disturbed
    <3>1. Stage(th) /\ Alone(th)
      BY <2>2, <2>4 DEF Undisturbed
    <3>2. Progresses(th)
      BY <1>1, <3>1, StepProgresses
    <3>3. \A u \in Worker \ {th} : aggReq'[u].at = "idle"
      BY <2>2, <3>1 DEF Alone
    <3>4. \A u \in Worker : Undisturbed(u)' => Stage(u)' /\ Alone(u)'
      BY <3>2, <3>3 DEF Undisturbed, Alone, Progresses
    <3>5. Resting' => OneUnlessDisturbed'
      BY <3>2 DEF Resting, Progresses
    <3> QED BY <2>1, <3>4, <3>5
  <2> QED BY <2>3, <2>4
<1>2. ASSUME NEW th \in Worker, Aggregators!Request(th) PROVE AggIInv'
  <2>1. PICK r : Aggregators!Begin(th, r) /\ Asked(r)
    BY <1>2, RequestAsks
  <2>2. r \in Aggregators!RequestState /\ r.at # "idle"
    BY <2>1 DEF Asked, ReqTyped
  <2>3. /\ UNCHANGED <<agg, born, lost, clean>> /\ aggReq[th].at = "idle"
        /\ LikeBut(aggReq'[th], r)
        /\ \A u \in Worker \ {th} : LikeBut(aggReq'[u], aggReq[u])
        /\ \A u \in Worker \ {th} :
             aggReq[u].at # "idle" => aggReq'[u].disturbed /\ aggReq'[th].disturbed
    BY <2>1, <2>2, BeginDoes
  <2>4. AggTyped' /\ BornCounted' /\ Dated'
    BY <1>2, <2>3, RequestCounted DEF Dated
  <2>5. aggReq'[th].at # "idle" /\ \A u \in Worker \ {th} : aggReq'[u].at = aggReq[u].at
    BY <2>2, <2>3 DEF LikeBut
  <2>6. \A u \in Worker \ {th} : ~Undisturbed(u)'
    BY <2>3, <2>5 DEF Undisturbed
  <2>7. ASSUME Undisturbed(th)' PROVE Stage(th)' /\ Alone(th)'
    <3>1. \A u \in Worker \ {th} : aggReq[u].at = "idle"
      BY <2>3, <2>7 DEF Undisturbed
    <3>2. Resting /\ Alone(th)'
      BY <2>3, <2>5, <3>1 DEF Resting, Alone
    <3> QED BY <2>1, <2>3, <3>2, AskedStages
  <2>8. ~Resting'
    BY <2>5 DEF Resting
  <2> QED BY <2>4, <2>6, <2>7, <2>8
<1> QED BY <1>1, <1>2 DEF Aggregators!Next, AggStep

LEMMA AggInit == Aggregators!Init => AggIInv
<1> SUFFICES ASSUME Aggregators!Init PROVE AggIInv
  OBVIOUS
<1>1. agg = [a \in Agg |-> Aggregators!Gone] /\ agg \in [Agg -> Row]
  BY RequestStates DEF Aggregators!Init, Agg
<1>2. /\ \A th \in Worker : aggReq[th] = Aggregators!Idle
      /\ aggReq \in [Worker -> Aggregators!RequestState] /\ born = 0 /\ lost = 0 /\ clean = TRUE
  BY RequestStates DEF Aggregators!Init
<1>3. Aggregators!Idle.at = "idle" /\ Aggregators!Idle.op = "none" /\ ~Aggregators!Gone.there
  BY DEF Aggregators!Idle, Aggregators!Gone
<1>4. ReqTyped(Aggregators!Idle)
  BY <1>3, RequestStates DEF ReqTyped
<1>5. AggTyped
  BY <1>1, <1>2, <1>4, RowBounds DEF AggTyped
<1>6. Aggregators!Creating = {}
  BY <1>2, <1>3 DEF Aggregators!Creating
<1>7. BornCounted
  BY <1>2, <1>6, FS_EmptySet, RowBounds DEF BornCounted
<1>8. There = {} /\ Dated
  BY <1>1, <1>3, SetsOf DEF Dated
<1> QED BY <1>2, <1>3, <1>5, <1>7, <1>8 DEF AggIInv, Undisturbed, OneUnlessDisturbed

LEMMA AggInvariant == RowsSpec => []AggIInv
<1>1. AggIInv /\ [Aggregators!Next]_(Aggregators!vars) => AggIInv'
  <2>1. AggIInv /\ UNCHANGED Aggregators!vars => AggIInv'
    BY SetsOf, SetsOfNext
       DEF Aggregators!vars, AggIInv, AggTyped, BornCounted, Dated, Aggregators!Creating,
           Undisturbed, Alone, Stage, Resting, OneUnlessDisturbed
  <2> QED BY <2>1, AggNext
<1> QED BY <1>1, AggInit, RowsAreApart, PTL DEF Aggregators!Spec

(* For any number of threads and aggregators: while no request runs, a     *)
(* user with aggregators has one default, unless the last choice was       *)
(* disturbed (user_aggregator_service.py:87-278).                          *)
THEOREM DefaultIsUnique == RowsSpec => []OneDefault
<1>1. ASSUME AggIInv PROVE OneDefault
  <2> SUFFICES ASSUME clean, There # {}, Resting
               PROVE  /\ Aggregators!DefaultOfUser # 0
                      /\ Aggregators!ListedDefault = Aggregators!DefaultOfUser
    BY DEF OneDefault, Aggregators!OneDefault, Aggregators!At, There, Resting
  <2>1. PICK a \in There : Defaults = {a}
    BY <1>1 DEF AggIInv, OneUnlessDisturbed
  <2>2. a \in Agg /\ a # 0
    BY ThereIsAgg, RequestStates
  <2>3. Aggregators!DefaultOfUser = a
    BY <2>1, FS_Singleton, SameCardinalityHere DEF Aggregators!DefaultOfUser, Defaults
  <2>4. Aggregators!Newest({a}) \in {a}
    BY <2>2, NewestIsOne
  <2>5. Aggregators!ListedDefault = a
    BY <2>1, <2>4 DEF Aggregators!ListedDefault, Defaults
  <2> QED BY <2>2, <2>3, <2>5
<1> QED BY <1>1, AggInvariant, PTL

(* Every reachable state of tokens and aggregators has its type.           *)
THEOREM RowsTypeCorrect == RowsSpec => [](Tokens!TypeOK /\ Aggregators!TypeOK)
<1>1. AggIInv => Aggregators!TypeOK
  BY SetsOf DEF AggIInv, AggTyped, ReqTyped, Dated, Aggregators!TypeOK, Agg, Row, There
<1>2. TokensIInv => Tokens!TypeOK
  BY DEF TokensIInv
<1> QED BY <1>1, <1>2, AggInvariant, TokensInvariant, PTL
=============================================================================
