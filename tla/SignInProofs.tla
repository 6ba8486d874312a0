----------------------------- MODULE SignInProofs -----------------------------
(***************************************************************************)
(* Safety of HubSessions for all lifetimes, threads, devices and workers,  *)
(* and of IdentityKeys for any number of workers and keys.  The inductive  *)
(* invariant of the first bounds how old a session can be when it is used  *)
(* (login, code and JWT have each had their life) and follows the tokens   *)
(* that a call has refreshed; that of the second says, of every place in a *)
(* startup, what the two files hold and what the worker holds of them.     *)
(***************************************************************************)
EXTENDS HubSignIn, TLAPS

-----------------------------------------------------------------------------
(* Sessions and tool calls.  IInv is what holds of them after every step.  *)

\* A login ends within its life.
LoginsTimely ==
    \A d \in Device : login[d].pc # "none" =>
        login[d].at <= now /\ now <= login[d].at + LoginLife

\* The session was signed in at most a login before the codes it is good for.
CodesCovered ==
    \A c \in codes : c.at <= now /\ session.some /\ c.at <= session.refresh + LoginLife

\* A JWT follows its code by the code's life at most.  The session may be that
\* of a later login, or, for a JWT from before a restart, none.
JwtsCovered ==
    \A j \in jwts :
        /\ j.at <= now
        /\ j.ours => session.some
        /\ session.some => j.at <= session.refresh + LoginLife + CodeLife

\* Refreshing with a token of time t works until the call ends.
Lasting(t) == call.start + CallLife < t + RefreshLife

\* A token of time t was issued during the call, and no worker lists it.
Good(t) == call.start <= t /\ \A w \in Worker : t \notin blacklist[w]

CallTimely ==
    call.on => call.start <= now /\ now <= call.start + CallLife

\* What a thread refreshes with lasts; what it has got was issued in the call.
Lasts ==
    call.on =>
        /\ Lasting(client.refresh)
        /\ \A th \in Thread :
              /\ req[th].pc = "refreshing" => Lasting(req[th].tok)
              /\ req[th].pc \in {"adopt", "adoptRefresh"} => call.start <= req[th].tok

\* Unless excused, what a thread has refreshed is good, and so is the token the
\* client uses from then on, whichever thread stored it.
Refreshed ==
    call.on /\ ~excused =>
        /\ active
        /\ \A th \in Thread :
              /\ req[th].pc \in {"adopt", "adoptRefresh"} => Good(req[th].tok)
              /\ req[th].pc = "sent" /\ req[th].again => Good(req[th].tok)
              /\ req[th].pc = "adoptRefresh" \/ req[th].again => Good(client.access)
              /\ req[th].pc = "refused" => ~req[th].again
              /\ req[th].pc # "failed"

AtRest == ~call.on => \A th \in Thread : req[th] = NoReq

\* What is barred is listed, and has not expired.
BarredListed ==
    \A w \in Worker : \A t \in barred[w] : t \in blacklist[w] /\ now < t + AccessLife

IInv ==
    /\ TypeOK
    /\ LoginsTimely /\ CodesCovered /\ JwtsCovered
    /\ CallTimely /\ Lasts /\ Refreshed /\ AtRest
    /\ BarredListed

LEMMA Remainders == \A n \in 0..(CleanupEvery - 1) : (n + 1) % CleanupEvery \in 0..(CleanupEvery - 1)
  BY Lifetimes, SMT

\* The hub's own steps keep the types.
LEMMA HubTypes ==
  ASSUME TypeOK,
         \/ Tick \/ BrowserLogin \/ Deactivate \/ Activate
         \/ \E w \in Worker : WorkerRestarts(w) \/ \E t \in browser : Logout(w, t)
  PROVE  TypeOK'
<1>1. CASE Tick
  <2>1. now' \in Time
    BY <1>1, Lifetimes DEF Tick, TypeOK, Time
  <2>2. barred' \in [Worker -> SUBSET Time]
    BY <1>1 DEF Tick, TypeOK
  <2>3. browser' \subseteq Time /\ jwts' \subseteq [at : Time, ours : BOOLEAN]
    BY <1>1, Zenon DEF Tick, TypeOK
  <2> QED BY <1>1, <2>1, <2>2, <2>3 DEF Tick, TypeOK, callVars
<1>2. CASE BrowserLogin
  BY <1>2, Lifetimes DEF BrowserLogin, TypeOK, Time, callVars, mcpVars
<1>3. CASE Deactivate
  BY <1>3 DEF Deactivate, TypeOK, mcpVars
<1>4. CASE Activate
  BY <1>4 DEF Activate, TypeOK, mcpVars, callVars
<1>5. ASSUME NEW w \in Worker, WorkerRestarts(w) PROVE TypeOK'
  BY <1>5, Lifetimes DEF WorkerRestarts, TypeOK, mcpVars, callVars
<1>6. ASSUME NEW w \in Worker, NEW t \in browser, Logout(w, t) PROVE TypeOK'
  <2>1. inserts' \in [Worker -> 0..(CleanupEvery - 1)]
    BY <1>6, Remainders DEF Logout, Blacklist, TypeOK
  <2>2. blacklist' \in [Worker -> SUBSET Time] /\ barred' \in [Worker -> SUBSET Time]
    BY <1>6 DEF Logout, Blacklist, Live, TypeOK
  <2>3. browser' \subseteq Time /\ excused' \in BOOLEAN
    BY <1>6 DEF Logout, TypeOK
  <2> QED BY <1>6, <2>1, <2>2, <2>3 DEF Logout, TypeOK, mcpVars
<1> QED BY <1>1, <1>2, <1>3, <1>4, <1>5, <1>6

LEMMA DropTypes ==
  ASSUME TypeOK, NEW w \in Worker, NEW t
  PROVE  Dropped(w, t) \in [Worker -> SUBSET Time]
  BY DEF Dropped, TypeOK

\* So do the steps of the sign-in.
LEMMA SignInTypes ==
  ASSUME TypeOK,
         \/ \E d \in Device : RegisterClient(d) \/ BeginLogin(d) \/ LoginFails(d)
         \/ \E d \in Device, w \in Worker : GetUserInfo(d, w) \/ FinishLogin(d, w)
         \/ \E c \in codes : ExchangeCode(c)
         \/ McpRestarts
  PROVE  TypeOK'
<1>1. ASSUME NEW d \in Device, RegisterClient(d) PROVE TypeOK'
  BY <1>1 DEF RegisterClient, TypeOK, hubVars, callVars
<1>2. ASSUME NEW d \in Device, BeginLogin(d) PROVE TypeOK'
  BY <1>2 DEF BeginLogin, TypeOK, hubVars, callVars
<1>3. ASSUME NEW d \in Device, LoginFails(d) PROVE TypeOK'
  BY <1>3, Lifetimes DEF LoginFails, TypeOK, hubVars, callVars, NoLogin, Time
<1>4. ASSUME NEW d \in Device, NEW w \in Worker, GetUserInfo(d, w) PROVE TypeOK'
  <2>1. blacklist' \in [Worker -> SUBSET Time]
    BY <1>4, DropTypes DEF GetUserInfo
  <2>2. login' \in [Device -> [pc : {"none", "info", "accounting"}, at : Time]]
    BY <1>4, Lifetimes DEF GetUserInfo, TypeOK, NoLogin, Time
  <2> QED BY <1>4, <2>1, <2>2 DEF GetUserInfo, TypeOK, callVars
<1>5. ASSUME NEW d \in Device, NEW w \in Worker, FinishLogin(d, w) PROVE TypeOK'
  <2>1. blacklist' \in [Worker -> SUBSET Time]
    BY <1>5, DropTypes DEF FinishLogin
  <2>2. login' \in [Device -> [pc : {"none", "info", "accounting"}, at : Time]]
    BY <1>5, Lifetimes DEF FinishLogin, TypeOK, NoLogin, Time
  <2>3. session' \in [access : Time, refresh : Time, some : BOOLEAN]
    BY <1>5 DEF FinishLogin, TypeOK, TokensOf
  <2>4. codes' \subseteq [device : Device, at : Time]
    BY <1>5 DEF FinishLogin, TypeOK
  <2> QED BY <1>5, <2>1, <2>2, <2>3, <2>4 DEF FinishLogin, TypeOK, callVars
<1>6. ASSUME NEW c \in codes, ExchangeCode(c) PROVE TypeOK'
  <2>1. [at |-> now, ours |-> TRUE] \in [at : Time, ours : BOOLEAN]
    BY DEF TypeOK
  <2>2. jwts' \subseteq [at : Time, ours : BOOLEAN] /\ codes' \subseteq codes
    BY <1>6, <2>1, Zenon DEF ExchangeCode, TypeOK
  <2> QED BY <1>6, <2>2 DEF ExchangeCode, TypeOK, hubVars, callVars
<1>7. CASE McpRestarts
  <2>1. NoTokens \in [access : Time, refresh : Time, some : BOOLEAN]
    BY Lifetimes DEF NoTokens, Time
  <2>2. NoLogin.at \in Time /\ NoReq.tok \in Time /\ NoCall.start \in Time
    BY Lifetimes DEF NoLogin, NoReq, NoCall, Time
  <2>3. login' \in [Device -> [pc : {"none", "info", "accounting"}, at : Time]]
    BY <1>7, <2>2 DEF McpRestarts, NoLogin
  <2>4. req' \in [Thread -> [pc : {"idle", "sent", "refused", "refreshing", "adopt", "adoptRefresh",
                                 "got", "failed"}, tok : Time, again : BOOLEAN]]
    BY <1>7, <2>2 DEF McpRestarts, NoReq
  <2>5. jwts' \subseteq [at : Time, ours : BOOLEAN]
    <3>1. \A j \in jwts : j \in [at : Time, ours : BOOLEAN]
      BY DEF TypeOK
    <3>2. \A j \in jwts : [j EXCEPT !.ours = FALSE] \in [at : Time, ours : BOOLEAN]
      BY <3>1
    <3> QED BY <1>7, <3>2, Zenon DEF McpRestarts
  <2>6. call' \in [on : BOOLEAN, start : Time]
    BY <1>7, <2>2 DEF McpRestarts, NoCall
  <2> QED BY <1>7, <2>1, <2>3, <2>4, <2>5, <2>6 DEF McpRestarts, TypeOK, hubVars
<1> QED BY <1>1, <1>2, <1>3, <1>4, <1>5, <1>6, <1>7

\* And those of a call.
LEMMA CallTypes ==
  ASSUME TypeOK, (\E j \in jwts : StartCall(j)) \/ (\E th \in Thread : Step(th)) \/ EndCall
  PROVE  TypeOK'
<1> DEFINE Request == [pc : {"idle", "sent", "refused", "refreshing", "adopt", "adoptRefresh",
                             "got", "failed"}, tok : Time, again : BOOLEAN]
<1>0. 0 \in Time
  BY Lifetimes DEF Time
<1>1. ASSUME NEW j \in jwts, StartCall(j) PROVE TypeOK'
  BY <1>1 DEF StartCall, TypeOK, hubVars, mcpVars
<1>2. CASE EndCall
  <2>1. NoTokens \in [access : Time, refresh : Time, some : BOOLEAN]
    BY <1>0 DEF NoTokens
  <2>2. req' \in [Thread -> Request] /\ call' \in [on : BOOLEAN, start : Time]
    BY <1>0, <1>2 DEF EndCall, NoReq, NoCall
  <2> QED BY <1>2, <2>1, <2>2 DEF EndCall, TypeOK, hubVars, mcpVars
<1>3. ASSUME NEW th \in Thread, Step(th) PROVE TypeOK'
  <2>1. req \in [Thread -> Request] /\ client \in [access : Time, refresh : Time, some : BOOLEAN]
        /\ now \in Time
    BY DEF TypeOK
  <2>2. CASE SendRequest(th)
    <3>1. req' \in [Thread -> Request]
      BY <2>1, <2>2 DEF SendRequest, Bearer
    <3> QED BY <2>2, <3>1 DEF SendRequest, TypeOK, unrequested, mcpVars
  <2>3. CASE RequestFails(th)
    <3>1. req' \in [Thread -> Request]
      BY <2>1, <2>3, <1>0 DEF RequestFails, Goto
    <3> QED BY <2>3, <3>1 DEF RequestFails, TypeOK, unrequested, mcpVars
  <2>4. CASE Refused(th)
    <3>1. req' \in [Thread -> Request]
      BY <2>1, <2>4, <1>0 DEF Refused, Goto
    <3> QED BY <2>4, <3>1 DEF Refused, TypeOK, unrequested, mcpVars
  <2>5. CASE AnswerRefresh(th)
    <3>1. req' \in [Thread -> Request]
      BY <2>1, <2>5, <1>0 DEF AnswerRefresh, Goto
    <3>2. excused' \in BOOLEAN
      BY <2>5 DEF AnswerRefresh, TypeOK
    <3> QED BY <2>5, <3>1, <3>2 DEF AnswerRefresh, TypeOK, unrequested, mcpVars
  <2>6. CASE Adopt(th)
    BY <2>1, <2>6 DEF Adopt, TypeOK, unrequested, mcpVars
  <2>7. CASE AdoptRefresh(th)
    BY <2>1, <2>7, <1>0 DEF AdoptRefresh, TypeOK, unrequested, mcpVars, NoReq
  <2>8. ASSUME NEW w \in Worker, AnswerRequest(th, w) PROVE TypeOK'
    <3>1. req' \in [Thread -> Request]
      BY <2>1, <2>8, <1>0 DEF AnswerRequest, Goto
    <3>2. blacklist' \in [Worker -> SUBSET Time]
      BY <2>8, DropTypes DEF AnswerRequest
    <3> QED BY <2>8, <3>1, <3>2 DEF AnswerRequest, TypeOK, unrequested, mcpVars
  <2> QED BY <1>3, <2>2, <2>3, <2>4, <2>5, <2>6, <2>7, <2>8 DEF Step
<1> QED BY <1>1, <1>2, <1>3

LEMMA TypeAtFirst == Init => TypeOK
<1> SUFFICES ASSUME Init PROVE TypeOK
  OBVIOUS
<1>1. 0 \in Time /\ 0 \in 0..(CleanupEvery - 1)
  BY Lifetimes DEF Time
<1> QED BY <1>1 DEF Init, TypeOK, NoLogin, NoTokens, NoCall, NoReq

LEMMA TypeStep ==
  ASSUME TypeOK, Next
  PROVE  TypeOK'
  BY HubTypes, SignInTypes, CallTypes DEF Next

\* Every reachable state of the hub's sessions, the MCP server and the call has
\* its type, for all lifetimes, workers and threads.
THEOREM TypeCorrect == Spec => []TypeOK
<1>1. TypeOK /\ UNCHANGED vars => TypeOK'
  BY DEF vars, hubVars, mcpVars, callVars, TypeOK
<1>2. TypeOK /\ [Next]_vars => TypeOK'
  BY <1>1, TypeStep
<1> QED BY <1>2, TypeAtFirst, PTL DEF Spec

\* What each group of steps leaves alone.
LEMMA HubKeeps ==
  ASSUME \/ BrowserLogin \/ Deactivate \/ Activate
         \/ \E w \in Worker : WorkerRestarts(w) \/ \E t \in browser : Logout(w, t)
  PROVE  UNCHANGED <<now, mcpVars, call, client, req>>
  BY DEF BrowserLogin, Deactivate, Activate, WorkerRestarts, Logout, mcpVars, callVars

LEMMA CallKeeps ==
  ASSUME (\E j \in jwts : StartCall(j)) \/ (\E th \in Thread : Step(th)) \/ EndCall
  PROVE  UNCHANGED <<now, active, inserts, barred, browser, mcpVars>>
  BY DEF StartCall, EndCall, Step, SendRequest, RequestFails, Refused, AnswerRefresh, Adopt,
         AdoptRefresh, AnswerRequest, unrequested, hubVars, mcpVars

LEMMA SignInKeeps ==
  ASSUME \/ \E d \in Device : RegisterClient(d) \/ BeginLogin(d) \/ LoginFails(d)
         \/ \E d \in Device, w \in Worker : GetUserInfo(d, w) \/ FinishLogin(d, w)
         \/ \E c \in codes : ExchangeCode(c)
  PROVE  UNCHANGED <<now, active, inserts, barred, browser, callVars>>
  BY DEF RegisterClient, BeginLogin, LoginFails, GetUserInfo, FinishLogin, ExchangeCode, hubVars

LEMMA Numbers ==
  ASSUME TypeOK
  PROVE  /\ now \in Nat /\ call.start \in Nat
         /\ session.access \in Nat /\ session.refresh \in Nat
         /\ client.access \in Nat /\ client.refresh \in Nat
         /\ \A d \in Device : login[d].at \in Nat
         /\ \A c \in codes : c.at \in Nat
         /\ \A j \in jwts : j.at \in Nat
         /\ \A th \in Thread : req[th].tok \in Nat
         /\ \A w \in Worker : blacklist[w] \subseteq Nat /\ barred[w] \subseteq Nat
<1>1. Time \subseteq Nat
  BY Lifetimes DEF Time
<1>2. \A c \in codes : c.at \in Time
  BY DEF TypeOK
<1>3. \A j \in jwts : j.at \in Time
  BY DEF TypeOK
<1>4. now \in Time /\ call.start \in Time /\ session.access \in Time /\ session.refresh \in Time
      /\ client.access \in Time /\ client.refresh \in Time
  BY DEF TypeOK
<1>5. \A d \in Device : login[d].at \in Time
  BY DEF TypeOK
<1>6. \A th \in Thread : req[th].tok \in Time
  BY DEF TypeOK
<1>7. \A w \in Worker : blacklist[w] \subseteq Time /\ barred[w] \subseteq Time
  BY DEF TypeOK
<1> QED BY <1>1, <1>2, <1>3, <1>4, <1>5, <1>6, <1>7

LEMMA LivesAreNumbers ==
  /\ AccessLife \in Nat /\ RefreshLife \in Nat /\ JwtLife \in Nat /\ CodeLife \in Nat
  /\ LoginLife \in Nat /\ CallLife \in Nat
  /\ CallLife < AccessLife
  /\ LoginLife + CodeLife + JwtLife + CallLife < RefreshLife
  BY Lifetimes

\* Logins, codes and JWTs keep their distance from the session.
LEMMA SignInStep ==
  ASSUME IInv, Next
  PROVE  LoginsTimely' /\ CodesCovered' /\ JwtsCovered'
<1> USE LivesAreNumbers
<1>0. TypeOK /\ LoginsTimely /\ CodesCovered /\ JwtsCovered
  BY DEF IInv
<1>1. CASE Tick
  <2>1. now' = now + 1 /\ UNCHANGED <<login, session, codes>> /\ jwts' \subseteq jwts
    BY <1>1, Zenon DEF Tick
  <2>2. \A d \in Device : login[d].pc # "none" => now < login[d].at + LoginLife
    BY <1>1 DEF Tick, NoLogin
  <2>3. LoginsTimely'
    BY <1>0, <2>1, <2>2, Numbers DEF LoginsTimely
  <2>4. CodesCovered'
    BY <1>0, <2>1, Numbers DEF CodesCovered
  <2>5. JwtsCovered'
    BY <1>0, <2>1, Numbers DEF JwtsCovered
  <2> QED BY <2>3, <2>4, <2>5
<1>2. CASE UNCHANGED <<now, mcpVars>>
  BY <1>0, <1>2 DEF mcpVars, LoginsTimely, CodesCovered, JwtsCovered
<1>3. ASSUME NEW d \in Device, RegisterClient(d)
      PROVE  LoginsTimely' /\ CodesCovered' /\ JwtsCovered'
  BY <1>0, <1>3 DEF RegisterClient, LoginsTimely, CodesCovered, JwtsCovered
<1>4. ASSUME NEW d \in Device, BeginLogin(d)
      PROVE  LoginsTimely' /\ CodesCovered' /\ JwtsCovered'
  <2>1. LoginsTimely'
    BY <1>0, <1>4, Numbers DEF BeginLogin, LoginsTimely, TypeOK
  <2> QED BY <1>0, <1>4, <2>1 DEF BeginLogin, CodesCovered, JwtsCovered
<1>5. ASSUME NEW d \in Device, LoginFails(d)
      PROVE  LoginsTimely' /\ CodesCovered' /\ JwtsCovered'
  <2>1. LoginsTimely'
    BY <1>0, <1>5, Numbers DEF LoginFails, LoginsTimely, TypeOK, NoLogin
  <2> QED BY <1>0, <1>5, <2>1 DEF LoginFails, CodesCovered, JwtsCovered
<1>6. ASSUME NEW d \in Device, NEW w \in Worker, GetUserInfo(d, w)
      PROVE  LoginsTimely' /\ CodesCovered' /\ JwtsCovered'
  <2>1. LoginsTimely'
    BY <1>0, <1>6, Numbers DEF GetUserInfo, LoginsTimely, TypeOK, NoLogin
  <2> QED BY <1>0, <1>6, <2>1 DEF GetUserInfo, CodesCovered, JwtsCovered
<1>7. ASSUME NEW d \in Device, NEW w \in Worker, FinishLogin(d, w)
      PROVE  LoginsTimely' /\ CodesCovered' /\ JwtsCovered'
  <2>1. LoginsTimely'
    BY <1>0, <1>7, Numbers DEF FinishLogin, LoginsTimely, TypeOK, NoLogin
  <2>2. now <= login[d].at + LoginLife
    BY <1>0, <1>7 DEF FinishLogin, LoginsTimely
  <2>3. session'.some /\ session'.refresh = login[d].at /\ now' = now /\ jwts' = jwts
    BY <1>7 DEF FinishLogin, TokensOf
  <2>4. CodesCovered'
    BY <1>0, <1>7, <2>2, <2>3, Numbers DEF FinishLogin, CodesCovered
  <2>5. JwtsCovered'
    BY <1>0, <2>2, <2>3, Numbers DEF JwtsCovered
  <2> QED BY <2>1, <2>4, <2>5
<1>8. ASSUME NEW c \in codes, ExchangeCode(c)
      PROVE  LoginsTimely' /\ CodesCovered' /\ JwtsCovered'
  <2>1. LoginsTimely' /\ CodesCovered'
    BY <1>0, <1>8 DEF ExchangeCode, LoginsTimely, CodesCovered
  <2>2. session.some /\ c.at <= session.refresh + LoginLife
    BY <1>0 DEF CodesCovered
  <2>3. JwtsCovered'
    BY <1>0, <1>8, <2>2, Numbers DEF ExchangeCode, JwtsCovered
  <2> QED BY <2>1, <2>3
<1>9. CASE McpRestarts
  <2>1. ~session'.some /\ codes' = {} /\ now' = now
    BY <1>9 DEF McpRestarts, NoTokens
  <2>2. \A j \in jwts' : ~j.ours /\ \E i \in jwts : j.at = i.at
    <3>1. \A i \in jwts : /\ ~[i EXCEPT !.ours = FALSE].ours
                          /\ [i EXCEPT !.ours = FALSE].at = i.at
      BY DEF TypeOK
    <3> QED BY <1>9, <3>1, Zenon DEF McpRestarts
  <2>3. LoginsTimely'
    BY <1>9 DEF McpRestarts, LoginsTimely, NoLogin
  <2> QED BY <1>0, <2>1, <2>2, <2>3 DEF CodesCovered, JwtsCovered
<1> QED BY <1>1, <1>2, <1>3, <1>4, <1>5, <1>6, <1>7, <1>8, <1>9, HubKeeps, CallKeeps DEF Next

\* What is barred stays listed: a worker drops, at a look or at a cleanup, what
\* has expired.
LEMMA BarredStep ==
  ASSUME IInv, Next
  PROVE  BarredListed'
<1> USE LivesAreNumbers
<1>0. TypeOK /\ BarredListed
  BY DEF IInv
<1>1. CASE Tick
  BY <1>0, <1>1, Numbers DEF Tick, BarredListed, TypeOK
<1>2. CASE BrowserLogin \/ Deactivate \/ Activate
  BY <1>0, <1>2 DEF BrowserLogin, Deactivate, Activate, BarredListed
<1>3. ASSUME NEW w \in Worker, WorkerRestarts(w) PROVE BarredListed'
  BY <1>0, <1>3 DEF WorkerRestarts, BarredListed, TypeOK
<1>4. ASSUME NEW w \in Worker, NEW t \in browser, Logout(w, t) PROVE BarredListed'
  <2>1. now < t + AccessLife /\ now' = now
    BY <1>4 DEF Logout, Authenticated, VerifyToken, AccessLives
  <2>2. t \in Nat
    BY <1>0, Lifetimes DEF TypeOK, Time
  <2>3. \A v \in Worker : v # w => blacklist'[v] = blacklist[v] /\ barred'[v] = barred[v]
    BY <1>0, <1>4 DEF Logout, Blacklist, TypeOK
  <2>4. barred'[w] = barred[w] \cup {t}
    BY <1>0, <1>4 DEF Logout, TypeOK
  <2>5. \A x \in barred'[w] : x \in Nat /\ now < x + AccessLife /\ x \in blacklist[w] \cup {t}
    BY <1>0, <2>1, <2>2, <2>4, Numbers DEF BarredListed
  <2>6. \A x \in barred'[w] : x \in blacklist'[w]
    BY <1>0, <1>4, <2>5, Numbers DEF Logout, Blacklist, Live, TypeOK
  <2> QED BY <1>0, <2>1, <2>3, <2>5, <2>6 DEF BarredListed
<1>5. \A w \in Worker : \A t :
        (blacklist' = Dropped(w, t) /\ now' = now /\ barred' = barred) => BarredListed'
  BY <1>0, Numbers DEF Dropped, Blacklisted, BarredListed, TypeOK
<1>6. CASE UNCHANGED <<now, barred, blacklist>>
  BY <1>0, <1>6 DEF BarredListed
<1>7. CASE \E d \in Device : RegisterClient(d) \/ BeginLogin(d) \/ LoginFails(d)
  BY <1>6, <1>7 DEF RegisterClient, BeginLogin, LoginFails, hubVars
<1>8. CASE \E d \in Device, w \in Worker : GetUserInfo(d, w) \/ FinishLogin(d, w)
  BY <1>5, <1>8 DEF GetUserInfo, FinishLogin
<1>9. CASE (\E c \in codes : ExchangeCode(c)) \/ McpRestarts
  BY <1>6, <1>9 DEF ExchangeCode, McpRestarts, hubVars
<1>10. CASE (\E j \in jwts : StartCall(j)) \/ EndCall
  BY <1>6, <1>10 DEF StartCall, EndCall, hubVars
<1>11. ASSUME NEW th \in Thread, Step(th) PROVE BarredListed'
  BY <1>5, <1>6, <1>11 DEF Step, SendRequest, RequestFails, Refused, AnswerRefresh, Adopt,
                          AdoptRefresh, AnswerRequest, unrequested
<1> QED BY <1>1, <1>2, <1>3, <1>4, <1>7, <1>8, <1>9, <1>10, <1>11 DEF Next

\* What a thread's step does to what is refreshed with.
LEMMA StepRefreshes ==
  ASSUME IInv, NEW th \in Thread, Step(th)
  PROVE  /\ \/ client'.refresh = client.refresh
            \/ req[th].pc = "adoptRefresh" /\ client'.refresh = req[th].tok
         /\ \/ req'[th].pc \notin {"refreshing", "adopt", "adoptRefresh"}
            \/ req'[th].pc = "refreshing" /\ req'[th].tok = client.refresh
            \/ req'[th].pc = "adopt" /\ req'[th].tok = now
            \/ req[th].pc = "adopt" /\ req'[th].pc = "adoptRefresh" /\ req'[th].tok = req[th].tok
<1>0. TypeOK
  BY DEF IInv
<1>1. CASE SendRequest(th)
  BY <1>0, <1>1 DEF SendRequest, Goto, At, NoReq, TypeOK
<1>2. CASE RequestFails(th)
  BY <1>0, <1>2 DEF RequestFails, Goto, At, NoReq, TypeOK
<1>3. CASE Refused(th)
  BY <1>0, <1>3 DEF Refused, Goto, At, NoReq, TypeOK
<1>4. CASE AnswerRefresh(th)
  BY <1>0, <1>4 DEF AnswerRefresh, Goto, At, NoReq, TypeOK
<1>5. CASE Adopt(th)
  BY <1>0, <1>5 DEF Adopt, Goto, At, NoReq, TypeOK
<1>6. CASE AdoptRefresh(th)
  BY <1>0, <1>6 DEF AdoptRefresh, Goto, At, NoReq, TypeOK
<1>7. ASSUME NEW w \in Worker, AnswerRequest(th, w)
      PROVE  client' = client /\ req'[th].pc \in {"got", "refused"}
  BY <1>0, <1>7 DEF AnswerRequest, Goto, TypeOK
<1> QED BY <1>1, <1>2, <1>3, <1>4, <1>5, <1>6, <1>7 DEF Step

\* A call's clock, and what its threads refresh with.
LEMMA CallStep ==
  ASSUME IInv, Next
  PROVE  CallTimely' /\ Lasts' /\ AtRest'
<1> USE LivesAreNumbers
<1>0. TypeOK /\ CallTimely /\ Lasts /\ AtRest /\ JwtsCovered
  BY DEF IInv
<1>1. CASE Tick
  <2>1. now' = now + 1 /\ UNCHANGED callVars /\ (call.on => now < call.start + CallLife)
    BY <1>1 DEF Tick
  <2>2. CallTimely'
    BY <1>0, <2>1, Numbers DEF CallTimely, callVars
  <2> QED BY <1>0, <2>1, <2>2 DEF Lasts, Lasting, AtRest, callVars
<1>2. CASE UNCHANGED <<now, call, client, req>>
  BY <1>0, <1>2 DEF CallTimely, Lasts, Lasting, AtRest
<1>3. CASE McpRestarts \/ EndCall
  BY <1>3 DEF McpRestarts, EndCall, NoCall, CallTimely, Lasts, AtRest
<1>4. ASSUME NEW j \in jwts, StartCall(j) PROVE CallTimely' /\ Lasts' /\ AtRest'
  <2>1. ~call.on /\ session.some /\ now < j.at + JwtLife
    BY <1>4 DEF StartCall, JwtAccepted
  <2>2. call'.on /\ call'.start = now /\ client' = session /\ req' = req /\ now' = now
    BY <1>4 DEF StartCall, hubVars
  <2>3. j.at <= session.refresh + LoginLife + CodeLife
    BY <1>0, <2>1 DEF JwtsCovered
  <2>4. now + CallLife < session.refresh + RefreshLife
    BY <1>0, <2>1, <2>3, Numbers
  <2>5. Lasts'
    BY <1>0, <2>1, <2>2, <2>4 DEF Lasts, Lasting, AtRest, NoReq
  <2> QED BY <1>0, <2>2, <2>5, Numbers DEF CallTimely, AtRest
<1>5. ASSUME NEW th \in Thread, Step(th) PROVE CallTimely' /\ Lasts' /\ AtRest'
  <2>1. call.on /\ call' = call /\ now' = now
    BY <1>5 DEF Step, SendRequest, RequestFails, Refused, AnswerRefresh, Adopt, AdoptRefresh,
                AnswerRequest, unrequested, At
  <2>2. CallTimely' /\ AtRest'
    BY <1>0, <2>1 DEF CallTimely, AtRest
  <2>3. \A u \in Thread : u # th => req'[u] = req[u]
    BY <1>0, <1>5 DEF Step, SendRequest, RequestFails, Refused, AnswerRefresh, Adopt,
                AdoptRefresh, AnswerRequest, Goto, TypeOK
  <2>5. \A t \in Nat : call.start <= t => Lasting(t)
    BY <1>0, Numbers DEF Lasting
  <2>6. Lasting(client'.refresh)
    BY <1>0, <1>5, <2>1, <2>5, StepRefreshes, Numbers DEF Lasts
  <2>7. req'[th].pc = "refreshing" => Lasting(req'[th].tok)
    BY <1>0, <1>5, <2>1, StepRefreshes DEF Lasts
  <2>8. req'[th].pc \in {"adopt", "adoptRefresh"} => call.start <= req'[th].tok
    BY <1>0, <1>5, <2>1, StepRefreshes DEF Lasts, CallTimely
  <2>9. Lasts'
    BY <1>0, <2>1, <2>3, <2>6, <2>7, <2>8 DEF Lasts, Lasting
  <2> QED BY <2>2, <2>9
<1> QED BY <1>1, <1>2, <1>3, <1>4, <1>5, HubKeeps, SignInKeeps DEF Next, callVars

\* A worker that looks at a token lists no more than it did.
LEMMA DropsOnly ==
  ASSUME TypeOK, NEW w \in Worker, NEW t, blacklist' = Dropped(w, t), call' = call, NEW x, Good(x)
  PROVE  Good(x)'
  BY DEF Dropped, Good, TypeOK

\* A good token is let in while the account is active.
LEMMA GoodIsLetIn ==
  ASSUME TypeOK, CallTimely, call.on, active, NEW x \in Nat, Good(x), NEW w \in Worker
  PROVE  Authenticated(w, x)
  BY LivesAreNumbers, Numbers
     DEF Authenticated, VerifyToken, Blacklisted, AccessLives, Good, CallTimely

\* Unless excused, what a call has refreshed stays good.
LEMMA RefreshedStep ==
  ASSUME IInv, Next
  PROVE  Refreshed'
<1> USE LivesAreNumbers
<1>0. TypeOK /\ CallTimely /\ Lasts /\ AtRest /\ Refreshed
  BY DEF IInv
<1>1. CASE UNCHANGED <<active, blacklist, callVars>>
  BY <1>0, <1>1 DEF Refreshed, Good, callVars
<1>2. CASE Tick \/ BrowserLogin \/ Activate
  <2>1. active' = active \/ ~active
    BY <1>2 DEF Tick, BrowserLogin, Activate
  <2>2. UNCHANGED <<blacklist, callVars>> /\ active \in BOOLEAN
    BY <1>0, <1>2 DEF Tick, BrowserLogin, Activate, TypeOK
  <2> QED BY <1>0, <2>1, <2>2 DEF Refreshed, Good, callVars
<1>3. CASE Deactivate
  BY <1>3 DEF Deactivate, Refreshed
<1>4. ASSUME NEW w \in Worker, WorkerRestarts(w) PROVE Refreshed'
  <2>1. \A t : Good(t) => Good(t)'
    BY <1>0, <1>4 DEF WorkerRestarts, Good, TypeOK, callVars
  <2> QED BY <1>0, <1>4, <2>1 DEF WorkerRestarts, Refreshed, callVars
<1>5. ASSUME NEW w \in Worker, NEW t \in browser, Logout(w, t) PROVE Refreshed'
  <2>1. UNCHANGED <<active, call, client, req>>
        /\ excused' = (excused \/ (call.on /\ t >= call.start))
    BY <1>5 DEF Logout
  <2>2. ASSUME ~excused', call.on PROVE \A x \in Nat : Good(x) => Good(x)'
    <3>1. ~(t >= call.start) /\ t \in Nat
      BY <1>0, <2>1, <2>2, Lifetimes DEF TypeOK, Time
    <3>2. \A v \in Worker : blacklist'[v] \subseteq blacklist[v] \cup {t}
      BY <1>0, <1>5 DEF Logout, Blacklist, Live, TypeOK
    <3> QED BY <1>0, <2>1, <3>1, <3>2, Numbers DEF Good
  <2> QED BY <1>0, <2>1, <2>2, Numbers DEF Refreshed
<1>6. ASSUME NEW d \in Device, NEW w \in Worker, GetUserInfo(d, w) \/ FinishLogin(d, w)
      PROVE  Refreshed'
  <2>1. UNCHANGED <<active, callVars>> /\ blacklist' = Dropped(w, login[d].at)
    BY <1>6 DEF GetUserInfo, FinishLogin
  <2>2. \A x : Good(x) => Good(x)'
    BY <1>0, <2>1, DropsOnly DEF callVars
  <2> QED BY <1>0, <2>1, <2>2 DEF Refreshed, callVars
<1>7. CASE McpRestarts \/ EndCall
  BY <1>7 DEF McpRestarts, EndCall, NoCall, Refreshed
<1>8. ASSUME NEW j \in jwts, StartCall(j) PROVE Refreshed'
  BY <1>0, <1>8 DEF StartCall, AtRest, NoReq, Refreshed, hubVars, TypeOK
<1>9. CASE \E d \in Device : RegisterClient(d) \/ BeginLogin(d) \/ LoginFails(d)
  BY <1>1, <1>9 DEF RegisterClient, BeginLogin, LoginFails, hubVars
<1>10. CASE \E c \in codes : ExchangeCode(c)
  BY <1>1, <1>10 DEF ExchangeCode, hubVars
<1>11. ASSUME NEW th \in Thread, Step(th) PROVE Refreshed'
  <2>0. call.on /\ call' = call /\ now' = now /\ active' = active
    BY <1>11 DEF Step, SendRequest, RequestFails, Refused, AnswerRefresh, Adopt, AdoptRefresh,
                 AnswerRequest, unrequested, At
  <2>1. CASE SendRequest(th)
    BY <1>0, <2>0, <2>1 DEF SendRequest, Refreshed, Good, At, Bearer, TypeOK
  <2>2. CASE RequestFails(th)
    BY <2>2 DEF RequestFails, Refreshed
  <2>3. CASE Refused(th)
    BY <1>0, <2>0, <2>3 DEF Refused, Goto, Refreshed, Good, At, MayRefresh, TypeOK
  <2>4. CASE AnswerRefresh(th)
    <3>1. SUFFICES ASSUME ~excused' PROVE Refreshed'
      BY DEF Refreshed
    <3>2. UNCHANGED <<blacklist, client>> /\ ~excused
      BY <1>0, <2>4, <3>1 DEF AnswerRefresh, TypeOK
    <3>3. active /\ RefreshLives(req[th].tok)
      BY <1>0, <2>0, <2>4, <3>2, Numbers DEF AnswerRefresh, At, Refreshed, Lasts, Lasting,
                                             RefreshLives, CallTimely
    <3>4. Good(now)
      BY <1>0, <2>0, <2>4, <3>1, <3>3 DEF AnswerRefresh, Good, CallTimely
    <3>5. req' = [req EXCEPT ![th].pc = "adopt", ![th].tok = now]
      BY <2>4, <3>3 DEF AnswerRefresh
    <3> QED BY <1>0, <2>0, <3>2, <3>4, <3>5 DEF Refreshed, Good, TypeOK
  <2>5. CASE Adopt(th)
    BY <1>0, <2>0, <2>5 DEF Adopt, Refreshed, Good, At, TypeOK
  <2>6. CASE AdoptRefresh(th)
    BY <1>0, <2>0, <2>6 DEF AdoptRefresh, Refreshed, Good, At, TypeOK, NoReq
  <2>7. ASSUME NEW w \in Worker, AnswerRequest(th, w) PROVE Refreshed'
    <3>1. SUFFICES ASSUME ~excused PROVE Refreshed'
      BY <2>7 DEF AnswerRequest, Refreshed
    <3>2. \A x : Good(x) => Good(x)'
      BY <1>0, <2>0, <2>7, DropsOnly DEF AnswerRequest
    <3>3. req[th].again => Authenticated(w, req[th].tok)
      BY <1>0, <2>0, <2>7, <3>1, GoodIsLetIn, Numbers DEF AnswerRequest, At, Refreshed
    <3>4. /\ \A u \in Thread : u # th => req'[u] = req[u]
          /\ req'[th].again = req[th].again
          /\ req'[th].pc \in {"got", "refused"}
          /\ req[th].again => req'[th].pc = "got"
      BY <1>0, <2>7, <3>3 DEF AnswerRequest, Goto, TypeOK
    <3> QED BY <1>0, <2>0, <2>7, <3>1, <3>2, <3>4 DEF AnswerRequest, Refreshed
  <2> QED BY <1>11, <2>1, <2>2, <2>3, <2>4, <2>5, <2>6, <2>7 DEF Step
<1> QED BY <1>2, <1>3, <1>4, <1>5, <1>6, <1>7, <1>8, <1>9, <1>10, <1>11 DEF Next

LEMMA SessionsInvariant == Spec => []IInv
<1>1. Init => IInv
  <2> SUFFICES ASSUME Init PROVE IInv
    OBVIOUS
  <2>1. TypeOK
    BY TypeAtFirst
  <2> QED BY <2>1 DEF Init, IInv, LoginsTimely, CodesCovered, JwtsCovered, CallTimely, Lasts,
                      Refreshed, AtRest, BarredListed, NoLogin, NoCall
<1>2. IInv /\ [Next]_vars => IInv'
  <2> SUFFICES ASSUME IInv, [Next]_vars PROVE IInv'
    OBVIOUS
  <2>1. CASE Next
    BY <2>1, TypeStep, SignInStep, CallStep, RefreshedStep, BarredStep DEF IInv
  <2>2. CASE UNCHANGED vars
    BY <2>2 DEF vars, hubVars, mcpVars, callVars, IInv, TypeOK, LoginsTimely, CodesCovered,
                JwtsCovered, CallTimely, Lasts, Lasting, Refreshed, Good, AtRest, BarredListed
  <2> QED BY <2>1, <2>2
<1> QED BY <1>1, <1>2, PTL DEF Spec

\* Whoever holds a JWT of this run of the MCP server has a session, and no
\* thread of a call fails without an excuse, for all lifetimes that leave a
\* refresh token longer than a login, a code, a JWT and a call together, and for
\* any number of threads, devices and workers (_http.py:280-299).
THEOREM SignedInStaysSignedIn == Spec => []SignedInWorks
<1>1. IInv => SignedInWorks
  BY DEF IInv, SignedInWorks, JwtsCovered, Refreshed, At
<1> QED BY <1>1, SessionsInvariant, PTL

\* A worker refuses a token that was logged out there until the worker restarts,
\* although expired entries are dropped at looks and cleanups
\* (auth/security.py:109-167).
THEOREM LogoutsHold == Spec => []LogoutHolds
<1>1. IInv => LogoutHolds
  <2> SUFFICES ASSUME IInv PROVE LogoutHolds
    OBVIOUS
  <2> QED BY Numbers, LivesAreNumbers
             DEF IInv, LogoutHolds, BarredListed, VerifyToken, Blacklisted
<1> QED BY <1>1, SessionsInvariant, PTL

-----------------------------------------------------------------------------
(* The keys of the hub's identity provider.                                *)

\* The pair of the files, as far as they are written.
PairKey == file["private"].key

NoFiles == file["private"] = Keys!Missing /\ file["public"] = Keys!Missing
BothFiles == /\ PairKey # Keys!NoKey
             /\ file["private"] = Keys!Pem(PairKey)
             /\ file["public"] = Keys!Pem(PairKey)

HasPair(w) == process[w].private = PairKey /\ process[w].public = PairKey
Partly(w) == process[w].pc \in {"writePrivate", "openPublic", "writePublic"}

\* Whoever generates, saves or looks again holds the lock.
Held ==
    \A w \in Process :
        process[w].pc \in Keys!Holding \/ (process[w].why = "locked" /\ process[w].pc \in Keys!Loading)
            => lock = w

LateIsTroubled == \A w \in Process : process[w].why = "late" => troubled

\* The files are there together, except while somebody saves them; who can see
\* the public file sees the private one.
Together ==
    /\ NoFiles \/ BothFiles \/ \E w \in Process : Partly(w)
    /\ file["public"] # Keys!Missing =>
          PairKey # Keys!NoKey /\ file["private"] = Keys!Pem(PairKey)

\* Where a worker is in its startup tells what the files hold, and what it holds
\* of them.  A private key without its public one is left by a look that
\* overtook a save.
Stage(w) ==
    LET pc == process[w].pc IN
    /\ pc = "generate" => NoFiles
    /\ pc = "openPrivate" =>
          NoFiles /\ process[w].private # Keys!NoKey /\ process[w].public = process[w].private
    /\ Partly(w) => HasPair(w) /\ PairKey # Keys!NoKey /\ ~file["public"].whole
    /\ pc = "writePrivate" => file["public"] = Keys!Missing
    /\ pc \in {"openPublic", "writePublic"} => file["private"] = Keys!Pem(PairKey)
    /\ pc \in {"release", "serving"} => BothFiles /\ HasPair(w)
    /\ pc \in {"readPrivate", "readPublic"} => file["public"] # Keys!Missing
    /\ pc = "readPublic" => process[w].read = file["private"]

\* Every token is signed by the pair of the files.
SignedByPair == \A t \in tokens : BothFiles /\ t.key = PairKey /\ t.kid

Sound == Together /\ SignedByPair /\ \A w \in Process : Stage(w)

KeysIInv == Keys!TypeOK /\ Held /\ LateIsTroubled /\ (~troubled => Sound)

Pcs == Keys!Loading \cup Keys!Holding \cup {"down", "lock", "serving"}
WorkerState == [pc : Pcs, why : {"early", "locked", "late"}, read : Keys!Content,
                private : Keys!Key \cup {Keys!NoKey}, public : Keys!Key \cup {Keys!NoKey}]

LEMMA KeyFacts ==
  /\ Keys!NoKey \notin Keys!Key
  /\ Keys!Missing \in Keys!Content /\ ~Keys!Missing.whole /\ Keys!Missing.key = Keys!NoKey
  /\ \A k \in Keys!Key \cup {Keys!NoKey} :
        /\ Keys!Empty(k) \in Keys!Content /\ Keys!Pem(k) \in Keys!Content
        /\ Keys!Empty(k).key = k /\ ~Keys!Empty(k).whole
        /\ Keys!Pem(k).key = k /\ Keys!Pem(k).whole
  /\ \A c \in Keys!Content : c.whole => c = Keys!Pem(c.key)
  /\ \A c \in Keys!Content : c.key \in Keys!Key \cup {Keys!NoKey}
  /\ Keys!Fresh \in WorkerState
  /\ Keys!NoWorker \notin Process
  BY KeysBounds DEF Keys!Bounds, Keys!NoKey, Keys!Key, Keys!Missing, Keys!Content, Keys!Empty,
                    Keys!Pem, Keys!Fresh, WorkerState, Pcs

LEMMA KeysTypes ==
  Keys!TypeOK <=>
    /\ process \in [Process -> WorkerState]
    /\ file \in [{"private", "public"} -> Keys!Content]
    /\ lock \in Process \cup {Keys!NoWorker}
    /\ lastKey \in 0..MaxKey
    /\ enabled \subseteq User /\ tokens \subseteq Keys!Token
    /\ troubled \in BOOLEAN
  BY DEF Keys!TypeOK, WorkerState, Pcs

\* What a step of a worker's startup does: to itself, and to the files.
LEMMA StartupKeepsOthers ==
  ASSUME Keys!TypeOK, NEW w \in Process,
         Keys!StartWorker(w) \/ Keys!Startup(w) \/ Keys!WorkerEnds(w)
  PROVE  /\ process' = [process EXCEPT ![w] = process'[w]]
         /\ UNCHANGED <<enabled, tokens>>
<1>1. process \in [Process -> WorkerState]
  BY KeysTypes
<1>2. CASE Keys!StartWorker(w) \/ Keys!WorkerEnds(w)
  BY <1>1, <1>2 DEF Keys!StartWorker, Keys!WorkerEnds, Keys!hub
<1>3. CASE Keys!Look(w) \/ Keys!ReadPrivate(w) \/ Keys!ReadPublic(w)
  BY <1>1, <1>3 DEF Keys!Look, Keys!ReadPrivate, Keys!ReadPublic, Keys!Goto, Keys!hub
<1>4. CASE Keys!AcquireLock(w) \/ Keys!LockFails(w) \/ Keys!ReleaseLock(w)
  BY <1>1, <1>4 DEF Keys!AcquireLock, Keys!LockFails, Keys!ReleaseLock, Keys!Goto, Keys!hub
<1>5. CASE Keys!GenerateKeypair(w) \/ Keys!GenerateFails(w)
  BY <1>1, <1>5 DEF Keys!GenerateKeypair, Keys!GenerateFails, Keys!Goto, Keys!hub
<1>6. CASE Keys!SaveKeys(w) \/ Keys!SaveFails(w)
  BY <1>1, <1>6 DEF Keys!SaveKeys, Keys!SaveFails, Keys!Goto, Keys!hub
<1> QED BY <1>2, <1>3, <1>4, <1>5, <1>6 DEF Keys!Startup

\* The steps of a startup keep the types.
LEMMA KeysTypeStep ==
  ASSUME Keys!TypeOK, NEW w \in Process,
         Keys!StartWorker(w) \/ Keys!Startup(w) \/ Keys!WorkerEnds(w)
  PROVE  Keys!TypeOK'
<1> USE KeyFacts
<1>0. /\ process \in [Process -> WorkerState] /\ process[w] \in WorkerState
      /\ file \in [{"private", "public"} -> Keys!Content]
      /\ lastKey \in 0..MaxKey /\ lock \in Process \cup {Keys!NoWorker} /\ troubled \in BOOLEAN
  BY KeysTypes
<1> SUFFICES /\ process'[w] \in WorkerState /\ lock' \in Process \cup {Keys!NoWorker}
             /\ file' \in [{"private", "public"} -> Keys!Content]
             /\ lastKey' \in 0..MaxKey /\ troubled' \in BOOLEAN
  <2>1. process' \in [Process -> WorkerState] /\ enabled' \subseteq User /\ tokens' \subseteq Keys!Token
    BY <1>0, StartupKeepsOthers, KeysTypes
  <2> QED BY <2>1, KeysTypes DEF Keys!TypeOK, WorkerState, Pcs
<1>1. CASE Keys!StartWorker(w)
  BY <1>0, <1>1 DEF Keys!StartWorker, WorkerState, Pcs, Keys!At, Keys!Loading, Keys!Holding,
                    Keys!Saving
<1>2. CASE Keys!Look(w)
  BY <1>0, <1>2 DEF Keys!Look, WorkerState, Pcs, Keys!At, Keys!Loading, Keys!Holding,
                    Keys!Saving, Keys!Goto, Keys!AfterFailure
<1>3. CASE Keys!ReadPrivate(w)
  BY <1>0, <1>3 DEF Keys!ReadPrivate, WorkerState, Pcs, Keys!At, Keys!Loading, Keys!Holding,
                    Keys!Saving
<1>4. CASE Keys!ReadPublic(w)
  BY <1>0, <1>4 DEF Keys!ReadPublic, WorkerState, Pcs, Keys!At, Keys!Loading, Keys!Holding,
                    Keys!Saving, Keys!AfterLoad, Keys!AfterFailure
<1>5. CASE Keys!AcquireLock(w)
  BY <1>0, <1>5 DEF Keys!AcquireLock, WorkerState, Pcs, Keys!At, Keys!Loading, Keys!Holding,
                    Keys!Saving, Keys!AfterLock
<1>6. CASE Keys!LockFails(w)
  BY <1>0, <1>6 DEF Keys!LockFails, WorkerState, Pcs, Keys!At, Keys!Loading, Keys!Holding,
                    Keys!Saving
<1>7. CASE Keys!GenerateKeypair(w)
  <2>1. lastKey' \in Keys!Key /\ lastKey' \in 0..MaxKey
    BY <1>0, <1>7, KeysBounds DEF Keys!GenerateKeypair, Keys!Key, Keys!Bounds
  <2> QED BY <1>0, <1>7, <2>1 DEF Keys!GenerateKeypair, WorkerState, Pcs, Keys!Holding,
                              Keys!Saving
<1>8. CASE Keys!GenerateFails(w)
  BY <1>0, <1>8 DEF Keys!GenerateFails, WorkerState, Pcs, Keys!At, Keys!Loading, Keys!Holding,
                    Keys!Saving, Keys!Goto
<1>9. CASE Keys!SaveKeys(w)
  BY <1>0, <1>9 DEF Keys!SaveKeys, WorkerState, Pcs, Keys!At, Keys!Loading, Keys!Holding,
                    Keys!Saving, Keys!Saved, Keys!AfterSave, Keys!Goto
<1>10. CASE Keys!SaveFails(w)
  BY <1>0, <1>10 DEF Keys!SaveFails, WorkerState, Pcs, Keys!At, Keys!Loading, Keys!Holding,
                     Keys!Saving, Keys!Goto
<1>11. CASE Keys!ReleaseLock(w)
  BY <1>0, <1>11 DEF Keys!ReleaseLock, WorkerState, Pcs, Keys!At, Keys!Loading, Keys!Holding,
                     Keys!Saving, Keys!Goto
<1>12. CASE Keys!WorkerEnds(w)
  BY <1>0, <1>12 DEF Keys!WorkerEnds, WorkerState, Pcs, Keys!At, Keys!Loading, Keys!Holding,
                     Keys!Saving
<1> QED BY <1>1, <1>2, <1>3, <1>4, <1>5, <1>6, <1>7, <1>8, <1>9, <1>10, <1>11,
                              <1>12 DEF Keys!Startup

\* Only the holder of the lock generates and saves, and nobody takes it from
\* the holder.
LEMMA HeldStep ==
  ASSUME Keys!TypeOK, Held, LateIsTroubled, NEW w \in Process,
         Keys!StartWorker(w) \/ Keys!Startup(w) \/ Keys!WorkerEnds(w)
  PROVE  Held' /\ LateIsTroubled'
<1> USE KeyFacts
<1>0. /\ process \in [Process -> WorkerState] /\ process[w] \in WorkerState
      /\ troubled \in BOOLEAN /\ process' = [process EXCEPT ![w] = process'[w]]
  BY KeysTypes, StartupKeepsOthers
<1>1. CASE Keys!StartWorker(w)
  BY <1>0, <1>1 DEF Keys!StartWorker, WorkerState, Pcs, Held, LateIsTroubled, Keys!At,
                    Keys!Fresh, Keys!Loading, Keys!Holding, Keys!Saving
<1>2. CASE Keys!Look(w)
  BY <1>0, <1>2 DEF Keys!Look, WorkerState, Pcs, Held, LateIsTroubled, Keys!At, Keys!Fresh,
                    Keys!Loading, Keys!Holding, Keys!Saving, Keys!Goto, Keys!AfterFailure
<1>3. CASE Keys!ReadPrivate(w)
  BY <1>0, <1>3 DEF Keys!ReadPrivate, WorkerState, Pcs, Held, LateIsTroubled, Keys!At,
                    Keys!Fresh, Keys!Loading, Keys!Holding, Keys!Saving
<1>4. CASE Keys!ReadPublic(w)
  <2>1. /\ process'[w].why = process[w].why /\ process[w].pc = "readPublic"
        /\ process'[w].pc \in {Keys!AfterLoad(process[w].why), Keys!AfterFailure(process[w].why)}
        /\ UNCHANGED <<lock, troubled>>
    BY <1>0, <1>4 DEF Keys!ReadPublic, WorkerState, Keys!At
  <2>2. process[w].why \in {"early", "locked", "late"}
    BY <1>0 DEF WorkerState
  <2>3. process'[w].pc \in Keys!Holding => process[w].why = "locked"
    BY <2>1, <2>2 DEF Keys!AfterLoad, Keys!AfterFailure, Keys!Holding, Keys!Saving
  <2>4. process[w].why = "locked" => lock = w
    BY <2>1 DEF Held, Keys!Loading
  <2> QED BY <1>0, <2>1, <2>3, <2>4 DEF Held, LateIsTroubled
<1>5. CASE Keys!AcquireLock(w)
  BY <1>0, <1>5 DEF Keys!AcquireLock, WorkerState, Pcs, Held, LateIsTroubled, Keys!At,
                    Keys!Fresh, Keys!Loading, Keys!Holding, Keys!Saving, Keys!AfterLock
<1>6. CASE Keys!LockFails(w)
  BY <1>0, <1>6 DEF Keys!LockFails, WorkerState, Pcs, Held, LateIsTroubled, Keys!At, Keys!Fresh,
                    Keys!Loading, Keys!Holding, Keys!Saving
<1>7. CASE Keys!GenerateKeypair(w)
  BY <1>0, <1>7 DEF Keys!GenerateKeypair, WorkerState, Pcs, Held, LateIsTroubled, Keys!At,
                    Keys!Fresh, Keys!Loading, Keys!Holding, Keys!Saving
<1>8. CASE Keys!GenerateFails(w)
  BY <1>0, <1>8 DEF Keys!GenerateFails, WorkerState, Pcs, Held, LateIsTroubled, Keys!At,
                    Keys!Fresh, Keys!Loading, Keys!Holding, Keys!Saving, Keys!Goto
<1>9. CASE Keys!SaveKeys(w)
  BY <1>0, <1>9 DEF Keys!SaveKeys, WorkerState, Pcs, Held, LateIsTroubled, Keys!At, Keys!Fresh,
                    Keys!Loading, Keys!Holding, Keys!Saving, Keys!Saved, Keys!AfterSave, Keys!Goto
<1>10. CASE Keys!SaveFails(w)
  BY <1>0, <1>10 DEF Keys!SaveFails, WorkerState, Pcs, Held, LateIsTroubled, Keys!At, Keys!Fresh,
                     Keys!Loading, Keys!Holding, Keys!Saving, Keys!Goto
<1>11. CASE Keys!ReleaseLock(w)
  BY <1>0, <1>11 DEF Keys!ReleaseLock, WorkerState, Pcs, Held, LateIsTroubled, Keys!At,
                     Keys!Fresh, Keys!Loading, Keys!Holding, Keys!Saving, Keys!Goto
<1>12. CASE Keys!WorkerEnds(w)
  BY <1>0, <1>12 DEF Keys!WorkerEnds, WorkerState, Pcs, Held, LateIsTroubled, Keys!At,
                     Keys!Fresh, Keys!Loading, Keys!Holding, Keys!Saving
<1> QED BY <1>1, <1>2, <1>3, <1>4, <1>5, <1>6, <1>7, <1>8, <1>9, <1>10, <1>11,
                              <1>12 DEF Keys!Startup

\* A step that writes no file need only be right about its own worker.
LEMMA FilesKept ==
  ASSUME Sound, NEW w \in Process, process \in [Process -> WorkerState],
         process' = [process EXCEPT ![w] = process'[w]],
         UNCHANGED <<file, tokens>>, ~Partly(w), Stage(w)'
  PROVE  Sound'
<1>1. \A u \in Process : u # w => process'[u] = process[u]
  OBVIOUS
<1>2. \A u \in Process : Partly(u) => Partly(u)'
  BY <1>1 DEF Partly
<1>3. Together'
  BY <1>2 DEF Sound, Together, NoFiles, BothFiles, PairKey
<1>4. SignedByPair'
  BY DEF Sound, SignedByPair, BothFiles, PairKey
<1>5. \A u \in Process : u # w => Stage(u)'
  BY <1>1 DEF Sound, Stage, Partly, HasPair, NoFiles, BothFiles, PairKey
<1> QED BY <1>3, <1>4, <1>5 DEF Sound

\* The steps of a startup that read, lock and generate.
LEMMA StartupSound ==
  ASSUME Keys!TypeOK, Held, LateIsTroubled, Sound, NEW w \in Process,
         ~troubled, ~troubled',
         \/ Keys!StartWorker(w) \/ Keys!Look(w) \/ Keys!ReadPrivate(w) \/ Keys!ReadPublic(w)
         \/ Keys!AcquireLock(w) \/ Keys!LockFails(w) \/ Keys!GenerateKeypair(w)
         \/ Keys!GenerateFails(w) \/ Keys!SaveFails(w) \/ Keys!ReleaseLock(w)
         \/ Keys!WorkerEnds(w)
  PROVE  Sound'
<1> USE KeyFacts
<1>0. /\ process \in [Process -> WorkerState] /\ process[w] \in WorkerState
      /\ process' = [process EXCEPT ![w] = process'[w]] /\ tokens' = tokens
      /\ file \in [{"private", "public"} -> Keys!Content]
  BY KeysTypes, StartupKeepsOthers DEF Keys!Startup
<1>1. process[w].why # "late"
  BY DEF LateIsTroubled
<1>2. Stage(w) /\ Together
  BY DEF Sound
\* Under the lock nobody else saves.
<1>3. process[w].why = "locked" /\ process[w].pc \in Keys!Loading => NoFiles \/ BothFiles
  BY <1>2 DEF Held, Together, Partly, Keys!Loading, Keys!Holding, Keys!Saving
<1>4. CASE Keys!StartWorker(w)
  <2>1. ~Partly(w) /\ file' = file /\ process'[w].pc = "look"
    BY <1>0, <1>4 DEF Keys!StartWorker, Keys!At, Partly, Keys!Fresh
  <2> QED BY <1>0, <2>1, FilesKept DEF Stage, Partly
<1>5. CASE Keys!Look(w)
  <2>1. /\ process[w].pc = "look" /\ file' = file
        /\ process'[w].pc \in {"lock", "generate", "readPrivate"}
        /\ process'[w].pc = "generate" =>
              process[w].why = "locked" /\ (file["private"] = Keys!Missing \/ file["public"] = Keys!Missing)
        /\ process'[w].pc = "readPrivate" => file["public"] # Keys!Missing
    BY <1>0, <1>1, <1>5 DEF Keys!Look, Keys!At, Keys!Goto, Keys!AfterFailure, WorkerState
  <2>2. process'[w].pc = "generate" => NoFiles
    BY <1>3, <2>1 DEF Keys!Loading, BothFiles, NoFiles, PairKey
  <2>3. Stage(w)' /\ ~Partly(w)
    BY <2>1, <2>2 DEF Stage, Partly, NoFiles
  <2> QED BY <1>0, <2>1, <2>3, FilesKept
<1>6. CASE Keys!ReadPrivate(w)
  <2>1. /\ process[w].pc = "readPrivate" /\ file' = file
        /\ process'[w].pc = "readPublic" /\ process'[w].read = file["private"]
    BY <1>0, <1>6 DEF Keys!ReadPrivate, Keys!At, WorkerState
  <2> QED BY <1>0, <1>2, <2>1, FilesKept DEF Stage, Partly
<1>7. CASE Keys!ReadPublic(w)
  <2>1. process[w].pc = "readPublic" /\ file' = file
    BY <1>7 DEF Keys!ReadPublic, Keys!At
  <2>2. process[w].read = Keys!Pem(PairKey) /\ PairKey # Keys!NoKey /\ process[w].read.whole
    BY <1>0, <1>2, <2>1 DEF Stage, Together, PairKey
  <2>3. ~Partly(w)
    BY <2>1 DEF Partly
  <2>4. CASE file["public"].whole
    <3>1. BothFiles
      BY <1>2, <2>2, <2>4 DEF Together, NoFiles, Sound, Stage
    <3>2. process'[w].private = PairKey /\ process'[w].public = PairKey
      BY <1>0, <1>7, <2>2, <2>4, <3>1 DEF Keys!ReadPublic, WorkerState, BothFiles, PairKey
    <3>3. process'[w].pc \in {"release", "serving"}
      BY <1>0, <1>7, <2>2, <2>4 DEF Keys!ReadPublic, WorkerState, Keys!AfterLoad
    <3>4. Stage(w)'
      BY <2>1, <3>1, <3>2, <3>3 DEF Stage, Partly, HasPair, BothFiles, PairKey
    <3> QED BY <1>0, <2>1, <2>3, <3>4, FilesKept
  <2>5. CASE ~file["public"].whole
    <3>1. process[w].why # "locked"
      <4>1. ~NoFiles
        BY <1>2, <2>1 DEF Stage, NoFiles
      <4>2. ~BothFiles
        BY <1>0, <2>5 DEF BothFiles, PairKey
      <4> QED BY <1>3, <2>1, <4>1, <4>2 DEF Keys!Loading
    <3>2. process'[w].pc = "lock"
      BY <1>0, <1>1, <1>7, <2>5, <3>1 DEF Keys!ReadPublic, WorkerState, Keys!AfterFailure
    <3>3. Stage(w)'
      BY <3>2 DEF Stage, Partly
    <3> QED BY <1>0, <2>1, <2>3, <3>3, FilesKept
  <2> QED BY <2>4, <2>5
<1>8. CASE Keys!AcquireLock(w)
  <2>1. process[w].pc = "lock" /\ file' = file /\ process'[w].pc = "look"
    BY <1>0, <1>8 DEF Keys!AcquireLock, Keys!At, Keys!AfterLock, WorkerState
  <2> QED BY <1>0, <2>1, FilesKept DEF Stage, Partly
<1>9. CASE Keys!LockFails(w) \/ Keys!GenerateFails(w) \/ Keys!SaveFails(w)
  BY <1>9 DEF Keys!LockFails, Keys!GenerateFails, Keys!SaveFails
<1>10. CASE Keys!GenerateKeypair(w)
  <2>1. lastKey' # Keys!NoKey
    BY <1>10, KeysTypes DEF Keys!GenerateKeypair, Keys!NoKey
  <2>2. /\ process[w].pc = "generate" /\ file' = file /\ process'[w].pc = "openPrivate"
        /\ process'[w].private = lastKey' /\ process'[w].public = lastKey'
    BY <1>0, <1>10 DEF Keys!GenerateKeypair, Keys!At, WorkerState
  <2> QED BY <1>0, <1>2, <2>1, <2>2, FilesKept DEF Stage, Partly, NoFiles
<1>11. CASE Keys!ReleaseLock(w)
  <2>1. /\ process[w].pc = "release" /\ file' = file /\ process'[w].pc = "serving"
        /\ process'[w].private = process[w].private /\ process'[w].public = process[w].public
    BY <1>0, <1>11 DEF Keys!ReleaseLock, Keys!At, Keys!Goto, WorkerState
  <2> QED BY <1>0, <1>2, <2>1, FilesKept DEF Stage, Partly, HasPair, BothFiles, PairKey
<1>12. CASE Keys!WorkerEnds(w)
  <2>1. ~Partly(w) /\ file' = file
    BY <1>12 DEF Keys!WorkerEnds, Partly, Keys!Saving
  <2>2. process'[w].pc = "down"
    BY <1>0, <1>12 DEF Keys!WorkerEnds, Keys!Fresh
  <2> QED BY <1>0, <2>1, <2>2, FilesKept DEF Stage, Partly
<1> QED BY <1>4, <1>5, <1>6, <1>7, <1>8, <1>9, <1>10, <1>11, <1>12

\* The writes, one file after the other, while the others wait or are behind.
LEMMA SaveSound ==
  ASSUME Keys!TypeOK, Held, Sound, NEW w \in Process, Keys!SaveKeys(w)
  PROVE  Sound'
<1> USE KeyFacts
<1> DEFINE pc == process[w].pc
           k == process[w].private
<1>0. /\ process \in [Process -> WorkerState] /\ k \in Keys!Key \cup {Keys!NoKey}
      /\ file \in [{"private", "public"} -> Keys!Content] /\ tokens' = tokens
  BY KeysTypes DEF WorkerState, Keys!SaveKeys, Keys!hub
<1>1. /\ pc \in Keys!Saving /\ file' = Keys!Saved(pc, k)
      /\ process'[w].pc = Keys!AfterSave(pc)
      /\ process'[w].private = k /\ process'[w].public = process[w].public
      /\ \A u \in Process : u # w => process'[u] = process[u]
  BY <1>0 DEF Keys!SaveKeys, Keys!Goto, WorkerState
<1>2. \A u \in Process : u # w => process[u].pc \notin Keys!Holding
  BY <1>1 DEF Held, Keys!Holding
<1>3. Stage(w) /\ Together /\ SignedByPair /\ \A u \in Process : Stage(u)
  BY DEF Sound
<1>4. CASE pc = "openPrivate"
  <2>1. NoFiles /\ k # Keys!NoKey /\ process[w].public = k
    BY <1>3, <1>4 DEF Stage
  <2>2. ~BothFiles /\ tokens = {}
    BY <1>3, <2>1 DEF BothFiles, NoFiles, PairKey, SignedByPair
  <2>3. file'["private"] = Keys!Empty(k) /\ file'["public"] = Keys!Missing
        /\ process'[w].pc = "writePrivate"
    BY <1>0, <1>1, <1>4, <2>1 DEF Keys!Saved, Keys!AfterSave, NoFiles
  <2>4. PairKey' = k
    BY <1>0, <2>3 DEF PairKey
  <2>5. \A u \in Process : u # w => Stage(u)'
    BY <1>1, <1>2, <1>3, <2>1, <2>2
       DEF Stage, Partly, Keys!Holding, Keys!Saving, NoFiles
  <2>6. Stage(w)'
    BY <1>0, <1>1, <2>1, <2>3, <2>4 DEF Stage, Partly, HasPair
  <2>7. Together' /\ SignedByPair'
    BY <1>0, <2>2, <2>3 DEF Together, Partly, SignedByPair
  <2> QED BY <2>5, <2>6, <2>7 DEF Sound
<1>5. CASE pc # "openPrivate"
  <2>1. Partly(w) /\ HasPair(w) /\ PairKey # Keys!NoKey /\ k = PairKey /\ ~file["public"].whole
    BY <1>1, <1>3, <1>5 DEF Stage, Partly, Keys!Saving, HasPair
  <2>2. tokens = {} /\ ~BothFiles /\ ~NoFiles
    BY <1>0, <1>3, <2>1 DEF SignedByPair, BothFiles, NoFiles, PairKey
  <2>3. PairKey' = PairKey
    BY <1>0, <1>1, <1>5, <2>1 DEF PairKey, Keys!Saved, Keys!Saving
  <2>4. file["public"] # Keys!Missing => file'["public"] # Keys!Missing
    BY <1>0, <1>1, <1>5, <2>1 DEF Keys!Saved, Keys!Saving
  <2>5. \A u \in Process : u # w => Stage(u)'
    <3>1. TAKE u \in Process
    <3>2. HAVE u # w
    <3>3. /\ process'[u] = process[u] /\ process[u].pc \notin Keys!Holding
          /\ process[u].pc \notin {"release", "serving"}
      BY <1>1, <1>2, <1>3, <2>2, <3>2 DEF Stage, Keys!Holding
    <3>4. process[u].pc \in {"readPrivate", "readPublic"} =>
             /\ file'["public"] # Keys!Missing /\ file["private"] = Keys!Pem(PairKey)
      BY <1>3, <2>4 DEF Stage, Together
    <3>5. process[u].pc \in {"readPrivate", "readPublic"} => file'["private"] = file["private"]
      BY <1>0, <1>1, <1>3, <1>5, <2>1, <3>4 DEF Keys!Saved, Keys!Saving, Stage
    <3> QED BY <1>3, <3>3, <3>4, <3>5 DEF Stage, Partly, Keys!Holding, Keys!Saving
  <2>6. CASE pc = "writePrivate"
    <3>1. /\ file'["private"] = Keys!Pem(PairKey) /\ file'["public"] = Keys!Missing
          /\ process'[w].pc = "openPublic"
      BY <1>0, <1>1, <1>3, <2>1, <2>6 DEF Stage, Keys!Saved, Keys!AfterSave
    <3>2. Stage(w)' /\ Partly(w)'
      BY <1>0, <1>1, <2>1, <2>3, <3>1 DEF Stage, Partly, HasPair
    <3>3. Together' /\ SignedByPair'
      BY <1>0, <2>2, <3>1, <3>2 DEF Together, SignedByPair
    <3> QED BY <2>5, <3>2, <3>3 DEF Sound
  <2>7. CASE pc = "openPublic"
    <3>1. /\ file'["private"] = Keys!Pem(PairKey) /\ file'["public"] = Keys!Empty(PairKey)
          /\ process'[w].pc = "writePublic"
      BY <1>0, <1>1, <1>3, <2>1, <2>7 DEF Stage, Keys!Saved, Keys!AfterSave
    <3>2. Stage(w)' /\ Partly(w)'
      BY <1>0, <1>1, <2>1, <2>3, <3>1 DEF Stage, Partly, HasPair, PairKey
    <3>3. Together' /\ SignedByPair'
      BY <1>0, <2>1, <2>2, <2>3, <3>1, <3>2 DEF Together, SignedByPair
    <3> QED BY <2>5, <3>2, <3>3 DEF Sound
  <2>8. CASE pc = "writePublic"
    <3>1. /\ file'["private"] = Keys!Pem(PairKey) /\ file'["public"] = Keys!Pem(PairKey)
          /\ process'[w].pc = "release"
      BY <1>0, <1>1, <1>3, <2>1, <2>8 DEF Stage, Keys!Saved, Keys!AfterSave
    <3>2. BothFiles'
      BY <2>1, <2>3, <3>1 DEF BothFiles
    <3>3. Stage(w)'
      BY <1>1, <2>1, <2>3, <3>1, <3>2 DEF Stage, Partly, HasPair
    <3>4. Together' /\ SignedByPair'
      BY <1>0, <2>1, <2>2, <2>3, <3>1, <3>2 DEF Together, SignedByPair
    <3> QED BY <2>5, <3>3, <3>4 DEF Sound
  <2> QED BY <1>1, <1>5, <2>6, <2>7, <2>8 DEF Keys!Saving
<1> QED BY <1>4, <1>5

\* The steps that issue and verify tokens, and those that switch users, are no
\* part of a startup.
LEMMA TokenStep ==
  ASSUME KeysIInv,
         \/ \E w \in Process, aud \in User : Keys!GetGuestSatelliteToken(w, aud)
         \/ \E w \in Process, u, aud \in User : Keys!GetSatelliteToken(w, u, aud)
         \/ \E t \in tokens : Keys!TokenExpires(t)
         \/ \E u \in User : Keys!DeactivateUser(u) \/ Keys!ActivateUser(u)
  PROVE  KeysIInv'
<1> USE KeyFacts
<1>0. UNCHANGED <<process, file, lock, lastKey, troubled>>
  BY DEF Keys!GetGuestSatelliteToken, Keys!GetSatelliteToken, Keys!MintSatelliteToken,
         Keys!TokenExpires, Keys!DeactivateUser, Keys!ActivateUser
<1>1. Held' /\ LateIsTroubled'
  BY <1>0 DEF KeysIInv, Held, LateIsTroubled
<1>2. Together => Together'
  BY <1>0 DEF Together, NoFiles, BothFiles, PairKey, Partly
<1>3. \A w \in Process : Stage(w) => Stage(w)'
  BY <1>0 DEF Stage, Partly, HasPair, NoFiles, BothFiles, PairKey
<1>4. /\ process \in [Process -> WorkerState] /\ tokens \subseteq Keys!Token /\ enabled \subseteq User
      /\ ~troubled => Sound
  BY KeysTypes DEF KeysIInv
<1>5. ASSUME NEW w \in Process, NEW sub \in User \cup {Keys!Guest}, NEW aud \in User,
             Keys!MintSatelliteToken(w, sub, aud)
      PROVE  KeysIInv'
  <2>1. PICK t : /\ tokens' = tokens \cup {t} /\ t.key = process[w].private
                 /\ t.kid = (process[w].public # Keys!NoKey) /\ t \in Keys!Token
    <3>1. process[w].private \in Keys!Key
      BY <1>4, <1>5 DEF Keys!MintSatelliteToken, Keys!Configured, WorkerState
    <3> DEFINE t == [key |-> process[w].private, sub |-> sub, aud |-> aud,
                     kid |-> process[w].public # Keys!NoKey, live |-> TRUE]
    <3>2. t \in Keys!Token
      BY <3>1 DEF Keys!Token
    <3>3. tokens' = tokens \cup {t}
      BY <1>5 DEF Keys!MintSatelliteToken
    <3> QED BY <3>2, <3>3
  <2>2. Keys!TypeOK'
    BY <1>0, <1>5, <2>1 DEF KeysIInv, Keys!TypeOK, Keys!MintSatelliteToken
  <2>3. ~troubled => BothFiles /\ HasPair(w)
    BY <1>4, <1>5 DEF Sound, Stage, Keys!MintSatelliteToken, Keys!Configured, Keys!At
  <2>4. ~troubled => SignedByPair'
    BY <1>0, <1>4, <2>1, <2>3 DEF Sound, SignedByPair, BothFiles, HasPair, PairKey
  <2> QED BY <1>0, <1>1, <1>2, <1>3, <1>4, <2>2, <2>4 DEF KeysIInv, Sound
<1>6. ASSUME NEW t \in tokens, Keys!TokenExpires(t) PROVE KeysIInv'
  <2>1. PICK u : u \in Keys!Token /\ u.key = t.key /\ u.kid = t.kid /\ tokens' \subseteq tokens \cup {u}
    <3>1. t \in Keys!Token
      BY <1>4
    <3>2. [t EXCEPT !.live = FALSE] \in Keys!Token
      BY <3>1 DEF Keys!Token
    <3>3. tokens' \subseteq tokens \cup {[t EXCEPT !.live = FALSE]}
      BY <1>6 DEF Keys!TokenExpires
    <3> QED BY <3>1, <3>2, <3>3 DEF Keys!Token
  <2>2. Keys!TypeOK'
    BY <1>0, <1>4, <1>6, <2>1 DEF KeysIInv, Keys!TypeOK, Keys!TokenExpires
  <2>3. ~troubled => SignedByPair'
    BY <1>0, <1>4, <2>1 DEF Sound, SignedByPair, BothFiles, PairKey
  <2> QED BY <1>0, <1>1, <1>2, <1>3, <1>4, <2>2, <2>3 DEF KeysIInv, Sound
<1>7. ASSUME NEW u \in User, Keys!DeactivateUser(u) \/ Keys!ActivateUser(u) PROVE KeysIInv'
  <2>1. tokens' = tokens /\ enabled' \subseteq User
    BY <1>4, <1>7 DEF Keys!DeactivateUser, Keys!ActivateUser
  <2>2. Keys!TypeOK'
    BY <1>0, <2>1 DEF KeysIInv, Keys!TypeOK
  <2>3. Sound => SignedByPair'
    BY <1>0, <2>1 DEF Sound, SignedByPair, BothFiles, PairKey
  <2> QED BY <1>0, <1>1, <1>2, <1>3, <1>4, <2>2, <2>3 DEF KeysIInv, Sound
<1> QED BY <1>5, <1>6, <1>7 DEF Keys!GetGuestSatelliteToken, Keys!GetSatelliteToken

LEMMA KeysInvariant == Keys!Spec => []KeysIInv
<1>1. Keys!Init => KeysIInv
  <2> SUFFICES ASSUME Keys!Init PROVE KeysIInv
    OBVIOUS
  <2>1. \A w \in Process : process[w] = Keys!Fresh /\ process[w].pc = "down" /\ process[w].why = "early"
    BY DEF Keys!Init, Keys!Fresh
  <2>2. Keys!TypeOK
    <3>1. process \in [Process -> WorkerState] /\ file \in [{"private", "public"} -> Keys!Content]
      BY KeyFacts DEF Keys!Init
    <3>2. lock = Keys!NoWorker /\ lastKey = 0 /\ ~troubled /\ troubled \in BOOLEAN
      BY Zenon DEF Keys!Init
    <3>4. 0 \in 0..MaxKey
      BY KeysBounds DEF Keys!Bounds
    <3>3. enabled \subseteq User /\ tokens \subseteq Keys!Token
      BY DEF Keys!Init
    <3> QED BY <3>1, <3>2, <3>3, <3>4, KeysTypes
  <2>3. Held /\ LateIsTroubled
    BY <2>1 DEF Held, LateIsTroubled, Keys!Holding, Keys!Saving, Keys!Loading
  <2>4. Together /\ SignedByPair
    BY DEF Keys!Init, Together, NoFiles, SignedByPair
  <2>5. \A w \in Process : Stage(w)
    BY <2>1 DEF Stage, Partly
  <2> QED BY <2>2, <2>3, <2>4, <2>5 DEF KeysIInv, Sound
<1>2. KeysIInv /\ [Keys!Next]_(Keys!vars) => KeysIInv'
  <2> SUFFICES ASSUME KeysIInv, [Keys!Next]_(Keys!vars) PROVE KeysIInv'
    OBVIOUS
  <2>1. ASSUME NEW w \in Process, Keys!StartWorker(w) \/ Keys!Startup(w) \/ Keys!WorkerEnds(w)
        PROVE  KeysIInv'
    <3>1. Keys!TypeOK' /\ Held' /\ LateIsTroubled'
      BY <2>1, KeysTypeStep, HeldStep DEF KeysIInv
    <3>2. ~troubled' => ~troubled
      BY <2>1 DEF Keys!StartWorker, Keys!Startup, Keys!WorkerEnds, Keys!Look, Keys!ReadPrivate,
                  Keys!ReadPublic, Keys!AcquireLock, Keys!LockFails, Keys!GenerateKeypair,
                  Keys!GenerateFails, Keys!SaveKeys, Keys!SaveFails, Keys!ReleaseLock
    <3>3. ASSUME ~troubled' PROVE Sound'
      <4>1. CASE Keys!SaveKeys(w)
        BY <2>1, <3>2, <3>3, <4>1, SaveSound DEF KeysIInv
      <4>2. CASE ~Keys!SaveKeys(w)
        BY <2>1, <3>2, <3>3, <4>2, StartupSound DEF KeysIInv, Keys!Startup
      <4> QED BY <4>1, <4>2
    <3> QED BY <3>1, <3>3 DEF KeysIInv
  <2>2. CASE UNCHANGED Keys!vars
    BY <2>2 DEF Keys!vars, Keys!hub, KeysIInv, Keys!TypeOK, Held, LateIsTroubled, Sound, Together,
                SignedByPair, Stage, Partly, HasPair, NoFiles, BothFiles, PairKey
  <2> QED BY <2>1, <2>2, TokenStep DEF Keys!Next
<1> QED BY <1>1, <1>2, PTL DEF Keys!Spec

\* Every reachable state of the startups, the key files and the tokens has its
\* type, for any number of workers, users, keys and tokens.
THEOREM KeysTypeCorrect == Keys!Spec => []Keys!TypeOK
<1>1. KeysIInv => Keys!TypeOK
  BY DEF KeysIInv
<1> QED BY <1>1, KeysInvariant, PTL

\* A token is refused only for its age, its audience or its user, whichever of
\* any number of workers signs and verifies and however often they restart,
\* unless a save was cut short or a lock not obtained (auth/keys.py:10-15).
THEOREM TokensAreVerified == Keys!Spec => []TokensVerify
<1>1. KeysIInv => TokensVerify
  <2> SUFFICES ASSUME KeysIInv, ~troubled, NEW w \in Process, NEW t \in tokens, NEW service \in User,
                      Keys!At(w, "serving")
               PROVE  Keys!Verdict(w, t, service) \in {"valid", "token_expired", "audience_mismatch",
                                                       "user_inactive"}
    BY DEF TokensVerify, Keys!TokensVerify
  <2>1. BothFiles /\ HasPair(w) /\ t.key = PairKey /\ t.kid
    BY DEF KeysIInv, Sound, Stage, SignedByPair, Keys!At
  <2>2. Keys!Configured(w) /\ process[w].public # Keys!NoKey /\ t.key = process[w].public
    BY <2>1 DEF Keys!Configured, BothFiles, HasPair
  <2>3. Keys!Decoded(w, t, service) \in {"valid", "token_expired", "audience_mismatch"}
    BY <2>1, <2>2 DEF Keys!Decoded
  <2> QED BY <2>2, <2>3 DEF Keys!Verdict
<1> QED BY <1>1, KeysInvariant, PTL
=============================================================================
