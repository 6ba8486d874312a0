------------------------------ MODULE HubSessions ------------------------------
(***************************************************************************)
(* How long somebody stays signed in.  The hub issues access and refresh   *)
(* tokens (auth/security.py, auth_service.py); each of its worker          *)
(* processes keeps a blacklist of its own.  The MCP server signs a user in *)
(* at the hub, keeps the tokens as the user's session, and hands out a JWT *)
(* of its own through an authorization code (mcp/server.py).  A tool call  *)
(* with that JWT makes an SDK client from the session's tokens; the        *)
(* client's threads fetch satellite tokens side by side, and each of them  *)
(* refreshes and retries once when the hub says 401 (_http.py, auth.py).   *)
(* What is refreshed is not written back to the session.                   *)
(*                                                                         *)
(* Time is counted in the resolution of a token's exp.  A token of the hub *)
(* carries nothing but the user and exp, so tokens issued to a user at one *)
(* instant are one string: a token is named by the time it was issued.     *)
(***************************************************************************)
EXTENDS Naturals, FiniteSets

CONSTANTS Worker,      \* worker processes of the hub
          Thread,      \* threads of a tool call, one for each audience
          Device,      \* MCP clients of the one user
          AccessLife, RefreshLife, JwtLife, CodeLife,
          LoginLife,   \* a login's three requests time out before
          CallLife,    \* a tool call's requests time out before
          CleanupEvery,
          SharedKey,   \* RSA_PRIVATE_KEY is set: restarts keep the JWT key
          MaxTime,     \* bound: length of a behaviour
          MaxHeld      \* bound: codes and live JWTs at a time

(* 10 + 60 minutes against 7 days; requests end within a minute, an access *)
(* token lasts for 30.                                                     *)
ASSUME Lifetimes ==
    /\ {AccessLife, RefreshLife, JwtLife, CodeLife, LoginLife, CallLife, CleanupEvery,
        MaxTime, MaxHeld} \subseteq Nat
    /\ LoginLife < AccessLife /\ CallLife < AccessLife
    /\ LoginLife + CodeLife + JwtLife + CallLife < RefreshLife
    /\ CleanupEvery > 0 /\ SharedKey \in BOOLEAN

VARIABLES now,
          active,     \* is_active of the user
          blacklist,  \* Worker -> access tokens on its token_blacklist
          inserts,    \* Worker -> _blacklist_insert_count, modulo CleanupEvery
          barred,     \* history: Worker -> tokens logged out there since it started
          browser,    \* access tokens of the user's other sessions
          clients,    \* oauth_clients
          login,      \* Device -> a login under way
          session,    \* syfthub_sessions[email]
          codes,      \* oauth_authorization_codes
          jwts,       \* JWTs handed out; ours: since the server last started
          call,       \* the tool call under way
          client,     \* its SDK client's tokens
          req,        \* Thread -> its request
          excused     \* history: what a failure of the call may be due to

hubVars  == <<active, blacklist, inserts, barred, browser>>
mcpVars  == <<clients, login, session, codes, jwts>>
callVars == <<call, client, req, excused>>
vars     == <<now, hubVars, mcpVars, callVars>>

Time    == 0..MaxTime
NoTokens == [access |-> 0, refresh |-> 0, some |-> FALSE]
TokensOf(t) == [access |-> t, refresh |-> t, some |-> TRUE]
NoLogin == [pc |-> "none", at |-> 0]
NoCall  == [on |-> FALSE, start |-> 0]
NoReq   == [pc |-> "idle", tok |-> 0, again |-> FALSE]

TypeOK ==
    /\ now \in Time /\ active \in BOOLEAN
    /\ blacklist \in [Worker -> SUBSET Time] /\ barred \in [Worker -> SUBSET Time]
    /\ inserts \in [Worker -> 0..(CleanupEvery - 1)]
    /\ browser \subseteq Time /\ clients \subseteq Device
    /\ login \in [Device -> [pc : {"none", "info", "accounting"}, at : Time]]
    /\ session \in [access : Time, refresh : Time, some : BOOLEAN]
    /\ codes \subseteq [device : Device, at : Time]
    /\ jwts \subseteq [at : Time, ours : BOOLEAN]
    /\ call \in [on : BOOLEAN, start : Time]
    /\ client \in [access : Time, refresh : Time, some : BOOLEAN]
    /\ req \in [Thread -> [pc : {"idle", "sent", "refused", "refreshing", "adopt", "adoptRefresh",
                                 "got", "failed"}, tok : Time, again : BOOLEAN]]
    /\ excused \in BOOLEAN

Init ==
    /\ now = 0 /\ active = TRUE /\ browser = {}
    /\ blacklist = [w \in Worker |-> {}] /\ barred = [w \in Worker |-> {}]
    /\ inserts = [w \in Worker |-> 0]
    /\ clients = {} /\ session = NoTokens /\ codes = {} /\ jwts = {}
    /\ login = [d \in Device |-> NoLogin]
    /\ call = NoCall /\ client = NoTokens /\ req = [th \in Thread |-> NoReq]
    /\ excused = FALSE

-----------------------------------------------------------------------------
(* Tokens of the hub.                                                      *)

(* The access token's exp (create_access_token) has not come.              *)
AccessLives(t)  == now < t + AccessLife
RefreshLives(t) == now < t + RefreshLife

(* is_token_blacklisted: an entry past its exp is dropped ...              *)
Blacklisted(w, t) == t \in blacklist[w] /\ now <= t + AccessLife
Dropped(w, t) ==
    [blacklist EXCEPT ![w] = IF Blacklisted(w, t) THEN @ ELSE @ \ {t}]

(* ... and verify_token looks at exp itself.                               *)
VerifyToken(w, t) == ~Blacklisted(w, t) /\ AccessLives(t)

(* get_current_active_user                                                 *)
Authenticated(w, t) == VerifyToken(w, t) /\ active

(* Faulty: the periodic cleanup empties the list.                          *)
LiveNone(tokens) == {}

(* cleanup_expired_tokens                                                  *)
Live(tokens) == {t \in tokens : now <= t + AccessLife}

(* blacklist_token: every CleanupEvery-th insertion cleans up.             *)
Blacklist(w, t) ==
    LET listed == blacklist[w] \cup {t}
    IN /\ inserts' = [inserts EXCEPT ![w] = (@ + 1) % CleanupEvery]
       /\ blacklist' = [blacklist EXCEPT ![w] = IF inserts'[w] = 0 THEN Live(listed)
                                                                   ELSE listed]

(* login_user for the user's other session, a browser's or a script's.     *)
BrowserLogin ==
    /\ active /\ browser = {}
    /\ browser' = browser \cup {now}
    /\ UNCHANGED <<now, active, blacklist, inserts, barred, mcpVars, callVars>>

(* logout: for whoever the token still authenticates.  It may be the       *)
(* string a call under way has just been given.                            *)
Logout(w, t) ==
    /\ Authenticated(w, t)
    /\ Blacklist(w, t)
    /\ barred' = [barred EXCEPT ![w] = @ \cup {t}]
    /\ browser' = browser \ {t}
    /\ excused' = (excused \/ (call.on /\ t >= call.start))
    /\ UNCHANGED <<now, active, mcpVars, call, client, req>>

(* The blacklist is the process's memory.                                  *)
WorkerRestarts(w) ==
    /\ blacklist' = [blacklist EXCEPT ![w] = {}]
    /\ barred' = [barred EXCEPT ![w] = {}]
    /\ inserts' = [inserts EXCEPT ![w] = 0]
    /\ UNCHANGED <<now, active, browser, mcpVars, callVars>>

Deactivate ==
    /\ active /\ active' = FALSE /\ excused' = call.on
    /\ UNCHANGED <<now, blacklist, inserts, barred, browser, mcpVars, call, client, req>>

Activate ==
    /\ ~active /\ active' = TRUE
    /\ UNCHANGED <<now, blacklist, inserts, barred, browser, mcpVars, callVars>>

(* Requests do not outlast their timeouts.  What has expired is forgotten, *)
(* except by the hub's blacklists and the MCP server's codes.              *)
Tick ==
    /\ now < MaxTime
    /\ \A d \in Device : login[d] # NoLogin => now < login[d].at + LoginLife
    /\ call.on => now < call.start + CallLife
    /\ now' = now + 1
    /\ browser' = {t \in browser : now' < t + AccessLife}
    /\ barred' = [w \in Worker |-> {t \in barred[w] : now' < t + AccessLife}]
    /\ jwts' = {j \in jwts : now' < j.at + JwtLife}
    /\ UNCHANGED <<active, blacklist, inserts, clients, login, session, codes, callVars>>
-----------------------------------------------------------------------------
(* The MCP server's sign-in.                                               *)

RegisterClient(d) ==
    /\ clients' = clients \cup {d}
    /\ UNCHANGED <<now, hubVars, login, session, codes, jwts, callVars>>

(* oauth_authorize shows the form to registered clients; the form's post   *)
(* signs in at the hub, which also refuses wrong passwords and full rate   *)
(* limits: then nothing happened.                                          *)
BeginLogin(d) ==
    /\ d \in clients /\ login[d] = NoLogin /\ active
    /\ Cardinality(codes) + Cardinality(jwts) < MaxHeld
    /\ login' = [login EXCEPT ![d] = [pc |-> "info", at |-> now]]
    /\ UNCHANGED <<now, hubVars, clients, session, codes, jwts, callVars>>

(* get_user_info: GET /auth/me with the new access token.                  *)
GetUserInfo(d, w) ==
    /\ login[d].pc = "info"
    /\ blacklist' = Dropped(w, login[d].at)
    /\ login' = [login EXCEPT ![d] = IF Authenticated(w, @.at)
                                     THEN [@ EXCEPT !.pc = "accounting"] ELSE NoLogin]
    /\ UNCHANGED <<now, active, inserts, barred, browser, clients, session, codes,
                   jwts, callVars>>

(* get_accounting_credentials, for which 404 is an answer, then the        *)
(* session is stored and the code issued in one go.                        *)
FinishLogin(d, w) ==
    /\ login[d].pc = "accounting" /\ Authenticated(w, login[d].at)
    /\ blacklist' = Dropped(w, login[d].at)
    /\ session' = TokensOf(login[d].at)
    /\ codes' = codes \cup {[device |-> d, at |-> now]}
    /\ login' = [login EXCEPT ![d] = NoLogin]
    /\ UNCHANGED <<now, active, inserts, barred, browser, clients, jwts, callVars>>

(* 401, 5xx, a timeout or no connection in one of the three requests.      *)
LoginFails(d) ==
    /\ login[d] # NoLogin
    /\ login' = [login EXCEPT ![d] = NoLogin]
    /\ UNCHANGED <<now, hubVars, clients, session, codes, jwts, callVars>>

(* oauth_token: an expired code is deleted, one of a client that is not    *)
(* registered stays, and a good one is used up.                            *)
ExchangeCode(c) ==
    /\ c \in codes
    /\ \/ /\ now > c.at + CodeLife
          /\ codes' = codes \ {c} /\ jwts' = jwts
       \/ /\ now <= c.at + CodeLife /\ c.device \in clients
          /\ jwts' = jwts \cup {[at |-> now, ours |-> TRUE]}
          /\ codes' = codes \ {c}
    /\ UNCHANGED <<now, hubVars, clients, login, session, callVars>>

(* JWTVerifier: exp, and a signature by the key in use.                    *)
JwtAccepted(j) == now < j.at + JwtLife /\ (SharedKey \/ j.ours)

(* Whatever the server holds is lost with its process.                     *)
McpRestarts ==
    /\ clients' = {} /\ session' = NoTokens /\ codes' = {}
    /\ login' = [d \in Device |-> NoLogin]
    /\ call' = NoCall /\ client' = NoTokens /\ req' = [th \in Thread |-> NoReq]
    /\ jwts' = {[j EXCEPT !.ours = FALSE] : j \in jwts}
    /\ excused' = FALSE
    /\ UNCHANGED <<now, hubVars>>

-----------------------------------------------------------------------------
(* A tool call: get_sdk_client_for_user copies the session's tokens.  A    *)
(* call without a session is told to authenticate, and changes nothing.    *)
StartCall(j) ==
    /\ ~call.on /\ j \in jwts /\ JwtAccepted(j) /\ session.some
    /\ call' = [on |-> TRUE, start |-> now]
    /\ client' = session
    /\ excused' = ~active
    /\ UNCHANGED <<now, hubVars, mcpVars, req>>

At(th, pc) == call.on /\ req[th].pc = pc
Goto(th, pc) == req' = [req EXCEPT ![th].pc = pc, ![th].tok = 0]
unrequested == <<now, active, inserts, barred, browser, mcpVars, call>>

(* Faulty: the headers are made once, with the client.                     *)
BearerOfSession(th) == session.access

(* The headers are made from the client's token of the moment, again when  *)
(* the request is retried.                                                 *)
Bearer(th) == client.access

SendRequest(th) ==
    /\ At(th, "idle")
    /\ req' = [req EXCEPT ![th].pc = "sent", ![th].tok = Bearer(th)]
    /\ UNCHANGED <<unrequested, blacklist, client, excused>>

(* GET /token answered by some worker.                                     *)
AnswerRequest(th, w) ==
    /\ At(th, "sent")
    /\ blacklist' = Dropped(w, req[th].tok)
    /\ Goto(th, IF Authenticated(w, req[th].tok) THEN "got" ELSE "refused")
    /\ UNCHANGED <<unrequested, client, excused>>

(* A timeout, a 5xx, an exhausted rate limit.                              *)
RequestFails(th) ==
    /\ At(th, "sent") \/ At(th, "refreshing")
    /\ Goto(th, "failed") /\ excused' = TRUE
    /\ UNCHANGED <<unrequested, blacklist, client>>

(* Faulty: the retry may be retried.                                       *)
MayRefreshAgain(th) == TRUE

(* request: only the first try is followed by a refresh.                   *)
MayRefresh(th) == ~req[th].again

Refused(th) ==
    /\ At(th, "refused")
    /\ IF MayRefresh(th)
       THEN req' = [req EXCEPT ![th].pc = "refreshing", ![th].tok = client.refresh]
       ELSE Goto(th, "failed")
    /\ UNCHANGED <<unrequested, blacklist, client, excused>>

(* POST /refresh: refresh_tokens issues a new pair; the old refresh token  *)
(* stays good.  The new access token may be the string of one that was     *)
(* logged out at this instant.                                             *)
AnswerRefresh(th) ==
    /\ At(th, "refreshing")
    /\ IF RefreshLives(req[th].tok) /\ active
       THEN /\ req' = [req EXCEPT ![th].pc = "adopt", ![th].tok = now]
            /\ excused' = (excused \/ \E w \in Worker : now \in blacklist[w])
       ELSE Goto(th, "failed") /\ UNCHANGED excused
    /\ UNCHANGED <<unrequested, blacklist, client>>

(* _attempt_refresh stores the two tokens one after the other, with no     *)
(* lock between the threads, and the request starts over.                  *)
Adopt(th) ==
    /\ At(th, "adopt")
    /\ client' = [client EXCEPT !.access = req[th].tok]
    /\ req' = [req EXCEPT ![th].pc = "adoptRefresh"]
    /\ UNCHANGED <<unrequested, blacklist, excused>>

AdoptRefresh(th) ==
    /\ At(th, "adoptRefresh")
    /\ client' = [client EXCEPT !.refresh = req[th].tok]
    /\ req' = [req EXCEPT ![th] = [NoReq EXCEPT !.again = TRUE]]
    /\ UNCHANGED <<unrequested, blacklist, excused>>

(* _parallel_fetch_tokens waits for all threads; a chat goes on with the   *)
(* tokens there are.                                                       *)
Fetched == \A th \in Thread : req[th].pc \in {"got", "failed"}

EndCall ==
    /\ call.on /\ Fetched
    /\ call' = NoCall /\ client' = NoTokens /\ req' = [th \in Thread |-> NoReq]
    /\ excused' = FALSE
    /\ UNCHANGED <<now, hubVars, mcpVars>>

-----------------------------------------------------------------------------
Step(th) ==
    \/ SendRequest(th) \/ RequestFails(th) \/ Refused(th)
    \/ AnswerRefresh(th) \/ Adopt(th) \/ AdoptRefresh(th)
    \/ \E w \in Worker : AnswerRequest(th, w)

Next ==
    \/ Tick \/ BrowserLogin \/ Deactivate \/ Activate
    \/ \E w \in Worker : WorkerRestarts(w) \/ \E t \in browser : Logout(w, t)
    \/ \E d \in Device : RegisterClient(d) \/ BeginLogin(d) \/ LoginFails(d)
    \/ \E d \in Device, w \in Worker : GetUserInfo(d, w) \/ FinishLogin(d, w)
    \/ \E c \in codes : ExchangeCode(c)
    \/ McpRestarts
    \/ \E j \in jwts : StartCall(j)
    \/ \E th \in Thread : Step(th)
    \/ EndCall

(* Every request is answered or times out, and threads run.                *)
Fairness == WF_vars(EndCall) /\ \A th \in Thread : WF_vars(Step(th))

Spec == Init /\ [][Next]_vars /\ Fairness

-----------------------------------------------------------------------------
(* Whoever holds a JWT of this run of the MCP server is signed in at the   *)
(* hub: there is a session, and every thread of every call gets its token, *)
(* though the access token of the session expired long ago, threads        *)
(* refresh at once and overwrite each other's tokens, other sessions log   *)
(* out, and nothing is written back - unless, during the call, the account *)
(* was inactive, a request failed, or a token issued in the same instant   *)
(* as a refreshed one was logged out (_http.py:280-299, server.py:199-235).*)
SignedInWorks ==
    /\ \A j \in jwts : j.ours => session.some
    /\ (\E th \in Thread : At(th, "failed")) => excused

(* A token logged out at a worker is refused there for the rest of its     *)
(* life, whatever is cleaned up in between (security.py:109-167), until    *)
(* the worker restarts.                                                    *)
LogoutHolds == \A w \in Worker : \A t \in barred[w] : ~VerifyToken(w, t)

(* Every tool call comes to an end: a refresh is not followed by another,  *)
(* even when the refreshed token is refused as well (_http.py:288-299).    *)
CallsEnd == call.on ~> ~call.on
=============================================================================
