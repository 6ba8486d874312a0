------------------------------ MODULE ApiTokens ------------------------------
(***************************************************************************)
(* The personal access tokens of one user of the hub: their management     *)
(* (routes /tokens of auth/router.py, services/api_token_service.py,       *)
(* repositories/api_token.py) and the requests they sign in                *)
(* (auth/db_dependencies.py).                                              *)
(*                                                                         *)
(* Requests run in threads, and every commit or query of a handler is a    *)
(* step of its own.  A query that fails ends its request, because          *)
(* PostgreSQL refuses what follows in the transaction; so only failures of *)
(* writes are of interest here.                                            *)
(*                                                                         *)
(* A token's text is drawn from 256 random bits and stored as a hash; the  *)
(* model names a token by its row.  The scopes are stored and shown, and   *)
(* no route looks at them.  Deleting a token's row has no route.           *)
(***************************************************************************)
EXTENDS Integers, FiniteSets, UnitOfWork

CONSTANTS Thread,            \* threads that handle requests
          Token,             \* rows of tokens (bound of the model)
          MaxTokensPerUser,  \* MAX_TOKENS_PER_USER
          MaxTime,           \* the clock stops here (bound of the model)
          MaxSwitches,       \* times the account is (de)activated (bound)
          MaxSigned          \* requests ever signed in (bound of the model)

VARIABLES token,     \* Token -> its row
          user,      \* whether the account is active, and how often that changed
          now,       \* the clock
          req,       \* Thread -> its request
          signed,    \* requests signed in so far
          revoked    \* history: tokens whose revocation has been committed

vars == <<token, user, now, req, signed, revoked>>

Never == -1
NoToken == [there |-> FALSE, active |-> FALSE, expires |-> Never, name |-> "given",
            used |-> FALSE]
Jwt == "jwt"                         \* an access token of a login
Call == [op : {"other", "list"}, on : {"none"}, expires : {Never}]
        \cup [op : {"get", "rename", "revoke"}, on : Token, expires : {Never}]
        \cup [op : {"create"}, on : {"none"}, expires : {Never} \cup (1..MaxTime)]

\* gone: history, the tokens that were revoked when the request began.
Idle == [at |-> "idle", call |-> [op |-> "other", on |-> "none", expires |-> Never],
         by |-> Jwt, read |-> NoToken, shown |-> {}, gone |-> {}]

Row == [there : BOOLEAN, active : BOOLEAN, expires : {Never} \cup (1..MaxTime),
        name : {"given", "renamed"}, used : BOOLEAN]
Request == [at : {"idle", "touch", "count", "insert", "list", "get", "find", "write", "answer"},
            call : Call, by : Token \cup {Jwt}, read : Row,
            shown : SUBSET Token, gone : SUBSET Token]

TypeOK ==
    /\ token \in [Token -> Row]
    /\ user \in [active : BOOLEAN, switches : 0..MaxSwitches]
    /\ now \in 0..MaxTime /\ signed \in 0..MaxSigned
    /\ req \in [Thread -> Request]
    /\ revoked \subseteq Token

ExistingTokens == {t \in Token : token[t].there}
ActiveTokens == {t \in ExistingTokens : token[t].active}

Init ==
    /\ token = [t \in Token |-> NoToken]
    /\ user = [active |-> TRUE, switches |-> 0]
    /\ now = 0
    /\ req = [th \in Thread |-> Idle]
    /\ signed = 0
    /\ revoked = {}

At(th, place) == req[th].at = place
Goto(th, place) == req' = [req EXCEPT ![th].at = place]
End(th) == req' = [req EXCEPT ![th] = Idle]
-----------------------------------------------------------------------------
(* Signing a request in *)

Accepts(t) ==
    /\ token[t].there /\ token[t].active
    /\ token[t].expires = Never \/ token[t].expires > now
    /\ user.active

CountSigned == signed < MaxSigned /\ signed' = signed + 1

ValidExpiry(e) == e = Never \/ e > now

\* The route of a call: where its handler begins.
Handler(op) == CASE op = "create" -> "count"
                 [] op = "list"   -> "list"
                 [] op = "get"    -> "get"
                 [] op \in {"rename", "revoke"} -> "find"
                 [] op = "other"  -> "answer"

\* A request that is refused changes nothing, and is left out.
AuthenticateWithApiToken(th, call, t) ==
    /\ At(th, "idle") /\ CountSigned
    /\ Accepts(t)
    /\ ValidExpiry(call.expires)
    /\ req' = [req EXCEPT ![th] = [Idle EXCEPT !.at = "touch", !.call = call, !.by = t,
                                               !.read = token[t], !.gone = revoked]]
    /\ UNCHANGED <<token, user, now, revoked>>

AuthenticateWithJwt(th, call) ==
    /\ At(th, "idle") /\ CountSigned
    /\ user.active
    /\ ValidExpiry(call.expires)
    /\ req' = [req EXCEPT ![th] = [Idle EXCEPT !.at = Handler(call.op), !.call = call,
                                               !.gone = revoked]]
    /\ UNCHANGED <<token, user, now, revoked>>

\* What the handlers set in the row they have read.
Used(read) == [read EXCEPT !.used = TRUE]
Renamed(read) == [read EXCEPT !.name = "renamed"]
Revoked(read) == [read EXCEPT !.active = FALSE]

\* The time of use is written, or that fails and nobody minds.  Either way the
\* session forgets the account and reads it again before the handler begins.
Touch(th) ==
    /\ At(th, "touch")
    /\ \/ token' = [token EXCEPT ![req[th].by] = Flush(@, req[th].read, Used(req[th].read))]
       \/ UNCHANGED token
    /\ IF user.active THEN Goto(th, Handler(req[th].call.op)) ELSE End(th)
    /\ UNCHANGED <<user, now, signed, revoked>>
-----------------------------------------------------------------------------
(* Managing tokens *)

\* Faulty: the limit is off by one.
AtMostLimit(n) == n <= MaxTokensPerUser

UnderLimit(n) == n < MaxTokensPerUser

CountTokens(th) ==
    /\ At(th, "count")
    /\ IF UnderLimit(Cardinality(ActiveTokens)) THEN Goto(th, "insert") ELSE End(th)
    /\ UNCHANGED <<token, user, now, signed, revoked>>

NewTokens == Token \ ExistingTokens
NewRow(e) == [NoToken EXCEPT !.there = TRUE, !.active = TRUE, !.expires = e]

InsertToken(th) ==
    /\ At(th, "insert")
    /\ \/ \E t \in NewTokens : token' = [token EXCEPT ![t] = NewRow(req[th].call.expires)]
       \/ UNCHANGED token                                   \* rolled back
    /\ End(th)
    /\ UNCHANGED <<user, now, signed, revoked>>

\* Active tokens only, unless asked; the number of all tokens is read after it.
ListTokens(th) ==
    /\ At(th, "list")
    /\ req' = [req EXCEPT ![th].at = "answer", ![th].shown = ActiveTokens]
    /\ UNCHANGED <<token, user, now, signed, revoked>>

\* Of one's own tokens only; none is a 404.
GetToken(th) ==
    LET t == req[th].call.on IN
    /\ At(th, "get")
    /\ IF token[t].there
       THEN req' = [req EXCEPT ![th].at = "answer", ![th].shown = {t} \cap ActiveTokens]
       ELSE End(th)
    /\ UNCHANGED <<token, user, now, signed, revoked>>

Find(th) ==
    LET t == req[th].call.on IN
    /\ At(th, "find")
    /\ IF token[t].there
       THEN req' = [req EXCEPT ![th].at = "write", ![th].read = token[t]]
       ELSE End(th)
    /\ UNCHANGED <<token, user, now, signed, revoked>>

UpdateToken(th) ==
    LET c == req[th].call
        read == req[th].read
    IN  /\ At(th, "write") /\ c.op = "rename"
        /\ \/ token' = [token EXCEPT ![c.on] = Flush(@, read, Renamed(read))]
           \/ UNCHANGED token                               \* rolled back
        /\ End(th)
        /\ UNCHANGED <<user, now, signed, revoked>>

RevokeToken(th) ==
    LET c == req[th].call
        read == req[th].read
    IN  /\ At(th, "write") /\ c.op = "revoke"
        /\ \/ /\ token' = [token EXCEPT ![c.on] = Flush(@, read, Revoked(read))]
              /\ revoked' = revoked \cup {c.on}
           \/ UNCHANGED <<token, revoked>>                  \* rolled back
        /\ End(th)
        /\ UNCHANGED <<user, now, signed>>

\* The rest of the handler, which writes no token.
Answer(th) == At(th, "answer") /\ End(th) /\ UNCHANGED <<token, user, now, signed, revoked>>
-----------------------------------------------------------------------------
(* An administrator, and time *)

SwitchUser ==
    /\ user.switches < MaxSwitches
    /\ user' = [active |-> ~user.active, switches |-> user.switches + 1]
    /\ UNCHANGED <<token, now, req, signed, revoked>>

Tick ==
    /\ now < MaxTime
    /\ now' = now + 1
    /\ UNCHANGED <<token, user, req, signed, revoked>>

Next ==
    \/ \E th \in Thread :
         \/ \E call \in Call : \/ AuthenticateWithJwt(th, call)
                               \/ \E t \in Token : AuthenticateWithApiToken(th, call, t)
         \/ Touch(th) \/ CountTokens(th) \/ InsertToken(th) \/ ListTokens(th) \/ GetToken(th) \/ Find(th)
         \/ UpdateToken(th) \/ RevokeToken(th) \/ Answer(th)
    \/ SwitchUser \/ Tick

Spec == Init /\ [][Next]_vars
-----------------------------------------------------------------------------
(* Properties *)

\* Requests that count before any of them inserts may pass the limit together,
\* but by no more than the other threads (api_token_service.py:63-72), however
\* many tokens are revoked, used or expire meanwhile.
TokensCapped == Cardinality(ActiveTokens) <= MaxTokensPerUser + Cardinality(Thread) - 1

\* Once its revocation is committed, a token signs no request in and is shown
\* as active to nobody, although requests that read its row before still write
\* to it (repositories/api_token.py:144-223; router.py:556 "This action cannot
\* be undone").
RevokedStaysRevoked ==
    \A th \in Thread : req[th].gone \cap ({req[th].by} \cup req[th].shown) = {}
=============================================================================
