--------------------------- MODULE AccountsProofs ---------------------------
(***************************************************************************)
(* Proofs about Accounts for every number of threads, addresses, accounts, *)
(* codes and failing calls: type correctness, the cap on comparisons with  *)
(* a code, the cap on codes per window, and that a verified address was    *)
(* proved.                                                                 *)
(***************************************************************************)
EXTENDS Accounts, FiniteSetTheorems, TLAPS

\* Threads that have read code c with attempts left and not counted theirs yet.
Readers(c) == {t \in Thread : req[t].pc = "increment" /\ req[t].code = c}

\* Threads that have passed the rate limit for e and p and not inserted yet.
Inserters(e, p) ==
    {t \in Thread : /\ req[t].pc \in {"invalidate", "insert"}
                    /\ req[t].email = e /\ PurposeOf(req[t].op) = p}

\* The codes that count against the limit for e and p.
Window(e, p) == {c \in Code : code[c].recent /\ code[c].email = e /\ code[c].purpose = p}

\* A code for an address was presented.
Matched(e) == \E c \in Code : code[c].matched /\ code[c].email = e

\* Ids that have not been given yet have no history, deleted codes are old, and
\* a handler holds ids that have been given, in the steps that use them.
Given ==
    /\ \A u \in User : account[u].row = "free" => account[u] = NoUser
    /\ \A c \in Code : code[c].row = "free" => code[c] = NoCode
    /\ \A c \in Code : code[c].recent => code[c].row \in {"unused", "used"}
    /\ \A u \in User : account[u].row = "live" => account[u].email \in account[u].held
    /\ \A t \in Thread :
         /\ req[t].pc \in {"send", "increment", "mark", "read_user", "set_verified"} =>
              req[t].code \in Code /\ code[req[t].code].row # "free"
         /\ req[t].pc = "set_verified" =>
              req[t].user \in User /\ account[req[t].user].row # "free"

\* While a code exists, its attempts are the comparisons but for those whose
\* count was lost; every thread that has read it may still compare once.
AttemptsCounted ==
    \A c \in Code :
        /\ code[c].row \in {"unused", "used"} => code[c].attempts + code[c].lost = code[c].compared
        /\ code[c].compared + Cardinality(Readers(c))
             <= MaxAttempts + (Cardinality(Thread) - 1) + code[c].lost

\* The codes of a window and those about to be inserted into it.
WindowCounted ==
    \A e \in Email, p \in Purpose :
        Cardinality(Window(e, p)) + Cardinality(Inserters(e, p))
            <= MaxRequests + (Cardinality(Thread) - 1)

\* A handler past the comparison has presented a code mailed to its address, or
\* to one that the account it is about to verify has had.
Presented ==
    \A t \in Thread :
        /\ req[t].pc = "increment" => code[req[t].code].email = req[t].email
        /\ req[t].pc \in {"mark", "read_user"} => Matched(req[t].email)
        /\ req[t].pc = "set_verified" =>
             \E e \in account[req[t].user].held : Matched(e)

IInv == TypeOK /\ Given /\ AttemptsCounted /\ WindowCounted /\ Presented /\ VerifiedProved
-----------------------------------------------------------------------------
(* Type correctness.                                                        *)

LEMMA BoundsAreNat ==
    /\ MaxUsers \in Nat /\ MaxCodes \in Nat /\ MaxAttempts \in Nat /\ MaxHandled \in Nat
    /\ MaxRequests \in Nat \ {0} /\ Failing \in Nat /\ Smtp \in BOOLEAN
    BY AccountsAssumption

\* The rows that the actions write have their types.
LEMMA RowFacts ==
    /\ NoUser \in Account /\ NoCode \in Otp /\ Idle \in Request
    /\ \A e \in Email : Registered(e) \in Account
    /\ \A e \in Email, p \in Purpose : NewCode(e, p) \in Otp
    /\ \A op : PurposeOf(op) \in Purpose
    /\ 0..MaxCodes = Code \cup {0} /\ 0..MaxUsers = User \cup {0}
  <1> USE BoundsAreNat DEF Account, Otp, Request, Address, Purpose
  <1>1. NoUser \in Account
      BY DEF NoUser
  <1>2. NoCode \in Otp
      BY DEF NoCode
  <1>3. Idle \in Request
      BY DEF Idle
  <1>4. ASSUME NEW e \in Email PROVE Registered(e) \in Account
      BY DEF Registered, NoUser
  <1>5. ASSUME NEW e \in Email, NEW p \in Purpose PROVE NewCode(e, p) \in Otp
      BY DEF NewCode, NoCode
  <1>6. \A op : PurposeOf(op) \in Purpose
      BY DEF PurposeOf
  <1>7. 0..MaxCodes = Code \cup {0} /\ 0..MaxUsers = User \cup {0}
      BY DEF Code, User
  <1> QED
      BY <1>1, <1>2, <1>3, <1>4, <1>5, <1>6, <1>7

LEMMA InitTypeOK == Init => TypeOK
  <1> SUFFICES ASSUME Init PROVE TypeOK
      OBVIOUS
  <1>1. PICK e \in Email :
             /\ account = [u \in User |-> IF u = 1 THEN Registered(e) ELSE NoUser]
             /\ code = [c \in Code |-> IF Smtp /\ c = 1
                  THEN [NewCode(e, "registration") EXCEPT !.mailed = TRUE] ELSE NoCode]
      BY DEF Init
  <1>2. [NewCode(e, "registration") EXCEPT !.mailed = TRUE] \in Otp
      BY RowFacts DEF Otp, Purpose
  <1>3. account \in [User -> Account] /\ code \in [Code -> Otp]
      BY <1>1, <1>2, RowFacts
  <1>4. /\ req \in [Thread -> Request]
        /\ \A t \in Thread : req[t].pc = "idle"
      BY RowFacts DEF Init, Idle
  <1>5. handled \in 0..MaxHandled /\ failures \in 0..Failing
      BY BoundsAreNat DEF Init
  <1> QED
      BY <1>3, <1>4, <1>5 DEF TypeOK

\* Handling one more request, and one more failure, stay within their bounds.
LEMMA CountFacts ==
    /\ TypeOK /\ Handle => handled' \in 0..MaxHandled
    /\ TypeOK /\ Fails => failures' \in 0..Failing
    BY BoundsAreNat DEF TypeOK, Handle, Fails

RequestsOK ==
    /\ req \in [Thread -> Request]
    /\ \A t \in Thread : req[t].pc # "idle" => req[t].email \in Email

\* Whatever comes next for a handler, its request is a Request.
LEMMA DoneFacts == ASSUME TypeOK, NEW t \in Thread, Done(t) PROVE RequestsOK'
    BY RowFacts DEF TypeOK, RequestsOK, Done, Idle

LEMMA GotoFacts ==
    ASSUME TypeOK, NEW t \in Thread,
           NEW pc \in {"count", "invalidate", "insert", "mark", "read_user"},
           req[t].pc # "idle", Goto(t, pc)
    PROVE  RequestsOK'
    BY DEF TypeOK, RequestsOK, Goto, Request

LEMMA StartFacts ==
    ASSUME TypeOK, NEW t \in Thread, NEW r \in Request, r.email \in Email, Start(t, r)
    PROVE  RequestsOK' /\ handled' \in 0..MaxHandled
    BY CountFacts DEF TypeOK, RequestsOK, Start

LEMMA StepTypeOK == TypeOK /\ [Next]_vars => TypeOK'
  <1> SUFFICES ASSUME TypeOK, [Next]_vars PROVE TypeOK'
      OBVIOUS
  <1> USE DEF TypeOK, RequestsOK
  <1>1. ASSUME NEW t \in Thread, NEW e \in Email,
               RegisterUser(t, e) \/ ResendCode(t, e) \/ RequestReset(t, e)
        PROVE  TypeOK'
    <2>1. \A op \in {"register", "resend", "forgot"}, pc \in {"create", "count"} :
            LET r == [Idle EXCEPT !.pc = pc, !.op = op, !.email = e]
            IN  r \in Request /\ r.email \in Email
        BY RowFacts DEF Request, Address, Idle
    <2> QED
        BY <1>1, <2>1, StartFacts DEF RegisterUser, ResendCode, RequestReset
  <1>2. ASSUME NEW t \in Thread, CreateUser(t) PROVE TypeOK'
    <2>1. RequestsOK'
        BY <1>2, DoneFacts, GotoFacts DEF CreateUser
    <2>2. failures' \in 0..Failing
        BY <1>2, CountFacts DEF CreateUser
    <2>3. account' \in [User -> Account]
      <3>1. Registered(req[t].email) \in Account
          BY <1>2, RowFacts DEF CreateUser
      <3> QED
          BY <1>2, <3>1 DEF CreateUser
    <2> QED
        BY <1>2, <2>1, <2>2, <2>3 DEF CreateUser
  <1>3. ASSUME NEW e \in Email, GoogleLogin(e) PROVE TypeOK'
    <2>1. [NoUser EXCEPT !.row = "live", !.email = e, !.google = TRUE, !.verified = TRUE,
                         !.token = TRUE, !.held = {e}] \in Account
        BY RowFacts DEF Account, Address
    <2> QED
        BY <1>3, <2>1, CountFacts DEF GoogleLogin
  <1>4. ASSUME NEW u \in User, NEW e \in Email, UpdateUser(u, e) PROVE TypeOK'
    <2>1. [account[u] EXCEPT !.email = e, !.held = @ \cup {e}] \in Account
        BY DEF Account, Address
    <2>2. account' \in [User -> Account]
        BY <1>4, <2>1 DEF UpdateUser
    <2> QED
        BY <1>4, <2>2, CountFacts DEF UpdateUser
  <1>5. ASSUME NEW u \in User, DeleteUser(u) PROVE TypeOK'
    <2>1. account' \in [User -> Account]
        BY <1>5 DEF DeleteUser, Account, Address
    <2> QED
        BY <1>5, <2>1, CountFacts DEF DeleteUser
  <1>6. ASSUME NEW t \in Thread, CountRecent(t) PROVE TypeOK'
      BY <1>6, DoneFacts, GotoFacts DEF CountRecent
  <1>7. ASSUME NEW t \in Thread, InvalidateExisting(t) PROVE TypeOK'
    <2>1. code' \in [Code -> Otp]
        BY <1>7 DEF InvalidateExisting, Otp
    <2> QED
        BY <1>7, <2>1, GotoFacts, CountFacts DEF InvalidateExisting
  <1>8. ASSUME NEW t \in Thread, CreateOtp(t) PROVE TypeOK'
    <2>1. CASE Done(t) /\ UNCHANGED code
        BY <1>8, <2>1, DoneFacts, CountFacts DEF CreateOtp
    <2>2. ASSUME NEW c \in Code,
                 code' = [code EXCEPT ![c] = NewCode(req[t].email, PurposeOf(req[t].op))],
                 req' = [req EXCEPT ![t].pc = "send", ![t].code = c],
                 UNCHANGED failures
          PROVE  TypeOK'
      <3>1. NewCode(req[t].email, PurposeOf(req[t].op)) \in Otp
          BY <1>8, RowFacts DEF CreateOtp
      <3> DEFINE r == [req[t] EXCEPT !.pc = "send", !.code = c]
      <3>2. r \in Request /\ r.email \in Email
          BY <1>8, RowFacts DEF CreateOtp, Request
      <3>3. RequestsOK'
        <4>1. req' = [req EXCEPT ![t] = r]
            BY <2>2
        <4> HIDE DEF r
        <4> QED
            BY <3>2, <4>1
      <3> QED
          BY <1>8, <2>2, <3>1, <3>3 DEF CreateOtp
    <2> QED
        BY <1>8, <2>1, <2>2 DEF CreateOtp
  <1>9. ASSUME NEW t \in Thread, SendOtpEmail(t) PROVE TypeOK'
    <2>1. PICK b \in BOOLEAN : code' = [code EXCEPT ![req[t].code].mailed = b]
        BY <1>9 DEF SendOtpEmail
    <2>2. code' \in [Code -> Otp]
        BY <2>1 DEF Otp
    <2> QED
        BY <1>9, <2>2, DoneFacts DEF SendOtpEmail
  <1>10. ASSUME NEW t \in Thread, NEW e \in Email, NEW op \in Proving, NEW b \in BOOLEAN,
                VerifyOtp(t, op, e, b)
         PROVE  TypeOK'
    <2>1. PICK c \in Code : Start(t, [Idle EXCEPT !.pc = "increment", !.op = op, !.email = e,
                                                   !.code = c, !.right = b])
        BY <1>10 DEF VerifyOtp, ActiveOtp, Usable
    <2>2. LET r == [Idle EXCEPT !.pc = "increment", !.op = op, !.email = e,
                                !.code = c, !.right = b]
          IN  r \in Request /\ r.email \in Email
        BY RowFacts DEF Request, Address, Idle
    <2> QED
        BY <1>10, <2>1, <2>2, StartFacts DEF VerifyOtp
  <1>11. ASSUME NEW t \in Thread, IncrementAttempts(t) PROVE TypeOK'
    <2>1. code' \in [Code -> Otp]
      <3> DEFINE c == req[t].code
                 m == code[c].matched \/ req[t].right
      <3>1. m \in BOOLEAN
          BY Zenon
      <3>2. \/ code' = [code EXCEPT ![c].compared = @ + 1, ![c].matched = m,
                           ![c].attempts = IF code[c].row = "deleted" THEN @ ELSE @ + 1]
            \/ code' = [code EXCEPT ![c].compared = @ + 1, ![c].matched = m, ![c].lost = @ + 1]
          BY <1>11 DEF IncrementAttempts
      <3> HIDE DEF m
      <3> QED
          BY <3>1, <3>2 DEF Otp
    <2>2. RequestsOK'
        BY <1>11, DoneFacts, GotoFacts DEF IncrementAttempts
    <2> QED
        BY <1>11, <2>1, <2>2, CountFacts DEF IncrementAttempts
  <1>12. ASSUME NEW t \in Thread, MarkUsed(t) PROVE TypeOK'
    <2>1. code' \in [Code -> Otp]
        BY <1>12 DEF MarkUsed, Otp
    <2> QED
        BY <1>12, <2>1, GotoFacts, CountFacts DEF MarkUsed
  <1>13. ASSUME NEW t \in Thread, ReadUser(t) PROVE TypeOK'
    <2>1. account' \in [User -> Account]
        BY <1>13 DEF ReadUser, Account, Request
    <2>2. RequestsOK'
      <3>1. CASE Done(t)
          BY <3>1, DoneFacts
      <3>2. ASSUME NEW u \in User,
                   req' = [req EXCEPT ![t].pc = "set_verified", ![t].user = u]
            PROVE  RequestsOK'
        <4> DEFINE r == [req[t] EXCEPT !.pc = "set_verified", !.user = u]
        <4>1. r \in Request /\ r.email \in Email
            BY <1>13, RowFacts DEF ReadUser, Request
        <4>2. req' = [req EXCEPT ![t] = r]
            BY <3>2
        <4> HIDE DEF r
        <4> QED
            BY <4>1, <4>2
      <3> QED
          BY <1>13, <3>1, <3>2 DEF ReadUser, ByEmail
    <2> QED
        BY <1>13, <2>1, <2>2 DEF ReadUser
  <1>14. ASSUME NEW t \in Thread, SetEmailVerified(t) PROVE TypeOK'
    <2> DEFINE u == req[t].user
               v == account[u].verified \/ Live(u)
               m == account[u].token \/ req[t].op = "verify"
    <2>1. v \in BOOLEAN /\ m \in BOOLEAN
        BY Zenon
    <2>2. \/ account' = [account EXCEPT ![u].verified = v, ![u].token = m]
          \/ account' = [account EXCEPT ![u].token = m]
        BY <1>14 DEF SetEmailVerified
    <2> HIDE DEF v, m
    <2>3. account' \in [User -> Account]
        BY <2>1, <2>2 DEF Account
    <2> QED
        BY <1>14, <2>3, DoneFacts, CountFacts DEF SetEmailVerified
  <1>15. ASSUME NEW c \in Code, Expire(c) PROVE TypeOK'
      BY <1>15 DEF Expire, Otp
  <1>16. CASE DeleteExpiredUsed
    <2>1. code' \in [Code -> Otp]
        BY <1>16 DEF DeleteExpiredUsed, Otp
    <2> QED
        BY <1>16, <2>1 DEF DeleteExpiredUsed
  <1>17. CASE UNCHANGED vars
      BY <1>17 DEF vars
  <1> QED
      BY <1>1, <1>2, <1>3, <1>4, <1>5, <1>6, <1>7, <1>8, <1>9, <1>10, <1>11, <1>12,
         <1>13, <1>14, <1>15, <1>16, <1>17
      DEF Next

\* Every reachable state of the accounts has its type.
THEOREM TypeCorrect == Spec => []TypeOK
    BY InitTypeOK, StepTypeOK, PTL DEF Spec

-----------------------------------------------------------------------------
(* How the tables and the handlers evolve.                                  *)

LEMMA FreshFacts ==
    /\ NoCode.row = "free" /\ NoCode.recent = FALSE /\ NoCode.matched = FALSE
    /\ NoCode.compared = 0 /\ NoCode.lost = 0 /\ NoCode.attempts = 0
    /\ NoUser.row = "free"
    /\ \A e, p : LET n == NewCode(e, p) IN
         /\ n.row = "unused" /\ n.email = e /\ n.purpose = p /\ n.recent = TRUE
         /\ n.compared = 0 /\ n.lost = 0 /\ n.attempts = 0 /\ n.matched = FALSE
    /\ \A e : LET r == Registered(e) IN
         /\ r.row = "live" /\ r.email = e /\ r.held = {e} /\ r.google = FALSE
         /\ r.verified = ~Smtp /\ r.token = ~Smtp
    BY DEF NoCode, NoUser, NewCode, Registered

\* A code is created where there was none, or keeps its address, its purpose and
\* its history; an old code does not get young.
CodeKept(c) ==
    /\ code[c].row # "free" /\ code'[c].row # "free"
    /\ code'[c].email = code[c].email /\ code'[c].purpose = code[c].purpose
    /\ code'[c].recent => code[c].recent /\ code'[c].row \in {"unused", "used"}
    /\ code[c].matched => code'[c].matched

CodeMade(c) ==
    /\ code[c].row = "free"
    /\ \E t \in Thread : /\ CreateOtp(t)
                         /\ code'[c] = NewCode(req[t].email, PurposeOf(req[t].op))

LEMMA CodeEvolves ==
    ASSUME TypeOK, Given, [Next]_vars, NEW c \in Code
    PROVE  code'[c] = code[c] \/ CodeKept(c) \/ CodeMade(c)
  <1> USE DEF TypeOK, Given, CodeKept
  <1>1. ASSUME NEW t \in Thread, InvalidateExisting(t)
        PROVE  code'[c] = code[c] \/ CodeKept(c)
      BY <1>1 DEF InvalidateExisting, Otp
  <1>2. ASSUME NEW t \in Thread, CreateOtp(t)
        PROVE  code'[c] = code[c] \/ CodeMade(c)
      BY <1>2 DEF CreateOtp, Fresh, CodeMade
  <1>3. ASSUME NEW t \in Thread, SendOtpEmail(t)
        PROVE  code'[c] = code[c] \/ CodeKept(c)
      BY <1>3 DEF SendOtpEmail, Otp
  <1>4. ASSUME NEW t \in Thread, IncrementAttempts(t)
        PROVE  code'[c] = code[c] \/ CodeKept(c)
      BY <1>4 DEF IncrementAttempts, Otp
  <1>5. ASSUME NEW t \in Thread, MarkUsed(t)
        PROVE  code'[c] = code[c] \/ CodeKept(c)
      BY <1>5 DEF MarkUsed, Otp
  <1>6. ASSUME NEW d \in Code, Expire(d)
        PROVE  code'[c] = code[c] \/ CodeKept(c)
      BY <1>6 DEF Expire, Otp
  <1>7. CASE DeleteExpiredUsed
      BY <1>7 DEF DeleteExpiredUsed, Stale, Otp
  <1>8. CASE UNCHANGED code
      BY <1>8
  <1> QED
      BY <1>1, <1>2, <1>3, <1>4, <1>5, <1>6, <1>7, <1>8
      DEF Next, vars, RegisterUser, ResendCode, RequestReset, CreateUser, GoogleLogin,
          UpdateUser, DeleteUser, CountRecent, VerifyOtp, ReadUser, SetEmailVerified

\* An address whose code was presented stays one.
LEMMA MatchedStays ==
    ASSUME TypeOK, Given, [Next]_vars, NEW e
    PROVE  Matched(e) => Matched(e)'
    BY CodeEvolves, FreshFacts DEF Matched, CodeKept, CodeMade, Given

\* An account is made where there was none, or keeps the addresses it has had.
LEMMA AccountEvolves ==
    ASSUME TypeOK, Given, [Next]_vars, NEW u \in User
    PROVE  /\ account[u].row # "free" =>
                 account'[u].row # "free" /\ account[u].held \subseteq account'[u].held
           /\ account'[u].row = "free" => account'[u] = account[u]
           /\ account'[u].row = "live" => account'[u].email \in account'[u].held
  <1> DEFINE P == /\ account[u].row # "free" =>
                       account'[u].row # "free" /\ account[u].held \subseteq account'[u].held
                  /\ account'[u].row = "free" => account'[u] = account[u]
                  /\ account'[u].row = "live" => account'[u].email \in account'[u].held
  <1> SUFFICES P
      OBVIOUS
  <1> USE DEF TypeOK, Given
  <1>1. ASSUME NEW t \in Thread, CreateUser(t) PROVE P
      BY <1>1, FreshFacts DEF CreateUser, Fresh
  <1>2. ASSUME NEW e \in Email, GoogleLogin(e) PROVE P
      BY <1>2 DEF GoogleLogin, Fresh, NoUser
  <1>3. ASSUME NEW v \in User, NEW e \in Email, UpdateUser(v, e) PROVE P
      BY <1>3 DEF UpdateUser, Live, Account
  <1>4. ASSUME NEW v \in User, DeleteUser(v) PROVE P
      BY <1>4 DEF DeleteUser, Live, Account
  <1>5. ASSUME NEW t \in Thread, ReadUser(t) PROVE P
      BY <1>5 DEF ReadUser, ByEmail, Live, Account
  <1>6. ASSUME NEW t \in Thread, SetEmailVerified(t) PROVE P
      BY <1>6 DEF SetEmailVerified, Live, Account
  <1>7. CASE UNCHANGED account
      BY <1>7
  <1> QED
      BY <1>1, <1>2, <1>3, <1>4, <1>5, <1>6, <1>7
      DEF Next, vars, RegisterUser, ResendCode, RequestReset, CountRecent, CreateOtp,
          InvalidateExisting, SendOtpEmail, VerifyOtp, IncrementAttempts, MarkUsed,
          Expire, DeleteExpiredUsed

-----------------------------------------------------------------------------
(* The ids that are in use.                                                 *)

LEMMA InitGiven == Init => Given
  <1> SUFFICES ASSUME Init PROVE Given
      OBVIOUS
  <1>1. PICK e \in Email :
             /\ account = [u \in User |-> IF u = 1 THEN Registered(e) ELSE NoUser]
             /\ code = [c \in Code |-> IF Smtp /\ c = 1
                  THEN [NewCode(e, "registration") EXCEPT !.mailed = TRUE] ELSE NoCode]
      BY DEF Init
  <1>2. LET n == [NewCode(e, "registration") EXCEPT !.mailed = TRUE]
        IN  n.row = "unused"
      BY DEF NewCode, NoCode
  <1>3. \A t \in Thread : req[t].pc = "idle"
      BY DEF Init, Idle
  <1> QED
      BY <1>1, <1>2, <1>3, FreshFacts DEF Given

\* What a handler holds has been given.
HandlerGiven(t) ==
    /\ req[t].pc \in {"send", "increment", "mark", "read_user", "set_verified"} =>
         req[t].code \in Code /\ code[req[t].code].row # "free"
    /\ req[t].pc = "set_verified" =>
         req[t].user \in User /\ account[req[t].user].row # "free"

LEMMA StepHandlerGiven ==
    ASSUME TypeOK, Given, [Next]_vars, NEW s \in Thread
    PROVE  HandlerGiven(s)'
  <1>1. \A c \in Code : code[c].row # "free" => code'[c].row # "free"
      BY CodeEvolves DEF CodeKept, CodeMade
  <1>2. \A u \in User : account[u].row # "free" => account'[u].row # "free"
      BY AccountEvolves
  <1>3. CASE req'[s] = req[s]
      BY <1>1, <1>2, <1>3 DEF HandlerGiven, Given
  <1>4. ASSUME NEW t \in Thread, Done(t) PROVE HandlerGiven(s)'
      BY <1>1, <1>2, <1>3, <1>4 DEF Done, Idle, HandlerGiven, TypeOK
  <1> USE DEF TypeOK
  <1>5. ASSUME NEW t \in Thread, NEW e \in Email,
               RegisterUser(t, e) \/ ResendCode(t, e) \/ RequestReset(t, e)
        PROVE  HandlerGiven(s)'
      BY <1>3, <1>5 DEF RegisterUser, ResendCode, RequestReset, Start, HandlerGiven, Idle
  <1>6. ASSUME NEW t \in Thread, CreateUser(t) \/ CountRecent(t) \/ InvalidateExisting(t)
        PROVE  HandlerGiven(s)'
      BY <1>3, <1>4, <1>6 
      DEF CreateUser, CountRecent, InvalidateExisting, Goto, HandlerGiven, Request
  <1>7. ASSUME NEW t \in Thread, CreateOtp(t) PROVE HandlerGiven(s)'
      BY <1>3, <1>4, <1>7, FreshFacts DEF CreateOtp, HandlerGiven, Request
  <1>8. ASSUME NEW t \in Thread, NEW e \in Email, NEW op \in Proving, NEW b \in BOOLEAN,
               VerifyOtp(t, op, e, b)
        PROVE  HandlerGiven(s)'
      BY <1>1, <1>3, <1>8 DEF VerifyOtp, ActiveOtp, Usable, Start, Idle, HandlerGiven
  <1>9. ASSUME NEW t \in Thread, IncrementAttempts(t) PROVE HandlerGiven(s)'
      BY <1>1, <1>3, <1>4, <1>9 DEF IncrementAttempts, Goto, HandlerGiven, Given, Request
  <1>10. ASSUME NEW t \in Thread, MarkUsed(t) PROVE HandlerGiven(s)'
      BY <1>1, <1>3, <1>10 DEF MarkUsed, Goto, HandlerGiven, Given
  <1>11. ASSUME NEW t \in Thread, ReadUser(t) PROVE HandlerGiven(s)'
      BY <1>1, <1>2, <1>3, <1>4, <1>11 
      DEF ReadUser, ByEmail, Live, HandlerGiven, Given, Request
  <1>12. ASSUME NEW t \in Thread, SendOtpEmail(t) \/ SetEmailVerified(t)
         PROVE  HandlerGiven(s)'
      BY <1>4, <1>12 DEF SendOtpEmail, SetEmailVerified
  <1>13. CASE UNCHANGED req
      BY <1>3, <1>13
  <1> QED
      BY <1>5, <1>6, <1>7, <1>8, <1>9, <1>10, <1>11, <1>12, <1>13
      DEF Next, vars, GoogleLogin, UpdateUser, DeleteUser, Expire, DeleteExpiredUsed

LEMMA StepGiven == TypeOK /\ Given /\ [Next]_vars => Given'
  <1> SUFFICES ASSUME TypeOK, Given, [Next]_vars PROVE Given'
      OBVIOUS
  <1>1. \A u \in User : /\ account'[u].row = "free" => account'[u] = NoUser
                        /\ account'[u].row = "live" => account'[u].email \in account'[u].held
      BY AccountEvolves DEF Given
  <1>2. \A c \in Code : /\ code'[c].row = "free" => code'[c] = NoCode
                        /\ code'[c].recent => code'[c].row \in {"unused", "used"}
      BY CodeEvolves, FreshFacts DEF Given, CodeKept, CodeMade
  <1>3. \A t \in Thread : HandlerGiven(t)'
      BY StepHandlerGiven
  <1> QED
      BY <1>1, <1>2, <1>3 DEF Given, HandlerGiven

-----------------------------------------------------------------------------
(* The attempts on a code.                                                  *)

\* Any set of threads is finite, and no larger than that of all threads.
LEMMA ThreadFacts ==
    /\ IsFiniteSet(Thread) /\ Cardinality(Thread) \in Nat \ {0}
    /\ \A T \in SUBSET Thread :
         IsFiniteSet(T) /\ Cardinality(T) \in Nat /\ Cardinality(T) <= Cardinality(Thread)
    BY AccountsAssumption, FS_EmptySet, FS_CardinalityType, FS_Subset

\* The attempts counted on one code, with those about to be counted.
CodeCounted(c) ==
    /\ code[c].row \in {"unused", "used"} => code[c].attempts + code[c].lost = code[c].compared
    /\ code[c].compared + Cardinality(Readers(c))
         <= MaxAttempts + (Cardinality(Thread) - 1) + code[c].lost

LEMMA InitAttemptsCounted == Init => AttemptsCounted
  <1> SUFFICES ASSUME Init, NEW c \in Code PROVE CodeCounted(c)
      BY DEF AttemptsCounted, CodeCounted
  <1>1. code[c].attempts = 0 /\ code[c].lost = 0 /\ code[c].compared = 0
      BY FreshFacts DEF Init, NewCode, NoCode
  <1>2. Readers(c) = {}
      BY DEF Init, Idle, Readers
  <1>3. Cardinality(Readers(c)) = 0
      BY <1>2, FS_EmptySet
  <1> QED
      BY <1>1, <1>3, ThreadFacts, BoundsAreNat DEF CodeCounted

\* A step that adds no reader of a code and counts nothing on it.
LEMMA QuietCounted ==
    ASSUME TypeOK, AttemptsCounted, NEW c \in Code, Readers(c)' \subseteq Readers(c),
           code'[c].attempts = code[c].attempts, code'[c].lost = code[c].lost,
           code'[c].compared = code[c].compared,
           code'[c].row \in {"unused", "used"} => code[c].row \in {"unused", "used"}
    PROVE  CodeCounted(c)'
  <1>1. /\ Cardinality(Readers(c)') \in Nat /\ Cardinality(Readers(c)) \in Nat
        /\ Cardinality(Readers(c)') <= Cardinality(Readers(c))
      BY ThreadFacts, FS_Subset DEF Readers
  <1>2. code[c].compared \in Nat /\ code[c].lost \in Nat /\ code[c].attempts \in Nat
      BY DEF TypeOK, Otp
  <1> QED
      BY <1>1, <1>2, ThreadFacts, BoundsAreNat DEF AttemptsCounted, CodeCounted

\* Reading a code with attempts left: however many others have read it too.
LEMMA VerifyCounted ==
    ASSUME TypeOK, AttemptsCounted, NEW t \in Thread, NEW e \in Email, NEW op \in Proving,
           NEW b \in BOOLEAN, VerifyOtp(t, op, e, b), NEW c \in Code
    PROVE  CodeCounted(c)'
  <1>1. PICK d \in Code :
             /\ code[d].row = "unused" /\ code[d].attempts < MaxAttempts
             /\ req[t].pc = "idle"
             /\ req' = [req EXCEPT ![t] = [Idle EXCEPT !.pc = "increment", !.op = op,
                                                      !.email = e, !.code = d, !.right = b]]
      BY DEF VerifyOtp, ActiveOtp, Usable, AttemptLeft, Start
  <1>2. UNCHANGED code
      BY DEF VerifyOtp
  <1>3. CASE c = d
    <2>1. Readers(c)' \in SUBSET Thread
        BY DEF Readers
    <2>2. Cardinality(Readers(c)') \in Nat /\ Cardinality(Readers(c)') <= Cardinality(Thread)
        BY <2>1, ThreadFacts
    <2>3. /\ code[c].compared \in Nat /\ code[c].lost \in Nat /\ code[c].attempts \in Nat
          /\ code[c].attempts + code[c].lost = code[c].compared
        BY <1>1, <1>3 DEF TypeOK, Otp, AttemptsCounted
    <2> QED
        BY <1>1, <1>2, <1>3, <2>2, <2>3, ThreadFacts, BoundsAreNat
        DEF AttemptsCounted, CodeCounted
  <1>4. CASE c # d
    <2>1. Readers(c)' \subseteq Readers(c)
        BY <1>1, <1>4 DEF Readers, Idle, TypeOK
    <2> QED
        BY <1>2, <2>1, QuietCounted
  <1> QED
      BY <1>3, <1>4

\* Counting an attempt, whether the count is written or lost.
LEMMA IncrementCounted ==
    ASSUME TypeOK, Given, AttemptsCounted, NEW t \in Thread, IncrementAttempts(t),
           NEW c \in Code
    PROVE  CodeCounted(c)'
  <1>1. /\ req[t].pc = "increment" /\ req[t].code \in Code
        /\ req'[t].pc # "increment"
        /\ \A s \in Thread : s # t => req'[s] = req[s]
      BY DEF IncrementAttempts, Goto, Done, Idle, TypeOK, Given, Request
  <1>2. CASE c = req[t].code
    <2>1. Readers(c)' = Readers(c) \ {t} /\ t \in Readers(c)
        BY <1>1, <1>2 DEF Readers
    <2>2. /\ Cardinality(Readers(c)') = Cardinality(Readers(c)) - 1
          /\ Cardinality(Readers(c)) \in Nat
        BY <2>1, ThreadFacts, FS_RemoveElement DEF Readers
    <2>3. /\ code[c].compared \in Nat /\ code[c].lost \in Nat /\ code[c].attempts \in Nat
        BY DEF TypeOK, Otp
    <2>4. /\ code'[c].compared = code[c].compared + 1 /\ code'[c].row = code[c].row
          /\ \/ /\ code'[c].lost = code[c].lost
                /\ code[c].row # "deleted" => code'[c].attempts = code[c].attempts + 1
             \/ code'[c].lost = code[c].lost + 1 /\ code'[c].attempts = code[c].attempts
        BY <1>2 DEF IncrementAttempts, TypeOK, Otp
    <2> QED
        BY <2>2, <2>3, <2>4, ThreadFacts, BoundsAreNat DEF AttemptsCounted, CodeCounted
  <1>3. CASE c # req[t].code
    <2>1. Readers(c)' \subseteq Readers(c)
        BY <1>1, <1>3 DEF Readers
    <2>2. code'[c] = code[c]
        BY <1>3 DEF IncrementAttempts, TypeOK
    <2> QED
        BY <2>1, <2>2, QuietCounted
  <1> QED
      BY <1>2, <1>3

\* A new code: nobody can have read it.
LEMMA CreateCounted ==
    ASSUME TypeOK, Given, AttemptsCounted, NEW t \in Thread, CreateOtp(t), NEW c \in Code
    PROVE  CodeCounted(c)'
  <1>1. /\ req'[t].pc # "increment"
        /\ \A s \in Thread : s # t => req'[s] = req[s]
      BY DEF CreateOtp, Done, Idle, TypeOK, Request
  <1>2. Readers(c)' \subseteq Readers(c)
      BY <1>1 DEF Readers
  <1>3. CASE code'[c] = code[c]
      BY <1>2, <1>3, QuietCounted
  <1>4. CASE code'[c] # code[c]
    <2>1. /\ code[c].row = "free"
          /\ code'[c].attempts = 0 /\ code'[c].lost = 0 /\ code'[c].compared = 0
        BY <1>4, FreshFacts DEF CreateOtp, Fresh, TypeOK
    <2>2. Readers(c) = {}
        BY <2>1 DEF Readers, Given
    <2>3. Readers(c)' = {}
        BY <1>2, <2>2
    <2>4. Cardinality(Readers(c)') = 0
        BY <2>3, FS_EmptySet
    <2> QED
        BY <2>1, <2>4, ThreadFacts, BoundsAreNat DEF CodeCounted
  <1> QED
      BY <1>3, <1>4

LEMMA StepAttemptsCounted ==
    TypeOK /\ Given /\ AttemptsCounted /\ [Next]_vars => AttemptsCounted'
  <1> SUFFICES ASSUME TypeOK, Given, AttemptsCounted, [Next]_vars, NEW c \in Code
               PROVE  CodeCounted(c)'
      BY DEF AttemptsCounted, CodeCounted
  <1> DEFINE Counts == /\ code'[c].attempts = code[c].attempts
                       /\ code'[c].lost = code[c].lost
                       /\ code'[c].compared = code[c].compared
                       /\ code'[c].row \in {"unused", "used"} => code[c].row \in {"unused", "used"}
  <1>1. ASSUME NEW t \in Thread, NEW e \in Email, NEW op \in Proving, NEW b \in BOOLEAN,
               VerifyOtp(t, op, e, b)
        PROVE  CodeCounted(c)'
      BY <1>1, VerifyCounted
  <1>2. ASSUME NEW t \in Thread, IncrementAttempts(t) PROVE CodeCounted(c)'
      BY <1>2, IncrementCounted
  <1>3. ASSUME NEW t \in Thread, CreateOtp(t) PROVE CodeCounted(c)'
      BY <1>3, CreateCounted
  <1>4. ASSUME NEW t \in Thread, NEW e \in Email,
               RegisterUser(t, e) \/ ResendCode(t, e) \/ RequestReset(t, e)
        PROVE  Readers(c)' \subseteq Readers(c) /\ Counts
      BY <1>4 DEF RegisterUser, ResendCode, RequestReset, Start, Idle, Readers, TypeOK
  <1>5. ASSUME NEW t \in Thread,
               \/ CreateUser(t) \/ CountRecent(t) \/ InvalidateExisting(t) \/ SendOtpEmail(t)
               \/ MarkUsed(t) \/ ReadUser(t) \/ SetEmailVerified(t)
        PROVE  Readers(c)' \subseteq Readers(c)
      BY <1>5 DEF CreateUser, CountRecent, InvalidateExisting, SendOtpEmail, MarkUsed, ReadUser,
             SetEmailVerified, Goto, Done, Idle, Readers, TypeOK, Request
  <1>6. ASSUME NEW t \in Thread,
               \/ CreateUser(t) \/ CountRecent(t) \/ ReadUser(t) \/ SetEmailVerified(t)
        PROVE  Counts
      BY <1>6 DEF CreateUser, CountRecent, ReadUser, SetEmailVerified
  <1>7. ASSUME NEW t \in Thread, InvalidateExisting(t) \/ SendOtpEmail(t) \/ MarkUsed(t)
        PROVE  Counts
    <2>1. CASE InvalidateExisting(t)
        BY <2>1 DEF InvalidateExisting, TypeOK, Otp
    <2>2. CASE SendOtpEmail(t)
        BY <2>2 DEF SendOtpEmail, TypeOK, Otp
    <2>3. CASE MarkUsed(t)
        BY <2>3 DEF MarkUsed, TypeOK, Otp
    <2> QED
        BY <1>7, <2>1, <2>2, <2>3
  <1>8. CASE UNCHANGED req /\ Counts
      BY <1>8, QuietCounted DEF Readers
  <1>9. ASSUME NEW d \in Code, Expire(d) PROVE UNCHANGED req /\ Counts
      BY <1>9 DEF Expire, TypeOK, Otp
  <1>10. ASSUME DeleteExpiredUsed PROVE UNCHANGED req /\ Counts
      BY <1>10 DEF DeleteExpiredUsed, TypeOK, Otp
  <1>11. CASE UNCHANGED <<code, req>>
      BY <1>8, <1>11
  <1> QED
      BY <1>1, <1>2, <1>3, <1>4, <1>5, <1>6, <1>7, <1>8, <1>9, <1>10, <1>11, QuietCounted
      DEF Next, vars, GoogleLogin, UpdateUser, DeleteUser

-----------------------------------------------------------------------------
(* The codes of a window.                                                   *)

PairCounted(e, p) ==
    Cardinality(Window(e, p)) + Cardinality(Inserters(e, p))
        <= MaxRequests + (Cardinality(Thread) - 1)

\* Any set of codes is finite.
LEMMA WindowFacts ==
    \A C \in SUBSET Code : IsFiniteSet(C) /\ Cardinality(C) \in Nat
  <1>1. IsFiniteSet(Code)
      BY BoundsAreNat, FS_Interval DEF Code
  <1> QED
      BY <1>1, FS_Subset, FS_CardinalityType

LEMMA InitWindowCounted == Init => WindowCounted
  <1> SUFFICES ASSUME Init, NEW e \in Email, NEW p \in Purpose PROVE PairCounted(e, p)
      BY DEF WindowCounted, PairCounted
  <1>1. Inserters(e, p) = {}
      BY DEF Init, Idle, Inserters
  <1>2. Window(e, p) \subseteq {1}
      BY DEF Init, Window, NoCode
  <1>3. Cardinality(Window(e, p)) \in Nat /\ Cardinality(Window(e, p)) <= 1
    <2>1. IsFiniteSet({1}) /\ Cardinality({1}) = 1
        BY FS_Singleton
    <2> QED
        BY <1>2, <2>1, FS_Subset, FS_CardinalityType
  <1>4. Cardinality(Inserters(e, p)) = 0
      BY <1>1, FS_EmptySet
  <1> QED
      BY <1>3, <1>4, ThreadFacts, BoundsAreNat DEF PairCounted

\* A step that adds no code and no handler about to insert one.
LEMMA QuietWindow ==
    ASSUME WindowCounted, NEW e \in Email, NEW p \in Purpose,
           Window(e, p)' \subseteq Window(e, p), Inserters(e, p)' \subseteq Inserters(e, p)
    PROVE  PairCounted(e, p)'
  <1>1. /\ Cardinality(Window(e, p)') \in Nat /\ Cardinality(Window(e, p)) \in Nat
        /\ Cardinality(Window(e, p)') <= Cardinality(Window(e, p))
      BY WindowFacts, FS_Subset DEF Window
  <1>2. /\ Cardinality(Inserters(e, p)') \in Nat /\ Cardinality(Inserters(e, p)) \in Nat
        /\ Cardinality(Inserters(e, p)') <= Cardinality(Inserters(e, p))
      BY ThreadFacts, FS_Subset DEF Inserters
  <1> QED
      BY <1>1, <1>2, ThreadFacts, BoundsAreNat DEF WindowCounted, PairCounted

\* Only an insertion adds to a window.
LEMMA WindowKept ==
    ASSUME TypeOK, Given, [Next]_vars, ~\E t \in Thread : CreateOtp(t), NEW e, NEW p
    PROVE  Window(e, p)' \subseteq Window(e, p)
    BY CodeEvolves DEF Window, CodeKept, CodeMade

\* Passing the limit: however many others have passed it too.
LEMMA CountRecentCounted ==
    ASSUME TypeOK, Given, WindowCounted, [Next]_vars, NEW t \in Thread, CountRecent(t),
           NEW e \in Email, NEW p \in Purpose
    PROVE  PairCounted(e, p)'
  <1>1. UNCHANGED code
      BY DEF CountRecent
  <1>2. Window(e, p)' = Window(e, p)
      BY <1>1 DEF Window
  <1>3. CASE Inserters(e, p)' \subseteq Inserters(e, p)
      BY <1>2, <1>3, QuietWindow
  <1>4. CASE ~(Inserters(e, p)' \subseteq Inserters(e, p))
    <2>1. UnderLimit(t) /\ req[t].email = e /\ PurposeOf(req[t].op) = p
        BY <1>4 DEF CountRecent, Inserters, Goto, Done, Idle, TypeOK, Request
    <2>2. RecentAlike(t) = Window(e, p)
        BY <2>1 DEF RecentAlike, Alike, Window, Given
    <2>3. Cardinality(Window(e, p)') < MaxRequests /\ Cardinality(Window(e, p)') \in Nat
        BY <1>2, <2>1, <2>2, WindowFacts DEF UnderLimit, Window
    <2>4. /\ Cardinality(Inserters(e, p)') \in Nat
          /\ Cardinality(Inserters(e, p)') <= Cardinality(Thread)
        BY ThreadFacts DEF Inserters
    <2> QED
        BY <2>3, <2>4, ThreadFacts, BoundsAreNat DEF PairCounted
  <1> QED
      BY <1>3, <1>4

\* An insertion turns a handler about to insert into a code.
LEMMA CreateOtpCounted ==
    ASSUME TypeOK, Given, WindowCounted, NEW t \in Thread, CreateOtp(t),
           NEW e \in Email, NEW p \in Purpose
    PROVE  PairCounted(e, p)'
  <1>1. /\ req[t].pc = "insert" /\ req'[t].pc \notin {"invalidate", "insert"}
        /\ \A s \in Thread : s # t => req'[s] = req[s]
      BY DEF CreateOtp, Done, Idle, TypeOK, Request
  <1>2. Inserters(e, p)' = Inserters(e, p) \ {t}
      BY <1>1 DEF Inserters
  <1>3. CASE UNCHANGED code
      BY <1>2, <1>3, QuietWindow DEF Window
  <1>4. ASSUME NEW c \in Code, code[c].row = "free",
               code' = [code EXCEPT ![c] = NewCode(req[t].email, PurposeOf(req[t].op))]
        PROVE  PairCounted(e, p)'
    <2>1. /\ code'[c].email = req[t].email /\ code'[c].purpose = PurposeOf(req[t].op)
          /\ code'[c].recent = TRUE
          /\ \A d \in Code : d # c => code'[d] = code[d]
        BY <1>4, FreshFacts DEF TypeOK
    <2>2. c \notin Window(e, p)
        BY <1>4, FreshFacts DEF Window, Given
    <2>3. CASE req[t].email = e /\ PurposeOf(req[t].op) = p
      <3>1. t \in Inserters(e, p)
          BY <1>1, <2>3 DEF Inserters
      <3>2. Window(e, p)' = Window(e, p) \cup {c}
          BY <2>1, <2>3 DEF Window
      <3>3. /\ Cardinality(Window(e, p)') = Cardinality(Window(e, p)) + 1
            /\ Cardinality(Window(e, p)) \in Nat
          BY <2>2, <3>2, WindowFacts, FS_AddElement DEF Window
      <3>4. /\ Cardinality(Inserters(e, p)') = Cardinality(Inserters(e, p)) - 1
            /\ Cardinality(Inserters(e, p)) \in Nat
        <4>1. Inserters(e, p) \in SUBSET Thread
            BY DEF Inserters
        <4>2. IsFiniteSet(Inserters(e, p)) /\ Cardinality(Inserters(e, p)) \in Nat
            BY <4>1, ThreadFacts
        <4> QED
            BY <1>2, <3>1, <4>2, FS_RemoveElement
      <3> QED
          BY <3>3, <3>4, ThreadFacts, BoundsAreNat DEF WindowCounted, PairCounted
    <2>4. CASE ~(req[t].email = e /\ PurposeOf(req[t].op) = p)
      <3>1. Window(e, p)' \subseteq Window(e, p)
          BY <2>1, <2>4 DEF Window
      <3> QED
          BY <1>2, <3>1, QuietWindow
    <2> QED
        BY <2>3, <2>4
  <1> QED
      BY <1>3, <1>4 DEF CreateOtp, Fresh

LEMMA StepWindowCounted ==
    TypeOK /\ Given /\ WindowCounted /\ [Next]_vars => WindowCounted'
  <1> SUFFICES ASSUME TypeOK, Given, WindowCounted, [Next]_vars,
                      NEW e \in Email, NEW p \in Purpose
               PROVE  PairCounted(e, p)'
      BY DEF WindowCounted, PairCounted
  <1>1. ASSUME NEW t \in Thread, CountRecent(t) PROVE PairCounted(e, p)'
      BY <1>1, CountRecentCounted
  <1>2. ASSUME NEW t \in Thread, CreateOtp(t) PROVE PairCounted(e, p)'
      BY <1>2, CreateOtpCounted
  <1>3. CASE /\ ~\E t \in Thread : CreateOtp(t) \/ CountRecent(t)
             /\ Inserters(e, p)' \subseteq Inserters(e, p)
      BY <1>3, WindowKept, QuietWindow
  <1> USE DEF Inserters, TypeOK
  <1>4. ASSUME NEW t \in Thread, NEW a \in Email,
               RegisterUser(t, a) \/ ResendCode(t, a) \/ RequestReset(t, a)
        PROVE  Inserters(e, p)' \subseteq Inserters(e, p)
    <2>1. req'[t].pc \in {"create", "count"} /\ \A s \in Thread : s # t => req'[s] = req[s]
        BY <1>4 DEF RegisterUser, ResendCode, RequestReset, Start, Idle
    <2> QED
        BY <2>1
  <1>5. ASSUME NEW t \in Thread, NEW a \in Email, NEW op \in Proving, NEW b \in BOOLEAN,
               VerifyOtp(t, op, a, b)
        PROVE  Inserters(e, p)' \subseteq Inserters(e, p)
      BY <1>5 DEF VerifyOtp, ActiveOtp, Usable, Start, Idle
  <1>6. ASSUME NEW t \in Thread,
               \/ CreateUser(t) \/ SendOtpEmail(t) \/ IncrementAttempts(t)
               \/ MarkUsed(t) \/ ReadUser(t) \/ SetEmailVerified(t)
        PROVE  Inserters(e, p)' \subseteq Inserters(e, p)
      BY <1>6 DEF CreateUser, SendOtpEmail, IncrementAttempts, MarkUsed, ReadUser,
             SetEmailVerified, Goto, Done, Idle, Request
  <1>7. ASSUME NEW t \in Thread, InvalidateExisting(t)
        PROVE  Inserters(e, p)' \subseteq Inserters(e, p)
      BY <1>7 DEF InvalidateExisting, Goto, Request
  <1>8. UNCHANGED req => Inserters(e, p)' \subseteq Inserters(e, p)
      OBVIOUS
  <1> HIDE DEF Inserters, TypeOK
  <1> QED
      BY <1>1, <1>2, <1>3, <1>4, <1>5, <1>6, <1>7, <1>8
      DEF Next, vars, GoogleLogin, UpdateUser, DeleteUser, Expire, DeleteExpiredUsed

-----------------------------------------------------------------------------
(* What a presented code is worth.                                          *)

LEMMA InitProved == Init => Presented /\ VerifiedProved
  <1> SUFFICES ASSUME Init PROVE Presented /\ VerifiedProved
      OBVIOUS
  <1>1. PICK e \in Email :
             account = [u \in User |-> IF u = 1 THEN Registered(e) ELSE NoUser]
      BY DEF Init
  <1>2. VerifiedProved
      BY <1>1, FreshFacts DEF VerifiedProved, NoUser
  <1>3. \A t \in Thread : req[t].pc = "idle"
      BY DEF Init, Idle
  <1> QED
      BY <1>2, <1>3 DEF Presented

HandlerPresented(t) ==
    /\ req[t].pc = "increment" => code[req[t].code].email = req[t].email
    /\ req[t].pc \in {"mark", "read_user"} => Matched(req[t].email)
    /\ req[t].pc = "set_verified" => \E e \in account[req[t].user].held : Matched(e)

\* The rows that speak for a handler go on to do so.
LEMMA PresentedStays ==
    ASSUME TypeOK, Given, Presented, [Next]_vars, NEW s \in Thread, req'[s] = req[s]
    PROVE  HandlerPresented(s)'
  <1>1. req[s].pc = "increment" => code'[req[s].code].email = code[req[s].code].email
    <2>1. req[s].pc = "increment" => req[s].code \in Code /\ code[req[s].code].row # "free"
        BY DEF Given
    <2> QED
        BY <2>1, CodeEvolves DEF CodeKept, CodeMade
  <1>2. \A e : Matched(e) => Matched(e)'
      BY MatchedStays
  <1>3. req[s].pc = "set_verified" =>
          account[req[s].user].held \subseteq account'[req[s].user].held
      BY AccountEvolves DEF Given
  <1> QED
      BY <1>1, <1>2, <1>3 DEF Presented, HandlerPresented

LEMMA StepPresented ==
    ASSUME TypeOK, Given, Presented, [Next]_vars, NEW s \in Thread
    PROVE  HandlerPresented(s)'
  <1>1. CASE req'[s] = req[s]
      BY <1>1, PresentedStays
  <1> DEFINE Elsewhere(t) == \A r \in Thread : r # t => req'[r] = req[r]
             Harmless == {"idle", "create", "count", "invalidate", "insert", "send"}
  <1>2. ASSUME NEW t \in Thread, Elsewhere(t), req'[t].pc \in Harmless
        PROVE  HandlerPresented(s)'
      BY <1>1, <1>2 DEF HandlerPresented
  <1> USE DEF TypeOK
  <1>3. ASSUME NEW t \in Thread, NEW e \in Email,
               RegisterUser(t, e) \/ ResendCode(t, e) \/ RequestReset(t, e)
        PROVE  Elsewhere(t) /\ req'[t].pc \in Harmless
      BY <1>3 DEF RegisterUser, ResendCode, RequestReset, Start, Idle
  <1>4. ASSUME NEW t \in Thread,
               \/ CreateUser(t) \/ CountRecent(t) \/ InvalidateExisting(t) \/ CreateOtp(t)
               \/ SendOtpEmail(t) \/ SetEmailVerified(t)
        PROVE  Elsewhere(t) /\ req'[t].pc \in Harmless
      BY <1>4 DEF CreateUser, CountRecent, InvalidateExisting, CreateOtp, SendOtpEmail,
             SetEmailVerified, Goto, Done, Idle, Request
  <1>5. ASSUME NEW t \in Thread, NEW e \in Email, NEW op \in Proving, NEW b \in BOOLEAN,
               VerifyOtp(t, op, e, b)
        PROVE  HandlerPresented(s)'
    <2>1. PICK c \in Code :
               /\ code[c].email = e
               /\ req' = [req EXCEPT ![t] = [Idle EXCEPT !.pc = "increment", !.op = op,
                                                        !.email = e, !.code = c, !.right = b]]
        BY <1>5 DEF VerifyOtp, ActiveOtp, Usable, Start
    <2>2. CASE s = t
        BY <1>5, <2>1, <2>2 DEF HandlerPresented, VerifyOtp, Idle
    <2>3. CASE s # t
        BY <1>1, <2>1, <2>3
    <2> QED
        BY <2>2, <2>3
  <1>6. ASSUME NEW t \in Thread, IncrementAttempts(t) PROVE HandlerPresented(s)'
    <2>1. CASE s = t
      <3>1. /\ req[t].pc = "increment" /\ req[t].code \in Code
            /\ code[req[t].code].email = req[t].email
          BY <1>6 DEF IncrementAttempts, Given, Presented
      <3>2. CASE req[t].right
        <4>1. req'[t].pc = "mark" /\ req'[t].email = req[t].email
            BY <1>6, <3>2 DEF IncrementAttempts, Matches, Goto, Request
        <4>2. code'[req[t].code].matched /\ code'[req[t].code].email = req[t].email
            BY <1>6, <3>1, <3>2 DEF IncrementAttempts, Otp
        <4> QED
            BY <2>1, <3>1, <4>1, <4>2 DEF HandlerPresented, Matched
      <3>3. CASE ~req[t].right
        <4>1. req'[t].pc = "idle"
            BY <1>6, <3>3 DEF IncrementAttempts, Matches, Done, Idle
        <4> QED
            BY <2>1, <4>1 DEF HandlerPresented
      <3> QED
          BY <3>2, <3>3
    <2>2. CASE s # t
        BY <1>1, <1>6, <2>2 DEF IncrementAttempts, Goto, Done
    <2> QED
        BY <2>1, <2>2
  <1>7. ASSUME NEW t \in Thread, MarkUsed(t) PROVE HandlerPresented(s)'
    <2>1. CASE s = t
      <3>1. req[t].pc = "mark" /\ req'[t].pc = "read_user" /\ req'[t].email = req[t].email
          BY <1>7 DEF MarkUsed, Goto, Request
      <3>2. Matched(req[t].email)'
          BY <3>1, MatchedStays DEF Presented
      <3> QED
          BY <2>1, <3>1, <3>2 DEF HandlerPresented, Matched
    <2>2. CASE s # t
        BY <1>1, <1>7, <2>2 DEF MarkUsed, Goto
    <2> QED
        BY <2>1, <2>2
  <1>8. ASSUME NEW t \in Thread, ReadUser(t) PROVE HandlerPresented(s)'
    <2>1. CASE Done(t)
        BY <1>2, <2>1 DEF Done, Idle
    <2>2. ASSUME NEW u \in ByEmail(req[t].email), UNCHANGED <<account, code>>,
                 req' = [req EXCEPT ![t].pc = "set_verified", ![t].user = u]
          PROVE  HandlerPresented(s)'
      <3>1. CASE s = t
        <4>1. req'[t].pc = "set_verified" /\ req'[t].user = u
            BY <2>2 DEF Request
        <4>2. req[t].email \in account[u].held
            BY <2>2 DEF ByEmail, Live, Given
        <4>3. Matched(req[t].email)
            BY <1>8 DEF ReadUser, Presented
        <4> QED
            BY <2>2, <3>1, <4>1, <4>2, <4>3 DEF HandlerPresented, Matched
      <3>2. CASE s # t
          BY <1>1, <2>2, <3>2
      <3> QED
          BY <3>1, <3>2
    <2> QED
        BY <1>8, <2>1, <2>2 DEF ReadUser
  <1> HIDE DEF TypeOK
  <1>9. CASE UNCHANGED req
      BY <1>1, <1>9
  <1> QED
      BY <1>2, <1>3, <1>4, <1>5, <1>6, <1>7, <1>8, <1>9
      DEF Next, vars, GoogleLogin, UpdateUser, DeleteUser, Expire, DeleteExpiredUsed

\* One account is proved, or needs no proof.
AccountProved(u) ==
    Smtp /\ ~account[u].google /\ (account[u].verified \/ account[u].token)
        => \E e \in account[u].held : Matched(e)

LEMMA ProvedIsProved == VerifiedProved <=> \A u \in User : AccountProved(u)
    BY DEF VerifiedProved, AccountProved, Matched

LEMMA StepVerifiedProved ==
    ASSUME TypeOK, Given, Presented, VerifiedProved, [Next]_vars, NEW u \in User
    PROVE  AccountProved(u)'
  <1>1. \A e : Matched(e) => Matched(e)'
      BY MatchedStays
  <1>2. account[u].row # "free" => account[u].held \subseteq account'[u].held
      BY AccountEvolves
  <1> USE DEF TypeOK
  <1>3. CASE account'[u] = account[u]
      BY <1>1, <1>3, ProvedIsProved DEF AccountProved
  <1>4. ASSUME NEW t \in Thread, CreateUser(t) PROVE AccountProved(u)'
    <2>1. \/ account'[u] = account[u]
          \/ account'[u].verified = ~Smtp /\ account'[u].token = ~Smtp
        BY <1>4, FreshFacts DEF CreateUser
    <2> QED
        BY <1>3, <2>1, Zenon DEF AccountProved
  <1>5. ASSUME NEW e \in Email, GoogleLogin(e) PROVE AccountProved(u)'
      BY <1>3, <1>5 DEF GoogleLogin, NoUser, AccountProved
  <1>6. ASSUME NEW v \in User, NEW e \in Email, UpdateUser(v, e) PROVE AccountProved(u)'
    <2>1. /\ account'[u].google = account[u].google /\ account'[u].token = account[u].token
          /\ account'[u].verified = account[u].verified
          /\ account[u].held \subseteq account'[u].held
        BY <1>6 DEF UpdateUser, Account
    <2> QED
        BY <1>1, <2>1, ProvedIsProved DEF AccountProved
  <1>7. ASSUME NEW v \in User, DeleteUser(v) PROVE AccountProved(u)'
      BY <1>3, <1>7 DEF DeleteUser, AccountProved, Account
  <1>8. ASSUME NEW t \in Thread, ReadUser(t) PROVE AccountProved(u)'
    <2>1. CASE ~account[u].verified
        BY <1>3, <1>8, <2>1 DEF ReadUser
    <2>2. CASE account[u].verified
      <3>1. /\ account'[u].google = account[u].google
            /\ account'[u].held = account[u].held
          BY <1>8 DEF ReadUser, Account
      <3> QED
          BY <1>1, <2>2, <3>1, ProvedIsProved DEF AccountProved
    <2> QED
        BY <2>1, <2>2
  <1>9. ASSUME NEW t \in Thread, SetEmailVerified(t) PROVE AccountProved(u)'
    <2>1. CASE u = req[t].user
      <3>1. \E e \in account[u].held : Matched(e)
          BY <1>9, <2>1 DEF SetEmailVerified, Presented
      <3>2. account'[u].held = account[u].held
          BY <1>9 DEF SetEmailVerified, Account
      <3> QED
          BY <1>1, <3>1, <3>2 DEF AccountProved
    <2>2. CASE u # req[t].user
        BY <1>3, <1>9, <2>2 DEF SetEmailVerified
    <2> QED
        BY <2>1, <2>2
  <1>10. CASE UNCHANGED account
      BY <1>3, <1>10
  <1> QED
      BY <1>4, <1>5, <1>6, <1>7, <1>8, <1>9, <1>10
      DEF Next, vars, RegisterUser, ResendCode, RequestReset, CountRecent, CreateOtp,
          InvalidateExisting, SendOtpEmail, VerifyOtp, IncrementAttempts, MarkUsed,
          Expire, DeleteExpiredUsed

-----------------------------------------------------------------------------
(* The invariant and what follows from it.                                  *)

LEMMA Invariance == Spec => []IInv
  <1>1. Init => IInv
      BY InitTypeOK, InitGiven, InitAttemptsCounted, InitWindowCounted, InitProved DEF IInv
  <1>2. IInv /\ [Next]_vars => IInv'
    <2> SUFFICES ASSUME IInv, [Next]_vars PROVE IInv'
        OBVIOUS
    <2>1. TypeOK' /\ Given' /\ AttemptsCounted' /\ WindowCounted'
        BY StepTypeOK, StepGiven, StepAttemptsCounted, StepWindowCounted DEF IInv
    <2>2. Presented'
        BY StepPresented DEF IInv, Presented, HandlerPresented
    <2>3. VerifiedProved'
      <3>1. \A u \in User : AccountProved(u)'
          BY StepVerifiedProved DEF IInv
      <3> QED
          BY <3>1 DEF VerifiedProved, AccountProved, Matched
    <2> QED
        BY <2>1, <2>2, <2>3 DEF IInv
  <1> QED
      BY <1>1, <1>2, PTL DEF Spec

\* However many threads race, a code is compared no more often than its attempts,
\* one more for each further thread, and the attempts whose count was lost.
THEOREM ComparisonsAreCapped == Spec => []ComparisonsCapped
  <1>1. IInv => ComparisonsCapped
    <2> SUFFICES ASSUME IInv, NEW c \in Code
                 PROVE  code[c].compared <= MaxAttempts + (Cardinality(Thread) - 1) + code[c].lost
        BY DEF ComparisonsCapped
    <2>1. Cardinality(Readers(c)) \in Nat
        BY ThreadFacts DEF Readers
    <2>2. code[c].compared \in Nat /\ code[c].lost \in Nat
        BY DEF IInv, TypeOK, Otp
    <2> QED
        BY <2>1, <2>2, ThreadFacts, BoundsAreNat DEF IInv, AttemptsCounted
  <1> QED
      BY <1>1, Invariance, PTL

\* The requests of other threads are all that the rate limit can miss.
THEOREM WindowsAreCapped == Spec => []CodesPerWindow
  <1>1. IInv => CodesPerWindow
    <2> SUFFICES ASSUME IInv, NEW e \in Email, NEW p \in Purpose
                 PROVE  Cardinality(Window(e, p)) <= MaxRequests + (Cardinality(Thread) - 1)
        BY DEF CodesPerWindow, Window
    <2>1. Cardinality(Window(e, p)) \in Nat /\ Cardinality(Inserters(e, p)) \in Nat
        BY ThreadFacts, WindowFacts DEF Window, Inserters
    <2> QED
        BY <2>1, ThreadFacts, BoundsAreNat DEF IInv, WindowCounted
  <1> QED
      BY <1>1, Invariance, PTL

\* With mail configured, an account is verified or given tokens only after a code
\* mailed to an address it has had was presented.
THEOREM VerifiedIsProved == Spec => []VerifiedProved
  <1>1. IInv => VerifiedProved
      BY DEF IInv
  <1> QED
      BY <1>1, Invariance, PTL
=============================================================================
