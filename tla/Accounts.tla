------------------------------ MODULE Accounts ------------------------------
(***************************************************************************)
(* Accounts of the hub and the one-time codes that prove an e-mail         *)
(* address: the handlers of auth/router.py and api/endpoints/users.py over *)
(* services/otp_service.py and the repositories of users and codes.        *)
(*                                                                         *)
(* A handler runs in a thread of its own and every repository call is a    *)
(* transaction of its own, so two handlers interleave between any two      *)
(* calls; that is the grain of the actions below.  A repository call that  *)
(* fails rolls back and returns False or None, and most callers go on as   *)
(* if it had worked: Failing bounds how often that happens.                *)
(*                                                                         *)
(* A client presents the right code when it reached it by mail, or a wrong *)
(* one; only an account of Google's has no password; a code expires when it*)
(* leaves the window of the rate limit, after ten minutes both in the      *)
(* default settings; the limit per client address, which counts the codes  *)
(* asked for from there for any account, may refuse any request.           *)
(***************************************************************************)
EXTENDS Naturals, FiniteSets

CONSTANTS Thread,       \* threads that handle requests
          Email,        \* addresses, in lower case
          Smtp,         \* settings.smtp_configured
          MaxUsers,     \* accounts ever created (bound of the model)
          MaxCodes,     \* codes ever created (bound of the model)
          MaxAttempts,  \* settings.otp_max_attempts
          MaxRequests,  \* settings.otp_rate_limit_max_requests
          MaxHandled,   \* requests ever handled (bound of the model)
          Failing       \* repository calls that fail (bound of the model)

ASSUME AccountsAssumption ==
    /\ Smtp \in BOOLEAN
    /\ {MaxUsers, MaxCodes, MaxAttempts, MaxRequests, MaxHandled, Failing} \subseteq Nat
    /\ MaxRequests > 0            \* the account of the initial state got its code
    /\ IsFiniteSet(Thread) /\ Thread # {}

VARIABLES account,  \* user id -> its row, and history: the addresses it has had
          code,     \* code id -> its row, and history: how it was used
          req,      \* Thread -> what the handler has read and what comes next
          handled,  \* requests that have begun
          failures  \* repository calls that have failed

vars == <<account, code, req, handled, failures>>

User == 1..MaxUsers
Code == 1..MaxCodes
Purpose == {"registration", "password_reset"}

NoUser == [row |-> "free", email |-> "none", google |-> FALSE, verified |-> FALSE,
           token |-> FALSE, held |-> {}]
NoCode == [row |-> "free", email |-> "none", purpose |-> "none", attempts |-> 0,
           recent |-> FALSE, mailed |-> FALSE,
           compared |-> 0, lost |-> 0, matched |-> FALSE]
Idle == [pc |-> "idle", op |-> "none", email |-> "none", code |-> 0, right |-> FALSE, user |-> 0]

Proving == {"verify", "confirm"}               \* handlers that present one
PurposeOf(op) == IF op \in {"forgot", "confirm"} THEN "password_reset" ELSE "registration"

Address == Email \cup {"none"}
Account == [row : {"free", "live", "deleted"}, email : Address, google : BOOLEAN,
            verified : BOOLEAN, token : BOOLEAN, held : SUBSET Email]
Otp == [row : {"free", "unused", "used", "deleted"}, email : Address,
        purpose : Purpose \cup {"none"}, attempts : Nat, recent : BOOLEAN,
        mailed : BOOLEAN, compared : Nat, lost : Nat, matched : BOOLEAN]
Request == [pc : {"idle", "create", "count", "invalidate", "insert", "send",
                  "increment", "mark", "read_user", "set_verified"},
            op : {"none", "register", "resend", "forgot"} \cup Proving,
            email : Address, code : 0..MaxCodes, right : BOOLEAN, user : 0..MaxUsers]

TypeOK ==
    /\ account \in [User -> Account]
    /\ code \in [Code -> Otp]
    /\ req \in [Thread -> Request]
    /\ \A t \in Thread : req[t].pc # "idle" => req[t].email \in Email
    /\ handled \in 0..MaxHandled /\ failures \in 0..Failing

Live(u) == account[u].row = "live"
Unique(e) == \A u \in User : Live(u) => account[u].email # e
ByEmail(e) == {u \in User : Live(u) /\ account[u].email = e}

(* The hub has just registered an account and, with mail configured,       *)
(* mailed it its code.                                                     *)
Registered(e) == [NoUser EXCEPT !.row = "live", !.email = e, !.verified = ~Smtp,
                                !.token = ~Smtp, !.held = {e}]
NewCode(e, p) == [NoCode EXCEPT !.row = "unused", !.email = e, !.purpose = p, !.recent = TRUE]

Init ==
    /\ \E e \in Email :
         /\ account = [u \in User |-> IF u = 1 THEN Registered(e) ELSE NoUser]
         /\ code = [c \in Code |-> IF Smtp /\ c = 1
               THEN [NewCode(e, "registration") EXCEPT !.mailed = TRUE] ELSE NoCode]
    /\ req = [t \in Thread |-> Idle]
    /\ handled = 0 /\ failures = 0

Done(t) == req' = [req EXCEPT ![t] = Idle]
Goto(t, pc) == req' = [req EXCEPT ![t].pc = pc]
Handle == handled < MaxHandled /\ handled' = handled + 1
Start(t, r) == req[t].pc = "idle" /\ req' = [req EXCEPT ![t] = r] /\ Handle
Fails == failures < Failing /\ failures' = failures + 1

(* The next id of a table; rows are never reused.                          *)
Fresh(f, i) == f[i].row = "free" /\ \A j \in DOMAIN f : j < i => f[j].row # "free"

-----------------------------------------------------------------------------
(* Registration: the address is looked up, and the row inserted later,     *)
(* under a unique constraint.  With mail configured a code follows, and    *)
(* tokens are given only for it; without, tokens are given at once.        *)
RegisterUser(t, e) ==
    /\ Unique(e)
    /\ Start(t, [Idle EXCEPT !.pc = "create", !.op = "register", !.email = e])
    /\ UNCHANGED <<account, code, failures>>

CreateUser(t) ==
    /\ req[t].pc = "create"
    /\ \/ /\ Unique(req[t].email)
          /\ \E u \in User :
               /\ Fresh(account, u)
               /\ account' = [account EXCEPT ![u] = Registered(req[t].email)]
          /\ IF Smtp THEN Goto(t, "count") ELSE Done(t)
          /\ UNCHANGED failures
       \/ ~Unique(req[t].email) /\ Done(t) /\ UNCHANGED <<account, failures>>
       \/ Fails /\ Done(t) /\ UNCHANGED account
    /\ UNCHANGED <<code, handled>>

(* Google's answer names an account of its own, known by its Google id, or *)
(* an address that no account has; the latter becomes an account without a *)
(* password whose address Google has verified.                             *)
GoogleLogin(e) ==
    /\ Unique(e)
    /\ \E u \in User :
         /\ Fresh(account, u)
         /\ account' = [account EXCEPT ![u] =
              [NoUser EXCEPT !.row = "live", !.email = e, !.google = TRUE, !.verified = TRUE,
                             !.token = TRUE, !.held = {e}]]
    /\ Handle
    /\ UNCHANGED <<code, req, failures>>

(* A user, or an admin, changes the address.  The update writes the columns*)
(* it was given, and is_email_verified is none of them.                    *)
UpdateUser(u, e) ==
    /\ Live(u) /\ Unique(e)
    /\ account' = [account EXCEPT ![u].email = e, ![u].held = @ \cup {e}]
    /\ Handle
    /\ UNCHANGED <<code, req, failures>>

(* Deleting an account does not touch the codes: they go by the address.   *)
DeleteUser(u) ==
    /\ Live(u)
    /\ account' = [account EXCEPT ![u] =
         [@ EXCEPT !.row = "deleted", !.email = "none",
                   !.verified = FALSE, !.token = FALSE]]
    /\ Handle
    /\ UNCHANGED <<code, req, failures>>

-----------------------------------------------------------------------------
(* Asking for a code again, or for one to reset a password.                *)
ResendCode(t, e) ==
    /\ \E u \in ByEmail(e) : ~account[u].verified
    /\ Start(t, [Idle EXCEPT !.pc = "count", !.op = "resend", !.email = e])
    /\ UNCHANGED <<account, code, failures>>

RequestReset(t, e) ==
    /\ Smtp
    /\ \E u \in ByEmail(e) : ~account[u].google
    /\ Start(t, [Idle EXCEPT !.pc = "count", !.op = "forgot", !.email = e])
    /\ UNCHANGED <<account, code, failures>>

(* generate_otp: count, invalidate the codes before, insert the new one.   *)
Alike(t, c) == code[c].email = req[t].email /\ code[c].purpose = PurposeOf(req[t].op)
RecentAlike(t) ==
    {c \in Code : code[c].recent /\ code[c].row # "deleted" /\ Alike(t, c)}

(* Faulty: one request more than the limit.                                *)
AtMostLimit(t) == Cardinality(RecentAlike(t)) <= MaxRequests

UnderLimit(t) == Cardinality(RecentAlike(t)) < MaxRequests

CountRecent(t) ==
    /\ req[t].pc = "count"
    /\ \/ UnderLimit(t) /\ Goto(t, "invalidate")
       \/ Done(t)       \* too many codes, here or from this client's address
    /\ UNCHANGED <<account, code, failures, handled>>

InvalidateExisting(t) ==
    /\ req[t].pc = "invalidate"
    /\ \/ /\ code' = [c \in Code |-> IF Alike(t, c) /\ code[c].row = "unused"
                                       THEN [code[c] EXCEPT !.row = "used"] ELSE code[c]]
          /\ UNCHANGED failures
       \/ Fails /\ UNCHANGED code
    /\ Goto(t, "insert")
    /\ UNCHANGED <<account, handled>>

CreateOtp(t) ==
    /\ req[t].pc = "insert"
    /\ \/ /\ \E c \in Code :
               /\ Fresh(code, c)
               /\ code' = [code EXCEPT ![c] = NewCode(req[t].email, PurposeOf(req[t].op))]
               /\ req' = [req EXCEPT ![t].pc = "send", ![t].code = c]
          /\ UNCHANGED failures
       \/ Fails /\ Done(t) /\ UNCHANGED code
    /\ UNCHANGED <<account, handled>>

(* The mail goes out after the answer, and may not arrive.                 *)
SendOtpEmail(t) ==
    /\ req[t].pc = "send"
    /\ \E b \in BOOLEAN : code' = [code EXCEPT ![req[t].code].mailed = b]
    /\ Done(t)
    /\ UNCHANGED <<account, failures, handled>>

-----------------------------------------------------------------------------
(* verify_otp: the newest unused code that has not expired, if it has      *)
(* attempts left; count the attempt; compare with the copy read before;    *)
(* mark it used.  Neither the count's nor the mark's outcome is looked at. *)
(* Faulty: the query forgets the address.                                  *)
UsableByAnyone(e, p) == {c \in Code : code[c].row = "unused" /\ code[c].recent /\ code[c].purpose = p}

Usable(e, p) ==
    {c \in Code : code[c].row = "unused" /\ code[c].recent /\ code[c].email = e /\ code[c].purpose = p}
ActiveOtp(e, p) == {c \in Usable(e, p) : \A d \in Usable(e, p) : d <= c}
(* Faulty: the last attempt is allowed once more.                          *)
AttemptLeftInclusive(c) == code[c].attempts <= MaxAttempts

AttemptLeft(c) == code[c].attempts < MaxAttempts

VerifyOtp(t, op, e, right) ==
    /\ \E c \in ActiveOtp(e, PurposeOf(op)) :
         /\ AttemptLeft(c)
         /\ right => code[c].mailed
         /\ Start(t, [Idle EXCEPT !.pc = "increment", !.op = op, !.email = e,
                                  !.code = c, !.right = right])
    /\ UNCHANGED <<account, code, failures>>

Matches(t) == req[t].right

IncrementAttempts(t) ==
    /\ req[t].pc = "increment"
    /\ LET c == req[t].code IN
         /\ \/ /\ code' = [code EXCEPT ![c].compared = @ + 1, ![c].matched = @ \/ req[t].right,
                              ![c].attempts = IF code[c].row = "deleted" THEN @ ELSE @ + 1]
               /\ UNCHANGED failures
            \/ /\ Fails
               /\ code' = [code EXCEPT ![c].compared = @ + 1, ![c].matched = @ \/ req[t].right,
                                       ![c].lost = @ + 1]
    /\ IF Matches(t) THEN Goto(t, "mark") ELSE Done(t)
    /\ UNCHANGED <<account, handled>>

MarkUsed(t) ==
    /\ req[t].pc = "mark"
    /\ \/ /\ code' = [code EXCEPT ![req[t].code].row = IF @ = "unused" THEN "used" ELSE @]
          /\ UNCHANGED failures
       \/ Fails /\ UNCHANGED code
    /\ Goto(t, "read_user")
    /\ UNCHANGED <<account, handled>>

(* What a proven address is worth: the account that has it now.  Verifying *)
(* a registration gives tokens, a reset writes the password (which shows   *)
(* nowhere here), and both mark the address verified, by id.               *)
ReadUser(t) ==
    /\ req[t].pc = "read_user"
    /\ \/ /\ ByEmail(req[t].email) = {}
          /\ Done(t) /\ UNCHANGED account
       \/ \E u \in ByEmail(req[t].email) :
            IF account[u].verified
              THEN /\ Done(t)
                   /\ account' = [account EXCEPT ![u].token = @ \/ req[t].op = "verify"]
              ELSE /\ req' = [req EXCEPT ![t].pc = "set_verified", ![t].user = u]
                   /\ UNCHANGED account
    /\ UNCHANGED <<code, failures, handled>>

SetEmailVerified(t) ==
    /\ req[t].pc = "set_verified"
    /\ LET u == req[t].user
           mint == account[u].token \/ req[t].op = "verify"
       IN \/ /\ account' = [account EXCEPT ![u].verified = @ \/ Live(u), ![u].token = mint]
             /\ UNCHANGED failures
          \/ Fails /\ account' = [account EXCEPT ![u].token = mint]
    /\ Done(t)
    /\ UNCHANGED <<code, handled>>

-----------------------------------------------------------------------------
(* Time: codes grow old in the order they were made, and the clean-up job  *)
(* deletes those that have been old for long.                              *)
Expire(c) ==
    /\ code[c].recent /\ \A d \in Code : d < c => ~code[d].recent
    /\ code' = [code EXCEPT ![c].recent = FALSE]
    /\ UNCHANGED <<account, req, failures, handled>>

Stale(c) == code[c].row \in {"unused", "used"} /\ ~code[c].recent

DeleteExpiredUsed ==
    /\ \E c \in Code : Stale(c)
    /\ code' = [c \in Code |-> IF Stale(c)
                                 THEN [code[c] EXCEPT !.row = "deleted", !.mailed = FALSE] ELSE code[c]]
    /\ UNCHANGED <<account, req, failures, handled>>

Next ==
    \/ \E t \in Thread :
         \/ \E e \in Email : RegisterUser(t, e) \/ ResendCode(t, e) \/ RequestReset(t, e)
         \/ \E e \in Email, op \in Proving, b \in BOOLEAN : VerifyOtp(t, op, e, b)
         \/ CreateUser(t) \/ CountRecent(t) \/ InvalidateExisting(t) \/ CreateOtp(t)
         \/ SendOtpEmail(t) \/ IncrementAttempts(t) \/ MarkUsed(t) \/ ReadUser(t)
         \/ SetEmailVerified(t)
    \/ \E u \in User : \/ DeleteUser(u)
                       \/ \E e \in Email : UpdateUser(u, e)
    \/ \E e \in Email : GoogleLogin(e)
    \/ \E c \in Code : Expire(c)
    \/ DeleteExpiredUsed

Spec == Init /\ [][Next]_vars

-----------------------------------------------------------------------------
(* However many verifications race on one code, a presented code is        *)
(* compared with it no more often than the attempts allowed, plus one for  *)
(* each further thread that read the row before the last attempt was       *)
(* counted, plus the attempts whose count failed unnoticed (otp_service.py:*)
(* 115-120).                                                               *)
ComparisonsCapped ==
    \A c \in Code : code[c].compared <= MaxAttempts + (Cardinality(Thread) - 1) + code[c].lost

(* The rate limit counts before it inserts, in another transaction: the    *)
(* requests of other threads are all it can miss (otp_service.py:57-88).   *)
CodesPerWindow ==
    \A e \in Email, p \in Purpose :
        Cardinality({c \in Code : code[c].recent /\ code[c].email = e /\ code[c].purpose = p})
            <= MaxRequests + (Cardinality(Thread) - 1)

(* With mail configured, an account is verified or given tokens only after *)
(* a code mailed to an address this very account has had was presented,    *)
(* whatever addresses change hands, accounts go and come back or writes    *)
(* fail between the presentation and the write (router.py:288-318,         *)
(* 423-430); an account of Google's is its own proof.                      *)
VerifiedProved ==
    \A u \in User :
        Smtp /\ ~account[u].google /\ (account[u].verified \/ account[u].token)
            => \E c \in Code : code[c].matched /\ code[c].email \in account[u].held
=============================================================================
