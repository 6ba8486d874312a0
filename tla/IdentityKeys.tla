----------------------------- MODULE IdentityKeys -----------------------------
(***************************************************************************)
(* The signing key of the hub's identity provider (auth/keys.py) and the   *)
(* satellite tokens signed with it (auth/satellite_tokens.py).  The hub    *)
(* runs as several worker processes that share a directory: at startup     *)
(* each worker loads the key pair from two files, or takes a file lock,    *)
(* looks again, generates a pair and writes it - private file first, each  *)
(* file truncated before it is written.  The first look takes no lock.  A  *)
(* token signed by one worker is verified by whichever worker the Space's  *)
(* request reaches, also after restarts.                                   *)
(***************************************************************************)
EXTENDS Naturals, FiniteSets

CONSTANTS Worker, User,
          MaxKey,      \* bound: key pairs ever generated
          MaxTokens    \* bound: tokens outstanding at a time

VARIABLES worker,   \* Worker -> its startup and its key manager
          file,     \* the two PEM files of the keys' directory
          lock,     \* holder of the file lock, or NoWorker
          lastKey,  \* number of key pairs generated so far
          active,   \* users whose account is active
          tokens,   \* satellite tokens somebody may present
          troubled  \* history: a save was cut short, or a lock was not obtained

vars == <<worker, file, lock, lastKey, active, tokens, troubled>>
hub  == <<active, tokens>>

NoKey    == 0
NoWorker == "nobody"
Guest    == "guest"

(* What is assumed of the constants.                                       *)
Bounds == MaxKey \in Nat \ {0} /\ MaxTokens \in Nat /\ NoWorker \notin Worker

Key      == 1..MaxKey

(* A file holds the PEM of a key, or is still empty.                       *)
Content == [key : Key \cup {NoKey}, whole : BOOLEAN]
Missing == [key |-> NoKey, whole |-> FALSE]
Empty(k) == [key |-> k, whole |-> FALSE]
Pem(k)   == [key |-> k, whole |-> TRUE]

Loading == {"look", "readPrivate", "readPublic"}
Saving  == {"openPrivate", "writePrivate", "openPublic", "writePublic"}
Holding == Saving \cup {"generate", "release"}

Fresh == [pc |-> "down", why |-> "early", read |-> Missing,
          private |-> NoKey, public |-> NoKey]

Token == [key : Key, kid : BOOLEAN, sub : User \cup {Guest}, aud : User, live : BOOLEAN]

TypeOK ==
    /\ worker \in [Worker -> [pc : Loading \cup Holding \cup {"down", "lock", "serving"},
                              why : {"early", "locked", "late"}, read : Content,
                              private : Key \cup {NoKey}, public : Key \cup {NoKey}]]
    /\ file \in [{"private", "public"} -> Content]
    /\ lock \in Worker \cup {NoWorker}
    /\ lastKey \in 0..MaxKey
    /\ active \subseteq User /\ tokens \subseteq Token
    /\ troubled \in BOOLEAN

(* First start of the hub: no files yet.                                   *)
Init ==
    /\ worker = [w \in Worker |-> Fresh]
    /\ file = [f \in {"private", "public"} |-> Missing]
    /\ lock = NoWorker /\ lastKey = 0
    /\ active = User /\ tokens = {}
    /\ troubled = FALSE

-----------------------------------------------------------------------------
(* Startup of a worker: RSAKeyManager.initialize.                          *)
At(w, pc) == worker[w].pc = pc
Goto(w, pc) == worker' = [worker EXCEPT ![w].pc = pc]

StartWorker(w) ==
    /\ At(w, "down")
    /\ worker' = [worker EXCEPT ![w] = [Fresh EXCEPT !.pc = "look"]]
    /\ UNCHANGED <<file, lock, lastKey, hub, troubled>>

(* What follows a call of _load_persisted_keys: it is made before the      *)
(* lock is taken, again under the lock, and once more when the lock was    *)
(* not obtained.  The lifespan of main.py goes on whatever happens.        *)
AfterLoad(why)    == IF why = "locked" THEN "release" ELSE "serving"
AfterFailure(why) == CASE why = "early"  -> "lock"
                       [] why = "locked" -> "generate"
                       [] why = "late"   -> "serving"

(* Faulty: nobody looks again under the lock.                              *)
AfterLockBlindly(why) == "generate"

AfterLock(why) == "look"

(* _load_persisted_keys: both files must exist ...                         *)
Look(w) ==
    /\ At(w, "look")
    /\ Goto(w, IF file["private"] = Missing \/ file["public"] = Missing
               THEN AfterFailure(worker[w].why) ELSE "readPrivate")
    /\ UNCHANGED <<file, lock, lastKey, hub, troubled>>

(* _load_from_files: ... they are read one after the other ...             *)
ReadPrivate(w) ==
    /\ At(w, "readPrivate")
    /\ worker' = [worker EXCEPT ![w].pc = "readPublic", ![w].read = file["private"]]
    /\ UNCHANGED <<file, lock, lastKey, hub, troubled>>

(* ... and parsed; the private key is kept even when the public one cannot *)
(* be parsed.                                                              *)
ReadPublic(w) ==
    /\ At(w, "readPublic")
    /\ LET ok   == worker[w].read.whole
           both == ok /\ file["public"].whole
       IN worker' = [worker EXCEPT
            ![w].read = Missing,
            ![w].private = IF ok THEN worker[w].read.key ELSE @,
            ![w].public  = IF both THEN file["public"].key ELSE @,
            ![w].pc = IF both THEN AfterLoad(worker[w].why)
                              ELSE AfterFailure(worker[w].why)]
    /\ UNCHANGED <<file, lock, lastKey, hub, troubled>>

(* _acquire_lock: flock, polled for ten seconds ...                        *)
AcquireLock(w) ==
    /\ At(w, "lock") /\ lock = NoWorker
    /\ lock' = w
    /\ worker' = [worker EXCEPT ![w].pc = AfterLock(@), ![w].why = "locked"]
    /\ UNCHANGED <<file, lastKey, hub, troubled>>

(* ... which may time out, and the lock file may not open.                 *)
LockFails(w) ==
    /\ At(w, "lock")
    /\ worker' = [worker EXCEPT ![w].pc = "look", ![w].why = "late"]
    /\ troubled' = TRUE
    /\ UNCHANGED <<file, lock, lastKey, hub>>

GenerateKeypair(w) ==
    /\ At(w, "generate") /\ lastKey < MaxKey
    /\ lastKey' = lastKey + 1
    /\ worker' = [worker EXCEPT ![w].pc = "openPrivate",
                    ![w].private = lastKey', ![w].public = lastKey']
    /\ UNCHANGED <<file, lock, hub, troubled>>

(* Generation may fail; the exception passes the release of the lock.      *)
GenerateFails(w) ==
    /\ At(w, "generate")
    /\ Goto(w, "release") /\ troubled' = TRUE
    /\ UNCHANGED <<file, lock, lastKey, hub>>

(* _save_keys_to_files: write_bytes truncates a file and then writes it.   *)
Saved(pc, k) ==
    CASE pc = "openPrivate"  -> [file EXCEPT !["private"] = Empty(k)]
      [] pc = "writePrivate" -> [file EXCEPT !["private"] = Pem(k)]
      [] pc = "openPublic"   -> [file EXCEPT !["public"] = Empty(k)]
      [] pc = "writePublic"  -> [file EXCEPT !["public"] = Pem(k)]

AfterSave(pc) ==
    CASE pc = "openPrivate"  -> "writePrivate"
      [] pc = "writePrivate" -> "openPublic"
      [] pc = "openPublic"   -> "writePublic"
      [] pc = "writePublic"  -> "release"

SaveKeys(w) ==
    /\ worker[w].pc \in Saving
    /\ file' = Saved(worker[w].pc, worker[w].private)
    /\ Goto(w, AfterSave(worker[w].pc))
    /\ UNCHANGED <<lock, lastKey, hub, troubled>>

(* Faulty: the lock is released on the way of success only.                *)
SaveFailsLocked(w) ==
    /\ worker[w].pc \in Saving
    /\ Goto(w, "serving") /\ troubled' = TRUE
    /\ UNCHANGED <<file, lock, lastKey, hub>>

(* A full disk: KeyLoadError, after the pair was put in memory.            *)
SaveFails(w) ==
    /\ worker[w].pc \in Saving
    /\ Goto(w, "release") /\ troubled' = TRUE
    /\ UNCHANGED <<file, lock, lastKey, hub>>

ReleaseLock(w) ==
    /\ At(w, "release")
    /\ lock' = NoWorker
    /\ worker' = [worker EXCEPT ![w].pc = "serving", ![w].why = "early"]
    /\ UNCHANGED <<file, lastKey, hub, troubled>>

(* The process ends at any time, and its file lock with it.                *)
WorkerEnds(w) ==
    /\ ~At(w, "down")
    /\ worker' = [worker EXCEPT ![w] = Fresh]
    /\ lock' = IF lock = w THEN NoWorker ELSE lock
    /\ troubled' = (troubled \/ worker[w].pc \in Saving \ {"openPrivate"})
    /\ UNCHANGED <<file, lastKey, hub>>

-----------------------------------------------------------------------------
(* Satellite tokens.                                                       *)
Configured(w) == At(w, "serving") /\ worker[w].private # NoKey

(* validate_audience: the audience is the name of an active user.          *)
ValidAudience(aud) == aud \in active

(* The header's kid is the manager's current_key_id, which is set with the *)
(* public key.                                                             *)
MintSatelliteToken(w, sub, aud) ==
    /\ Configured(w) /\ ValidAudience(aud)
    /\ Cardinality(tokens) < MaxTokens
    /\ tokens' = tokens \cup {[key |-> worker[w].private, sub |-> sub, aud |-> aud,
                               kid |-> worker[w].public # NoKey, live |-> TRUE]}
    /\ UNCHANGED <<worker, file, lock, lastKey, active, troubled>>

(* GET /token is for active users, GET /token/guest for everyone.          *)
GetSatelliteToken(w, u, aud) == u \in active /\ MintSatelliteToken(w, u, aud)
GetGuestSatelliteToken(w, aud) == MintSatelliteToken(w, Guest, aud)

(* exp: satellite_token_expire_seconds after the issue; an expired token   *)
(* is forgotten after a while.                                             *)
TokenExpires(t) ==
    /\ tokens' = (tokens \ {t}) \cup (IF t.live THEN {[t EXCEPT !.live = FALSE]} ELSE {})
    /\ UNCHANGED <<worker, file, lock, lastKey, active, troubled>>

DeactivateUser(u) ==
    /\ u \in active /\ active' = active \ {u}
    /\ UNCHANGED <<worker, file, lock, lastKey, tokens, troubled>>

ActivateUser(u) ==
    /\ u \notin active /\ active' = active \cup {u}
    /\ UNCHANGED <<worker, file, lock, lastKey, tokens, troubled>>

(* verify_satellite_token_for_service: the signature is checked before the *)
(* claims.                                                                 *)
Decoded(w, t, service) ==
    CASE ~t.kid                         -> "missing_kid"
      [] t.kid /\ worker[w].public = NoKey -> "unknown_key"
      [] OTHER -> CASE t.key # worker[w].public -> "invalid_signature"
                    [] t.key = worker[w].public /\ ~t.live -> "token_expired"
                    [] OTHER -> IF t.aud = service THEN "valid" ELSE "audience_mismatch"

(* POST /verify by the active user service at worker w.                    *)
Verdict(w, t, service) ==
    IF ~Configured(w) THEN "idp_not_configured"
    ELSE LET d == Decoded(w, t, service)
         IN IF d # "valid" \/ t.sub = Guest \/ t.sub \in active THEN d
            ELSE "user_inactive"

-----------------------------------------------------------------------------
Startup(w) ==
    \/ Look(w) \/ ReadPrivate(w) \/ ReadPublic(w)
    \/ AcquireLock(w) \/ LockFails(w)
    \/ GenerateKeypair(w) \/ GenerateFails(w)
    \/ SaveKeys(w) \/ SaveFails(w) \/ ReleaseLock(w)

Next ==
    \/ \E w \in Worker : StartWorker(w) \/ Startup(w) \/ WorkerEnds(w)
    \/ \E w \in Worker, aud \in User : GetGuestSatelliteToken(w, aud)
    \/ \E w \in Worker, u, aud \in User : GetSatelliteToken(w, u, aud)
    \/ \E t \in tokens : TokenExpires(t)
    \/ \E u \in User : DeactivateUser(u) \/ ActivateUser(u)

(* A worker that does not end gets on with its startup.                    *)
Fairness == \A w \in Worker : WF_vars(Startup(w))

Spec == Init /\ [][Next]_vars /\ Fairness

-----------------------------------------------------------------------------
(* Whoever signs and whoever verifies, a token is refused only for its     *)
(* age, its audience or its user, unless a save was cut short or a lock    *)
(* not obtained: all workers use one pair, across restarts, although the   *)
(* first look at the files takes no lock ("To ensure all workers use the   *)
(* same RSA keys, auto-generated keys are persisted", keys.py:10-15).      *)
TokensVerify ==
    \A w \in Worker, t \in tokens, service \in User :
        At(w, "serving") =>
            \/ Verdict(w, t, service) \in {"valid", "token_expired", "audience_mismatch",
                                           "user_inactive"}
            \/ troubled

(* The lock comes free again on every way out of the generation            *)
(* (keys.py:327-328), so that the next worker need not wait in vain.       *)
LockComesFree == \A w \in Worker : (lock = w) ~> (lock # w)
=============================================================================
