--------------------------- MODULE UserAggregators ---------------------------
(***************************************************************************)
(* The aggregators one user of the hub has configured, and which of them   *)
(* is the default: services/user_aggregator_service.py over                *)
(* repositories/user_aggregator.py.                                        *)
(*                                                                         *)
(* No constraint of the database keeps the default unique; the service     *)
(* does, by unsetting the others one by one, each in a transaction of its  *)
(* own, before it sets the new one.  Requests of two threads interleave at *)
(* the queries and commits.  A request's session keeps what it has read    *)
(* until its next commit or rollback, and reads again after it.            *)
(*                                                                         *)
(* A query that fails ends its request, as the transaction is lost; a      *)
(* write that fails is rolled back and the handler goes on as written.     *)
(* Names and addresses of aggregators, which nothing else depends on, are  *)
(* left out, and with them the updates that change no default.  Identities *)
(* grow with the time of creation.                                         *)
(***************************************************************************)
EXTENDS Naturals, FiniteSets, UnitOfWork

CONSTANTS Thread,   \* threads that handle requests of the user
          MaxAgg,   \* aggregators ever created (bound of the model)
          MaxLost   \* queries and writes that fail (bound of the model)

VARIABLES agg,    \* identity -> its row
          born,   \* aggregators created so far
          req,    \* Thread -> its request
          lost,   \* queries and writes that have failed
          clean   \* history: the last request to choose a default was not
                  \* disturbed, and neither was one of those after it

vars == <<agg, born, req, lost, clean>>

Agg == 1..MaxAgg
Gone == [there |-> FALSE, default |-> FALSE]
There == {a \in Agg : agg[a].there}
Defaults == {a \in There : agg[a].default}

Newest(S) == CHOOSE a \in S : \A b \in S : a >= b

\* A session that holds nothing.
Unread == [a \in {} |-> Gone]

\* op, on, to: what is asked; seen: the rows the session holds; todo: the
\* aggregators still to be looked at; was: on was the default when it was read.
Idle == [at |-> "idle", op |-> "none", on |-> 0, to |-> FALSE, seen |-> Unread,
         todo |-> {}, was |-> FALSE, disturbed |-> FALSE]

Creating == {th \in Thread : req[th].op = "create"}

Row == [there : BOOLEAN, default : BOOLEAN]
RequestState ==
    [at : {"idle", "list", "look", "unset", "write", "delete", "remaining"},
     op : {"none", "create", "update", "set", "delete"}, on : {0} \cup Agg, to : BOOLEAN,
     seen : UNION {[S -> Row] : S \in SUBSET Agg}, todo : SUBSET Agg,
     was : BOOLEAN, disturbed : BOOLEAN]

TypeOK ==
    /\ agg \in [Agg -> Row] /\ \A a \in There : a <= born
    /\ born \in 0..MaxAgg /\ lost \in 0..MaxLost /\ clean \in BOOLEAN
    /\ req \in [Thread -> RequestState]
    /\ \A th \in Thread :
         LET r == req[th] IN
         /\ r.at = "idle" <=> r.op = "none"
         /\ r.op \in {"update", "set", "delete"} => r.on \in Agg
         /\ r.at = "unset" => r.todo # {} /\ Newest(r.todo) \in DOMAIN r.seen
         /\ r.at = "write" /\ r.op # "create" => r.on \in DOMAIN r.seen

Init ==
    /\ agg = [a \in Agg |-> Gone]
    /\ born = 0
    /\ req = [th \in Thread |-> Idle]
    /\ lost = 0
    /\ clean = TRUE

At(th, place) == req[th].at = place

\* The end of a request, and whether the default is what the last one chose.
EndAs(th, disturbed) ==
    LET r == req[th] IN
    /\ req' = [req EXCEPT ![th] = Idle]
    /\ clean' = /\ ~disturbed
                /\ r.to \/ (clean /\ ~(r.op = "update" /\ r.was))

End(th) == EndAs(th, req[th].disturbed)
Lose == lost < MaxLost /\ lost' = lost + 1

\* The rows of a session that reads those of S: what it holds stays as it holds it.
Seen(r, S) ==
    [a \in DOMAIN r.seen \cup S |-> IF a \in DOMAIN r.seen THEN r.seen[a] ELSE agg[a]]
-----------------------------------------------------------------------------
(* The requests *)

\* A request begins, and disturbs and is disturbed by those that run.
Begin(th, r) ==
    LET busy == {u \in Thread \ {th} : ~At(u, "idle")} IN
    /\ At(th, "idle")
    /\ req' = [u \in Thread |-> IF u = th THEN [r EXCEPT !.disturbed = busy # {}]
                                ELSE IF u \in busy THEN [req[u] EXCEPT !.disturbed = TRUE]
                                ELSE req[u]]
    /\ UNCHANGED <<agg, born, lost, clean>>

\* The handlers of one aggregator read it first: none is a 404.
Read(op, on, to, place) ==
    [Idle EXCEPT !.at = place, !.op = op, !.on = on, !.to = to,
                 !.seen = [a \in {on} |-> agg[a]], !.was = agg[on].default]

CreateAggregator(th, isDefault) ==
    /\ born + Cardinality(Creating) < MaxAgg
    /\ Begin(th, [Idle EXCEPT !.at = "list", !.op = "create", !.to = isDefault])

UpdateAggregator(th, a, isDefault) ==
    /\ agg[a].there
    /\ Begin(th, Read("update", a, isDefault, IF isDefault THEN "list" ELSE "write"))

SetDefaultAggregator(th, a) ==
    agg[a].there /\ Begin(th, Read("set", a, TRUE, "list"))

DeleteAggregator(th, a) ==
    agg[a].there /\ Begin(th, Read("delete", a, FALSE, "delete"))
-----------------------------------------------------------------------------
(* Unsetting the others *)

\* get_by_user_id: all of them, to be looked at the newest first.
\* The first aggregator of a user is the default, whatever the client asked.
List(th) ==
    LET r == req[th]
        to == r.to \/ There = {}
    IN  /\ At(th, "list")
        /\ req' = [req EXCEPT ![th].seen = Seen(r, There), ![th].to = to,
                              ![th].todo = There,
                              ![th].at = IF to THEN "look" ELSE "write"]
        /\ UNCHANGED <<agg, born, lost, clean>>

\* Is the next one a default?  What the session does not hold is read again; if
\* it has gone, that raises.
Look(th) ==
    LET r == req[th]
        a == Newest(r.todo)
        seen == Seen(r, {a})
    IN  /\ At(th, "look") /\ r.todo # {}
        /\ IF a \notin DOMAIN r.seen /\ ~agg[a].there THEN End(th)
           ELSE /\ req' = IF seen[a].default /\ a # r.on
                          THEN [req EXCEPT ![th].seen = seen, ![th].at = "unset"]
                          ELSE [req EXCEPT ![th].seen = seen, ![th].todo = @ \ {a}]
                /\ UNCHANGED clean
        /\ UNCHANGED <<agg, born, lost>>

\* The result is not looked at, be the row gone or the write lost.
Unset(th) ==
    LET r == req[th]
        a == Newest(r.todo)
        unset == Flush(agg[a], r.seen[a], [r.seen[a] EXCEPT !.default = FALSE])
    IN  /\ At(th, "unset")
        /\ \/ /\ agg[a].there
              /\ agg' = [agg EXCEPT ![a] = unset]
              /\ req' = [req EXCEPT ![th].at = "look", ![th].todo = @ \ {a},
                                    ![th].seen = [b \in {a} |-> unset]]
              /\ UNCHANGED lost
           \/ /\ IF agg[a].there THEN Lose ELSE UNCHANGED lost
              /\ req' = [req EXCEPT ![th].at = "look", ![th].todo = @ \ {a},
                                    ![th].seen = Unread, ![th].disturbed = TRUE]
              /\ UNCHANGED agg
        /\ UNCHANGED <<born, clean>>

\* All looked at: the one that shall be the default is read again if need be.
Find(th) ==
    LET r == req[th]
        seen == Seen(r, {r.on})
    IN  /\ At(th, "look") /\ r.todo = {}
        /\ IF r.op = "create"
           THEN req' = [req EXCEPT ![th].at = "write"] /\ UNCHANGED clean
           ELSE IF r.on \notin DOMAIN r.seen /\ ~agg[r.on].there THEN End(th)
           ELSE req' = [req EXCEPT ![th].at = "write", ![th].seen = seen] /\ UNCHANGED clean
        /\ UNCHANGED <<agg, born, lost>>
-----------------------------------------------------------------------------
(* The writes *)

Insert(th) ==
    /\ At(th, "write") /\ req[th].op = "create"
    /\ \/ /\ born' = born + 1
          /\ agg' = [agg EXCEPT ![born + 1] = [there |-> TRUE, default |-> req[th].to]]
          /\ End(th)
          /\ UNCHANGED lost
       \/ /\ Lose /\ EndAs(th, TRUE)
          /\ UNCHANGED <<agg, born>>

\* The default of an update or, after a deletion, of the one promoted.
Set(th) ==
    LET r == req[th]
        new == [r.seen[r.on] EXCEPT !.default = r.to \/ r.op = "delete"]
    IN  /\ At(th, "write") /\ r.op # "create"
        /\ \/ /\ agg' = IF agg[r.on].there
                        THEN [agg EXCEPT ![r.on] = Flush(@, r.seen[r.on], new)] ELSE agg
              /\ End(th)
              /\ UNCHANGED lost
           \/ /\ Lose /\ EndAs(th, TRUE)
              /\ UNCHANGED agg
        /\ UNCHANGED born

\* Faulty: the default is deleted and none takes its place.
PromotesNobody(r) == FALSE

Promotes(r) == r.was

Delete(th) ==
    /\ At(th, "delete")
    /\ \/ /\ agg' = [agg EXCEPT ![req[th].on] = Gone]
          /\ IF Promotes(req[th])
             THEN req' = [req EXCEPT ![th].at = "remaining", ![th].seen = Unread] /\ UNCHANGED clean
             ELSE End(th)
          /\ UNCHANGED lost
       \/ /\ Lose /\ EndAs(th, TRUE)
          /\ UNCHANGED agg
    /\ UNCHANGED born

Remaining(th) ==
    /\ At(th, "remaining")
    /\ IF There = {} THEN End(th)
       ELSE /\ req' = [req EXCEPT ![th].at = "write", ![th].on = Newest(There),
                                  ![th].seen = Seen(req[th], There)]
            /\ UNCHANGED clean
    /\ UNCHANGED <<agg, born, lost>>

\* A query fails.
Abort(th) ==
    /\ req[th].at \in {"list", "look", "remaining"}
    /\ Lose /\ EndAs(th, TRUE)
    /\ UNCHANGED <<agg, born>>

\* The routes that change something.
Request(th) ==
    \/ \E isDefault \in BOOLEAN : CreateAggregator(th, isDefault)
    \/ \E a \in Agg, isDefault \in BOOLEAN : UpdateAggregator(th, a, isDefault)
    \/ \E a \in Agg : SetDefaultAggregator(th, a) \/ DeleteAggregator(th, a)

Next ==
    \E th \in Thread :
       \/ Request(th)
       \/ List(th) \/ Look(th) \/ Unset(th) \/ Find(th)
       \/ Insert(th) \/ Set(th) \/ Delete(th) \/ Remaining(th) \/ Abort(th)

Spec == Init /\ [][Next]_vars
-----------------------------------------------------------------------------
(* What is read as the default, and the property *)

\* The default that a list of the aggregators names, 0 if there is none.
ListedDefault == IF Defaults = {} THEN 0 ELSE Newest(Defaults)

\* The default that is read alone: two are as good as none.
DefaultOfUser == IF Cardinality(Defaults) = 1 THEN CHOOSE a \in Defaults : TRUE ELSE 0

\* While no request runs, a user with aggregators has a default and both ways to
\* read it agree on it, unless the last request that chose one, or one after it,
\* met another request, lost a write or unset the default by hand.  One
\* undisturbed request heals what disturbed ones left, be it two defaults or
\* none (services/user_aggregator_service.py:87-278).
OneDefault ==
    clean /\ There # {} /\ (\A th \in Thread : At(th, "idle")) =>
       DefaultOfUser # 0 /\ ListedDefault = DefaultOfUser
=============================================================================
