-------------------------- MODULE EndpointCatalogue --------------------------
(***************************************************************************)
(* The endpoints of one owner and the documents the search index holds for *)
(* them: services/endpoint_service.py over repositories/endpoint.py and    *)
(* services/rag_service.py.  The database is the truth and the index       *)
(* (Meilisearch) follows it by best effort: no transaction spans the two,  *)
(* a failed call on the index is logged and forgotten, and whether a       *)
(* document is there to remove is known from a column, rag_file_id, that   *)
(* is itself written in a further transaction.  Each database transaction  *)
(* and each call on the index is an action.                                *)
(*                                                                         *)
(* The owner's account may be deleted; its endpoints go with it.           *)
(*                                                                         *)
(* What an endpoint says does not matter here: it has a slug and is public *)
(* or not.  A sync replaces all endpoints in one read-committed            *)
(* transaction, whose DELETE finds the rows that its statement saw.        *)
(***************************************************************************)
EXTENDS Naturals, FiniteSets, Sequences

CONSTANTS Thread,      \* threads that handle the owner's requests
          Slug,        \* slugs in use
          MaxId,       \* endpoint rows ever inserted (bound of the model)
          MaxHandled,  \* requests ever handled (bound of the model)
          Failing      \* calls that fail (bound of the model)

\* Assumed by the modules that take an instance of this one.
Bounds == {MaxId, MaxHandled, Failing} \subseteq Nat

VARIABLES registered, \* the owner has an account
          endpoint,   \* id -> its row, and history: the sync that made it
          index,      \* ids that have a document in the search index
          req,        \* Thread -> what the handler has read and what comes next
          handled,    \* requests that have begun
          failures,   \* calls that have failed
          disturbed,  \* history: ids that overlaps or failures have left in doubt
          overlapped  \* history: syncs that ran while another one did

vars == <<registered, endpoint, index, req, handled, failures, disturbed, overlapped>>

Id == 1..MaxId
Visibility == {"public", "private"}

NoRow == [row |-> "free", slug |-> "none", visibility |-> "private", active |-> FALSE,
          file |-> FALSE, sync |-> 0]
Idle == [pc |-> "idle", op |-> "none", id |-> 0, slug |-> "none", from |-> "private",
         to |-> "private", todo |-> {}, list |-> <<>>, seen |-> {}, number |-> 0]

Live(e) == endpoint[e].row = "live"
LiveIds == {e \in Id : Live(e)}

Item == [slug: Slug, visibility: Visibility]
Lists == {<<>>} \cup {<<a>> : a \in Item}
         \cup {<<p[1], p[2]>> : p \in {q \in Item \X Item : q[1].slug # q[2].slug}}

Row == [row: {"free", "live", "deleted", "gone"}, slug: Slug \cup {"none"}, visibility: Visibility,
        active: BOOLEAN, file: BOOLEAN, sync: 0..MaxHandled]
Handler == [pc: {"idle", "insert", "write", "lookup", "remove", "clear", "delete",
                 "ingest", "add", "note", "purge", "replace"},
            op: {"none", "create", "update", "delete", "sync"},
            id: 0..MaxId, slug: Slug \cup {"none"}, from: Visibility,
            to: Visibility \cup {"same"}, todo: SUBSET Id, list: Lists, seen: SUBSET Id,
            number: 0..MaxHandled]

TypeOK ==
    /\ registered \in BOOLEAN
    /\ endpoint \in [Id -> Row]
    /\ \A e, f \in LiveIds : /\ endpoint[e].slug \in Slug
                             /\ endpoint[e].slug = endpoint[f].slug => e = f
    /\ index \subseteq {e \in Id : endpoint[e].row # "free"}
    /\ req \in [Thread -> Handler]
    /\ handled \in 0..MaxHandled /\ failures \in 0..Failing
    /\ disturbed \subseteq Id /\ overlapped \subseteq 1..MaxHandled

Init ==
    /\ registered = TRUE
    /\ endpoint = [e \in Id |-> NoRow]
    /\ index = {}
    /\ req = [t \in Thread |-> Idle]
    /\ handled = 0 /\ failures = 0
    /\ disturbed = {} /\ overlapped = {}

-----------------------------------------------------------------------------
(* A request begins with the account that its token names.                 *)
Start(t, r) ==
    /\ registered
    /\ req[t].pc = "idle"
    /\ handled < MaxHandled /\ handled' = handled + 1
    /\ req' = [req EXCEPT ![t] = [r EXCEPT !.number = IF r.op = "sync" THEN handled + 1 ELSE 0]]
Goto(t, pc) == req' = [req EXCEPT ![t].pc = pc]
Done(t) == req' = [req EXCEPT ![t] = Idle]

Works == UNCHANGED failures
Fails == failures < Failing /\ failures' = failures + 1

Taken(s) == \E e \in LiveIds : endpoint[e].slug = s
NewIds(n) == {e \in Id : endpoint[e].row = "free" /\ Cardinality({f \in 1..e : endpoint[f].row = "free"}) <= n}

-----------------------------------------------------------------------------
(* create_endpoint looks the slug up, among inactive endpoints too, and    *)
(* inserts later, under the unique index and for an account that is there. *)
CreateEndpoint(t, s, v) ==
    /\ ~Taken(s)
    /\ Start(t, [Idle EXCEPT !.pc = "insert", !.op = "create", !.slug = s, !.to = v])
    /\ Works
    /\ UNCHANGED <<endpoint, index>>

InsertEndpoint(t) ==
    /\ req[t].pc = "insert"
    /\ \/ /\ ~Taken(req[t].slug) /\ registered
          /\ \E e \in NewIds(1) :
               /\ endpoint' = [endpoint EXCEPT ![e] =
                    [NoRow EXCEPT !.row = "live", !.slug = req[t].slug, !.active = TRUE,
                                  !.visibility = req[t].to]]
               /\ IF req[t].to = "public"
                    THEN req' = [req EXCEPT ![t].pc = "ingest", ![t].id = e]
                    ELSE Done(t)
               /\ Works
       \/ /\ Taken(req[t].slug) \/ ~registered
          /\ Done(t) /\ Works /\ UNCHANGED endpoint
       \/ Done(t) /\ Fails /\ UNCHANGED endpoint
    /\ UNCHANGED <<index, handled>>

(* update_endpoint finds an active endpoint and remembers its visibility,  *)
(* writes the columns it was given, perhaps the visibility, and then       *)
(* follows up in the index by what it remembered and what it wrote.        *)
UpdateEndpoint(t, e, v) ==
    /\ Live(e) /\ endpoint[e].active
    /\ Start(t, [Idle EXCEPT !.pc = "write", !.op = "update", !.id = e, !.to = v,
                             !.from = endpoint[e].visibility])
    /\ Works
    /\ UNCHANGED <<endpoint, index>>

(* Faulty: only what is newly public is followed up.                       *)
FollowUpPublished(from, to) == IF to = "public" /\ from # "public" THEN "ingest" ELSE "idle"

FollowUp(from, to) == IF to = "public" THEN "ingest"
                      ELSE IF from = "public" THEN "lookup" ELSE "idle"

WriteEndpoint(t) ==
    /\ req[t].pc = "write"
    /\ LET e == req[t].id
           v == IF req[t].to = "same" THEN endpoint[e].visibility ELSE req[t].to
       IN \/ /\ Live(e)
             /\ endpoint' = [endpoint EXCEPT ![e].visibility = v]
             /\ IF FollowUp(req[t].from, v) = "idle" THEN Done(t) ELSE Goto(t, FollowUp(req[t].from, v))
             /\ Works
          \/ ~Live(e) /\ Done(t) /\ Works /\ UNCHANGED endpoint
          \/ Done(t) /\ Fails /\ UNCHANGED endpoint
    /\ UNCHANGED <<index, handled>>

(* delete_endpoint takes the document away first, then the row.            *)
DeleteEndpoint(t, e) ==
    /\ Live(e) /\ endpoint[e].active
    /\ Start(t, [Idle EXCEPT !.pc = "lookup", !.op = "delete", !.id = e])
    /\ Works
    /\ UNCHANGED <<endpoint, index>>

DeleteRow(t) ==
    /\ req[t].pc = "delete"
    /\ LET e == req[t].id IN
         \/ /\ endpoint' = IF Live(e) THEN [endpoint EXCEPT ![e] = [@ EXCEPT !.row = "deleted", !.file = FALSE]]
                           ELSE endpoint
            /\ Works
         \/ Fails /\ UNCHANGED endpoint
    /\ Done(t)
    /\ UNCHANGED <<index, handled>>

(* delete_user: the endpoints go with the account, in one transaction, and *)
(* their documents stay.  What remains of a row here is history: "gone",   *)
(* and the visibility it had.  A deletion that fails is rolled back.       *)
DeleteUser ==
    /\ registered /\ registered' = FALSE
    /\ endpoint' = [e \in Id |-> IF Live(e) THEN [endpoint[e] EXCEPT !.row = "gone", !.file = FALSE]
                                 ELSE endpoint[e]]
    /\ handled < MaxHandled /\ handled' = handled + 1
    /\ Works
    /\ UNCHANGED <<index, req>>

(* An admin, or the health monitor, sets is_active.                        *)
SetActive(e) ==
    /\ Live(e)
    /\ endpoint' = [endpoint EXCEPT ![e].active = ~@]
    /\ handled < MaxHandled /\ handled' = handled + 1
    /\ Works
    /\ UNCHANGED <<index, req>>

-----------------------------------------------------------------------------
(* _remove_from_rag: a document is looked for only when rag_file_id says   *)
(* there is one, and the column is cleared whether or not it went.         *)
AfterRemoval(t) == IF req[t].op = "delete" THEN Goto(t, "delete") ELSE Done(t)

GetRagFileId(t) ==
    /\ req[t].pc = "lookup"
    /\ IF Live(req[t].id) /\ endpoint[req[t].id].file THEN Goto(t, "remove") ELSE AfterRemoval(t)
    /\ Works
    /\ UNCHANGED <<endpoint, index, handled>>

RemoveDocument(t) ==
    /\ req[t].pc = "remove"
    /\ \/ index' = index \ {req[t].id} /\ Works
       \/ Fails /\ UNCHANGED index
    /\ Goto(t, "clear")
    /\ UNCHANGED <<endpoint, handled>>

ClearRagFileId(t) ==
    /\ req[t].pc = "clear"
    /\ \/ endpoint' = [endpoint EXCEPT ![req[t].id].file = FALSE] /\ Works
       \/ Fails /\ UNCHANGED endpoint
    /\ AfterRemoval(t)
    /\ UNCHANGED <<index, handled>>

(* _ingest_to_rag and _update_in_rag: the row is read again and indexed    *)
(* when it is there and public; adding a document replaces the old one.    *)
(* A sync does this for one new endpoint after the other.                  *)
NextIngest(t) ==
    IF req[t].todo = {} THEN Done(t)
    ELSE \E e \in req[t].todo : req' = [req EXCEPT ![t].pc = "ingest", ![t].id = e, ![t].todo = @ \ {e}]

Ingestible(e) == Live(e) /\ endpoint[e].visibility = "public"

GetEndpointModel(t) ==
    /\ req[t].pc = "ingest"
    /\ IF Ingestible(req[t].id) THEN Goto(t, "add") ELSE NextIngest(t)
    /\ Works
    /\ UNCHANGED <<endpoint, index, handled>>

AddDocument(t) ==
    /\ req[t].pc = "add"
    /\ \/ index' = index \cup {req[t].id} /\ Goto(t, "note") /\ Works
       \/ NextIngest(t) /\ Fails /\ UNCHANGED index
    /\ UNCHANGED <<endpoint, handled>>

NoteRagFileId(t) ==
    /\ req[t].pc = "note"
    /\ \/ endpoint' = [endpoint EXCEPT ![req[t].id].file = Live(req[t].id)] /\ Works
       \/ Fails /\ UNCHANGED endpoint
    /\ NextIngest(t)
    /\ UNCHANGED <<index, handled>>

-----------------------------------------------------------------------------
(* sync_user_endpoints, with a list that passed its validation: distinct   *)
(* slugs, some public.  The documents of the old endpoints go one by one;  *)
(* then one transaction deletes the rows its statement sees and inserts    *)
(* the new ones, or is rolled back for a slug inserted, or the account     *)
(* deleted, meanwhile.                                                     *)
(* Faulty: the DELETE spares inactive endpoints.                           *)
SeenActive == {e \in LiveIds : endpoint[e].active}

Seen == LiveIds

Old == {e \in LiveIds : endpoint[e].file}

SyncUserEndpoints(t, list) ==
    /\ Start(t, [Idle EXCEPT !.pc = "purge", !.op = "sync", !.list = list, !.todo = Old])
    /\ Works
    /\ UNCHANGED <<endpoint, index>>

Purge(t) ==
    /\ req[t].pc = "purge"
    /\ \/ \E e \in req[t].todo :
            /\ \/ index' = index \ {e} /\ Works
               \/ Fails /\ UNCHANGED index
            /\ req' = [req EXCEPT ![t].todo = @ \ {e}]
       \/ /\ req[t].todo = {}
          /\ req' = [req EXCEPT ![t].pc = "replace", ![t].seen = Seen]
          /\ Works /\ UNCHANGED index
    /\ UNCHANGED <<endpoint, handled>>

Refused(t) ==
    \/ ~registered
    \/ \E e \in LiveIds \ req[t].seen, i \in DOMAIN req[t].list : endpoint[e].slug = req[t].list[i].slug

Replace(t) ==
    /\ req[t].pc = "replace"
    /\ LET new == NewIds(Len(req[t].list))
           given(e) == req[t].list[Cardinality({f \in new : f <= e})]
           public == {e \in new : given(e).visibility = "public"}
       IN \/ /\ ~Refused(t) /\ Cardinality(new) = Len(req[t].list)
             /\ endpoint' = [e \in Id |->
                  IF e \in new THEN [NoRow EXCEPT !.row = "live", !.active = TRUE, !.slug = given(e).slug,
                                       !.visibility = given(e).visibility, !.sync = req[t].number]
                  ELSE IF e \in req[t].seen /\ Live(e)
                    THEN [endpoint[e] EXCEPT !.row = "deleted", !.file = FALSE]
                  ELSE endpoint[e]]
             /\ IF public = {} THEN Done(t)
                ELSE \E e \in public : req' = [req EXCEPT ![t].pc = "ingest", ![t].id = e,
                                                          ![t].todo = public \ {e}, ![t].seen = {}]
             /\ Works
          \/ Refused(t) /\ Done(t) /\ Works /\ UNCHANGED endpoint
          \/ Done(t) /\ Fails /\ UNCHANGED endpoint
    /\ UNCHANGED <<index, handled>>

Handling(t) ==
    \/ \E s \in Slug, v \in Visibility : CreateEndpoint(t, s, v)
    \/ \E e \in Id : \/ DeleteEndpoint(t, e)
                     \/ \E v \in Visibility \cup {"same"} : UpdateEndpoint(t, e, v)
    \/ \E list \in Lists : SyncUserEndpoints(t, list)
    \/ InsertEndpoint(t) \/ WriteEndpoint(t) \/ DeleteRow(t)
    \/ GetRagFileId(t) \/ RemoveDocument(t) \/ ClearRagFileId(t)
    \/ GetEndpointModel(t) \/ AddDocument(t) \/ NoteRagFileId(t)
    \/ Purge(t) \/ Replace(t)

Step ==
    \/ (\E t \in Thread : Handling(t)) /\ UNCHANGED registered
    \/ (\E e \in Id : SetActive(e)) /\ UNCHANGED registered
    \/ DeleteUser

(* History of every step: an endpoint is in doubt when two requests are    *)
(* about it, or one that a running sync does not know of is made, or a     *)
(* request loses a call, its transaction or its account; it is out of      *)
(* doubt when a request on its own has written it as public, whose         *)
(* follow-up puts the index right.  And syncs run side by side.            *)
About(r, e) == r.pc # "idle" /\ (r.op = "sync" \/ r.id = e)

Meet(e) ==
    /\ endpoint'[e].row # "free"
    /\ \E t, u \in Thread : t # u /\ About(req'[t], e) /\ About(req'[u], e)
Appears(e) ==
    /\ endpoint[e].row = "free" /\ endpoint'[e].row # "free"
    /\ \E u \in Thread : req[u].op = "sync" /\ req'[u] = req[u]
Loses(t, e) ==
    /\ About(req[t], e)
    /\ \/ registered' # registered
       \/ /\ req'[t] # req[t]
          /\ failures' # failures \/ (req[t].pc = "replace" /\ Refused(t))
Written(t, e) == req[t].pc = "write" /\ req[t].id = e /\ req'[t].pc = "ingest"

Watch ==
    /\ disturbed' = {e \in Id : \/ e \in disturbed /\ ~\E t \in Thread : Written(t, e)
                                \/ Meet(e) \/ Appears(e)
                                \/ \E t \in Thread : Loses(t, e)}
    /\ overlapped' = overlapped \cup
         {req'[t].number : t \in {x \in Thread : \E u \in Thread \ {x} :
              req'[x].op = "sync" /\ req'[u].op = "sync"}}

Next == Step /\ Watch

Spec == Init /\ [][Next]_vars

-----------------------------------------------------------------------------
(* An endpoint no request is about has a document exactly when it is there *)
(* and public; when it went with its account, exactly when it was public.  *)
(* It may be otherwise after two requests were about the endpoint at once  *)
(* or a call for it failed, until a request on its own has written it as   *)
(* public (endpoint_service.py:631-737, 1170-1215; users.py:248-264).      *)
IndexMirrors ==
    \A e \in Id \ disturbed :
        (\A t \in Thread : ~About(req[t], e))
            => (e \in index <=> /\ endpoint[e].row \in {"live", "gone"}
                               /\ endpoint[e].visibility = "public")

(* Endpoints of two syncs are there together only when the two ran at one  *)
(* time: a sync replaces all that an earlier one made (endpoint_service.py:*)
(* 1107-1108, 1177-1193).                                                  *)
OneSyncRemains ==
    \A e, f \in LiveIds :
        endpoint[e].sync # 0 /\ endpoint[f].sync # 0 /\ endpoint[e].sync # endpoint[f].sync
            => {endpoint[e].sync, endpoint[f].sync} \subseteq overlapped
=============================================================================
