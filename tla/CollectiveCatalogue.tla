------------------------- MODULE CollectiveCatalogue -------------------------
(***************************************************************************)
(* The public side of collectives: their creation under a unique slug and  *)
(* the views of them that the routes of api/endpoints/collectives.py       *)
(* answer.  Memberships are decided elsewhere (module Collectives, request *)
(* by request); here they change at any time, between the queries of a     *)
(* view too.                                                               *)
(*                                                                         *)
(* A view is a sequence of queries, each of the database as it is then.  A *)
(* query that fails answers nothing found, and so does every later one of  *)
(* its request, because PostgreSQL has aborted the transaction.  How an    *)
(* endpoint bills is read from its row alone (module CollectiveBilling).   *)
(***************************************************************************)
EXTENDS Naturals, Sequences, FiniteSets

CONSTANTS User, Endpoint,
          Creator,       \* users who create collectives while others read
          OwnerOf,       \* Endpoint -> User
          Slug,          \* slugs of collectives
          Suffixed,      \* slugs with a random suffix
          MaxCollective, \* collectives ever made (bound of the model)
          MaxEvents      \* changes and failures of queries (bound of the model)

CatalogueAssumption ==
    /\ IsFiniteSet(Endpoint) /\ OwnerOf \in [Endpoint -> User]
    /\ Creator \subseteq User /\ Suffixed \subseteq Slug
    /\ {MaxCollective, MaxEvents} \subseteq Nat

VARIABLES collective, \* id -> its row: free, live or gone, with slug and owner
          standing,   \* id -> Endpoint -> status of the membership, "none" without one
          shared,     \* id -> its shared endpoint: number (0: none) and configured ids
          endpoint,   \* Endpoint -> "active", "inactive" or "deleted"
          hidden,     \* endpoints that are not public
          making,     \* the collective being created
          reader,     \* the request that reads a view
          answers,    \* history: the latest answer, unless something has changed since it began
          events

catVars == <<collective, standing, shared, endpoint, hidden, making, reader, answers, events>>
rows == <<collective, standing, shared, endpoint, hidden>>

CollectiveId == 1..MaxCollective
(* "other" stands for pending, invited and rejected.                       *)
Standing == {"none", "other", "approved"}
NoCollective == [row |-> "free", slug |-> "none", owner |-> "none"]
NoSubset == [no |-> 0, ids |-> {}]
NotMaking == [pc |-> "idle", slug |-> "none", owner |-> "none"]

(* What a request has read so far; next are the queries still to come.     *)
None == [c \in CollectiveId |-> 0]
NoReader == [view |-> "none", sub |-> "all", next |-> <<>>, who |-> "none", wanted |-> {},
             slug |-> "none", ids |-> {}, subset |-> 0, configured |-> {}, members |-> {},
             present |-> {}, public |-> {}, owners |-> {},
             memberCount |-> None, ownerCount |-> None, quiet |-> TRUE, window |-> {}]

Live(c) == collective[c].row = "live"
Under(slug) == {c \in CollectiveId : Live(c) /\ collective[c].slug = slug}
Holding(c, statuses) == {e \in Endpoint : standing[c][e] \in statuses}
Approved(c) == Holding(c, {"approved"})

-----------------------------------------------------------------------------
(* At first there is one collective, with every endpoint in it.            *)
CatInit ==
    /\ \E s \in Slug \ Suffixed, u \in User \ Creator :
         collective = [c \in CollectiveId |-> IF c = 1 THEN [row |-> "live", slug |-> s, owner |-> u] ELSE NoCollective]
    /\ standing = [c \in CollectiveId |-> [e \in Endpoint |-> IF c = 1 THEN "approved" ELSE "none"]]
    /\ shared = [c \in CollectiveId |-> IF c = 1 THEN [no |-> 1, ids |-> Endpoint] ELSE NoSubset]
    /\ endpoint = [e \in Endpoint |-> "active"]
    /\ hidden = {}
    /\ making = NotMaking
    /\ reader = NoReader
    /\ answers = {} /\ events = 0

(* The type invariant.                                                     *)
Queried == {"none", "members", "paths", "billing", "summary", "collective", "page",
            "collectivesOf"}
Query == {"byId", "bySlug", "page", "endpoint", "collectivesOf", "shared", "configured",
          "members", "endpoints", "owners", "countMembers", "countOwners"}

Reader == [view : Queried, sub : {"all", "picks"}, next : Seq(Query), who : User \cup {"none"},
           wanted : SUBSET Standing, slug : Slug \cup {"none"}, ids : SUBSET CollectiveId,
           subset : Nat, configured : SUBSET Endpoint, members : SUBSET Endpoint,
           present : SUBSET Endpoint, public : SUBSET Endpoint, owners : SUBSET User,
           memberCount : [CollectiveId -> Nat], ownerCount : [CollectiveId -> Nat],
           quiet : BOOLEAN, window : SUBSET Endpoint]

CatTypeOK ==
    /\ collective \in [CollectiveId -> [row : {"free", "live", "gone"}, slug : Slug \cup {"none"},
                                       owner : User \cup {"none"}]]
    /\ standing \in [CollectiveId -> [Endpoint -> Standing]]
    /\ shared \in [CollectiveId -> [no : Nat, ids : SUBSET Endpoint]]
    /\ endpoint \in [Endpoint -> {"active", "inactive", "deleted"}] /\ hidden \subseteq Endpoint
    /\ making \in [pc : {"idle", "insert"}, slug : Slug \cup {"none"}, owner : User \cup {"none"}]
    /\ reader \in Reader
    /\ events \in Nat

(* History of a change: no answer counts as undisturbed any more, and who  *)
(* is approved now has been a member while the reader reads.               *)
Watch ==
    /\ answers' = {}
    /\ reader' = IF reader.view = "none" THEN reader
                 ELSE [reader EXCEPT !.quiet = FALSE, !.window = @ \cup
                         {e \in Endpoint : \E c \in reader.ids : standing'[c][e] = "approved"}]

Event == events < MaxEvents /\ events' = events + 1

(* The membership requests of Collectives, by what they do to a row.       *)
SetStanding(c, e, to) ==
    /\ Event /\ Live(c)
    /\ endpoint[e] # "deleted" /\ to # standing[c][e]
    /\ standing' = [standing EXCEPT ![c][e] = to]
    /\ UNCHANGED <<collective, shared, endpoint, hidden, making>> /\ Watch

(* The shared endpoint is made, or given another set of approved members.  *)
SetShared(c, ids) ==
    /\ Event /\ Live(c)
    /\ ids # {} /\ ids \subseteq Approved(c)
    /\ shared' = [shared EXCEPT ![c] = [no |-> IF @.no = 0 THEN events + 2 ELSE @.no, ids |-> ids]]
    /\ UNCHANGED <<collective, standing, endpoint, hidden, making>> /\ Watch

DropShared(c) ==
    /\ Event /\ shared[c] # NoSubset
    /\ shared' = [shared EXCEPT ![c] = NoSubset]
    /\ UNCHANGED <<collective, standing, endpoint, hidden, making>> /\ Watch

(* Its memberships and its shared endpoint go with a collective, and those *)
(* of an endpoint with the endpoint.                                       *)
DropCollective(c) ==
    /\ Event /\ Live(c)
    /\ collective' = [collective EXCEPT ![c].row = "gone"]
    /\ standing' = [standing EXCEPT ![c] = [e \in Endpoint |-> "none"]]
    /\ shared' = [shared EXCEPT ![c] = NoSubset]
    /\ UNCHANGED <<endpoint, hidden, making>> /\ Watch

DropEndpoint(e) ==
    /\ Event /\ endpoint[e] # "deleted"
    /\ endpoint' = [endpoint EXCEPT ![e] = "deleted"]
    /\ standing' = [c \in CollectiveId |-> [standing[c] EXCEPT ![e] = "none"]]
    /\ shared' = [c \in CollectiveId |-> [shared[c] EXCEPT !.ids = @ \ {e}]]
    /\ UNCHANGED <<collective, hidden, making>> /\ Watch

Toggle(e) ==
    /\ Event /\ endpoint[e] # "deleted"
    /\ endpoint' = [endpoint EXCEPT ![e] = IF @ = "active" THEN "inactive" ELSE "active"]
    /\ UNCHANGED <<collective, standing, shared, hidden, making>> /\ Watch

Hide(e) ==
    /\ Event /\ endpoint[e] = "active" /\ e \notin hidden
    /\ hidden' = hidden \cup {e}
    /\ UNCHANGED <<collective, standing, shared, endpoint, making>> /\ Watch

-----------------------------------------------------------------------------
(* Creation: a slug that nobody has is looked for, then inserted under a   *)
(* unique constraint.  A given slug is refused when it is taken; one made  *)
(* from the name gets a random suffix then.                                *)
Untaken(s, given) ==
    IF Under(s) = {} THEN {s} ELSE IF given THEN {} ELSE {x \in Suffixed : Under(x) = {}}

ChooseSlug(u, s, given) ==
    /\ making = NotMaking
    /\ s \notin Suffixed
    /\ \E x \in Untaken(s, given) : making' = [pc |-> "insert", slug |-> x, owner |-> u]
    /\ UNCHANGED <<rows, reader, answers, events>>

InsertCollective ==
    /\ making.pc = "insert"
    /\ making' = NotMaking
    /\ \/ /\ Under(making.slug) = {}
          /\ \E c \in CollectiveId :
               /\ collective[c].row = "free"
               /\ collective' = [collective EXCEPT ![c] =
                     [row |-> "live", slug |-> making.slug, owner |-> making.owner]]
          /\ UNCHANGED <<standing, shared, endpoint, hidden, events>> /\ Watch
       \/ /\ Under(making.slug) # {}
          /\ UNCHANGED <<rows, reader, answers, events>>

-----------------------------------------------------------------------------
(* The views: of one collective, found by id or by slug, or counts of      *)
(* several.  sub is "all" or the shared endpoint.                          *)
Counts == <<"countMembers", "countOwners">>
Rest == <<"endpoints", "owners">>

Queries(view, sub) ==
    CASE view = "members" -> <<"byId", "members">> \o Rest
      [] view \in {"paths", "billing"} /\ sub = "all" -> <<"bySlug", "members">> \o Rest
      [] view \in {"paths", "billing"} /\ sub = "picks" ->
           <<"bySlug", "shared", "configured", "members">> \o Rest
      [] view = "summary" -> <<"bySlug", "shared", "members", "configured">> \o Rest
      [] view = "collective" -> <<"bySlug">> \o Counts
      [] view = "page" -> <<"page">> \o Counts
      [] view = "collectivesOf" -> <<"endpoint", "collectivesOf">> \o Counts

Begin(r) ==
    /\ reader' = [r EXCEPT !.next = Queries(r.view, r.sub)]
    /\ UNCHANGED <<rows, making, answers, events>>

BeginByPath ==
    \E s \in Slug : \E v \in {<<"paths", "all">>, <<"paths", "picks">>, <<"billing", "all">>,
                            <<"billing", "picks">>, <<"summary", "picks">>, <<"collective", "all">>} :
        Begin([NoReader EXCEPT !.view = v[1], !.sub = v[2], !.slug = s, !.wanted = {"approved"}])

BeginPage ==
    \/ Begin([NoReader EXCEPT !.view = "page"])
    \/ \E u \in User : Begin([NoReader EXCEPT !.view = "page", !.who = u])

BeginCollectivesOf ==
    \E e \in Endpoint : Begin([NoReader EXCEPT !.view = "collectivesOf", !.members = {e}])

(* The members, for anybody ("none"), a user, or the collective's owner,   *)
(* who alone may see others than the approved ones.                        *)
Manages(who, c) == collective[c].owner = who

MayAsk(who, c, filter) == Manages(who, c) \/ filter \in {{}, {"approved"}}

(* Faulty: without a filter everybody sees every status.                   *)
WantedByAll(who, c, filter) == IF filter # {} THEN filter ELSE Standing \ {"none"}

Wanted(who, c, filter) ==
    IF filter # {} THEN filter ELSE IF Manages(who, c) THEN Standing \ {"none"} ELSE {"approved"}

BeginMembers ==
    \E c \in CollectiveId, who \in User \cup {"none"}, filter \in {{}, {"approved"}, {"other"}} :
        /\ Live(c) /\ MayAsk(who, c, filter)
        /\ Begin([NoReader EXCEPT !.view = "members", !.who = who, !.ids = {c},
                                  !.wanted = Wanted(who, c, filter), !.window = Approved(c)])

-----------------------------------------------------------------------------
It == CHOOSE c \in reader.ids : TRUE

Found(cs) == reader' = [reader EXCEPT !.next = Tail(@), !.ids = cs,
                                     !.window = UNION {Approved(c) : c \in cs}]
NotFound == reader' = NoReader

ReadCollective ==
    LET q == Head(reader.next)
        found == CASE q = "byId" -> {c \in reader.ids : Live(c)}
                   [] q = "bySlug" -> Under(reader.slug)
    IN /\ q \in {"byId", "bySlug"}
       /\ IF found = {} THEN NotFound ELSE Found(found)

ReadPage ==
    /\ Head(reader.next) = "page"
    /\ Found({c \in CollectiveId : Live(c) /\ reader.who \in {"none", collective[c].owner}})

ReadCollectivesOf ==
    \/ /\ Head(reader.next) = "endpoint"
       /\ IF \A e \in reader.members : endpoint[e] = "active"
            THEN reader' = [reader EXCEPT !.next = Tail(@)] ELSE NotFound
    \/ /\ Head(reader.next) = "collectivesOf"
       /\ Found({c \in CollectiveId : reader.members \subseteq Approved(c)})

ReadShared ==
    /\ Head(reader.next) = "shared"
    /\ IF shared[It].no = 0 THEN NotFound
       ELSE reader' = [reader EXCEPT !.next = Tail(@), !.subset = shared[It].no]

ReadConfigured ==
    /\ Head(reader.next) = "configured"
    /\ reader' = [reader EXCEPT !.next = Tail(@), !.configured =
                     IF shared[It].no = reader.subset THEN shared[It].ids ELSE {}]

ReadMembers ==
    /\ Head(reader.next) = "members"
    /\ reader' = [reader EXCEPT !.next = Tail(@), !.members = Holding(It, reader.wanted)]

(* get_by_ids finds active endpoints only.                                 *)
ReadEndpoints ==
    /\ Head(reader.next) = "endpoints"
    /\ reader' = [reader EXCEPT !.next = Tail(@),
                                !.present = {e \in Endpoint : endpoint[e] = "active"},
                                !.public = Endpoint \ hidden]

ReadOwners ==
    /\ Head(reader.next) = "owners"
    /\ reader' = [reader EXCEPT !.next = Tail(@), !.owners = User]

CountMembers ==
    /\ Head(reader.next) = "countMembers"
    /\ reader' = [reader EXCEPT !.next = Tail(@), !.memberCount =
          [c \in CollectiveId |-> IF c \in reader.ids THEN Cardinality(Approved(c)) ELSE 0]]

CountOwners ==
    /\ Head(reader.next) = "countOwners"
    /\ reader' = [reader EXCEPT !.next = Tail(@), !.ownerCount =
          [c \in CollectiveId |->
             IF c \in reader.ids THEN Cardinality({OwnerOf[e] : e \in Approved(c)}) ELSE 0]]

ReadNext ==
    /\ reader.next # <<>>
    /\ \/ ReadCollective \/ ReadPage \/ ReadCollectivesOf \/ ReadShared \/ ReadConfigured
       \/ ReadMembers \/ ReadEndpoints \/ ReadOwners \/ CountMembers \/ CountOwners
    /\ UNCHANGED <<rows, making, answers, events>>

(* A failed query finds nothing, and nothing is found after it: the request *)
(* answers not found, or with what it has.                                 *)
FailQuery ==
    /\ reader.next # <<>>
    /\ Event
    /\ reader' = IF Head(reader.next) \in {"byId", "bySlug", "page", "endpoint", "shared"} THEN NoReader
                 ELSE [reader EXCEPT !.next = <<>>, !.quiet = FALSE]
    /\ UNCHANGED <<rows, making, answers>>

-----------------------------------------------------------------------------
(* The answers.  A member's path takes its owner's name.                   *)
Selected(r) == IF r.sub = "all" THEN r.members ELSE r.members \cap r.configured
Participants(r) == Selected(r) \cap r.present
Paths(r) == {e \in Participants(r) : OwnerOf[e] \in r.owners}
Visible(r) == {e \in Participants(r) : e \in r.public \/ OwnerOf[e] = r.who}

ActiveMembers(r) == {e \in r.configured \cap r.present : e \in r.members}

AsManager(r) == r.view = "members" /\ \E c \in r.ids : Manages(r.who, c)

Shown(r) ==
    CASE r.view = "members" -> IF AsManager(r) THEN r.members ELSE Visible(r)
      [] r.view = "paths" -> Paths(r)
      [] r.view = "billing" -> Participants(r)
      [] r.view = "summary" -> ActiveMembers(r)
      [] OTHER -> {}

Given(r) ==
    {[of |-> c, view |-> IF AsManager(r) THEN "roster" ELSE r.view, sub |-> r.sub, wanted |-> r.wanted,
      shown |-> Shown(r), memberCount |-> r.memberCount[c], ownerCount |-> r.ownerCount[c]] : c \in r.ids}

Answered == reader.view # "none" /\ reader.next = <<>>

Respond ==
    /\ Answered
    /\ answers' = IF reader.quiet THEN Given(reader) ELSE answers
    /\ reader' = NoReader
    /\ UNCHANGED <<rows, making, events>>

Change ==
    /\ events < MaxEvents
    /\ \/ \E c \in CollectiveId :
            \/ \E e \in Endpoint, to \in Standing : SetStanding(c, e, to)
            \/ \E ids \in SUBSET Endpoint : SetShared(c, ids)
            \/ DropShared(c) \/ DropCollective(c)
       \/ \E e \in Endpoint : DropEndpoint(e) \/ Toggle(e) \/ Hide(e)

Create == InsertCollective \/ \E u \in Creator, s \in Slug, given \in BOOLEAN : ChooseSlug(u, s, given)

Read ==
    \/ reader = NoReader /\ (BeginByPath \/ BeginPage \/ BeginCollectivesOf \/ BeginMembers)
    \/ ReadNext \/ FailQuery \/ Respond

CatNext == Change \/ Create \/ Read

CatSpec == CatInit /\ [][CatNext]_catVars

-----------------------------------------------------------------------------
(* Two answers about a collective between which, and during which, nothing *)
(* changed.                                                                *)
Counting == {"collective", "page", "collectivesOf"}

Agree(a, b) ==
    LET views == {a.view, b.view} IN
    CASE views \subseteq {"paths", "billing", "summary"} -> a.sub = b.sub => a.shown = b.shown
      [] a.view = "members" /\ b.view \in {"paths", "billing"} -> b.sub = "all" => a.shown \subseteq b.shown
                                                                 \/ a.wanted # {"approved"}
      [] a.view \in {"paths", "billing"} /\ b.view = "roster" ->
           "approved" \in b.wanted => a.shown \subseteq b.shown
      [] a.view \in Counting /\ b.view = "roster" ->
           b.wanted = {"approved"} =>
             /\ a.memberCount = Cardinality(b.shown)
             /\ a.ownerCount = Cardinality({OwnerOf[e] : e \in b.shown})
      [] views \subseteq Counting -> a.memberCount = b.memberCount /\ a.ownerCount = b.ownerCount
      [] OTHER -> TRUE

(* What a caller who does not manage the collective is shown as its        *)
(* members, as the endpoints behind a path, or as those a buyer pays, were *)
(* approved members of it at some moment while the view was read, whatever *)
(* joined, left, was deleted or took over the slug between its queries and *)
(* whichever of them failed.  And when nothing changes, the views agree:   *)
(* the endpoints behind a path, those billed and those listed as active    *)
(* are the same, the members listed are among them, and the counts are     *)
(* those of the owner's list (collective_service.py:297-504, 835-889,      *)
(* 985-1045, 1389-1468).                                                   *)
ViewsFaithful ==
    /\ (Answered /\ ~AsManager(reader)) => Shown(reader) \subseteq reader.window
    /\ (Answered /\ reader.quiet) =>
         \A a \in answers, b \in Given(reader) : a.of = b.of => Agree(a, b) /\ Agree(b, a)
=============================================================================
