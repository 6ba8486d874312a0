-------------------------- MODULE EndpointDirectory --------------------------
(***************************************************************************)
(* What the hub lists: the views of repositories/endpoint.py over the      *)
(* endpoints of all owners, the stars users give them, and a reader who    *)
(* walks a view page by page (PageIterator of the SDK) while endpoints     *)
(* come, go and change.                                                    *)
(*                                                                         *)
(* Every view but the trending one is ordered by updated_at, the newest    *)
(* first; no code writes that column after the insert, so the order is the *)
(* one of creation, and an entry's number stands for its time.  Each query *)
(* sees the database as it is and answers an empty list when it fails.     *)
(* A star is a row of its own and a counter in the endpoint: two           *)
(* transactions, the second of which reads the counter and writes it back. *)
(***************************************************************************)
EXTENDS Naturals, FiniteSets, SequencesExt

CONSTANTS User,        \* accounts
          Slug,        \* slugs in use
          TypeOf,      \* Slug -> the type an endpoint of that slug has
          PolicyLists, \* policies endpoints have: sequences of audiences (applied_to)
          Thread,      \* threads that handle stars
          MaxEntry,    \* endpoints ever made (bound of the model)
          PageSize,    \* page size of the reader
          MaxPerOwner, \* endpoints of an owner the grouped view shows
          MaxChanges,  \* changes and stars ever asked for (bound of the model)
          MaxFaults    \* calls that fail (bound of the model)

EndpointType == {"model", "data_source", "model_data_source", "agent"}

DirectoryAssumption ==
    /\ TypeOf \in [Slug -> EndpointType]
    /\ {MaxEntry, MaxChanges, MaxFaults} \subseteq Nat
    /\ {PageSize, MaxPerOwner} \subseteq Nat \ {0}

VARIABLES entry,    \* id -> the row of the endpoint
          account,  \* users that have an account
          starred,  \* star rows: <<user, id>>
          job,      \* Thread -> the star or unstar it handles
          walk,     \* the reader
          changes, faults,
          drifted   \* history: ids whose counter an excusable step has put off

dirVars == <<entry, account, starred, job, walk, changes, faults, drifted>>

EntryId == 1..MaxEntry
NoEntry == [row |-> "free", owner |-> "none", slug |-> "none", visibility |-> "private",
            active |-> FALSE, policies |-> <<>>, stars |-> 0]
NoJob == [pc |-> "idle", op |-> "none", user |-> "none", id |-> 0, seen |-> 0]

There(e) == entry[e].row = "live"
Stars(e) == Cardinality({s \in starred : s[2] = e})

-----------------------------------------------------------------------------
(* The views, of the rows ep.                                              *)
MatchingTypes(type) ==
    CASE type = "any" -> EndpointType
      [] type \in {"model", "data_source"} -> {type, "model_data_source"}
      [] OTHER -> {type}

Shown(ep) == {e \in EntryId : ep[e].row = "live" /\ ep[e].visibility = "public" /\ ep[e].active}

Newest(S) == CHOOSE s \in SetToSeqs(S) : \A i, j \in DOMAIN s : i < j => s[i] > s[j]

PublicEndpoints(ep, type) == {e \in Shown(ep) : TypeOf[ep[e].slug] \in MatchingTypes(type)}
PublicByOwner(ep, u) == {e \in Shown(ep) : ep[e].owner = u}
PublicByPath(ep, u, s) == {e \in PublicByOwner(ep, u) : ep[e].slug = s}
GuestAccessible(ep, type) == {e \in PublicEndpoints(ep, type) : ep[e].policies = <<>>}
Trending(ep, min) == {e \in Shown(ep) : ep[e].stars >= min}
UserEndpoints(ep, u) == {e \in EntryId : ep[e].row = "live" /\ ep[e].owner = u}

Grouped(ep) ==
    [u \in {ep[e].owner : e \in Shown(ep)} |->
        LET all == Newest(PublicByOwner(ep, u))
        IN [endpoints |-> SubSeq(all, 1, IF Len(all) < MaxPerOwner THEN Len(all) ELSE MaxPerOwner),
            total_count |-> Len(all), has_more |-> Len(all) > MaxPerOwner]]

Counted(ep, u) == PublicByOwner(ep, u)

(* The counts are by exact type: an endpoint that is both a model and a    *)
(* data source is in neither.                                              *)
Owners(ep) ==
    [u \in {ep[e].owner : e \in Shown(ep)} |->
        LET of(types) == Cardinality({e \in Counted(ep, u) : TypeOf[ep[e].slug] \in types})
        IN [endpoint_count |-> of(EndpointType), model_count |-> of({"model"}),
            data_source_count |-> of({"data_source"})]]

(* filter_visible_policies: those that name the viewer or, when none does, *)
(* those for everyone.                                                     *)
VisiblePolicies(policies, viewer) ==
    LET targeted == {i \in DOMAIN policies : viewer \in policies[i]}
        wildcards == {i \in DOMAIN policies : policies[i] = {} \/ "*" \in policies[i]}
    IN IF targeted # {} THEN targeted ELSE wildcards

-----------------------------------------------------------------------------
(* The views a reader walks, as the set listed and the orders it may come  *)
(* in; what ties in the trending view comes in any order.                  *)
PublicViews == [name : {"public"}, type : {"any", "model"}]
GuestViews == [name : {"guest"}, type : {"any"}]
TrendingViews == [name : {"trending"}, min : {0, 1}]
OwnerViews == [name : {"owner"}, of : User]
OwnViews == [name : {"own"}, of : User]
Views == PublicViews \cup GuestViews \cup TrendingViews \cup OwnerViews \cup OwnViews

Listed(v, ep) ==
    CASE v.name = "public" -> PublicEndpoints(ep, v.type)
      [] v.name = "guest" -> GuestAccessible(ep, v.type)
      [] v.name = "trending" -> Trending(ep, v.min)
      [] v.name = "owner" -> PublicByOwner(ep, v.of)
      [] v.name = "own" -> UserEndpoints(ep, v.of)

Orders(v) ==
    IF v.name = "trending"
      THEN {s \in SetToSeqs(Listed(v, entry)) :
              \A i, j \in DOMAIN s : i < j => entry[s[i]].stars >= entry[s[j]].stars}
      ELSE {Newest(Listed(v, entry))}

NoWalk == [pc |-> "idle", view |-> [name |-> "public", type |-> "any"], goal |-> <<>>, page |-> 0,
           got |-> <<>>, stayed |-> {}, left |-> FALSE, joined |-> FALSE, shuffled |-> FALSE,
           failed |-> FALSE]

IsGoal(e) == walk.goal = <<entry[e].owner, entry[e].slug>>
Found == \E i \in DOMAIN walk.got : IsGoal(walk.got[i])

Offered(u, s, v, p) == [row |-> "live", owner |-> u, slug |-> s, visibility |-> v,
                        active |-> TRUE, policies |-> p, stars |-> 0]

Still ==
    /\ account = User
    /\ starred = {}
    /\ job = [t \in Thread |-> NoJob]
    /\ walk = NoWalk
    /\ changes = 0 /\ faults = 0
    /\ drifted = {}

(* At first two endpoints are there, public and without policies.          *)
DirInit ==
    /\ Still
    /\ \E p, q \in User \X Slug :
         /\ p # q
         /\ entry = [e \in EntryId |-> CASE e = 1 -> Offered(p[1], p[2], "public", <<>>)
                                        [] e = 2 -> Offered(q[1], q[2], "public", <<>>)
                                        [] OTHER -> NoEntry]

(* The type invariant; a reader's progress is in walk.                     *)
DirTypeOK ==
    /\ entry \in [EntryId -> [row : {"free", "live", "gone"}, owner : User \cup {"none"},
                             slug : Slug \cup {"none"}, visibility : {"public", "private"},
                             active : BOOLEAN, policies : PolicyLists \cup {<<>>}, stars : Nat]]
    /\ account \subseteq User /\ starred \subseteq User \X EntryId
    /\ \A t \in Thread : job[t].pc \in {"idle", "row", "read", "write"} /\ job[t].seen \in Nat
    /\ walk.pc \in {"idle", "walking", "done"} /\ walk.view \in Views
    /\ walk.got \in Seq(EntryId) /\ walk.stayed \subseteq EntryId
    /\ changes \in 0..MaxChanges /\ faults \in 0..MaxFaults /\ drifted \subseteq EntryId

-----------------------------------------------------------------------------
Ask == changes < MaxChanges /\ changes' = changes + 1
Sound == UNCHANGED faults
Fault == faults < MaxFaults /\ faults' = faults + 1

(* Changes of the rows: by owners through MyEndpointsResource, whose       *)
(* requests EndpointCatalogue follows step by step, by admins and by the   *)
(* health monitor.                                                         *)
Publish(u, s, v, p) ==
    /\ Ask /\ Sound
    /\ u \in account
    /\ \A e \in UserEndpoints(entry, u) : entry[e].slug # s
    /\ \E e \in EntryId :
         /\ entry[e].row = "free" /\ \A f \in 1..(e - 1) : entry[f].row # "free"
         /\ entry' = [entry EXCEPT ![e] = Offered(u, s, v, p)]
    /\ UNCHANGED <<account, starred, job, drifted>>

Revise(e, v, p) ==
    /\ Ask /\ Sound
    /\ There(e) /\ entry[e].active
    /\ v = entry[e].visibility \/ p = entry[e].policies
    /\ entry' = [entry EXCEPT ![e].visibility = v, ![e].policies = p]
    /\ UNCHANGED <<account, starred, job, drifted>>

AdminUpdate(e, active, stars) ==
    /\ Ask /\ Sound
    /\ There(e)
    /\ active = entry[e].active \/ stars = entry[e].stars
    /\ entry' = [entry EXCEPT ![e].active = active, ![e].stars = stars]
    /\ drifted' = IF stars = entry[e].stars THEN drifted ELSE drifted \cup {e}
    /\ UNCHANGED <<account, starred, job>>

Gone(S) == entry' = [e \in EntryId |-> IF e \in S THEN [NoEntry EXCEPT !.row = "gone"] ELSE entry[e]]

Withdraw(e) ==
    /\ Ask /\ Sound
    /\ There(e) /\ entry[e].active
    /\ Gone({e})
    /\ starred' = {s \in starred : s[2] # e}
    /\ UNCHANGED <<account, job, drifted>>

(* The account's endpoints and stars go with it; the counters of what it   *)
(* had starred stay.                                                       *)
RemoveAccount(u) ==
    /\ Ask /\ Sound
    /\ account' = account \ {u}
    /\ Gone(UserEndpoints(entry, u))
    /\ starred' = {s \in starred : s[1] # u /\ s[2] \notin UserEndpoints(entry, u)}
    /\ drifted' = drifted \cup {s[2] : s \in {x \in starred : x[1] = u}}
    /\ UNCHANGED job

-----------------------------------------------------------------------------
(* Stars.  The row is looked for and inserted under a unique index, which  *)
(* makes one step of the two; the counter follows in a transaction of its  *)
(* own, and only when the row was new, or was there to delete.             *)
Become(t, j) == job' = [job EXCEPT ![t] = j]
Proceed(t, pc) == Become(t, [job[t] EXCEPT !.pc = pc])

Accessible(e, u) == entry[e].visibility = "public" \/ entry[e].owner = u

StarEndpoint(t, u, e) ==
    /\ Ask /\ Sound
    /\ job[t].pc = "idle" /\ u \in account
    /\ There(e) /\ entry[e].active /\ Accessible(e, u)
    /\ Become(t, [NoJob EXCEPT !.pc = "row", !.op = "star", !.user = u, !.id = e])
    /\ UNCHANGED <<entry, account, starred, drifted>>

(* HubResource.star and unstar look the id up among the caller's own       *)
(* endpoints, by the slug alone.                                           *)
Resolved(u, s) == {e \in UserEndpoints(entry, u) : entry[e].slug = s}

UnstarEndpoint(t, u, e) ==
    /\ Ask /\ Sound
    /\ job[t].pc = "idle" /\ u \in account
    /\ Become(t, [NoJob EXCEPT !.pc = "row", !.op = "unstar", !.user = u, !.id = e])
    /\ UNCHANGED <<entry, account, starred, drifted>>

(* Faulty: a star that is there already is counted once more.              *)
RowChangesAnyway(op, s) == op = "star" \/ s \in starred

RowChanges(op, s) == op = "star" <=> s \notin starred

WriteStarRow(t) ==
    LET s == <<job[t].user, job[t].id>>
        star == job[t].op = "star"
    IN /\ job[t].pc = "row"
       /\ \/ /\ RowChanges(job[t].op, s)
             /\ star => s[1] \in account /\ There(s[2])
             /\ starred' = IF star THEN starred \cup {s} ELSE starred \ {s}
             /\ Proceed(t, "read") /\ Sound
          \/ /\ ~RowChanges(job[t].op, s) \/ (star /\ ~(s[1] \in account /\ There(s[2])))
             /\ Become(t, NoJob) /\ Sound
             /\ UNCHANGED starred
          \/ Become(t, NoJob) /\ Fault /\ UNCHANGED starred
       /\ UNCHANGED <<entry, account, changes, drifted>>

Counting(t, e) == job[t].id = e /\ job[t].pc \in {"read", "write"}

(* increment_stars and decrement_stars: the latter leaves a zero alone.    *)
ReadCount(t) ==
    LET e == job[t].id
        zero == job[t].op = "unstar" /\ entry[e].stars = 0
        meets == \E u \in Thread \ {t} : job[u].id = e /\ job[u].pc = "write"
    IN /\ job[t].pc = "read"
       /\ \/ /\ There(e) /\ ~zero
             /\ Become(t, [job[t] EXCEPT !.pc = "write", !.seen = entry[e].stars])
             /\ drifted' = IF meets THEN drifted \cup {e} ELSE drifted
             /\ Sound
          \/ /\ ~There(e) \/ zero
             /\ Become(t, NoJob) /\ drifted' = drifted \cup {e} /\ Sound
          \/ Become(t, NoJob) /\ drifted' = drifted \cup {e} /\ Fault
       /\ UNCHANGED <<entry, account, starred, changes>>

WriteCount(t) ==
    LET e == job[t].id IN
       /\ job[t].pc = "write"
       /\ \/ /\ There(e) /\ Sound
             /\ entry' = [entry EXCEPT ![e].stars =
                  IF job[t].op = "star" THEN job[t].seen + 1 ELSE job[t].seen - 1]
             /\ UNCHANGED drifted
          \/ /\ IF There(e) THEN Fault ELSE Sound
             /\ drifted' = drifted \cup {e}
             /\ UNCHANGED entry
       /\ Become(t, NoJob)
       /\ UNCHANGED <<account, starred, changes>>

-----------------------------------------------------------------------------
(* The reader: PageIterator over a view, to its end or, for HubResource.get*)
(* over the public view, until the path it looks for turns up.             *)
BeginWalk(v, goal) ==
    /\ goal # <<>> => v = NoWalk.view
    /\ walk' = [NoWalk EXCEPT !.pc = "walking", !.view = v, !.goal = goal, !.stayed = Listed(v, entry)]
    /\ UNCHANGED <<entry, account, starred, job, changes, faults, drifted>>

Ties == walk.view.name = "trending" /\
        \E e, f \in Listed(walk.view, entry) : e # f /\ entry[e].stars = entry[f].stars

(* Faulty: a full page is taken for the last one.                          *)
LastUnlessOver(n) == n <= PageSize

LastPage(n) == n < PageSize

FetchPage ==
    /\ walk.pc = "walking"
    /\ \/ \E order \in Orders(walk.view) :
            LET skip == walk.page * PageSize
                page == SubSeq(order, skip + 1, IF skip + PageSize < Len(order) THEN skip + PageSize
                                                ELSE Len(order))
                hit == \E i \in DOMAIN page : IsGoal(page[i])
            IN /\ walk' = [walk EXCEPT !.pc = IF hit \/ LastPage(Len(page)) THEN "done" ELSE @,
                                       !.page = @ + 1, !.got = @ \o page, !.shuffled = @ \/ Ties]
               /\ Sound
       \/ walk' = [walk EXCEPT !.pc = "done", !.failed = TRUE] /\ Fault
    /\ UNCHANGED <<entry, account, starred, job, changes, drifted>>

(* History of a change: what left the walked view, joined it, or moved.    *)
WatchWalk ==
    LET before == Listed(walk.view, entry)
        after == Listed(walk.view, entry')
    IN walk' = IF walk.pc = "walking"
                 THEN [walk EXCEPT !.stayed = @ \cap after,
                                   !.left = @ \/ ~(before \subseteq after),
                                   !.joined = @ \/ ~(after \subseteq before),
                                   !.shuffled = @ \/ (walk.view.name = "trending" /\
                                       \E e \in before \cap after : entry'[e].stars # entry[e].stars)]
                 ELSE walk

Change ==
    \/ \E u \in User :
         \/ \E s \in Slug, v \in {"public", "private"}, p \in PolicyLists : Publish(u, s, v, p)
         \/ RemoveAccount(u)
         \/ \E t \in Thread, e \in EntryId : StarEndpoint(t, u, e) \/ UnstarEndpoint(t, u, e)
         \/ \E t \in Thread, s \in Slug : \E e \in Resolved(u, s) :
                StarEndpoint(t, u, e) \/ UnstarEndpoint(t, u, e)
    \/ \E e \in EntryId :
         \/ \E v \in {"public", "private"}, p \in PolicyLists : Revise(e, v, p)
         \/ \E active \in BOOLEAN, stars \in {entry[e].stars, 2} : AdminUpdate(e, active, stars)
         \/ Withdraw(e)
    \/ \E t \in Thread : WriteStarRow(t) \/ ReadCount(t) \/ WriteCount(t)

(* A bound of the model: what comes after the walk is not looked at.        *)
DirNext ==
    \/ walk.pc # "done" /\ Change /\ WatchWalk
    \/ walk.pc = "idle" /\ \E v \in Views, goal \in {<<>>} \cup (User \X Slug) : BeginWalk(v, goal)
    \/ FetchPage

DirSpec == DirInit /\ [][DirNext]_dirVars

-----------------------------------------------------------------------------
(* A walk that ends without a failed query has met every endpoint that was *)
(* listed all along, unless one left the list meanwhile, which moves the   *)
(* others to pages already read, or trending has shuffled it; and met none *)
(* twice unless one joined (_pagination.py:65-105, hub.py:58-80, 178-212). *)
WalkFaithful ==
    walk.pc = "done" /\ ~walk.failed /\ ~walk.shuffled =>
        /\ ~walk.left => Found \/ walk.stayed \subseteq ToSet(walk.got)
        /\ ~walk.joined => IsInjective(walk.got)

(* The counter of an endpoint is the number of its star rows, but for what *)
(* is on its way, unless two counter updates overlapped, one was lost or   *)
(* met a zero, an admin set it or an account that starred it went          *)
(* (endpoint_service.py:893-922, repositories/endpoint.py:891-918).        *)
StarsCounted ==
    \A e \in EntryId \ drifted : There(e) =>
        LET pending(op) == Cardinality({t \in Thread : Counting(t, e) /\ job[t].op = op})
        IN entry[e].stars + pending("star") = Stars(e) + pending("unstar")

(* The views agree on what is public: the groups and the owners' counts    *)
(* cover the public list, a path leads to what is listed and to one        *)
(* endpoint at most, and what guests may use is listed and shows no policy *)
(* to anyone (repositories/endpoint.py:174-672).                           *)
DirectoriesAgree ==
    LET all == PublicEndpoints(entry, "any")
        owners == Owners(entry)
        groups == Grouped(entry) IN
    /\ \A u \in User :
         /\ u \in DOMAIN owners <=> PublicByOwner(entry, u) # {}
         /\ u \in DOMAIN owners =>
              LET o == owners[u]
                  g == groups[u]
              IN /\ o.endpoint_count = g.total_count
                 /\ o.model_count + o.data_source_count <= o.endpoint_count
                 /\ g.has_more <=> g.total_count > Len(g.endpoints)
                 /\ ToSet(g.endpoints) \subseteq all
         /\ \A s \in Slug : Cardinality(PublicByPath(entry, u, s)) <= 1
    /\ all = UNION {PublicByPath(entry, u, s) : u \in User, s \in Slug}
    /\ \A e \in GuestAccessible(entry, "any") :
         e \in all /\ \A u \in User : VisiblePolicies(entry[e].policies, u) = {}

(* The listings of the hub, one at a time and walked page by page.         *)
ListingsFaithful == WalkFaithful /\ DirectoriesAgree
=============================================================================
