---------------------------- MODULE Collectives ----------------------------
(***************************************************************************)
(* The membership of one collective of the hub, and one of its shared      *)
(* endpoints: services/collective_service.py over the repositories of      *)
(* repositories/collective.py.  A request runs in a thread of its own, in  *)
(* read-committed transactions and without row locks: it loads the         *)
(* collective and the endpoint, then reads the membership row, and then    *)
(* writes what it decided, by row id, whatever the row has become in the   *)
(* meantime.  Every one of these three steps is an action here, so that    *)
(* concurrent requests interleave between them.                            *)
(***************************************************************************)
EXTENDS Naturals, FiniteSets

CONSTANTS Endpoint,    \* the endpoint ids in use; the database never reuses one
          Joinable,    \* those whose type has a data source
          Request,     \* threads that handle requests
          MaxRow,      \* membership rows ever inserted
          MaxShared    \* shared endpoints ever created under the one slug

ASSUME CollectivesAssumption ==
    /\ Joinable \subseteq Endpoint
    /\ MaxRow \in Nat /\ MaxShared \in Nat

VARIABLES open,         \* the collective exists
          autoApprove,  \* its auto_approve column
          endpoint,     \* Endpoint -> "active", "inactive" or "deleted"
          member,       \* row id -> the membership row, NoMember when there is none
          nextRow,      \* next membership row id
          shared,       \* the shared endpoint: its id (0: none) and endpoint ids
          nextShared,   \* next shared endpoint id
          req,          \* Request -> what the thread has read and decided
          everApproved, \* history: endpoints that have been approved members
          window        \* history: approved members during a running resolve

dbVars == <<open, autoApprove, endpoint, member, nextRow, shared, nextShared>>
history == <<everApproved, window>>
vars == <<dbVars, req, history>>

Row == 1..MaxRow
Status == {"pending", "invited", "approved", "rejected"}
Side == {"owner", "collective"}

(* Who sends a request: the owner of the endpoint or of the collective, an *)
(* admin, who may act for either side, or anybody else.                    *)
Actor == Side \cup {"admin", "stranger"}
Speaks(a) == IF a = "admin" THEN Side ELSE Side \cap {a}

(* The side for which a request is made.                                   *)
Sides(op) == IF op \in {"join", "respond"} THEN {"owner"}
             ELSE IF op \in {"invite", "review"} THEN {"collective"} ELSE {}

NoMember == [status |-> "none", endpoint |-> "none", consent |-> {}]
NoShared == [id |-> 0, ids |-> {}]
Idle == [pc |-> "idle", op |-> "none", endpoint |-> "none", auto |-> FALSE,
         row |-> 0, to |-> "none", by |-> {}, shared |-> 0, ids |-> {}]

Resolving == {"configured", "approved", "answered"}

Member == [status: Status, endpoint: Endpoint, consent: SUBSET Side]
Thread == [pc: {"idle", "loaded", "insert", "update", "delete", "check"} \cup Resolving,
           op: {"none", "join", "invite", "review", "respond", "remove"},
           endpoint: Endpoint \cup {"none"}, auto: BOOLEAN, row: 0..MaxRow,
           to: Status \cup {"none"}, by: SUBSET Side,
           shared: 0..MaxShared, ids: SUBSET Endpoint]

TypeOK ==
    /\ open \in BOOLEAN /\ autoApprove \in BOOLEAN
    /\ endpoint \in [Endpoint -> {"active", "inactive", "deleted"}]
    /\ member \in [Row -> Member \cup {NoMember}]
    /\ nextRow \in 1..(MaxRow + 1) /\ nextShared \in 1..(MaxShared + 1)
    /\ shared \in [id: 0..MaxShared, ids: SUBSET Endpoint]
    /\ req \in [Request -> Thread]
    /\ everApproved \subseteq Endpoint
    /\ window \in [Request -> SUBSET Endpoint]

ApprovedIn(m) == {m[i].endpoint : i \in {j \in Row : m[j].status = "approved"}}
Approved == ApprovedIn(member)
RowsOf(e) == {i \in Row : member[i].status # "none" /\ member[i].endpoint = e}

Init ==
    /\ open = TRUE
    /\ autoApprove \in BOOLEAN
    /\ endpoint = [e \in Endpoint |-> "active"]
    /\ member = [i \in Row |-> NoMember] /\ nextRow = 1
    /\ shared = NoShared /\ nextShared = 1
    /\ req = [r \in Request |-> Idle]
    /\ everApproved = {} /\ window = [r \in Request |-> {}]

(* The collective's owner turns auto_approve on or off.                    *)
UpdateCollective ==
    /\ open
    /\ \E b \in BOOLEAN : autoApprove' = b
    /\ UNCHANGED <<open, endpoint, member, nextRow, shared, nextShared, req>>

(* ON DELETE CASCADE removes the memberships and the shared endpoints.     *)
DeleteCollective ==
    /\ open
    /\ open' = FALSE
    /\ member' = [i \in Row |-> NoMember]
    /\ shared' = NoShared
    /\ UNCHANGED <<autoApprove, endpoint, nextRow, nextShared, req>>

(* The health monitor or an admin sets an endpoint's is_active.            *)
SetActive(e) ==
    /\ endpoint[e] # "deleted"
    /\ endpoint' = [endpoint EXCEPT ![e] = IF @ = "active" THEN "inactive" ELSE "active"]
    /\ UNCHANGED <<open, autoApprove, member, nextRow, shared, nextShared, req>>

(* The endpoint goes: its owner deletes it, by hand or with a sync that    *)
(* replaces all of them, inactive ones too, or the owner's account goes.   *)
(* The cascade takes its rows along.                                       *)
DeleteEndpoint(e) ==
    /\ endpoint[e] # "deleted"
    /\ endpoint' = [endpoint EXCEPT ![e] = "deleted"]
    /\ member' = [i \in Row |-> IF member[i].endpoint = e THEN NoMember ELSE member[i]]
    /\ shared' = [shared EXCEPT !.ids = @ \ {e}]
    /\ UNCHANGED <<open, autoApprove, nextRow, nextShared, req>>

-----------------------------------------------------------------------------
(* A membership request loads the collective and, where the handler needs  *)
(* it, the endpoint, and is turned away (403) when its actor may not act   *)
(* for that side; remove_member asks that later.                           *)
CanJoin(e) == endpoint[e] = "active" /\ e \in Joinable

Load(r, op, e) ==
    /\ req[r].pc = "idle"
    /\ open
    /\ op \in {"join", "invite"} => CanJoin(e)
    /\ op = "respond" => endpoint[e] = "active"
    /\ \E a \in Actor :
          /\ Sides(op) \subseteq Speaks(a)
          /\ req' = [req EXCEPT ![r] = [Idle EXCEPT !.pc = "loaded", !.op = op,
                                        !.endpoint = e, !.auto = (op = "join" /\ autoApprove),
                                        !.by = Sides(op) \cap Speaks(a)]]
    /\ UNCHANGED dbVars

Reading(r, op) == req[r].pc = "loaded" /\ req[r].op = op

(* The thread decided to set row i to a status, with the consent of by.    *)
Update(r, i, to, by) ==
    req' = [req EXCEPT ![r] = [Idle EXCEPT !.pc = "update", !.endpoint = req[r].endpoint,
                                           !.row = i, !.to = to, !.by = by]]
Insert(r, to, by) ==
    req' = [req EXCEPT ![r] = [Idle EXCEPT !.pc = "insert", !.endpoint = req[r].endpoint,
                                           !.to = to, !.by = by]]
Refuse(r) == req' = [req EXCEPT ![r] = Idle]

JoinOutcome(r) == IF req[r].auto THEN "approved" ELSE "pending"
JoinConsent(r) == req[r].by \cup (IF req[r].auto THEN {"collective"} ELSE {})

RequestJoin(r) ==
    /\ Reading(r, "join")
    /\ LET rows == RowsOf(req[r].endpoint) IN
       \/ rows = {} /\ Insert(r, JoinOutcome(r), JoinConsent(r))
       \/ \E i \in rows :
             \/ member[i].status \in {"approved", "pending"} /\ Refuse(r)
             \/ member[i].status = "invited" /\ Update(r, i, "approved", req[r].by)
             \/ member[i].status = "rejected" /\ Update(r, i, JoinOutcome(r), JoinConsent(r))
    /\ UNCHANGED dbVars

InviteEndpoint(r) ==
    /\ Reading(r, "invite")
    /\ LET rows == RowsOf(req[r].endpoint) IN
       \/ rows = {} /\ Insert(r, "invited", req[r].by)
       \/ \E i \in rows :
             \/ member[i].status \in {"approved", "invited"} /\ Refuse(r)
             \/ member[i].status = "pending" /\ Update(r, i, "approved", req[r].by)
             \/ member[i].status = "rejected" /\ Update(r, i, "invited", req[r].by)
    /\ UNCHANGED dbVars

(* The collective's owner decides a request, the endpoint's owner an       *)
(* invitation: the two handlers differ in the status they expect.          *)
DecideFrom(r, expected) ==
    LET rows == {i \in RowsOf(req[r].endpoint) : member[i].status = expected} IN
    \/ rows = {} /\ Refuse(r)
    \/ \E i \in rows : \/ Update(r, i, "approved", req[r].by)
                       \/ Update(r, i, "rejected", {})

ReviewRequest(r) ==
    /\ Reading(r, "review")
    /\ DecideFrom(r, "pending")
    /\ UNCHANGED dbVars

RespondToInvitation(r) ==
    /\ Reading(r, "respond")
    /\ DecideFrom(r, "invited")
    /\ UNCHANGED dbVars

(* The collective's owner, an admin, or the owner of an active endpoint.   *)
MayRemove(a, e) ==
    \/ "collective" \in Speaks(a)
    \/ "owner" \in Speaks(a) /\ endpoint[e] = "active"

RemoveMember(r) ==
    /\ Reading(r, "remove")
    /\ LET rows == RowsOf(req[r].endpoint) IN
       \/ rows = {} /\ Refuse(r)
       \/ \E a \in Actor : ~MayRemove(a, req[r].endpoint) /\ Refuse(r)
       \/ \E i \in rows, a \in Actor :
             /\ MayRemove(a, req[r].endpoint)
             /\ req' = [req EXCEPT ![r] = [Idle EXCEPT !.pc = "delete", !.row = i]]
    /\ UNCHANGED dbVars

-----------------------------------------------------------------------------
(* The writes.  A foreign key or the unique constraint on (collective,     *)
(* endpoint) makes an insert fail; a row that is gone makes an update or a *)
(* delete fail; the thread then answers 500.                               *)
CreateMembership(r) ==
    /\ req[r].pc = "insert"
    /\ LET e == req[r].endpoint IN
       IF open /\ endpoint[e] # "deleted" /\ RowsOf(e) = {}
       THEN /\ nextRow \in Row
            /\ member' = [member EXCEPT ![nextRow] =
                             [status |-> req[r].to, endpoint |-> e, consent |-> req[r].by]]
            /\ nextRow' = nextRow + 1
       ELSE UNCHANGED <<member, nextRow>>
    /\ req' = [req EXCEPT ![r] = Idle]
    /\ UNCHANGED <<open, autoApprove, endpoint, shared, nextShared>>

(* Faulty: the row is looked up again by its endpoint.                     *)
UpdateMembershipOfEndpoint(r) ==
    /\ req[r].pc = "update"
    /\ member' = [i \in Row |->
                     IF i \in RowsOf(req[r].endpoint)
                     THEN [member[i] EXCEPT !.status = req[r].to,
                                            !.consent = @ \cup req[r].by]
                     ELSE member[i]]
    /\ req' = [req EXCEPT ![r] = Idle]
    /\ UNCHANGED <<open, autoApprove, endpoint, nextRow, shared, nextShared>>

UpdateMembership(r) ==
    /\ req[r].pc = "update"
    /\ LET i == req[r].row IN
       member' = IF member[i].status = "none" THEN member
                 ELSE [member EXCEPT ![i].status = req[r].to,
                                     ![i].consent = @ \cup req[r].by]
    /\ req' = [req EXCEPT ![r] = Idle]
    /\ UNCHANGED <<open, autoApprove, endpoint, nextRow, shared, nextShared>>

DeleteMembership(r) ==
    /\ req[r].pc = "delete"
    /\ member' = [member EXCEPT ![req[r].row] = NoMember]
    /\ req' = [req EXCEPT ![r] = Idle]
    /\ UNCHANGED <<open, autoApprove, endpoint, nextRow, shared, nextShared>>

-----------------------------------------------------------------------------
(* The shared endpoint: a subset of the approved members under a slug.     *)
(* The check and the write are separate; the slug is unique.               *)
(* Faulty: any member will do.                                             *)
CheckSharedAnyMember(r) ==
    /\ req[r].pc = "idle"
    /\ open
    /\ \E ids \in SUBSET {e \in Endpoint : RowsOf(e) # {}} :
          req' = [req EXCEPT ![r] = [Idle EXCEPT !.pc = "check", !.shared = shared.id,
                                     !.ids = ids]]
    /\ UNCHANGED dbVars

CheckShared(r) ==
    /\ req[r].pc = "idle"
    /\ open
    /\ \E ids \in SUBSET Approved :
          req' = [req EXCEPT ![r] = [Idle EXCEPT !.pc = "check", !.shared = shared.id,
                                     !.ids = ids]]
    /\ UNCHANGED dbVars

NoneDeleted(ids) == \A e \in ids : endpoint[e] # "deleted"

CreateSharedEndpoint(r) ==
    /\ req[r].pc = "check" /\ req[r].shared = 0
    /\ IF open /\ shared.id = 0 /\ NoneDeleted(req[r].ids)
       THEN /\ nextShared <= MaxShared
            /\ shared' = [id |-> nextShared, ids |-> req[r].ids]
            /\ nextShared' = nextShared + 1
       ELSE UNCHANGED <<shared, nextShared>>
    /\ req' = [req EXCEPT ![r] = Idle]
    /\ UNCHANGED <<open, autoApprove, endpoint, member, nextRow>>

UpdateSharedEndpoint(r) ==
    /\ req[r].pc = "check" /\ req[r].shared # 0
    /\ shared' = IF shared.id = req[r].shared /\ NoneDeleted(req[r].ids)
                 THEN [shared EXCEPT !.ids = req[r].ids]
                 ELSE shared
    /\ req' = [req EXCEPT ![r] = Idle]
    /\ UNCHANGED <<open, autoApprove, endpoint, member, nextRow, nextShared>>

DeleteSharedEndpoint ==
    /\ shared.id # 0
    /\ shared' = NoShared
    /\ UNCHANGED <<open, autoApprove, endpoint, member, nextRow, nextShared, req>>

(* Resolving collective/<slug>/<shared slug> to endpoint paths: configured *)
(* ids, then the approved members among them, then the active endpoints    *)
(* among those, each in a query of its own.  The slug "all" starts from    *)
(* every endpoint.                                                         *)
ResolveConfigured(r) ==
    /\ req[r].pc = "idle"
    /\ open
    /\ \E ids \in {Endpoint} \cup (IF shared.id = 0 THEN {} ELSE {shared.ids}) :
          req' = [req EXCEPT ![r] = [Idle EXCEPT !.pc = "configured", !.ids = ids]]
    /\ UNCHANGED dbVars

(* Faulty: the configured ids are trusted.                                 *)
ResolveConfiguredOnly(r) ==
    /\ req[r].pc = "configured"
    /\ req' = [req EXCEPT ![r] = [@ EXCEPT !.pc = "approved"]]
    /\ UNCHANGED dbVars

ResolveApproved(r) ==
    /\ req[r].pc = "configured"
    /\ req' = [req EXCEPT ![r] = [@ EXCEPT !.pc = "approved", !.ids = req[r].ids \cap Approved]]
    /\ UNCHANGED dbVars

ResolvePaths(r) ==
    /\ req[r].pc = "approved"
    /\ req' = [req EXCEPT ![r] = [@ EXCEPT !.pc = "answered",
                                  !.ids = {e \in req[r].ids : endpoint[e] = "active"}]]
    /\ UNCHANGED dbVars

Answer(r) ==
    /\ req[r].pc = "answered"
    /\ req' = [req EXCEPT ![r] = Idle]
    /\ UNCHANGED dbVars

-----------------------------------------------------------------------------
Record ==
    /\ everApproved' = everApproved \cup ApprovedIn(member')
    /\ window' = [r \in Request |->
                     IF req'[r].pc \in Resolving
                     THEN window[r] \cup Approved \cup ApprovedIn(member') ELSE {}]

Step(r) ==
    \/ \E op \in {"join", "invite", "review", "respond", "remove"}, e \in Endpoint :
          Load(r, op, e)
    \/ RequestJoin(r) \/ InviteEndpoint(r) \/ ReviewRequest(r)
    \/ RespondToInvitation(r) \/ RemoveMember(r)
    \/ CreateMembership(r) \/ UpdateMembership(r) \/ DeleteMembership(r)
    \/ CheckShared(r) \/ CreateSharedEndpoint(r) \/ UpdateSharedEndpoint(r)
    \/ ResolveConfigured(r) \/ ResolveApproved(r) \/ ResolvePaths(r) \/ Answer(r)

Environment ==
    \/ UpdateCollective \/ DeleteCollective \/ DeleteSharedEndpoint
    \/ \E e \in Endpoint : SetActive(e) \/ DeleteEndpoint(e)

Next ==
    /\ \/ \E r \in Request : Step(r)
       \/ Environment
    /\ Record

Spec == Init /\ [][Next]_vars

-----------------------------------------------------------------------------
(* An approved member has the agreement of both sides, given for that very *)
(* row: its endpoint's owner requested or accepted, and the collective's   *)
(* invited, approved, or had auto_approve on when the request was read.    *)
(* Each may have been an admin acting for that side, and nobody else.      *)
(* No interleaving of requests, removals and new rows breaks this,         *)
(* although every request writes what it decided from an older read        *)
(* (collective_service.py:538-739).                                         *)
MembersConsented ==
    \A i \in Row : member[i].status = "approved" => member[i].consent = Side

(* A shared endpoint lists only endpoints that have been approved members  *)
(* at some time: its owner cannot put in a pending, a rejected or an       *)
(* unrelated endpoint, even by an update that overlaps with removals       *)
(* (create_shared_endpoint, update_shared_endpoint).                       *)
SharedOnceApproved == shared.ids \subseteq everApproved

(* A resolve answers with endpoints that were approved members at some     *)
(* moment while it ran: one that had left before, or never was a member,   *)
(* is not asked for data, although the shared endpoint still lists it      *)
(* (get_shared_endpoint_paths).                                            *)
ResolvedWereMembers ==
    \A r \in Request : req[r].pc \in {"approved", "answered"} => req[r].ids \subseteq window[r]
=============================================================================
