------------------------- MODULE HubEndpointsProofs -------------------------
(***************************************************************************)
(* The invariants of the sides of an endpoint, proved for all sets of      *)
(* endpoints, users, slugs and requests.                                   *)
(*                                                                         *)
(* Collectives: the inductive invariant says of a thread that has decided  *)
(* but not yet written: whatever has happened to the row since it was      *)
(* read, the row is gone for good or still carries the consent that the    *)
(* decision needs.                                                         *)
(*                                                                         *)
(* The catalogue: the inductive invariant says of each endpoint that       *)
(* nothing disturbed how far the one request about it has come, which is   *)
(* how far the index may lag.  A step of a request has only to be shown to *)
(* do its duty by each endpoint (Obliged); that the others follow is shown *)
(* once (FollowedKept).                                                    *)
(*                                                                         *)
(* The stars: the inductive invariant keeps the balance of a counter with  *)
(* its star rows and the updates on their way, and needs that the one      *)
(* update about to be written has read what the counter still is.          *)
(*                                                                         *)
(* The listings: the inductive invariant counts what is ahead of an entry  *)
(* in the list a reader walks.  What is yet to be read has at least as     *)
(* much ahead of it as has been read, while nothing leaves the list, and   *)
(* what has been read has less, while nothing joins it.                    *)
(*                                                                         *)
(* The views: the inductive invariant says of a request which queries it   *)
(* may still have before it (Follows) and of what it has read already that *)
(* it was approved while it read (Observed), and is what the rows say if   *)
(* nothing has changed (Current).  An answer that still stands says what   *)
(* the rows say (Says), whichever view gave it, so two of them agree.      *)
(***************************************************************************)
EXTENDS HubEndpoints, CollectiveViews, Sequences, FiniteSetTheorems, FunctionTheorems, TLAPS

(* Collectives.                                                            *)

ConsentFor(status, consent) ==
    /\ status = "approved" => consent = Side
    /\ status = "pending" => "owner" \in consent
    /\ status = "invited" => "collective" \in consent

(* What a row has asked for or been granted was agreed to.                 *)
RowsConsented == \A i \in Row : ConsentFor(member[i].status, member[i].consent)

(* Row ids grow: a row that is gone does not come back.                    *)
NotYetUsed == \A i \in Row : i >= nextRow => member[i].status = "none"

InsertConsented ==
    \A r \in Request : req[r].pc = "insert" =>
        /\ req[r].to \in Status /\ req[r].endpoint \in Endpoint
        /\ ConsentFor(req[r].to, req[r].by)

UpdateConsented ==
    \A r \in Request : req[r].pc = "update" =>
        /\ req[r].to \in Status
        /\ req[r].row \in Row /\ req[r].row < nextRow
        /\ \/ member[req[r].row].status = "none"
           \/ ConsentFor(req[r].to, member[req[r].row].consent \cup req[r].by)

(* A thread that has loaded its request speaks for the side it acts for.   *)
LoadedFor(t) == t.endpoint \in Endpoint /\ t.by = Sides(t.op)

LoadedEndpoint == \A r \in Request : req[r].pc = "loaded" => LoadedFor(req[r])

ApprovedRecorded == Approved \subseteq everApproved

CheckedOnceApproved ==
    \A r \in Request : req[r].pc = "check" => req[r].ids \subseteq everApproved

IInv ==
    /\ TypeOK
    /\ RowsConsented /\ NotYetUsed
    /\ InsertConsented /\ UpdateConsented /\ LoadedEndpoint
    /\ ApprovedRecorded /\ SharedOnceApproved /\ CheckedOnceApproved
    /\ ResolvedWereMembers

-----------------------------------------------------------------------------
(* Types.                                                                  *)

LEMMA IdleIsThread == Idle \in Thread
BY CollectivesAssumption DEF Idle, Thread, Side, Status, Resolving

(* What a read leaves behind is a thread.                                  *)
LEMMA DecidingIsTyped ==
    ASSUME TypeOK, NEW r \in Request,
           \/ Refuse(r)
           \/ \E i \in Row, to \in Status, by \in SUBSET Side : Update(r, i, to, by)
           \/ \E to \in Status, by \in SUBSET Side : Insert(r, to, by)
    PROVE  req' \in [Request -> Thread]
<1>1. req \in [Request -> Thread] /\ Row \subseteq 0..MaxRow
  BY CollectivesAssumption DEF TypeOK, Row
<1>2. CASE Refuse(r)
  BY <1>1, <1>2, IdleIsThread DEF Refuse
<1>3. CASE \E i \in Row, to \in Status, by \in SUBSET Side : Update(r, i, to, by)
  <2>1. PICK i \in Row, to \in Status, by \in SUBSET Side : Update(r, i, to, by)
    BY <1>3
  <2>2. [Idle EXCEPT !.pc = "update", !.endpoint = req[r].endpoint,
                     !.row = i, !.to = to, !.by = by] \in Thread
    BY <1>1, IdleIsThread DEF Thread
  <2> QED BY <1>1, <2>1, <2>2, Zenon DEF Update
<1>4. CASE \E to \in Status, by \in SUBSET Side : Insert(r, to, by)
  <2>1. PICK to \in Status, by \in SUBSET Side : Insert(r, to, by)
    BY <1>4
  <2>2. [Idle EXCEPT !.pc = "insert", !.endpoint = req[r].endpoint,
                     !.to = to, !.by = by] \in Thread
    BY <1>1, IdleIsThread DEF Thread
  <2> QED BY <1>1, <2>1, <2>2, Zenon DEF Insert
<1> QED BY <1>2, <1>3, <1>4

(* The handlers that decide do so with statuses and consents.              *)
LEMMA HandlersDecide ==
    ASSUME TypeOK, NEW r \in Request,
           \/ RequestJoin(r) \/ InviteEndpoint(r) \/ ReviewRequest(r) \/ RespondToInvitation(r)
    PROVE  \/ Refuse(r)
           \/ \E i \in Row, to \in Status, by \in SUBSET Side : Update(r, i, to, by)
           \/ \E to \in Status, by \in SUBSET Side : Insert(r, to, by)
<1>1. {"approved", "pending", "invited", "rejected"} \subseteq Status
  BY DEF Status
<1>2. {{}, {"owner"}, {"collective"}, Side} \subseteq SUBSET Side
  BY DEF Side
<1>9. req[r].by \in SUBSET Side
  BY DEF TypeOK, Thread
<1>3. JoinOutcome(r) \in Status /\ JoinConsent(r) \in SUBSET Side
  BY <1>1, <1>2, <1>9 DEF JoinOutcome, JoinConsent
<1>4. \A e : RowsOf(e) \subseteq Row
  BY DEF RowsOf
<1>5. CASE RequestJoin(r)
  BY <1>1, <1>3, <1>4, <1>5, <1>9 DEF RequestJoin
<1>6. CASE InviteEndpoint(r)
  BY <1>1, <1>4, <1>6, <1>9 DEF InviteEndpoint
<1>7. CASE ReviewRequest(r)
  BY <1>1, <1>2, <1>4, <1>7, <1>9 DEF ReviewRequest, DecideFrom
<1>8. CASE RespondToInvitation(r)
  BY <1>1, <1>2, <1>4, <1>8, <1>9 DEF RespondToInvitation, DecideFrom
<1> QED BY <1>5, <1>6, <1>7, <1>8

(* The threads' records keep their type.                                   *)
LEMMA ThreadsTyped ==
    ASSUME TypeOK, NEW r \in Request, Step(r)
    PROVE  req' \in [Request -> Thread]
<1>1. req \in [Request -> Thread] /\ Row \subseteq 0..MaxRow
  BY CollectivesAssumption DEF TypeOK, Row
<1>2. CASE \E op \in {"join", "invite", "review", "respond", "remove"}, e \in Endpoint :
              Load(r, op, e)
  <2>1. PICK op \in {"join", "invite", "review", "respond", "remove"}, e \in Endpoint :
            Load(r, op, e)
    BY <1>2
  <2>2. PICK a \in Actor :
            req' = [req EXCEPT ![r] = [Idle EXCEPT !.pc = "loaded", !.op = op,
                                          !.endpoint = e, !.auto = (op = "join" /\ autoApprove),
                                          !.by = Sides(op) \cap Speaks(a)]]
    BY <2>1, Zenon DEF Load
  <2>3. Sides(op) \cap Speaks(a) \in SUBSET Side
    BY DEF Sides, Side
  <2>4. \A by \in SUBSET Side :
            [Idle EXCEPT !.pc = "loaded", !.op = op, !.endpoint = e, !.auto = (op = "join" /\ autoApprove),
                         !.by = by] \in Thread
    BY <2>1, IdleIsThread DEF Thread, TypeOK
  <2> QED BY <1>1, <2>2, <2>3, <2>4
<1>3. CASE RequestJoin(r) \/ InviteEndpoint(r) \/ ReviewRequest(r) \/ RespondToInvitation(r)
  BY <1>3, HandlersDecide, DecidingIsTyped
<1>4. CASE RemoveMember(r)
  <2>1. \A i \in Row : [Idle EXCEPT !.pc = "delete", !.row = i] \in Thread
    BY <1>1, IdleIsThread DEF Thread
  <2> QED BY <1>1, <1>4, <2>1, IdleIsThread, Zenon DEF RemoveMember, Refuse, RowsOf
<1>5. CASE CreateMembership(r) \/ UpdateMembership(r) \/ DeleteMembership(r)
            \/ CreateSharedEndpoint(r) \/ UpdateSharedEndpoint(r) \/ Answer(r)
  BY <1>1, <1>5, IdleIsThread
  DEF CreateMembership, UpdateMembership, DeleteMembership, CreateSharedEndpoint,
      UpdateSharedEndpoint, Answer
<1>6. Approved \subseteq Endpoint
  BY DEF Approved, ApprovedIn, TypeOK, Member, NoMember
<1>7. CASE CheckShared(r)
  <2>1. \A ids \in SUBSET Approved :
            [Idle EXCEPT !.pc = "check", !.shared = shared.id, !.ids = ids] \in Thread
    BY <1>6, IdleIsThread DEF Thread, TypeOK
  <2> QED BY <1>1, <1>7, <2>1, Zenon DEF CheckShared
<1>8. CASE ResolveConfigured(r)
  <2>1. \A ids \in SUBSET Endpoint : [Idle EXCEPT !.pc = "configured", !.ids = ids] \in Thread
    BY IdleIsThread DEF Thread, Resolving
  <2>2. shared.ids \in SUBSET Endpoint /\ Endpoint \in SUBSET Endpoint
    BY DEF TypeOK
  <2> QED BY <1>1, <1>8, <2>1, <2>2, Zenon DEF ResolveConfigured
<1>9. CASE ResolveApproved(r)
  <2>1. [req[r] EXCEPT !.pc = "approved", !.ids = req[r].ids \cap Approved] \in Thread
    BY <1>1, ZenonT(40) DEF Thread, Resolving
  <2> QED BY <1>1, <1>9, <2>1 DEF ResolveApproved
<1>10. CASE ResolvePaths(r)
  <2>1. [req[r] EXCEPT !.pc = "answered", !.ids = {e \in req[r].ids : endpoint[e] = "active"}]
            \in Thread
    BY <1>1, ZenonT(40) DEF Thread, Resolving
  <2> QED BY <1>1, <1>10, <2>1 DEF ResolvePaths
<1> QED BY <1>2, <1>3, <1>4, <1>5, <1>7, <1>8, <1>9, <1>10 DEF Step

(* The database keeps its type.                                            *)
LEMMA DatabaseTyped ==
    ASSUME IInv, Next
    PROVE  /\ open' \in BOOLEAN /\ autoApprove' \in BOOLEAN
           /\ endpoint' \in [Endpoint -> {"active", "inactive", "deleted"}]
           /\ member' \in [Row -> Member \cup {NoMember}]
           /\ nextRow' \in 1..(MaxRow + 1) /\ nextShared' \in 1..(MaxShared + 1)
           /\ shared' \in [id: 0..MaxShared, ids: SUBSET Endpoint]
<1> USE DEF IInv
<1> DEFINE DbTyped ==
        /\ open' \in BOOLEAN /\ autoApprove' \in BOOLEAN
        /\ endpoint' \in [Endpoint -> {"active", "inactive", "deleted"}]
        /\ member' \in [Row -> Member \cup {NoMember}]
        /\ nextRow' \in 1..(MaxRow + 1) /\ nextShared' \in 1..(MaxShared + 1)
        /\ shared' \in [id: 0..MaxShared, ids: SUBSET Endpoint]
<1>1. CASE UNCHANGED dbVars
  BY <1>1 DEF dbVars, TypeOK
<1>2. CASE Environment
  <2>1. CASE UpdateCollective
    BY <2>1 DEF UpdateCollective, TypeOK
  <2>2. CASE DeleteCollective
    <3>1. member' \in [Row -> Member \cup {NoMember}]
      BY <2>2 DEF DeleteCollective
    <3>2. shared' \in [id: 0..MaxShared, ids: SUBSET Endpoint]
      BY <2>2, CollectivesAssumption DEF DeleteCollective, NoShared
    <3>3. open' \in BOOLEAN
      BY <2>2 DEF DeleteCollective
    <3> QED BY <2>2, <3>1, <3>2, <3>3 DEF DeleteCollective, TypeOK
  <2>3. CASE DeleteSharedEndpoint
    BY <2>3, CollectivesAssumption DEF DeleteSharedEndpoint, TypeOK, NoShared
  <2>4. ASSUME NEW e \in Endpoint, SetActive(e) PROVE DbTyped
    BY <2>4 DEF SetActive, TypeOK
  <2>5. ASSUME NEW e \in Endpoint, DeleteEndpoint(e) PROVE DbTyped
    <3>1. endpoint' \in [Endpoint -> {"active", "inactive", "deleted"}]
      BY <2>5 DEF DeleteEndpoint, TypeOK
    <3>2. member' \in [Row -> Member \cup {NoMember}]
      BY <2>5 DEF DeleteEndpoint, TypeOK
    <3>3. shared' \in [id: 0..MaxShared, ids: SUBSET Endpoint]
      BY <2>5 DEF DeleteEndpoint, TypeOK
    <3> QED BY <2>5, <3>1, <3>2, <3>3 DEF DeleteEndpoint, TypeOK
  <2> QED BY <1>2, <2>1, <2>2, <2>3, <2>4, <2>5 DEF Environment
<1>3. ASSUME NEW r \in Request, CreateMembership(r) PROVE DbTyped
  <2>1. req[r].to \in Status /\ req[r].endpoint \in Endpoint /\ req[r].by \in SUBSET Side
    BY <1>3 DEF CreateMembership, IInv, InsertConsented, TypeOK, Thread
  <2>2. [status |-> req[r].to, endpoint |-> req[r].endpoint, consent |-> req[r].by] \in Member
    BY <2>1 DEF Member
  <2>3. member' \in [Row -> Member \cup {NoMember}]
    BY <1>3, <2>2 DEF CreateMembership, TypeOK
  <2>4. nextRow' \in 1..(MaxRow + 1)
    BY <1>3, CollectivesAssumption DEF CreateMembership, TypeOK, Row
  <2> QED BY <1>3, <2>3, <2>4 DEF CreateMembership, TypeOK
<1>4. ASSUME NEW r \in Request, UpdateMembership(r) PROVE DbTyped
  <2>1. /\ req[r].to \in Status /\ req[r].row \in Row
        /\ req[r].by \in SUBSET Side
    BY <1>4 DEF UpdateMembership, IInv, UpdateConsented, TypeOK, Thread
  <2>2. CASE member[req[r].row].status # "none"
    <3>1. member[req[r].row] \in Member
      BY <2>1, <2>2 DEF TypeOK, NoMember
    <3>2. [member[req[r].row] EXCEPT !.status = req[r].to,
                                     !.consent = @ \cup req[r].by] \in Member
      BY <2>1, <3>1 DEF Member
    <3>3. member' \in [Row -> Member \cup {NoMember}]
      BY <1>4, <2>1, <2>2, <3>2 DEF UpdateMembership, TypeOK
    <3> QED BY <1>4, <3>3 DEF UpdateMembership, TypeOK
  <2>3. CASE member[req[r].row].status = "none"
    BY <1>4, <2>3 DEF UpdateMembership, TypeOK
  <2> QED BY <2>2, <2>3
<1>5. ASSUME NEW r \in Request, DeleteMembership(r) PROVE DbTyped
  BY <1>5 DEF DeleteMembership, TypeOK
<1>6. ASSUME NEW r \in Request, CreateSharedEndpoint(r) PROVE DbTyped
  <2>1. req[r].ids \in SUBSET Endpoint
    BY DEF TypeOK, Thread
  <2> QED BY <1>6, <2>1, CollectivesAssumption DEF CreateSharedEndpoint, TypeOK
<1>7. ASSUME NEW r \in Request, UpdateSharedEndpoint(r) PROVE DbTyped
  <2>1. req[r].ids \in SUBSET Endpoint
    BY DEF TypeOK, Thread
  <2> QED BY <1>7, <2>1, SMTT(30) DEF UpdateSharedEndpoint, TypeOK
<1>8. ASSUME NEW r \in Request, Step(r) PROVE DbTyped
  BY <1>1, <1>3, <1>4, <1>5, <1>6, <1>7, <1>8, Zenon
  DEF Step, Load, RequestJoin, InviteEndpoint, ReviewRequest, RespondToInvitation,
      RemoveMember, CheckShared, ResolveConfigured, ResolveApproved, ResolvePaths, Answer
<1> QED BY <1>2, <1>8 DEF Next

LEMMA HistoryTyped ==
    ASSUME TypeOK, Record, member' \in [Row -> Member \cup {NoMember}]
    PROVE  everApproved' \subseteq Endpoint /\ window' \in [Request -> SUBSET Endpoint]
<1>1. Approved \subseteq Endpoint /\ ApprovedIn(member') \subseteq Endpoint
  BY DEF Approved, ApprovedIn, TypeOK, Member, NoMember
<1> QED BY <1>1 DEF Record, TypeOK

LEMMA TypePreserved ==
    ASSUME IInv, Next
    PROVE  TypeOK'
<1>1. req' \in [Request -> Thread]
  <2>1. CASE Environment
    BY <2>1 DEF Environment, UpdateCollective, DeleteCollective, DeleteSharedEndpoint,
                SetActive, DeleteEndpoint, IInv, TypeOK
  <2> QED BY <2>1, ThreadsTyped DEF Next, IInv
<1>2. Record
  BY SMTT(30) DEF Next
<1> QED BY <1>1, <1>2, DatabaseTyped, HistoryTyped DEF TypeOK, IInv

-----------------------------------------------------------------------------
(* Rows.                                                                   *)

(* Every step but the three writes of memberships and the two deletions    *)
(* leaves the rows alone.                                                  *)
RowsUnchanged == UNCHANGED <<member, nextRow>>

LEMMA WritersOfRows ==
    ASSUME Next
    PROVE  \/ RowsUnchanged
           \/ DeleteCollective
           \/ \E e \in Endpoint : DeleteEndpoint(e)
           \/ \E r \in Request : CreateMembership(r) \/ UpdateMembership(r) \/ DeleteMembership(r)
BY Zenon DEF Next, Step, Environment, RowsUnchanged, dbVars, Load, RequestJoin, InviteEndpoint,
       ReviewRequest, RespondToInvitation, RemoveMember, CheckShared, CreateSharedEndpoint,
       UpdateSharedEndpoint, ResolveConfigured, ResolveApproved, ResolvePaths, Answer,
       UpdateCollective, DeleteSharedEndpoint, SetActive

(* A row that was used goes for good, or collects consent.                 *)
LEMMA RowsMoveOn ==
    ASSUME IInv, Next
    PROVE  /\ nextRow <= nextRow'
           /\ \A i \in Row : i < nextRow =>
                 \/ member'[i].status = "none"
                 \/ /\ member[i].status # "none"
                    /\ member[i].consent \subseteq member'[i].consent
<1> USE DEF IInv
<1> DEFINE Goal == /\ nextRow <= nextRow'
                   /\ \A i \in Row : i < nextRow =>
                         \/ member'[i].status = "none"
                         \/ /\ member[i].status # "none"
                            /\ member[i].consent \subseteq member'[i].consent
<1>1. nextRow \in Nat /\ Row \subseteq Nat
  BY CollectivesAssumption DEF TypeOK, Row
<1>2. CASE RowsUnchanged
  BY <1>1, <1>2 DEF RowsUnchanged
<1>3. CASE DeleteCollective
  BY <1>1, <1>3 DEF DeleteCollective, NoMember
<1>4. ASSUME NEW e \in Endpoint, DeleteEndpoint(e) PROVE Goal
  BY <1>1, <1>4 DEF DeleteEndpoint, NoMember, TypeOK
<1>5. ASSUME NEW r \in Request, CreateMembership(r) PROVE Goal
  BY <1>1, <1>5 DEF CreateMembership, TypeOK
<1>6. ASSUME NEW r \in Request, UpdateMembership(r) PROVE Goal
  <2>1. \A i \in Row : member[i].status # "none" => member[i] \in Member
    BY DEF TypeOK, NoMember
  <2> QED BY <1>1, <1>6, <2>1 DEF UpdateMembership, TypeOK, Member
<1>7. ASSUME NEW r \in Request, DeleteMembership(r) PROVE Goal
  BY <1>1, <1>7 DEF DeleteMembership, NoMember, TypeOK
<1> QED BY <1>2, <1>3, <1>4, <1>5, <1>6, <1>7, WritersOfRows

LEMMA RowsConsentedPreserved ==
    ASSUME IInv, Next
    PROVE  RowsConsented' /\ NotYetUsed'
<1> USE DEF IInv
<1>1. nextRow \in Nat /\ Row \subseteq Nat
  BY CollectivesAssumption DEF TypeOK, Row
<1>2. CASE RowsUnchanged
  BY <1>2 DEF RowsUnchanged, RowsConsented, NotYetUsed
<1>3. CASE DeleteCollective
  BY <1>3 DEF DeleteCollective, NoMember, RowsConsented, NotYetUsed, ConsentFor
<1>4. ASSUME NEW e \in Endpoint, DeleteEndpoint(e) PROVE RowsConsented' /\ NotYetUsed'
  BY <1>4 DEF DeleteEndpoint, NoMember, RowsConsented, NotYetUsed, ConsentFor, TypeOK
<1>5. ASSUME NEW r \in Request, CreateMembership(r) PROVE RowsConsented' /\ NotYetUsed'
  BY <1>1, <1>5
  DEF CreateMembership, InsertConsented, RowsConsented, NotYetUsed, ConsentFor, TypeOK
<1>6. ASSUME NEW r \in Request, UpdateMembership(r) PROVE RowsConsented' /\ NotYetUsed'
  <2>1. \A i \in Row : member[i].status # "none" => member[i] \in Member
    BY DEF TypeOK, NoMember
  <2>2. req[r].row \in Row /\ req[r].row < nextRow
    BY <1>6 DEF UpdateMembership, UpdateConsented
  <2>3. RowsConsented'
    BY <1>6, <2>1, <2>2
    DEF UpdateMembership, UpdateConsented, RowsConsented, ConsentFor, TypeOK, Member
  <2>4. NotYetUsed'
    BY <1>1, <1>6, <2>2 DEF UpdateMembership, NotYetUsed, TypeOK
  <2> QED BY <2>3, <2>4
<1>7. ASSUME NEW r \in Request, DeleteMembership(r) PROVE RowsConsented' /\ NotYetUsed'
  BY <1>7 DEF DeleteMembership, NoMember, RowsConsented, NotYetUsed, ConsentFor, TypeOK
<1> QED BY <1>2, <1>3, <1>4, <1>5, <1>6, <1>7, WritersOfRows

-----------------------------------------------------------------------------
(* Decisions.                                                              *)

(* A decision that is left to be written survives what others do.          *)
LEMMA DecisionsStand ==
    ASSUME IInv, Next, NEW q \in Request, req'[q] = req[q], req[q].pc = "update"
    PROVE  /\ req'[q].to \in Status
           /\ req'[q].row \in Row /\ req'[q].row < nextRow'
           /\ \/ member'[req'[q].row].status = "none"
              \/ ConsentFor(req'[q].to, member'[req'[q].row].consent \cup req'[q].by)
<1> DEFINE i == req[q].row
<1>1. /\ req[q].to \in Status /\ i \in Row /\ i < nextRow
      /\ \/ member[i].status = "none"
         \/ ConsentFor(req[q].to, member[i].consent \cup req[q].by)
  BY DEF IInv, UpdateConsented
<1>2. i \in Nat /\ nextRow \in Nat /\ nextRow' \in Nat
  BY <1>1, TypePreserved, CollectivesAssumption DEF IInv, TypeOK, Row
<1>3. i < nextRow'
  BY <1>1, <1>2, RowsMoveOn
<1>4. \/ member'[i].status = "none"
      \/ /\ member'[i].status # "none" /\ member[i].status # "none"
         /\ member[i].consent \subseteq member'[i].consent
  BY <1>1, RowsMoveOn
<1>5. member'[i] \in Member \cup {NoMember} /\ req[q].by \subseteq Side
  BY <1>1, TypePreserved DEF IInv, TypeOK, Thread
<1>6. member'[i].status # "none" => member'[i].consent \subseteq Side
  BY <1>5 DEF Member, NoMember
<1>7. \/ member'[i].status = "none"
      \/ ConsentFor(req[q].to, member'[i].consent \cup req[q].by)
  BY <1>1, <1>4, <1>5, <1>6 DEF ConsentFor
<1> QED BY <1>1, <1>3, <1>7

(* A decision has the consent it needs, together with what its row has.    *)
LEMMA DecisionsMade ==
    ASSUME IInv, NEW r \in Request,
           \/ RequestJoin(r) \/ InviteEndpoint(r) \/ ReviewRequest(r) \/ RespondToInvitation(r)
    PROVE  \/ req'[r].pc = "idle"
           \/ /\ req'[r].pc = "update" /\ req'[r].to \in Status
              /\ req'[r].row \in Row /\ req'[r].row < nextRow
              /\ ConsentFor(req'[r].to, member[req'[r].row].consent \cup req'[r].by)
           \/ /\ req'[r].pc = "insert" /\ req'[r].to \in Status
              /\ req'[r].endpoint \in Endpoint
              /\ ConsentFor(req'[r].to, req'[r].by)
<1> USE DEF IInv
<1> DEFINE Updated(i, to, by) == Update(r, i, to, by) /\ to \in Status /\ i \in Row
                                    /\ i < nextRow /\ ConsentFor(to, member[i].consent \cup by)
           Inserted(to, by) == Insert(r, to, by) /\ to \in Status /\ ConsentFor(to, by)
<1>1. /\ req \in [Request -> Thread] /\ req[r].pc = "loaded" /\ req[r].endpoint \in Endpoint
      /\ req[r].by = Sides(req[r].op)
  BY DEF TypeOK, RequestJoin, InviteEndpoint, ReviewRequest, RespondToInvitation, Reading,
         LoadedEndpoint, LoadedFor
<1>2. \A e : \A i \in RowsOf(e) : /\ i \in Row /\ i < nextRow
                                  /\ member[i].consent \subseteq Side
                                  /\ ConsentFor(member[i].status, member[i].consent)
  <2>1. SUFFICES ASSUME NEW i \in Row, member[i].status # "none"
                 PROVE  /\ i < nextRow /\ member[i].consent \subseteq Side
                        /\ ConsentFor(member[i].status, member[i].consent)
    BY DEF RowsOf
  <2>2. i < nextRow
    BY <2>1, CollectivesAssumption DEF NotYetUsed, TypeOK, Row
  <2>3. member[i].consent \subseteq Side
    BY <2>1 DEF TypeOK, Member, NoMember
  <2> QED BY <2>1, <2>2, <2>3 DEF RowsConsented
<1>3. ASSUME Reading(r, "join")
      PROVE  /\ JoinOutcome(r) \in Status /\ ConsentFor(JoinOutcome(r), JoinConsent(r))
             /\ JoinConsent(r) \subseteq Side
             /\ \A c \in SUBSET Side : ConsentFor(JoinOutcome(r), c \cup JoinConsent(r))
  <2>1. req[r].by = {"owner"}
    BY <1>1, <1>3 DEF Reading, Sides
  <2> QED BY <2>1 DEF JoinOutcome, JoinConsent, ConsentFor, Status, Side
<1>4. {"approved", "pending", "invited", "rejected"} \subseteq Status
  BY DEF Status
<1>5. \/ Refuse(r)
      \/ \E i \in Row, to \in Status, by \in SUBSET Side : Updated(i, to, by)
      \/ \E to \in Status, by \in SUBSET Side : Inserted(to, by)
  <2>1. {{}, {"owner"}, {"collective"}} \subseteq SUBSET Side
    BY DEF Side
  <2>2. CASE RequestJoin(r)
    <3> Reading(r, "join")
      BY <2>2 DEF RequestJoin
    <3>4. req[r].by = {"owner"} /\ JoinConsent(r) \in SUBSET Side
      BY <1>1, <1>3 DEF Reading, Sides
    <3>1. CASE Insert(r, JoinOutcome(r), JoinConsent(r))
      BY <1>3, <3>1
    <3>2. ASSUME NEW i \in RowsOf(req[r].endpoint),
                 member[i].status = "invited", Update(r, i, "approved", req[r].by)
          PROVE  Updated(i, "approved", req[r].by)
      BY <1>2, <1>4, <3>2, <3>4 DEF ConsentFor, Side
    <3>3. ASSUME NEW i \in RowsOf(req[r].endpoint),
                 Update(r, i, JoinOutcome(r), JoinConsent(r))
          PROVE  Updated(i, JoinOutcome(r), JoinConsent(r))
      BY <1>2, <1>3, <3>3
    <3> QED BY <1>2, <1>3, <1>4, <2>1, <2>2, <3>1, <3>2, <3>3, <3>4 DEF RequestJoin
  <2>3. CASE InviteEndpoint(r)
    <3>4. req[r].by = {"collective"}
      BY <1>1, <2>3 DEF InviteEndpoint, Reading, Sides
    <3>1. CASE Insert(r, "invited", req[r].by)
      BY <1>4, <2>1, <3>1, <3>4 DEF ConsentFor
    <3>2. ASSUME NEW i \in RowsOf(req[r].endpoint),
                 member[i].status = "pending", Update(r, i, "approved", req[r].by)
          PROVE  Updated(i, "approved", req[r].by)
      BY <1>2, <1>4, <3>2, <3>4 DEF ConsentFor, Side
    <3>3. ASSUME NEW i \in RowsOf(req[r].endpoint), Update(r, i, "invited", req[r].by)
          PROVE  Updated(i, "invited", req[r].by)
      BY <1>2, <1>4, <3>3, <3>4 DEF ConsentFor
    <3> QED BY <1>2, <1>4, <2>1, <2>3, <3>1, <3>2, <3>3, <3>4 DEF InviteEndpoint
  <2>4. ASSUME NEW i \in RowsOf(req[r].endpoint), Update(r, i, "rejected", {})
        PROVE  Updated(i, "rejected", {})
    BY <1>2, <1>4, <2>4 DEF ConsentFor
  <2>5. CASE ReviewRequest(r)
    <3>4. req[r].by = {"collective"}
      BY <1>1, <2>5 DEF ReviewRequest, Reading, Sides
    <3>1. ASSUME NEW i \in RowsOf(req[r].endpoint),
                 member[i].status = "pending", Update(r, i, "approved", req[r].by)
          PROVE  Updated(i, "approved", req[r].by)
      BY <1>2, <1>4, <3>1, <3>4 DEF ConsentFor, Side
    <3> QED BY <1>2, <1>4, <2>1, <2>4, <2>5, <3>1, <3>4 DEF ReviewRequest, DecideFrom
  <2>6. CASE RespondToInvitation(r)
    <3>4. req[r].by = {"owner"}
      BY <1>1, <2>6 DEF RespondToInvitation, Reading, Sides
    <3>1. ASSUME NEW i \in RowsOf(req[r].endpoint),
                 member[i].status = "invited", Update(r, i, "approved", req[r].by)
          PROVE  Updated(i, "approved", req[r].by)
      BY <1>2, <1>4, <3>1, <3>4 DEF ConsentFor, Side
    <3> QED BY <1>2, <1>4, <2>1, <2>4, <2>6, <3>1, <3>4 DEF RespondToInvitation, DecideFrom
  <2> QED BY <2>2, <2>3, <2>5, <2>6
<1>6. CASE Refuse(r)
  BY <1>1, <1>6 DEF Refuse, Idle
<1>7. ASSUME NEW i \in Row, NEW to \in Status, NEW by \in SUBSET Side, Updated(i, to, by)
      PROVE  /\ req'[r].pc = "update" /\ req'[r].to = to
             /\ req'[r].row = i /\ req'[r].by = by
  BY <1>1, <1>7 DEF Update, Idle
<1>8. ASSUME NEW to \in Status, NEW by \in SUBSET Side, Inserted(to, by)
      PROVE  /\ req'[r].pc = "insert" /\ req'[r].to = to /\ req'[r].by = by
             /\ req'[r].endpoint = req[r].endpoint
  BY <1>1, <1>8 DEF Insert, Idle
<1>9. CASE \E i \in Row, to \in Status, by \in SUBSET Side : Updated(i, to, by)
  <2>1. PICK i \in Row, to \in Status, by \in SUBSET Side : Updated(i, to, by)
    BY <1>9
  <2>2. /\ req'[r].pc = "update" /\ req'[r].to = to
        /\ req'[r].row = i /\ req'[r].by = by
    BY <1>7, <2>1
  <2> QED BY <2>1, <2>2
<1>10. CASE \E to \in Status, by \in SUBSET Side : Inserted(to, by)
  BY <1>1, <1>8, <1>10
<1> QED BY <1>5, <1>6, <1>9, <1>10

(* What a step makes of the thread's record, and of the others.            *)
LEMMA ThreadsMoveOn ==
    ASSUME IInv, Next, NEW q \in Request
    PROVE  \/ req'[q] = req[q]
           \/ req'[q].pc \in {"idle", "delete"}
           \/ req'[q].pc = "loaded" /\ LoadedFor(req'[q])
           \/ /\ UNCHANGED <<member, nextRow>>
              /\ RequestJoin(q) \/ InviteEndpoint(q) \/ ReviewRequest(q) \/ RespondToInvitation(q)
           \/ req'[q].pc = "check" /\ req'[q].ids \subseteq Approved
           \/ req'[q].pc = "configured"
           \/ req'[q].pc = "approved" /\ req'[q].ids \subseteq Approved
           \/ /\ req[q].pc = "approved" /\ req'[q].pc = "answered"
              /\ req'[q].ids \subseteq req[q].ids
<1> DEFINE Goal == 
           \/ req'[q] = req[q]
           \/ req'[q].pc \in {"idle", "delete"}
           \/ req'[q].pc = "loaded" /\ LoadedFor(req'[q])
           \/ /\ UNCHANGED <<member, nextRow>>
              /\ RequestJoin(q) \/ InviteEndpoint(q) \/ ReviewRequest(q) \/ RespondToInvitation(q)
           \/ req'[q].pc = "check" /\ req'[q].ids \subseteq Approved
           \/ req'[q].pc = "configured"
           \/ req'[q].pc = "approved" /\ req'[q].ids \subseteq Approved
           \/ /\ req[q].pc = "approved" /\ req'[q].pc = "answered"
              /\ req'[q].ids \subseteq req[q].ids
<1>1. req \in [Request -> Thread]
  BY DEF IInv, TypeOK
<1>2. CASE Environment
  BY <1>2 DEF Environment, UpdateCollective, DeleteCollective, DeleteSharedEndpoint,
              SetActive, DeleteEndpoint
<1>3. ASSUME NEW r \in Request, Step(r) PROVE Goal
  <2>1. CASE RequestJoin(r) \/ InviteEndpoint(r) \/ ReviewRequest(r) \/ RespondToInvitation(r)
    <3>1. CASE q = r
      BY <2>1, <3>1, SMTT(30) DEF RequestJoin, InviteEndpoint, ReviewRequest,
                              RespondToInvitation, dbVars
    <3>2. CASE q # r
      BY <1>1, <2>1, <3>2, Zenon DEF RequestJoin, InviteEndpoint, ReviewRequest,
                              RespondToInvitation,
                              DecideFrom, Refuse, Update, Insert
    <3> QED BY <3>1, <3>2
  <2>2. CASE \E op \in {"join", "invite", "review", "respond", "remove"}, e \in Endpoint :
                Load(r, op, e)
    <3>1. PICK op \in {"join", "invite", "review", "respond", "remove"}, e \in Endpoint :
              Load(r, op, e)
      BY <2>2
    <3>2. PICK a \in Actor :
              /\ Sides(op) \subseteq Speaks(a)
              /\ req' = [req EXCEPT ![r] = [Idle EXCEPT !.pc = "loaded", !.op = op,
                                            !.endpoint = e, !.auto = (op = "join" /\ autoApprove),
                                            !.by = Sides(op) \cap Speaks(a)]]
      BY <3>1, Zenon DEF Load
    <3>3. Sides(op) \cap Speaks(a) = Sides(op)
      BY <3>2, Zenon
    <3>4. LoadedFor([Idle EXCEPT !.pc = "loaded", !.op = op, !.endpoint = e,
                                 !.auto = (op = "join" /\ autoApprove), !.by = Sides(op)])
      BY DEF LoadedFor, Idle
    <3>5. CASE q = r
      <4>1. /\ req'[q] = [Idle EXCEPT !.pc = "loaded", !.op = op, !.endpoint = e,
                                      !.auto = (op = "join" /\ autoApprove), !.by = Sides(op)]
            /\ req'[q].pc = "loaded"
        BY <1>1, <3>2, <3>3, <3>5 DEF Idle
      <4> QED BY <3>4, <4>1, Zenon
    <3>6. CASE q # r
      BY <1>1, <3>2, <3>6, Zenon
    <3> QED BY <3>5, <3>6
  <2>3. CASE RemoveMember(r)
    <3>1. CASE Refuse(r)
      BY <1>1, <3>1 DEF Refuse, Idle
    <3>2. ASSUME NEW i, req' = [req EXCEPT ![r] = [Idle EXCEPT !.pc = "delete", !.row = i]]
          PROVE  Goal
      BY <1>1, <3>2 DEF Idle
    <3> QED BY <2>3, <3>1, <3>2, Zenon DEF RemoveMember
  <2>4. CASE CreateMembership(r) \/ UpdateMembership(r) \/ DeleteMembership(r)
             \/ CreateSharedEndpoint(r) \/ UpdateSharedEndpoint(r) \/ Answer(r)
    BY <1>1, <2>4 DEF CreateMembership, UpdateMembership, DeleteMembership,
                      CreateSharedEndpoint, UpdateSharedEndpoint, Answer, Idle
  <2>5. CASE CheckShared(r)
    BY <1>1, <2>5 DEF CheckShared, Idle
  <2>6. CASE ResolveConfigured(r)
    BY <1>1, <2>6 DEF ResolveConfigured, Idle
  <2>7. CASE ResolveApproved(r)
    BY <1>1, <2>7 DEF ResolveApproved, Thread
  <2>8. CASE ResolvePaths(r)
    BY <1>1, <2>8 DEF ResolvePaths, Thread
  <2> HIDE DEF Goal
  <2> QED BY <1>3, <2>1, <2>2, <2>3, <2>4, <2>5, <2>6, <2>7, <2>8 DEF Step
<1> QED BY <1>2, <1>3 DEF Next

-----------------------------------------------------------------------------
(* The inductive invariant.                                                *)

LEMMA InitEstablishes == Init => IInv
<1> SUFFICES ASSUME Init PROVE IInv
  OBVIOUS
<1>1. TypeOK
  BY CollectivesAssumption, IdleIsThread DEF Init, TypeOK, NoShared, Row
<1>2. RowsConsented /\ NotYetUsed
  BY DEF Init, RowsConsented, NotYetUsed, NoMember, ConsentFor
<1>3. \A r \in Request : req[r].pc = "idle"
  BY DEF Init, Idle
<1>4. InsertConsented /\ UpdateConsented /\ LoadedEndpoint /\ CheckedOnceApproved
      /\ ResolvedWereMembers
  BY <1>3 DEF InsertConsented, UpdateConsented, LoadedEndpoint, CheckedOnceApproved,
              ResolvedWereMembers
<1>5. ApprovedRecorded /\ SharedOnceApproved
  BY DEF Init, ApprovedRecorded, Approved, ApprovedIn, NoMember, NoShared, SharedOnceApproved
<1> QED BY <1>1, <1>2, <1>4, <1>5 DEF IInv

LEMMA DecisionsPreserved ==
    ASSUME IInv, Next
    PROVE  InsertConsented' /\ UpdateConsented' /\ LoadedEndpoint'
<1> SUFFICES ASSUME NEW q \in Request
             PROVE  /\ req'[q].pc = "insert" =>
                          /\ req'[q].to \in Status /\ req'[q].endpoint \in Endpoint
                          /\ ConsentFor(req'[q].to, req'[q].by)
                    /\ req'[q].pc = "update" =>
                          /\ req'[q].to \in Status
                          /\ req'[q].row \in Row /\ req'[q].row < nextRow'
                          /\ \/ member'[req'[q].row].status = "none"
                             \/ ConsentFor(req'[q].to,
                                           member'[req'[q].row].consent \cup req'[q].by)
                    /\ req'[q].pc = "loaded" => LoadedFor(req'[q])
  BY DEF InsertConsented, UpdateConsented, LoadedEndpoint, ConsentFor
<1>1. CASE req'[q] = req[q]
  BY <1>1, DecisionsStand DEF IInv, InsertConsented, LoadedEndpoint
<1>2. CASE /\ UNCHANGED <<member, nextRow>>
           /\ RequestJoin(q) \/ InviteEndpoint(q) \/ ReviewRequest(q) \/ RespondToInvitation(q)
  BY <1>2, DecisionsMade
<1> QED BY <1>1, <1>2, ThreadsMoveOn

LEMMA ApprovalsPreserved ==
    ASSUME IInv, Next
    PROVE  ApprovedRecorded' /\ CheckedOnceApproved' /\ ResolvedWereMembers'
<1> USE DEF IInv
<1>1. Record
  BY DEF Next
<1>2. ApprovedRecorded'
  BY <1>1 DEF Record, ApprovedRecorded, Approved
<1>3. Approved \subseteq everApproved /\ everApproved \subseteq everApproved'
  BY <1>1 DEF Record, ApprovedRecorded
<1>4. CheckedOnceApproved'
  <2> SUFFICES ASSUME NEW q \in Request, req'[q].pc = "check"
               PROVE  req'[q].ids \subseteq everApproved'
    BY DEF CheckedOnceApproved
  <2>1. CASE req'[q] = req[q]
    BY <1>3, <2>1 DEF CheckedOnceApproved
  <2>2. CASE /\ UNCHANGED <<member, nextRow>>
             /\ RequestJoin(q) \/ InviteEndpoint(q) \/ ReviewRequest(q) \/ RespondToInvitation(q)
    BY <2>2, DecisionsMade
  <2> QED BY <1>3, <2>1, <2>2, ThreadsMoveOn
<1>5. ResolvedWereMembers'
  <2> SUFFICES ASSUME NEW q \in Request, req'[q].pc \in {"approved", "answered"}
               PROVE  req'[q].ids \subseteq window'[q]
    BY DEF ResolvedWereMembers
  <2>1. window'[q] = window[q] \cup Approved \cup ApprovedIn(member')
    BY <1>1 DEF Record, Resolving
  <2>2. CASE req'[q] = req[q]
    BY <2>1, <2>2 DEF ResolvedWereMembers
  <2>3. CASE /\ UNCHANGED <<member, nextRow>>
             /\ RequestJoin(q) \/ InviteEndpoint(q) \/ ReviewRequest(q) \/ RespondToInvitation(q)
    BY <2>3, DecisionsMade
  <2>4. CASE req[q].pc = "approved" /\ req'[q].pc = "answered" /\ req'[q].ids \subseteq req[q].ids
    BY <2>1, <2>4 DEF ResolvedWereMembers
  <2> QED BY <2>1, <2>2, <2>3, <2>4, ThreadsMoveOn
<1> QED BY <1>2, <1>4, <1>5

LEMMA SharedPreserved ==
    ASSUME IInv, Next
    PROVE  SharedOnceApproved'
<1> USE DEF IInv
<1>1. everApproved \subseteq everApproved'
  BY DEF Next, Record
<1>2. CASE shared'.ids \subseteq shared.ids
  BY <1>1, <1>2 DEF SharedOnceApproved
<1>3. shared \in [id: 0..MaxShared, ids: SUBSET Endpoint]
  BY DEF TypeOK
<1>4. CASE Environment
  BY <1>2, <1>3, <1>4 DEF Environment, UpdateCollective, DeleteCollective,
     DeleteSharedEndpoint, SetActive, DeleteEndpoint, NoShared
<1>5. ASSUME NEW r \in Request, CreateSharedEndpoint(r) \/ UpdateSharedEndpoint(r)
      PROVE  SharedOnceApproved'
  <2>1. req[r].ids \subseteq everApproved
    BY <1>5 DEF CreateSharedEndpoint, UpdateSharedEndpoint, CheckedOnceApproved
  <2>2. shared'.ids = shared.ids \/ shared'.ids = req[r].ids
    BY <1>3, <1>5, SMTT(30) DEF CreateSharedEndpoint, UpdateSharedEndpoint
  <2> QED BY <1>1, <2>1, <2>2 DEF SharedOnceApproved
<1>6. ASSUME NEW r \in Request, Step(r) PROVE SharedOnceApproved'
  BY <1>2, <1>5, <1>6, Zenon
  DEF Step, dbVars, Load, RequestJoin, InviteEndpoint, ReviewRequest, RespondToInvitation,
      RemoveMember, CreateMembership, UpdateMembership, DeleteMembership, CheckShared,
      ResolveConfigured, ResolveApproved, ResolvePaths, Answer
<1> QED BY <1>4, <1>6 DEF Next

LEMMA NextPreserves == IInv /\ [Next]_vars => IInv'
<1> SUFFICES ASSUME IInv, [Next]_vars PROVE IInv'
  OBVIOUS
<1>1. CASE Next
  BY <1>1, TypePreserved, RowsConsentedPreserved, DecisionsPreserved, ApprovalsPreserved,
     SharedPreserved DEF IInv
<1>2. CASE UNCHANGED vars
  BY <1>2 DEF vars, dbVars, history, IInv, TypeOK, RowsConsented, NotYetUsed, InsertConsented,
     UpdateConsented, LoadedEndpoint, ApprovedRecorded, Approved, ApprovedIn,
     SharedOnceApproved, CheckedOnceApproved, ResolvedWereMembers, ConsentFor
<1> QED BY <1>1, <1>2

LEMMA Invariant == Spec => []IInv
BY InitEstablishes, NextPreserves, PTL DEF Spec

-----------------------------------------------------------------------------
(* Every reachable state of a collective has its type.                     *)
THEOREM TypeCorrect == Spec => []TypeOK
<1>1. IInv => TypeOK
  BY DEF IInv
<1> QED BY <1>1, Invariant, PTL

(* No endpoint is an approved member without the agreement of both sides,  *)
(* for any number of requests that decide from rows that have changed      *)
(* (collective_service.py, request_join to remove_member).                 *)
THEOREM BothSidesAgreed == Spec => []MembersConsented
<1>1. IInv => MembersConsented
  BY DEF IInv, RowsConsented, ConsentFor, MembersConsented
<1> QED BY <1>1, Invariant, PTL

(* A shared endpoint never lists an endpoint that was never approved.      *)
THEOREM OnlyMembersShared == Spec => []SharedOnceApproved
<1>1. IInv => SharedOnceApproved
  BY DEF IInv
<1> QED BY <1>1, Invariant, PTL

(* Whatever joins and leaves while a shared path is resolved, the answer   *)
(* holds endpoints that were approved members during the resolve.          *)
THEOREM OnlyMembersResolved == Spec => []ResolvedWereMembers
<1>1. IInv => ResolvedWereMembers
  BY DEF IInv
<1> QED BY <1>1, Invariant, PTL

-----------------------------------------------------------------------------
(* The catalogue.                                                          *)

(* What a handler knows of the request it is at work on.                   *)
Known(r) ==
    /\ r.pc = "idle" <=> r.op = "none"
    /\ r.pc = "insert" => /\ r.op = "create" /\ r.id = 0
                          /\ r.slug \in Slug /\ r.to \in Catalogue!Visibility
    /\ r.pc = "write" => r.op = "update"
    /\ r.pc \in {"lookup", "remove", "clear"} => r.op \in {"update", "delete"}
    /\ r.pc = "delete" => r.op = "delete"
    /\ r.pc \in {"ingest", "add", "note"} => r.op \in {"create", "update", "sync"}
    /\ r.pc \in {"purge", "replace"} => r.op = "sync"
    /\ r.op # "sync" => r.todo = {}
    /\ r.op = "sync" => r.number # 0
    /\ r.pc \notin {"idle", "insert", "purge", "replace"} => r.id # 0
    /\ r.id # 0 => row[r.id].row # "free"
    /\ r.id \notin r.todo
    /\ \A e \in r.todo : row[e].row # "free"

(* The endpoints are there while the account is, and gone with it.         *)
Standing ==
    \A e \in Catalogue!Id : /\ row[e].row = "live" => registered
                            /\ row[e].row = "gone" => ~registered

Control == Catalogue!TypeOK /\ Standing /\ \A t \in Request : Known(work[t])

(* The index and the column that stands for it follow the row; the document *)
(* of a public endpoint outlives the account.                              *)
Mirror(e) ==
    IF row[e].row = "gone" THEN e \in index <=> row[e].visibility = "public"
    ELSE /\ e \in index <=> Catalogue!Ingestible(e)
         /\ row[e].file <=> e \in index

(* What a request about one endpoint has left of that: the document is     *)
(* still to be made, or to be taken away.                                  *)
Writing(r, e) ==
    /\ r.pc = "write" => Catalogue!Live(e) /\ Mirror(e) /\ r.from = row[e].visibility
    /\ r.pc \in {"ingest", "add"} => Catalogue!Ingestible(e)
    /\ r.pc = "note" => Catalogue!Ingestible(e) /\ e \in index
    /\ r.pc \in {"lookup", "remove", "clear", "delete"} =>
         /\ Catalogue!Live(e)
         /\ r.op = "update" => row[e].visibility # "public"
    /\ r.pc = "lookup" => (row[e].file <=> e \in index)
    /\ r.pc \in {"clear", "delete"} => e \notin index

(* A sync has yet to take away the documents that are in todo; has taken   *)
(* them all; has yet to make those of the new endpoints in todo.           *)
Syncing(r, e) ==
    /\ row[e].row # "gone"
    /\ r.pc = "purge" => /\ e \in index <=> e \in r.todo
                         /\ row[e].file => Catalogue!Live(e)
    /\ r.pc = "replace" => /\ e \notin index
                           /\ row[e].file => Catalogue!Live(e)
                           /\ Catalogue!Live(e) => e \in r.seen
    /\ r.pc \in {"ingest", "add", "note"} =>
         /\ e \in r.todo => Catalogue!Ingestible(e) /\ e \notin index /\ ~row[e].file
         /\ e = r.id => /\ Catalogue!Ingestible(e)
                        /\ r.pc = "note" => e \in index
                        /\ r.pc # "note" => (row[e].file <=> e \in index)
         /\ e \notin r.todo \cup {r.id} => Mirror(e)

Stage(r, e) == IF r.op = "sync" THEN Syncing(r, e) ELSE Writing(r, e)

(* An endpoint that nothing disturbed: at most one request is about it,    *)
(* and when none is, the index follows.                                    *)
FollowedAt(e) ==
    /\ \A t, u \in Request : Catalogue!About(work[t], e) /\ Catalogue!About(work[u], e) => t = u
    /\ \A t \in Request : Catalogue!About(work[t], e) => Stage(work[t], e)
    /\ (\A t \in Request : ~Catalogue!About(work[t], e)) => Mirror(e)

Followed == \A e \in Catalogue!Id \ disturbed : row[e].row # "free" => FollowedAt(e)

(* The inductive invariant of the catalogue.                               *)
CatIInv == Control /\ Followed

-----------------------------------------------------------------------------
LEMMA CatBounds == MaxId \in Nat /\ MaxHandled \in Nat /\ Failing \in Nat
BY EndpointsAssumption DEF Catalogue!Bounds

\* A step of one request: the others stay, no row becomes free again, none is
\* made without an account and none goes with it.
Only(t) ==
    /\ \A u \in Request \ {t} : work'[u] = work[u]
    /\ \A e \in Catalogue!Id : /\ row[e].row # "free" => row'[e].row # "free"
                               /\ row'[e].row = "gone" => row[e].row = "gone"
                               /\ row'[e].row = "live" => registered

\* Nothing of the endpoint changes.
Same(e) ==
    /\ e \in index' <=> e \in index
    /\ row'[e] = row[e]

\* What a step of a request has to do for an endpoint that nothing disturbs.
Obliged(t, e) ==
    LET next == IF Catalogue!About(work'[t], e) THEN Stage(work[t], e)' ELSE Mirror(e)'
    IN IF row[e].row = "free" THEN row'[e].row # "free" => next
       ELSE IF Catalogue!About(work[t], e) THEN Stage(work[t], e) => next
       ELSE IF Catalogue!About(work'[t], e) THEN Mirror(e) => next
       ELSE Same(e)

LEMMA Known0 == Known(Catalogue!Idle)
BY DEF Known, Catalogue!Idle

LEMMA StandingKept ==
  ASSUME Standing, registered' = registered, NEW t \in Request, Only(t)
  PROVE  Standing'
BY DEF Standing, Only

\* What a request has written as public it is about to index.
Rewritten(t) == \A e \in Catalogue!Id :
    Catalogue!Written(t, e) => Catalogue!About(work'[t], e) /\ Stage(work[t], e)'

LEMMA FollowedKept ==
  ASSUME Control, Followed, NEW t \in Request, Only(t), Catalogue!Watch, Rewritten(t),
         \A e \in Catalogue!Id \ disturbed' : Obliged(t, e)
  PROVE  Followed'
<1> SUFFICES ASSUME NEW e \in Catalogue!Id, e \notin disturbed', row'[e].row # "free"
             PROVE  FollowedAt(e)'
  BY DEF Followed
<1>1. /\ ~Catalogue!Meet(e) /\ ~Catalogue!Appears(e)
      /\ e \notin disturbed \/ \E u \in Request : Catalogue!Written(u, e)
  BY DEF Catalogue!Watch
<1>2. \A u, v \in Request : Catalogue!About(work'[u], e) /\ Catalogue!About(work'[v], e) => u = v
  BY <1>1 DEF Catalogue!Meet
<1>3. Obliged(t, e)
  OBVIOUS
<1>4. \A u \in Request \ {t} : Catalogue!About(work'[u], e) <=> Catalogue!About(work[u], e)
  BY DEF Only
<1>7. CASE Catalogue!Written(t, e)
  <2>1. Catalogue!About(work'[t], e) /\ Stage(work[t], e)'
    BY <1>7 DEF Rewritten
  <2> QED BY <1>2, <2>1 DEF FollowedAt
<1>8. ~Catalogue!Written(t, e) => e \notin disturbed
  <2>1. \A u \in Request \ {t} : ~Catalogue!Written(u, e)
    BY DEF Only, Catalogue!Written
  <2> QED BY <1>1, <2>1
<1>5. CASE ~Catalogue!Written(t, e) /\ row[e].row = "free"
  <2>1. \A u \in Request \ {t} : ~Catalogue!About(work[u], e)
    <3> SUFFICES ASSUME NEW u \in Request, u # t, Catalogue!About(work[u], e) PROVE FALSE
      OBVIOUS
    <3>1. Known(work[u]) /\ e # 0
      BY CatBounds DEF Control, Catalogue!Id
    <3>2. work[u].op = "sync" /\ work'[u] = work[u]
      BY <1>5, <3>1 DEF Known, Catalogue!About, Only
    <3> QED BY <1>1, <1>5, <3>2 DEF Catalogue!Appears
  <2> QED BY <1>2, <1>3, <1>4, <1>5, <2>1 DEF FollowedAt, Obliged
<1>6. CASE ~Catalogue!Written(t, e) /\ row[e].row # "free"
  <2>1. FollowedAt(e)
    BY <1>6, <1>8 DEF Followed
  <2>2. CASE Catalogue!About(work[t], e)
    <3>1. \A u \in Request \ {t} : ~Catalogue!About(work[u], e)
      BY <2>1, <2>2 DEF FollowedAt
    <3> QED BY <1>2, <1>3, <1>4, <1>6, <2>1, <2>2, <3>1 DEF FollowedAt, Obliged
  <2>3. CASE ~Catalogue!About(work[t], e) /\ Catalogue!About(work'[t], e)
    <3>1. \A u \in Request \ {t} : ~Catalogue!About(work[u], e)
      BY <1>2, <1>4, <2>3
    <3>2. Mirror(e)
      BY <2>1, <2>3, <3>1 DEF FollowedAt
    <3> QED BY <1>2, <1>3, <1>4, <1>6, <2>3, <3>1, <3>2 DEF FollowedAt, Obliged
  <2>4. CASE ~Catalogue!About(work[t], e) /\ ~Catalogue!About(work'[t], e)
    <3>1. Same(e)
      BY <1>3, <1>6, <2>4 DEF Obliged
    <3>2. Mirror(e) => Mirror(e)'
      BY <3>1 DEF Mirror, Same, Catalogue!Ingestible, Catalogue!Live
    <3>3. \A u \in Request \ {t} : Stage(work[u], e) => Stage(work[u], e)'
      BY <3>1, <3>2 DEF Only, Same, Stage, Syncing, Writing, Mirror, Catalogue!Ingestible,
                        Catalogue!Live
    <3> QED BY <1>2, <1>4, <2>1, <2>4, <3>2, <3>3 DEF FollowedAt
  <2> QED BY <2>2, <2>3, <2>4
<1> QED BY <1>5, <1>6, <1>7

-----------------------------------------------------------------------------
\* What is shown of a step of one request.
Shape ==
    /\ row \in [Catalogue!Id -> Catalogue!Row]
    /\ \A e, f \in Catalogue!LiveIds : /\ row[e].slug \in Slug
                                       /\ row[e].slug = row[f].slug => e = f
    /\ index \subseteq {e \in Catalogue!Id : row[e].row # "free"}
    /\ work \in [Request -> Catalogue!Handler]
    /\ handled \in 0..MaxHandled /\ failures \in 0..Failing

Kept(t) ==
    /\ Shape' /\ Only(t) /\ Known(work[t])'
    /\ \A e \in Catalogue!Id \ disturbed' : Obliged(t, e)

LEMMA WatchTyped ==
  ASSUME Catalogue!TypeOK, Shape', Catalogue!Watch, registered' \in BOOLEAN,
         \A t \in Request : Known(work[t])'
  PROVE  Catalogue!TypeOK'
<1>1. disturbed' \subseteq Catalogue!Id
  BY DEF Catalogue!TypeOK, Catalogue!Watch
<1>2. \A t \in Request : work'[t].op = "sync" => work'[t].number \in 1..MaxHandled
  <2> SUFFICES ASSUME NEW t \in Request, work'[t].op = "sync"
               PROVE  work'[t].number \in 1..MaxHandled
    OBVIOUS
  <2>1. work'[t] \in Catalogue!Handler
    BY DEF Shape
  <2>2. work'[t].number \in 0..MaxHandled /\ work'[t].number # 0
    BY <2>1 DEF Catalogue!Handler, Known
  <2> QED BY <2>2, CatBounds
<1>3. overlapped' \subseteq 1..MaxHandled
  BY <1>2 DEF Catalogue!TypeOK, Catalogue!Watch
<1> QED BY <1>1, <1>3 DEF Catalogue!TypeOK, Shape, Catalogue!LiveIds, Catalogue!Live

LEMMA KeptSuffices ==
  ASSUME CatIInv, NEW t \in Request, Kept(t), Catalogue!Watch, registered' = registered,
         Rewritten(t)
  PROVE  CatIInv'
<1>1. \A u \in Request : Known(work[u])'
  <2> SUFFICES ASSUME NEW u \in Request, u # t PROVE Known(work[u])'
    BY DEF Kept
  <2>1. work'[u] = work[u] /\ Known(work[u]) /\ work[u] \in Catalogue!Handler
    BY DEF Kept, Only, CatIInv, Control, Catalogue!TypeOK
  <2>2. work[u].id \in 0..MaxId /\ work[u].todo \subseteq Catalogue!Id
    BY <2>1 DEF Catalogue!Handler
  <2>3. work[u].id # 0 => work[u].id \in Catalogue!Id
    BY <2>2, CatBounds DEF Catalogue!Id
  <2> QED BY <2>1, <2>2, <2>3 DEF Known, Kept, Only
<1>2. Control'
  <2>1. Standing'
    BY StandingKept DEF CatIInv, Control, Kept
  <2>2. registered' \in BOOLEAN
    BY DEF CatIInv, Control, Catalogue!TypeOK
  <2> QED BY <1>1, <2>1, <2>2, WatchTyped DEF CatIInv, Control, Kept
<1>3. Followed'
  BY FollowedKept DEF CatIInv, Kept
<1> QED BY <1>2, <1>3 DEF CatIInv

\* The state a step begins in.
LEMMA Begins ==
  ASSUME Control, NEW t \in Request
  PROVE  /\ Shape /\ work[t] \in Catalogue!Handler /\ Known(work[t])
         /\ handled \in Nat /\ failures \in Nat /\ 0 \notin Catalogue!Id
         /\ \A e \in Catalogue!Id : row[e] \in Catalogue!Row
         /\ work[t].id \in 0..MaxId /\ (work[t].id # 0 => work[t].id \in Catalogue!Id)
         /\ Standing
BY CatBounds DEF Control, Catalogue!TypeOK, Shape, Catalogue!Handler, Catalogue!Id

LEMMA IdleTyped == Catalogue!Idle \in Catalogue!Handler
BY CatBounds DEF Catalogue!Idle, Catalogue!Handler, Catalogue!Lists, Catalogue!Visibility

LEMMA RowTyped == Catalogue!NoRow \in Catalogue!Row
BY CatBounds DEF Catalogue!NoRow, Catalogue!Row, Catalogue!Visibility

LEMMA CatFirst == Catalogue!Init => CatIInv
<1> SUFFICES ASSUME Catalogue!Init PROVE CatIInv
  OBVIOUS
<1>1. Catalogue!NoRow \in Catalogue!Row /\ Catalogue!NoRow.row = "free"
  BY RowTyped DEF Catalogue!NoRow
<1>2. Catalogue!TypeOK
  BY <1>1, IdleTyped, CatBounds DEF Catalogue!TypeOK, Catalogue!Init, Catalogue!LiveIds,
                              Catalogue!Live
<1>3. \A t \in Request : Known(work[t])
  BY Known0 DEF Catalogue!Init
<1>4. Followed /\ Standing
  BY <1>1 DEF Followed, Standing, Catalogue!Init
<1> QED BY <1>2, <1>3, <1>4 DEF CatIInv, Control

\* What a step does to its request.
Becomes(t, q) == q \in Catalogue!Handler /\ work' = [work EXCEPT ![t] = q]

LEMMA Goes ==
  ASSUME Control, NEW t \in Request, NEW q, Becomes(t, q),
         handled' \in 0..MaxHandled, failures' \in 0..Failing,
         row' \in [Catalogue!Id -> Catalogue!Row],
         \A e \in Catalogue!Id : /\ row[e].row # "free" => row'[e].row # "free"
                                 /\ row'[e].row = "gone" => row[e].row = "gone"
                                 /\ row'[e].row = "live" => /\ row[e].row = "live"
                                                            /\ row'[e].slug = row[e].slug,
         index' \subseteq {e \in Catalogue!Id : row[e].row # "free"}
  PROVE  Shape' /\ Only(t) /\ work'[t] = q
<1>1. Shape /\ work \in [Request -> Catalogue!Handler]
  BY Begins DEF Shape
<1>2. Only(t) /\ work'[t] = q /\ work' \in [Request -> Catalogue!Handler]
  BY <1>1, Begins DEF Becomes, Only, Standing
<1>3. \A e, f \in Catalogue!LiveIds' : /\ row'[e].slug \in Slug
                                       /\ row'[e].slug = row'[f].slug => e = f
  BY <1>1 DEF Shape, Catalogue!LiveIds, Catalogue!Live
<1>4. index' \subseteq {e \in Catalogue!Id : row'[e].row # "free"}
  OBVIOUS
<1> QED BY <1>2, <1>3, <1>4 DEF Shape

\* The steps that leave the rows and the index alone.
LEMMA Quiet ==
  ASSUME Control, NEW t \in Request, NEW q, Becomes(t, q), UNCHANGED <<row, index>>,
         handled' \in 0..MaxHandled, failures' \in 0..Failing
  PROVE  Shape' /\ Only(t) /\ work'[t] = q /\ \A e \in Catalogue!Id : Same(e)
<1>1. Shape
  BY Begins
<1>2. /\ row' \in [Catalogue!Id -> Catalogue!Row]
      /\ \A e \in Catalogue!Id : row'[e] = row[e]
      /\ index' \subseteq {e \in Catalogue!Id : row[e].row # "free"}
  BY <1>1 DEF Shape
<1> QED BY <1>2, Goes DEF Same

\* The fields a step may leave as they are.
Alike(q, r) ==
    /\ q.op = r.op /\ q.id = r.id /\ q.slug = r.slug /\ q.from = r.from /\ q.to = r.to
    /\ q.todo = r.todo /\ q.seen = r.seen /\ q.number = r.number

LEMMA Started ==
  ASSUME Control, NEW t \in Request, NEW r \in Catalogue!Handler, Catalogue!Start(t, r),
         r.op # "none", Catalogue!Works, UNCHANGED <<row, index>>
  PROVE  \E q : /\ Becomes(t, q) /\ q.pc = r.pc /\ q.op = r.op /\ q.id = r.id
                /\ q.slug = r.slug /\ q.from = r.from /\ q.to = r.to /\ q.todo = r.todo
                /\ (q.op = "sync" => q.number # 0)
                /\ work'[t] = q /\ Shape' /\ Only(t) /\ work[t].pc = "idle"
                /\ \A e \in Catalogue!Id : Same(e) /\ ~Catalogue!About(work[t], e)
<1> DEFINE n == IF r.op = "sync" THEN handled + 1 ELSE 0
           q == [r EXCEPT !.number = n]
<1>1. n \in 0..MaxHandled /\ handled' \in 0..MaxHandled
  BY Begins, CatBounds DEF Catalogue!Start
<1>2. q \in Catalogue!Handler
  <2> HIDE DEF n
  <2> QED BY <1>1 DEF Catalogue!Handler
<1>3. work' = [work EXCEPT ![t] = q]
  BY DEF Catalogue!Start
<1>4. /\ q.pc = r.pc /\ q.op = r.op /\ q.id = r.id /\ q.number = n
      /\ q.slug = r.slug /\ q.from = r.from /\ q.to = r.to /\ q.todo = r.todo
  BY DEF Catalogue!Handler
<1>5. q.op = "sync" => q.number # 0
  BY <1>4, Begins
<1>6. work[t].pc = "idle"
  BY DEF Catalogue!Start
<1>7. failures' \in 0..Failing
  BY DEF Control, Catalogue!TypeOK, Catalogue!Works
<1> HIDE DEF q, n
<1>8. Shape' /\ Only(t) /\ work'[t] = q /\ \A e \in Catalogue!Id : Same(e)
  BY <1>1, <1>2, <1>3, <1>7, Quiet DEF Becomes
<1> QED BY <1>2, <1>3, <1>4, <1>5, <1>6, <1>8 DEF Becomes, Catalogue!About

LEMMA CreateKeeps ==
  ASSUME Control, NEW t \in Request, NEW s \in Slug, NEW v \in Catalogue!Visibility,
         Catalogue!CreateEndpoint(t, s, v)
  PROVE  Kept(t)
<1> DEFINE r == [Catalogue!Idle EXCEPT !.pc = "insert", !.op = "create", !.slug = s, !.to = v]
<1>1. r \in Catalogue!Handler
  BY IdleTyped DEF Catalogue!Handler
<1>2. /\ r.pc = "insert" /\ r.op = "create" /\ r.id = 0 /\ r.slug = s /\ r.to = v
      /\ r.todo = {}
  BY DEF Catalogue!Idle
<1>3. Catalogue!Start(t, r) /\ Catalogue!Works /\ UNCHANGED <<row, index>>
  BY DEF Catalogue!CreateEndpoint
<1> HIDE DEF r
<1>4. PICK q : /\ q.pc = "insert" /\ q.op = "create" /\ q.id = 0 /\ q.slug = s /\ q.to = v
               /\ q.todo = {} /\ work'[t] = q /\ Shape' /\ Only(t)
               /\ \A e \in Catalogue!Id : Same(e) /\ ~Catalogue!About(work[t], e)
  BY <1>1, <1>2, <1>3, Started
<1>5. Known(work[t])'
  BY <1>4 DEF Known
<1>6. ASSUME NEW e \in Catalogue!Id PROVE Obliged(t, e)
  BY <1>4, Begins DEF Obliged, Catalogue!About, Same
<1> QED BY <1>4, <1>5, <1>6 DEF Kept

LEMMA UpdateKeeps ==
  ASSUME Control, NEW t \in Request, NEW e \in Catalogue!Id,
         NEW v \in Catalogue!Visibility \cup {"same"}, Catalogue!UpdateEndpoint(t, e, v)
  PROVE  Kept(t)
<1> DEFINE r == [Catalogue!Idle EXCEPT !.pc = "write", !.op = "update", !.id = e, !.to = v,
                                       !.from = row[e].visibility]
<1>1. r \in Catalogue!Handler
  <2>1. row[e].visibility \in Catalogue!Visibility /\ e \in 0..MaxId
    BY Begins, CatBounds DEF Catalogue!Row, Catalogue!Id
  <2> QED BY <2>1, IdleTyped DEF Catalogue!Handler
<1>2. /\ r.pc = "write" /\ r.op = "update" /\ r.id = e /\ r.from = row[e].visibility
      /\ r.todo = {}
  BY DEF Catalogue!Idle
<1>3. /\ Catalogue!Start(t, r) /\ Catalogue!Works /\ UNCHANGED <<row, index>>
      /\ Catalogue!Live(e)
  BY DEF Catalogue!UpdateEndpoint
<1> HIDE DEF r
<1>4. PICK q : /\ q.pc = "write" /\ q.op = "update" /\ q.id = e
               /\ q.from = row[e].visibility
               /\ q.todo = {} /\ work'[t] = q /\ Shape' /\ Only(t)
               /\ \A f \in Catalogue!Id : Same(f) /\ ~Catalogue!About(work[t], f)
  BY <1>1, <1>2, <1>3, Started
<1>5. e # 0 /\ row'[e] = row[e] /\ row[e].row = "live"
  BY <1>3, <1>4, Begins DEF Same, Catalogue!Live
<1>6. Known(work[t])'
  BY <1>4, <1>5 DEF Known
<1>7. ASSUME NEW f \in Catalogue!Id PROVE Obliged(t, f)
  <2>1. CASE f = e
    <3>1. Mirror(f) => Mirror(f)'
      BY <1>4 DEF Mirror, Same, Catalogue!Ingestible, Catalogue!Live
    <3>2. Mirror(f) => Stage(work[t], f)'
      BY <1>4, <1>5, <2>1, <3>1 DEF Stage, Writing, Catalogue!Live
    <3> QED BY <1>4, <1>5, <2>1, <3>2 DEF Obliged, Catalogue!About
  <2>2. CASE f # e
    BY <1>4, <2>2 DEF Obliged, Catalogue!About, Same
  <2> QED BY <2>1, <2>2
<1> QED BY <1>4, <1>6, <1>7 DEF Kept

LEMMA DeleteKeeps ==
  ASSUME Control, NEW t \in Request, NEW e \in Catalogue!Id, Catalogue!DeleteEndpoint(t, e)
  PROVE  Kept(t)
<1> DEFINE r == [Catalogue!Idle EXCEPT !.pc = "lookup", !.op = "delete", !.id = e]
<1>1. r \in Catalogue!Handler
  <2>1. e \in 0..MaxId
    BY CatBounds DEF Catalogue!Id
  <2> QED BY <2>1, IdleTyped DEF Catalogue!Handler
<1>2. r.pc = "lookup" /\ r.op = "delete" /\ r.id = e /\ r.todo = {}
  BY DEF Catalogue!Idle
<1>3. /\ Catalogue!Start(t, r) /\ Catalogue!Works /\ UNCHANGED <<row, index>>
      /\ Catalogue!Live(e)
  BY DEF Catalogue!DeleteEndpoint
<1> HIDE DEF r
<1>4. PICK q : /\ q.pc = "lookup" /\ q.op = "delete" /\ q.id = e
               /\ q.todo = {} /\ work'[t] = q /\ Shape' /\ Only(t)
               /\ \A f \in Catalogue!Id : Same(f) /\ ~Catalogue!About(work[t], f)
  BY <1>1, <1>2, <1>3, Started
<1>5. e # 0 /\ row'[e] = row[e] /\ row[e].row = "live"
  BY <1>3, <1>4, Begins DEF Same, Catalogue!Live
<1>6. Known(work[t])'
  BY <1>4, <1>5 DEF Known
<1>7. ASSUME NEW f \in Catalogue!Id PROVE Obliged(t, f)
  <2>1. CASE f = e
    <3>1. Mirror(f) => Mirror(f)'
      BY <1>4 DEF Mirror, Same, Catalogue!Ingestible, Catalogue!Live
    <3>2. Mirror(f) => Stage(work[t], f)'
      BY <1>4, <1>5, <2>1, <3>1 DEF Stage, Writing, Catalogue!Live, Mirror
    <3> QED BY <1>4, <1>5, <2>1, <3>2 DEF Obliged, Catalogue!About
  <2>2. CASE f # e
    BY <1>4, <2>2 DEF Obliged, Catalogue!About, Same
  <2> QED BY <2>1, <2>2
<1> QED BY <1>4, <1>6, <1>7 DEF Kept

LEMMA SyncKeeps ==
  ASSUME Control, NEW t \in Request, NEW list \in Catalogue!Lists,
         Catalogue!SyncUserEndpoints(t, list)
  PROVE  Kept(t)
<1> DEFINE r == [Catalogue!Idle EXCEPT !.pc = "purge", !.op = "sync", !.list = list,
                                       !.todo = Catalogue!Old]
<1>1. r \in Catalogue!Handler
  <2>1. Catalogue!Old \subseteq Catalogue!Id
    BY DEF Catalogue!Old, Catalogue!LiveIds
  <2> QED BY <2>1, IdleTyped DEF Catalogue!Handler
<1>2. r.pc = "purge" /\ r.op = "sync" /\ r.id = 0 /\ r.todo = Catalogue!Old
  BY DEF Catalogue!Idle
<1>3. /\ Catalogue!Start(t, r) /\ Catalogue!Works /\ UNCHANGED <<row, index>>
      /\ registered
  BY DEF Catalogue!SyncUserEndpoints, Catalogue!Start
<1> HIDE DEF r
<1>4. PICK q : /\ q.pc = "purge" /\ q.op = "sync" /\ q.id = 0 /\ q.number # 0
               /\ q.todo = Catalogue!Old /\ work'[t] = q /\ Shape' /\ Only(t)
               /\ \A f \in Catalogue!Id : Same(f) /\ ~Catalogue!About(work[t], f)
  BY <1>1, <1>2, <1>3, Started
<1>5. \A f \in Catalogue!Old : f \in Catalogue!Id /\ f # 0 /\ row[f].row = "live" /\ row[f].file
  BY Begins DEF Catalogue!Old, Catalogue!LiveIds, Catalogue!Live
<1>6. Known(work[t])'
  BY <1>4, <1>5 DEF Known, Same
<1>7. ASSUME NEW f \in Catalogue!Id PROVE Obliged(t, f)
  <2>1. Mirror(f) => (f \in index <=> f \in Catalogue!Old) /\ (row[f].file => Catalogue!Live(f))
    BY <1>3, Begins DEF Standing, Mirror, Catalogue!Old, Catalogue!LiveIds, Catalogue!Ingestible
  <2>2. Mirror(f) => Stage(work[t], f)'
    BY <1>3, <1>4, <2>1, Begins DEF Stage, Syncing, Catalogue!Live, Same, Standing
  <2> QED BY <1>4, <2>2 DEF Obliged, Catalogue!About, Same
<1> QED BY <1>4, <1>6, <1>7 DEF Kept

LEMMA FailTyped ==
  ASSUME Control, Catalogue!Works \/ Catalogue!Fails
  PROVE  failures' \in 0..Failing
BY CatBounds DEF Control, Catalogue!TypeOK, Catalogue!Works, Catalogue!Fails

LEMMA Went ==
  ASSUME Control, NEW t \in Request,
         NEW p \in {"idle", "insert", "write", "lookup", "remove", "clear", "delete",
                    "ingest", "add", "note", "purge", "replace"},
         Catalogue!Goto(t, p)
  PROVE  \E q : Becomes(t, q) /\ q.pc = p /\ Alike(q, work[t])
<1> DEFINE q == [work[t] EXCEPT !.pc = p]
<1>1. work[t] \in Catalogue!Handler /\ work' = [work EXCEPT ![t] = q]
  BY Begins DEF Catalogue!Goto
<1>2. q \in Catalogue!Handler /\ q.pc = p /\ Alike(q, work[t])
  BY <1>1 DEF Catalogue!Handler, Alike
<1> HIDE DEF q
<1> QED BY <1>1, <1>2 DEF Becomes

LEMMA Ended ==
  ASSUME Control, NEW t \in Request, Catalogue!Done(t)
  PROVE  Becomes(t, Catalogue!Idle)
BY IdleTyped DEF Catalogue!Done, Becomes

\* What no request of an endpoint has lost a call or its transaction for.
LEMMA Undisturbed ==
  ASSUME Catalogue!Watch, NEW t \in Request, work'[t] # work[t],
         NEW e \in Catalogue!Id \ disturbed', Catalogue!About(work[t], e)
  PROVE  failures' = failures /\ ~(work[t].pc = "replace" /\ Catalogue!Refused(t))
BY DEF Catalogue!Watch, Catalogue!Loses

LEMMA NoFailure ==
  ASSUME Control, Catalogue!Fails
  PROVE  failures' # failures
BY Begins, CatBounds DEF Control, Catalogue!TypeOK, Catalogue!Fails

\* A step that ends a request, or leads it on, and changes nothing of an
\* endpoint it is not about.
LEMMA Elsewhere ==
  ASSUME NEW t \in Request, NEW e, NEW q, work'[t] = q, Same(e), work[t].pc # "idle",
         ~Catalogue!About(work[t], e), q = Catalogue!Idle \/ Alike(q, work[t])
  PROVE  Obliged(t, e)
BY DEF Obliged, Catalogue!About, Same, Alike, Catalogue!Idle

\* A step that fails concerns only disturbed endpoints.
LEMMA Failed ==
  ASSUME Control, Catalogue!Watch, Catalogue!Fails, NEW t \in Request, NEW q, work'[t] = q,
         work[t].pc # "idle", q # work[t],
         q = Catalogue!Idle \/ Alike(q, work[t]), NEW e \in Catalogue!Id \ disturbed', Same(e)
  PROVE  Obliged(t, e)
BY Undisturbed, NoFailure, Elsewhere

LEMMA InsertKeeps ==
  ASSUME Control, NEW t \in Request, Catalogue!InsertEndpoint(t)
  PROVE  Kept(t)
<1>1. /\ work[t].pc = "insert" /\ work[t].op = "create" /\ work[t].id = 0 /\ work[t].slug \in Slug
      /\ work[t].to \in Catalogue!Visibility /\ work[t].todo = {}
      /\ handled' = handled /\ index' = index
  BY Begins DEF Catalogue!InsertEndpoint, Known
<1>2. handled' \in 0..MaxHandled
  BY <1>1, Begins DEF Shape
<1>3. \A e \in Catalogue!Id : ~Catalogue!About(work[t], e)
  BY <1>1, Begins DEF Catalogue!About
<1>4. CASE Catalogue!Done(t) /\ (Catalogue!Works \/ Catalogue!Fails) /\ UNCHANGED row
  <2>1. Becomes(t, Catalogue!Idle) /\ failures' \in 0..Failing
    BY <1>4, Ended, FailTyped
  <2>2. /\ Shape' /\ Only(t) /\ work'[t] = Catalogue!Idle
        /\ \A e \in Catalogue!Id : Same(e)
    BY <2>1, <1>1, <1>2, <1>4, Quiet
  <2>3. Known(work[t])'
    BY <2>2 DEF Known, Catalogue!Idle
  <2>4. \A e \in Catalogue!Id : Obliged(t, e)
    BY <1>1, <1>3, <2>2, Elsewhere
  <2> QED BY <2>2, <2>3, <2>4 DEF Kept
<1>5. ASSUME NEW e \in Catalogue!NewIds(1), ~Catalogue!Taken(work[t].slug), registered,
             Catalogue!Works,
             row' = [row EXCEPT ![e] = [Catalogue!NoRow EXCEPT
                        !.row = "live", !.slug = work[t].slug, !.active = TRUE,
                        !.visibility = work[t].to]],
             IF work[t].to = "public"
               THEN work' = [work EXCEPT ![t].pc = "ingest", ![t].id = e]
               ELSE Catalogue!Done(t)
      PROVE  Kept(t)
  <2> DEFINE x == [Catalogue!NoRow EXCEPT !.row = "live", !.slug = work[t].slug, !.active = TRUE,
                                          !.visibility = work[t].to]
             q == IF work[t].to = "public" THEN [work[t] EXCEPT !.pc = "ingest", !.id = e]
                  ELSE Catalogue!Idle
  <2>1. e \in Catalogue!Id /\ e # 0 /\ e \in 0..MaxId /\ row[e].row = "free"
    BY CatBounds DEF Catalogue!NewIds, Catalogue!Id
  <2>2. /\ x \in Catalogue!Row /\ x.row = "live" /\ x.slug = work[t].slug
        /\ x.visibility = work[t].to /\ x.file = FALSE
    <3>1. x \in Catalogue!Row
      BY <1>1, RowTyped DEF Catalogue!Row
    <3>2. /\ x.row = "live" /\ x.slug = work[t].slug /\ x.visibility = work[t].to
          /\ x.file = FALSE
      BY DEF Catalogue!NoRow
    <3> QED BY <3>1, <3>2
  <2>3. /\ q \in Catalogue!Handler /\ work' = [work EXCEPT ![t] = q]
        /\ \/ q = Catalogue!Idle /\ work[t].to # "public"
           \/ /\ q.pc = "ingest" /\ q.id = e /\ q.op = "create" /\ q.todo = {}
              /\ work[t].to = "public"
    <3>1. CASE work[t].to = "public"
      <4>1. q = [work[t] EXCEPT !.pc = "ingest", !.id = e] /\ work[t] \in Catalogue!Handler
        BY <3>1, Begins
      <4>2. work' = [work EXCEPT ![t] = [work[t] EXCEPT !.pc = "ingest", !.id = e]]
        BY <1>5, <3>1, Begins DEF Shape
      <4> HIDE DEF q
      <4>3. q \in Catalogue!Handler /\ q.pc = "ingest" /\ q.id = e /\ q.op = "create" /\ q.todo = {}
        BY <1>1, <2>1, <4>1 DEF Catalogue!Handler
      <4> QED BY <3>1, <4>1, <4>2, <4>3
    <3>2. CASE work[t].to # "public"
      BY <1>5, <3>2, IdleTyped DEF Catalogue!Done
    <3> QED BY <3>1, <3>2
  <2> HIDE DEF q, x
  <2>4. Shape
    BY Begins
  <2>5. /\ row' \in [Catalogue!Id -> Catalogue!Row]
        /\ work' \in [Request -> Catalogue!Handler] /\ work'[t] = q
    BY <1>5, <2>1, <2>2, <2>3, <2>4 DEF Shape, x
  <2>6. /\ row'[e] = x
        /\ \A f \in Catalogue!Id \ {e} : row'[f] = row[f]
    BY <1>5, <2>1, <2>4 DEF Shape, x
  <2>7. \A f, g \in Catalogue!LiveIds' : /\ row'[f].slug \in Slug
                                         /\ row'[f].slug = row'[g].slug => f = g
    BY <1>1, <1>5, <2>2, <2>4, <2>6 DEF Shape, Catalogue!LiveIds, Catalogue!Live, Catalogue!Taken
  <2>8. Shape'
    <3>1. \A f \in index' : f \in Catalogue!Id /\ row'[f].row # "free"
      BY <1>1, <2>2, <2>4, <2>6 DEF Shape
    <3>2. failures' \in 0..Failing
      BY <1>5, FailTyped
    <3> QED BY <1>2, <2>5, <2>7, <3>1, <3>2 DEF Shape
  <2>9. Only(t)
    BY <1>5, <2>3, <2>4, <2>2, <2>6 DEF Only, Shape
  <2>10. Known(work[t])'
    BY <2>3, <2>5, <2>6, <2>2, <2>1 DEF Known, Catalogue!Idle
  <2>11. ASSUME NEW f \in Catalogue!Id PROVE Obliged(t, f)
    <3>1. CASE f # e
      BY <3>1, <1>3, <1>1, <2>3, <2>5, <2>6 DEF Obliged, Catalogue!About, Same, Catalogue!Idle
    <3>2. CASE f = e
      <4>1. e \notin index /\ e \notin index'
        BY <1>1, <2>1, <2>4 DEF Shape
      <4>2. CASE work[t].to = "public"
        <5>1. Stage(work[t], e)'
          BY <2>2, <2>3, <2>5, <2>6, <4>1, <4>2 DEF Stage, Writing, Catalogue!Ingestible,
                              Catalogue!Live, Catalogue!Idle
        <5>2. Catalogue!About(work'[t], e)
          BY <2>3, <2>5, <4>2 DEF Catalogue!About
        <5> QED BY <5>1, <5>2, <3>2, <2>1 DEF Obliged
      <4>3. CASE work[t].to # "public"
        <5>1. Mirror(e)'
          BY <2>2, <2>6, <4>1, <4>3 DEF Mirror, Catalogue!Ingestible, Catalogue!Live
        <5>2. ~Catalogue!About(work'[t], e)
          BY <2>3, <2>5, <4>3 DEF Catalogue!About, Catalogue!Idle
        <5> QED BY <5>1, <5>2, <3>2, <2>1 DEF Obliged
      <4> QED BY <4>2, <4>3
    <3> QED BY <3>1, <3>2
  <2> QED BY <2>8, <2>9, <2>10, <2>11 DEF Kept
<1> QED BY <1>4, <1>5 DEF Catalogue!InsertEndpoint

\* What a request keeps of its knowledge when it goes on.
LEMMA Stays ==
  ASSUME Control, NEW t \in Request, Only(t), NEW q, work'[t] = q, Alike(q, work[t])
  PROVE  /\ q.id # 0 => row'[q.id].row # "free"
         /\ q.id \notin q.todo
         /\ \A e \in q.todo : row'[e].row # "free"
         /\ q.op # "sync" => q.todo = {}
         /\ q.op = "sync" => q.number # 0
<1>1. work[t].todo \subseteq Catalogue!Id
  BY Begins DEF Catalogue!Handler
<1> QED BY <1>1, Begins DEF Known, Alike, Only

\* A step that ends a request knows nothing any more.
LEMMA KnownAtEnd ==
  ASSUME NEW t \in Request, work'[t] = Catalogue!Idle
  PROVE  Known(work[t])'
BY DEF Known, Catalogue!Idle

\* A row of which one column is written.
LEMMA RowWritten ==
  ASSUME Control, NEW e \in Catalogue!Id, NEW x \in Catalogue!Row, row' = [row EXCEPT ![e] = x],
         row[e].row # "free" => x.row # "free", x.row = "gone" => row[e].row = "gone",
         x.row = "live" => row[e].row = "live" /\ x.slug = row[e].slug
  PROVE  /\ row' \in [Catalogue!Id -> Catalogue!Row]
         /\ row'[e] = x /\ \A f \in Catalogue!Id \ {e} : row'[f] = row[f]
         /\ \A f \in Catalogue!Id :
              /\ row[f].row # "free" => row'[f].row # "free"
              /\ row'[f].row = "gone" => row[f].row = "gone"
              /\ row'[f].row = "live" => row[f].row = "live" /\ row'[f].slug = row[f].slug
BY DEF Control, Catalogue!TypeOK

LEMMA RowStep ==
  ASSUME Control, NEW t \in Request, NEW q, Becomes(t, q), Catalogue!Works, handled' = handled,
         NEW e \in Catalogue!Id, NEW x \in Catalogue!Row, row' = [row EXCEPT ![e] = x],
         row[e].row # "free" => x.row # "free", x.row = "gone" => row[e].row = "gone",
         x.row = "live" => row[e].row = "live" /\ x.slug = row[e].slug, index' = index
  PROVE  /\ Shape' /\ Only(t) /\ work'[t] = q /\ row'[e] = x
         /\ \A f \in Catalogue!Id \ {e} : Same(f)
<1>1. /\ row' \in [Catalogue!Id -> Catalogue!Row]
      /\ row'[e] = x /\ \A f \in Catalogue!Id \ {e} : row'[f] = row[f]
      /\ \A f \in Catalogue!Id :
           /\ row[f].row # "free" => row'[f].row # "free"
           /\ row'[f].row = "gone" => row[f].row = "gone"
           /\ row'[f].row = "live" => row[f].row = "live" /\ row'[f].slug = row[f].slug
  BY RowWritten
<1>2. /\ index' \subseteq {f \in Catalogue!Id : row[f].row # "free"}
      /\ handled' \in 0..MaxHandled /\ failures' \in 0..Failing
  BY Begins, FailTyped DEF Shape
<1> QED BY <1>1, <1>2, Goes DEF Same

LEMMA FailKeeps ==
  ASSUME Control, Catalogue!Watch, NEW t \in Request, work[t].pc # "idle", Catalogue!Fails,
         UNCHANGED <<row, index, handled>>, NEW q, Becomes(t, q), q # work[t],
         q = Catalogue!Idle \/ Alike(q, work[t])
  PROVE  /\ Shape' /\ Only(t) /\ work'[t] = q
         /\ \A e \in Catalogue!Id \ disturbed' : Obliged(t, e)
<1>1. handled' \in 0..MaxHandled /\ failures' \in 0..Failing
  BY FailTyped DEF Control, Catalogue!TypeOK
<1>2. Shape' /\ Only(t) /\ work'[t] = q /\ \A e \in Catalogue!Id : Same(e)
  BY <1>1, Quiet
<1> QED BY <1>2, Failed

LEMMA DoneFailing ==
  ASSUME Control, Catalogue!Watch, NEW t \in Request, work[t].pc # "idle", Catalogue!Fails,
         UNCHANGED <<row, index, handled>>, Catalogue!Done(t)
  PROVE  Kept(t)
<1>1. Becomes(t, Catalogue!Idle) /\ Catalogue!Idle # work[t]
  BY Ended DEF Catalogue!Idle
<1> QED BY <1>1, FailKeeps, KnownAtEnd DEF Kept

LEMMA WriteKeeps ==
  ASSUME Control, Catalogue!Watch, NEW t \in Request, Catalogue!WriteEndpoint(t)
  PROVE  Kept(t)
<1>0. PICK e \in Catalogue!Id : /\ e = work[t].id /\ e # 0 /\ row[e].row # "free"
                                /\ work[t].pc = "write" /\ work[t].op = "update"
  BY Begins DEF Catalogue!WriteEndpoint, Known
<1> DEFINE v == IF work[t].to = "same" THEN row[e].visibility ELSE work[t].to
           x == [row[e] EXCEPT !.visibility = v]
<1>1. /\ work[t].pc = "write" /\ work[t].op = "update" /\ e = work[t].id /\ e # 0
      /\ row[e].row # "free" /\ row[e] \in Catalogue!Row
      /\ work[t].to \in Catalogue!Visibility \cup {"same"}
  BY <1>0, Begins DEF Catalogue!Handler
<1>2. handled' = handled /\ handled' \in 0..MaxHandled /\ index' = index
  BY Begins DEF Catalogue!WriteEndpoint, Shape
<1>3. v \in Catalogue!Visibility
  BY <1>1 DEF Catalogue!Row
<1> HIDE DEF v
<1>4. CASE Catalogue!Done(t) /\ Catalogue!Fails /\ UNCHANGED row
  BY <1>1, <1>2, <1>4, DoneFailing
<1>5. CASE ~Catalogue!Live(e) /\ Catalogue!Done(t) /\ Catalogue!Works /\ UNCHANGED row
  <2>1. Becomes(t, Catalogue!Idle) /\ failures' \in 0..Failing
    BY <1>5, Ended, FailTyped
  <2>2. Shape' /\ Only(t) /\ work'[t] = Catalogue!Idle /\ \A f \in Catalogue!Id : Same(f)
    BY <2>1, <1>2, <1>5, Quiet
  <2>3. ASSUME NEW f \in Catalogue!Id PROVE Obliged(t, f)
    <3>1. CASE Catalogue!About(work[t], f)
      <4>1. f = e /\ ~Stage(work[t], f)
        BY <1>1, <1>5, <3>1 DEF Catalogue!About, Stage, Writing
      <4> QED BY <1>1, <4>1, <3>1 DEF Obliged
    <3>2. CASE ~Catalogue!About(work[t], f)
      BY <1>1, <2>2, <3>2, Elsewhere
    <3> QED BY <3>1, <3>2
  <2> QED BY <2>2, <2>3, KnownAtEnd DEF Kept
<1>6. CASE /\ Catalogue!Live(e) /\ row' = [row EXCEPT ![e].visibility = v] /\ Catalogue!Works
           /\ IF Catalogue!FollowUp(work[t].from, v) = "idle" THEN Catalogue!Done(t)
              ELSE Catalogue!Goto(t, Catalogue!FollowUp(work[t].from, v))
  <2>1. /\ x \in Catalogue!Row /\ x.row = row[e].row /\ x.slug = row[e].slug
        /\ x.visibility = v /\ x.file = row[e].file
    BY <1>1, <1>3 DEF Catalogue!Row
  <2>2. row' = [row EXCEPT ![e] = x]
    BY <1>6, <1>1, Begins DEF Shape
  <2> HIDE DEF x
  <2>4. PICK q : /\ Becomes(t, q)
                 /\ \/ q = Catalogue!Idle /\ v # "public" /\ work[t].from # "public"
                    \/ q.pc = "ingest" /\ v = "public" /\ Alike(q, work[t])
                    \/ q.pc = "lookup" /\ v # "public" /\ Alike(q, work[t])
    <3>1. CASE v = "public"
      <4>1. Catalogue!Goto(t, "ingest")
        BY <1>6, <3>1 DEF Catalogue!FollowUp
      <4> QED BY <3>1, <4>1, Went
    <3>2. CASE v # "public" /\ work[t].from = "public"
      <4>1. Catalogue!Goto(t, "lookup")
        BY <1>6, <3>2 DEF Catalogue!FollowUp
      <4> QED BY <3>2, <4>1, Went
    <3>3. CASE v # "public" /\ work[t].from # "public"
      BY <1>6, <3>3, Ended DEF Catalogue!FollowUp
    <3> QED BY <3>1, <3>2, <3>3
  <2>6. /\ Shape' /\ Only(t) /\ work'[t] = q /\ row'[e] = x
        /\ \A f \in Catalogue!Id \ {e} : Same(f)
    <3>1. Catalogue!Works /\ handled' = handled /\ index' = index
      BY <1>2, <1>6
    <3>2. Becomes(t, q)
      BY <2>4
    <3> QED BY <1>1, <2>1, <2>2, <3>1, <3>2, RowStep
  <2>7. Known(work[t])'
    BY <1>1, <2>4, <2>6, Stays, KnownAtEnd DEF Known, Alike
  <2>8. ASSUME NEW f \in Catalogue!Id PROVE Obliged(t, f)
    <3>1. CASE f # e
      BY <1>1, <2>4, <2>6, <3>1, Elsewhere DEF Catalogue!About
    <3>2. CASE f = e
      <4>1. Stage(work[t], f)
              => IF Catalogue!About(work'[t], f) THEN Stage(work[t], f)' ELSE Mirror(f)'
        <5> SUFFICES ASSUME Stage(work[t], f)
                     PROVE  IF Catalogue!About(work'[t], f) THEN Stage(work[t], f)' ELSE Mirror(f)'
          OBVIOUS
        <5>1. /\ Catalogue!Live(e) /\ Mirror(e) /\ work[t].from = row[e].visibility
          BY <1>1, <3>2 DEF Stage, Writing
        <5>2. CASE q = Catalogue!Idle
          <6>1. Mirror(f)'
            BY <5>1, <5>2, <2>1, <2>6, <2>4, <1>2, <3>2 DEF Mirror, Catalogue!Ingestible,
                              Catalogue!Live, Catalogue!Idle
          <6> QED BY <6>1, <5>2, <2>6 DEF Catalogue!About, Catalogue!Idle
        <5>3. CASE q.pc = "ingest" /\ v = "public" /\ Alike(q, work[t])
          BY <5>1, <5>3, <2>1, <2>6, <1>1, <1>2, <3>2
             DEF Mirror, Catalogue!Ingestible, Catalogue!Live, Stage, Writing, Alike,
                 Catalogue!About
        <5>4. CASE q.pc = "lookup" /\ v # "public" /\ Alike(q, work[t])
          BY <5>1, <5>4, <2>1, <2>6, <1>1, <1>2, <3>2
             DEF Mirror, Catalogue!Ingestible, Catalogue!Live, Stage, Writing, Alike,
                 Catalogue!About
        <5> QED BY <5>2, <5>3, <5>4, <2>4
      <4>2. Catalogue!About(work[t], f)
        BY <1>1, <3>2 DEF Catalogue!About
      <4> QED BY <1>1, <3>2, <4>1, <4>2 DEF Obliged
    <3> QED BY <3>1, <3>2
  <2> QED BY <2>6, <2>7, <2>8 DEF Kept
<1> QED BY <1>1, <1>4, <1>5, <1>6 DEF Catalogue!WriteEndpoint, v

LEMMA DeleteRowKeeps ==
  ASSUME Control, Catalogue!Watch, NEW t \in Request, Catalogue!DeleteRow(t)
  PROVE  Kept(t)
<1>0. PICK e \in Catalogue!Id : /\ e = work[t].id /\ e # 0 /\ row[e].row # "free"
                                /\ work[t].pc = "delete" /\ work[t].op = "delete"
  BY Begins DEF Catalogue!DeleteRow, Known
<1> DEFINE x == [row[e] EXCEPT !.row = "deleted", !.file = FALSE]
<1>1. /\ work[t].pc = "delete" /\ work[t].op = "delete" /\ e = work[t].id /\ e # 0
      /\ row[e].row # "free" /\ row[e] \in Catalogue!Row
      /\ Catalogue!Done(t) /\ handled' = handled /\ index' = index
  BY <1>0, Begins DEF Catalogue!DeleteRow
<1>2. CASE Catalogue!Fails /\ UNCHANGED row
  BY <1>1, <1>2, DoneFailing
<1>3. CASE /\ row' = IF Catalogue!Live(e)
                       THEN [row EXCEPT ![e] = [@ EXCEPT !.row = "deleted", !.file = FALSE]]
                       ELSE row
           /\ Catalogue!Works
  <2> DEFINE y == IF Catalogue!Live(e) THEN x ELSE row[e]
  <2>1. x \in Catalogue!Row /\ x.row = "deleted" /\ x.file = FALSE
    BY <1>1 DEF Catalogue!Row
  <2>2. row \in [Catalogue!Id -> Catalogue!Row]
    BY Begins DEF Shape
  <2>3. row' = [row EXCEPT ![e] = y]
    BY <1>1, <1>3, <2>2
  <2> HIDE DEF x
  <2>4. /\ y \in Catalogue!Row /\ y.row # "free" /\ y.row # "live"
        /\ y.row = "gone" => row[e].row = "gone"
        /\ Catalogue!Live(e) => y.file = FALSE
    BY <1>1, <2>1 DEF Catalogue!Live
  <2> HIDE DEF y
  <2>5. Becomes(t, Catalogue!Idle)
    BY <1>1, Ended
  <2>6. /\ Shape' /\ Only(t) /\ work'[t] = Catalogue!Idle /\ row'[e] = y
        /\ \A f \in Catalogue!Id \ {e} : Same(f)
    <3>1. Catalogue!Works /\ handled' = handled /\ index' = index
      BY <1>1, <1>3
    <3> QED BY <1>1, <2>3, <2>4, <2>5, <3>1, RowStep
  <2>7. ASSUME NEW f \in Catalogue!Id PROVE Obliged(t, f)
    <3>1. CASE f # e
      BY <1>1, <2>6, <3>1, Elsewhere DEF Catalogue!About
    <3>2. CASE f = e
      <4>1. Stage(work[t], e) => Mirror(e)'
        BY <1>1, <2>4, <2>6 DEF Stage, Writing, Mirror, Catalogue!Ingestible, Catalogue!Live
      <4>2. Catalogue!About(work[t], e) /\ ~Catalogue!About(work'[t], e)
        BY <1>1, <2>6 DEF Catalogue!About, Catalogue!Idle
      <4> QED BY <1>1, <3>2, <4>1, <4>2 DEF Obliged
    <3> QED BY <3>1, <3>2
  <2> QED BY <2>6, <2>7, KnownAtEnd DEF Kept
<1> QED BY <1>1, <1>2, <1>3 DEF Catalogue!DeleteRow

\* Where a removal leads: to the deletion of the row, or to the end.
LEMMA Removed ==
  ASSUME Control, NEW t \in Request, Catalogue!AfterRemoval(t),
         work[t].pc \in {"lookup", "clear"}, work[t].op \in {"update", "delete"}
  PROVE  \E q : /\ Becomes(t, q) /\ q # work[t]
                /\ \/ q = Catalogue!Idle /\ work[t].op = "update"
                   \/ q.pc = "delete" /\ Alike(q, work[t]) /\ work[t].op = "delete"
<1>1. CASE work[t].op = "delete"
  <2>1. Catalogue!Goto(t, "delete")
    BY <1>1 DEF Catalogue!AfterRemoval
  <2> QED BY <1>1, <2>1, Went
<1>2. CASE work[t].op = "update"
  BY <1>2, Ended DEF Catalogue!AfterRemoval, Catalogue!Idle
<1> QED BY <1>1, <1>2

LEMMA LookupKeeps ==
  ASSUME Control, NEW t \in Request, Catalogue!GetRagFileId(t)
  PROVE  Kept(t)
<1>0. PICK e \in Catalogue!Id : /\ e = work[t].id /\ e # 0 /\ row[e].row # "free"
                                /\ work[t].pc = "lookup" /\ work[t].op \in {"update", "delete"}
  BY Begins DEF Catalogue!GetRagFileId, Known
<1>1. /\ work[t].pc = "lookup" /\ work[t].op \in {"update", "delete"} /\ e = work[t].id /\ e # 0
      /\ row[e].row # "free"
      /\ Catalogue!Works /\ UNCHANGED <<row, index, handled>>
  BY <1>0 DEF Catalogue!GetRagFileId
<1>2. PICK q : /\ Becomes(t, q) /\ q # work[t]
               /\ \/ q.pc = "remove" /\ Alike(q, work[t])
                  \/ /\ ~(Catalogue!Live(e) /\ row[e].file)
                     /\ \/ q = Catalogue!Idle /\ work[t].op = "update"
                        \/ q.pc = "delete" /\ Alike(q, work[t]) /\ work[t].op = "delete"
  <2>1. CASE Catalogue!Live(e) /\ row[e].file
    <3>1. Catalogue!Goto(t, "remove")
      BY <1>1, <2>1 DEF Catalogue!GetRagFileId
    <3> QED BY <1>1, <3>1, Went
  <2>2. CASE ~(Catalogue!Live(e) /\ row[e].file)
    <3>1. Catalogue!AfterRemoval(t)
      BY <1>1, <2>2 DEF Catalogue!GetRagFileId
    <3> QED BY <1>1, <2>2, <3>1, Removed
  <2> QED BY <2>1, <2>2
<1>3. handled' \in 0..MaxHandled /\ failures' \in 0..Failing
  BY <1>1, Begins, FailTyped DEF Shape
<1>4. Shape' /\ Only(t) /\ work'[t] = q /\ \A f \in Catalogue!Id : Same(f)
  BY <1>1, <1>2, <1>3, Quiet
<1>5. Known(work[t])'
  BY <1>1, <1>2, <1>4, Stays, KnownAtEnd DEF Known, Alike
<1>6. ASSUME NEW f \in Catalogue!Id PROVE Obliged(t, f)
  <2>1. CASE f # e
    BY <1>1, <1>2, <1>4, <2>1, Elsewhere DEF Catalogue!About
  <2>2. CASE f = e
    <3>1. Catalogue!About(work[t], e)
      BY <1>1 DEF Catalogue!About
    <3>2. row'[e] = row[e] /\ (e \in index' <=> e \in index)
      BY <1>1, <1>4 DEF Same
    <3>3. ASSUME Stage(work[t], e)
          PROVE  IF Catalogue!About(work'[t], e) THEN Stage(work[t], e)' ELSE Mirror(e)'
      <4>1. /\ Catalogue!Live(e) /\ (row[e].file <=> e \in index)
            /\ work[t].op = "update" => row[e].visibility # "public"
        BY <1>1, <3>3 DEF Stage, Writing
      <4>2. CASE q = Catalogue!Idle /\ work[t].op = "update" /\ ~(Catalogue!Live(e) /\ row[e].file)
        <5>1. Mirror(e)'
          BY <3>2, <4>1, <4>2 DEF Mirror, Catalogue!Ingestible, Catalogue!Live
        <5> QED BY <5>1, <4>2, <1>4 DEF Catalogue!About, Catalogue!Idle
      <4>3. CASE /\ Alike(q, work[t])
                 /\ \/ q.pc = "remove"
                    \/ q.pc = "delete" /\ ~(Catalogue!Live(e) /\ row[e].file)
        <5>1. Stage(work[t], e)'
          BY <1>1, <1>4, <3>2, <4>1, <4>3 DEF Stage, Writing, Alike, Catalogue!Live
        <5>2. Catalogue!About(work'[t], e)
          BY <1>1, <1>4, <4>3 DEF Catalogue!About, Alike
        <5> QED BY <5>1, <5>2
      <4> QED BY <1>2, <4>2, <4>3
    <3> QED BY <1>1, <2>2, <3>1, <3>3 DEF Obliged
  <2> QED BY <2>1, <2>2
<1> QED BY <1>4, <1>5, <1>6 DEF Kept

LEMMA RemoveKeeps ==
  ASSUME Control, Catalogue!Watch, NEW t \in Request, Catalogue!RemoveDocument(t)
  PROVE  Kept(t)
<1>1. PICK e \in Catalogue!Id : /\ e = work[t].id /\ e # 0 /\ row[e].row # "free"
                                /\ work[t].pc = "remove" /\ work[t].op \in {"update", "delete"}
  BY Begins DEF Catalogue!RemoveDocument, Known
<1>2. PICK q : Becomes(t, q) /\ q.pc = "clear" /\ Alike(q, work[t])
  BY Went DEF Catalogue!RemoveDocument
<1>3. UNCHANGED <<row, handled>> /\ q # work[t]
  BY <1>1, <1>2 DEF Catalogue!RemoveDocument
<1>4. ASSUME Only(t), work'[t] = q PROVE Known(work[t])'
  BY <1>1, <1>2, <1>4, Stays DEF Known, Alike
<1>5. CASE Catalogue!Fails /\ UNCHANGED index
  BY <1>1, <1>2, <1>3, <1>4, <1>5, FailKeeps DEF Kept
<1>6. CASE index' = index \ {work[t].id} /\ Catalogue!Works
  <2>1. /\ row' \in [Catalogue!Id -> Catalogue!Row] /\ \A f \in Catalogue!Id : row'[f] = row[f]
        /\ index' \subseteq {f \in Catalogue!Id : row[f].row # "free"}
        /\ handled' \in 0..MaxHandled /\ failures' \in 0..Failing
    BY <1>3, <1>6, Begins, FailTyped DEF Shape
  <2>2. Shape' /\ Only(t) /\ work'[t] = q
    BY <1>2, <2>1, Goes
  <2>3. ASSUME NEW f \in Catalogue!Id PROVE Obliged(t, f)
    <3>1. CASE f # e
      <4>1. Same(f)
        BY <1>1, <1>6, <2>1, <3>1 DEF Same
      <4> QED BY <1>1, <1>2, <2>2, <3>1, <4>1, Elsewhere DEF Catalogue!About
    <3>2. CASE f = e
      <4>1. Stage(work[t], e) => Stage(work[t], e)'
        BY <1>1, <1>2, <1>6, <2>1, <2>2 DEF Stage, Writing, Alike, Catalogue!Live
      <4>2. Catalogue!About(work[t], e) /\ Catalogue!About(work'[t], e)
        BY <1>1, <1>2, <2>2 DEF Catalogue!About, Alike
      <4> QED BY <1>1, <3>2, <4>1, <4>2 DEF Obliged
    <3> QED BY <3>1, <3>2
  <2> QED BY <1>4, <2>2, <2>3 DEF Kept
<1> QED BY <1>5, <1>6 DEF Catalogue!RemoveDocument

LEMMA ClearKeeps ==
  ASSUME Control, Catalogue!Watch, NEW t \in Request, Catalogue!ClearRagFileId(t)
  PROVE  Kept(t)
<1>1. PICK e \in Catalogue!Id : /\ e = work[t].id /\ e # 0 /\ row[e].row # "free"
                                /\ work[t].pc = "clear" /\ work[t].op \in {"update", "delete"}
                                /\ row[e] \in Catalogue!Row
  BY Begins DEF Catalogue!ClearRagFileId, Known
<1>2. PICK q : /\ Becomes(t, q) /\ q # work[t]
               /\ \/ q = Catalogue!Idle /\ work[t].op = "update"
                  \/ q.pc = "delete" /\ Alike(q, work[t]) /\ work[t].op = "delete"
  BY <1>1, Removed DEF Catalogue!ClearRagFileId
<1>3. UNCHANGED <<index, handled>>
  BY DEF Catalogue!ClearRagFileId
<1>4. ASSUME Only(t), work'[t] = q PROVE Known(work[t])'
  BY <1>1, <1>2, <1>4, Stays, KnownAtEnd DEF Known, Alike
<1>5. CASE Catalogue!Fails /\ UNCHANGED row
  BY <1>1, <1>2, <1>3, <1>4, <1>5, FailKeeps DEF Kept
<1>6. CASE row' = [row EXCEPT ![work[t].id].file = FALSE] /\ Catalogue!Works
  <2> DEFINE x == [row[e] EXCEPT !.file = FALSE]
  <2>1. /\ x \in Catalogue!Row /\ x.row = row[e].row /\ x.slug = row[e].slug
        /\ x.visibility = row[e].visibility /\ x.file = FALSE
    BY <1>1 DEF Catalogue!Row
  <2>2. row' = [row EXCEPT ![e] = x] /\ Catalogue!Works
    BY <1>1, <1>6, Begins DEF Shape
  <2> HIDE DEF x
  <2>3. /\ Shape' /\ Only(t) /\ work'[t] = q /\ row'[e] = x
        /\ \A f \in Catalogue!Id \ {e} : Same(f)
    BY <1>1, <1>2, <1>3, <2>1, <2>2, RowStep
  <2>4. ASSUME NEW f \in Catalogue!Id PROVE Obliged(t, f)
    <3>1. CASE f # e
      BY <1>1, <1>2, <2>3, <3>1, Elsewhere DEF Catalogue!About
    <3>2. CASE f = e
      <4>1. Catalogue!About(work[t], e)
        BY <1>1 DEF Catalogue!About
      <4>2. ASSUME Stage(work[t], e)
            PROVE  IF Catalogue!About(work'[t], e) THEN Stage(work[t], e)' ELSE Mirror(e)'
        <5>1. /\ Catalogue!Live(e) /\ e \notin index /\ ~row'[e].file
              /\ work[t].op = "update" => row[e].visibility # "public"
          BY <1>1, <4>2, <2>1, <2>3 DEF Stage, Writing
        <5>2. CASE q = Catalogue!Idle /\ work[t].op = "update"
          <6>1. Mirror(e)'
            BY <5>1, <5>2, <1>3, <2>1, <2>3 DEF Mirror, Catalogue!Ingestible
          <6> QED BY <6>1, <5>2, <2>3 DEF Catalogue!About, Catalogue!Idle
        <5>3. CASE q.pc = "delete" /\ Alike(q, work[t]) /\ work[t].op = "delete"
          <6>1. Stage(work[t], e)'
            BY <1>1, <1>3, <2>1, <2>3, <5>1, <5>3 DEF Stage, Writing, Alike, Catalogue!Live
          <6>2. Catalogue!About(work'[t], e)
            BY <1>1, <2>3, <5>3 DEF Catalogue!About, Alike
          <6> QED BY <6>1, <6>2
        <5> QED BY <1>2, <5>2, <5>3
      <4> QED BY <1>1, <3>2, <4>1, <4>2 DEF Obliged
    <3> QED BY <3>1, <3>2
  <2> QED BY <1>4, <2>3, <2>4 DEF Kept
<1> QED BY <1>5, <1>6 DEF Catalogue!ClearRagFileId

\* Where the indexing of one endpoint leads: to that of the next one of a
\* sync, or to the end.
Onward(q, r) ==
    \/ q = Catalogue!Idle /\ r.todo = {}
    \/ \E e \in r.todo : /\ q.pc = "ingest" /\ q.id = e /\ q.op = r.op
                         /\ q.todo = r.todo \ {e} /\ q.number = r.number

LEMMA Ingests ==
  ASSUME Control, NEW t \in Request, Catalogue!NextIngest(t),
         work[t].pc \in {"ingest", "add", "note"}
  PROVE  \E q : /\ Becomes(t, q) /\ q # work[t] /\ Onward(q, work[t])
                /\ q.pc \in {"idle", "ingest"}
<1>1. CASE work[t].todo = {}
  BY <1>1, Ended DEF Catalogue!NextIngest, Onward, Catalogue!Idle
<1>2. CASE work[t].todo # {}
  <2>1. PICK e \in work[t].todo :
               work' = [work EXCEPT ![t].pc = "ingest", ![t].id = e, ![t].todo = @ \ {e}]
    BY <1>2, Zenon DEF Catalogue!NextIngest
  <2> DEFINE q == [work[t] EXCEPT !.pc = "ingest", !.id = e, !.todo = work[t].todo \ {e}]
  <2>2. work[t] \in Catalogue!Handler /\ work' = [work EXCEPT ![t] = q]
    BY <2>1, Begins DEF Shape
  <2>3. e \in 0..MaxId /\ work[t].todo \subseteq Catalogue!Id
    BY <2>2, CatBounds DEF Catalogue!Handler, Catalogue!Id
  <2>4. /\ q \in Catalogue!Handler /\ q.pc = "ingest" /\ q.id = e /\ q.op = work[t].op
        /\ q.todo = work[t].todo \ {e} /\ q.number = work[t].number
    BY <2>2, <2>3 DEF Catalogue!Handler
  <2> HIDE DEF q
  <2> QED BY <2>2, <2>4 DEF Becomes, Onward
<1> QED BY <1>1, <1>2

LEMMA OnwardKnown ==
  ASSUME Control, NEW t \in Request, Only(t), NEW q, work'[t] = q, Onward(q, work[t]),
         work[t].pc \in {"ingest", "add", "note"}
  PROVE  Known(work[t])'
<1>1. CASE q = Catalogue!Idle
  BY <1>1, KnownAtEnd
<1>2. CASE q # Catalogue!Idle
  <2>1. PICK e \in work[t].todo : /\ q.pc = "ingest" /\ q.id = e /\ q.op = work[t].op
                                 /\ q.todo = work[t].todo \ {e} /\ q.number = work[t].number
    BY <1>2 DEF Onward
  <2>2. Known(work[t]) /\ work[t].todo \subseteq Catalogue!Id /\ 0 \notin Catalogue!Id
    BY Begins DEF Catalogue!Handler
  <2>3. e # 0 /\ \A f \in work[t].todo : row'[f].row # "free"
    BY <2>2 DEF Known, Only
  <2>4. work[t].op = "sync" /\ q.number # 0
    BY <2>1, <2>2 DEF Known
  <2> QED BY <2>1, <2>2, <2>3, <2>4 DEF Known
<1> QED BY <1>1, <1>2

LEMMA OnwardMoves ==
  ASSUME Control, NEW t \in Request, NEW q, work'[t] = q, Onward(q, work[t]),
         work[t].pc \in {"ingest", "add", "note"}, NEW f \in Catalogue!Id, Only(t),
         f # work[t].id => Same(f),
         f = work[t].id => row[f].row # "free" /\ (Stage(work[t], f) => Mirror(f)')
  PROVE  Obliged(t, f)
<1>1. Known(work[t])
  BY Begins
<1>2. CASE work[t].op # "sync"
  <2>1. q = Catalogue!Idle
    BY <1>1, <1>2 DEF Known, Onward
  <2> QED BY <2>1, <1>2 DEF Obliged, Catalogue!About, Same, Catalogue!Idle
<1>3. CASE work[t].op = "sync"
  <2>1. Catalogue!About(work[t], f)
    BY <1>3 DEF Catalogue!About
  <2>2. row[f].row = "free" => row'[f].row = "free"
    BY DEF Same
  <2>3. ASSUME Stage(work[t], f)
        PROVE  IF Catalogue!About(work'[t], f) THEN Stage(work[t], f)' ELSE Mirror(f)'
    <3>1. Syncing(work[t], f) /\ row'[f].row # "gone"
      BY <2>3, <1>3 DEF Stage, Syncing, Only
    <3>2. Same(f) => (Mirror(f) => Mirror(f)')
      BY DEF Same, Mirror, Catalogue!Ingestible, Catalogue!Live
    <3>3. CASE f \in work[t].todo
      <4>1. f # work[t].id
        BY <1>1, <3>3 DEF Known
      <4>2. PICK e \in work[t].todo : /\ q.pc = "ingest" /\ q.id = e /\ q.op = work[t].op
                                     /\ q.todo = work[t].todo \ {e}
        BY <3>3 DEF Onward
      <4>3. /\ Catalogue!Ingestible(f) /\ f \notin index /\ ~row[f].file
            /\ row'[f] = row[f] /\ f \notin index'
        BY <3>1, <3>3, <4>1 DEF Syncing, Same
      <4>4. Syncing(work[t], f)'
        BY <4>2, <4>3, <3>3 DEF Syncing, Catalogue!Ingestible, Catalogue!Live
      <4> QED BY <4>2, <4>4, <1>3 DEF Stage, Catalogue!About
    <3>4. CASE f \notin work[t].todo
      <4>1. Mirror(f)'
        BY <2>3, <3>1, <3>2, <3>4 DEF Syncing
      <4>2. CASE q = Catalogue!Idle
        BY <4>1, <4>2 DEF Catalogue!About, Catalogue!Idle
      <4>3. CASE q # Catalogue!Idle
        <5>1. PICK e \in work[t].todo : /\ q.pc = "ingest" /\ q.id = e /\ q.op = work[t].op
                                       /\ q.todo = work[t].todo \ {e}
          BY <4>3 DEF Onward
        <5>2. Syncing(work[t], f)'
          BY <3>1, <5>1, <4>1, <3>4 DEF Syncing
        <5> QED BY <5>1, <5>2, <1>3 DEF Stage, Catalogue!About
      <4> QED BY <4>2, <4>3
    <3> QED BY <3>3, <3>4
  <2> QED BY <2>1, <2>2, <2>3 DEF Obliged
<1> QED BY <1>2, <1>3

LEMMA ModelReadKeeps ==
  ASSUME Control, NEW t \in Request, Catalogue!GetEndpointModel(t)
  PROVE  Kept(t)
<1>1. PICK e \in Catalogue!Id : /\ e = work[t].id /\ e # 0 /\ row[e].row # "free"
                                /\ work[t].pc = "ingest"
                                /\ work[t].op \in {"create", "update", "sync"}
  BY Begins DEF Catalogue!GetEndpointModel, Known
<1>2. Catalogue!Works /\ UNCHANGED <<row, index, handled>>
  BY DEF Catalogue!GetEndpointModel
<1>3. handled' \in 0..MaxHandled /\ failures' \in 0..Failing
  BY <1>2, Begins, FailTyped DEF Shape
<1>4. CASE Catalogue!Ingestible(e)
  <2>1. Catalogue!Goto(t, "add")
    BY <1>1, <1>4 DEF Catalogue!GetEndpointModel
  <2>2. PICK q : Becomes(t, q) /\ q.pc = "add" /\ Alike(q, work[t])
    BY <2>1, Went
  <2>3. Shape' /\ Only(t) /\ work'[t] = q /\ \A f \in Catalogue!Id : Same(f)
    BY <1>2, <1>3, <2>2, Quiet
  <2>4. Known(work[t])'
    BY <1>1, <2>2, <2>3, Stays DEF Known, Alike
  <2>5. ASSUME NEW f \in Catalogue!Id PROVE Obliged(t, f)
    <3>1. CASE ~Catalogue!About(work[t], f)
      BY <1>1, <2>2, <2>3, <3>1, Elsewhere
    <3>2. CASE Catalogue!About(work[t], f)
      <4>1. Catalogue!About(work'[t], f)
        BY <2>2, <2>3, <3>2 DEF Catalogue!About, Alike
      <4>2. row'[f] = row[f] /\ (f \in index' <=> f \in index)
        BY <2>3 DEF Same
      <4>3. Mirror(f) => Mirror(f)'
        BY <4>2 DEF Mirror, Catalogue!Ingestible, Catalogue!Live
      <4>4. Stage(work[t], f) => Stage(work[t], f)'
        BY <1>1, <2>2, <2>3, <4>2, <4>3
           DEF Stage, Writing, Syncing, Alike, Catalogue!Ingestible, Catalogue!Live
      <4> QED BY <3>2, <4>1, <4>2, <4>4 DEF Obliged
    <3> QED BY <3>1, <3>2
  <2> QED BY <2>3, <2>4, <2>5 DEF Kept
<1>5. CASE ~Catalogue!Ingestible(e)
  <2>1. Catalogue!NextIngest(t)
    BY <1>1, <1>5 DEF Catalogue!GetEndpointModel
  <2>2. PICK q : Becomes(t, q) /\ Onward(q, work[t])
    BY <1>1, <2>1, Ingests
  <2>3. Shape' /\ Only(t) /\ work'[t] = q /\ \A f \in Catalogue!Id : Same(f)
    BY <1>2, <1>3, <2>2, Quiet
  <2>4. Known(work[t])'
    BY <1>1, <2>2, <2>3, OnwardKnown
  <2>5. ~Stage(work[t], e)
    BY <1>1, <1>5 DEF Stage, Writing, Syncing
  <2>6. \A f \in Catalogue!Id : Obliged(t, f)
    BY <1>1, <2>2, <2>3, <2>5, OnwardMoves
  <2> QED BY <2>3, <2>4, <2>6 DEF Kept
<1> QED BY <1>4, <1>5

LEMMA AddKeeps ==
  ASSUME Control, Catalogue!Watch, NEW t \in Request, Catalogue!AddDocument(t)
  PROVE  Kept(t)
<1>1. PICK e \in Catalogue!Id : /\ e = work[t].id /\ e # 0 /\ row[e].row # "free"
                                /\ work[t].pc = "add" /\ work[t].op \in {"create", "update", "sync"}
  BY Begins DEF Catalogue!AddDocument, Known
<1>2. UNCHANGED <<row, handled>>
  BY DEF Catalogue!AddDocument
<1>3. handled' \in 0..MaxHandled
  BY <1>2, Begins DEF Shape
<1>4. CASE index' = index \cup {work[t].id} /\ Catalogue!Goto(t, "note") /\ Catalogue!Works
  <2>1. PICK q : Becomes(t, q) /\ q.pc = "note" /\ Alike(q, work[t])
    BY <1>4, Went
  <2>2. /\ row' \in [Catalogue!Id -> Catalogue!Row] /\ \A f \in Catalogue!Id : row'[f] = row[f]
        /\ index' \subseteq {f \in Catalogue!Id : row[f].row # "free"}
        /\ failures' \in 0..Failing
    BY <1>1, <1>2, <1>4, Begins, FailTyped DEF Shape
  <2>3. Shape' /\ Only(t) /\ work'[t] = q
    BY <1>3, <2>1, <2>2, Goes
  <2>4. Known(work[t])'
    BY <1>1, <2>1, <2>3, Stays DEF Known, Alike
  <2>5. ASSUME NEW f \in Catalogue!Id PROVE Obliged(t, f)
    <3>1. f # e => Same(f)
      BY <1>1, <1>4, <2>2 DEF Same
    <3>2. CASE ~Catalogue!About(work[t], f)
      BY <1>1, <2>1, <2>3, <3>1, <3>2, Elsewhere DEF Catalogue!About
    <3>3. CASE Catalogue!About(work[t], f)
      <4>1. Catalogue!About(work'[t], f)
        BY <2>1, <2>3, <3>3 DEF Catalogue!About, Alike
      <4>2. row'[f] = row[f] /\ (f # e => (f \in index' <=> f \in index)) /\ e \in index'
        BY <1>1, <1>4, <2>2 DEF Same
      <4>3. f # e /\ Mirror(f) => Mirror(f)'
        BY <4>2 DEF Mirror, Catalogue!Ingestible, Catalogue!Live
      <4>4. CASE work[t].op # "sync"
        <5>1. f = e
          BY <1>1, <3>3, <4>4 DEF Catalogue!About
        <5>2. Stage(work[t], f) => Stage(work[t], f)'
          BY <1>1, <2>1, <2>3, <4>2, <4>4, <5>1 DEF Stage, Writing, Alike, Catalogue!Ingestible,
                              Catalogue!Live
        <5> QED BY <3>3, <4>1, <4>2, <5>2 DEF Obliged
      <4>5. CASE work[t].op = "sync"
        <5>1. f \in work[t].todo => f # e
          BY <1>1, Begins DEF Known
        <5>2. Stage(work[t], f) => Stage(work[t], f)'
          BY <1>1, <2>1, <2>3, <4>2, <4>3, <4>5, <5>1 DEF Stage, Syncing, Alike,
                              Catalogue!Ingestible, Catalogue!Live
        <5> QED BY <3>3, <4>1, <4>2, <5>2 DEF Obliged
      <4> QED BY <4>4, <4>5
    <3> QED BY <3>2, <3>3
  <2> QED BY <2>3, <2>4, <2>5 DEF Kept
<1>5. CASE Catalogue!NextIngest(t) /\ Catalogue!Fails /\ UNCHANGED index
  <2>1. PICK q : Becomes(t, q) /\ q # work[t] /\ Onward(q, work[t])
    BY <1>1, <1>5, Ingests
  <2>2. failures' \in 0..Failing
    BY <1>5, FailTyped
  <2>3. Shape' /\ Only(t) /\ work'[t] = q /\ \A f \in Catalogue!Id : Same(f)
    BY <1>2, <1>3, <1>5, <2>1, <2>2, Quiet
  <2>4. Known(work[t])'
    BY <1>1, <2>1, <2>3, OnwardKnown
  <2>5. ASSUME NEW f \in Catalogue!Id \ disturbed' PROVE Obliged(t, f)
    <3>1. f # e
      BY <1>1, <1>5, <2>1, <2>3, Undisturbed, NoFailure DEF Catalogue!About
    <3> QED BY <1>1, <2>1, <2>3, <3>1, OnwardMoves
  <2> QED BY <2>3, <2>4, <2>5 DEF Kept
<1> QED BY <1>4, <1>5 DEF Catalogue!AddDocument

LEMMA NoteKeeps ==
  ASSUME Control, Catalogue!Watch, NEW t \in Request, Catalogue!NoteRagFileId(t)
  PROVE  Kept(t)
<1>1. PICK e \in Catalogue!Id : /\ e = work[t].id /\ e # 0 /\ row[e].row # "free"
                                /\ work[t].pc = "note"
                                /\ work[t].op \in {"create", "update", "sync"}
                                /\ row[e] \in Catalogue!Row
  BY Begins DEF Catalogue!NoteRagFileId, Known
<1>2. UNCHANGED <<index, handled>>
  BY DEF Catalogue!NoteRagFileId
<1>3. PICK q : Becomes(t, q) /\ q # work[t] /\ Onward(q, work[t])
  BY <1>1, Ingests DEF Catalogue!NoteRagFileId
<1>4. CASE Catalogue!Fails /\ UNCHANGED row
  <2>1. handled' \in 0..MaxHandled /\ failures' \in 0..Failing
    BY <1>2, <1>4, Begins, FailTyped DEF Shape
  <2>2. Shape' /\ Only(t) /\ work'[t] = q /\ \A f \in Catalogue!Id : Same(f)
    BY <1>2, <1>3, <1>4, <2>1, Quiet
  <2>3. ASSUME NEW f \in Catalogue!Id \ disturbed' PROVE Obliged(t, f)
    <3>1. f # e
      BY <1>1, <1>3, <1>4, <2>2, Undisturbed, NoFailure DEF Catalogue!About
    <3> QED BY <1>1, <1>3, <2>2, <3>1, OnwardMoves
  <2> QED BY <1>1, <1>3, <2>2, <2>3, OnwardKnown DEF Kept
<1>5. CASE row' = [row EXCEPT ![work[t].id].file = Catalogue!Live(work[t].id)] /\ Catalogue!Works
  <2> DEFINE x == [row[e] EXCEPT !.file = Catalogue!Live(e)]
  <2>1. /\ x \in Catalogue!Row /\ x.row = row[e].row /\ x.slug = row[e].slug
        /\ x.visibility = row[e].visibility /\ (x.file <=> Catalogue!Live(e))
    BY <1>1 DEF Catalogue!Row, Catalogue!Live
  <2>2. row' = [row EXCEPT ![e] = x]
    BY <1>1, <1>5, Begins DEF Shape
  <2>3. Catalogue!Works /\ handled' = handled /\ index' = index
    BY <1>2, <1>5
  <2> HIDE DEF x
  <2>4. /\ Shape' /\ Only(t) /\ work'[t] = q /\ row'[e] = x
        /\ \A f \in Catalogue!Id \ {e} : Same(f)
    BY <1>1, <1>3, <2>1, <2>2, <2>3, RowStep
  <2>5. Stage(work[t], e) => Mirror(e)'
    BY <1>1, <2>1, <2>3, <2>4 DEF Stage, Writing, Syncing, Mirror, Catalogue!Ingestible,
                              Catalogue!Live
  <2>6. \A f \in Catalogue!Id : Obliged(t, f)
    BY <1>1, <1>3, <2>4, <2>5, OnwardMoves
  <2> QED BY <1>1, <1>3, <2>4, <2>6, OnwardKnown DEF Kept
<1> QED BY <1>4, <1>5 DEF Catalogue!NoteRagFileId

\* A sync that loses a call disturbs every endpoint.
LEMMA SyncFailed ==
  ASSUME Control, Catalogue!Watch, NEW t \in Request, work'[t] # work[t], work[t].op = "sync",
         work[t].pc # "idle",
         Catalogue!Fails \/ (work[t].pc = "replace" /\ Catalogue!Refused(t))
  PROVE  Catalogue!Id \subseteq disturbed'
BY Undisturbed, NoFailure DEF Catalogue!About

LEMMA PurgeKeeps ==
  ASSUME Control, Catalogue!Watch, NEW t \in Request, Catalogue!Purge(t)
  PROVE  Kept(t)
<1>1. /\ work[t].pc = "purge" /\ work[t].op = "sync" /\ work[t] \in Catalogue!Handler
      /\ UNCHANGED <<row, handled>> /\ work[t].todo \subseteq Catalogue!Id
      /\ \A f \in Catalogue!Id : Catalogue!About(work[t], f)
  BY Begins DEF Catalogue!Purge, Known, Catalogue!Handler, Catalogue!About
<1>2. handled' \in 0..MaxHandled
  BY <1>1, Begins DEF Shape
<1>3. ASSUME NEW e \in work[t].todo, work' = [work EXCEPT ![t].todo = @ \ {e}],
             \/ index' = index \ {e} /\ Catalogue!Works
             \/ Catalogue!Fails /\ UNCHANGED index
      PROVE  Kept(t)
  <2> DEFINE q == [work[t] EXCEPT !.todo = work[t].todo \ {e}]
  <2>1. /\ q \in Catalogue!Handler /\ q.pc = "purge" /\ q.op = "sync" /\ q.id = work[t].id
        /\ q.number = work[t].number /\ q.todo = work[t].todo \ {e} /\ q # work[t]
    BY <1>1, <1>3 DEF Catalogue!Handler
  <2>2. work' = [work EXCEPT ![t] = q]
    BY <1>3, Begins DEF Shape
  <2> HIDE DEF q
  <2>3. /\ row' \in [Catalogue!Id -> Catalogue!Row] /\ \A f \in Catalogue!Id : row'[f] = row[f]
        /\ index' \subseteq {f \in Catalogue!Id : row[f].row # "free"}
        /\ failures' \in 0..Failing
    BY <1>1, <1>3, Begins, FailTyped DEF Shape
  <2>4. Shape' /\ Only(t) /\ work'[t] = q
    BY <1>2, <2>1, <2>2, <2>3, Goes DEF Becomes
  <2>5. Known(work[t])'
    BY <1>1, <2>1, <2>3, <2>4, Begins DEF Known
  <2>6. ASSUME NEW f \in Catalogue!Id \ disturbed' PROVE Obliged(t, f)
    <3>1. index' = index \ {e}
      BY <1>1, <1>3, <2>1, <2>4, SyncFailed
    <3>2. Stage(work[t], f) => Stage(work[t], f)'
      BY <1>1, <2>1, <2>3, <2>4, <3>1 DEF Stage, Syncing, Catalogue!Live
    <3>3. Catalogue!About(work'[t], f) /\ row'[f] = row[f]
      BY <2>1, <2>3, <2>4 DEF Catalogue!About
    <3> QED BY <1>1, <3>2, <3>3 DEF Obliged
  <2> QED BY <2>4, <2>5, <2>6 DEF Kept
<1>4. CASE /\ work[t].todo = {} /\ Catalogue!Works /\ UNCHANGED index
           /\ work' = [work EXCEPT ![t].pc = "replace", ![t].seen = Catalogue!Seen]
  <2> DEFINE q == [work[t] EXCEPT !.pc = "replace", !.seen = Catalogue!Seen]
  <2>1. Catalogue!Seen = {f \in Catalogue!Id : Catalogue!Live(f)}
    BY DEF Catalogue!Seen, Catalogue!LiveIds
  <2>2. /\ q \in Catalogue!Handler /\ q.pc = "replace" /\ q.op = "sync" /\ q.id = work[t].id
        /\ q.number = work[t].number /\ q.todo = {} /\ q.seen = Catalogue!Seen
    BY <1>1, <1>4, <2>1, Zenon DEF Catalogue!Handler
  <2>3. work' = [work EXCEPT ![t] = q]
    BY <1>4, Begins DEF Shape
  <2> HIDE DEF q
  <2>4. Shape' /\ Only(t) /\ work'[t] = q /\ \A f \in Catalogue!Id : Same(f)
    BY <1>1, <1>2, <1>4, <2>2, <2>3, FailTyped, Quiet DEF Becomes
  <2>5. Known(work[t])'
    <3>1. work[t].id # 0 => row'[work[t].id].row # "free"
      BY <1>1, Begins DEF Known
    <3> QED BY <1>1, <2>2, <2>4, <3>1, Begins DEF Known
  <2>6. ASSUME NEW f \in Catalogue!Id PROVE Obliged(t, f)
    <3>1. row'[f] = row[f] /\ (f \in index' <=> f \in index)
      BY <2>4 DEF Same
    <3>2. Stage(work[t], f) => Stage(work[t], f)'
      BY <1>1, <1>4, <2>1, <2>2, <2>4, <3>1 DEF Stage, Syncing, Catalogue!Live
    <3>3. Catalogue!About(work'[t], f)
      BY <2>2, <2>4 DEF Catalogue!About
    <3> QED BY <1>1, <3>1, <3>2, <3>3 DEF Obliged
  <2> QED BY <2>4, <2>5, <2>6 DEF Kept
<1> QED BY <1>3, <1>4 DEF Catalogue!Purge

LEMMA ListFacts ==
  ASSUME NEW list \in Catalogue!Lists
  PROVE  /\ Len(list) \in Nat /\ DOMAIN list = 1..Len(list)
         /\ \A i \in 1..Len(list) : list[i] \in Catalogue!Item
         /\ \A i, j \in 1..Len(list) : list[i].slug = list[j].slug => i = j
<1>1. CASE list = <<>>
  BY <1>1
<1>2. ASSUME NEW x \in Catalogue!Item, list = <<x>>
      PROVE  Len(list) = 1 /\ DOMAIN list = 1..1 /\ list[1] = x
  BY <1>2
<1>3. ASSUME NEW x \in Catalogue!Item, NEW y \in Catalogue!Item, x.slug # y.slug, list = <<x, y>>
      PROVE  Len(list) = 2 /\ DOMAIN list = 1..2 /\ list[1] = x /\ list[2] = y
  BY <1>3
<1>4. \/ list = <<>> \/ \E x \in Catalogue!Item : list = <<x>>
      \/ \E x, y \in Catalogue!Item : x.slug # y.slug /\ list = <<x, y>>
  BY DEF Catalogue!Lists
<1> QED BY <1>1, <1>2, <1>3, <1>4

LEMMA SameCardinality ==
  ASSUME NEW S
  PROVE  Catalogue!Cardinality(S) = Cardinality(S)
BY DEF Catalogue!Cardinality, Cardinality

\* The place of a number among those of a set.
Place(S, e) == Catalogue!Cardinality({f \in S : f <= e})

LEMMA Places ==
  ASSUME NEW S \in SUBSET Catalogue!Id
  PROVE  /\ \A e \in S : Place(S, e) \in 1..Cardinality(S)
         /\ \A e, f \in S : Place(S, e) = Place(S, f) => e = f
<1>1. IsFiniteSet(Catalogue!Id) /\ Catalogue!Id \subseteq Nat
  BY CatBounds, FS_Interval DEF Catalogue!Id
<1>2. IsFiniteSet(S) /\ Cardinality(S) \in Nat
  BY <1>1, FS_Subset, FS_CardinalityType
<1> DEFINE U(e) == {f \in S : f <= e}
<1>3. ASSUME NEW e \in S
      PROVE  IsFiniteSet(U(e)) /\ Cardinality(U(e)) \in Nat /\ Cardinality(U(e)) <= Cardinality(S)
  <2>1. U(e) \subseteq S
    OBVIOUS
  <2> QED BY <1>2, <2>1, FS_Subset, FS_CardinalityType
<1>4. ASSUME NEW e \in S PROVE Cardinality(U(e)) # 0
  <2>1. e \in U(e)
    BY <1>1
  <2> QED BY <1>3, <2>1, FS_EmptySet
<1>5. ASSUME NEW e \in S, NEW f \in S, e < f PROVE Cardinality(U(e)) < Cardinality(U(f))
  <2>1. \A g \in S : g \in Nat
    BY <1>1
  <2>2. U(e) \subseteq U(f) /\ f \in U(f) /\ f \notin U(e)
    BY <1>5, <2>1
  <2>3. IsFiniteSet(U(f)) /\ Cardinality(U(e)) \in Nat /\ Cardinality(U(f)) \in Nat
    BY <1>3
  <2> HIDE DEF U
  <2>4. Cardinality(U(e)) <= Cardinality(U(f)) /\ Cardinality(U(e)) # Cardinality(U(f))
    BY <2>2, <2>3, FS_Subset
  <2> QED BY <2>3, <2>4
<1>6. \A e \in S : Place(S, e) = Cardinality(U(e))
  BY SameCardinality DEF Place
<1> HIDE DEF U
<1>7. \A e \in S : Place(S, e) \in 1..Cardinality(S)
  BY <1>2, <1>3, <1>4, <1>6
<1>8. ASSUME NEW e \in S, NEW f \in S, Place(S, e) = Place(S, f) PROVE e = f
  <2>1. e \in Nat /\ f \in Nat
    BY <1>1
  <2> QED BY <1>3, <1>5, <1>6, <1>8, <2>1
<1> QED BY <1>7, <1>8

LEMMA Assigned ==
  ASSUME NEW S \in SUBSET Catalogue!Id, NEW list \in Catalogue!Lists, Cardinality(S) = Len(list)
  PROVE  /\ \A e \in S : Place(S, e) \in DOMAIN list /\ list[Place(S, e)] \in Catalogue!Item
         /\ \A e, f \in S : list[Place(S, e)].slug = list[Place(S, f)].slug => e = f
<1>1. \A e \in S : Place(S, e) \in 1..Len(list)
  BY Places
<1>2. \A e, f \in S : list[Place(S, e)].slug = list[Place(S, f)].slug => Place(S, e) = Place(S, f)
  BY <1>1, ListFacts, SMTT(30)
<1> QED BY <1>1, <1>2, ListFacts, Places

\* The rows a sync makes: those of its list in free places, the ones it saw deleted.
Replaced(S, given, seen, number, old, e) ==
    IF e \in S THEN [Catalogue!NoRow EXCEPT !.row = "live", !.active = TRUE, !.slug = given.slug,
                                            !.visibility = given.visibility, !.sync = number]
    ELSE IF e \in seen /\ old.row = "live" THEN [old EXCEPT !.row = "deleted", !.file = FALSE]
    ELSE old

New(t) == Catalogue!NewIds(Len(work[t].list))
Given(t, e) == work[t].list[Place(New(t), e)]

LEMMA ReplaceIs ==
  ASSUME NEW t \in Request, Catalogue!Replace(t)
  PROVE  \/ /\ Catalogue!Done(t) /\ UNCHANGED row
            /\ Catalogue!Fails \/ (Catalogue!Works /\ Catalogue!Refused(t))
         \/ /\ ~Catalogue!Refused(t) /\ Cardinality(New(t)) = Len(work[t].list)
            /\ Catalogue!Works
            /\ row' = [e \in Catalogue!Id |->
                         Replaced(New(t), Given(t, e), work[t].seen, work[t].number, row[e], e)]
            /\ LET public == {e \in New(t) : Given(t, e).visibility = "public"}
               IN IF public = {} THEN Catalogue!Done(t)
                  ELSE \E e \in public : work' = [work EXCEPT ![t].pc = "ingest", ![t].id = e,
                                                      ![t].todo = public \ {e}, ![t].seen = {}]
<1> DEFINE new == Catalogue!NewIds(Len(work[t].list))
           given(e) == work[t].list[Place(new, e)]
           public == {e \in new : given(e).visibility = "public"}
           made == [e \in Catalogue!Id |->
               IF e \in new
                 THEN [Catalogue!NoRow EXCEPT
                         !.row = "live", !.active = TRUE, !.slug = given(e).slug,
                         !.visibility = given(e).visibility, !.sync = work[t].number]
                 ELSE IF e \in work[t].seen /\ Catalogue!Live(e)
                        THEN [row[e] EXCEPT !.row = "deleted", !.file = FALSE]
                        ELSE row[e]]
           onward == IF public = {} THEN Catalogue!Done(t)
                     ELSE \E e \in public : work' = [work EXCEPT ![t].pc = "ingest", ![t].id = e,
                                                         ![t].todo = public \ {e}, ![t].seen = {}]
<1>1. \/ /\ ~Catalogue!Refused(t) /\ Catalogue!Cardinality(new) = Len(work[t].list)
         /\ row' = made /\ onward /\ Catalogue!Works
      \/ Catalogue!Refused(t) /\ Catalogue!Done(t) /\ Catalogue!Works /\ UNCHANGED row
      \/ Catalogue!Done(t) /\ Catalogue!Fails /\ UNCHANGED row
  BY Zenon DEF Catalogue!Replace, Place
<1>2. made = [e \in Catalogue!Id |->
               Replaced(new, given(e), work[t].seen, work[t].number, row[e], e)]
  BY DEF Replaced, Catalogue!Live
<1> HIDE DEF made
<1> QED BY <1>1, <1>2, SameCardinality, ZenonT(40) DEF New, Given

LEMMA ReplaceKeeps ==
  ASSUME Control, Catalogue!Watch, NEW t \in Request, Catalogue!Replace(t)
  PROVE  Kept(t)
<1>1. /\ work[t].pc = "replace" /\ work[t].op = "sync" /\ work[t] \in Catalogue!Handler
      /\ work[t].list \in Catalogue!Lists /\ work[t].number \in 0..MaxHandled
      /\ work[t].number # 0
      /\ index' = index /\ handled' = handled
      /\ \A f \in Catalogue!Id : Catalogue!About(work[t], f)
  BY Begins, Zenon DEF Catalogue!Replace, Known, Catalogue!Handler, Catalogue!About
<1>2. handled' \in 0..MaxHandled /\ Shape
  BY <1>1, Begins DEF Shape
<1>3. CASE /\ Catalogue!Done(t) /\ UNCHANGED row
           /\ Catalogue!Fails \/ (Catalogue!Works /\ Catalogue!Refused(t))
  <2>1. Becomes(t, Catalogue!Idle) /\ Catalogue!Idle # work[t] /\ failures' \in 0..Failing
    BY <1>1, <1>3, Ended, FailTyped DEF Catalogue!Idle
  <2>2. Shape' /\ Only(t) /\ work'[t] = Catalogue!Idle
    BY <1>1, <1>2, <1>3, <2>1, Quiet
  <2>3. Catalogue!Id \subseteq disturbed'
    BY <1>1, <1>3, <2>1, <2>2, SyncFailed
  <2> QED BY <2>2, <2>3, KnownAtEnd DEF Kept
<1> DEFINE new == New(t)
           given(e) == Given(t, e)
           public == {e \in new : given(e).visibility = "public"}
<1>4. ASSUME ~Catalogue!Refused(t), Cardinality(new) = Len(work[t].list), Catalogue!Works,
             row' = [e \in Catalogue!Id |->
                       Replaced(new, given(e), work[t].seen, work[t].number, row[e], e)],
             IF public = {} THEN Catalogue!Done(t)
             ELSE \E e \in public : work' = [work EXCEPT ![t].pc = "ingest", ![t].id = e,
                                                 ![t].todo = public \ {e}, ![t].seen = {}]
      PROVE  Kept(t)
  <2>1. new \subseteq Catalogue!Id /\ \A e \in new : row[e].row = "free"
    BY DEF New, Catalogue!NewIds
  <2>0. \A e \in new : given(e) = work[t].list[Place(new, e)]
    BY DEF Given
  <2> HIDE DEF new, given
  <2>2. /\ \A e \in new : /\ given(e) \in Catalogue!Item
                          /\ Place(new, e) \in DOMAIN work[t].list
        /\ \A e, f \in new : given(e).slug = given(f).slug => e = f
    <3> DEFINE list == work[t].list
    <3>1. list \in Catalogue!Lists /\ Cardinality(new) = Len(list)
      BY <1>1, <1>4, Zenon
    <3>2. \A e \in new : given(e) = list[Place(new, e)]
      BY <2>0
    <3> HIDE DEF list
    <3>3. /\ \A e \in new : Place(new, e) \in DOMAIN list /\ list[Place(new, e)] \in Catalogue!Item
          /\ \A e, f \in new : list[Place(new, e)].slug = list[Place(new, f)].slug => e = f
      BY <2>1, <3>1, Assigned
    <3> QED BY <3>2, <3>3 DEF list
  <2>3. /\ registered
        /\ \A e \in new : \A f \in Catalogue!LiveIds \ work[t].seen : row[f].slug # given(e).slug
    BY <1>4, <2>0, <2>2, Zenon DEF Catalogue!Refused
  <2>4. \A e \in new : given(e).slug \in Slug /\ given(e).visibility \in Catalogue!Visibility
    BY <2>2 DEF Catalogue!Item
  <2>5. ASSUME NEW e \in new
        PROVE  /\ row'[e] \in Catalogue!Row /\ row'[e].row = "live"
               /\ row'[e].slug = given(e).slug /\ row'[e].visibility = given(e).visibility
               /\ row'[e].file = FALSE
    <3> DEFINE x == [Catalogue!NoRow EXCEPT
                       !.row = "live", !.active = TRUE, !.slug = given(e).slug,
                       !.visibility = given(e).visibility, !.sync = work[t].number]
    <3>1. x \in Catalogue!Row
      BY <1>1, <2>4, RowTyped DEF Catalogue!Row
    <3>2. /\ x.row = "live" /\ x.slug = given(e).slug /\ x.visibility = given(e).visibility
          /\ x.file = FALSE
      BY DEF Catalogue!NoRow
    <3>3. row'[e] = x
      BY <1>4, <2>1, Zenon DEF Replaced
    <3> QED BY <3>1, <3>2, <3>3
  <2>6. ASSUME NEW e \in Catalogue!Id \ new
        PROVE  /\ row'[e] \in Catalogue!Row /\ row'[e].slug = row[e].slug
               /\ row'[e].visibility = row[e].visibility
               /\ row'[e].row = "live" <=> row[e].row = "live" /\ e \notin work[t].seen
               /\ row'[e].row = "free" <=> row[e].row = "free"
               /\ row'[e].row = "gone" <=> row[e].row = "gone"
               /\ row'[e].file => row[e].file
               /\ row'[e].row # row[e].row => ~row'[e].file
    <3> DEFINE x == [row[e] EXCEPT !.row = "deleted", !.file = FALSE]
    <3>1. row[e] \in Catalogue!Row
      BY Begins
    <3>2. /\ x \in Catalogue!Row /\ x.slug = row[e].slug /\ x.visibility = row[e].visibility
          /\ x.row = "deleted" /\ x.file = FALSE
      BY <3>1 DEF Catalogue!Row
    <3>3. row'[e] = IF e \in work[t].seen /\ row[e].row = "live" THEN x ELSE row[e]
      BY <1>4, Zenon DEF Replaced
    <3> HIDE DEF x
    <3> QED BY <3>1, <3>2, <3>3
  <2>7. PICK q : /\ Becomes(t, q)
                 /\ \/ q = Catalogue!Idle /\ public = {}
                    \/ /\ q.pc = "ingest" /\ q.op = "sync" /\ q.id \in public
                       /\ q.todo = public \ {q.id} /\ q.number = work[t].number
    <3>1. CASE public = {}
      BY <1>4, <3>1, Ended
    <3>2. CASE public # {}
      <4>1. PICK e \in public : work' = [work EXCEPT ![t].pc = "ingest", ![t].id = e,
                                             ![t].todo = public \ {e}, ![t].seen = {}]
        BY <1>4, <3>2, Zenon
      <4>2. e \in 0..MaxId /\ public \ {e} \in SUBSET Catalogue!Id /\ {} \in SUBSET Catalogue!Id
        <5>1. public \subseteq Catalogue!Id /\ e \in Catalogue!Id
          BY <2>1
        <5> HIDE DEF public
        <5> QED BY <5>1, CatBounds DEF Catalogue!Id
      <4>3. e \in public
        BY <4>1, Zenon
      <4> HIDE DEF public
      <4> DEFINE q == [work[t] EXCEPT !.pc = "ingest", !.id = e, !.todo = public \ {e}, !.seen = {}]
      <4>4. work' = [work EXCEPT ![t] = q]
        BY <4>1, Begins DEF Shape
      <4>5. /\ q \in Catalogue!Handler /\ q.pc = "ingest" /\ q.op = "sync" /\ q.id = e
            /\ q.todo = public \ {e} /\ q.number = work[t].number
        BY <1>1, <4>2 DEF Catalogue!Handler
      <4> HIDE DEF q
      <4> QED BY <4>3, <4>4, <4>5 DEF Becomes
    <3> QED BY <3>1, <3>2
  <2>8. \A e \in public : e \in new /\ e \in Catalogue!Id /\ e # 0 /\ given(e).visibility = "public"
    BY <2>1, Begins
  <2>9. \A e \in new \ public : given(e).visibility # "public"
    OBVIOUS
  <2> HIDE DEF public
  <2>10. Only(t) /\ work'[t] = q /\ work' \in [Request -> Catalogue!Handler]
    BY <1>2, <2>3, <2>5, <2>6, <2>7 DEF Only, Becomes, Shape
  <2>11. row' \in [Catalogue!Id -> Catalogue!Row]
    BY <1>4, <2>5, <2>6, Zenon
  <2>12. \A e, f \in Catalogue!LiveIds' : /\ row'[e].slug \in Slug
                                          /\ row'[e].slug = row'[f].slug => e = f
    <3>1. ASSUME NEW e \in Catalogue!Id, row'[e].row = "live"
          PROVE  \/ e \in new /\ row'[e].slug = given(e).slug
                 \/ /\ e \in Catalogue!LiveIds \ work[t].seen
                    /\ e \notin new /\ row'[e].slug = row[e].slug
      BY <2>5, <2>6, <3>1 DEF Catalogue!LiveIds, Catalogue!Live
    <3>2. \A e \in Catalogue!LiveIds' : e \in Catalogue!Id /\ row'[e].row = "live"
      BY DEF Catalogue!LiveIds, Catalogue!Live
    <3> QED BY <1>2, <2>2, <2>3, <2>4, <3>1, <3>2 DEF Shape
  <2>13. Shape'
    <3>1. failures' \in 0..Failing
      BY <1>4, FailTyped, Zenon
    <3>2. index' \subseteq {e \in Catalogue!Id : row'[e].row # "free"}
      BY <1>1, <1>2, <2>5, <2>6 DEF Shape
    <3> QED BY <1>2, <2>10, <2>11, <2>12, <3>1, <3>2 DEF Shape
  <2>14. Known(work[t])'
    <3>1. \A e \in public : row'[e].row # "free"
      BY <2>5, <2>8
    <3> QED BY <1>1, <2>7, <2>8, <2>10, <3>1, KnownAtEnd DEF Known
  <2>15. ASSUME NEW f \in Catalogue!Id PROVE Obliged(t, f)
    <3>1. CASE f \in new
      <4>1. f \notin index'
        BY <1>1, <1>2, <2>1, <3>1 DEF Shape
      <4>2. f \notin public => Mirror(f)'
        BY <2>5, <2>9, <3>1, <4>1 DEF Mirror, Catalogue!Ingestible, Catalogue!Live
      <4>3. /\ f \in public => Catalogue!Ingestible(f)' /\ ~row'[f].file
            /\ row'[f].row # "gone"
        BY <2>5, <2>8, <3>1 DEF Catalogue!Ingestible, Catalogue!Live
      <4>4. CASE q = Catalogue!Idle /\ public = {}
        BY <2>1, <2>10, <3>1, <4>2, <4>4 DEF Obliged, Catalogue!About, Catalogue!Idle
      <4>5. CASE /\ q.pc = "ingest" /\ q.op = "sync" /\ q.id \in public
                 /\ q.todo = public \ {q.id}
        <5>1. Stage(work[t], f)'
          BY <2>10, <4>1, <4>2, <4>3, <4>5 DEF Stage, Syncing
        <5>2. Catalogue!About(work'[t], f)
          BY <2>10, <4>5 DEF Catalogue!About
        <5> QED BY <2>1, <3>1, <5>1, <5>2 DEF Obliged
      <4> QED BY <2>7, <4>4, <4>5
    <3>2. CASE f \notin new /\ row[f].row = "free"
      BY <2>6, <3>2 DEF Obliged
    <3>3. CASE f \notin new /\ row[f].row # "free"
      <4>1. Stage(work[t], f) => Mirror(f)'
        BY <1>1, <2>6, <3>3 DEF Stage, Syncing, Mirror, Catalogue!Ingestible, Catalogue!Live
      <4>2. CASE q = Catalogue!Idle
        BY <1>1, <2>10, <3>3, <4>1, <4>2 DEF Obliged, Catalogue!About, Catalogue!Idle
      <4>3. CASE /\ q.pc = "ingest" /\ q.op = "sync" /\ q.id \in public
                 /\ q.todo = public \ {q.id}
        <5>3. f \notin q.todo /\ f # q.id
          BY <2>8, <3>3, <4>3
        <5>4. Stage(work[t], f) => row'[f].row # "gone"
          BY <1>1, <2>10 DEF Stage, Syncing, Only
        <5>1. Stage(work[t], f) => Stage(work[t], f)'
          BY <2>10, <4>1, <4>3, <5>3, <5>4 DEF Stage, Syncing
        <5>2. Catalogue!About(work'[t], f)
          BY <2>10, <4>3 DEF Catalogue!About
        <5> QED BY <1>1, <3>3, <5>1, <5>2 DEF Obliged
      <4> QED BY <2>7, <4>2, <4>3
    <3> QED BY <3>1, <3>2, <3>3
  <2> QED BY <2>10, <2>13, <2>14, <2>15 DEF Kept
<1>5. \/ /\ Catalogue!Done(t) /\ UNCHANGED row
         /\ Catalogue!Fails \/ (Catalogue!Works /\ Catalogue!Refused(t))
      \/ /\ ~Catalogue!Refused(t) /\ Cardinality(new) = Len(work[t].list)
         /\ Catalogue!Works
         /\ row' = [e \in Catalogue!Id |->
                      Replaced(new, given(e), work[t].seen, work[t].number, row[e], e)]
         /\ IF public = {} THEN Catalogue!Done(t)
            ELSE \E e \in public : work' = [work EXCEPT ![t].pc = "ingest", ![t].id = e,
                                                ![t].todo = public \ {e}, ![t].seen = {}]
  BY ReplaceIs, Zenon DEF New, Given
<1> HIDE DEF new, given, public
<1> QED BY <1>3, <1>4, <1>5, ZenonT(40)

\* Only is_active changes, and no request.
LEMMA ActiveKeeps ==
  ASSUME CatIInv, NEW e \in Catalogue!Id, Catalogue!SetActive(e), Catalogue!Watch,
         UNCHANGED registered
  PROVE  CatIInv'
<1>1. Control /\ Followed
  BY DEF CatIInv
<1> DEFINE x == [row[e] EXCEPT !.active = ~row[e].active]
<1>2. /\ Catalogue!TypeOK /\ index' = index /\ work' = work /\ row[e] \in Catalogue!Row
      /\ handled' \in 0..MaxHandled /\ failures' \in 0..Failing
  BY <1>1, FailTyped, CatBounds DEF Control, Catalogue!TypeOK, Catalogue!SetActive
<1>3. /\ x \in Catalogue!Row /\ x.row = row[e].row /\ x.slug = row[e].slug
      /\ x.visibility = row[e].visibility /\ x.file = row[e].file
  BY <1>2 DEF Catalogue!Row
<1>4. row' = [row EXCEPT ![e] = x]
  BY <1>2 DEF Catalogue!SetActive, Catalogue!TypeOK
<1> HIDE DEF x
<1>5. /\ row' \in [Catalogue!Id -> Catalogue!Row]
      /\ \A f \in Catalogue!Id : /\ row'[f].row = row[f].row /\ row'[f].slug = row[f].slug
                                 /\ row'[f].visibility = row[f].visibility
                                 /\ row'[f].file = row[f].file
  BY <1>2, <1>3, <1>4 DEF Catalogue!TypeOK
<1>6. \A t \in Request : Known(work[t])'
  <2> SUFFICES ASSUME NEW t \in Request PROVE Known(work[t])'
    OBVIOUS
  <2>1. Known(work[t]) /\ work'[t] = work[t] /\ work[t].todo \subseteq Catalogue!Id
        /\ (work[t].id # 0 => work[t].id \in Catalogue!Id)
    BY <1>1, <1>2, Begins DEF Control, Catalogue!Handler
  <2> QED BY <1>5, <2>1 DEF Known
<1>7. Shape'
  BY <1>2, <1>5 DEF Shape, Catalogue!TypeOK, Catalogue!LiveIds, Catalogue!Live
<1>10. registered' = registered /\ registered \in BOOLEAN
  BY <1>2 DEF Catalogue!TypeOK
<1>8. Control'
  <2>1. Standing'
    BY <1>1, <1>5, <1>10 DEF Control, Standing
  <2> QED BY <1>2, <1>6, <1>7, <1>10, <2>1, WatchTyped DEF Control
<1>9. Followed'
  <2> SUFFICES ASSUME NEW f \in Catalogue!Id, f \notin disturbed', row'[f].row # "free"
               PROVE  FollowedAt(f)'
    BY DEF Followed
  <2>1. FollowedAt(f)
    <3>1. f \notin disturbed
      BY <1>2 DEF Catalogue!Watch, Catalogue!Written
    <3> QED BY <1>1, <1>5, <3>1 DEF Followed
  <2>2. \A t \in Request : Catalogue!About(work'[t], f) <=> Catalogue!About(work[t], f)
    BY <1>2
  <2>3. Catalogue!Live(f)' <=> Catalogue!Live(f)
    BY <1>5 DEF Catalogue!Live
  <2>4. Catalogue!Ingestible(f)' <=> Catalogue!Ingestible(f)
    BY <1>5, <2>3 DEF Catalogue!Ingestible
  <2>5. Mirror(f)' <=> Mirror(f)
    BY <1>2, <1>5, <2>4 DEF Mirror
  <2>6. \A t \in Request : Stage(work[t], f) => Stage(work[t], f)'
    BY <1>2, <1>5, <2>3, <2>4, <2>5 DEF Stage, Writing, Syncing
  <2> QED BY <2>1, <2>2, <2>5, <2>6 DEF FollowedAt
<1> QED BY <1>8, <1>9 DEF CatIInv

\* The endpoints go with their account, and their documents stay.
LEMMA UserKeeps ==
  ASSUME CatIInv, Catalogue!DeleteUser, Catalogue!Watch
  PROVE  CatIInv'
<1>1. Control /\ Followed
  BY DEF CatIInv
<1>2. /\ Catalogue!TypeOK /\ index' = index /\ work' = work
      /\ registered /\ registered' = FALSE
      /\ handled' \in 0..MaxHandled /\ failures' \in 0..Failing
  <2>1. Catalogue!TypeOK /\ Catalogue!Works /\ index' = index /\ work' = work
    BY <1>1 DEF Control, Catalogue!DeleteUser
  <2>2. handled' \in 0..MaxHandled
    <3>1. handled < MaxHandled /\ handled' = handled + 1
      BY DEF Catalogue!DeleteUser
    <3>2. handled \in 0..MaxHandled
      BY <2>1 DEF Catalogue!TypeOK
    <3> QED BY <3>1, <3>2, CatBounds
  <2>3. registered /\ registered' = FALSE
    BY DEF Catalogue!DeleteUser
  <2> QED BY <1>1, <2>1, <2>2, <2>3, FailTyped
<1>3. ASSUME NEW f \in Catalogue!Id
      PROVE  /\ row'[f] \in Catalogue!Row /\ row'[f].visibility = row[f].visibility
             /\ IF row[f].row = "live" THEN row'[f].row = "gone" ELSE row'[f] = row[f]
             /\ row[f].row # "gone"
  <2> DEFINE x == [row[f] EXCEPT !.row = "gone", !.file = FALSE]
  <2>1. row[f] \in Catalogue!Row /\ row[f].row # "gone"
    BY <1>1, <1>2, Begins DEF Control, Standing, Catalogue!TypeOK
  <2>2. x \in Catalogue!Row /\ x.row = "gone" /\ x.visibility = row[f].visibility
    BY <2>1 DEF Catalogue!Row
  <2>3. row'[f] = IF row[f].row = "live" THEN x ELSE row[f]
    BY DEF Catalogue!DeleteUser, Catalogue!Live
  <2> HIDE DEF x
  <2> QED BY <2>1, <2>2, <2>3
<1>4. row' \in [Catalogue!Id -> Catalogue!Row]
  <2>1. \E g : row' = [f \in Catalogue!Id |-> g[f]]
    <3> DEFINE g == [f \in Catalogue!Id |-> IF Catalogue!Live(f)
                       THEN [row[f] EXCEPT !.row = "gone", !.file = FALSE] ELSE row[f]]
    <3>1. row' = g /\ g = [f \in Catalogue!Id |-> g[f]]
      BY DEF Catalogue!DeleteUser
    <3> QED BY <3>1
  <2> QED BY <1>3, <2>1
<1>5. \A t \in Request : Known(work[t])'
  <2> SUFFICES ASSUME NEW t \in Request PROVE Known(work[t])'
    OBVIOUS
  <2>1. Known(work[t]) /\ work'[t] = work[t] /\ work[t].todo \subseteq Catalogue!Id
        /\ (work[t].id # 0 => work[t].id \in Catalogue!Id)
    BY <1>1, <1>2, Begins DEF Control, Catalogue!Handler
  <2>2. \A f \in Catalogue!Id : row[f].row # "free" => row'[f].row # "free"
    BY <1>3
  <2> QED BY <2>1, <2>2 DEF Known
<1>6. \A f \in Catalogue!Id : row'[f].row # "live"
  BY <1>3
<1>7. Shape'
  <2>1. index' \subseteq {f \in Catalogue!Id : row'[f].row # "free"}
    BY <1>2, <1>3 DEF Catalogue!TypeOK
  <2> QED BY <1>2, <1>4, <1>6, <2>1
          DEF Shape, Catalogue!TypeOK, Catalogue!LiveIds, Catalogue!Live
<1>8. Standing'
  BY <1>2, <1>6 DEF Standing
<1>9. Control'
  BY <1>2, <1>5, <1>7, <1>8, WatchTyped DEF Control
<1>10. Followed'
  <2> SUFFICES ASSUME NEW f \in Catalogue!Id, f \notin disturbed', row'[f].row # "free"
               PROVE  FollowedAt(f)'
    BY DEF Followed
  <2>1. f \notin disturbed /\ \A t \in Request : ~Catalogue!About(work[t], f)
    BY <1>2 DEF Catalogue!Watch, Catalogue!Written, Catalogue!Loses
  <2>2. row[f].row # "free"
    BY <1>3
  <2>3. Mirror(f)
    BY <1>1, <2>1, <2>2 DEF Followed, FollowedAt
  <2>4. Mirror(f)'
    BY <1>2, <1>3, <2>3 DEF Mirror, Catalogue!Ingestible, Catalogue!Live
  <2> QED BY <1>2, <2>1, <2>4 DEF FollowedAt
<1> QED BY <1>9, <1>10 DEF CatIInv

\* Only an update writes an endpoint that is there, and indexes it then.
LEMMA WriteRewrites ==
  ASSUME Control, NEW t \in Request, Catalogue!WriteEndpoint(t)
  PROVE  Rewritten(t)
<1> SUFFICES ASSUME NEW e \in Catalogue!Id, Catalogue!Written(t, e)
             PROVE  Catalogue!About(work'[t], e) /\ Stage(work[t], e)'
  BY DEF Rewritten
<1> DEFINE v == IF work[t].to = "same" THEN row[e].visibility ELSE work[t].to
<1>1. /\ work[t].id = e /\ work'[t].pc = "ingest" /\ work[t].op = "update"
      /\ work \in [Request -> Catalogue!Handler] /\ row[e] \in Catalogue!Row
      /\ row \in [Catalogue!Id -> Catalogue!Row]
  BY Begins DEF Catalogue!Written, Known, Shape
<1>2. ~Catalogue!Done(t)
  BY <1>1 DEF Catalogue!Done, Catalogue!Idle
<1>3. /\ Catalogue!Live(e) /\ row' = [row EXCEPT ![e].visibility = v]
      /\ Catalogue!Goto(t, Catalogue!FollowUp(work[t].from, v))
  BY <1>1, <1>2 DEF Catalogue!WriteEndpoint
<1> HIDE DEF v
<1>4. /\ work'[t].pc = Catalogue!FollowUp(work[t].from, v)
      /\ work'[t].op = "update" /\ work'[t].id = e
  BY <1>1, <1>3 DEF Catalogue!Goto, Catalogue!Handler
<1>5. v = "public"
  BY <1>1, <1>4 DEF Catalogue!FollowUp
<1>6. row'[e].row = "live" /\ row'[e].visibility = "public"
  BY <1>1, <1>3, <1>5 DEF Catalogue!Live, Catalogue!Row
<1> QED BY <1>1, <1>4, <1>6
        DEF Catalogue!About, Stage, Writing, Catalogue!Ingestible, Catalogue!Live

\* The other steps write nothing.
LEMMA NothingWritten ==
  ASSUME NEW t \in Request, work[t].pc # "write"
  PROVE  Rewritten(t)
BY DEF Rewritten, Catalogue!Written

LEMMA CatStep == CatIInv /\ [Catalogue!Next]_(Catalogue!vars) => CatIInv'
<1> SUFFICES ASSUME CatIInv, [Catalogue!Next]_(Catalogue!vars) PROVE CatIInv'
  OBVIOUS
<1>1. Control
  BY DEF CatIInv
<1>2. CASE UNCHANGED Catalogue!vars
  <2>1. UNCHANGED <<registered, row, index, work, handled, failures, disturbed, overlapped>>
    BY <1>2 DEF Catalogue!vars
  <2> QED BY <2>1 DEF CatIInv, Control, Standing, Followed, FollowedAt, Known, Stage, Writing,
       Syncing, Mirror, Catalogue!TypeOK, Catalogue!LiveIds, Catalogue!Live,
       Catalogue!Ingestible, Catalogue!About
<1>3. ASSUME Catalogue!Watch, UNCHANGED registered, NEW t \in Request,
             \/ \E s \in Slug, v \in Catalogue!Visibility : Catalogue!CreateEndpoint(t, s, v)
             \/ \E e \in Catalogue!Id : Catalogue!DeleteEndpoint(t, e)
             \/ \E e \in Catalogue!Id, v \in Catalogue!Visibility \cup {"same"} :
                  Catalogue!UpdateEndpoint(t, e, v)
             \/ \E list \in Catalogue!Lists : Catalogue!SyncUserEndpoints(t, list)
      PROVE  CatIInv'
  <2>1. work[t].pc = "idle"
    BY <1>3 DEF Catalogue!CreateEndpoint, Catalogue!DeleteEndpoint, Catalogue!UpdateEndpoint,
                Catalogue!SyncUserEndpoints, Catalogue!Start
  <2>2. Kept(t)
    BY <1>1, <1>3, CreateKeeps, DeleteKeeps, UpdateKeeps, SyncKeeps
  <2> QED BY <1>3, <2>1, <2>2, NothingWritten, KeptSuffices
<1>4. ASSUME Catalogue!Watch, UNCHANGED registered, NEW t \in Request,
             \/ Catalogue!InsertEndpoint(t)
             \/ Catalogue!DeleteRow(t) \/ Catalogue!GetRagFileId(t)
             \/ Catalogue!RemoveDocument(t) \/ Catalogue!ClearRagFileId(t)
             \/ Catalogue!GetEndpointModel(t) \/ Catalogue!AddDocument(t)
             \/ Catalogue!NoteRagFileId(t) \/ Catalogue!Purge(t) \/ Catalogue!Replace(t)
      PROVE  CatIInv'
  <2>1. work[t].pc # "write"
    BY <1>4, Zenon DEF Catalogue!InsertEndpoint, Catalogue!DeleteRow, Catalogue!GetRagFileId,
       Catalogue!RemoveDocument, Catalogue!ClearRagFileId, Catalogue!GetEndpointModel,
       Catalogue!AddDocument, Catalogue!NoteRagFileId, Catalogue!Purge, Catalogue!Replace
  <2>2. Kept(t)
    BY <1>1, <1>4, InsertKeeps, DeleteRowKeeps, LookupKeeps, RemoveKeeps, ClearKeeps,
       ModelReadKeeps, AddKeeps, NoteKeeps, PurgeKeeps, ReplaceKeeps
  <2> QED BY <1>4, <2>1, <2>2, NothingWritten, KeptSuffices
<1>5. ASSUME Catalogue!Watch, UNCHANGED registered, NEW t \in Request,
             Catalogue!WriteEndpoint(t)
      PROVE  CatIInv'
  BY <1>1, <1>5, WriteKeeps, WriteRewrites, KeptSuffices
<1> QED BY <1>2, <1>3, <1>4, <1>5, ActiveKeeps, UserKeeps
        DEF Catalogue!Next, Catalogue!Step, Catalogue!Handling
LEMMA CatInvariant == Catalogue!Spec => []CatIInv
BY CatFirst, CatStep, PTL DEF Catalogue!Spec

(* Every reachable state of the catalogue has its type; in particular no   *)
(* slug is taken twice, whatever requests create and sync at one time.     *)
THEOREM CatalogueTypeCorrect == Catalogue!Spec => []Catalogue!TypeOK
<1>1. CatIInv => Catalogue!TypeOK
  BY DEF CatIInv, Control
<1> QED BY <1>1, CatInvariant, PTL

(* An endpoint that no request is about has a document exactly when it is  *)
(* there and public, or went with its account when it was, unless an       *)
(* overlap or a failed call has left it in doubt since it was last written *)
(* as public: for any number of requests, endpoints and slugs              *)
(* (endpoint_service.py:631-737, 1170-1215; users.py:248-264).             *)
THEOREM IndexIsMirrored == Catalogue!Spec => []IndexMirrors
<1>1. ASSUME CatIInv PROVE IndexMirrors
  <2> SUFFICES ASSUME NEW e \in Catalogue!Id \ disturbed,
                      \A t \in Request : ~Catalogue!About(work[t], e)
               PROVE  e \in index <=> /\ row[e].row \in {"live", "gone"}
                                      /\ row[e].visibility = "public"
    BY DEF IndexMirrors, Catalogue!IndexMirrors
  <2>1. CASE row[e].row = "free"
    BY <1>1, <2>1 DEF CatIInv, Control, Catalogue!TypeOK, Catalogue!Live
  <2>2. CASE row[e].row # "free"
    <3>1. Mirror(e)
      BY <1>1, <2>2 DEF CatIInv, Followed, FollowedAt
    <3> QED BY <3>1 DEF Mirror, Catalogue!Ingestible, Catalogue!Live
  <2> QED BY <2>1, <2>2
<1> QED BY <1>1, CatInvariant, PTL

-----------------------------------------------------------------------------
\* Two syncs that run are known to; and what a sync did not see when it was
\* about to replace the endpoints was made by one that ran beside it.
SyncsKnown ==
    \A t, u \in Request : t # u /\ work[t].op = "sync" /\ work[u].op = "sync"
        => work[t].number \in overlapped

Unseen(r) ==
    \A e \in Catalogue!LiveIds \ r.seen :
        row[e].sync # 0 => {row[e].sync, r.number} \subseteq overlapped

SyncsApart ==
    /\ OneSyncRemains /\ SyncsKnown
    /\ \A t \in Request : work[t].pc = "replace" => Unseen(work[t])

\* The endpoints that a sync made are the ones that were there.
Carried ==
    \A e \in Catalogue!Id :
        row'[e].row = "live" /\ row'[e].sync # 0
            => row[e].row = "live" /\ row'[e].sync = row[e].sync

\* Whoever is about to replace was already, or has just seen all there are.
Noticed ==
    \A t \in Request : work'[t].pc = "replace"
        => work'[t] = work[t] \/ Catalogue!LiveIds' \subseteq work'[t].seen

LEMMA CarriedOn ==
  ASSUME Control, Control', SyncsApart, Catalogue!Watch, Carried, Noticed
  PROVE  SyncsApart'
<1>1. overlapped \subseteq overlapped'
  BY DEF Catalogue!Watch
<1>2. SyncsKnown'
  BY DEF SyncsKnown, Catalogue!Watch
<1>3. \A e \in Catalogue!LiveIds' : row'[e].sync # 0
        => e \in Catalogue!LiveIds /\ row'[e].sync = row[e].sync
  BY DEF Carried, Catalogue!LiveIds, Catalogue!Live
<1>4. OneSyncRemains'
  BY <1>1, <1>3 DEF SyncsApart, OneSyncRemains, Catalogue!OneSyncRemains
<1>5. ASSUME NEW t \in Request, work'[t].pc = "replace" PROVE Unseen(work[t])'
  BY <1>1, <1>3, <1>5 DEF SyncsApart, Unseen, Noticed
<1> QED BY <1>2, <1>4, <1>5 DEF SyncsApart

LEMMA RowsCarried ==
  ASSUME Control, NEW t \in Request,
         \/ \E s \in Slug, v \in Catalogue!Visibility : Catalogue!CreateEndpoint(t, s, v)
         \/ \E e \in Catalogue!Id :
              \/ Catalogue!DeleteEndpoint(t, e)
              \/ \E v \in Catalogue!Visibility \cup {"same"} : Catalogue!UpdateEndpoint(t, e, v)
         \/ \E list \in Catalogue!Lists : Catalogue!SyncUserEndpoints(t, list)
         \/ Catalogue!InsertEndpoint(t) \/ Catalogue!WriteEndpoint(t)
         \/ Catalogue!DeleteRow(t) \/ Catalogue!GetRagFileId(t)
         \/ Catalogue!RemoveDocument(t) \/ Catalogue!ClearRagFileId(t)
         \/ Catalogue!GetEndpointModel(t) \/ Catalogue!AddDocument(t)
         \/ Catalogue!NoteRagFileId(t) \/ Catalogue!Purge(t)
  PROVE  Carried
<1>1. row \in [Catalogue!Id -> Catalogue!Row]
  BY Begins DEF Shape
<1>2. CASE UNCHANGED row
  BY <1>2 DEF Carried
<1>3. ASSUME NEW e, NEW x, row' = [row EXCEPT ![e] = x],
             x.sync = 0 \/ (x.sync = row[e].sync /\ (x.row = "live" => row[e].row = "live"))
      PROVE  Carried
  BY <1>1, <1>3 DEF Carried
<1>4. \A f \in Catalogue!Id : row[f] \in Catalogue!Row
  BY <1>1
<1>5. CASE Catalogue!InsertEndpoint(t)
  <2>1. CASE UNCHANGED row
    BY <1>2, <2>1
  <2>2. CASE ~UNCHANGED row
    <3>1. PICK e \in Catalogue!NewIds(1) :
            row' = [row EXCEPT ![e] = [Catalogue!NoRow EXCEPT
                        !.row = "live", !.slug = work[t].slug, !.active = TRUE,
                        !.visibility = work[t].to]]
      BY <1>5, <2>2 DEF Catalogue!InsertEndpoint
    <3> DEFINE x == [Catalogue!NoRow EXCEPT !.row = "live", !.slug = work[t].slug,
                                            !.active = TRUE, !.visibility = work[t].to]
    <3>2. x.sync = 0
      BY DEF Catalogue!NoRow
    <3> QED BY <1>3, <3>1, <3>2
  <2> QED BY <2>1, <2>2
<1>6. CASE Catalogue!WriteEndpoint(t)
  <2> SUFFICES ASSUME ~UNCHANGED row PROVE Carried
    BY <1>2
  <2> DEFINE e == work[t].id
             v == IF work[t].to = "same" THEN row[e].visibility ELSE work[t].to
  <2>1. Catalogue!Live(e) /\ row' = [row EXCEPT ![e].visibility = v]
    BY <1>6 DEF Catalogue!WriteEndpoint
  <2> HIDE DEF v, e
  <2> QED BY <1>1, <2>1 DEF Carried, Catalogue!Row
<1>7. CASE Catalogue!DeleteRow(t)
  <2> SUFFICES ASSUME ~UNCHANGED row PROVE Carried
    BY <1>2
  <2>1. PICK e : Catalogue!Live(e) /\
          row' = [row EXCEPT ![e] = [row[e] EXCEPT !.row = "deleted", !.file = FALSE]]
    <3>1. /\ Catalogue!Live(work[t].id)
          /\ row' = [row EXCEPT ![work[t].id] = [@ EXCEPT !.row = "deleted", !.file = FALSE]]
      BY <1>7 DEF Catalogue!DeleteRow
    <3> QED BY <1>1, <3>1, Zenon
  <2> QED BY <1>1, <2>1 DEF Carried, Catalogue!Row
<1>8. CASE Catalogue!ClearRagFileId(t)
  <2> SUFFICES ASSUME ~UNCHANGED row PROVE Carried
    BY <1>2
  <2>1. row' = [row EXCEPT ![work[t].id].file = FALSE]
    BY <1>8 DEF Catalogue!ClearRagFileId
  <2> QED BY <1>1, <2>1 DEF Carried, Catalogue!Row
<1>9. CASE Catalogue!NoteRagFileId(t)
  <2> SUFFICES ASSUME ~UNCHANGED row PROVE Carried
    BY <1>2
  <2>1. row' = [row EXCEPT ![work[t].id].file = Catalogue!Live(work[t].id)]
    BY <1>9 DEF Catalogue!NoteRagFileId
  <2> QED BY <1>1, <2>1 DEF Carried, Catalogue!Row
<1>10. CASE ~(\/ Catalogue!InsertEndpoint(t) \/ Catalogue!WriteEndpoint(t)
              \/ Catalogue!DeleteRow(t) \/ Catalogue!ClearRagFileId(t)
              \/ Catalogue!NoteRagFileId(t))
  <2>1. UNCHANGED row
    BY <1>10, Zenon DEF Catalogue!CreateEndpoint, Catalogue!UpdateEndpoint,
                        Catalogue!DeleteEndpoint,
       Catalogue!SyncUserEndpoints, Catalogue!GetRagFileId, Catalogue!RemoveDocument,
       Catalogue!GetEndpointModel, Catalogue!AddDocument, Catalogue!Purge
  <2> QED BY <1>2, <2>1, SMTT(30)
<1> QED BY <1>5, <1>6, <1>7, <1>8, <1>9, <1>10

LEMMA ReplaceEnds ==
  ASSUME Control, NEW t \in Request, Catalogue!Replace(t)
  PROVE  work'[t].pc # "replace"
<1> DEFINE public == {e \in New(t) : Given(t, e).visibility = "public"}
<1>1. \/ Catalogue!Done(t)
      \/ \E e \in public : work' = [work EXCEPT ![t].pc = "ingest", ![t].id = e,
                                        ![t].todo = public \ {e}, ![t].seen = {}]
  BY ReplaceIs, Zenon
<1> HIDE DEF public
<1>2. work \in [Request -> Catalogue!Handler]
  BY Begins DEF Shape
<1>3. CASE Catalogue!Done(t)
  BY <1>2, <1>3 DEF Catalogue!Done, Catalogue!Idle
<1>4. CASE ~Catalogue!Done(t)
  <2>1. PICK e \in public : work' = [work EXCEPT ![t].pc = "ingest", ![t].id = e,
                                         ![t].todo = public \ {e}, ![t].seen = {}]
    BY <1>1, <1>4, Zenon
  <2> QED BY <1>2, <2>1 DEF Catalogue!Handler
<1> QED BY <1>3, <1>4

LEMMA SeenAll ==
  ASSUME Control, NEW t \in Request, Only(t),
         \/ \E s \in Slug, v \in Catalogue!Visibility : Catalogue!CreateEndpoint(t, s, v)
         \/ \E e \in Catalogue!Id :
              \/ Catalogue!DeleteEndpoint(t, e)
              \/ \E v \in Catalogue!Visibility \cup {"same"} : Catalogue!UpdateEndpoint(t, e, v)
         \/ \E list \in Catalogue!Lists : Catalogue!SyncUserEndpoints(t, list)
         \/ Catalogue!InsertEndpoint(t) \/ Catalogue!WriteEndpoint(t)
         \/ Catalogue!DeleteRow(t) \/ Catalogue!GetRagFileId(t)
         \/ Catalogue!RemoveDocument(t) \/ Catalogue!ClearRagFileId(t)
         \/ Catalogue!GetEndpointModel(t) \/ Catalogue!AddDocument(t)
         \/ Catalogue!NoteRagFileId(t) \/ Catalogue!Purge(t) \/ Catalogue!Replace(t)
  PROVE  Noticed
<1> SUFFICES \/ work'[t].pc # "replace" \/ work'[t] = work[t]
             \/ Catalogue!LiveIds' \subseteq work'[t].seen
  BY DEF Noticed, Only
<1>1. work \in [Request -> Catalogue!Handler] /\ work[t] \in Catalogue!Handler
  BY Begins DEF Shape
<1>2. CASE Catalogue!Done(t)
  BY <1>1, <1>2 DEF Catalogue!Done, Catalogue!Idle
<1>3. ASSUME NEW p, Catalogue!Goto(t, p), p # "replace" PROVE work'[t].pc # "replace"
  BY <1>1, <1>3 DEF Catalogue!Goto, Catalogue!Handler
<1>4. ASSUME NEW r \in Catalogue!Handler, Catalogue!Start(t, r), r.pc # "replace"
      PROVE  work'[t].pc # "replace"
  BY <1>1, <1>4 DEF Catalogue!Start, Catalogue!Handler
<1>5. CASE Catalogue!NextIngest(t)
  BY <1>1, <1>2, <1>5, ZenonT(40) DEF Catalogue!NextIngest, Catalogue!Handler
<1>6. CASE Catalogue!AfterRemoval(t)
  BY <1>2, <1>3, <1>6 DEF Catalogue!AfterRemoval
<1>7. CASE Catalogue!InsertEndpoint(t)
  BY <1>1, <1>2, <1>7 DEF Catalogue!InsertEndpoint, Catalogue!Handler
<1>8. CASE Catalogue!WriteEndpoint(t)
  <2>1. Catalogue!Done(t) \/ \E p \in {"ingest", "lookup"} : Catalogue!Goto(t, p)
    BY <1>8 DEF Catalogue!WriteEndpoint, Catalogue!FollowUp
  <2> QED BY <1>2, <1>3, <2>1
<1>9. CASE \/ Catalogue!DeleteRow(t) \/ Catalogue!GetRagFileId(t) \/ Catalogue!RemoveDocument(t)
           \/ Catalogue!ClearRagFileId(t) \/ Catalogue!GetEndpointModel(t)
           \/ Catalogue!AddDocument(t) \/ Catalogue!NoteRagFileId(t)
  <2>1. \/ Catalogue!Done(t) \/ Catalogue!AfterRemoval(t) \/ Catalogue!NextIngest(t)
        \/ \E p \in {"remove", "clear", "add", "note"} : Catalogue!Goto(t, p)
    BY <1>9 DEF Catalogue!DeleteRow, Catalogue!GetRagFileId, Catalogue!RemoveDocument,
       Catalogue!ClearRagFileId, Catalogue!GetEndpointModel, Catalogue!AddDocument,
       Catalogue!NoteRagFileId
  <2> QED BY <1>2, <1>3, <1>5, <1>6, <2>1
<1>10. CASE Catalogue!Purge(t)
  <2>1. CASE \E e \in work[t].todo : work' = [work EXCEPT ![t].todo = @ \ {e}]
    BY <1>1, <1>10, <2>1 DEF Catalogue!Purge, Catalogue!Handler
  <2>2. CASE work' = [work EXCEPT ![t].pc = "replace", ![t].seen = Catalogue!Seen]
    <3>1. row' = row
      BY <1>10 DEF Catalogue!Purge
    <3>2. work'[t].seen = Catalogue!LiveIds
      BY <1>1, <2>2 DEF Catalogue!Seen, Catalogue!Handler
    <3> QED BY <3>1, <3>2 DEF Catalogue!LiveIds, Catalogue!Live
  <2> QED BY <1>10, <2>1, <2>2 DEF Catalogue!Purge
<1>11. CASE Catalogue!Replace(t)
  BY <1>11, ReplaceEnds
<1>12. ASSUME NEW s \in Slug, NEW v \in Catalogue!Visibility, Catalogue!CreateEndpoint(t, s, v)
       PROVE  work'[t].pc # "replace"
  BY <1>1, <1>12, Zenon DEF Catalogue!CreateEndpoint, Catalogue!Start, Catalogue!Idle
<1>13. ASSUME NEW e \in Catalogue!Id, Catalogue!DeleteEndpoint(t, e)
       PROVE  work'[t].pc # "replace"
  BY <1>1, <1>13, Zenon DEF Catalogue!DeleteEndpoint, Catalogue!Start, Catalogue!Idle
<1>14. ASSUME NEW e \in Catalogue!Id, NEW v \in Catalogue!Visibility \cup {"same"},
              Catalogue!UpdateEndpoint(t, e, v)
       PROVE  work'[t].pc # "replace"
  BY <1>1, <1>14, Zenon DEF Catalogue!UpdateEndpoint, Catalogue!Start, Catalogue!Idle
<1>15. ASSUME NEW list \in Catalogue!Lists, Catalogue!SyncUserEndpoints(t, list)
       PROVE  work'[t].pc # "replace"
  BY <1>1, <1>15, Zenon DEF Catalogue!SyncUserEndpoints, Catalogue!Start, Catalogue!Idle
<1> QED BY <1>7, <1>8, <1>9, <1>10, <1>11, <1>12, <1>13, <1>14, <1>15

LEMMA Replacing ==
  ASSUME Control, SyncsApart, Catalogue!Watch, Control', NEW t \in Request, Only(t),
         Catalogue!Replace(t)
  PROVE  SyncsApart'
<1> DEFINE n == work[t].number
<1>1. Noticed
  BY SeenAll
<1>2. CASE UNCHANGED row
  <2>1. Carried
    BY <1>2 DEF Carried
  <2> QED BY <1>1, <2>1, CarriedOn
<1>3. CASE row' = [e \in Catalogue!Id |->
                     Replaced(New(t), Given(t, e), work[t].seen, work[t].number, row[e], e)]
  <2>1. /\ work[t].pc = "replace" /\ work[t].op = "sync" /\ Unseen(work[t])
        /\ overlapped \subseteq overlapped'
    BY Begins, Zenon DEF SyncsApart, Catalogue!Replace, Known, Catalogue!Watch
  <2>2. ASSUME NEW e \in Catalogue!LiveIds', row'[e].sync # 0
        PROVE  \/ row'[e].sync = n
               \/ e \in Catalogue!LiveIds \ work[t].seen /\ row'[e].sync = row[e].sync
    <3>1. e \in Catalogue!Id /\ row'[e].row = "live" /\ row[e] \in Catalogue!Row
      BY Begins, SMTT(30) DEF Catalogue!LiveIds, Catalogue!Live
    <3>2. CASE e \in New(t)
      BY <1>3, <3>1, <3>2, Zenon DEF Replaced, Catalogue!NoRow
    <3>3. CASE e \notin New(t)
      BY <1>3, <3>1, <3>3, Zenon DEF Replaced, Catalogue!LiveIds, Catalogue!Live, Catalogue!Row
    <3> QED BY <3>2, <3>3
  <2> HIDE DEF n
  <2>3. \A e \in Catalogue!LiveIds' : row'[e].sync # 0 /\ row'[e].sync # n
          => {row'[e].sync, n} \subseteq overlapped'
    BY <2>1, <2>2 DEF Unseen, n
  <2>4. OneSyncRemains'
    <3> SUFFICES ASSUME NEW e \in Catalogue!LiveIds', NEW f \in Catalogue!LiveIds',
                        row'[e].sync # 0, row'[f].sync # 0, row'[e].sync # row'[f].sync
                 PROVE  {row'[e].sync, row'[f].sync} \subseteq overlapped'
      BY DEF OneSyncRemains, Catalogue!OneSyncRemains
    <3> QED BY <2>3
  <2>5. SyncsKnown'
    BY DEF SyncsKnown, Catalogue!Watch
  <2>6. work'[t].pc # "replace"
    BY ReplaceEnds
  <2>7. ASSUME NEW u \in Request \ {t}, work[u].pc = "replace" PROVE Unseen(work[u])'
    <3>1. /\ work'[u] = work[u] /\ work[u].op = "sync" /\ Unseen(work[u])
      BY <2>7, Begins DEF SyncsApart, Known, Only
    <3>2. n \in overlapped /\ work[u].number \in overlapped
      BY <2>1, <2>7, <3>1 DEF SyncsApart, SyncsKnown, n
    <3>3. \A e \in Catalogue!LiveIds' \ work[u].seen :
            row'[e].sync # 0 => {row'[e].sync, work[u].number} \subseteq overlapped'
      BY <2>1, <2>2, <3>1, <3>2 DEF Unseen
    <3> QED BY <3>1, <3>3 DEF Unseen
  <2> QED BY <2>4, <2>5, <2>6, <2>7 DEF SyncsApart, Only
<1> QED BY <1>2, <1>3, ReplaceIs, Zenon

LEMMA ActiveCarries ==
  ASSUME Control, NEW e \in Catalogue!Id, Catalogue!SetActive(e)
  PROVE  Carried /\ Noticed
<1>1. row \in [Catalogue!Id -> Catalogue!Row] /\ work' = work
  BY DEF Control, Catalogue!TypeOK, Catalogue!SetActive
<1>2. row' = [row EXCEPT ![e].active = ~@]
  BY DEF Catalogue!SetActive
<1> QED BY <1>1, <1>2 DEF Carried, Noticed, Catalogue!Row

LEMMA UserCarries ==
  ASSUME Catalogue!DeleteUser
  PROVE  Carried /\ Noticed
<1>1. work' = work /\ \A e \in Catalogue!Id : row'[e].row = "live" => row'[e] = row[e]
  <2>1. \A e \in Catalogue!Id :
          row'[e] = IF row[e].row = "live" THEN [row[e] EXCEPT !.row = "gone", !.file = FALSE]
                    ELSE row[e]
    BY DEF Catalogue!DeleteUser, Catalogue!Live
  <2>2. work' = work
    BY DEF Catalogue!DeleteUser
  <2>3. ASSUME NEW e \in Catalogue!Id, row[e].row = "live" PROVE row'[e].row # "live"
    <3> DEFINE x == [row[e] EXCEPT !.row = "gone", !.file = FALSE]
    <3>1. row'[e] = x
      BY <2>1, <2>3
    <3>2. "row" \in DOMAIN row[e] => x.row = "gone"
      OBVIOUS
    <3> QED BY <3>1, <3>2
  <2> QED BY <2>1, <2>2, <2>3
<1> QED BY <1>1 DEF Carried, Noticed

LEMMA SyncsStep ==
  CatIInv /\ CatIInv' /\ SyncsApart /\ [Catalogue!Next]_(Catalogue!vars) => SyncsApart'
<1> SUFFICES ASSUME CatIInv, CatIInv', SyncsApart, [Catalogue!Next]_(Catalogue!vars)
             PROVE  SyncsApart'
  OBVIOUS
<1>1. Control /\ Control'
  BY DEF CatIInv
<1>2. CASE UNCHANGED Catalogue!vars
  <2>1. UNCHANGED <<row, work, overlapped>>
    BY <1>2 DEF Catalogue!vars
  <2> QED BY <2>1 DEF SyncsApart, OneSyncRemains, Catalogue!OneSyncRemains, SyncsKnown, Unseen,
       Catalogue!LiveIds, Catalogue!Live
<1>3. ASSUME Catalogue!Watch, NEW e \in Catalogue!Id, Catalogue!SetActive(e) PROVE SyncsApart'
  BY <1>1, <1>3, ActiveCarries, CarriedOn
<1>4. ASSUME Catalogue!Watch, NEW t \in Request,
             \/ \E s \in Slug, v \in Catalogue!Visibility : Catalogue!CreateEndpoint(t, s, v)
             \/ \E e \in Catalogue!Id :
                  \/ Catalogue!DeleteEndpoint(t, e)
                  \/ \E v \in Catalogue!Visibility \cup {"same"} : Catalogue!UpdateEndpoint(t, e, v)
             \/ \E list \in Catalogue!Lists : Catalogue!SyncUserEndpoints(t, list)
             \/ Catalogue!InsertEndpoint(t) \/ Catalogue!WriteEndpoint(t)
             \/ Catalogue!DeleteRow(t) \/ Catalogue!GetRagFileId(t)
             \/ Catalogue!RemoveDocument(t) \/ Catalogue!ClearRagFileId(t)
             \/ Catalogue!GetEndpointModel(t) \/ Catalogue!AddDocument(t)
             \/ Catalogue!NoteRagFileId(t) \/ Catalogue!Purge(t)
      PROVE  SyncsApart'
  <2>1. Only(t)
    BY <1>1, <1>4, CreateKeeps, DeleteKeeps, UpdateKeeps, SyncKeeps, InsertKeeps, WriteKeeps,
       DeleteRowKeeps, LookupKeeps, RemoveKeeps, ClearKeeps, ModelReadKeeps, AddKeeps, NoteKeeps,
       PurgeKeeps DEF Kept
  <2>2. Noticed
    BY <1>1, <1>4, <2>1, SeenAll
  <2>3. Carried
    BY <1>1, <1>4, RowsCarried
  <2> QED BY <1>1, <1>4, <2>2, <2>3, CarriedOn
<1>5. ASSUME Catalogue!Watch, NEW t \in Request, Catalogue!Replace(t) PROVE SyncsApart'
  <2>1. Only(t)
    BY <1>1, <1>5, ReplaceKeeps DEF Kept
  <2> QED BY <1>1, <1>5, <2>1, Replacing
<1>6. ASSUME Catalogue!Watch, Catalogue!DeleteUser PROVE SyncsApart'
  BY <1>1, <1>6, UserCarries, CarriedOn
<1> QED BY <1>2, <1>3, <1>4, <1>5, <1>6 DEF Catalogue!Next, Catalogue!Step, Catalogue!Handling

LEMMA SyncsFirst == Catalogue!Init => SyncsApart
BY DEF Catalogue!Init, SyncsApart, OneSyncRemains, Catalogue!OneSyncRemains, SyncsKnown, Unseen,
   Catalogue!LiveIds, Catalogue!Live, Catalogue!NoRow, Catalogue!Idle

(* Endpoints of two syncs are there together only when the two ran at one  *)
(* time (endpoint_service.py:1107-1108, 1177-1193).                        *)
THEOREM LastSyncReplaces == Catalogue!Spec => []OneSyncRemains
<1>1. SyncsApart => OneSyncRemains
  BY DEF SyncsApart
<1> QED BY <1>1, CatInvariant, SyncsFirst, SyncsStep, PTL DEF Catalogue!Spec

-----------------------------------------------------------------------------
(* The stars.                                                              *)

(* The rows of the directory and the requests that star them.              *)
Entry == [row : {"free", "live", "gone"}, owner : User \cup {"none"},
          slug : ListedSlug \cup {"none"},
          visibility : {"public", "private"}, active : BOOLEAN,
          policies : PolicyLists \cup {<<>>}, stars : Nat]
Task == [pc : {"idle", "row", "read", "write"}, op : {"none", "star", "unstar"},
         user : User \cup {"none"}, id : 0..MaxEntry, seen : Nat]

StarTypes ==
    /\ entry \in [Directory!EntryId -> Entry]
    /\ starred \subseteq User \X Directory!EntryId /\ IsFiniteSet(starred)
    /\ job \in [Request -> Task]
    /\ \A t \in Request : job[t].pc # "idle" => /\ job[t].op # "none" /\ job[t].user \in User
                                                /\ job[t].id \in Directory!EntryId

\* A star row is about an endpoint that is there.
StarsHeld == \A s \in starred : Directory!There(s[2])

\* A counter update is about an endpoint that was there, and has read what
\* the counter still is; there is one at a time.
Counters ==
    \A t \in Request, e \in Directory!EntryId : Directory!Counting(t, e) =>
        /\ entry[e].row # "free"
        /\ job[t].pc = "write" /\ job[t].op = "unstar" => job[t].seen # 0
        /\ job[t].pc = "write" /\ e \notin drifted /\ Directory!There(e) =>
             /\ job[t].seen = entry[e].stars
             /\ \A u \in Request : job[u].pc = "write" /\ job[u].id = e => u = t

Givers(e) == {s \in starred : s[2] = e}
Updates(e, op) == {t \in Request : Directory!Counting(t, e) /\ job[t].op = op}

Balanced(e) ==
    entry[e].stars + Cardinality(Updates(e, "star"))
        = Cardinality(Givers(e)) + Cardinality(Updates(e, "unstar"))

Balances == \A e \in Directory!EntryId \ drifted : Directory!There(e) => Balanced(e)

(* The inductive invariant of the stars.                                   *)
StarIInv == StarTypes /\ StarsHeld /\ Counters /\ Balances

-----------------------------------------------------------------------------
LEMMA EntryBounds == MaxEntry \in Nat /\ IsFiniteSet(Request) /\ 0 \notin Directory!EntryId
                     /\ Directory!EntryId \subseteq 0..MaxEntry
BY EndpointsAssumption DEF Directory!DirectoryAssumption, Directory!EntryId

LEMMA DirectoryCardinality ==
  ASSUME NEW S
  PROVE  Directory!Cardinality(S) = Cardinality(S)
BY DEF Directory!Cardinality, Cardinality

LEMMA UpdatesFinite ==
  ASSUME NEW e, NEW op
  PROVE  IsFiniteSet(Updates(e, op)) /\ Cardinality(Updates(e, op)) \in Nat
<1>1. Updates(e, op) \in SUBSET Request
  BY DEF Updates
<1> QED BY <1>1, EntryBounds, FS_Subset, FS_CardinalityType

LEMMA GiversFinite ==
  ASSUME StarTypes, NEW e
  PROVE  IsFiniteSet(Givers(e)) /\ Cardinality(Givers(e)) \in Nat
<1>1. Givers(e) \in SUBSET starred /\ IsFiniteSet(starred)
  BY DEF Givers, StarTypes
<1> QED BY <1>1, FS_Subset, FS_CardinalityType

\* Steps that change rows and no request.
Settled ==
    /\ job' = job /\ drifted \subseteq drifted'
    /\ entry' \in [Directory!EntryId -> Entry] /\ starred' \subseteq starred
    /\ \A e \in Directory!EntryId : entry[e].row # "free" => entry'[e].row # "free"
    /\ \A s \in starred' : Directory!There(s[2])'
    /\ \A e \in Directory!EntryId \ drifted' :
         entry'[e].row = "live" =>
            \/ /\ entry[e].row = "live" /\ entry'[e].stars = entry[e].stars
               /\ \A s \in starred : s[2] = e => s \in starred'
            \/ entry[e].row = "free" /\ entry'[e].stars = 0

LEMMA Settles ==
  ASSUME StarIInv, Settled
  PROVE  StarIInv'
<1>1. StarTypes /\ StarsHeld /\ Counters /\ Balances
  BY DEF StarIInv
<1>2. StarTypes'
  BY <1>1, FS_Subset DEF StarTypes, Settled
<1>3. StarsHeld'
  BY DEF StarsHeld, Settled
<1>4. \A t \in Request : \A e : Directory!Counting(t, e)' <=> Directory!Counting(t, e)
  BY DEF Settled, Directory!Counting
<1>5. Counters'
  <2> SUFFICES ASSUME NEW t \in Request, NEW e \in Directory!EntryId, Directory!Counting(t, e)
               PROVE  /\ entry'[e].row # "free"
                      /\ job[t].pc = "write" /\ job[t].op = "unstar" => job[t].seen # 0
                      /\ job[t].pc = "write" /\ e \notin drifted' /\ entry'[e].row = "live" =>
                           /\ job[t].seen = entry'[e].stars
                           /\ \A u \in Request : job[u].pc = "write" /\ job[u].id = e => u = t
    BY <1>4 DEF Counters, Settled, Directory!There
  <2>1. entry[e].row # "free"
    BY <1>1 DEF Counters
  <2>2. entry'[e].row # "free"
    BY <2>1 DEF Settled
  <2>3. e \notin drifted' /\ entry'[e].row = "live"
          => e \notin drifted /\ Directory!There(e) /\ entry'[e].stars = entry[e].stars
    BY <2>1 DEF Settled, Directory!There
  <2> QED BY <1>1, <2>2, <2>3 DEF Counters
<1>6. Balances'
  <2> SUFFICES ASSUME NEW e \in Directory!EntryId, e \notin drifted', entry'[e].row = "live"
               PROVE  Balanced(e)'
    BY DEF Balances, Directory!There
  <2>1. \A op : Updates(e, op)' = Updates(e, op)
    BY <1>4 DEF Updates, Settled
  <2>2. CASE /\ entry[e].row = "live" /\ entry'[e].stars = entry[e].stars
             /\ \A s \in starred : s[2] = e => s \in starred'
    <3>1. Givers(e)' = Givers(e)
      BY <2>2 DEF Givers, Settled
    <3>2. Balanced(e)
      BY <1>1, <2>2 DEF Balances, Settled, Directory!There
    <3> QED BY <2>1, <2>2, <3>1, <3>2 DEF Balanced
  <2>3. CASE entry[e].row = "free" /\ entry'[e].stars = 0
    <3>1. Givers(e)' = {}
      BY <1>1, <2>3 DEF Givers, Settled, StarsHeld, Directory!There
    <3>2. \A op : Updates(e, op) = {}
      BY <1>1, <2>3 DEF Updates, Counters
    <3> QED BY <2>1, <2>3, <3>1, <3>2, FS_EmptySet DEF Balanced
  <2> QED BY <2>2, <2>3 DEF Settled
<1> QED BY <1>2, <1>3, <1>5, <1>6 DEF StarIInv

LEMMA PublishSettles ==
  ASSUME StarIInv, NEW u \in User, NEW s \in ListedSlug, NEW v \in {"public", "private"},
         NEW p \in PolicyLists, Directory!Publish(u, s, v, p)
  PROVE  Settled
<1> DEFINE x == Directory!Offered(u, s, v, p)
<1>1. x \in Entry /\ x.row = "live" /\ x.stars = 0
  BY DEF Directory!Offered, Entry
<1>2. PICK e \in Directory!EntryId : entry[e].row = "free" /\ entry' = [entry EXCEPT ![e] = x]
  BY DEF Directory!Publish
<1>3. job' = job /\ drifted' = drifted /\ starred' = starred
  BY DEF Directory!Publish
<1> HIDE DEF x
<1>4. entry \in [Directory!EntryId -> Entry] /\ starred \subseteq User \X Directory!EntryId
  BY DEF StarIInv, StarTypes
<1>5. /\ entry' \in [Directory!EntryId -> Entry] /\ entry'[e] = x
      /\ \A f \in Directory!EntryId \ {e} : entry'[f] = entry[f]
  BY <1>1, <1>2, <1>4
<1>6. \A z \in starred' : entry'[z[2]].row = "live"
  BY <1>1, <1>2, <1>3, <1>4, <1>5 DEF StarIInv, StarsHeld, Directory!There
<1> QED BY <1>1, <1>2, <1>3, <1>5, <1>6 DEF Settled, Directory!There

LEMMA ReviseSettles ==
  ASSUME StarIInv, NEW e \in Directory!EntryId, NEW v \in {"public", "private"},
         NEW p \in PolicyLists, Directory!Revise(e, v, p)
  PROVE  Settled
<1>1. /\ entry \in [Directory!EntryId -> Entry] /\ starred \subseteq User \X Directory!EntryId
      /\ entry' = [entry EXCEPT ![e].visibility = v, ![e].policies = p]
      /\ job' = job /\ drifted' = drifted /\ starred' = starred
  BY DEF StarIInv, StarTypes, Directory!Revise
<1>2. /\ entry' \in [Directory!EntryId -> Entry]
      /\ \A f \in Directory!EntryId : /\ entry'[f].row = entry[f].row
                                      /\ entry'[f].stars = entry[f].stars
  <2> DEFINE x == [entry[e] EXCEPT !.visibility = v, !.policies = p]
  <2>1. x \in Entry /\ x.row = entry[e].row /\ x.stars = entry[e].stars
    BY <1>1 DEF Entry
  <2>2. entry' = [entry EXCEPT ![e] = x]
    BY <1>1
  <2> HIDE DEF x
  <2> QED BY <1>1, <2>1, <2>2
<1>3. \A z \in starred : entry[z[2]].row = "live" /\ z[2] \in Directory!EntryId
  BY <1>1 DEF StarIInv, StarsHeld, Directory!There
<1>4. \A f \in Directory!EntryId : entry[f].row \in {"free", "live", "gone"}
  BY <1>1 DEF Entry
<1> QED BY <1>1, <1>2, <1>3, <1>4 DEF Settled, Directory!There

LEMMA AdminSettles ==
  ASSUME StarIInv, NEW e \in Directory!EntryId, NEW active \in BOOLEAN,
         NEW stars \in {entry[e].stars, 2}, Directory!AdminUpdate(e, active, stars)
  PROVE  Settled
<1>1. /\ entry \in [Directory!EntryId -> Entry] /\ starred \subseteq User \X Directory!EntryId
      /\ entry' = [entry EXCEPT ![e].active = active, ![e].stars = stars]
      /\ job' = job /\ starred' = starred /\ drifted \subseteq drifted'
      /\ e \notin drifted' => stars = entry[e].stars
  BY DEF StarIInv, StarTypes, Directory!AdminUpdate
<1>2. stars \in Nat
  BY <1>1 DEF Entry
<1>3. /\ entry' \in [Directory!EntryId -> Entry]
      /\ \A f \in Directory!EntryId : /\ entry'[f].row = entry[f].row
                                      /\ f \notin drifted' => entry'[f].stars = entry[f].stars
  <2> DEFINE x == [entry[e] EXCEPT !.active = active, !.stars = stars]
  <2>1. x \in Entry /\ x.row = entry[e].row /\ x.stars = stars
    BY <1>1, <1>2 DEF Entry
  <2>2. entry' = [entry EXCEPT ![e] = x]
    BY <1>1
  <2> HIDE DEF x
  <2> QED BY <1>1, <2>1, <2>2
<1>4. \A z \in starred : entry[z[2]].row = "live" /\ z[2] \in Directory!EntryId
  BY <1>1 DEF StarIInv, StarsHeld, Directory!There
<1> QED BY <1>1, <1>3, <1>4 DEF Settled, Directory!There

\* Endpoints go, with their stars.
LEMMA GoneSettles ==
  ASSUME StarIInv, NEW S \in SUBSET Directory!EntryId, Directory!Gone(S), job' = job,
         drifted \subseteq drifted', starred' \subseteq starred,
         \A e \in S : entry[e].row # "free",
         \A s \in starred' : s[2] \notin S,
         \A e \in Directory!EntryId \ (S \cup drifted'), s \in starred : s[2] = e => s \in starred'
  PROVE  Settled
<1> DEFINE x == [Directory!NoEntry EXCEPT !.row = "gone"]
<1>1. x \in Entry /\ x.row = "gone"
  BY DEF Directory!NoEntry, Entry
<1>2. entry \in [Directory!EntryId -> Entry] /\ starred \subseteq User \X Directory!EntryId
  BY DEF StarIInv, StarTypes
<1>3. entry' = [e \in Directory!EntryId |-> IF e \in S THEN x ELSE entry[e]]
  BY DEF Directory!Gone
<1> HIDE DEF x
<1>4. /\ entry' \in [Directory!EntryId -> Entry]
      /\ \A f \in Directory!EntryId : entry'[f] = IF f \in S THEN x ELSE entry[f]
  BY <1>1, <1>2, <1>3
<1>5. \A z \in starred : entry[z[2]].row = "live" /\ z[2] \in Directory!EntryId
  BY <1>2 DEF StarIInv, StarsHeld, Directory!There
<1> QED BY <1>1, <1>4, <1>5 DEF Settled, Directory!There

LEMMA WithdrawSettles ==
  ASSUME StarIInv, NEW e \in Directory!EntryId, Directory!Withdraw(e)
  PROVE  Settled
<1>1. /\ Directory!Gone({e}) /\ job' = job /\ drifted' = drifted
      /\ starred' = {s \in starred : s[2] # e} /\ entry[e].row = "live"
  BY DEF Directory!Withdraw, Directory!There
<1> QED BY <1>1, GoneSettles

LEMMA RemoveSettles ==
  ASSUME StarIInv, NEW u \in User, Directory!RemoveAccount(u)
  PROVE  Settled
<1> DEFINE S == Directory!UserEndpoints(entry, u)
<1>1. /\ Directory!Gone(S) /\ job' = job
      /\ starred' = {s \in starred : s[1] # u /\ s[2] \notin S}
      /\ drifted' = drifted \cup {s[2] : s \in {x \in starred : x[1] = u}}
  BY DEF Directory!RemoveAccount
<1>2. S \in SUBSET Directory!EntryId /\ \A e \in S : entry[e].row = "live"
  BY DEF Directory!UserEndpoints
<1> HIDE DEF S
<1>3. \A e \in Directory!EntryId \ (S \cup drifted'), s \in starred : s[2] = e => s \in starred'
  BY <1>1
<1> QED BY <1>1, <1>2, <1>3, GoneSettles

-----------------------------------------------------------------------------
\* Steps of one request j of stars: what it is counted among before and after.
Turns(t, j) == j \in Task /\ job' = [job EXCEPT ![t] = j]

Counted(j, e, op) == j.id = e /\ j.pc \in {"read", "write"} /\ j.op = op

LEMMA UpdatesTurn ==
  ASSUME StarTypes, NEW t \in Request, NEW j, Turns(t, j), NEW e, NEW op
  PROVE  Updates(e, op)' = (Updates(e, op) \ {t}) \cup (IF Counted(j, e, op) THEN {t} ELSE {})
BY DEF StarTypes, Turns, Updates, Counted, Directory!Counting

LEMMA UpdatesKept ==
  ASSUME StarTypes, NEW t \in Request, NEW j, Turns(t, j), NEW e, NEW op,
         Counted(j, e, op) <=> Counted(job[t], e, op)
  PROVE  Updates(e, op)' = Updates(e, op)
BY UpdatesTurn, SMTT(30) DEF Updates, Counted, Directory!Counting

LEMMA UpdatesMore ==
  ASSUME StarTypes, NEW t \in Request, NEW j, Turns(t, j), NEW e, NEW op,
         Counted(j, e, op), ~Counted(job[t], e, op)
  PROVE  Cardinality(Updates(e, op)') = Cardinality(Updates(e, op)) + 1
<1>1. t \notin Updates(e, op)
  BY DEF Updates, Counted, Directory!Counting
<1>2. Updates(e, op)' = Updates(e, op) \cup {t}
  BY <1>1, UpdatesTurn
<1> QED BY <1>1, <1>2, UpdatesFinite, FS_AddElement

LEMMA UpdatesFewer ==
  ASSUME StarTypes, NEW t \in Request, NEW j, Turns(t, j), NEW e, NEW op,
         ~Counted(j, e, op), Counted(job[t], e, op)
  PROVE  Cardinality(Updates(e, op)') = Cardinality(Updates(e, op)) - 1
<1>1. t \in Updates(e, op)
  BY DEF Updates, Counted, Directory!Counting
<1>2. Updates(e, op)' = Updates(e, op) \ {t}
  BY UpdatesTurn
<1> QED BY <1>1, <1>2, UpdatesFinite, FS_RemoveElement

\* A task that is under way has been asked for.
Sensible(j) ==
    j.pc # "idle" => j.op # "none" /\ j.user \in User /\ j.id \in Directory!EntryId

LEMMA TaskFacts ==
  ASSUME StarTypes, NEW t \in Request
  PROVE  job[t] \in Task /\ Sensible(job[t])
BY DEF StarTypes, Sensible

LEMMA NoTask == Directory!NoJob \in Task /\ Directory!NoJob.pc = "idle"
BY EntryBounds DEF Directory!NoJob, Task

LEMMA TurnTyped ==
  ASSUME StarTypes, NEW t \in Request, NEW j, Turns(t, j), Sensible(j),
         entry' \in [Directory!EntryId -> Entry],
         starred' \subseteq User \X Directory!EntryId, IsFiniteSet(starred')
  PROVE  /\ StarTypes' /\ job'[t] = j /\ \A u \in Request \ {t} : job'[u] = job[u]
BY DEF StarTypes, Turns, Sensible

\* Nothing is counted by the request any more, or what it should have done
\* has put the counter off.
LEMMA Uncounted ==
  ASSUME StarIInv, NEW t \in Request, NEW j, Turns(t, j), Sensible(j),
         entry' = entry, starred' = starred, drifted \subseteq drifted',
         j.pc \notin {"read", "write"},
         job[t].pc \in {"read", "write"} => job[t].id \in drifted'
  PROVE  StarIInv'
<1>1. StarTypes /\ StarsHeld /\ Counters /\ Balances
  BY DEF StarIInv
<1>2. StarTypes' /\ job'[t] = j /\ \A u \in Request \ {t} : job'[u] = job[u]
  BY <1>1, TurnTyped DEF StarTypes
<1>3. StarsHeld'
  BY <1>1 DEF StarsHeld, Directory!There
<1>4. Counters'
  <2> SUFFICES ASSUME NEW u \in Request, NEW e \in Directory!EntryId, Directory!Counting(u, e)'
               PROVE  /\ entry[e].row # "free"
                      /\ job'[u].pc = "write" /\ job'[u].op = "unstar" => job'[u].seen # 0
                      /\ job'[u].pc = "write" /\ e \notin drifted' /\ Directory!There(e) =>
                           /\ job'[u].seen = entry[e].stars
                           /\ \A w \in Request : job'[w].pc = "write" /\ job'[w].id = e => w = u
    BY DEF Counters, Directory!There
  <2>1. u # t /\ Directory!Counting(u, e) /\ job'[u] = job[u]
    BY <1>2 DEF Directory!Counting
  <2> QED BY <1>1, <1>2, <2>1 DEF Counters
<1>5. Balances'
  <2> SUFFICES ASSUME NEW e \in Directory!EntryId, e \notin drifted', Directory!There(e)
               PROVE  Balanced(e)'
    BY DEF Balances, Directory!There
  <2>1. \A op : ~Counted(j, e, op) /\ ~Counted(job[t], e, op)
    BY DEF Counted
  <2>2. \A op : Updates(e, op)' = Updates(e, op)
    BY <1>1, <2>1, UpdatesKept
  <2>3. Givers(e)' = Givers(e)
    BY DEF Givers
  <2> QED BY <1>1, <2>2, <2>3 DEF Balances, Balanced
<1> QED BY <1>2, <1>3, <1>4, <1>5 DEF StarIInv

LEMMA StarKeeps ==
  ASSUME StarIInv, NEW t \in Request, NEW u \in User, NEW e \in Directory!EntryId,
         Directory!StarEndpoint(t, u, e) \/ Directory!UnstarEndpoint(t, u, e)
  PROVE  StarIInv'
<1> DEFINE a(o) == [Directory!NoJob EXCEPT !.pc = "row", !.op = o, !.user = u, !.id = e]
<1>1. PICK o \in {"star", "unstar"} : job' = [job EXCEPT ![t] = a(o)]
  BY DEF Directory!StarEndpoint, Directory!UnstarEndpoint, Directory!Become
<1>2. entry' = entry /\ starred' = starred /\ drifted' = drifted /\ job[t].pc = "idle"
  BY DEF Directory!StarEndpoint, Directory!UnstarEndpoint
<1> DEFINE j == a(o)
<1>3. j \in Task
  BY NoTask, EntryBounds DEF Task
<1>4. j.pc = "row" /\ j.op = o /\ j.user = u /\ j.id = e
  BY DEF Directory!NoJob
<1>5. Turns(t, j)
  BY <1>1, <1>3 DEF Turns
<1> HIDE DEF j
<1> QED BY <1>2, <1>4, <1>5, Uncounted DEF Sensible

\* A star is given or taken back, and the counter has still to follow.
LEMMA RowKeeps ==
  ASSUME StarIInv, NEW t \in Request, Directory!WriteStarRow(t)
  PROVE  StarIInv'
<1> DEFINE s == <<job[t].user, job[t].id>>
           e == job[t].id
<1>1. StarTypes /\ StarsHeld /\ Counters /\ Balances /\ job[t].pc = "row"
  BY DEF StarIInv, Directory!WriteStarRow
<1>2. /\ job[t] \in Task /\ job[t].op \in {"star", "unstar"} /\ job[t].user \in User
      /\ job[t].id \in Directory!EntryId
  BY <1>1, TaskFacts DEF Sensible, Task
<1>3. entry' = entry /\ drifted' = drifted
  BY DEF Directory!WriteStarRow
<1>4. CASE Directory!Become(t, Directory!NoJob) /\ UNCHANGED starred
  <2>1. Turns(t, Directory!NoJob) /\ Sensible(Directory!NoJob)
    BY <1>4, NoTask DEF Turns, Sensible, Directory!Become
  <2> QED BY <1>1, <1>3, <1>4, <2>1, NoTask, Uncounted
<1>5. CASE /\ Directory!RowChanges(job[t].op, s)
           /\ job[t].op = "star" => Directory!There(job[t].id)
           /\ starred' = IF job[t].op = "star" THEN starred \cup {s} ELSE starred \ {s}
           /\ Directory!Proceed(t, "read")
  <2> DEFINE j == [job[t] EXCEPT !.pc = "read"]
  <2>1. j \in Task
    BY <1>2 DEF Task
  <2>2. /\ j.pc = "read" /\ j.op = job[t].op /\ j.user = job[t].user /\ j.id = job[t].id
    BY <1>2 DEF Task
  <2>3. Turns(t, j)
    BY <1>5, <2>1 DEF Turns, Directory!Proceed, Directory!Become
  <2> HIDE DEF j
  <2>4. /\ s \in User \X Directory!EntryId
        /\ \/ job[t].op = "star" /\ s \notin starred /\ starred' = starred \cup {s}
           \/ job[t].op = "unstar" /\ s \in starred /\ starred' = starred \ {s}
    BY <1>2, <1>5 DEF Directory!RowChanges
  <2>5. starred' \subseteq User \X Directory!EntryId /\ IsFiniteSet(starred')
    BY <1>1, <2>4, FS_AddElement, FS_RemoveElement DEF StarTypes
  <2>6. StarTypes' /\ job'[t] = j /\ \A u \in Request \ {t} : job'[u] = job[u]
    BY <1>1, <1>2, <1>3, <2>2, <2>3, <2>5, TurnTyped DEF StarTypes, Sensible
  <2>7. entry[job[t].id].row = "live"
    BY <1>1, <1>5, <2>4 DEF StarsHeld, Directory!There
  <2>8. StarsHeld'
    BY <1>1, <1>3, <2>4, <2>7 DEF StarsHeld, Directory!There
  <2>9. Counters'
    <3> SUFFICES ASSUME NEW u \in Request, NEW f \in Directory!EntryId, Directory!Counting(u, f)'
                 PROVE  /\ entry[f].row # "free"
                        /\ job'[u].pc = "write" /\ job'[u].op = "unstar" => job'[u].seen # 0
                        /\ job'[u].pc = "write" /\ f \notin drifted /\ Directory!There(f) =>
                             /\ job'[u].seen = entry[f].stars
                             /\ \A w \in Request : job'[w].pc = "write" /\ job'[w].id = f => w = u
      BY <1>3 DEF Counters, Directory!There
    <3>1. CASE u = t
      BY <2>2, <2>6, <2>7, <3>1 DEF Directory!Counting
    <3>2. CASE u # t
      <4>1. Directory!Counting(u, f) /\ job'[u] = job[u]
        BY <2>6, <3>2 DEF Directory!Counting
      <4> QED BY <1>1, <2>2, <2>6, <4>1 DEF Counters
    <3> QED BY <3>1, <3>2
  <2>10. Balances'
    <3> SUFFICES ASSUME NEW f \in Directory!EntryId, f \notin drifted, Directory!There(f)
                 PROVE  Balanced(f)'
      BY <1>3 DEF Balances, Directory!There
    <3>1. Balanced(f) /\ entry[f].stars \in Nat
      BY <1>1 DEF Balances, StarTypes, Entry
    <3>2. \A op : ~Counted(job[t], f, op)
      BY <1>1 DEF Counted
    <3>3. CASE f # job[t].id
      <4>1. \A op : Updates(f, op)' = Updates(f, op)
        BY <1>1, <2>2, <2>3, <3>2, <3>3, UpdatesKept DEF Counted
      <4>2. Givers(f)' = Givers(f)
        BY <2>4, <3>3 DEF Givers
      <4> QED BY <1>3, <3>1, <4>1, <4>2 DEF Balanced
    <3>4. CASE f = job[t].id
      <4>0. PICK o \in {"star", "unstar"} : o = job[t].op
        BY <1>2
      <4>1. /\ Cardinality(Updates(f, o)') = Cardinality(Updates(f, o)) + 1
            /\ \A op : op # o => Updates(f, op)' = Updates(f, op)
        <5>1. Counted(j, f, o) /\ ~Counted(job[t], f, o)
          BY <2>2, <3>2, <3>4, <4>0 DEF Counted
        <5>2. \A op : op # o => ~Counted(j, f, op)
          BY <2>2, <4>0 DEF Counted
        <5> QED BY <1>1, <2>3, <3>2, <5>1, <5>2, UpdatesMore, UpdatesKept
      <4>2. s[2] = f
        BY <3>4
      <4> HIDE DEF s
      <4>3. /\ job[t].op = "star" => Givers(f)' = Givers(f) \cup {s} /\ s \notin Givers(f)
            /\ job[t].op = "unstar" => Givers(f)' = Givers(f) \ {s} /\ s \in Givers(f)
        BY <2>4, <4>2 DEF Givers
      <4>4. /\ job[t].op = "star" => Cardinality(Givers(f)') = Cardinality(Givers(f)) + 1
            /\ job[t].op = "unstar" => Cardinality(Givers(f)') = Cardinality(Givers(f)) - 1
        BY <1>1, <4>3, GiversFinite, FS_AddElement, FS_RemoveElement
      <4>5. /\ Cardinality(Givers(f)) \in Nat
            /\ \A op : Cardinality(Updates(f, op)) \in Nat
        BY <1>1, GiversFinite, UpdatesFinite
      <4>6. CASE o = "star"
        <5>1. Updates(f, "unstar")' = Updates(f, "unstar")
          BY <4>1, <4>6
        <5> QED BY <1>3, <3>1, <4>0, <4>1, <4>4, <4>5, <4>6, <5>1 DEF Balanced
      <4>7. CASE o = "unstar"
        <5>1. Updates(f, "star")' = Updates(f, "star")
          BY <4>1, <4>7
        <5> QED BY <1>3, <3>1, <4>0, <4>1, <4>4, <4>5, <4>7, <5>1 DEF Balanced
      <4> QED BY <4>6, <4>7
    <3> QED BY <3>3, <3>4
  <2> QED BY <2>6, <2>8, <2>9, <2>10 DEF StarIInv
<1> QED BY <1>4, <1>5 DEF Directory!WriteStarRow

\* The counter is read: nobody else is about to write it, or it is put off.
LEMMA ReadKeeps ==
  ASSUME StarIInv, NEW t \in Request, Directory!ReadCount(t)
  PROVE  StarIInv'
<1>1. StarTypes /\ StarsHeld /\ Counters /\ Balances /\ job[t].pc = "read"
  BY DEF StarIInv, Directory!ReadCount
<1>2. PICK e \in Directory!EntryId : e = job[t].id
  BY <1>1, TaskFacts DEF Sensible
<1>3. /\ job[t] \in Task /\ job[t].op \in {"star", "unstar"} /\ job[t].user \in User
      /\ entry[e] \in Entry /\ entry' = entry /\ starred' = starred
  BY <1>1, <1>2, TaskFacts DEF Sensible, Task, Directory!ReadCount, StarTypes
<1>4. CASE Directory!Become(t, Directory!NoJob) /\ drifted' = drifted \cup {job[t].id}
  <2>1. Turns(t, Directory!NoJob) /\ Sensible(Directory!NoJob)
    BY <1>4, NoTask DEF Turns, Sensible, Directory!Become
  <2> QED BY <1>3, <1>4, <2>1, NoTask, Uncounted
<1>5. CASE /\ Directory!There(e) /\ ~(job[t].op = "unstar" /\ entry[e].stars = 0)
           /\ Directory!Become(t, [job[t] EXCEPT !.pc = "write", !.seen = entry[e].stars])
           /\ drifted' = IF \E u \in Request \ {t} : job[u].id = e /\ job[u].pc = "write"
                           THEN drifted \cup {e} ELSE drifted
  <2> DEFINE j == [job[t] EXCEPT !.pc = "write", !.seen = entry[e].stars]
  <2>1. j \in Task
    BY <1>3 DEF Task, Entry
  <2>2. /\ j.pc = "write" /\ j.op = job[t].op /\ j.user = job[t].user /\ j.id = e
        /\ j.seen = entry[e].stars
    BY <1>2, <1>3 DEF Task
  <2>3. Turns(t, j)
    BY <1>5, <2>1 DEF Turns, Directory!Become
  <2> HIDE DEF j
  <2>4. StarTypes' /\ job'[t] = j /\ \A u \in Request \ {t} : job'[u] = job[u]
    BY <1>1, <1>3, <2>2, <2>3, TurnTyped DEF StarTypes, Sensible
  <2>5. StarsHeld'
    BY <1>1, <1>3 DEF StarsHeld, Directory!There
  <2>6. /\ drifted \subseteq drifted'
        /\ e \notin drifted' => \A u \in Request \ {t} : ~(job[u].id = e /\ job[u].pc = "write")
    BY <1>5
  <2>7. Counters'
    <3> SUFFICES ASSUME NEW u \in Request, NEW f \in Directory!EntryId, Directory!Counting(u, f)'
                 PROVE  /\ entry[f].row # "free"
                        /\ job'[u].pc = "write" /\ job'[u].op = "unstar" => job'[u].seen # 0
                        /\ job'[u].pc = "write" /\ f \notin drifted' /\ Directory!There(f) =>
                             /\ job'[u].seen = entry[f].stars
                             /\ \A w \in Request : job'[w].pc = "write" /\ job'[w].id = f => w = u
      BY <1>3 DEF Counters, Directory!There
    <3>1. CASE u = t
      <4>1. f = e
        BY <2>2, <2>4, <3>1 DEF Directory!Counting
      <4> QED BY <1>3, <1>5, <2>2, <2>4, <2>6, <3>1, <4>1 DEF Directory!There
    <3>2. CASE u # t
      <4>1. Directory!Counting(u, f) /\ job'[u] = job[u]
        BY <2>4, <3>2 DEF Directory!Counting
      <4>2. CASE f # e
        BY <1>1, <2>2, <2>4, <2>6, <4>1, <4>2 DEF Counters
      <4>3. CASE f = e
        BY <1>1, <2>2, <2>4, <2>6, <3>2, <4>1, <4>3 DEF Counters, Directory!Counting
      <4> QED BY <4>2, <4>3
    <3> QED BY <3>1, <3>2
  <2>8. Balances'
    <3> SUFFICES ASSUME NEW f \in Directory!EntryId, f \notin drifted', Directory!There(f)
                 PROVE  Balanced(f)'
      BY <1>3 DEF Balances, Directory!There
    <3>1. \A op : Counted(j, f, op) <=> Counted(job[t], f, op)
      BY <1>1, <1>2, <2>2 DEF Counted
    <3>2. \A op : Updates(f, op)' = Updates(f, op)
      BY <1>1, <2>3, <3>1, UpdatesKept
    <3>3. Givers(f)' = Givers(f)
      BY <1>3 DEF Givers
    <3> QED BY <1>1, <1>3, <2>6, <3>2, <3>3 DEF Balances, Balanced
  <2> QED BY <2>4, <2>5, <2>7, <2>8 DEF StarIInv
<1> QED BY <1>2, <1>4, <1>5 DEF Directory!ReadCount

\* The counter is written: by one more or less than it is.
LEMMA CountKeeps ==
  ASSUME StarIInv, NEW t \in Request, Directory!WriteCount(t)
  PROVE  StarIInv'
<1>1. StarTypes /\ StarsHeld /\ Counters /\ Balances /\ job[t].pc = "write"
  BY DEF StarIInv, Directory!WriteCount
<1>2. PICK e \in Directory!EntryId : e = job[t].id
  BY <1>1, TaskFacts DEF Sensible
<1>3. PICK o \in {"star", "unstar"} : o = job[t].op
  BY <1>1, TaskFacts DEF Sensible, Task
<1>4. /\ job[t] \in Task /\ entry[e] \in Entry /\ starred' = starred
      /\ entry \in [Directory!EntryId -> Entry]
      /\ Directory!Become(t, Directory!NoJob)
  BY <1>1, <1>2, TaskFacts DEF Directory!WriteCount, StarTypes
<1>5. Turns(t, Directory!NoJob) /\ Sensible(Directory!NoJob)
  BY <1>4, NoTask DEF Turns, Sensible, Directory!Become
<1>6. CASE drifted' = drifted \cup {job[t].id} /\ UNCHANGED entry
  BY <1>4, <1>5, <1>6, NoTask, Uncounted
<1>7. CASE /\ Directory!There(e) /\ UNCHANGED drifted
           /\ entry' = [entry EXCEPT ![e].stars =
                IF job[t].op = "star" THEN job[t].seen + 1 ELSE job[t].seen - 1]
  <2> DEFINE n == IF o = "star" THEN job[t].seen + 1 ELSE job[t].seen - 1
             x == [entry[e] EXCEPT !.stars = n]
  <2>1. entry' = [entry EXCEPT ![e] = x]
    BY <1>3, <1>4, <1>7
  <2> HIDE DEF n
  <2>2. x.row = "live" /\ x.stars = n /\ (n \in Nat => x \in Entry)
    BY <1>4, <1>7 DEF Entry, Directory!There
  <2> HIDE DEF x
  <2>3. /\ entry'[e] = x /\ \A f \in Directory!EntryId \ {e} : entry'[f] = entry[f]
    BY <1>4, <2>1
  <2>4. Directory!Counting(t, e)
    BY <1>1, <1>2 DEF Directory!Counting
  <2>5. n \in Nat /\ (e \notin drifted => job[t].seen = entry[e].stars)
    <3>1. o = "unstar" => job[t].seen # 0
      BY <1>1, <1>3, <2>4 DEF Counters
    <3>2. job[t].seen \in Nat
      BY <1>4 DEF Task
    <3>3. e \notin drifted => job[t].seen = entry[e].stars
      BY <1>1, <1>7, <2>4 DEF Counters
    <3> QED BY <3>1, <3>2, <3>3 DEF n
  <2>6. entry' \in [Directory!EntryId -> Entry]
    BY <1>4, <2>1, <2>2, <2>5
  <2>7. /\ StarTypes' /\ job'[t] = Directory!NoJob /\ \A u \in Request \ {t} : job'[u] = job[u]
    BY <1>1, <1>4, <1>5, <2>6, TurnTyped DEF StarTypes
  <2>8. entry'[e].row = "live" /\ entry[e].row = "live" /\ entry'[e].stars = n
    BY <1>7, <2>2, <2>3 DEF Directory!There
  <2>9. StarsHeld'
    BY <1>1, <1>4, <2>3, <2>8 DEF StarsHeld, Directory!There, StarTypes
  <2>10. Counters'
    <3> SUFFICES ASSUME NEW u \in Request, NEW f \in Directory!EntryId, Directory!Counting(u, f)'
                 PROVE  /\ entry'[f].row # "free"
                        /\ job'[u].pc = "write" /\ job'[u].op = "unstar" => job'[u].seen # 0
                        /\ job'[u].pc = "write" /\ f \notin drifted /\ entry'[f].row = "live" =>
                             /\ job'[u].seen = entry'[f].stars
                             /\ \A w \in Request : job'[w].pc = "write" /\ job'[w].id = f => w = u
      BY <1>7 DEF Counters, Directory!There
    <3>1. u # t /\ Directory!Counting(u, f) /\ job'[u] = job[u]
      BY <2>7, NoTask DEF Directory!Counting
    <3>2. CASE f # e
      BY <1>1, <2>3, <2>7, <3>1, <3>2, NoTask DEF Counters, Directory!There
    <3>3. CASE f = e
      <4>1. job[u].pc = "write" => f \in drifted
        BY <1>1, <1>2, <1>7, <2>8, <3>1, <3>3 DEF Counters, Directory!Counting
      <4>2. job[u].pc = "write" /\ job[u].op = "unstar" => job[u].seen # 0
        BY <1>1, <3>1 DEF Counters
      <4> QED BY <2>8, <3>1, <3>3, <4>1, <4>2
    <3> QED BY <3>2, <3>3
  <2>11. Balances'
    <3> SUFFICES ASSUME NEW f \in Directory!EntryId, f \notin drifted, entry'[f].row = "live"
                 PROVE  Balanced(f)'
      BY <1>7 DEF Balances, Directory!There
    <3>1. Balanced(f) /\ entry[f].stars \in Nat
      BY <1>1, <1>4, <2>3, <2>8 DEF Balances, Entry, Directory!There
    <3>2. \A op : ~Counted(Directory!NoJob, f, op)
      BY NoTask DEF Counted
    <3>3. Givers(f)' = Givers(f)
      BY <1>4 DEF Givers
    <3>4. CASE f # e
      <4>1. \A op : Updates(f, op)' = Updates(f, op)
        BY <1>1, <1>2, <1>5, <3>2, <3>4, UpdatesKept DEF Counted
      <4> QED BY <2>3, <3>1, <3>3, <3>4, <4>1 DEF Balanced
    <3>5. CASE f = e
      <4>1. /\ Cardinality(Updates(f, o)') = Cardinality(Updates(f, o)) - 1
            /\ \A op : op # o => Updates(f, op)' = Updates(f, op)
        <5>1. Counted(job[t], f, o) /\ \A op : op # o => ~Counted(job[t], f, op)
          BY <1>1, <1>2, <1>3, <3>5 DEF Counted
        <5> QED BY <1>1, <1>5, <3>2, <5>1, UpdatesFewer, UpdatesKept
      <4>2. \A op : Cardinality(Updates(f, op)) \in Nat
        BY UpdatesFinite
      <4>3. Cardinality(Givers(f)) \in Nat
        BY <1>1, GiversFinite
      <4>4. job[t].seen = entry[f].stars /\ entry'[f].stars = n
        BY <2>5, <2>8, <3>5
      <4>5. CASE o = "star"
        <5>1. Updates(f, "unstar")' = Updates(f, "unstar") /\ n = entry[f].stars + 1
          BY <4>1, <4>4, <4>5 DEF n
        <5> QED BY <3>1, <3>3, <4>1, <4>2, <4>3, <4>4, <4>5, <5>1 DEF Balanced
      <4>6. CASE o = "unstar"
        <5>1. Updates(f, "star")' = Updates(f, "star") /\ n = entry[f].stars - 1
          BY <4>1, <4>4, <4>6 DEF n
        <5> QED BY <3>1, <3>3, <4>1, <4>2, <4>3, <4>4, <4>6, <5>1 DEF Balanced
      <4> QED BY <4>5, <4>6
    <3> QED BY <3>4, <3>5
  <2> QED BY <2>7, <2>9, <2>10, <2>11 DEF StarIInv
<1> QED BY <1>2, <1>6, <1>7 DEF Directory!WriteCount

LEMMA StarFirst == Directory!DirInit => StarIInv
<1> SUFFICES ASSUME Directory!DirInit PROVE StarIInv
  OBVIOUS
<1>1. PICK p \in User \X ListedSlug, q \in User \X ListedSlug :
        entry = [e \in Directory!EntryId |->
                   CASE e = 1 -> Directory!Offered(p[1], p[2], "public", <<>>)
                     [] e = 2 -> Directory!Offered(q[1], q[2], "public", <<>>)
                     [] OTHER -> Directory!NoEntry]
  BY DEF Directory!DirInit
<1>2. starred = {} /\ job = [t \in Request |-> Directory!NoJob]
  BY DEF Directory!DirInit, Directory!Still
<1>3. \A u \in User, l \in ListedSlug : /\ Directory!Offered(u, l, "public", <<>>) \in Entry
                                   /\ Directory!Offered(u, l, "public", <<>>).stars = 0
  BY DEF Directory!Offered, Entry
<1>4. Directory!NoEntry \in Entry /\ Directory!NoEntry.stars = 0
  BY DEF Directory!NoEntry, Entry
<1>5. \A e \in Directory!EntryId : entry[e] \in Entry /\ entry[e].stars = 0
  BY <1>1, <1>3, <1>4
<1>6. entry \in [Directory!EntryId -> Entry]
  BY <1>1, <1>5
<1>7. StarTypes
  BY <1>2, <1>6, NoTask, FS_EmptySet DEF StarTypes
<1>8. StarsHeld /\ Counters
  BY <1>2, NoTask DEF StarsHeld, Counters, Directory!Counting
<1>9. ASSUME NEW e \in Directory!EntryId PROVE Balanced(e)
  <2>1. Givers(e) = {} /\ \A op : Updates(e, op) = {}
    BY <1>2, NoTask DEF Givers, Updates, Directory!Counting
  <2> QED BY <1>5, <2>1, FS_EmptySet DEF Balanced
<1> QED BY <1>7, <1>8, <1>9 DEF StarIInv, Balances

LEMMA StarStep == StarIInv /\ [Directory!DirNext]_(Directory!dirVars) => StarIInv'
<1> SUFFICES ASSUME StarIInv, [Directory!DirNext]_(Directory!dirVars) PROVE StarIInv'
  OBVIOUS
<1>1. CASE UNCHANGED <<entry, starred, job, drifted>>
  <2>1. entry' = entry /\ starred' = starred /\ job' = job /\ drifted' = drifted
    BY <1>1
  <2>2. StarTypes' /\ StarsHeld'
    BY <2>1 DEF StarIInv, StarTypes, StarsHeld, Directory!There
  <2>3. Counters'
    BY <2>1 DEF StarIInv, Counters, Directory!There, Directory!Counting
  <2>4. \A e, op : Givers(e)' = Givers(e) /\ Updates(e, op)' = Updates(e, op)
    BY <2>1 DEF Givers, Updates, Directory!Counting
  <2>5. Balances'
    BY <2>1, <2>4 DEF StarIInv, Balances, Balanced, Directory!There
  <2> QED BY <2>2, <2>3, <2>5 DEF StarIInv
<1>2. ASSUME NEW u \in User, NEW s \in ListedSlug, NEW v \in {"public", "private"},
             NEW p \in PolicyLists, Directory!Publish(u, s, v, p)
      PROVE  StarIInv'
  BY <1>2, PublishSettles, Settles
<1>3. ASSUME NEW u \in User, Directory!RemoveAccount(u) PROVE StarIInv'
  BY <1>3, RemoveSettles, Settles
<1>4. ASSUME NEW u \in User, NEW t \in Request, NEW e \in Directory!EntryId,
             Directory!StarEndpoint(t, u, e) \/ Directory!UnstarEndpoint(t, u, e)
      PROVE  StarIInv'
  BY <1>4, StarKeeps
<1>5. ASSUME NEW u \in User, NEW t \in Request, NEW s \in ListedSlug,
             NEW e \in Directory!Resolved(u, s),
             Directory!StarEndpoint(t, u, e) \/ Directory!UnstarEndpoint(t, u, e)
      PROVE  StarIInv'
  <2>1. e \in Directory!EntryId
    BY DEF Directory!Resolved, Directory!UserEndpoints
  <2> QED BY <1>5, <2>1, StarKeeps
<1>6. ASSUME NEW e \in Directory!EntryId, NEW v \in {"public", "private"}, NEW p \in PolicyLists,
             Directory!Revise(e, v, p)
      PROVE  StarIInv'
  BY <1>6, ReviseSettles, Settles
<1>7. ASSUME NEW e \in Directory!EntryId, NEW active \in BOOLEAN,
             NEW stars \in {entry[e].stars, 2}, Directory!AdminUpdate(e, active, stars)
      PROVE  StarIInv'
  BY <1>7, AdminSettles, Settles
<1>8. ASSUME NEW e \in Directory!EntryId, Directory!Withdraw(e) PROVE StarIInv'
  BY <1>8, WithdrawSettles, Settles
<1>9. ASSUME NEW t \in Request,
             \/ Directory!WriteStarRow(t) \/ Directory!ReadCount(t) \/ Directory!WriteCount(t)
      PROVE  StarIInv'
  BY <1>9, RowKeeps, ReadKeeps, CountKeeps
<1>10. CASE Directory!Change
  BY <1>2, <1>3, <1>4, <1>5, <1>6, <1>7, <1>8, <1>9, <1>10 DEF Directory!Change
<1>11. CASE \/ \E v \in Directory!Views, goal \in {<<>>} \cup (User \X ListedSlug) :
                 Directory!BeginWalk(v, goal)
            \/ Directory!FetchPage \/ UNCHANGED Directory!dirVars
  <2>1. UNCHANGED <<entry, starred, job, drifted>>
    BY <1>11, Zenon DEF Directory!BeginWalk, Directory!FetchPage, Directory!dirVars
  <2> QED BY <1>1, <2>1
<1> QED BY <1>10, <1>11 DEF Directory!DirNext

LEMMA StarInvariant == Directory!DirSpec => []StarIInv
BY StarFirst, StarStep, PTL DEF Directory!DirSpec

(* The counter of an endpoint is the number of its star rows, but for the  *)
(* updates on their way, unless two of them overlapped, one was lost or met *)
(* a zero, an admin set it or an account that starred it went: for any     *)
(* number of users, requests and endpoints (endpoint_service.py:893-922,   *)
(* repositories/endpoint.py:891-918).                                      *)
THEOREM StarsAreCounted == Directory!DirSpec => []StarsCounted
<1>1. ASSUME StarIInv PROVE StarsCounted
  <2> SUFFICES ASSUME NEW e \in Directory!EntryId \ drifted, Directory!There(e)
               PROVE  entry[e].stars
                        + Directory!Cardinality({t \in Request : Directory!Counting(t, e)
                                                                   /\ job[t].op = "star"})
                      = Directory!Stars(e)
                        + Directory!Cardinality({t \in Request : Directory!Counting(t, e)
                                                                   /\ job[t].op = "unstar"})
    BY DEF StarsCounted, Directory!StarsCounted
  <2> QED BY <1>1, DirectoryCardinality DEF StarIInv, Balances, Balanced, Givers, Updates,
             Directory!Stars
<1> QED BY <1>1, StarInvariant, PTL

-----------------------------------------------------------------------------
(* The reader.  Walked is the list it walks as it is now, Ahead(e) what    *)
(* comes before e in it.                                                   *)
Walked == Directory!Listed(walk.view, entry)

First(e, f) == IF walk.view.name = "trending" THEN entry[e].stars > entry[f].stars ELSE e > f

Ahead(e) == {f \in Walked : First(f, e)}

Read == {walk.got[i] : i \in DOMAIN walk.got}

Walker == [pc : {"idle", "walking", "done"}, view : Directory!Views,
           goal : {<<>>} \cup (User \X ListedSlug), page : Nat, got : Seq(Directory!EntryId),
           stayed : SUBSET Directory!EntryId, left : BOOLEAN, joined : BOOLEAN,
           shuffled : BOOLEAN, failed : BOOLEAN]

WalkTypes == walk \in Walker /\ (walk.pc = "walking" => walk.stayed \subseteq Walked)

\* What stays in a list that nothing leaves only moves back, and is yet to
\* come if it has not been read; what is left in a list that nothing joins
\* only moves forward, and has been passed if it has been read.
YetToCome ==
    ~walk.left => \A e \in walk.stayed \ Read : Cardinality(Ahead(e)) >= walk.page * PageSize

Passed ==
    ~walk.joined => /\ Directory!IsInjective(walk.got)
                    /\ \A e \in Read \cap Walked : Cardinality(Ahead(e)) < walk.page * PageSize

\* An endpoint is of one owner, who has no two under one slug.
PathsUnique ==
    /\ \A e \in Directory!EntryId : Directory!There(e) =>
         entry[e].owner \in User /\ entry[e].slug \in ListedSlug
    /\ \A e, f \in Directory!EntryId :
         /\ Directory!There(e) /\ Directory!There(f)
         /\ entry[e].owner = entry[f].owner /\ entry[e].slug = entry[f].slug
         => e = f

WalkIInv ==
    /\ WalkTypes /\ PathsUnique
    /\ walk.pc = "walking" /\ ~walk.shuffled => YetToCome /\ Passed
    /\ Directory!WalkFaithful

-----------------------------------------------------------------------------
LEMMA DirectorySequences ==
  /\ \A S, x : x \in Directory!SetToSeqs(S) <=>
        /\ x \in [1..Cardinality(S) -> S]
        /\ \A i, j \in 1..Cardinality(S) : i # j => x[i] # x[j]
  /\ \A s : Directory!ToSet(s) = {s[i] : i \in DOMAIN s}
  /\ \A s : Directory!IsInjective(s) <=> \A i, j \in DOMAIN s : s[i] = s[j] => i = j
BY DirectoryCardinality DEF Directory!SetToSeqs, Directory!ToSet, Directory!IsInjective

LEMMA EntriesFinite ==
  ASSUME NEW S \in SUBSET Directory!EntryId
  PROVE  IsFiniteSet(S) /\ Cardinality(S) \in Nat
<1>1. IsFiniteSet(Directory!EntryId)
  BY EntryBounds, FS_Interval DEF Directory!EntryId
<1> QED BY <1>1, FS_Subset, FS_CardinalityType

LEMMA InjectiveCovers ==
  ASSUME NEW S, IsFiniteSet(S), Cardinality(S) \in Nat, NEW s \in [1..Cardinality(S) -> S],
         \A i, j \in 1..Cardinality(S) : i # j => s[i] # s[j]
  PROVE  \A x \in S : \E i \in 1..Cardinality(S) : s[i] = x
<1> DEFINE n == Cardinality(S)
<1>1. s \in Injection(1..n, S)
  BY Fun_IsInj
<1>2. IsFiniteSet(1..n) /\ Cardinality(1..n) = n
  BY FS_Interval
<1>3. s \in Surjection(1..n, S)
  BY <1>1, <1>2, FS_Injection
<1> QED BY <1>3, Fun_SurjectionProperties

\* The elements of a finite set of numbers in descending order.
Descending(S, s) ==
    /\ s \in [1..Cardinality(S) -> S]
    /\ \A x \in S : \E i \in 1..Cardinality(S) : s[i] = x
    /\ \A i, j \in 1..Cardinality(S) : i < j => s[i] > s[j]

LEMMA DescendingExists ==
  ASSUME NEW S \in SUBSET Directory!EntryId
  PROVE  \E s : Descending(S, s)
<1> DEFINE n == Cardinality(S)
           above(x) == {y \in S : y >= x}
           rank == [x \in S |-> Cardinality(above(x))]
<1>1. IsFiniteSet(S) /\ n \in Nat /\ S \subseteq Nat
  BY EntriesFinite DEF Directory!EntryId
<1>2. ASSUME NEW x \in S PROVE /\ IsFiniteSet(above(x)) /\ Cardinality(above(x)) \in 1..n
  <2>1. above(x) \in SUBSET S /\ x \in above(x)
    BY <1>1
  <2>2. IsFiniteSet(above(x)) /\ Cardinality(above(x)) <= n /\ Cardinality(above(x)) \in Nat
    BY <1>1, <2>1, FS_Subset, FS_CardinalityType
  <2>3. Cardinality(above(x)) # 0
    BY <2>1, <2>2, FS_EmptySet
  <2> QED BY <1>1, <2>2, <2>3
<1>3. ASSUME NEW x \in S, NEW y \in S, x > y PROVE Cardinality(above(x)) < Cardinality(above(y))
  <2>1. x \in Nat /\ y \in Nat
    BY <1>1
  <2>2. y \in above(y) /\ y \notin above(x)
    BY <1>3, <2>1
  <2>3. ASSUME NEW z \in above(x) PROVE z \in above(y)
    BY <1>1, <1>3, <2>1, <2>3
  <2>4. above(x) \in SUBSET above(y)
    BY <2>3
  <2> HIDE DEF above
  <2>5. /\ IsFiniteSet(above(y)) /\ Cardinality(above(x)) <= Cardinality(above(y))
        /\ Cardinality(above(x)) # Cardinality(above(y))
        /\ Cardinality(above(x)) \in Nat /\ Cardinality(above(y)) \in Nat
    BY <1>1, <1>2, <2>2, <2>4, FS_Subset
  <2> QED BY <2>5
<1>4. rank \in [S -> 1..n] /\ \A x \in S : rank[x] = Cardinality(above(x))
  BY <1>2
<1> HIDE DEF rank, above
<1>5. \A x, y \in S : x > y <=> rank[x] < rank[y]
  BY <1>1, <1>2, <1>3, <1>4
<1>6. rank \in Bijection(S, 1..n)
  <2>1. ASSUME NEW x \in S, NEW y \in S, rank[x] = rank[y] PROVE x = y
    <3>1. ~(rank[x] < rank[y]) /\ ~(rank[y] < rank[x])
      BY <1>4, <2>1
    <3> QED BY <1>1, <1>5, <3>1
  <2>2. IsFiniteSet(1..n) /\ Cardinality(1..n) = n
    BY <1>1, FS_Interval
  <2>3. rank \in Injection(S, 1..n)
    BY <1>4, <2>1, Fun_IsInj
  <2>4. rank \in Surjection(S, 1..n)
    BY <2>2, <2>3, FS_Injection
  <2> QED BY <2>3, <2>4, Fun_IsBij
<1>7. PICK s : /\ s \in Bijection(1..n, S) /\ \A x \in S : s[rank[x]] = x
  BY <1>6, Fun_BijInverse
<1> HIDE DEF n
<1>8. s \in [1..n -> S] /\ \A x \in S : \E i \in 1..n : s[i] = x
  BY <1>7 DEF Bijection, Injection, Surjection
<1>9. ASSUME NEW i \in 1..n PROVE rank[s[i]] = i
  <2>1. PICK x \in S : rank[x] = i
    BY <1>6 DEF Bijection, Surjection
  <2> QED BY <1>7, <2>1
<1>10. \A i, j \in 1..n : i < j => s[i] > s[j]
  BY <1>5, <1>8, <1>9
<1> QED BY <1>8, <1>10 DEF Descending, n

LEMMA NewestDescends ==
  ASSUME NEW S \in SUBSET Directory!EntryId
  PROVE  Descending(S, Directory!Newest(S))
<1> DEFINE n == Cardinality(S)
           P(s) == s \in Directory!SetToSeqs(S) /\ \A i, j \in DOMAIN s : i < j => s[i] > s[j]
<1>1. IsFiniteSet(S) /\ n \in Nat /\ S \subseteq Nat
  BY EntriesFinite DEF Directory!EntryId
<1>2. PICK s : Descending(S, s)
  BY DescendingExists
<1>3. P(s)
  <2>1. s \in [1..n -> S] /\ \A i, j \in 1..n : i < j => s[i] > s[j]
    BY <1>2 DEF Descending
  <2>2. ASSUME NEW i \in 1..n, NEW j \in 1..n, i # j PROVE s[i] # s[j]
    <3>1. i < j \/ j < i
      BY <2>2, <1>1
    <3>2. s[i] \in S /\ s[j] \in S
      BY <2>1
    <3>3. s[i] \in Nat /\ s[j] \in Nat
      BY <1>1, <3>2
    <3> QED BY <2>1, <3>1, <3>3
  <2> QED BY <2>1, <2>2, DirectorySequences
<1>4. P(Directory!Newest(S))
  <2>1. Directory!Newest(S) = CHOOSE x \in Directory!SetToSeqs(S) :
                                \A i, j \in DOMAIN x : i < j => x[i] > x[j]
    BY DEF Directory!Newest
  <2> QED BY <1>3, <2>1
<1> DEFINE t == Directory!Newest(S)
<1> HIDE DEF t
<1>5. /\ t \in [1..n -> S] /\ \A i, j \in 1..n : i # j => t[i] # t[j]
      /\ \A i, j \in 1..n : i < j => t[i] > t[j]
  BY <1>4, DirectorySequences DEF t
<1>6. \A x \in S : \E i \in 1..n : t[i] = x
  BY <1>1, <1>5, InjectiveCovers
<1> QED BY <1>5, <1>6 DEF Descending, t

-----------------------------------------------------------------------------
\* Steps that keep the paths of the endpoints that are there, and add none.
PathsStay ==
    \A e \in Directory!EntryId : entry'[e].row = "live" =>
        /\ Directory!There(e)
        /\ entry'[e].owner = entry[e].owner /\ entry'[e].slug = entry[e].slug

LEMMA PathsStayUnique ==
  ASSUME PathsUnique, PathsStay
  PROVE  PathsUnique'
BY DEF PathsUnique, PathsStay, Directory!There

LEMMA GonePathsStay ==
  ASSUME StarTypes, NEW S, Directory!Gone(S)
  PROVE  PathsStay
<1>1. \A e \in Directory!EntryId :
        entry'[e] = IF e \in S THEN [Directory!NoEntry EXCEPT !.row = "gone"] ELSE entry[e]
  BY DEF Directory!Gone
<1>2. [Directory!NoEntry EXCEPT !.row = "gone"].row = "gone"
  BY DEF Directory!NoEntry
<1> QED BY <1>1, <1>2 DEF PathsStay, Directory!There

LEMMA PublishPaths ==
  ASSUME StarTypes, PathsUnique, NEW u \in User, NEW s \in ListedSlug,
         NEW v \in {"public", "private"}, NEW p \in PolicyLists, Directory!Publish(u, s, v, p)
  PROVE  PathsUnique'
<1> DEFINE x == Directory!Offered(u, s, v, p)
<1>1. x.owner = u /\ x.slug = s
  BY DEF Directory!Offered
<1>2. PICK e \in Directory!EntryId : entry' = [entry EXCEPT ![e] = x]
  BY DEF Directory!Publish
<1>3. \A f \in Directory!EntryId : Directory!There(f) /\ entry[f].owner = u => entry[f].slug # s
  BY DEF Directory!Publish, Directory!UserEndpoints, Directory!There
<1> HIDE DEF x
<1>4. entry'[e] = x /\ \A f \in Directory!EntryId \ {e} : entry'[f] = entry[f]
  BY <1>2 DEF StarTypes
<1> QED BY <1>1, <1>3, <1>4 DEF PathsUnique, Directory!There

LEMMA ChangePaths ==
  ASSUME StarTypes, PathsUnique, Directory!Change
  PROVE  PathsUnique'
<1> USE DEF StarTypes
<1>1. ASSUME NEW u \in User, NEW s \in ListedSlug, NEW v \in {"public", "private"},
             NEW p \in PolicyLists, Directory!Publish(u, s, v, p)
      PROVE  PathsUnique'
  BY <1>1, PublishPaths
<1>2. ASSUME NEW u \in User, Directory!RemoveAccount(u) PROVE PathsStay
  BY <1>2, GonePathsStay DEF Directory!RemoveAccount
<1>3. ASSUME NEW e \in Directory!EntryId, Directory!Withdraw(e) PROVE PathsStay
  BY <1>3, GonePathsStay DEF Directory!Withdraw
<1>4. ASSUME entry' = entry PROVE PathsStay
  BY <1>4 DEF PathsStay, Directory!There
<1>5. ASSUME NEW u, NEW t, NEW e,
             Directory!StarEndpoint(t, u, e) \/ Directory!UnstarEndpoint(t, u, e)
      PROVE  PathsStay
  BY <1>4, <1>5 DEF Directory!StarEndpoint, Directory!UnstarEndpoint
<1>6. ASSUME NEW e \in Directory!EntryId, NEW v, NEW p, Directory!Revise(e, v, p) PROVE PathsStay
  <2>1. entry' = [entry EXCEPT ![e] = [entry[e] EXCEPT !.visibility = v, !.policies = p]]
    BY <1>6 DEF Directory!Revise
  <2>2. entry[e] \in Entry
    OBVIOUS
  <2> QED BY <2>1, <2>2 DEF PathsStay, Entry, Directory!There
<1>7. ASSUME NEW e \in Directory!EntryId, NEW active, NEW stars,
             Directory!AdminUpdate(e, active, stars)
      PROVE  PathsStay
  <2>1. entry' = [entry EXCEPT ![e] = [entry[e] EXCEPT !.active = active, !.stars = stars]]
    BY <1>7 DEF Directory!AdminUpdate
  <2>2. entry[e] \in Entry
    OBVIOUS
  <2> QED BY <2>1, <2>2 DEF PathsStay, Entry, Directory!There
<1>8. ASSUME NEW t, Directory!WriteStarRow(t) \/ Directory!ReadCount(t) PROVE PathsStay
  BY <1>4, <1>8 DEF Directory!WriteStarRow, Directory!ReadCount
<1>9. ASSUME NEW t \in Request, Directory!WriteCount(t) PROVE PathsStay
  <2> DEFINE e == job[t].id
             n == IF job[t].op = "star" THEN job[t].seen + 1 ELSE job[t].seen - 1
  <2>1. CASE entry' = [entry EXCEPT ![e].stars = n]
    <3> HIDE DEF n, e
    <3>1. \A f \in Directory!EntryId : entry[f] \in Entry
      OBVIOUS
    <3> QED BY <2>1, <3>1 DEF PathsStay, Entry, Directory!There
  <2> QED BY <1>4, <1>9, <2>1 DEF Directory!WriteCount
<1> QED BY <1>1, <1>2, <1>3, <1>5, <1>6, <1>7, <1>8, <1>9, PathsStayUnique DEF Directory!Change

-----------------------------------------------------------------------------
LEMMA ListedEntries ==
  ASSUME NEW v \in Directory!Views, NEW ep
  PROVE  Directory!Listed(v, ep) \in SUBSET Directory!EntryId
<1>1. v.name \in {"public", "guest", "trending", "owner", "own"}
  BY DEF Directory!Views, Directory!PublicViews, Directory!GuestViews, Directory!TrendingViews,
         Directory!OwnerViews, Directory!OwnViews
<1>2. Directory!Shown(ep) \subseteq Directory!EntryId
  BY DEF Directory!Shown
<1> QED BY <1>1, <1>2 DEF Directory!Listed, Directory!PublicEndpoints,
           Directory!GuestAccessible, Directory!Trending, Directory!PublicByOwner,
           Directory!UserEndpoints

LEMMA AheadFinite ==
  ASSUME WalkTypes, NEW e
  PROVE  IsFiniteSet(Ahead(e)) /\ Cardinality(Ahead(e)) \in Nat
<1>1. Ahead(e) \in SUBSET Directory!EntryId
  BY ListedEntries DEF Ahead, Walked, WalkTypes, Walker
<1> QED BY <1>1, EntriesFinite

LEMMA AheadGrows ==
  ASSUME NEW S, NEW T, S \subseteq T, IsFiniteSet(S), IsFiniteSet(T),
         Cardinality(S) \in Nat, Cardinality(T) \in Nat
  PROVE  Cardinality(S) <= Cardinality(T)
BY FS_Subset

\* A change of the rows: WatchWalk takes note of what it does to the list.
LEMMA WatchKeeps ==
  ASSUME WalkIInv, PathsUnique', walk.pc # "done", Directory!WatchWalk
  PROVE  WalkIInv'
<1> DEFINE after == Directory!Listed(walk.view, entry')
<1>1. WalkTypes /\ walk \in Walker /\ Walked = Directory!Listed(walk.view, entry)
  BY DEF WalkIInv, WalkTypes, Walked
<1>2. CASE walk.pc # "walking"
  <2>1. walk' = walk
    BY <1>2 DEF Directory!WatchWalk
  <2>2. WalkTypes' /\ Directory!WalkFaithful'
    BY <1>1, <1>2, <2>1 DEF WalkTypes, Directory!WalkFaithful
  <2> QED BY <1>2, <2>1, <2>2 DEF WalkIInv
<1>3. CASE walk.pc = "walking"
  <2>1. /\ walk' = [walk EXCEPT !.stayed = @ \cap after,
                        !.left = @ \/ ~(Walked \subseteq after),
                        !.joined = @ \/ ~(after \subseteq Walked),
                        !.shuffled = @ \/ (walk.view.name = "trending" /\
                            \E e \in Walked \cap after : entry'[e].stars # entry[e].stars)]
    BY <1>1, <1>3 DEF Directory!WatchWalk
  <2> HIDE DEF after
  <2>2. /\ walk' \in Walker /\ walk'.pc = "walking" /\ walk'.view = walk.view
        /\ walk'.page = walk.page /\ walk'.got = walk.got
        /\ walk'.stayed = walk.stayed \cap after
        /\ ~walk'.left => ~walk.left /\ Walked \subseteq after
        /\ ~walk'.joined => ~walk.joined /\ after \subseteq Walked
        /\ ~walk'.shuffled =>
             /\ ~walk.shuffled
             /\ walk.view.name = "trending" =>
                  \A e \in Walked \cap after : entry'[e].stars = entry[e].stars
    BY <1>1, <1>3, <2>1, Zenon DEF Walker
  <2>3. Walked' = after
    BY <2>2 DEF Walked, after
  <2>4. WalkTypes'
    BY <2>2, <2>3 DEF WalkTypes
  <2>5. Read' = Read
    BY <2>2 DEF Read
  <2>6. ASSUME ~walk'.shuffled, NEW e \in Walked \cap after, NEW f \in Walked \cap after
        PROVE  First(e, f)' <=> First(e, f)
    BY <2>2, <2>6 DEF First
  <2>7. ASSUME NEW e PROVE /\ IsFiniteSet(Ahead(e)) /\ Cardinality(Ahead(e)) \in Nat
                           /\ IsFiniteSet(Ahead(e)') /\ Cardinality(Ahead(e)') \in Nat
    <3>1. Ahead(e)' \in SUBSET Directory!EntryId
      <4>1. Walked' \in SUBSET Directory!EntryId
        BY <2>2, <2>3, ListedEntries DEF Walker, after
      <4> QED BY <4>1 DEF Ahead
    <3> QED BY <1>1, <3>1, AheadFinite, EntriesFinite
  <2>8. ASSUME ~walk'.shuffled PROVE YetToCome'
    <3> SUFFICES ASSUME ~walk'.left, NEW e \in walk'.stayed \ Read
                 PROVE  Cardinality(Ahead(e)') >= walk.page * PageSize
      BY <2>2, <2>5 DEF YetToCome
    <3>1. e \in walk.stayed \ Read /\ e \in Walked \cap after
      BY <1>1, <1>3, <2>2 DEF WalkTypes
    <3>2. Cardinality(Ahead(e)) >= walk.page * PageSize
      BY <1>3, <2>2, <2>8, <3>1 DEF WalkIInv, YetToCome
    <3>3. Ahead(e) \subseteq Ahead(e)'
      BY <2>2, <2>3, <2>6, <2>8, <3>1 DEF Ahead
    <3>4. Cardinality(Ahead(e)) <= Cardinality(Ahead(e)')
      BY <2>7, <3>3, AheadGrows
    <3>5. walk.page * PageSize \in Nat
      BY <1>1, EndpointsAssumption DEF Walker, Directory!DirectoryAssumption
    <3> QED BY <2>7, <3>2, <3>4, <3>5
  <2>9. ASSUME ~walk'.shuffled PROVE Passed'
    <3> SUFFICES ASSUME ~walk'.joined
                 PROVE  /\ Directory!IsInjective(walk.got)
                        /\ \A e \in Read \cap after : Cardinality(Ahead(e)') < walk.page * PageSize
      BY <2>2, <2>3, <2>5 DEF Passed
    <3>1. Passed /\ ~walk.joined
      BY <1>3, <2>2, <2>9 DEF WalkIInv
    <3>2. ASSUME NEW e \in Read \cap after PROVE Cardinality(Ahead(e)') < walk.page * PageSize
      <4>1. e \in Walked \cap after
        BY <2>2
      <4>2. Cardinality(Ahead(e)) < walk.page * PageSize
        BY <3>1, <4>1 DEF Passed
      <4>3. Ahead(e)' \subseteq Ahead(e)
        BY <2>2, <2>3, <2>6, <2>9, <4>1 DEF Ahead
      <4>4. Cardinality(Ahead(e)') <= Cardinality(Ahead(e))
        BY <2>7, <4>3, AheadGrows
      <4>5. walk.page * PageSize \in Nat
        BY <1>1, EndpointsAssumption DEF Walker, Directory!DirectoryAssumption
      <4> QED BY <2>7, <4>2, <4>4, <4>5
    <3> QED BY <3>1, <3>2 DEF Passed
  <2>10. Directory!WalkFaithful'
    BY <2>2 DEF Directory!WalkFaithful
  <2> QED BY <2>4, <2>8, <2>9, <2>10 DEF WalkIInv
<1> QED BY <1>2, <1>3

-----------------------------------------------------------------------------
\* The order a page is read from: when nothing ties, an entry's place is what
\* is ahead of it.
InOrder(order) ==
    /\ order \in [1..Cardinality(Walked) -> Walked]
    /\ \A e \in Walked : \E i \in 1..Cardinality(Walked) : order[i] = e
    /\ \A i, j \in 1..Cardinality(Walked) : i < j => First(order[i], order[j])

LEMMA OrdersInOrder ==
  ASSUME StarTypes, WalkTypes, ~Directory!Ties, NEW order \in Directory!Orders(walk.view)
  PROVE  InOrder(order)
<1> DEFINE n == Cardinality(Walked)
<1>1. /\ Walked \in SUBSET Directory!EntryId /\ IsFiniteSet(Walked) /\ n \in Nat
      /\ Walked = Directory!Listed(walk.view, entry)
  BY ListedEntries, EntriesFinite DEF WalkTypes, Walker, Walked
<1>2. CASE walk.view.name # "trending"
  <2>1. order = Directory!Newest(Walked)
    BY <1>1, <1>2 DEF Directory!Orders
  <2> QED BY <1>1, <1>2, <2>1, NewestDescends DEF Descending, InOrder, First
<1>3. CASE walk.view.name = "trending"
  <2>1. /\ order \in Directory!SetToSeqs(Walked)
        /\ \A i, j \in DOMAIN order : i < j => entry[order[i]].stars >= entry[order[j]].stars
    BY <1>1, <1>3 DEF Directory!Orders
  <2>2. order \in [1..n -> Walked] /\ \A i, j \in 1..n : i # j => order[i] # order[j]
    BY <2>1, DirectorySequences
  <2>3. \A e \in Walked : \E i \in 1..n : order[i] = e
    BY <1>1, <2>2, InjectiveCovers
  <2>4. \A e, f \in Walked : e # f => entry[e].stars # entry[f].stars
    BY <1>1, <1>3 DEF Directory!Ties
  <2>5. \A e \in Walked : entry[e].stars \in Nat
    BY <1>1 DEF StarTypes, Entry
  <2> HIDE DEF n
  <2>6. ASSUME NEW i \in 1..n, NEW j \in 1..n, i < j
        PROVE  entry[order[i]].stars > entry[order[j]].stars
    <3>1. i # j /\ DOMAIN order = 1..n
      BY <1>1, <2>2, <2>6
    <3>2. /\ order[i] \in Walked /\ order[j] \in Walked /\ order[i] # order[j]
          /\ entry[order[i]].stars >= entry[order[j]].stars
      BY <2>1, <2>2, <2>6, <3>1
    <3> QED BY <2>4, <2>5, <3>2
  <2> QED BY <1>3, <2>2, <2>3, <2>6 DEF InOrder, First, n
<1> QED BY <1>2, <1>3

LEMMA PlaceInOrder ==
  ASSUME StarTypes, WalkTypes, NEW order, InOrder(order), NEW i \in 1..Cardinality(Walked)
  PROVE  Cardinality(Ahead(order[i])) = i - 1
<1> DEFINE n == Cardinality(Walked)
           e == order[i]
           place == [j \in 1..(i - 1) |-> order[j]]
<1>1. /\ Walked \in SUBSET Directory!EntryId /\ IsFiniteSet(Walked) /\ n \in Nat
      /\ \A f \in Walked : f \in Nat /\ entry[f].stars \in Nat
  BY ListedEntries, EntriesFinite
  DEF WalkTypes, Walker, Walked, StarTypes, Entry, Directory!EntryId
<1>2. /\ order \in [1..n -> Walked] /\ \A f \in Walked : \E j \in 1..n : order[j] = f
      /\ \A j, k \in 1..n : j < k => First(order[j], order[k])
  BY DEF InOrder
<1>3. \A f, g \in Walked : ~(First(f, g) /\ First(g, f)) /\ ~First(f, f)
  BY <1>1 DEF First
<1> HIDE DEF n
<1>4. \A j, k \in 1..n : First(order[j], order[k]) <=> j < k
  <2> SUFFICES ASSUME NEW j \in 1..n, NEW k \in 1..n, First(order[j], order[k]) PROVE j < k
    BY <1>2
  <2>1. order[j] \in Walked /\ order[k] \in Walked
    BY <1>2
  <2>2. j # k /\ ~(k < j)
    BY <1>2, <1>3, <2>1
  <2> QED BY <1>1, <2>2
<1>5. i \in 1..n /\ i \in Nat /\ 1..(i - 1) \subseteq 1..n
  BY <1>1 DEF n
<1>6. \A f : f \in Ahead(e) <=> \E j \in 1..(i - 1) : order[j] = f
  <2>1. ASSUME NEW f \in Ahead(e) PROVE \E j \in 1..(i - 1) : order[j] = f
    <3>1. PICK j \in 1..n : order[j] = f
      BY <1>2 DEF Ahead
    <3>2. j < i
      BY <1>4, <1>5, <3>1 DEF Ahead
    <3> QED BY <1>1, <1>5, <3>1, <3>2
  <2>2. ASSUME NEW j \in 1..(i - 1) PROVE order[j] \in Ahead(e)
    <3>1. j \in 1..n /\ j < i
      BY <1>5
    <3> QED BY <1>2, <1>4, <1>5, <3>1 DEF Ahead
  <2> QED BY <2>1, <2>2
<1>7. place \in [1..(i - 1) -> Ahead(e)]
  BY <1>6
<1>8. ASSUME NEW j \in 1..(i - 1), NEW k \in 1..(i - 1), place[j] = place[k] PROVE j = k
  <2>1. j \in 1..n /\ k \in 1..n /\ order[j] = order[k] /\ order[j] \in Walked
    BY <1>2, <1>5, <1>8
  <2>2. ~(j < k) /\ ~(k < j)
    BY <1>3, <1>4, <2>1
  <2> QED BY <1>1, <2>1, <2>2
<1>9. place \in Injection(1..(i - 1), Ahead(e))
  BY <1>7, <1>8, Fun_IsInj
<1>10. place \in Surjection(1..(i - 1), Ahead(e))
  BY <1>6, <1>7, Fun_IsSurj
<1>11. IsFiniteSet(1..(i - 1)) /\ Cardinality(1..(i - 1)) = i - 1
  BY <1>5, FS_Interval
<1> QED BY <1>9, <1>10, <1>11, FS_Surjection

-----------------------------------------------------------------------------
\* The page read from an order: the places after skip, as many as fit.
PageOf(order, skip) ==
    SubSeq(order, skip + 1, IF skip + PageSize < Len(order) THEN skip + PageSize ELSE Len(order))

IsPage(page, order, n, skip) ==
    /\ Len(page) = IF skip + PageSize < n THEN PageSize ELSE IF skip < n THEN n - skip ELSE 0
    /\ \A k \in 1..Len(page) : skip + k \in 1..n /\ page[k] = order[skip + k]
    /\ \A i \in 1..n : skip < i /\ i <= skip + PageSize =>
         \E k \in 1..Len(page) : page[k] = order[i]

LEMMA PageFacts ==
  ASSUME NEW n \in Nat, NEW S, NEW order \in [1..n -> S], NEW skip \in Nat
  PROVE  PageOf(order, skip) \in Seq(S) /\ IsPage(PageOf(order, skip), order, n, skip)
<1>1. order \in Seq(S) /\ Len(order) = n /\ PageSize \in Nat /\ PageSize > 0
  BY EndpointsAssumption DEF Directory!DirectoryAssumption
<1> DEFINE last == IF skip + PageSize < n THEN skip + PageSize ELSE n
           pg == SubSeq(order, skip + 1, last)
<1>2. PageOf(order, skip) = pg /\ last \in Nat /\ last <= n
  BY <1>1 DEF PageOf
<1>3. Len(pg) = IF skip < last THEN last - skip ELSE 0
  BY <1>1, <1>2
<1>4. \A k \in 1..Len(pg) : pg[k] = order[skip + k] /\ skip + k \in 1..last
  BY <1>1, <1>2, <1>3
<1>5. pg \in Seq(S)
  BY <1>1, <1>2
<1> HIDE DEF pg
<1>6. Len(pg) = IF skip + PageSize < n THEN PageSize ELSE IF skip < n THEN n - skip ELSE 0
  BY <1>1, <1>3
<1>7. ASSUME NEW i \in 1..n, skip < i, i <= skip + PageSize
      PROVE  \E k \in 1..Len(pg) : pg[k] = order[i]
  <2>1. i - skip \in 1..Len(pg) /\ skip + (i - skip) = i
    BY <1>1, <1>6, <1>7
  <2> QED BY <1>4, <2>1
<1>8. \A k \in 1..Len(pg) : skip + k \in 1..n /\ pg[k] = order[skip + k]
  BY <1>2, <1>4
<1> QED BY <1>2, <1>5, <1>6, <1>7, <1>8 DEF IsPage

LEMMA OrdersListed ==
  ASSUME WalkTypes, NEW order \in Directory!Orders(walk.view)
  PROVE  order \in [1..Cardinality(Walked) -> Walked]
<1>1. Walked \in SUBSET Directory!EntryId /\ Walked = Directory!Listed(walk.view, entry)
  BY ListedEntries DEF WalkTypes, Walker, Walked
<1>2. CASE walk.view.name = "trending"
  BY <1>1, <1>2, DirectorySequences DEF Directory!Orders
<1>3. CASE walk.view.name # "trending"
  <2>1. order = Directory!Newest(Walked)
    BY <1>1, <1>3 DEF Directory!Orders
  <2> QED BY <1>1, <2>1, NewestDescends DEF Descending
<1> QED BY <1>2, <1>3

Ran(s) == {s[i] : i \in DOMAIN s}
Once(s) == \A i, j \in DOMAIN s : s[i] = s[j] => i = j

LEMMA Appended ==
  ASSUME NEW S, NEW s \in Seq(S), NEW t \in Seq(S)
  PROVE  /\ s \o t \in Seq(S) /\ Ran(s \o t) = Ran(s) \cup Ran(t)
         /\ Once(s) /\ Once(t) /\ Ran(s) \cap Ran(t) = {} => Once(s \o t)
<1> DEFINE u == s \o t
<1>1. /\ Len(s) \in Nat /\ Len(t) \in Nat /\ DOMAIN s = 1..Len(s) /\ DOMAIN t = 1..Len(t)
      /\ u \in Seq(S) /\ Len(u) = Len(s) + Len(t) /\ DOMAIN u = 1..Len(u)
  OBVIOUS
<1>2. \A i \in 1..Len(s) : i \in 1..Len(u) /\ u[i] = s[i]
  OBVIOUS
<1>3. \A k \in 1..Len(t) : Len(s) + k \in 1..Len(u) /\ u[Len(s) + k] = t[k]
  OBVIOUS
<1> HIDE DEF u
<1>4. ASSUME NEW i \in 1..Len(u), i \notin 1..Len(s)
      PROVE  i - Len(s) \in 1..Len(t) /\ i = Len(s) + (i - Len(s))
  BY <1>1, <1>4
<1>5. \A i \in 1..Len(u) : i \in 1..Len(s) \/ \E k \in 1..Len(t) : i = Len(s) + k
  BY <1>4
<1>6. Ran(u) = Ran(s) \cup Ran(t)
  <2>1. Ran(u) \subseteq Ran(s) \cup Ran(t)
    <3> SUFFICES ASSUME NEW i \in 1..Len(u) PROVE u[i] \in Ran(s) \cup Ran(t)
      BY <1>1 DEF Ran
    <3>1. CASE i \in 1..Len(s)
      BY <1>1, <1>2, <3>1 DEF Ran
    <3>2. ASSUME NEW k \in 1..Len(t), i = Len(s) + k PROVE u[i] \in Ran(t)
      BY <1>1, <1>3, <3>2 DEF Ran
    <3> QED BY <1>5, <3>1, <3>2
  <2>2. Ran(s) \subseteq Ran(u)
    <3> SUFFICES ASSUME NEW i \in 1..Len(s) PROVE s[i] \in Ran(u)
      BY <1>1 DEF Ran
    <3>1. i \in DOMAIN u /\ u[i] = s[i]
      BY <1>1, <1>2
    <3> QED BY <3>1 DEF Ran
  <2>3. Ran(t) \subseteq Ran(u)
    <3> SUFFICES ASSUME NEW k \in 1..Len(t) PROVE t[k] \in Ran(u)
      BY <1>1 DEF Ran
    <3>1. Len(s) + k \in DOMAIN u /\ u[Len(s) + k] = t[k]
      BY <1>1, <1>3
    <3> QED BY <3>1 DEF Ran
  <2> QED BY <2>1, <2>2, <2>3
<1>7. ASSUME Once(s), Once(t), Ran(s) \cap Ran(t) = {} PROVE Once(u)
  <2>1. ASSUME NEW i \in 1..Len(s), NEW k \in 1..Len(t) PROVE u[i] # u[Len(s) + k]
    <3>1. u[i] \in Ran(s) /\ u[Len(s) + k] \in Ran(t)
      BY <1>1, <1>2, <1>3 DEF Ran
    <3> QED BY <1>7, <3>1
  <2>2. \A i, j \in 1..Len(s) : u[i] = u[j] => i = j
    BY <1>1, <1>2, <1>7 DEF Once
  <2>3. \A k, l \in 1..Len(t) : u[Len(s) + k] = u[Len(s) + l] => k = l
    BY <1>1, <1>3, <1>7 DEF Once
  <2> SUFFICES ASSUME NEW i \in 1..Len(u), NEW j \in 1..Len(u), u[i] = u[j] PROVE i = j
    BY <1>1 DEF Once
  <2>4. CASE i \in 1..Len(s)
    BY <1>5, <2>1, <2>2, <2>4
  <2>5. CASE j \in 1..Len(s)
    BY <1>5, <2>1, <2>2, <2>5
  <2>6. CASE i \notin 1..Len(s) /\ j \notin 1..Len(s)
    BY <1>5, <2>3, <2>6
  <2> QED BY <2>4, <2>5, <2>6
<1> QED BY <1>1, <1>6, <1>7 DEF u

\* A page read: what it says of the reader's progress.
LEMMA FetchKeeps ==
  ASSUME StarTypes, WalkIInv, walk.pc = "walking", UNCHANGED <<entry, account, starred, job>>,
         NEW order \in Directory!Orders(walk.view),
         NEW page, page = PageOf(order, walk.page * PageSize),
         walk' = [walk EXCEPT !.pc = IF (\E i \in DOMAIN page : Directory!IsGoal(page[i]))
                                          \/ Directory!LastPage(Len(page)) THEN "done" ELSE @,
                              !.page = @ + 1, !.got = @ \o page,
                              !.shuffled = @ \/ Directory!Ties]
  PROVE  WalkIInv'
<1> DEFINE n == Cardinality(Walked)
           skip == walk.page * PageSize
           far == (walk.page + 1) * PageSize
           hit == \E i \in DOMAIN page : Directory!IsGoal(page[i])
<1>1. /\ WalkTypes /\ walk \in Walker /\ Walked \in SUBSET Directory!EntryId /\ n \in Nat
      /\ PathsUnique /\ walk.stayed \subseteq Walked /\ walk.page \in Nat
      /\ walk.got \in Seq(Directory!EntryId)
      /\ ~walk.shuffled => YetToCome /\ Passed
  BY ListedEntries, EntriesFinite DEF WalkIInv, WalkTypes, Walker, Walked
<1>2. skip \in Nat /\ far = skip + PageSize /\ PageSize \in Nat /\ PageSize > 0
  BY <1>1, EndpointsAssumption DEF Directory!DirectoryAssumption
<1>3. order \in [1..n -> Walked]
  BY <1>1, OrdersListed
<1> HIDE DEF n, skip, far
<1>4. /\ page \in Seq(Directory!EntryId)
      /\ Len(page) = IF far < n THEN PageSize ELSE IF skip < n THEN n - skip ELSE 0
      /\ \A k \in 1..Len(page) : skip + k \in 1..n /\ page[k] = order[skip + k]
      /\ \A i \in 1..n : skip < i /\ i <= far => \E k \in 1..Len(page) : page[k] = order[i]
  <2>1. page = PageOf(order, skip)
    BY DEF skip
  <2>2. page \in Seq(Walked) /\ IsPage(page, order, n, skip)
    BY <1>1, <1>2, <1>3, <2>1, PageFacts
  <2>3. page \in Seq(Directory!EntryId)
    BY <1>1, <2>2
  <2> QED BY <1>2, <2>2, <2>3 DEF IsPage
<1>5. /\ walk' \in Walker /\ walk'.view = walk.view /\ walk'.page = walk.page + 1
      /\ walk'.got = walk.got \o page /\ walk'.stayed = walk.stayed
      /\ walk'.left = walk.left /\ walk'.joined = walk.joined /\ walk'.goal = walk.goal
      /\ walk'.failed = walk.failed
      /\ ~walk'.shuffled => ~walk.shuffled /\ ~Directory!Ties
      /\ walk'.pc = IF hit \/ Directory!LastPage(Len(page)) THEN "done" ELSE "walking"
  <2>1. walk.page + 1 \in Nat /\ walk.got \o page \in Seq(Directory!EntryId)
    BY <1>1, <1>4
  <2>2. Directory!Ties \in BOOLEAN
    BY DEF Directory!Ties
  <2> QED BY <1>1, <2>1, <2>2, Zenon DEF Walker
<1>6. Walked' = Walked /\ entry' = entry
  BY <1>5 DEF Walked
<1>7. WalkTypes' /\ PathsUnique'
  BY <1>1, <1>5, <1>6 DEF WalkTypes, PathsUnique, Directory!There
<1>8. /\ Read' = Read \cup Ran(page) /\ Read = Ran(walk.got)
      /\ DOMAIN page = 1..Len(page) /\ Len(page) \in Nat
      /\ Once(walk.got) /\ Once(page) /\ Read \cap Ran(page) = {} => Once(walk'.got)
  <2>1. walk.got \in Seq(Directory!EntryId) /\ page \in Seq(Directory!EntryId)
    BY <1>1, <1>4
  <2>2. Read = Ran(walk.got) /\ Read' = Ran(walk.got \o page)
    BY <1>5 DEF Read, Ran
  <2> QED BY <1>5, <2>1, <2>2, Appended
<1>9. Ran(page) = {page[k] : k \in 1..Len(page)}
  BY <1>8 DEF Ran
<1>10. \A e : Ahead(e)' = Ahead(e)
  BY <1>5, <1>6 DEF Ahead, First
<1>11. ASSUME ~walk'.shuffled
       PROVE  /\ YetToCome /\ Passed /\ order \in [1..n -> Walked]
              /\ \A e \in Walked : \E i \in 1..n : order[i] = e
              /\ \A i \in 1..n : Cardinality(Ahead(order[i])) = i - 1
  <2>1. InOrder(order)
    BY <1>1, <1>5, <1>11, OrdersInOrder
  <2> QED BY <1>1, <1>5, <1>11, <2>1, PlaceInOrder DEF InOrder, n
\* What stayed and has not been read is behind this page too.
<1>12. ASSUME ~walk'.shuffled, ~walk.left, NEW e \in walk.stayed \ Read'
       PROVE  Cardinality(Ahead(e)) >= far /\ far < n
  <2>1. PICK i \in 1..n : order[i] = e /\ Cardinality(Ahead(e)) = i - 1
    BY <1>1, <1>11, <1>12
  <2>2. i - 1 >= skip
    BY <1>8, <1>11, <1>12, <2>1 DEF YetToCome, skip
  <2>3. \A k \in 1..Len(page) : page[k] # order[i]
    BY <1>8, <1>9, <1>12, <2>1
  <2>4. ~(skip < i /\ i <= far)
    BY <1>4, <2>3
  <2>5. i > far
    BY <1>1, <1>2, <2>2, <2>4
  <2> QED BY <1>1, <1>2, <2>1, <2>5
<1>13. ASSUME ~walk'.shuffled PROVE YetToCome'
  BY <1>5, <1>10, <1>12, <1>13 DEF YetToCome, far
\* What was read before is ahead of this page.
<1>14. ASSUME ~walk'.shuffled, ~walk.joined, NEW k \in 1..Len(page)
       PROVE  /\ page[k] \notin Read /\ page[k] \in Walked
              /\ Cardinality(Ahead(page[k])) = skip + k - 1 /\ skip + k <= far
  <2>1. skip + k \in 1..n /\ page[k] = order[skip + k] /\ page[k] \in Walked
    BY <1>3, <1>4
  <2>2. Cardinality(Ahead(page[k])) = skip + k - 1
    <3> DEFINE i == skip + k
    <3>1. i \in 1..n /\ page[k] = order[i]
      BY <2>1
    <3> HIDE DEF i
    <3>2. Cardinality(Ahead(order[i])) = i - 1
      BY <1>11, <1>14, <3>1
    <3>3. Cardinality(Ahead(page[k])) = i - 1 /\ i = skip + k
      BY <3>1, <3>2 DEF i
    <3> QED BY <1>2, <1>8, <3>3
  <2>3. ~(skip + k - 1 < skip) /\ skip + k <= far
    BY <1>1, <1>2, <1>4
  <2>4. page[k] \notin Read
    BY <1>11, <1>14, <2>1, <2>2, <2>3 DEF Passed, skip
  <2> QED BY <2>1, <2>2, <2>3, <2>4
<1>15. ASSUME ~walk'.shuffled PROVE Passed'
  <2> SUFFICES ASSUME ~walk.joined
               PROVE  /\ Directory!IsInjective(walk'.got)
                      /\ \A e \in Read' \cap Walked : Cardinality(Ahead(e)) < far
    BY <1>5, <1>6, <1>10 DEF Passed, far
  <2>1. Directory!IsInjective(walk.got)
    BY <1>11, <1>15 DEF Passed
  <2>2. Once(walk.got)
    BY <2>1, DirectorySequences DEF Once
  <2>3. \A k, l \in 1..Len(page) : page[k] = page[l] => k = l
    <3> SUFFICES ASSUME NEW k \in 1..Len(page), NEW l \in 1..Len(page), page[k] = page[l]
                 PROVE  k = l
      OBVIOUS
    <3>1. skip + k - 1 = skip + l - 1
      BY <1>14, <1>15
    <3> QED BY <1>2, <3>1
  <2>4. Once(walk'.got)
    <3>1. Once(page)
      BY <1>8, <2>3 DEF Once
    <3>2. Read \cap Ran(page) = {}
      BY <1>9, <1>14, <1>15
    <3> QED BY <1>8, <2>2, <3>1, <3>2
  <2>5. ASSUME NEW e \in Read' \cap Walked PROVE Cardinality(Ahead(e)) < far
    <3>1. Cardinality(Ahead(e)) \in Nat
      BY <1>1, AheadFinite
    <3>2. CASE e \in Read
      <4>1. Cardinality(Ahead(e)) < skip
        BY <1>11, <1>15, <2>5, <3>2 DEF Passed, skip
      <4> QED BY <1>2, <3>1, <4>1
    <3>3. CASE e \notin Read
      <4>1. PICK k \in 1..Len(page) : e = page[k]
        BY <1>8, <1>9, <2>5, <3>3
      <4>2. Cardinality(Ahead(e)) = skip + k - 1 /\ skip + k <= far
        BY <1>14, <1>15, <4>1
      <4> QED BY <1>2, <4>2
    <3> QED BY <3>2, <3>3
  <2> QED BY <2>4, <2>5, DirectorySequences DEF Once
<1>16. Directory!WalkFaithful'
  <2> SUFFICES ASSUME walk'.pc = "done", ~walk'.shuffled
               PROVE  /\ ~walk.left => \/ Directory!Found'
                                       \/ walk.stayed \subseteq Directory!ToSet(walk'.got)
                      /\ ~walk.joined => Directory!IsInjective(walk'.got)
    BY <1>5 DEF Directory!WalkFaithful
  <2>1. CASE hit
    <3>1. PICK k \in 1..Len(page) : Directory!IsGoal(page[k])
      BY <1>8, <2>1
    <3>2. page[k] \in Read'
      BY <1>8, <1>9, SMTT(30)
    <3>3. walk'.goal = <<entry'[page[k]].owner, entry'[page[k]].slug>>
      BY <1>5, <1>6, <3>1 DEF Directory!IsGoal
    <3>4. PICK i \in DOMAIN walk'.got : walk'.got[i] = page[k]
      BY <3>2 DEF Read
    <3>5. Directory!Found'
      BY <3>3, <3>4 DEF Directory!Found, Directory!IsGoal
    <3> QED BY <1>5, <1>15, <3>5 DEF Passed
  <2>2. CASE Directory!LastPage(Len(page))
    <3>1. ~(far < n)
      BY <1>2, <1>4, <2>2 DEF Directory!LastPage
    <3>2. Directory!ToSet(walk'.got) = Read'
      BY DirectorySequences DEF Read
    <3> QED BY <1>5, <1>12, <1>15, <3>1, <3>2 DEF Passed
  <2> QED BY <1>5, <2>1, <2>2
<1> QED BY <1>7, <1>13, <1>15, <1>16 DEF WalkIInv

-----------------------------------------------------------------------------
LEMMA NoWalkTyped ==
  /\ Directory!NoWalk \in Walker /\ Directory!NoWalk.pc = "idle"
  /\ Directory!NoWalk.got = <<>> /\ Directory!NoWalk.page = 0
<1>1. <<>> \in Seq(Directory!EntryId) /\ 0 \in Nat
  OBVIOUS
<1>2. Directory!NoWalk.view \in Directory!Views
  BY DEF Directory!NoWalk, Directory!Views, Directory!PublicViews
<1> QED BY <1>1, <1>2 DEF Directory!NoWalk, Walker

LEMMA WalkFirst == Directory!DirInit => WalkIInv
<1> SUFFICES ASSUME Directory!DirInit PROVE WalkIInv
  OBVIOUS
<1>1. PICK p \in User \X ListedSlug, q \in User \X ListedSlug :
        /\ p # q
        /\ entry = [e \in Directory!EntryId |->
                      CASE e = 1 -> Directory!Offered(p[1], p[2], "public", <<>>)
                        [] e = 2 -> Directory!Offered(q[1], q[2], "public", <<>>)
                        [] OTHER -> Directory!NoEntry]
  BY DEF Directory!DirInit
<1>2. walk = Directory!NoWalk
  BY DEF Directory!DirInit, Directory!Still
<1>3. \A u \in User, l \in ListedSlug : /\ Directory!Offered(u, l, "public", <<>>).owner = u
                                        /\ Directory!Offered(u, l, "public", <<>>).slug = l
  BY DEF Directory!Offered
<1>4. Directory!NoEntry.row = "free"
  BY DEF Directory!NoEntry
<1>5. \A e \in Directory!EntryId : Directory!There(e) =>
        \/ e = 1 /\ entry[e].owner = p[1] /\ entry[e].slug = p[2]
        \/ e = 2 /\ entry[e].owner = q[1] /\ entry[e].slug = q[2]
  BY <1>1, <1>3, <1>4 DEF Directory!There
<1>6. p = <<p[1], p[2]>> /\ q = <<q[1], q[2]>> /\ <<p[1], p[2]>> # <<q[1], q[2]>>
  BY <1>1
<1>7. PathsUnique
  BY <1>5, <1>6 DEF PathsUnique
<1> QED BY <1>2, <1>7, NoWalkTyped DEF WalkIInv, WalkTypes, Directory!WalkFaithful

LEMMA BeginKeeps ==
  ASSUME StarTypes, WalkIInv, NEW v \in Directory!Views,
         NEW goal \in {<<>>} \cup (User \X ListedSlug), Directory!BeginWalk(v, goal)
  PROVE  WalkIInv'
<1> DEFINE all == Directory!Listed(v, entry)
<1>1. /\ entry' = entry
      /\ walk' = [Directory!NoWalk EXCEPT !.pc = "walking", !.view = v, !.goal = goal,
                                          !.stayed = all]
  BY DEF Directory!BeginWalk
<1>2. all \in SUBSET Directory!EntryId
  BY ListedEntries
<1> HIDE DEF all
<1>3. /\ walk' \in Walker /\ walk'.pc = "walking" /\ walk'.view = v /\ walk'.stayed = all
      /\ walk'.got = <<>> /\ walk'.page = 0
  BY <1>1, <1>2, NoWalkTyped DEF Walker
<1>4. Walked' = all
  BY <1>1, <1>3 DEF Walked, all
<1>5. WalkTypes' /\ PathsUnique' /\ Directory!WalkFaithful'
  BY <1>1, <1>3, <1>4 DEF WalkIInv, WalkTypes, PathsUnique, Directory!There,
                          Directory!WalkFaithful
<1>6. PageSize \in Nat /\ walk'.page * PageSize = 0
  BY <1>3, EndpointsAssumption DEF Directory!DirectoryAssumption
<1>7. \A e : Cardinality(Ahead(e)') \in Nat
  <2> SUFFICES ASSUME NEW e PROVE Ahead(e)' \in SUBSET Directory!EntryId
    BY EntriesFinite
  <2> QED BY <1>2, <1>4 DEF Ahead
<1>8. YetToCome'
  BY <1>6, <1>7 DEF YetToCome
<1>9. Passed'
  BY <1>3, DirectorySequences DEF Passed, Read
<1> QED BY <1>5, <1>8, <1>9 DEF WalkIInv

LEMMA WalkStep ==
  StarTypes /\ WalkIInv /\ [Directory!DirNext]_(Directory!dirVars) => WalkIInv'
<1> SUFFICES ASSUME StarTypes, WalkIInv, [Directory!DirNext]_(Directory!dirVars)
             PROVE  WalkIInv'
  OBVIOUS
<1>1. CASE walk.pc # "done" /\ Directory!Change /\ Directory!WatchWalk
  BY <1>1, ChangePaths, WatchKeeps DEF WalkIInv
<1>2. ASSUME NEW v \in Directory!Views, NEW goal \in {<<>>} \cup (User \X ListedSlug),
             Directory!BeginWalk(v, goal)
      PROVE  WalkIInv'
  BY <1>2, BeginKeeps, SMTT(30)
<1>3. CASE Directory!FetchPage
  <2>1. walk.pc = "walking" /\ UNCHANGED <<entry, account, starred, job>>
    BY <1>3, Zenon DEF Directory!FetchPage
  <2>2. ASSUME NEW order \in Directory!Orders(walk.view),
               NEW page, page = PageOf(order, walk.page * PageSize),
               walk' = [walk EXCEPT
                          !.pc = IF (\E i \in DOMAIN page : Directory!IsGoal(page[i]))
                                      \/ Directory!LastPage(Len(page)) THEN "done" ELSE @,
                          !.page = @ + 1, !.got = @ \o page, !.shuffled = @ \/ Directory!Ties]
        PROVE  WalkIInv'
    BY <2>1, <2>2, FetchKeeps, Zenon
  <2>3. CASE walk' = [walk EXCEPT !.pc = "done", !.failed = TRUE]
    <3>1. /\ walk' \in Walker /\ walk'.pc = "done" /\ walk'.failed
      BY <2>3 DEF WalkIInv, WalkTypes, Walker
    <3> QED BY <2>1, <3>1 DEF WalkIInv, WalkTypes, PathsUnique, Directory!There,
                             Directory!WalkFaithful
  <2> QED BY <1>3, <2>2, <2>3, Zenon DEF Directory!FetchPage, PageOf
<1>4. CASE UNCHANGED Directory!dirVars
  <2>1. entry' = entry /\ walk' = walk
    BY <1>4 DEF Directory!dirVars
  <2>2. WalkTypes' /\ PathsUnique' /\ Directory!WalkFaithful'
    BY <2>1 DEF WalkIInv, WalkTypes, Walked, PathsUnique, Directory!There,
                Directory!WalkFaithful, Directory!Found, Directory!IsGoal
  <2>3. (YetToCome /\ Passed)' <=> YetToCome /\ Passed
    BY <2>1 DEF YetToCome, Passed, Read, Ahead, Walked, First
  <2> QED BY <2>1, <2>2, <2>3 DEF WalkIInv
<1> QED BY <1>1, <1>2, <1>3, <1>4 DEF Directory!DirNext

LEMMA WalkInvariant == Directory!DirSpec => [](StarIInv /\ WalkIInv)
<1>1. StarIInv /\ WalkIInv /\ [Directory!DirNext]_(Directory!dirVars) => WalkIInv'
  BY WalkStep DEF StarIInv
<1> QED BY <1>1, WalkFirst, StarInvariant, PTL DEF Directory!DirSpec

-----------------------------------------------------------------------------
(* The views of one state.                                                 *)

\* Those of an owner's public endpoints that have one of the types.
OfTypes(u, types) ==
    {e \in Directory!PublicByOwner(entry, u) : TypeOf[entry[e].slug] \in types}

LEMMA OwnerCounts ==
  ASSUME StarTypes, PathsUnique, NEW u, u \in DOMAIN Directory!Owners(entry)
  PROVE  LET o == Directory!Owners(entry)[u]
         IN /\ o.endpoint_count = Cardinality(Directory!PublicByOwner(entry, u))
            /\ o.model_count + o.data_source_count <= o.endpoint_count
<1> DEFINE o == Directory!Owners(entry)[u]
           all == Directory!PublicByOwner(entry, u)
           M == OfTypes(u, {"model"})
           D == OfTypes(u, {"data_source"})
<1>1. /\ o.endpoint_count = Cardinality(OfTypes(u, Directory!EndpointType))
      /\ o.model_count = Cardinality(M) /\ o.data_source_count = Cardinality(D)
  BY DirectoryCardinality DEF Directory!Owners, Directory!Counted, OfTypes
<1>2. \A e \in all : TypeOf[entry[e].slug] \in Directory!EndpointType
  <2>1. \A e \in all : e \in Directory!EntryId /\ Directory!There(e)
    BY DEF Directory!PublicByOwner, Directory!Shown, Directory!There
  <2> QED BY <2>1, EndpointsAssumption DEF PathsUnique, Directory!DirectoryAssumption
<1>3. OfTypes(u, Directory!EndpointType) = all
  BY <1>2 DEF OfTypes
<1>4. /\ M \cap D = {} /\ M \cup D \in SUBSET all /\ M \in SUBSET all /\ D \in SUBSET all
      /\ all \in SUBSET Directory!EntryId
  BY DEF OfTypes, Directory!PublicByOwner, Directory!Shown
<1> HIDE DEF M, D, all, o
<1>5. /\ IsFiniteSet(M) /\ IsFiniteSet(D) /\ IsFiniteSet(all)
      /\ Cardinality(M) \in Nat /\ Cardinality(D) \in Nat /\ Cardinality(all) \in Nat
  <2>1. M \in SUBSET Directory!EntryId /\ D \in SUBSET Directory!EntryId
    BY <1>4
  <2> QED BY <1>4, <2>1, EntriesFinite
<1>6. Cardinality(M \cup D) = Cardinality(M) + Cardinality(D)
  BY <1>4, <1>5, FS_Union, FS_EmptySet
<1>7. Cardinality(M \cup D) <= Cardinality(all)
  BY <1>4, <1>5, FS_Subset
<1> QED BY <1>1, <1>3, <1>6, <1>7 DEF all, o

LEMMA GroupsOfOwners ==
  ASSUME NEW u, u \in DOMAIN Directory!Grouped(entry)
  PROVE  LET g == Directory!Grouped(entry)[u]
             all == Directory!PublicByOwner(entry, u)
         IN /\ g.total_count = Cardinality(all)
            /\ g.has_more <=> g.total_count > Len(g.endpoints)
            /\ Directory!ToSet(g.endpoints) \subseteq all
<1> DEFINE g == Directory!Grouped(entry)[u]
           all == Directory!PublicByOwner(entry, u)
           n == Cardinality(all)
           s == Directory!Newest(all)
           last == IF n < MaxPerOwner THEN n ELSE MaxPerOwner
<1>1. all \in SUBSET Directory!EntryId
  BY DEF Directory!PublicByOwner, Directory!Shown
<1>2. n \in Nat /\ s \in [1..n -> all] /\ MaxPerOwner \in Nat /\ MaxPerOwner > 0
  BY <1>1, EntriesFinite, NewestDescends, EndpointsAssumption
  DEF Descending, Directory!DirectoryAssumption
<1>3. s \in Seq(all) /\ Len(s) = n
  BY <1>2
<1>4. /\ g.endpoints = SubSeq(s, 1, IF Len(s) < MaxPerOwner THEN Len(s) ELSE MaxPerOwner)
      /\ g.total_count = Len(s) /\ g.has_more = (Len(s) > MaxPerOwner)
  BY DEF Directory!Grouped
<1> HIDE DEF s, all, g, n
<1>5. g.endpoints = SubSeq(s, 1, last) /\ last \in 0..n
  BY <1>2, <1>3, <1>4
<1>6. /\ SubSeq(s, 1, last) \in Seq(all) /\ Len(SubSeq(s, 1, last)) = last
  BY <1>2, <1>3, <1>5
<1> DEFINE x == g.endpoints
<1>7. x \in Seq(all) /\ Len(x) = last
  BY <1>5, <1>6
<1> HIDE DEF x
<1>8. Directory!ToSet(x) \subseteq all
  BY <1>7, DirectorySequences
<1>9. (Len(s) > MaxPerOwner) <=> Len(s) > Len(x)
  BY <1>2, <1>3, <1>7
<1>10. g.total_count = n /\ (g.has_more <=> g.total_count > Len(x))
  BY <1>3, <1>4, <1>9
<1> QED BY <1>8, <1>10 DEF s, all, g, n, x

LEMMA OnePerPath ==
  ASSUME PathsUnique, NEW u, NEW s
  PROVE  Directory!Cardinality(Directory!PublicByPath(entry, u, s)) <= 1
<1> DEFINE P == Directory!PublicByPath(entry, u, s)
<1>1. \A e, f \in P : e = f
  BY DEF Directory!PublicByPath, Directory!PublicByOwner, Directory!Shown, PathsUnique,
         Directory!There
<1> HIDE DEF P
<1>2. P = {} \/ \E e : P = {e}
  BY <1>1
<1>3. Cardinality(P) = 0 \/ Cardinality(P) = 1
  BY <1>2, FS_EmptySet, FS_Singleton
<1> QED BY <1>3, DirectoryCardinality DEF P

LEMMA ViewsAgree ==
  ASSUME StarTypes, PathsUnique
  PROVE  Directory!DirectoriesAgree
<1> DEFINE all == Directory!PublicEndpoints(entry, "any")
           owners == Directory!Owners(entry)
           groups == Directory!Grouped(entry)
<1>1. \A e \in Directory!EntryId : Directory!There(e) =>
        /\ TypeOf[entry[e].slug] \in Directory!EndpointType
        /\ entry[e].owner \in User /\ entry[e].slug \in ListedSlug
  BY EndpointsAssumption DEF PathsUnique, Directory!DirectoryAssumption
<1>2. all = Directory!Shown(entry)
  <2>1. Directory!MatchingTypes("any") = Directory!EndpointType
    BY DEF Directory!MatchingTypes
  <2> QED BY <1>1, <2>1 DEF Directory!PublicEndpoints, Directory!Shown, Directory!There
<1>3. /\ DOMAIN owners = {entry[e].owner : e \in Directory!Shown(entry)}
      /\ DOMAIN groups = DOMAIN owners
  BY DEF Directory!Owners, Directory!Grouped
<1>4. ASSUME NEW u \in User
      PROVE  /\ u \in DOMAIN owners <=> Directory!PublicByOwner(entry, u) # {}
             /\ u \in DOMAIN owners =>
                  LET o == owners[u]
                      g == groups[u]
                  IN /\ o.endpoint_count = g.total_count
                     /\ o.model_count + o.data_source_count <= o.endpoint_count
                     /\ g.has_more <=> g.total_count > Len(g.endpoints)
                     /\ Directory!ToSet(g.endpoints) \subseteq all
  <2>1. u \in DOMAIN owners <=> Directory!PublicByOwner(entry, u) # {}
    BY <1>3 DEF Directory!PublicByOwner
  <2>2. Directory!PublicByOwner(entry, u) \subseteq all
    BY <1>2 DEF Directory!PublicByOwner
  <2> HIDE DEF all
  <2>3. u \in DOMAIN owners =>
          /\ owners[u].endpoint_count = groups[u].total_count
          /\ owners[u].model_count + owners[u].data_source_count <= owners[u].endpoint_count
          /\ groups[u].has_more <=> groups[u].total_count > Len(groups[u].endpoints)
          /\ Directory!ToSet(groups[u].endpoints) \subseteq all
    BY <1>3, <2>2, OwnerCounts, GroupsOfOwners
  <2> QED BY <2>1, <2>3
<1>5. all = UNION {Directory!PublicByPath(entry, u, s) : u \in User, s \in ListedSlug}
  <2>1. \A e \in all : entry[e].owner \in User /\ entry[e].slug \in ListedSlug
    BY <1>1, <1>2 DEF Directory!Shown, Directory!There
  <2>2. ASSUME NEW e \in all
        PROVE  e \in Directory!PublicByPath(entry, entry[e].owner, entry[e].slug)
    BY <1>2 DEF Directory!PublicByPath, Directory!PublicByOwner
  <2>3. \A u, s : Directory!PublicByPath(entry, u, s) \subseteq all
    BY <1>2 DEF Directory!PublicByPath, Directory!PublicByOwner
  <2> HIDE DEF all
  <2> QED BY <2>1, <2>2, <2>3
<1>6. ASSUME NEW e \in Directory!GuestAccessible(entry, "any")
      PROVE  e \in all /\ \A u \in User : Directory!VisiblePolicies(entry[e].policies, u) = {}
  <2>1. e \in all /\ entry[e].policies = <<>>
    BY <1>6 DEF Directory!GuestAccessible
  <2>2. DOMAIN <<>> = {}
    OBVIOUS
  <2> QED BY <2>1, <2>2 DEF Directory!VisiblePolicies
<1> QED BY <1>4, <1>5, <1>6, OnePerPath DEF Directory!DirectoriesAgree

(* A walk through a listing that ends without a failed query has met every *)
(* endpoint that was listed all along, unless one left it or it was        *)
(* shuffled, and none twice unless one joined; and the views agree on what *)
(* is public: for any number of endpoints, users and changes and any page  *)
(* size (_pagination.py:65-105, repositories/endpoint.py:174-672).         *)
THEOREM ListingsAreFaithful == Directory!DirSpec => []ListingsFaithful
<1>1. StarIInv /\ WalkIInv => ListingsFaithful
  BY ViewsAgree DEF StarIInv, WalkIInv, ListingsFaithful, Directory!ListingsFaithful
<1> QED BY <1>1, WalkInvariant, PTL

\* The rest of the state of the listings.
RestTypes ==
    /\ account \subseteq User /\ drifted \subseteq Directory!EntryId
    /\ changes \in 0..MaxChanges /\ faults \in 0..MaxFaults

LEMMA RestTyped == Directory!DirSpec => []RestTypes
<1>0. MaxChanges \in Nat /\ MaxFaults \in Nat
  BY EndpointsAssumption DEF Directory!DirectoryAssumption
<1>1. ASSUME Directory!DirInit PROVE RestTypes
  BY <1>0, <1>1 DEF Directory!DirInit, Directory!Still, RestTypes
<1>2. ASSUME StarTypes, RestTypes, [Directory!DirNext]_(Directory!dirVars)
      PROVE  RestTypes'
  <2> USE DEF RestTypes, Directory!Ask, Directory!Sound, Directory!Fault
  <2>1. ASSUME NEW u \in User, NEW s \in ListedSlug, NEW v \in {"public", "private"},
               NEW p \in PolicyLists, Directory!Publish(u, s, v, p)
        PROVE  RestTypes'
    BY <1>0, <1>2, <2>1 DEF Directory!Publish
  <2>2. ASSUME NEW u \in User, Directory!RemoveAccount(u)
        PROVE  RestTypes'
    <3>1. \A s \in starred : s[2] \in Directory!EntryId
      BY <1>2 DEF StarTypes
    <3>2. drifted' \subseteq Directory!EntryId
      BY <1>2, <2>2, <3>1 DEF Directory!RemoveAccount
    <3> QED
      BY <1>0, <1>2, <2>2, <3>2 DEF Directory!RemoveAccount
  <2>3. ASSUME NEW u, NEW t, NEW e,
               Directory!StarEndpoint(t, u, e) \/ Directory!UnstarEndpoint(t, u, e)
        PROVE  RestTypes'
    BY <1>0, <1>2, <2>3 DEF Directory!StarEndpoint, Directory!UnstarEndpoint
  <2>4. ASSUME NEW e, NEW v, NEW p, Directory!Revise(e, v, p)
        PROVE  RestTypes'
    BY <1>0, <1>2, <2>4 DEF Directory!Revise
  <2>5. ASSUME NEW e \in Directory!EntryId, NEW active, NEW stars,
               Directory!AdminUpdate(e, active, stars)
        PROVE  RestTypes'
    BY <1>0, <1>2, <2>5 DEF Directory!AdminUpdate
  <2>6. ASSUME NEW e, Directory!Withdraw(e)
        PROVE  RestTypes'
    BY <1>0, <1>2, <2>6 DEF Directory!Withdraw
  <2>7. ASSUME NEW t \in Request,
               \/ Directory!WriteStarRow(t) \/ Directory!ReadCount(t) \/ Directory!WriteCount(t)
        PROVE  RestTypes'
    <3>1. job[t].pc # "idle" => job[t].id \in Directory!EntryId
      BY <1>2 DEF StarTypes
    <3>2. faults' \in 0..MaxFaults /\ UNCHANGED <<account, changes>>
      BY <1>0, <1>2, <2>7 DEF Directory!WriteStarRow, Directory!ReadCount, Directory!WriteCount
    <3>3. drifted' = drifted \/ (drifted' = drifted \cup {job[t].id} /\ job[t].pc # "idle")
      BY <2>7 DEF Directory!WriteStarRow, Directory!ReadCount, Directory!WriteCount
    <3> QED
      BY <1>2, <3>1, <3>2, <3>3
  <2>8. CASE Directory!Change
    BY <2>1, <2>2, <2>3, <2>4, <2>5, <2>6, <2>7, <2>8 DEF Directory!Change
  <2>9. CASE \/ \E v \in Directory!Views, goal \in {<<>>} \cup (User \X ListedSlug) :
                   Directory!BeginWalk(v, goal)
             \/ Directory!FetchPage \/ UNCHANGED Directory!dirVars
    <3>1. UNCHANGED <<account, drifted, changes>>
      BY <2>9 DEF Directory!BeginWalk, Directory!FetchPage, Directory!dirVars
    <3>2. faults' = faults \/ Directory!Fault
      BY <2>9 DEF Directory!BeginWalk, Directory!FetchPage, Directory!dirVars
    <3> QED
      BY <1>0, <1>2, <3>1, <3>2
  <2> QED
    BY <1>2, <2>8, <2>9 DEF Directory!DirNext
<1>3. StarIInv => StarTypes
  BY DEF StarIInv
<1> QED
  BY <1>1, <1>2, <1>3, StarInvariant, PTL DEF Directory!DirSpec

(* Every reachable state of the listings has its type, for any number of   *)
(* endpoints, users, requests and changes.                                 *)
THEOREM ListingsTypeCorrect == Directory!DirSpec => []Directory!DirTypeOK
<1>1. ASSUME StarTypes, WalkTypes, RestTypes
      PROVE  Directory!DirTypeOK
  <2>1. entry \in [Directory!EntryId -> Entry] /\ job \in [Request -> Task] /\ walk \in Walker
    BY <1>1 DEF StarTypes, WalkTypes
  <2>2. \A t \in Request : job[t].pc \in {"idle", "row", "read", "write"} /\ job[t].seen \in Nat
    BY <2>1 DEF Task
  <2>3. /\ walk.pc \in {"idle", "walking", "done"} /\ walk.view \in Directory!Views
        /\ walk.got \in Seq(Directory!EntryId) /\ walk.stayed \subseteq Directory!EntryId
    BY <2>1 DEF Walker
  <2> QED
    BY <1>1, <2>1, <2>2, <2>3 DEF Directory!DirTypeOK, StarTypes, RestTypes, Entry
<1>2. StarIInv /\ WalkIInv => StarTypes /\ WalkTypes
  BY DEF StarIInv, WalkIInv
<1> QED
  BY <1>1, <1>2, WalkInvariant, RestTyped, PTL

-----------------------------------------------------------------------------
(* The views.                                                              *)

\* What may be left of the queries of a view.
ToOwners == <<"owners">>
ToEndpoints == <<"endpoints", "owners">>
ToMembers == <<"members", "endpoints", "owners">>
ToPicks == <<"configured", "members", "endpoints", "owners">>
ToShared == <<"shared", "configured", "members", "endpoints", "owners">>
ToIds == <<"configured", "endpoints", "owners">>
ToActive == <<"members", "configured", "endpoints", "owners">>
ToSummary == <<"shared", "members", "configured", "endpoints", "owners">>
ToCountOwners == <<"countOwners">>
ToCounts == <<"countMembers", "countOwners">>
ById == <<"byId", "members", "endpoints", "owners">>
BySlug == <<"bySlug", "members", "endpoints", "owners">>
PicksBySlug == <<"bySlug", "shared", "configured", "members", "endpoints", "owners">>
SummaryBySlug == <<"bySlug", "shared", "members", "configured", "endpoints", "owners">>
CountsBySlug == <<"bySlug", "countMembers", "countOwners">>
Paged == <<"page", "countMembers", "countOwners">>
OfMember == <<"collectivesOf", "countMembers", "countOwners">>
OfEndpoint == <<"endpoint", "collectivesOf", "countMembers", "countOwners">>

LeftC == {<<>>, ToCountOwners, ToCounts}
LeftR == {<<>>, ToOwners, ToEndpoints}
LeftM == LeftR \cup {ToMembers}

Finder == {"byId", "bySlug", "page", "endpoint", "collectivesOf"}
Unfound(next) == next # <<>> /\ Head(next) \in Finder

Behind == {"paths", "billing"}
Listing == {"members", "paths", "billing", "summary"}

Follows(view, sub, next) ==
    \/ view = "none" /\ next = <<>>
    \/ view = "members" /\ sub = "all" /\ next \in LeftM \cup {ById}
    \/ view \in Behind /\ sub = "all" /\ next \in LeftM \cup {BySlug}
    \/ view \in Behind /\ sub = "picks" /\ next \in LeftM \cup {ToPicks, ToShared, PicksBySlug}
    \/ view = "summary" /\ sub = "picks"
         /\ next \in LeftR \cup {ToIds, ToActive, ToSummary, SummaryBySlug}
    \/ view = "collective" /\ sub = "all" /\ next \in LeftC \cup {CountsBySlug}
    \/ view = "page" /\ sub = "all" /\ next \in LeftC \cup {Paged}
    \/ view = "collectivesOf" /\ sub = "all" /\ next \in LeftC \cup {OfMember, OfEndpoint}

\* What has been found is about to be read, or has been: query q was made.
Done(q, next) == ~Unfound(next) /\ q \notin Ran(next)

\* A slug leads to one collective.
SlugsUnique ==
    \A c, d \in Views!CollectiveId :
        /\ Views!Live(c) /\ Views!Live(d) /\ collective[c].slug = collective[d].slug => c = d

\* Who is approved in a collective being read is in the reader's window, and so
\* are the members it has read, unless it asks for others as the owner.
Observed(r) ==
    /\ r.view = "none" => r = Views!NoReader
    /\ Follows(r.view, r.sub, r.next)
    /\ r.view \in Listing /\ ~Unfound(r.next) => \E c \in Views!CollectiveId : r.ids = {c}
    /\ r.view = "members" => /\ \E c \in Views!CollectiveId : r.ids = {c}
                             /\ \/ r.wanted = {"approved"}
                                \/ \A c \in r.ids : /\ collective[c].row # "free"
                                                    /\ Views!Manages(r.who, c)
    /\ r.view \in Behind \cup {"summary"} => r.wanted = {"approved"}
    /\ \A c \in r.ids : Views!Approved(c) \subseteq r.window
    /\ r.view \in Listing /\ Unfound(r.next) => r.members = {}
    /\ r.view \in Listing /\ r.wanted = {"approved"} => r.members \subseteq r.window

\* What an undisturbed reader has read is what the rows say.
Current(r) ==
    \A c \in r.ids :
      /\ r.view \in Listing /\ Done("members", r.next) => r.members = Views!Holding(c, r.wanted)
      /\ r.sub = "picks" /\ Done("shared", r.next) => r.subset = subset[c].no
      /\ r.sub = "picks" /\ Done("configured", r.next) => r.configured = subset[c].ids
      /\ r.view \in Listing /\ Done("endpoints", r.next) =>
           /\ r.present = {e \in Endpoint : presence[e] = "active"}
           /\ r.public = Endpoint \ hidden
      /\ r.view \in Listing /\ Done("owners", r.next) => r.owners = Account
      /\ r.view \in Views!Counting /\ Done("countMembers", r.next) =>
           r.memberCount[c] = Cardinality(Views!Approved(c))
      /\ r.view \in Views!Counting /\ Done("countOwners", r.next) =>
           r.ownerCount[c] = Cardinality({OwnerOf[e] : e \in Views!Approved(c)})

\* What an answer says of the rows as they are.
Serving(c, sub) ==
    {e \in Views!Approved(c) : /\ presence[e] = "active"
                               /\ sub = "all" \/ e \in subset[c].ids}

Says(a) ==
    /\ a.view \in Behind \cup {"summary"} => a.shown = Serving(a.of, a.sub)
    /\ a.view = "members" => a.shown \subseteq Serving(a.of, "all")
    /\ a.view = "roster" => a.shown = Views!Holding(a.of, a.wanted)
    /\ a.view \in Views!Counting =>
         /\ a.memberCount = Cardinality(Views!Approved(a.of))
         /\ a.ownerCount = Cardinality({OwnerOf[e] : e \in Views!Approved(a.of)})

(* The inductive invariant of the views.                                   *)
ViewsIInv ==
    /\ Views!CatTypeOK /\ SlugsUnique
    /\ Observed(reader)
    /\ reader.quiet => Current(reader)
    /\ \A a \in answers : Says(a)

\* Short sequences.
\* Short sequences.
LEMMA Tuples ==
  /\ Ran(<<>>) = {}
  /\ \A a : Head(<<a>>) = a /\ Tail(<<a>>) = <<>> /\ Ran(<<a>>) = {a}
  /\ \A a, b : Head(<<a, b>>) = a /\ Tail(<<a, b>>) = <<b>> /\ Ran(<<a, b>>) = {a, b}
  /\ \A a, b, c : /\ Head(<<a, b, c>>) = a /\ Tail(<<a, b, c>>) = <<b, c>>
                  /\ Ran(<<a, b, c>>) = {a, b, c}
  /\ \A a, b, c, d : /\ Head(<<a, b, c, d>>) = a /\ Tail(<<a, b, c, d>>) = <<b, c, d>>
                     /\ Ran(<<a, b, c, d>>) = {a, b, c, d}
  /\ \A a, b, c, d, e :
        /\ Head(<<a, b, c, d, e>>) = a /\ Tail(<<a, b, c, d, e>>) = <<b, c, d, e>>
        /\ Ran(<<a, b, c, d, e>>) = {a, b, c, d, e}
  /\ \A a, b, c, d, e, f :
        /\ Head(<<a, b, c, d, e, f>>) = a /\ Tail(<<a, b, c, d, e, f>>) = <<b, c, d, e, f>>
        /\ Ran(<<a, b, c, d, e, f>>) = {a, b, c, d, e, f}
BY DEF Ran

\* Each stage is one query and the next stage.
\* Each stage is one query and the next stage.
LEMMA Stages ==
  /\ Head(ToOwners) = "owners" /\ Tail(ToOwners) = <<>> /\ ToOwners # <<>>
  /\ Ran(ToOwners) = {"owners"}
  /\ Head(ToEndpoints) = "endpoints" /\ Tail(ToEndpoints) = ToOwners /\ ToEndpoints # <<>>
  /\ Ran(ToEndpoints) = {"endpoints", "owners"}
  /\ Head(ToMembers) = "members" /\ Tail(ToMembers) = ToEndpoints /\ ToMembers # <<>>
  /\ Ran(ToMembers) = {"members", "endpoints", "owners"}
  /\ Head(ToPicks) = "configured" /\ Tail(ToPicks) = ToMembers /\ ToPicks # <<>>
  /\ Ran(ToPicks) = {"configured", "members", "endpoints", "owners"}
  /\ Head(ToShared) = "shared" /\ Tail(ToShared) = ToPicks /\ ToShared # <<>>
  /\ Ran(ToShared) = {"shared", "configured", "members", "endpoints", "owners"}
  /\ Head(ToIds) = "configured" /\ Tail(ToIds) = ToEndpoints /\ ToIds # <<>>
  /\ Ran(ToIds) = {"configured", "endpoints", "owners"}
  /\ Head(ToActive) = "members" /\ Tail(ToActive) = ToIds /\ ToActive # <<>>
  /\ Ran(ToActive) = {"members", "configured", "endpoints", "owners"}
  /\ Head(ToSummary) = "shared" /\ Tail(ToSummary) = ToActive /\ ToSummary # <<>>
  /\ Ran(ToSummary) = {"shared", "members", "configured", "endpoints", "owners"}
  /\ Head(ToCountOwners) = "countOwners" /\ Tail(ToCountOwners) = <<>> /\ ToCountOwners # <<>>
  /\ Ran(ToCountOwners) = {"countOwners"}
  /\ Head(ToCounts) = "countMembers" /\ Tail(ToCounts) = ToCountOwners /\ ToCounts # <<>>
  /\ Ran(ToCounts) = {"countMembers", "countOwners"}
  /\ Head(ById) = "byId" /\ Tail(ById) = ToMembers /\ ById # <<>>
  /\ Ran(ById) = {"byId", "members", "endpoints", "owners"}
  /\ Head(BySlug) = "bySlug" /\ Tail(BySlug) = ToMembers /\ BySlug # <<>>
  /\ Ran(BySlug) = {"bySlug", "members", "endpoints", "owners"}
  /\ Head(PicksBySlug) = "bySlug" /\ Tail(PicksBySlug) = ToShared /\ PicksBySlug # <<>>
  /\ Ran(PicksBySlug) = {"bySlug", "shared", "configured", "members", "endpoints", "owners"}
  /\ Head(SummaryBySlug) = "bySlug" /\ Tail(SummaryBySlug) = ToSummary /\ SummaryBySlug # <<>>
  /\ Ran(SummaryBySlug) = {"bySlug", "shared", "members", "configured", "endpoints", "owners"}
  /\ Head(CountsBySlug) = "bySlug" /\ Tail(CountsBySlug) = ToCounts /\ CountsBySlug # <<>>
  /\ Ran(CountsBySlug) = {"bySlug", "countMembers", "countOwners"}
  /\ Head(Paged) = "page" /\ Tail(Paged) = ToCounts /\ Paged # <<>>
  /\ Ran(Paged) = {"page", "countMembers", "countOwners"}
  /\ Head(OfMember) = "collectivesOf" /\ Tail(OfMember) = ToCounts /\ OfMember # <<>>
  /\ Ran(OfMember) = {"collectivesOf", "countMembers", "countOwners"}
  /\ Head(OfEndpoint) = "endpoint" /\ Tail(OfEndpoint) = OfMember /\ OfEndpoint # <<>>
  /\ Ran(OfEndpoint) = {"endpoint", "collectivesOf", "countMembers", "countOwners"}
<1>1. /\ Head(ToOwners) = "owners" /\ Tail(ToOwners) = <<>> /\ ToOwners # <<>>
      /\ Ran(ToOwners) = {"owners"}
  BY Tuples DEF ToOwners
<1>2. /\ Head(ToEndpoints) = "endpoints" /\ Tail(ToEndpoints) = ToOwners /\ ToEndpoints # <<>>
      /\ Ran(ToEndpoints) = {"endpoints", "owners"}
  BY Tuples DEF ToEndpoints, ToOwners
<1>3. /\ Head(ToMembers) = "members" /\ Tail(ToMembers) = ToEndpoints /\ ToMembers # <<>>
      /\ Ran(ToMembers) = {"members", "endpoints", "owners"}
  BY Tuples DEF ToMembers, ToEndpoints
<1>4. /\ Head(ToPicks) = "configured" /\ Tail(ToPicks) = ToMembers /\ ToPicks # <<>>
      /\ Ran(ToPicks) = {"configured", "members", "endpoints", "owners"}
  BY Tuples DEF ToPicks, ToMembers
<1>5. /\ Head(ToShared) = "shared" /\ Tail(ToShared) = ToPicks /\ ToShared # <<>>
      /\ Ran(ToShared) = {"shared", "configured", "members", "endpoints", "owners"}
  BY Tuples DEF ToShared, ToPicks
<1>6. /\ Head(ToIds) = "configured" /\ Tail(ToIds) = ToEndpoints /\ ToIds # <<>>
      /\ Ran(ToIds) = {"configured", "endpoints", "owners"}
  BY Tuples DEF ToIds, ToEndpoints
<1>7. /\ Head(ToActive) = "members" /\ Tail(ToActive) = ToIds /\ ToActive # <<>>
      /\ Ran(ToActive) = {"members", "configured", "endpoints", "owners"}
  BY Tuples DEF ToActive, ToIds
<1>8. /\ Head(ToSummary) = "shared" /\ Tail(ToSummary) = ToActive /\ ToSummary # <<>>
      /\ Ran(ToSummary) = {"shared", "members", "configured", "endpoints", "owners"}
  BY Tuples DEF ToSummary, ToActive
<1>9. /\ Head(ToCountOwners) = "countOwners" /\ Tail(ToCountOwners) = <<>> /\ ToCountOwners # <<>>
      /\ Ran(ToCountOwners) = {"countOwners"}
  BY Tuples DEF ToCountOwners
<1>10. /\ Head(ToCounts) = "countMembers" /\ Tail(ToCounts) = ToCountOwners /\ ToCounts # <<>>
      /\ Ran(ToCounts) = {"countMembers", "countOwners"}
  BY Tuples DEF ToCounts, ToCountOwners
<1>11. /\ Head(ById) = "byId" /\ Tail(ById) = ToMembers /\ ById # <<>>
      /\ Ran(ById) = {"byId", "members", "endpoints", "owners"}
  BY Tuples DEF ById, ToMembers
<1>12. /\ Head(BySlug) = "bySlug" /\ Tail(BySlug) = ToMembers /\ BySlug # <<>>
      /\ Ran(BySlug) = {"bySlug", "members", "endpoints", "owners"}
  BY Tuples DEF BySlug, ToMembers
<1>13. /\ Head(PicksBySlug) = "bySlug" /\ Tail(PicksBySlug) = ToShared /\ PicksBySlug # <<>>
      /\ Ran(PicksBySlug) = {"bySlug", "shared", "configured", "members", "endpoints", "owners"}
  BY Tuples DEF PicksBySlug, ToShared
<1>14. /\ Head(SummaryBySlug) = "bySlug" /\ Tail(SummaryBySlug) = ToSummary /\ SummaryBySlug # <<>>
      /\ Ran(SummaryBySlug) = {"bySlug", "shared", "members", "configured", "endpoints", "owners"}
  BY Tuples DEF SummaryBySlug, ToSummary
<1>15. /\ Head(CountsBySlug) = "bySlug" /\ Tail(CountsBySlug) = ToCounts /\ CountsBySlug # <<>>
      /\ Ran(CountsBySlug) = {"bySlug", "countMembers", "countOwners"}
  BY Tuples DEF CountsBySlug, ToCounts
<1>16. /\ Head(Paged) = "page" /\ Tail(Paged) = ToCounts /\ Paged # <<>>
      /\ Ran(Paged) = {"page", "countMembers", "countOwners"}
  BY Tuples DEF Paged, ToCounts
<1>17. /\ Head(OfMember) = "collectivesOf" /\ Tail(OfMember) = ToCounts /\ OfMember # <<>>
      /\ Ran(OfMember) = {"collectivesOf", "countMembers", "countOwners"}
  BY Tuples DEF OfMember, ToCounts
<1>18. /\ Head(OfEndpoint) = "endpoint" /\ Tail(OfEndpoint) = OfMember /\ OfEndpoint # <<>>
      /\ Ran(OfEndpoint) = {"endpoint", "collectivesOf", "countMembers", "countOwners"}
  BY Tuples DEF OfEndpoint, OfMember
<1> QED
  BY <1>1, <1>2, <1>3, <1>4, <1>5, <1>6, <1>7, <1>8, <1>9, <1>10, <1>11, <1>12,
     <1>13, <1>14, <1>15, <1>16, <1>17, <1>18

\* Where each view begins.
\* Where each view begins.
LEMMA Plans ==
  /\ Views!Queries("members", "all") = ById
  /\ \A v \in Behind : /\ Views!Queries(v, "all") = BySlug
                        /\ Views!Queries(v, "picks") = PicksBySlug
  /\ Views!Queries("summary", "picks") = SummaryBySlug
  /\ Views!Queries("collective", "all") = CountsBySlug
  /\ Views!Queries("page", "all") = Paged
  /\ Views!Queries("collectivesOf", "all") = OfEndpoint
<1>1. ASSUME NEW S, NEW s \in Seq(S), NEW t \in Seq(S), Len(s) = Len(t),
             \A i \in 1..Len(s) : s[i] = t[i]
      PROVE  s = t
  BY <1>1
<1>2. \A a, b, c, d : <<a, b>> \o <<c, d>> = <<a, b, c, d>>
  <2> SUFFICES ASSUME NEW a, NEW b, NEW c, NEW d
               PROVE  <<a, b>> \o <<c, d>> = <<a, b, c, d>>
    OBVIOUS
  <2> DEFINE S == {a, b, c, d}
             s == <<a, b>> \o <<c, d>>
             t == <<a, b, c, d>>
  <2>1. s \in Seq(S) /\ t \in Seq(S) /\ Len(s) = 4 /\ Len(t) = 4
    OBVIOUS
  <2>2. s[1] = a /\ s[2] = b /\ s[3] = c /\ s[4] = d
    OBVIOUS
  <2>3. t[1] = a /\ t[2] = b /\ t[3] = c /\ t[4] = d
    OBVIOUS
  <2> HIDE DEF s, t, S
  <2>4. \A i \in 1..4 : s[i] = t[i]
    BY <2>2, <2>3
  <2>5. s = t
    BY <1>1, <2>1, <2>4
  <2> QED
    BY <2>5 DEF s, t
<1>3. \A a, b, c : <<a>> \o <<b, c>> = <<a, b, c>>
  <2> SUFFICES ASSUME NEW a, NEW b, NEW c
               PROVE  <<a>> \o <<b, c>> = <<a, b, c>>
    OBVIOUS
  <2> DEFINE S == {a, b, c}
             s == <<a>> \o <<b, c>>
             t == <<a, b, c>>
  <2>1. s \in Seq(S) /\ t \in Seq(S) /\ Len(s) = 3 /\ Len(t) = 3
    OBVIOUS
  <2>2. s[1] = a /\ s[2] = b /\ s[3] = c
    OBVIOUS
  <2>3. t[1] = a /\ t[2] = b /\ t[3] = c
    OBVIOUS
  <2> HIDE DEF s, t, S
  <2>4. \A i \in 1..3 : s[i] = t[i]
    BY <2>2, <2>3
  <2>5. s = t
    BY <1>1, <2>1, <2>4
  <2> QED
    BY <2>5 DEF s, t
<1>4. \A a, b, c, d, e, f : <<a, b, c, d>> \o <<e, f>> = <<a, b, c, d, e, f>>
  <2> SUFFICES ASSUME NEW a, NEW b, NEW c, NEW d, NEW e, NEW f
               PROVE  <<a, b, c, d>> \o <<e, f>> = <<a, b, c, d, e, f>>
    OBVIOUS
  <2> DEFINE S == {a, b, c, d, e, f}
             s == <<a, b, c, d>> \o <<e, f>>
             t == <<a, b, c, d, e, f>>
  <2>1. s \in Seq(S) /\ t \in Seq(S) /\ Len(s) = 6 /\ Len(t) = 6
    OBVIOUS
  <2>2. s[1] = a /\ s[2] = b /\ s[3] = c /\ s[4] = d /\ s[5] = e /\ s[6] = f
    OBVIOUS
  <2>3. t[1] = a /\ t[2] = b /\ t[3] = c /\ t[4] = d /\ t[5] = e /\ t[6] = f
    OBVIOUS
  <2> HIDE DEF s, t, S
  <2>4. \A i \in 1..6 : s[i] = t[i]
    BY <2>2, <2>3
  <2>5. s = t
    BY <1>1, <2>1, <2>4
  <2> QED
    BY <2>5 DEF s, t
<1>5. Views!Queries("members", "all") = ById
  BY <1>2 DEF Views!Queries, Views!Rest, ById
<1>6. \A v \in Behind : Views!Queries(v, "all") = BySlug
  BY <1>2 DEF Views!Queries, Views!Rest, BySlug, Behind
<1>7. \A v \in Behind : Views!Queries(v, "picks") = PicksBySlug
  BY <1>4 DEF Views!Queries, Views!Rest, PicksBySlug, Behind
<1>8. Views!Queries("summary", "picks") = SummaryBySlug
  BY <1>4 DEF Views!Queries, Views!Rest, SummaryBySlug
<1>9. Views!Queries("collective", "all") = CountsBySlug
  BY <1>3 DEF Views!Queries, Views!Counts, CountsBySlug
<1>10. Views!Queries("page", "all") = Paged
  BY <1>3 DEF Views!Queries, Views!Counts, Paged
<1>11. Views!Queries("collectivesOf", "all") = OfEndpoint
  BY <1>2 DEF Views!Queries, Views!Counts, OfEndpoint
<1> QED
  BY <1>5, <1>6, <1>7, <1>8, <1>9, <1>10, <1>11

\* One query on: what is left still follows, what was left has been made, and
\* a query that finds collectives comes before those that read their rows.
OneOn(v, s, next) ==
    /\ v # "none"
    /\ Follows(v, s, Tail(next)) /\ Follows(v, s, <<>>)
    /\ Head(next) \in Views!Query
    /\ Head(next) \notin Finder =>
         ~Unfound(Tail(next)) /\ \A p : Done(p, Tail(next)) => p = Head(next) \/ Done(p, next)
    /\ Head(next) \in Finder \ {"endpoint"} => ~Unfound(Tail(next))
    /\ Head(next) \in Finder /\ v \in Listing =>
         \A p \in {"members", "endpoints", "owners"} : ~Done(p, Tail(next))
    /\ Head(next) \in Finder /\ v \in Listing /\ s = "picks" =>
         ~Done("shared", Tail(next)) /\ ~Done("configured", Tail(next))
    /\ Head(next) \in Finder /\ v \notin Listing => s = "all"
    /\ Head(next) \in Finder /\ v \in Views!Counting =>
         ~Done("countMembers", Tail(next)) /\ ~Done("countOwners", Tail(next))
    /\ Head(next) = "byId" => v = "members"
    /\ Head(next) \in {"page", "endpoint", "collectivesOf"} => v \notin Listing
    /\ Head(next) = "endpoint" => Unfound(Tail(next))
    /\ Head(next) \in {"members", "endpoints", "owners", "shared", "configured"} => v \in Listing
    /\ Head(next) \in {"shared", "configured"} => s = "picks"
    /\ Head(next) = "configured" => Done("shared", next)
    /\ Head(next) \in {"countMembers", "countOwners"} => v \in Views!Counting

LEMMA StepOn ==
  ASSUME NEW v, NEW s, NEW next, Follows(v, s, next), next # <<>>
  PROVE  OneOn(v, s, next)
<1> USE DEF OneOn, Unfound, Done, Finder, Listing, Behind, Views!Counting, Views!Query
<1>0. Ran(<<>>) = {}
  BY Tuples
<1>1. CASE v = "none" /\ next = <<>>
  BY <1>1
<1>2. CASE v = "members" /\ s = "all" /\ next \in LeftM \cup {ById}
  <2>1. CASE next = ToOwners
    BY <1>0, <1>2, <2>1, Stages DEF Follows, LeftM, LeftR
  <2>2. CASE next = ToEndpoints
    BY <1>0, <1>2, <2>2, Stages DEF Follows, LeftM, LeftR
  <2>3. CASE next = ToMembers
    BY <1>0, <1>2, <2>3, Stages DEF Follows, LeftM, LeftR
  <2>4. CASE next = ById
    BY <1>0, <1>2, <2>4, Stages DEF Follows, LeftM, LeftR
  <2> QED
    BY <1>2, <2>1, <2>2, <2>3, <2>4 DEF LeftM, LeftR
<1>3. CASE v \in Behind /\ s = "all" /\ next \in LeftM \cup {BySlug}
  <2>1. CASE next = ToOwners
    BY <1>0, <1>3, <2>1, Stages DEF Follows, LeftM, LeftR
  <2>2. CASE next = ToEndpoints
    BY <1>0, <1>3, <2>2, Stages DEF Follows, LeftM, LeftR
  <2>3. CASE next = ToMembers
    BY <1>0, <1>3, <2>3, Stages, ZenonT(40) DEF Follows, LeftM, LeftR
  <2>4. CASE next = BySlug
    BY <1>0, <1>3, <2>4, Stages DEF Follows, LeftM, LeftR
  <2> QED
    BY <1>3, <2>1, <2>2, <2>3, <2>4 DEF LeftM, LeftR
<1>4. CASE v \in Behind /\ s = "picks" /\ next \in LeftM \cup {ToPicks, ToShared, PicksBySlug}
  <2>1. CASE next = ToOwners
    BY <1>0, <1>4, <2>1, Stages DEF Follows, LeftM, LeftR
  <2>2. CASE next = ToEndpoints
    BY <1>0, <1>4, <2>2, Stages DEF Follows, LeftM, LeftR
  <2>3. CASE next = ToMembers
    BY <1>0, <1>4, <2>3, Stages, ZenonT(40) DEF Follows, LeftM, LeftR
  <2>4. CASE next = ToPicks
    BY <1>0, <1>4, <2>4, Stages, ZenonT(40) DEF Follows, LeftM, LeftR
  <2>5. CASE next = ToShared
    BY <1>0, <1>4, <2>5, Stages, ZenonT(40) DEF Follows, LeftM, LeftR
  <2>6. CASE next = PicksBySlug
    BY <1>0, <1>4, <2>6, Stages DEF Follows, LeftM, LeftR
  <2> QED
    BY <1>4, <2>1, <2>2, <2>3, <2>4, <2>5, <2>6 DEF LeftM, LeftR
<1>5. CASE v = "summary" /\ s = "picks"
             /\ next \in LeftR \cup {ToIds, ToActive, ToSummary, SummaryBySlug}
  <2>1. CASE next = ToOwners
    BY <1>0, <1>5, <2>1, Stages DEF Follows, LeftR
  <2>2. CASE next = ToEndpoints
    BY <1>0, <1>5, <2>2, Stages DEF Follows, LeftR
  <2>3. CASE next = ToIds
    BY <1>0, <1>5, <2>3, Stages, ZenonT(40) DEF Follows, LeftR
  <2>4. CASE next = ToActive
    BY <1>0, <1>5, <2>4, Stages, ZenonT(40) DEF Follows, LeftR
  <2>5. CASE next = ToSummary
    BY <1>0, <1>5, <2>5, Stages, ZenonT(40) DEF Follows, LeftR
  <2>6. CASE next = SummaryBySlug
    BY <1>0, <1>5, <2>6, Stages DEF Follows, LeftR
  <2> QED
    BY <1>5, <2>1, <2>2, <2>3, <2>4, <2>5, <2>6 DEF LeftR
<1>6. CASE v = "collective" /\ s = "all" /\ next \in LeftC \cup {CountsBySlug}
  <2>1. CASE next = ToCountOwners
    BY <1>0, <1>6, <2>1, Stages DEF Follows, LeftC
  <2>2. CASE next = ToCounts
    BY <1>0, <1>6, <2>2, Stages DEF Follows, LeftC
  <2>3. CASE next = CountsBySlug
    BY <1>0, <1>6, <2>3, Stages DEF Follows, LeftC
  <2> QED
    BY <1>6, <2>1, <2>2, <2>3 DEF LeftC
<1>7. CASE v = "page" /\ s = "all" /\ next \in LeftC \cup {Paged}
  <2>1. CASE next = ToCountOwners
    BY <1>0, <1>7, <2>1, Stages, SMTT(30) DEF Follows, LeftC
  <2>2. CASE next = ToCounts
    BY <1>0, <1>7, <2>2, Stages DEF Follows, LeftC
  <2>3. CASE next = Paged
    BY <1>0, <1>7, <2>3, Stages DEF Follows, LeftC
  <2> QED
    BY <1>7, <2>1, <2>2, <2>3 DEF LeftC
<1>8. CASE v = "collectivesOf" /\ s = "all" /\ next \in LeftC \cup {OfMember, OfEndpoint}
  <2>1. CASE next = ToCountOwners
    BY <1>0, <1>8, <2>1, Stages DEF Follows, LeftC
  <2>2. CASE next = ToCounts
    BY <1>0, <1>8, <2>2, Stages DEF Follows, LeftC
  <2>3. CASE next = OfMember
    BY <1>0, <1>8, <2>3, Stages DEF Follows, LeftC
  <2>4. CASE next = OfEndpoint
    BY <1>0, <1>8, <2>4, Stages DEF Follows, LeftC
  <2> QED
    BY <1>8, <2>1, <2>2, <2>3, <2>4 DEF LeftC
<1> QED
  BY <1>1, <1>2, <1>3, <1>4, <1>5, <1>6, <1>7, <1>8 DEF Follows

\* What a request has read is what it may have read.
Fair(r) == r \in Views!Reader /\ Observed(r) /\ (r.quiet => Current(r))

\* No request reads.
LEMMA Nobody == Fair(Views!NoReader)
<1>1. Views!NoReader \in Views!Reader
  BY DEF Views!NoReader, Views!Reader, Views!Queried, Views!None
<1>2. Observed(Views!NoReader)
  BY DEF Views!NoReader, Observed, Follows, Listing, Behind
<1>3. Current(Views!NoReader)
  BY DEF Views!NoReader, Current
<1> QED
  BY <1>1, <1>2, <1>3 DEF Fair

\* Who reads has something to read.
LEMMA Underway ==
  ASSUME Fair(reader), reader.next # <<>>
  PROVE  /\ Follows(reader.view, reader.sub, reader.next)
         /\ reader.next \in Seq(Views!Query) /\ Tail(reader.next) \in Seq(Views!Query)
         /\ OneOn(reader.view, reader.sub, reader.next)
<1>1. Follows(reader.view, reader.sub, reader.next)
  BY DEF Fair, Observed
<1>2. reader.next \in Seq(Views!Query)
  BY DEF Fair, Views!Reader
<1>3. \A S, s : s \in Seq(S) /\ s # <<>> => Tail(s) \in Seq(S)
  OBVIOUS
<1>4. Tail(reader.next) \in Seq(Views!Query)
  BY <1>2, <1>3
<1> QED
  BY <1>1, <1>2, <1>4, StepOn

\* A query that finds nothing new of which collectives reads what it reads and
\* leaves the rest as it was.
LEMMA ReadOn ==
  ASSUME Fair(reader), reader.next # <<>>, Head(reader.next) \notin Finder,
         NEW r \in Views!Reader,
         r.view = reader.view, r.sub = reader.sub, r.who = reader.who, r.wanted = reader.wanted,
         r.ids = reader.ids, r.window = reader.window, r.quiet = reader.quiet,
         r.next = Tail(reader.next),
         IF Head(reader.next) = "members"
           THEN \A c \in r.ids : r.members = Views!Holding(c, r.wanted)
           ELSE r.members = reader.members,
         IF Head(reader.next) = "shared"
           THEN \A c \in r.ids : r.subset = subset[c].no ELSE r.subset = reader.subset,
         IF Head(reader.next) = "configured"
           THEN r.quiet => \A c \in r.ids : r.configured = subset[c].ids
           ELSE r.configured = reader.configured,
         IF Head(reader.next) = "endpoints"
           THEN /\ r.present = {e \in Endpoint : presence[e] = "active"}
                /\ r.public = Endpoint \ hidden
           ELSE r.present = reader.present /\ r.public = reader.public,
         IF Head(reader.next) = "owners"
           THEN r.owners = Account ELSE r.owners = reader.owners,
         IF Head(reader.next) = "countMembers"
           THEN \A c \in r.ids : r.memberCount[c] = Cardinality(Views!Approved(c))
           ELSE r.memberCount = reader.memberCount,
         IF Head(reader.next) = "countOwners"
           THEN \A c \in r.ids :
                  r.ownerCount[c] = Cardinality({OwnerOf[e] : e \in Views!Approved(c)})
           ELSE r.ownerCount = reader.ownerCount
  PROVE  Fair(r)
<1> DEFINE q == Head(reader.next)
           next == reader.next
           rest == Tail(reader.next)
<1>1. Follows(reader.view, reader.sub, next)
  BY Underway DEF OneOn
<1> HIDE DEF q, next, rest
<1>2. /\ reader.view # "none" /\ Follows(reader.view, reader.sub, rest)
      /\ ~Unfound(rest) /\ ~Unfound(next)
      /\ \A p : Done(p, rest) => p = q \/ Done(p, next)
      /\ q = "members" => reader.view \in Listing
  <2>1. next # <<>> /\ q = Head(next) /\ rest = Tail(next) /\ q \notin Finder
    BY DEF q, next, rest
  <2>2. ~Unfound(next)
    BY <2>1 DEF Unfound
  <2> QED
    BY <1>1, <2>1, <2>2, StepOn DEF OneOn
<1>3. Observed(r)
  <2>1. r.view \in Listing => \E c \in Views!CollectiveId : r.ids = {c}
    BY <1>2 DEF Fair, Observed, next
  <2>2. r.view \in Listing /\ r.wanted = {"approved"} => r.members \subseteq r.window
    <3>1. ASSUME q = "members", r.view \in Listing, r.wanted = {"approved"}
          PROVE  r.members \subseteq r.window
      <4>1. PICK c : r.ids = {c}
        BY <2>1, <3>1
      <4>2. r.members = Views!Approved(c)
        BY <3>1, <4>1 DEF q, Views!Approved
      <4>3. Views!Approved(c) \subseteq r.window
        BY <4>1 DEF Fair, Observed
      <4> QED
        BY <4>2, <4>3
    <3>2. CASE q # "members"
      BY <3>2 DEF Fair, Observed, q
    <3> QED
      BY <3>1, <3>2
  <2>3. r.view = "members" =>
          /\ \E c \in Views!CollectiveId : r.ids = {c}
          /\ r.wanted = {"approved"} \/ \A c \in r.ids : /\ collective[c].row # "free"
                                                         /\ Views!Manages(r.who, c)
    BY DEF Fair, Observed
  <2>4. /\ r.view \in Behind \cup {"summary"} => r.wanted = {"approved"}
        /\ \A c \in r.ids : Views!Approved(c) \subseteq r.window
    BY DEF Fair, Observed
  <2>5. r.next = rest
    BY DEF rest
  <2> QED
    BY <1>2, <2>1, <2>2, <2>3, <2>4, <2>5 DEF Observed
<1>4. ASSUME r.quiet PROVE Current(r)
  <2> SUFFICES ASSUME NEW c \in r.ids
      PROVE /\ r.view \in Listing /\ Done("members", rest) =>
                 r.members = Views!Holding(c, r.wanted)
            /\ r.sub = "picks" /\ Done("shared", rest) => r.subset = subset[c].no
            /\ r.sub = "picks" /\ Done("configured", rest) => r.configured = subset[c].ids
            /\ r.view \in Listing /\ Done("endpoints", rest) =>
                 /\ r.present = {e \in Endpoint : presence[e] = "active"}
                 /\ r.public = Endpoint \ hidden
            /\ r.view \in Listing /\ Done("owners", rest) => r.owners = Account
            /\ r.view \in Views!Counting /\ Done("countMembers", rest) =>
                 r.memberCount[c] = Cardinality(Views!Approved(c))
            /\ r.view \in Views!Counting /\ Done("countOwners", rest) =>
                 r.ownerCount[c] = Cardinality({OwnerOf[e] : e \in Views!Approved(c)})
    BY DEF Current, rest
  <2> DEFINE reads(x) == Views!Holding(c, x)
             members == Cardinality(Views!Approved(c))
             owners == Cardinality({OwnerOf[e] : e \in Views!Approved(c)})
             active == {e \in Endpoint : presence[e] = "active"}
  <2>1. /\ reader.view \in Listing /\ Done("members", next) => reader.members = reads(reader.wanted)
        /\ reader.sub = "picks" /\ Done("shared", next) => reader.subset = subset[c].no
        /\ reader.sub = "picks" /\ Done("configured", next) => reader.configured = subset[c].ids
        /\ reader.view \in Listing /\ Done("endpoints", next) =>
             reader.present = active /\ reader.public = Endpoint \ hidden
        /\ reader.view \in Listing /\ Done("owners", next) => reader.owners = Account
        /\ reader.view \in Views!Counting /\ Done("countMembers", next) =>
             reader.memberCount[c] = members
        /\ reader.view \in Views!Counting /\ Done("countOwners", next) =>
             reader.ownerCount[c] = owners
    BY <1>4 DEF Fair, Current, next
  <2>2. /\ q = "members" => r.members = reads(r.wanted)
        /\ q = "shared" => r.subset = subset[c].no
        /\ q = "configured" => r.configured = subset[c].ids
        /\ q = "endpoints" => r.present = active /\ r.public = Endpoint \ hidden
        /\ q = "owners" => r.owners = Account
        /\ q = "countMembers" => r.memberCount[c] = members
        /\ q = "countOwners" => r.ownerCount[c] = owners
    BY <1>4 DEF q
  <2>3. /\ q # "members" => r.members = reader.members
        /\ q # "shared" => r.subset = reader.subset
        /\ q # "configured" => r.configured = reader.configured
        /\ q # "endpoints" => r.present = reader.present /\ r.public = reader.public
        /\ q # "owners" => r.owners = reader.owners
        /\ q # "countMembers" => r.memberCount = reader.memberCount
        /\ q # "countOwners" => r.ownerCount = reader.ownerCount
    BY DEF q
  <2> HIDE DEF reads, members, owners, active
  <2>4. /\ r.view \in Listing /\ Done("members", rest) => r.members = reads(r.wanted)
        /\ r.sub = "picks" /\ Done("shared", rest) => r.subset = subset[c].no
        /\ r.sub = "picks" /\ Done("configured", rest) => r.configured = subset[c].ids
    BY <1>2, <2>1, <2>2, <2>3
  <2>5. /\ r.view \in Listing /\ Done("endpoints", rest) =>
             r.present = active /\ r.public = Endpoint \ hidden
        /\ r.view \in Listing /\ Done("owners", rest) => r.owners = Account
    BY <1>2, <2>1, <2>2, <2>3
  <2>6. /\ r.view \in Views!Counting /\ Done("countMembers", rest) => r.memberCount[c] = members
        /\ r.view \in Views!Counting /\ Done("countOwners", rest) => r.ownerCount[c] = owners
    BY <1>2, <2>1, <2>2, <2>3
  <2> QED
    BY <2>4, <2>5, <2>6 DEF reads, members, owners, active
<1> QED
  BY <1>3, <1>4 DEF Fair

\* The collective whose rows a view is read from.
LEMMA TheOne ==
  ASSUME Fair(reader), reader.next # <<>>,
         Head(reader.next) \in {"members", "endpoints", "owners", "shared", "configured"}
  PROVE  /\ reader.view \in Listing /\ Views!It \in Views!CollectiveId
         /\ reader.ids = {Views!It}
<1>1. reader.view \in Listing
  BY Underway DEF OneOn
<1>2. ~Unfound(reader.next)
  BY DEF Unfound, Finder
<1>3. PICK c \in Views!CollectiveId : reader.ids = {c}
  BY <1>1, <1>2 DEF Fair, Observed
<1>4. Views!It = c
  BY <1>3 DEF Views!It
<1> QED
  BY <1>1, <1>3, <1>4

\* The instance counts as this module does.
LEMMA SameCounts ==
  /\ \A S : Views!IsFiniteSet(S) = IsFiniteSet(S)
  /\ \A S : Views!Cardinality(S) = Cardinality(S)
<1>1. \A S : Views!IsFiniteSet(S) = IsFiniteSet(S)
  BY DEF Views!IsFiniteSet, IsFiniteSet
<1>2. \A S : Views!Cardinality(S) = Cardinality(S)
  BY DEF Views!Cardinality, Cardinality
<1> QED
  BY <1>1, <1>2

\* The members of a collective, and their owners, can be counted.
LEMMA CountsAreNumbers ==
  \A c : /\ Cardinality(Views!Approved(c)) \in Nat
         /\ Cardinality({OwnerOf[e] : e \in Views!Approved(c)}) \in Nat
<1> SUFFICES ASSUME NEW c
             PROVE  /\ Cardinality(Views!Approved(c)) \in Nat
                    /\ Cardinality({OwnerOf[e] : e \in Views!Approved(c)}) \in Nat
  OBVIOUS
<1> DEFINE S == Views!Approved(c)
           T == {OwnerOf[e] : e \in S}
           f == [e \in S |-> OwnerOf[e]]
<1>1. IsFiniteSet(S)
  <2>1. S \subseteq Endpoint
    BY DEF Views!Approved, Views!Holding
  <2>2. IsFiniteSet(Endpoint)
    BY ViewsAssumption, SameCounts DEF Views!CatalogueAssumption
  <2> HIDE DEF S
  <2> QED
    BY <2>1, <2>2, FS_Subset
<1> HIDE DEF S
<1>2. f \in Surjection(S, T)
  BY DEF Surjection
<1> HIDE DEF T, f
<1>3. IsFiniteSet(T)
  BY <1>1, <1>2, FS_Surjection
<1>4. Cardinality(S) \in Nat /\ Cardinality(T) \in Nat
  BY <1>1, <1>3, FS_CardinalityType
<1> QED
  BY <1>4 DEF S, T

\* The queries that read the rows of a collective.
LEMMA ContentsRead ==
  ASSUME Views!CatTypeOK, Fair(reader), reader.next # <<>>,
         \/ Views!ReadShared \/ Views!ReadConfigured \/ Views!ReadMembers
         \/ Views!ReadEndpoints \/ Views!ReadOwners \/ Views!CountMembers \/ Views!CountOwners
  PROVE  Fair(reader')
<1>0. reader \in Views!Reader /\ Tail(reader.next) \in Seq(Views!Query)
  BY Underway DEF Fair, OneOn
<1>1. CASE Views!ReadShared
  <2> DEFINE r == [reader EXCEPT !.next = Tail(@), !.subset = subset[Views!It].no]
  <2>1. CASE subset[Views!It].no = 0
    BY <1>1, <2>1, Nobody DEF Views!ReadShared, Views!NotFound
  <2>2. CASE subset[Views!It].no # 0
    <3>1. reader' = r /\ Head(reader.next) = "shared"
      BY <1>1, <2>2 DEF Views!ReadShared
    <3>2. reader.ids = {Views!It} /\ Views!It \in Views!CollectiveId
      BY <3>1, TheOne
    <3>3. subset[Views!It].no \in Nat
      BY <3>2 DEF Views!CatTypeOK
    <3>4. r \in Views!Reader
      BY <1>0, <3>3 DEF Views!Reader
    <3>5. /\ r.view = reader.view /\ r.sub = reader.sub /\ r.who = reader.who
          /\ r.wanted = reader.wanted /\ r.ids = reader.ids /\ r.window = reader.window
          /\ r.quiet = reader.quiet /\ r.next = Tail(reader.next)
          /\ r.subset = subset[Views!It].no
          /\ r.members = reader.members /\ r.configured = reader.configured
          /\ r.present = reader.present /\ r.public = reader.public /\ r.owners = reader.owners
          /\ r.memberCount = reader.memberCount /\ r.ownerCount = reader.ownerCount
      BY <1>0 DEF Views!Reader
    <3> HIDE DEF r
    <3>6. Fair(r)
      BY <3>1, <3>2, <3>4, <3>5, ReadOn DEF Finder
    <3> QED
      BY <3>1, <3>6
  <2> QED
    BY <2>1, <2>2
<1>2. CASE Views!ReadConfigured
  <2> DEFINE ids == IF subset[Views!It].no = reader.subset THEN subset[Views!It].ids ELSE {}
             r == [reader EXCEPT !.next = Tail(@), !.configured = ids]
  <2>1. reader' = r /\ Head(reader.next) = "configured"
    BY <1>2 DEF Views!ReadConfigured
  <2>2. reader.ids = {Views!It} /\ Views!It \in Views!CollectiveId
    BY <2>1, TheOne
  <2>3. ids \in SUBSET Endpoint
    BY <2>2 DEF Views!CatTypeOK
  <2>4. reader.quiet => ids = subset[Views!It].ids
    <3>1. reader.sub = "picks" /\ Done("shared", reader.next)
      BY <2>1, Underway DEF OneOn
    <3>2. reader.quiet => reader.subset = subset[Views!It].no
      BY <2>2, <3>1 DEF Fair, Current
    <3> QED
      BY <3>2
  <2> HIDE DEF ids
  <2>5. r \in Views!Reader
    BY <1>0, <2>3 DEF Views!Reader
  <2>6. /\ r.view = reader.view /\ r.sub = reader.sub /\ r.who = reader.who
        /\ r.wanted = reader.wanted /\ r.ids = reader.ids /\ r.window = reader.window
        /\ r.quiet = reader.quiet /\ r.next = Tail(reader.next)
        /\ r.members = reader.members /\ r.subset = reader.subset
        /\ r.configured = ids /\ r.present = reader.present
        /\ r.public = reader.public /\ r.owners = reader.owners
        /\ r.memberCount = reader.memberCount /\ r.ownerCount = reader.ownerCount
    BY <1>0 DEF Views!Reader
  <2> HIDE DEF r
  <2>7. Fair(r)
    BY <2>1, <2>2, <2>4, <2>5, <2>6, ReadOn DEF Finder
  <2> QED
    BY <2>1, <2>7
<1>3. CASE Views!ReadMembers
  <2> DEFINE r == [reader EXCEPT !.next = Tail(@),
                                 !.members = Views!Holding(Views!It, reader.wanted)]
  <2>1. reader' = r /\ Head(reader.next) = "members"
    BY <1>3 DEF Views!ReadMembers
  <2>2. reader.ids = {Views!It} /\ Views!It \in Views!CollectiveId
    BY <2>1, TheOne
  <2>3. Views!Holding(Views!It, reader.wanted) \in SUBSET Endpoint
    BY DEF Views!Holding
  <2>4. r \in Views!Reader
    BY <1>0, <2>3 DEF Views!Reader
  <2>5. /\ r.view = reader.view /\ r.sub = reader.sub /\ r.who = reader.who
        /\ r.wanted = reader.wanted /\ r.ids = reader.ids /\ r.window = reader.window
        /\ r.quiet = reader.quiet /\ r.next = Tail(reader.next)
        /\ r.members = Views!Holding(Views!It, reader.wanted) /\ r.subset = reader.subset
        /\ r.configured = reader.configured /\ r.present = reader.present
        /\ r.public = reader.public /\ r.owners = reader.owners
        /\ r.memberCount = reader.memberCount /\ r.ownerCount = reader.ownerCount
    BY <1>0 DEF Views!Reader
  <2> HIDE DEF r
  <2>6. Fair(r)
    BY <2>1, <2>2, <2>4, <2>5, ReadOn DEF Finder
  <2> QED
    BY <2>1, <2>6
<1>4. CASE Views!ReadEndpoints
  <2> DEFINE r == [reader EXCEPT !.next = Tail(@),
                                 !.present = {e \in Endpoint : presence[e] = "active"},
                                 !.public = Endpoint \ hidden]
  <2>1. reader' = r /\ Head(reader.next) = "endpoints"
    BY <1>4 DEF Views!ReadEndpoints
  <2>2. reader.ids = {Views!It} /\ Views!It \in Views!CollectiveId
    BY <2>1, TheOne
  <2>3. /\ {e \in Endpoint : presence[e] = "active"} \in SUBSET Endpoint
        /\ Endpoint \ hidden \in SUBSET Endpoint
    OBVIOUS
  <2>4. r \in Views!Reader
    BY <1>0, <2>3, SMTT(30), Zenon DEF Views!Reader
  <2>5. /\ r.view = reader.view /\ r.sub = reader.sub /\ r.who = reader.who
        /\ r.wanted = reader.wanted /\ r.ids = reader.ids /\ r.window = reader.window
        /\ r.quiet = reader.quiet /\ r.next = Tail(reader.next)
        /\ r.members = reader.members /\ r.subset = reader.subset
        /\ r.configured = reader.configured /\ r.present = {e \in Endpoint : presence[e] = "active"}
        /\ r.public = Endpoint \ hidden /\ r.owners = reader.owners
        /\ r.memberCount = reader.memberCount /\ r.ownerCount = reader.ownerCount
    BY <1>0 DEF Views!Reader
  <2> HIDE DEF r
  <2>6. Fair(r)
    BY <2>1, <2>4, <2>5, ReadOn DEF Finder
  <2> QED
    BY <2>1, <2>6
<1>5. CASE Views!ReadOwners
  <2> DEFINE r == [reader EXCEPT !.next = Tail(@), !.owners = Account]
  <2>1. reader' = r /\ Head(reader.next) = "owners"
    BY <1>5 DEF Views!ReadOwners
  <2>2. reader.ids = {Views!It} /\ Views!It \in Views!CollectiveId
    BY <2>1, TheOne
  <2>3. Account \in SUBSET Account
    OBVIOUS
  <2>4. r \in Views!Reader
    BY <1>0, <2>3 DEF Views!Reader
  <2>5. /\ r.view = reader.view /\ r.sub = reader.sub /\ r.who = reader.who
        /\ r.wanted = reader.wanted /\ r.ids = reader.ids /\ r.window = reader.window
        /\ r.quiet = reader.quiet /\ r.next = Tail(reader.next)
        /\ r.members = reader.members /\ r.subset = reader.subset
        /\ r.configured = reader.configured /\ r.present = reader.present
        /\ r.public = reader.public /\ r.owners = Account
        /\ r.memberCount = reader.memberCount /\ r.ownerCount = reader.ownerCount
    BY <1>0 DEF Views!Reader
  <2> HIDE DEF r
  <2>6. Fair(r)
    BY <2>1, <2>4, <2>5, ReadOn DEF Finder
  <2> QED
    BY <2>1, <2>6
<1>6. CASE Views!CountMembers
  <2> DEFINE n(c) == Cardinality(Views!Approved(c))
             counts == [c \in Views!CollectiveId |-> IF c \in reader.ids THEN n(c) ELSE 0]
             r == [reader EXCEPT !.next = Tail(@), !.memberCount = counts]
  <2>1. reader' = r /\ Head(reader.next) = "countMembers"
    BY <1>6, SameCounts DEF Views!CountMembers
  <2>2. \A c : n(c) \in Nat
    BY CountsAreNumbers
  <2>3. /\ counts \in [Views!CollectiveId -> Nat]
        /\ \A c \in reader.ids : counts[c] = n(c)
    <3>1. reader.ids \subseteq Views!CollectiveId
      BY <1>0 DEF Views!Reader
    <3> HIDE DEF n
    <3> QED
      BY <2>2, <3>1
  <2> HIDE DEF counts
  <2>4. r \in Views!Reader
    BY <1>0, <2>3 DEF Views!Reader
  <2>5. /\ r.view = reader.view /\ r.sub = reader.sub /\ r.who = reader.who
        /\ r.wanted = reader.wanted /\ r.ids = reader.ids /\ r.window = reader.window
        /\ r.quiet = reader.quiet /\ r.next = Tail(reader.next)
        /\ r.members = reader.members /\ r.subset = reader.subset
        /\ r.configured = reader.configured /\ r.present = reader.present
        /\ r.public = reader.public /\ r.owners = reader.owners
        /\ r.memberCount = counts /\ r.ownerCount = reader.ownerCount
    BY <1>0 DEF Views!Reader
  <2> HIDE DEF r
  <2>6. \A c \in r.ids : r.memberCount[c] = Cardinality(Views!Approved(c))
    BY <2>3, <2>5
  <2>7. Fair(r)
    BY <2>1, <2>4, <2>5, <2>6, ReadOn DEF Finder
  <2> QED
    BY <2>1, <2>7
<1>7. CASE Views!CountOwners
  <2> DEFINE n(c) == Cardinality({OwnerOf[e] : e \in Views!Approved(c)})
             counts == [c \in Views!CollectiveId |-> IF c \in reader.ids THEN n(c) ELSE 0]
             r == [reader EXCEPT !.next = Tail(@), !.ownerCount = counts]
  <2>1. reader' = r /\ Head(reader.next) = "countOwners"
    BY <1>7, SameCounts DEF Views!CountOwners
  <2>2. \A c : n(c) \in Nat
    BY CountsAreNumbers
  <2>3. /\ counts \in [Views!CollectiveId -> Nat]
        /\ \A c \in reader.ids : counts[c] = n(c)
    <3>1. reader.ids \subseteq Views!CollectiveId
      BY <1>0 DEF Views!Reader
    <3> HIDE DEF n
    <3> QED
      BY <2>2, <3>1
  <2> HIDE DEF counts
  <2>4. r \in Views!Reader
    BY <1>0, <2>3 DEF Views!Reader
  <2>5. /\ r.view = reader.view /\ r.sub = reader.sub /\ r.who = reader.who
        /\ r.wanted = reader.wanted /\ r.ids = reader.ids /\ r.window = reader.window
        /\ r.quiet = reader.quiet /\ r.next = Tail(reader.next)
        /\ r.members = reader.members /\ r.subset = reader.subset
        /\ r.configured = reader.configured /\ r.present = reader.present
        /\ r.public = reader.public /\ r.owners = reader.owners
        /\ r.memberCount = reader.memberCount /\ r.ownerCount = counts
    BY <1>0 DEF Views!Reader
  <2> HIDE DEF r
  <2>6. \A c \in r.ids : r.ownerCount[c] = Cardinality({OwnerOf[e] : e \in Views!Approved(c)})
    BY <2>3, <2>5
  <2>7. Fair(r)
    BY <2>1, <2>4, <2>5, <2>6, ReadOn DEF Finder
  <2> QED
    BY <2>1, <2>7
<1> QED
  BY <1>1, <1>2, <1>3, <1>4, <1>5, <1>6, <1>7

\* What a query finds: the collectives to read from then on.
LEMMA FoundOn ==
  ASSUME Fair(reader), reader.next # <<>>, Head(reader.next) \in Finder \ {"endpoint"},
         NEW cs \in SUBSET Views!CollectiveId, Views!Found(cs),
         reader.view \in Listing => \E c \in Views!CollectiveId : cs = {c},
         reader.view = "members" => cs \subseteq reader.ids
  PROVE  Fair(reader')
<1> DEFINE found == UNION {Views!Approved(c) : c \in cs}
           r == [reader EXCEPT !.next = Tail(@), !.ids = cs, !.window = found]
           rest == Tail(reader.next)
<1>1. reader' = r
  BY DEF Views!Found
<1>2. found \in SUBSET Endpoint /\ \A c \in cs : Views!Approved(c) \subseteq found
  BY DEF Views!Approved, Views!Holding
<1> HIDE DEF found
<1>3. r \in Views!Reader
  BY <1>2, Underway DEF Fair, Views!Reader, OneOn
<1>4. /\ r.view = reader.view /\ r.sub = reader.sub /\ r.who = reader.who
      /\ r.wanted = reader.wanted /\ r.ids = cs /\ r.window = found
      /\ r.next = Tail(reader.next) /\ r.members = reader.members
  BY DEF Fair, Views!Reader
<1> HIDE DEF r
<1>5. /\ reader.view # "none" /\ Follows(reader.view, reader.sub, rest) /\ ~Unfound(rest)
      /\ reader.view \in Listing =>
           \A p \in {"members", "endpoints", "owners"} : ~Done(p, rest)
      /\ reader.view \in Listing /\ reader.sub = "picks" =>
           ~Done("shared", rest) /\ ~Done("configured", rest)
      /\ reader.view \notin Listing => reader.sub = "all"
      /\ reader.view \in Views!Counting =>
           ~Done("countMembers", rest) /\ ~Done("countOwners", rest)
  BY Underway DEF OneOn
<1>6. reader.view \in Listing => r.members = {}
  BY <1>4 DEF Fair, Observed, Unfound
<1> HIDE DEF rest
<1>7. Observed(r)
  <2>1. r.view \in Listing => \E c \in Views!CollectiveId : r.ids = {c}
    BY <1>4
  <2>2. r.view = "members" =>
          /\ \E c \in Views!CollectiveId : r.ids = {c}
          /\ r.wanted = {"approved"} \/ \A c \in r.ids : /\ collective[c].row # "free"
                                                         /\ Views!Manages(r.who, c)
    BY <1>4 DEF Fair, Observed, Listing
  <2>3. /\ r.view \in Behind \cup {"summary"} => r.wanted = {"approved"}
        /\ \A c \in r.ids : Views!Approved(c) \subseteq r.window
    BY <1>2, <1>4 DEF Fair, Observed
  <2>4. r.next = rest
    BY <1>4 DEF rest
  <2> QED
    BY <1>4, <1>5, <1>6, <2>1, <2>2, <2>3, <2>4 DEF Observed
<1>8. Current(r)
  BY <1>4, <1>5 DEF Current, rest
<1> QED
  BY <1>1, <1>3, <1>7, <1>8 DEF Fair

\* The queries that look for collectives.
LEMMA CollectivesRead ==
  ASSUME Views!CatTypeOK, SlugsUnique, Fair(reader), reader.next # <<>>,
         Views!ReadCollective \/ Views!ReadPage \/ Views!ReadCollectivesOf
  PROVE  Fair(reader')
<1> DEFINE q == Head(reader.next)
<1>1. CASE Views!ReadCollective
  <2> DEFINE found == CASE q = "byId" -> {c \in reader.ids : Views!Live(c)}
                        [] q = "bySlug" -> Views!Under(reader.slug)
  <2>1. /\ q \in {"byId", "bySlug"}
        /\ IF found = {} THEN Views!NotFound ELSE Views!Found(found)
    BY <1>1 DEF Views!ReadCollective
  <2>2. CASE found = {}
    BY <2>1, <2>2, Nobody DEF Views!NotFound
  <2>3. CASE found # {}
    <3>1. reader.ids \in SUBSET Views!CollectiveId
      BY DEF Fair, Views!Reader
    <3>2. CASE q = "byId"
      <4>1. reader.view = "members"
        BY <3>2, Underway DEF OneOn
      <4>2. PICK c \in Views!CollectiveId : reader.ids = {c}
        BY <4>1 DEF Fair, Observed
      <4>3. found = {c}
        BY <2>3, <3>2, <4>2
      <4>4. Views!Found({c})
        BY <2>1, <2>3, <4>3
      <4> QED
        BY <3>2, <4>2, <4>4, FoundOn DEF Finder
    <3>3. CASE q = "bySlug"
      <4>1. found = Views!Under(reader.slug)
        BY <3>3
      <4> HIDE DEF found
      <4>2. PICK c : c \in found
        BY <2>3
      <4>3. c \in Views!CollectiveId /\ found = {c}
        BY <4>1, <4>2 DEF Views!Under, SlugsUnique
      <4>4. reader.view # "members"
        <5>1. \/ reader.view = "members" /\ reader.next \in LeftM \cup {ById}
              \/ reader.view # "members"
          BY Underway DEF Follows, Behind, OneOn
        <5> QED
          BY <3>3, <5>1, Stages DEF LeftM, LeftR
      <4> QED
        BY <2>1, <2>3, <3>3, <4>3, <4>4, FoundOn DEF Finder
    <3> QED
      BY <2>1, <3>2, <3>3
  <2> QED
    BY <2>2, <2>3
<1>2. CASE Views!ReadPage
  <2> DEFINE cs == {c \in Views!CollectiveId :
                      Views!Live(c) /\ reader.who \in {"none", collective[c].owner}}
  <2>1. q = "page" /\ Views!Found(cs) /\ cs \in SUBSET Views!CollectiveId
    BY <1>2 DEF Views!ReadPage
  <2>2. reader.view \notin Listing
    BY <2>1, Underway DEF OneOn
  <2> HIDE DEF cs
  <2> QED
    BY <2>1, <2>2, FoundOn DEF Finder, Listing
<1>3. CASE Views!ReadCollectivesOf
  <2>1. CASE q = "endpoint" /\ reader' = Views!NoReader
    BY <2>1, Nobody
  <2>2. CASE q = "endpoint" /\ reader' = [reader EXCEPT !.next = Tail(@)]
    <3> DEFINE r == [reader EXCEPT !.next = Tail(@)]
    <3>1. r \in Views!Reader
      BY Underway DEF Fair, Views!Reader, OneOn
    <3>2. /\ r.view = reader.view /\ r.sub = reader.sub /\ r.who = reader.who
          /\ r.wanted = reader.wanted /\ r.ids = reader.ids /\ r.window = reader.window
          /\ r.next = Tail(reader.next)
      BY DEF Fair, Views!Reader
    <3> HIDE DEF r
    <3>3. /\ reader.view # "none" /\ reader.view \notin Listing /\ reader.sub = "all"
          /\ Follows(reader.view, reader.sub, Tail(reader.next))
          /\ Unfound(Tail(reader.next))
      BY <2>2, Underway DEF Finder, OneOn
    <3>4. Observed(r)
      BY <3>2, <3>3 DEF Fair, Observed, Listing, Behind
    <3>5. Current(r)
      BY <3>2, <3>3 DEF Current, Done
    <3> QED
      BY <2>2, <3>1, <3>4, <3>5 DEF Fair, r
  <2>3. CASE q = "collectivesOf"
    <3> DEFINE cs == {c \in Views!CollectiveId : reader.members \subseteq Views!Approved(c)}
    <3>1. Views!Found(cs) /\ cs \in SUBSET Views!CollectiveId
      BY <1>3, <2>3 DEF Views!ReadCollectivesOf
    <3>2. reader.view \notin Listing
      BY <2>3, Underway DEF OneOn
    <3> HIDE DEF cs
    <3> QED
      BY <2>3, <3>1, <3>2, FoundOn DEF Finder, Listing
  <2> QED
    BY <1>3, <2>1, <2>2, <2>3 DEF Views!ReadCollectivesOf, Views!NotFound
<1> QED
  BY <1>1, <1>2, <1>3

\* A query that fails.
LEMMA FailedOn ==
  ASSUME Fair(reader), reader.next # <<>>, Views!FailQuery
  PROVE  Fair(reader')
<1> DEFINE q == Head(reader.next)
           r == [reader EXCEPT !.next = <<>>, !.quiet = FALSE]
<1>1. CASE q \in {"byId", "bySlug", "page", "endpoint", "shared"}
  BY <1>1, Nobody DEF Views!FailQuery
<1>2. CASE q \notin {"byId", "bySlug", "page", "endpoint", "shared"}
  <2>1. reader' = r
    BY <1>2 DEF Views!FailQuery
  <2>2. r \in Views!Reader
    <3>1. reader \in Views!Reader /\ <<>> \in Seq(Views!Query) /\ FALSE \in BOOLEAN
      BY DEF Fair
    <3> QED
      BY <3>1 DEF Views!Reader
  <2>3. /\ r.view = reader.view /\ r.sub = reader.sub /\ r.who = reader.who
        /\ r.wanted = reader.wanted /\ r.ids = reader.ids /\ r.window = reader.window
        /\ r.next = <<>> /\ r.members = reader.members /\ ~r.quiet
    BY DEF Fair, Views!Reader
  <2> HIDE DEF r
  <2>4. reader.view \in Listing => ~Unfound(reader.next)
    BY <1>2, Underway DEF OneOn, Unfound, Finder
  <2>5. reader.view # "none" /\ Follows(reader.view, reader.sub, <<>>)
    BY Underway DEF OneOn
  <2>6. Observed(r)
    BY <2>3, <2>4, <2>5 DEF Fair, Observed, Unfound
  <2> QED
    BY <2>1, <2>2, <2>3, <2>6 DEF Fair
<1> QED
  BY <1>1, <1>2

\* The queries of a view have yet to find collectives.
LEMMA PlansFollow ==
  \A v, s : \/ v = "members" /\ s = "all"
            \/ v \in Behind /\ s \in {"all", "picks"}
            \/ v = "summary" /\ s = "picks"
            \/ v \in {"collective", "page", "collectivesOf"} /\ s = "all"
         => /\ Follows(v, s, Views!Queries(v, s)) /\ Unfound(Views!Queries(v, s))
            /\ Views!Queries(v, s) \in Seq(Views!Query)
<1>1. \A next \in {ById, BySlug, PicksBySlug, SummaryBySlug, CountsBySlug, Paged, OfEndpoint} :
         next \in Seq(Views!Query)
  <2>1. ById \in Seq(Views!Query)
    BY DEF ById, Views!Query
  <2>2. BySlug \in Seq(Views!Query)
    BY DEF BySlug, Views!Query
  <2>3. PicksBySlug \in Seq(Views!Query)
    BY DEF PicksBySlug, Views!Query
  <2>4. SummaryBySlug \in Seq(Views!Query)
    BY DEF SummaryBySlug, Views!Query
  <2>5. CountsBySlug \in Seq(Views!Query)
    BY DEF CountsBySlug, Views!Query
  <2>6. Paged \in Seq(Views!Query)
    BY DEF Paged, Views!Query
  <2>7. OfEndpoint \in Seq(Views!Query)
    BY DEF OfEndpoint, Views!Query
  <2> QED
    BY <2>1, <2>2, <2>3, <2>4, <2>5, <2>6, <2>7
<1>2. \A next \in {ById, BySlug, PicksBySlug, SummaryBySlug, CountsBySlug, Paged, OfEndpoint} :
         Unfound(next)
  BY Stages, SMTT(30) DEF Unfound, Finder
<1> SUFFICES ASSUME NEW v, NEW s,
                    \/ v = "members" /\ s = "all"
                    \/ v \in Behind /\ s \in {"all", "picks"}
                    \/ v = "summary" /\ s = "picks"
                    \/ v \in {"collective", "page", "collectivesOf"} /\ s = "all"
             PROVE  /\ Follows(v, s, Views!Queries(v, s)) /\ Unfound(Views!Queries(v, s))
                    /\ Views!Queries(v, s) \in Seq(Views!Query)
  OBVIOUS
<1>3. CASE v = "members" /\ s = "all"
  BY <1>1, <1>2, <1>3, Plans DEF Follows
<1>4. CASE v \in Behind /\ s = "all"
  BY <1>1, <1>2, <1>4, Plans DEF Follows
<1>5. CASE v \in Behind /\ s = "picks"
  BY <1>1, <1>2, <1>5, Plans DEF Follows
<1>6. CASE v = "summary" /\ s = "picks"
  BY <1>1, <1>2, <1>6, Plans DEF Follows
<1>7. CASE v \in {"collective", "page", "collectivesOf"} /\ s = "all"
  BY <1>1, <1>2, <1>7, Plans DEF Follows
<1> QED
  BY <1>3, <1>4, <1>5, <1>6, <1>7

\* A view that begins.
LEMMA BegunAs ==
  ASSUME NEW p \in Views!Reader, Views!Begin(p),
         \/ p.view = "members" /\ p.sub = "all"
         \/ p.view \in Behind /\ p.sub \in {"all", "picks"}
         \/ p.view = "summary" /\ p.sub = "picks"
         \/ p.view \in {"collective", "page", "collectivesOf"} /\ p.sub = "all",
         p.view = "members" => /\ \E c \in Views!CollectiveId : p.ids = {c}
                               /\ \/ p.wanted = {"approved"}
                                  \/ \A c \in p.ids : /\ collective[c].row # "free"
                                                      /\ Views!Manages(p.who, c),
         p.view \in Behind \cup {"summary"} => p.wanted = {"approved"},
         \A c \in p.ids : Views!Approved(c) \subseteq p.window,
         p.view \in Listing => p.members = {}
  PROVE  Fair(reader')
<1> DEFINE plan == Views!Queries(p.view, p.sub)
           r == [p EXCEPT !.next = plan]
<1>1. Follows(p.view, p.sub, plan) /\ Unfound(plan) /\ plan \in Seq(Views!Query)
  BY PlansFollow
<1>2. reader' = r
  BY DEF Views!Begin
<1> HIDE DEF plan
<1>3. r \in Views!Reader
  BY <1>1 DEF Views!Reader
<1>4. /\ r.view = p.view /\ r.sub = p.sub /\ r.who = p.who /\ r.wanted = p.wanted
      /\ r.ids = p.ids /\ r.window = p.window /\ r.members = p.members /\ r.next = plan
  BY DEF Views!Reader
<1> HIDE DEF r
<1>5. p.view # "none"
  BY DEF Behind
<1>6. Observed(r)
  BY <1>1, <1>4, <1>5 DEF Observed
<1>7. Current(r)
  BY <1>1, <1>4 DEF Current, Done
<1> QED
  BY <1>2, <1>3, <1>6, <1>7 DEF Fair

\* Every view begins fairly.
LEMMA Begun ==
  ASSUME Views!BeginByPath \/ Views!BeginPage \/ Views!BeginCollectivesOf \/ Views!BeginMembers
  PROVE  Fair(reader')
<1> DEFINE none == Views!NoReader
<1>1. none \in Views!Reader
  BY Nobody DEF Fair
<1>2. /\ none.sub = "all" /\ none.ids = {} /\ none.members = {} /\ none.window = {}
      /\ none.who = "none"
  BY DEF Views!NoReader
<1> HIDE DEF none
<1>3. CASE Views!BeginByPath
  <2>1. PICK s \in CollectiveSlug, v \in {<<"paths", "all">>, <<"paths", "picks">>,
               <<"billing", "all">>, <<"billing", "picks">>, <<"summary", "picks">>,
               <<"collective", "all">>} :
          Views!Begin([none EXCEPT !.view = v[1], !.sub = v[2], !.slug = s,
                                   !.wanted = {"approved"}])
    BY <1>3, Zenon DEF Views!BeginByPath, none
  <2> DEFINE p == [none EXCEPT !.view = v[1], !.sub = v[2], !.slug = s, !.wanted = {"approved"}]
  <2>2. \/ v[1] \in Behind /\ v[2] \in {"all", "picks"}
        \/ v[1] = "summary" /\ v[2] = "picks"
        \/ v[1] = "collective" /\ v[2] = "all"
    BY <2>1 DEF Behind
  <2>3. v[1] \in Views!Queried /\ v[2] \in {"all", "picks"}
    BY <2>2 DEF Behind, Views!Queried
  <2>4. {"approved"} \in SUBSET Views!Standing
    BY DEF Views!Standing
  <2>5. p \in Views!Reader
    BY <1>1, <2>3, <2>4 DEF Views!Reader
  <2>6. /\ p.view = v[1] /\ p.sub = v[2] /\ p.wanted = {"approved"} /\ p.ids = {}
        /\ p.members = {}
    BY <1>1, <1>2 DEF Views!Reader
  <2>7. Views!Begin(p)
    BY <2>1
  <2> HIDE DEF p
  <2> QED
    BY <2>2, <2>5, <2>6, <2>7, BegunAs, SMTT(30) DEF Behind
<1>4. CASE Views!BeginPage
  <2>1. PICK who \in Account \cup {"none"} :
          Views!Begin([none EXCEPT !.view = "page", !.who = who])
    <3>1. [none EXCEPT !.view = "page"] = [none EXCEPT !.view = "page", !.who = "none"]
      BY <1>1, <1>2 DEF Views!Reader
    <3> QED
      BY <1>4, <3>1, Zenon DEF Views!BeginPage, none
  <2> DEFINE p == [none EXCEPT !.view = "page", !.who = who]
  <2>2. p \in Views!Reader
    BY <1>1 DEF Views!Reader, Views!Queried
  <2>3. p.view = "page" /\ p.sub = "all" /\ p.ids = {}
    BY <1>1, <1>2 DEF Views!Reader
  <2>4. Views!Begin(p)
    BY <2>1
  <2> HIDE DEF p
  <2> QED
    BY <2>2, <2>3, <2>4, BegunAs DEF Behind, Listing
<1>5. CASE Views!BeginCollectivesOf
  <2>1. PICK e \in Endpoint : Views!Begin([none EXCEPT !.view = "collectivesOf", !.members = {e}])
    BY <1>5, Zenon DEF Views!BeginCollectivesOf, none
  <2> DEFINE p == [none EXCEPT !.view = "collectivesOf", !.members = {e}]
  <2>2. p \in Views!Reader
    BY <1>1 DEF Views!Reader, Views!Queried
  <2>3. p.view = "collectivesOf" /\ p.sub = "all" /\ p.ids = {}
    BY <1>1, <1>2 DEF Views!Reader
  <2>4. Views!Begin(p)
    BY <2>1
  <2> HIDE DEF p
  <2> QED
    BY <2>2, <2>3, <2>4, BegunAs DEF Behind, Listing
<1>6. CASE Views!BeginMembers
  <2>1. PICK c \in Views!CollectiveId, who \in Account \cup {"none"},
             filter \in {{}, {"approved"}, {"other"}} :
          /\ Views!Live(c) /\ Views!MayAsk(who, c, filter)
          /\ Views!Begin([none EXCEPT !.view = "members", !.who = who, !.ids = {c},
                                      !.wanted = Views!Wanted(who, c, filter),
                                      !.window = Views!Approved(c)])
    BY <1>6, Zenon DEF Views!BeginMembers, none
  <2> DEFINE wanted == Views!Wanted(who, c, filter)
             found == Views!Approved(c)
             p == [none EXCEPT !.view = "members", !.who = who, !.ids = {c},
                               !.wanted = wanted, !.window = found]
  <2>2. wanted \in SUBSET Views!Standing /\ found \in SUBSET Endpoint
    BY DEF Views!Wanted, Views!Standing, Views!Approved, Views!Holding
  <2>3. wanted = {"approved"} \/ (collective[c].row # "free" /\ Views!Manages(who, c))
    <3>1. collective[c].row # "free"
      BY <2>1 DEF Views!Live
    <3>2. CASE filter = {}
      BY <3>1, <3>2 DEF Views!Wanted
    <3>3. CASE filter # {}
      <4>1. wanted = filter
        BY <3>3 DEF Views!Wanted
      <4>2. Views!Manages(who, c) \/ filter = {"approved"}
        BY <2>1, <3>3 DEF Views!MayAsk
      <4> QED
        BY <3>1, <4>1, <4>2
    <3> QED
      BY <3>2, <3>3
  <2>4. Views!Begin(p)
    BY <2>1
  <2> HIDE DEF wanted, found
  <2>5. p \in Views!Reader
    BY <1>1, <2>2 DEF Views!Reader, Views!Queried
  <2>6. /\ p.view = "members" /\ p.sub = "all" /\ p.ids = {c} /\ p.who = who
        /\ p.wanted = wanted /\ p.window = found /\ p.members = {}
    BY <1>1, <1>2 DEF Views!Reader
  <2> HIDE DEF p
  <2>7. \A d \in p.ids : d = c
    BY <2>6
  <2>8. Views!Approved(c) \subseteq p.window
    BY <2>6 DEF found
  <2>9. \A d \in p.ids : Views!Approved(d) \subseteq p.window
    BY <2>7, <2>8
  <2> QED
    BY <2>3, <2>4, <2>5, <2>6, <2>7, <2>9, BegunAs DEF Behind
<1> QED
  BY <1>3, <1>4, <1>5, <1>6

\* The answers of a request during which nothing changed are right.
LEMMA GivenSays ==
  ASSUME Fair(reader), reader.quiet, Views!Answered
  PROVE  \A a \in Views!Given(reader) : Says(a)
<1> SUFFICES ASSUME NEW c \in reader.ids,
                    NEW a, a = [of |-> c,
                                view |-> IF Views!AsManager(reader) THEN "roster" ELSE reader.view,
                                sub |-> reader.sub, wanted |-> reader.wanted,
                                shown |-> Views!Shown(reader),
                                memberCount |-> reader.memberCount[c],
                                ownerCount |-> reader.ownerCount[c]]
             PROVE  Says(a)
  BY DEF Views!Given
<1>1. /\ a.of = c /\ a.view = IF Views!AsManager(reader) THEN "roster" ELSE reader.view
      /\ a.sub = reader.sub /\ a.wanted = reader.wanted /\ a.shown = Views!Shown(reader)
      /\ a.memberCount = reader.memberCount[c] /\ a.ownerCount = reader.ownerCount[c]
  OBVIOUS
<1>2. /\ reader.view # "none" /\ reader.next = <<>> /\ \A q : Done(q, reader.next)
      /\ ~Unfound(reader.next)
  BY Tuples DEF Views!Answered, Done, Unfound
<1>3. Follows(reader.view, reader.sub, <<>>)
  BY <1>2 DEF Fair, Observed
<1>4. /\ reader.view \in Listing => /\ reader.members = Views!Holding(c, reader.wanted)
                                    /\ reader.present = {e \in Endpoint : presence[e] = "active"}
                                    /\ reader.owners = Account
                                    /\ \E d \in Views!CollectiveId : reader.ids = {d}
      /\ reader.sub = "picks" => reader.configured = subset[c].ids
      /\ reader.view \in Views!Counting =>
           /\ reader.memberCount[c] = Cardinality(Views!Approved(c))
           /\ reader.ownerCount[c] = Cardinality({OwnerOf[e] : e \in Views!Approved(c)})
  BY <1>2 DEF Fair, Current, Observed
<1>5. /\ reader.view \in Behind \cup {"summary"} => reader.wanted = {"approved"}
      /\ reader.view = "members" => \/ reader.wanted = {"approved"}
                                    \/ \A d \in reader.ids : Views!Manages(reader.who, d)
  BY DEF Fair, Observed
<1>6. reader.sub \in {"all", "picks"}
  BY DEF Fair, Views!Reader
<1>7. CASE reader.view \in Behind \cup {"summary"}
  <2>1. ~Views!AsManager(reader) /\ reader.view # "members"
    BY <1>7 DEF Views!AsManager, Behind
  <2>2. /\ reader.members = Views!Approved(c)
        /\ reader.present = {e \in Endpoint : presence[e] = "active"} /\ reader.owners = Account
    BY <1>4, <1>5, <1>7 DEF Listing, Behind, Views!Approved
  <2>3. reader.view = "summary" => reader.sub = "picks"
    BY <1>3 DEF Follows, Behind
  <2>4. \A e \in Endpoint : OwnerOf[e] \in Account
    BY ViewsAssumption DEF Views!CatalogueAssumption
  <2>5. Views!Shown(reader) = Serving(c, reader.sub)
    <3>1. CASE reader.view = "paths"
      BY <1>4, <1>6, <2>2, <2>4, <3>1 DEF Views!Shown, Views!Paths, Views!Participants,
         Views!Selected, Serving, Views!Approved, Views!Holding
    <3>2. CASE reader.view = "billing"
      BY <1>4, <1>6, <2>2, <3>2 DEF Views!Shown, Views!Participants,
         Views!Selected, Serving, Views!Approved, Views!Holding
    <3>3. CASE reader.view = "summary"
      BY <1>4, <2>2, <2>3, <3>3 DEF Views!Shown, Views!ActiveMembers,
         Serving, Views!Approved, Views!Holding
    <3> QED
      BY <1>7, <3>1, <3>2, <3>3 DEF Behind
  <2> QED
    BY <1>1, <1>7, <2>1, <2>5 DEF Says, Behind, Views!Counting
<1>8. CASE reader.view = "members" /\ Views!AsManager(reader)
  <2>1. Views!Shown(reader) = Views!Holding(c, reader.wanted)
    BY <1>4, <1>8 DEF Views!Shown, Listing
  <2> QED
    BY <1>1, <1>8, <2>1 DEF Says, Behind, Views!Counting
<1>9. CASE reader.view = "members" /\ ~Views!AsManager(reader)
  <2>1. reader.wanted = {"approved"}
    BY <1>5, <1>9 DEF Views!AsManager
  <2>2. reader.sub = "all"
    BY <1>3, <1>9 DEF Follows, Behind
  <2>3. reader.members = Views!Approved(c)
    BY <1>4, <1>9, <2>1 DEF Listing, Views!Approved
  <2>4. Views!Shown(reader) \subseteq Serving(c, "all")
    BY <1>4, <1>9, <2>2, <2>3 DEF Views!Shown, Views!Visible, Views!Participants,
       Views!Selected, Serving, Listing
  <2> QED
    BY <1>1, <1>9, <2>4 DEF Says, Behind, Views!Counting
<1>10. CASE reader.view \in Views!Counting
  BY <1>1, <1>4, <1>10 DEF Says, Behind, Views!Counting, Views!AsManager
<1> QED
  BY <1>2, <1>3, <1>7, <1>8, <1>9, <1>10 DEF Follows, Behind, Views!Counting

\* Answers that are right agree.
LEMMA SaysAgrees ==
  ASSUME NEW a, NEW b, Says(a), Says(b), a.of = b.of
  PROVE  Views!Agree(a, b)
<1>1. CASE {a.view, b.view} \subseteq {"paths", "billing", "summary"}
  BY <1>1 DEF Views!Agree, Says, Behind
<1>2. CASE a.view = "members" /\ b.view \in {"paths", "billing"}
  BY <1>2 DEF Views!Agree, Says, Behind
<1>3. CASE a.view \in {"paths", "billing"} /\ b.view = "roster"
  <2>1. a.shown = Serving(b.of, a.sub) /\ b.shown = Views!Holding(b.of, b.wanted)
    BY <1>3 DEF Says, Behind
  <2>2. "approved" \in b.wanted =>
          Serving(b.of, a.sub) \subseteq Views!Holding(b.of, b.wanted)
    BY DEF Serving, Views!Approved, Views!Holding
  <2> QED
    BY <1>3, <2>1, <2>2 DEF Views!Agree, Views!Counting
<1>4. CASE a.view \in Views!Counting /\ b.view = "roster"
  <2>1. b.wanted = {"approved"} => b.shown = Views!Approved(b.of)
    BY <1>4 DEF Says, Views!Approved
  <2>2. /\ a.memberCount = Cardinality(Views!Approved(b.of))
        /\ a.ownerCount = Cardinality({OwnerOf[e] : e \in Views!Approved(b.of)})
    BY <1>4 DEF Says
  <2> QED
    BY <1>4, <2>1, <2>2, SameCounts DEF Views!Agree, Views!Counting
<1>5. CASE {a.view, b.view} \subseteq Views!Counting
  BY <1>5 DEF Views!Agree, Says, Views!Counting
<1> QED
  BY <1>1, <1>2, <1>3, <1>4, <1>5 DEF Views!Agree

\* What the invariant says of the views.
LEMMA ViewsAreRight ==
  ASSUME ViewsIInv
  PROVE  ViewsFaithful
<1>1. Fair(reader)
  BY DEF ViewsIInv, Views!CatTypeOK, Fair
<1>2. ASSUME Views!Answered, ~Views!AsManager(reader)
      PROVE  Views!Shown(reader) \subseteq reader.window
  <2>1. ~Unfound(reader.next)
    BY <1>2 DEF Views!Answered, Unfound
  <2>2. reader.view \in Listing => /\ \E c \in Views!CollectiveId : reader.ids = {c}
                                   /\ reader.wanted = {"approved"}
                                   /\ reader.members \subseteq reader.window
    BY <1>1, <1>2, <2>1 DEF Fair, Observed, Listing, Behind, Views!AsManager
  <2>3. CASE reader.view \in Listing
    BY <2>2, <2>3 DEF Listing, Views!Shown, Views!Visible, Views!Paths, Views!Participants,
       Views!Selected, Views!ActiveMembers
  <2>4. CASE reader.view \notin Listing
    BY <2>4 DEF Listing, Views!Shown
  <2> QED
    BY <2>3, <2>4
<1>3. ASSUME Views!Answered, reader.quiet, NEW a \in answers, NEW b \in Views!Given(reader),
             a.of = b.of
      PROVE  Views!Agree(a, b) /\ Views!Agree(b, a)
  <2>1. Says(a) /\ Says(b)
    BY <1>1, <1>3, GivenSays DEF ViewsIInv
  <2> QED
    BY <1>3, <2>1, SaysAgrees
<1> QED
  BY <1>2, <1>3 DEF ViewsFaithful, Views!ViewsFaithful

\* The rows stay: what a reader has read stays as right as it was.
LEMMA ReaderMoves ==
  ASSUME ViewsIInv, UNCHANGED <<collective, standing, subset, presence, hidden>>,
         \/ making' = making
         \/ making' \in [pc : {"idle", "insert"}, slug : CollectiveSlug \cup {"none"},
                         owner : Account \cup {"none"}],
         events' \in Nat, Fair(reader'),
         answers' = answers \/ (reader.quiet /\ Views!Answered /\ answers' = Views!Given(reader))
  PROVE  ViewsIInv'
<1>1. \A c : Views!Approved(c)' = Views!Approved(c)
  BY DEF Views!Approved, Views!Holding
<1>2. Observed(reader)'
  BY DEF Fair, Observed, Views!Manages, Views!Approved, Views!Holding
<1>3. ASSUME reader'.quiet PROVE Current(reader)'
  <2>1. Current(reader')
    BY <1>3 DEF Fair
  <2>2. \A c : Views!Holding(c, reader.wanted)' = Views!Holding(c, reader'.wanted)
    BY DEF Views!Holding
  <2> QED
    BY <1>1, <2>1, <2>2 DEF Current
<1>4. \A a \in answers' : Says(a)
  BY GivenSays DEF ViewsIInv, Views!CatTypeOK, Fair
<1>5. \A a \in answers' : Says(a)'
  <2> SUFFICES ASSUME NEW a \in answers' PROVE Says(a)'
    OBVIOUS
  <2>1. Says(a)
    BY <1>4
  <2>2. Views!Holding(a.of, a.wanted)' = Views!Holding(a.of, a.wanted)
    BY DEF Views!Holding
  <2>3. \A c, s : Serving(c, s)' = Serving(c, s)
    BY <1>1 DEF Serving
  <2> QED
    BY <1>1, <2>1, <2>2, <2>3 DEF Says
<1>6. Views!CatTypeOK'
  BY DEF ViewsIInv, Views!CatTypeOK, Fair
<1>7. SlugsUnique'
  BY DEF ViewsIInv, SlugsUnique, Views!Live
<1> QED
  BY <1>2, <1>3, <1>5, <1>6, <1>7 DEF ViewsIInv

\* A request reads on, fails, begins or answers.
LEMMA ViewReadKeeps ==
  ASSUME ViewsIInv, Views!Read
  PROVE  ViewsIInv'
<1>0. Views!CatTypeOK /\ SlugsUnique /\ Fair(reader) /\ events \in Nat
  BY DEF ViewsIInv, Views!CatTypeOK, Fair
<1>1. CASE Views!BeginByPath \/ Views!BeginPage \/ Views!BeginCollectivesOf \/ Views!BeginMembers
  <2>1. UNCHANGED <<collective, standing, subset, presence, hidden, making, answers, events>>
    BY <1>1, Zenon DEF Views!BeginByPath, Views!BeginPage, Views!BeginCollectivesOf,
       Views!BeginMembers, Views!Begin, Views!rows
  <2> QED
    BY <1>0, <1>1, <2>1, Begun, ReaderMoves
<1>2. CASE Views!ReadNext
  <2>1. UNCHANGED <<collective, standing, subset, presence, hidden, making, answers, events>>
    BY <1>2 DEF Views!ReadNext, Views!rows
  <2>2. Fair(reader')
    BY <1>0, <1>2, ContentsRead, CollectivesRead DEF Views!ReadNext
  <2> QED
    BY <1>0, <2>1, <2>2, ReaderMoves
<1>3. CASE Views!FailQuery
  <2>1. /\ UNCHANGED <<collective, standing, subset, presence, hidden, making, answers>>
        /\ events' \in Nat /\ reader.next # <<>>
    BY <1>0, <1>3 DEF Views!FailQuery, Views!rows, Views!Event
  <2> QED
    BY <1>0, <1>3, <2>1, FailedOn, ReaderMoves
<1>4. CASE Views!Respond
  <2>1. /\ UNCHANGED <<collective, standing, subset, presence, hidden, making, events>>
        /\ Views!Answered /\ reader' = Views!NoReader
        /\ answers' = IF reader.quiet THEN Views!Given(reader) ELSE answers
    BY <1>4 DEF Views!Respond, Views!rows
  <2> QED
    BY <1>0, <2>1, Nobody, ReaderMoves
<1> QED
  BY <1>1, <1>2, <1>3, <1>4 DEF Views!Read

\* A change: no answer stands, and the reader has seen who is approved then.
LEMMA Disturbed ==
  ASSUME Views!CatTypeOK, Fair(reader), Views!Watch,
         \A c \in Views!CollectiveId : collective[c].row # "free" =>
            collective'[c].row # "free" /\ collective'[c].owner = collective[c].owner
  PROVE  /\ reader' \in Views!Reader /\ Observed(reader)' /\ answers' = {}
         /\ reader'.quiet => Current(reader)'
<1>1. answers' = {}
  BY DEF Views!Watch
<1>2. CASE reader.view = "none"
  <2>1. reader' = reader /\ reader = Views!NoReader
    BY <1>2 DEF Views!Watch, Fair, Observed
  <2>2. reader'.ids = {} /\ reader'.next = <<>> /\ reader'.sub = "all" /\ reader'.view = "none"
    BY <2>1 DEF Views!NoReader
  <2>3. Observed(reader)'
    BY <2>1, <2>2 DEF Observed, Follows, Listing, Behind
  <2>4. Current(reader)'
    BY <2>2 DEF Current
  <2> QED
    BY <1>1, <2>1, <2>3, <2>4 DEF Fair
<1>3. CASE reader.view # "none"
  <2> DEFINE approved == {e \in Endpoint : \E c \in reader.ids : standing'[c][e] = "approved"}
             seen == reader.window \cup approved
             r == [reader EXCEPT !.quiet = FALSE, !.window = seen]
  <2>1. reader' = r
    BY <1>3 DEF Views!Watch
  <2>2. seen \in SUBSET Endpoint
    BY DEF Fair, Views!Reader
  <2>3. \A c \in reader.ids : Views!Approved(c)' \subseteq seen
    BY DEF Views!Approved, Views!Holding
  <2>4. reader.window \subseteq seen
    OBVIOUS
  <2> HIDE DEF seen
  <2>5. r \in Views!Reader
    <3>1. FALSE \in BOOLEAN
      OBVIOUS
    <3> QED
      BY <2>2, <3>1 DEF Fair, Views!Reader
  <2>6. /\ r.view = reader.view /\ r.sub = reader.sub /\ r.who = reader.who
        /\ r.wanted = reader.wanted /\ r.ids = reader.ids /\ r.window = seen
        /\ r.next = reader.next /\ r.members = reader.members /\ ~r.quiet
    BY DEF Fair, Views!Reader
  <2> HIDE DEF r
  <2>7. reader.ids \in SUBSET Views!CollectiveId
    BY DEF Fair, Views!Reader
  <2>8. \A c \in reader.ids : /\ collective[c].row # "free" /\ Views!Manages(reader.who, c)
          => collective'[c].row # "free" /\ collective'[c].owner = reader.who
    BY <2>7 DEF Views!Manages
  <2>9. /\ Follows(reader.view, reader.sub, reader.next)
        /\ reader.view \in Listing /\ ~Unfound(reader.next) =>
             \E c \in Views!CollectiveId : reader.ids = {c}
        /\ reader.view = "members" =>
             /\ \E c \in Views!CollectiveId : reader.ids = {c}
             /\ \/ reader.wanted = {"approved"}
                \/ \A c \in reader.ids : /\ collective[c].row # "free"
                                         /\ Views!Manages(reader.who, c)
        /\ reader.view \in Behind \cup {"summary"} => reader.wanted = {"approved"}
        /\ reader.view \in Listing /\ Unfound(reader.next) => reader.members = {}
        /\ reader.view \in Listing /\ reader.wanted = {"approved"} =>
             reader.members \subseteq reader.window
    BY DEF Fair, Observed
  <2>10. Observed(reader)'
    BY <1>3, <2>1, <2>3, <2>4, <2>6, <2>8, <2>9 DEF Observed, Views!Manages
  <2> QED
    BY <1>1, <2>1, <2>5, <2>6, <2>10
<1> QED
  BY <1>2, <1>3

\* A change of the rows that leaves them what they are keeps the invariant.
LEMMA RowsMove ==
  ASSUME ViewsIInv, Views!Watch, SlugsUnique',
         \A c \in Views!CollectiveId : collective[c].row # "free" =>
            collective'[c].row # "free" /\ collective'[c].owner = collective[c].owner,
         reader' \in Views!Reader => Views!CatTypeOK'
  PROVE  ViewsIInv'
<1>1. Views!CatTypeOK /\ Fair(reader)
  BY DEF ViewsIInv, Fair, Views!CatTypeOK
<1> QED
  BY <1>1, Disturbed DEF ViewsIInv

\* The rows change.
LEMMA RowsChangeKeeps ==
  ASSUME ViewsIInv, Views!Change
  PROVE  ViewsIInv'
<1> USE DEF Views!NoSubset
<1>0. Views!CatTypeOK /\ SlugsUnique /\ events \in Nat
  BY DEF ViewsIInv, Views!CatTypeOK
<1>1. ASSUME NEW c \in Views!CollectiveId, NEW e \in Endpoint, NEW to \in Views!Standing,
             Views!SetStanding(c, e, to)
      PROVE  ViewsIInv'
  <2>1. /\ standing' = [standing EXCEPT ![c][e] = to] /\ events' = events + 1 /\ Views!Watch
        /\ UNCHANGED <<collective, subset, presence, hidden, making>>
    BY <1>1 DEF Views!SetStanding, Views!Event
  <2>2. standing' \in [Views!CollectiveId -> [Endpoint -> Views!Standing]]
    BY <1>0, <2>1 DEF Views!CatTypeOK
  <2>3. reader' \in Views!Reader => Views!CatTypeOK'
    BY <1>0, <2>1, <2>2 DEF Views!CatTypeOK
  <2>4. SlugsUnique'
    BY <1>0, <2>1 DEF SlugsUnique, Views!Live
  <2> QED
    BY <2>1, <2>3, <2>4, RowsMove
<1>2. ASSUME NEW c \in Views!CollectiveId, NEW ids \in SUBSET Endpoint, Views!SetShared(c, ids)
      PROVE  ViewsIInv'
  <2> DEFINE no == IF subset[c].no = 0 THEN events + 2 ELSE subset[c].no
  <2>1. /\ subset' = [subset EXCEPT ![c] = [no |-> no, ids |-> ids]] /\ events' = events + 1
        /\ Views!Watch /\ UNCHANGED <<collective, standing, presence, hidden, making>>
    BY <1>2 DEF Views!SetShared, Views!Event
  <2>2. no \in Nat
    BY <1>0 DEF Views!CatTypeOK
  <2> HIDE DEF no
  <2>3. subset' \in [Views!CollectiveId -> [no : Nat, ids : SUBSET Endpoint]]
    BY <1>0, <2>1, <2>2 DEF Views!CatTypeOK
  <2>4. reader' \in Views!Reader => Views!CatTypeOK'
    BY <1>0, <2>1, <2>3 DEF Views!CatTypeOK
  <2>5. SlugsUnique'
    BY <1>0, <2>1 DEF SlugsUnique, Views!Live
  <2> QED
    BY <2>1, <2>4, <2>5, RowsMove
<1>3. ASSUME NEW c \in Views!CollectiveId, Views!DropShared(c)
      PROVE  ViewsIInv'
  <2>1. /\ subset' = [subset EXCEPT ![c] = Views!NoSubset] /\ events' = events + 1
        /\ Views!Watch /\ UNCHANGED <<collective, standing, presence, hidden, making>>
    BY <1>3 DEF Views!DropShared, Views!Event
  <2>2. subset' \in [Views!CollectiveId -> [no : Nat, ids : SUBSET Endpoint]]
    BY <1>0, <2>1 DEF Views!CatTypeOK
  <2>3. reader' \in Views!Reader => Views!CatTypeOK'
    BY <1>0, <2>1, <2>2 DEF Views!CatTypeOK
  <2>4. SlugsUnique'
    BY <1>0, <2>1 DEF SlugsUnique, Views!Live
  <2> QED
    BY <2>1, <2>3, <2>4, RowsMove
<1>4. ASSUME NEW c \in Views!CollectiveId, Views!DropCollective(c)
      PROVE  ViewsIInv'
  <2>1. /\ collective' = [collective EXCEPT ![c].row = "gone"]
        /\ standing' = [standing EXCEPT ![c] = [e \in Endpoint |-> "none"]]
        /\ subset' = [subset EXCEPT ![c] = Views!NoSubset] /\ events' = events + 1
        /\ Views!Watch /\ UNCHANGED <<presence, hidden, making>>
    BY <1>4 DEF Views!DropCollective, Views!Event
  <2>2. \A d \in Views!CollectiveId :
           /\ collective'[d].slug = collective[d].slug
           /\ collective'[d].owner = collective[d].owner
           /\ collective'[d].row = IF d = c THEN "gone" ELSE collective[d].row
    BY <1>0, <2>1 DEF Views!CatTypeOK
  <2>3. collective' \in [Views!CollectiveId -> [row : {"free", "live", "gone"},
           slug : CollectiveSlug \cup {"none"}, owner : Account \cup {"none"}]]
    BY <1>0, <2>1, ZenonT(40) DEF Views!CatTypeOK
  <2>4. standing' \in [Views!CollectiveId -> [Endpoint -> Views!Standing]]
    BY <1>0, <2>1 DEF Views!CatTypeOK, Views!Standing
  <2>5. subset' \in [Views!CollectiveId -> [no : Nat, ids : SUBSET Endpoint]]
    BY <1>0, <2>1 DEF Views!CatTypeOK
  <2>6. reader' \in Views!Reader => Views!CatTypeOK'
    BY <1>0, <2>1, <2>3, <2>4, <2>5 DEF Views!CatTypeOK
  <2>7. SlugsUnique'
    BY <1>0, <2>2 DEF SlugsUnique, Views!Live
  <2> QED
    BY <2>1, <2>2, <2>6, <2>7, RowsMove
<1>5. ASSUME NEW e \in Endpoint, Views!DropEndpoint(e)
      PROVE  ViewsIInv'
  <2>1. /\ presence' = [presence EXCEPT ![e] = "deleted"]
        /\ standing' = [c \in Views!CollectiveId |-> [standing[c] EXCEPT ![e] = "none"]]
        /\ subset' = [c \in Views!CollectiveId |-> [subset[c] EXCEPT !.ids = @ \ {e}]]
        /\ events' = events + 1 /\ Views!Watch /\ UNCHANGED <<collective, hidden, making>>
    BY <1>5 DEF Views!DropEndpoint, Views!Event
  <2>2. presence' \in [Endpoint -> {"active", "inactive", "deleted"}]
    BY <1>0, <2>1 DEF Views!CatTypeOK
  <2>3. standing' \in [Views!CollectiveId -> [Endpoint -> Views!Standing]]
    BY <1>0, <2>1 DEF Views!CatTypeOK, Views!Standing
  <2>4. subset' \in [Views!CollectiveId -> [no : Nat, ids : SUBSET Endpoint]]
    BY <1>0, <2>1, SMTT(30) DEF Views!CatTypeOK
  <2>5. events' = events + 1 /\ UNCHANGED <<collective, hidden, making>>
    BY <2>1
  <2>6. reader' \in Views!Reader => Views!CatTypeOK'
    BY <1>0, <2>2, <2>3, <2>4, <2>5 DEF Views!CatTypeOK
  <2>7. SlugsUnique'
    BY <1>0, <2>5 DEF SlugsUnique, Views!Live
  <2> QED
    BY <2>1, <2>6, <2>7, RowsMove
<1>6. ASSUME NEW e \in Endpoint, Views!Toggle(e)
      PROVE  ViewsIInv'
  <2>1. /\ presence' = [presence EXCEPT ![e] = IF @ = "active" THEN "inactive" ELSE "active"]
        /\ events' = events + 1 /\ Views!Watch
        /\ UNCHANGED <<collective, standing, subset, hidden, making>>
    BY <1>6 DEF Views!Toggle, Views!Event
  <2>2. presence' \in [Endpoint -> {"active", "inactive", "deleted"}]
    BY <1>0, <2>1 DEF Views!CatTypeOK
  <2>3. reader' \in Views!Reader => Views!CatTypeOK'
    BY <1>0, <2>1, <2>2 DEF Views!CatTypeOK
  <2>4. SlugsUnique'
    BY <1>0, <2>1 DEF SlugsUnique, Views!Live
  <2> QED
    BY <2>1, <2>3, <2>4, RowsMove
<1>7. ASSUME NEW e \in Endpoint, Views!Hide(e)
      PROVE  ViewsIInv'
  <2>1. /\ hidden' = hidden \cup {e} /\ events' = events + 1 /\ Views!Watch
        /\ UNCHANGED <<collective, standing, subset, presence, making>>
    BY <1>7 DEF Views!Hide, Views!Event
  <2>2. reader' \in Views!Reader => Views!CatTypeOK'
    BY <1>0, <2>1 DEF Views!CatTypeOK
  <2>3. SlugsUnique'
    BY <1>0, <2>1 DEF SlugsUnique, Views!Live
  <2> QED
    BY <2>1, <2>2, <2>3, RowsMove
<1> QED
  BY <1>1, <1>2, <1>3, <1>4, <1>5, <1>6, <1>7 DEF Views!Change

\* A collective is created under a slug that leads to no other.
LEMMA CreationKeeps ==
  ASSUME ViewsIInv, Views!Create
  PROVE  ViewsIInv'
<1>0. Views!CatTypeOK /\ SlugsUnique /\ Fair(reader)
  BY DEF ViewsIInv, Views!CatTypeOK, Fair
<1>1. ASSUME NEW u \in Creator, NEW s \in CollectiveSlug, NEW given \in BOOLEAN,
             Views!ChooseSlug(u, s, given)
      PROVE  ViewsIInv'
  <2>1. PICK x \in Views!Untaken(s, given) :
           making' = [pc |-> "insert", slug |-> x, owner |-> u]
    BY <1>1 DEF Views!ChooseSlug
  <2>2. UNCHANGED <<collective, standing, subset, presence, hidden, reader, answers, events>>
    BY <1>1 DEF Views!ChooseSlug, Views!rows
  <2>3. x \in CollectiveSlug /\ u \in Account
    BY <2>1, ViewsAssumption DEF Views!Untaken, Views!CatalogueAssumption
  <2>4. making' \in [pc : {"idle", "insert"}, slug : CollectiveSlug \cup {"none"},
                     owner : Account \cup {"none"}]
    BY <2>1, <2>3
  <2>5. events' \in Nat /\ reader' = reader /\ answers' = answers
    BY <1>0, <2>2 DEF Views!CatTypeOK
  <2> QED
    BY <1>0, <2>2, <2>4, <2>5, ReaderMoves
<1>2. CASE Views!InsertCollective
  <2>1. making' = Views!NotMaking
    BY <1>2 DEF Views!InsertCollective
  <2>2. Views!NotMaking \in [pc : {"idle", "insert"}, slug : CollectiveSlug \cup {"none"},
                             owner : Account \cup {"none"}]
    BY DEF Views!NotMaking
  <2>3. ASSUME Views!Under(making.slug) = {}, NEW c \in Views!CollectiveId,
               collective[c].row = "free",
               collective' = [collective EXCEPT ![c] =
                                [row |-> "live", slug |-> making.slug, owner |-> making.owner]],
               UNCHANGED <<standing, subset, presence, hidden, events>>, Views!Watch
        PROVE  ViewsIInv'
    <3>1. making.slug \in CollectiveSlug \cup {"none"} /\ making.owner \in Account \cup {"none"}
      BY <1>0 DEF Views!CatTypeOK
    <3>2. collective' \in [Views!CollectiveId -> [row : {"free", "live", "gone"},
             slug : CollectiveSlug \cup {"none"}, owner : Account \cup {"none"}]]
      BY <1>0, <2>3, <3>1 DEF Views!CatTypeOK
    <3>3. reader' \in Views!Reader => Views!CatTypeOK'
      BY <1>0, <2>1, <2>2, <2>3, <3>2 DEF Views!CatTypeOK
    <3>4. \A d \in Views!CollectiveId : d # c => collective'[d] = collective[d]
      BY <1>0, <2>3 DEF Views!CatTypeOK
    <3>5. collective'[c].slug = making.slug
      BY <1>0, <2>3 DEF Views!CatTypeOK
    <3>6. SlugsUnique'
      BY <1>0, <2>3, <3>4, <3>5 DEF SlugsUnique, Views!Live, Views!Under
    <3> QED
      BY <2>3, <3>3, <3>4, <3>6, RowsMove
  <2>4. CASE UNCHANGED <<collective, standing, subset, presence, hidden, reader, answers, events>>
    <3>1. events' \in Nat /\ reader' = reader /\ answers' = answers
      BY <1>0, <2>4 DEF Views!CatTypeOK
    <3> QED
      BY <1>0, <2>1, <2>2, <2>4, <3>1, ReaderMoves
  <2> QED
    BY <1>2, <2>3, <2>4 DEF Views!InsertCollective, Views!rows
<1> QED
  BY <1>1, <1>2 DEF Views!Create

\* The first state.
LEMMA ViewsStart ==
  ASSUME Views!CatInit
  PROVE  ViewsIInv
<1>1. PICK s \in CollectiveSlug \ Suffixed, u \in Account \ Creator :
        collective = [c \in Views!CollectiveId |->
           IF c = 1 THEN [row |-> "live", slug |-> s, owner |-> u] ELSE Views!NoCollective]
  BY DEF Views!CatInit
<1>2. collective \in [Views!CollectiveId -> [row : {"free", "live", "gone"},
         slug : CollectiveSlug \cup {"none"}, owner : Account \cup {"none"}]]
  BY <1>1 DEF Views!NoCollective
<1>3. standing \in [Views!CollectiveId -> [Endpoint -> Views!Standing]]
  BY DEF Views!CatInit, Views!Standing
<1>4. subset \in [Views!CollectiveId -> [no : Nat, ids : SUBSET Endpoint]]
  BY DEF Views!CatInit, Views!NoSubset
<1>5. presence \in [Endpoint -> {"active", "inactive", "deleted"}] /\ hidden \subseteq Endpoint
  BY DEF Views!CatInit
<1>6. /\ making \in [pc : {"idle", "insert"}, slug : CollectiveSlug \cup {"none"},
                     owner : Account \cup {"none"}]
      /\ answers = {} /\ events \in Nat /\ reader = Views!NoReader
  BY DEF Views!CatInit, Views!NotMaking
<1>7. Views!CatTypeOK
  BY <1>2, <1>3, <1>4, <1>5, <1>6, Nobody DEF Views!CatTypeOK, Fair
<1>8. SlugsUnique
  BY <1>1 DEF SlugsUnique, Views!Live, Views!NoCollective
<1> QED
  BY <1>6, <1>7, <1>8, Nobody DEF ViewsIInv, Fair

\* Every step keeps the invariant.
LEMMA ViewsStep ==
  ASSUME ViewsIInv, [Views!CatNext]_(Views!catVars)
  PROVE  ViewsIInv'
<1>1. CASE Views!CatNext
  BY <1>1, RowsChangeKeeps, CreationKeeps, ViewReadKeeps DEF Views!CatNext
<1>2. CASE UNCHANGED Views!catVars
  <2>1. UNCHANGED <<collective, standing, subset, presence, hidden, making, reader, answers,
                    events>>
    BY <1>2 DEF Views!catVars
  <2>2. events' \in Nat /\ Fair(reader')
    BY <2>1 DEF ViewsIInv, Views!CatTypeOK, Fair
  <2> QED
    BY <2>1, <2>2, ReaderMoves
<1> QED
  BY <1>1, <1>2

\* The views always are what the type invariant says.
THEOREM ViewsTypeCorrect == Views!CatSpec => []Views!CatTypeOK
<1>1. ViewsIInv => Views!CatTypeOK
  BY DEF ViewsIInv
<1> QED
  BY <1>1, ViewsStart, ViewsStep, PTL DEF Views!CatSpec

\* What is shown as the members of a collective were approved members of it
\* while the view was read, and the views of it agree when nothing changes.
THEOREM ViewsAreFaithful == Views!CatSpec => []ViewsFaithful
  BY ViewsStart, ViewsStep, ViewsAreRight, PTL DEF Views!CatSpec
=============================================================================
