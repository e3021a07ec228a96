---------------------------- MODULE PeopleProofs -----------------------------
(***************************************************************************)
(* The organization structure: type correctness, DepartmentWasOfPosition   *)
(* and PositionIsRecorded, for any number of positions, employees and      *)
(* requests.  A handler carries the department that its position had when  *)
(* it was read; that department stays one the position was in, wherever    *)
(* the position moves.  What HR sets by hand, and what a candidate brings, *)
(* is in the histories from then on.                                       *)
(*                                                                         *)
(* Performance appraisals: type correctness, SuspendedWasRatedLow and      *)
(* ManagerPublishesAfterDispute.  Documents stay, and the ratings that a   *)
(* record has had only grow: what the check counted in two steps was rated *)
(* low, whatever managers wrote in between.                                *)
(*                                                                         *)
(* Reporting lines: type correctness, SupervisorWasHead and                *)
(* SettledHeadsMakeTrees.  The histories of positions and heads grow, so   *)
(* what a handler carries stays the head of a department that the position *)
(* was in; a head that was never in another department reports to nobody.  *)
(*                                                                         *)
(* Profiles: type correctness, ApprovedWasApplied and RolesFollowAccess.   *)
(* What profiles said only grows; an employee whose access was asked for   *)
(* in order has one handler at a time that writes roles, and one document. *)
(***************************************************************************)
EXTENDS Organization, Appraisals, ReportingLines, Profiles, FiniteSetTheorems, TLAPS

Carriers == {"assign.activate", "assign.find", "assign.close", "assign.create", "assign.profile",
             "hold.profile", "hold.create"}

\* What a handler in flight carries fits the documents.
OrgCallSound(call) ==
    /\ call.at \in Carriers \cup {"move.propagate"} =>
         <<call.position, call.department>> \in positionWasIn
    /\ call.at = "assign.profile" => Recorded(call.member, call.position)
    /\ call.at = "assign.close" => positionAssignments[call.assignment] # NULL
    /\ call.at = "apply" => changeRequests[call.request] # NULL

OrgCallsSound == \A a \in Agent : orgCalls[a] # NULL => OrgCallSound(orgCalls[a])

PositionsKnown ==
    \A p \in Position : positions[p] # NULL => <<p, positions[p].department>> \in positionWasIn

OrganizationInv ==
    /\ OrganizationTypeOK
    /\ OrgCallsSound
    /\ PositionsKnown
    /\ DepartmentWasOfPosition
    /\ PositionIsRecorded

-----------------------------------------------------------------------------

THEOREM OrganizationInitially == OrganizationInit => OrganizationInv
<1> SUFFICES ASSUME OrganizationInit PROVE OrganizationInv
  OBVIOUS
<1>1. /\ positions \in [Position -> PositionDoc \cup {NULL}]
      /\ profiles \in [Member -> ProfileDoc]
      /\ positionAssignments \in [PositionAssignment -> AssignedDoc \cup {NULL}]
      /\ changeRequests \in [ChangeRequest -> ChangeRequestDoc \cup {NULL}]
      /\ orgCalls \in [Agent -> OrgCall \cup {NULL}]
  BY DEF OrganizationInit, ProfileDoc
<1>2. /\ positionWasIn \subseteq Position \X Department /\ orgOps \in 0..MaxOrgOps
      /\ employed \subseteq Member /\ placedIn \subseteq Member \X (Department \cup {NULL})
      /\ unrecorded \subseteq Member \X Position
  BY OrganizationAssumption DEF OrganizationInit
<1>3. OrgCallsSound /\ PositionsKnown /\ DepartmentWasOfPosition /\ PositionIsRecorded
  BY DEF OrganizationInit, OrgCallsSound, PositionsKnown, DepartmentWasOfPosition, PositionIsRecorded
<1> QED BY <1>1, <1>2, <1>3 DEF OrganizationInv, OrganizationTypeOK

\* The fields of a call at each of its steps.
LEMMA OrgCallFields ==
    ASSUME NEW call \in OrgCall
    PROVE  /\ call.at \in Carriers =>
                /\ call.member \in Member /\ call.position \in Position
                /\ call.department \in Department /\ call.ends \in BOOLEAN
           /\ call.at = "assign.close" => call.assignment \in PositionAssignment
           /\ call.at \in {"hold.activate", "remove.unset", "remove.delete", "move.save",
                           "move.propagate"} => call.position \in Position
           /\ call.at = "apply" => call.request \in ChangeRequest
           /\ call.at = "move.save" => call.read \in Department /\ call.to \in Department \cup {NULL}
           /\ call.at = "move.propagate" => call.department \in Department
BY DEF OrgCall, Carriers

\* A call made of the fields of a handler that carries a position.
LEMMA CarrierCalls ==
    ASSUME NEW e \in Member, NEW p \in Position, NEW d \in Department, NEW ends \in BOOLEAN,
           NEW where \in Carriers \ {"assign.close"}
    PROVE  [at |-> where, member |-> e, position |-> p, department |-> d, ends |-> ends] \in OrgCall
BY DEF OrgCall, Carriers

LEMMA OrgCallOf ==
    ASSUME OrganizationInv, NEW a \in Agent, orgCalls[a] # NULL
    PROVE  orgCalls[a] \in OrgCall /\ OrgCallSound(orgCalls[a])
BY DEF OrganizationInv, OrganizationTypeOK, OrgCallsSound

-----------------------------------------------------------------------------
(* What steps have in common.                                              *)

\* Departments of the past, recorded positions and requests never go away.
OrgGrows ==
    /\ positionWasIn \subseteq positionWasIn'
    /\ placedIn \subseteq placedIn' /\ unrecorded \subseteq unrecorded'
    /\ \A s \in PositionAssignment : positionAssignments[s] # NULL =>
         /\ positionAssignments'[s] # NULL
         /\ positionAssignments'[s].of = positionAssignments[s].of
         /\ positionAssignments'[s].position = positionAssignments[s].position
    /\ \A q \in ChangeRequest : changeRequests[q] # NULL => changeRequests'[q] # NULL

\* Agent a goes on with next, a call or NULL.
OrgMoves(a, next) == orgCalls' = [orgCalls EXCEPT ![a] = next]

LEMMA SoundStays ==
    ASSUME NEW call \in OrgCall, OrgCallSound(call), OrgGrows
    PROVE  OrgCallSound(call)'
<1>1. call.at = "assign.profile" => Recorded(call.member, call.position)'
  BY DEF OrgCallSound, OrgGrows, Recorded
<1>2. call.at = "assign.close" => positionAssignments'[call.assignment] # NULL
  BY OrgCallFields DEF OrgCallSound, OrgGrows
<1>3. call.at = "apply" => changeRequests'[call.request] # NULL
  BY OrgCallFields DEF OrgCallSound, OrgGrows
<1>4. call.at \in Carriers \cup {"move.propagate"} =>
        <<call.position, call.department>> \in positionWasIn'
  BY DEF OrgCallSound, OrgGrows
<1> QED BY <1>1, <1>2, <1>3, <1>4 DEF OrgCallSound, Carriers

LEMMA OrgCallsAfter ==
    ASSUME OrganizationInv, NEW a \in Agent, NEW next \in OrgCall \cup {NULL}, OrgMoves(a, next),
           next # NULL => OrgCallSound(next)', OrgGrows
    PROVE  orgCalls' \in [Agent -> OrgCall \cup {NULL}] /\ OrgCallsSound'
<1>1. orgCalls \in [Agent -> OrgCall \cup {NULL}]
  BY DEF OrganizationInv, OrganizationTypeOK
<1>2. /\ orgCalls' \in [Agent -> OrgCall \cup {NULL}]
      /\ \A b \in Agent : orgCalls'[b] = IF b = a THEN next ELSE orgCalls[b]
  BY <1>1 DEF OrgMoves
<1>3. ASSUME NEW b \in Agent, b # a, orgCalls[b] # NULL PROVE OrgCallSound(orgCalls[b])'
  <2>1. orgCalls[b] \in OrgCall /\ OrgCallSound(orgCalls[b]) /\ orgCalls'[b] = orgCalls[b]
    BY <1>2, <1>3, OrgCallOf
  <2> QED BY <2>1, SoundStays DEF OrgCallSound
<1>4. next # NULL => OrgCallSound(orgCalls[a])'
  BY <1>2 DEF OrgCallSound
<1> QED BY <1>2, <1>3, <1>4 DEF OrgCallsSound

LEMMA OrgCallsStay ==
    ASSUME OrganizationInv, orgCalls' = orgCalls, OrgGrows
    PROVE  OrgCallsSound'
<1>1. ASSUME NEW b \in Agent, orgCalls[b] # NULL PROVE OrgCallSound(orgCalls[b])'
  <2>1. orgCalls[b] \in OrgCall /\ OrgCallSound(orgCalls[b]) /\ orgCalls'[b] = orgCalls[b]
    BY <1>1, OrgCallOf
  <2> QED BY <2>1, SoundStays DEF OrgCallSound
<1> QED BY <1>1 DEF OrgCallsSound

\* An employee that keeps a position, or loses it, stays accounted for.
LEMMA HolderStays ==
    ASSUME OrganizationInv, OrgGrows,
           \A b \in Agent : At(orgCalls, b, "hold.create") => orgCalls'[b] = orgCalls[b],
           NEW e \in Member, profiles'[e].position # NULL,
           profiles'[e].position \in {profiles[e].position, NULL}
    PROVE  \/ Recorded(e, profiles[e].position)'
           \/ (<<e, profiles[e].position>> \in unrecorded)'
           \/ \E a \in Agent : WillRecord(a, e, profiles[e].position)'
<1>1. profiles'[e].position = profiles[e].position
  OBVIOUS
<1>2. CASE Recorded(e, profiles[e].position)
  BY <1>1, <1>2 DEF Recorded, OrgGrows
<1>3. CASE <<e, profiles[e].position>> \in unrecorded
  BY <1>1, <1>3 DEF OrgGrows
<1>4. ASSUME NEW a \in Agent, WillRecord(a, e, profiles[e].position)
      PROVE  WillRecord(a, e, profiles[e].position)'
  BY <1>1, <1>4 DEF WillRecord, At
<1> QED BY <1>1, <1>2, <1>3, <1>4 DEF OrganizationInv, PositionIsRecorded

LEMMA HeldStays ==
    ASSUME OrganizationInv, OrgGrows,
           \A b \in Agent : At(orgCalls, b, "hold.create") => orgCalls'[b] = orgCalls[b],
           \A e \in Member : profiles'[e].position \in {profiles[e].position, NULL}
    PROVE  PositionIsRecorded'
BY HolderStays DEF PositionIsRecorded

\* A step that moves one call and changes no profile, position or history.
LEMMA OrgCallsOnly ==
    ASSUME OrganizationInv, NEW a \in Agent, NEW next \in OrgCall \cup {NULL}, OrgMoves(a, next),
           next # NULL => OrgCallSound(next), ~ At(orgCalls, a, "hold.create"),
           UNCHANGED <<orgDocs, staffing>>, orgOps' \in 0..MaxOrgOps
    PROVE  OrganizationInv'
<1>1. /\ positions' = positions /\ profiles' = profiles /\ staffing' = staffing
      /\ positionAssignments' = positionAssignments /\ changeRequests' = changeRequests
      /\ positionWasIn' = positionWasIn
  BY DEF orgDocs
<1>2. OrgGrows
  BY <1>1 DEF OrgGrows, staffing
<1>3. next # NULL => OrgCallSound(next)'
  BY <1>2, SoundStays
<1>4. orgCalls' \in [Agent -> OrgCall \cup {NULL}] /\ OrgCallsSound'
  BY <1>2, <1>3, OrgCallsAfter
<1>5. \A b \in Agent : At(orgCalls, b, "hold.create") => orgCalls'[b] = orgCalls[b]
  BY DEF OrgMoves, At, OrganizationInv, OrganizationTypeOK
<1>6. PositionIsRecorded'
  BY <1>1, <1>2, <1>5, HeldStays
<1>7. OrganizationTypeOK'
  BY <1>1, <1>4 DEF OrganizationInv, OrganizationTypeOK, staffing
<1> QED BY <1>1, <1>4, <1>6, <1>7 DEF OrganizationInv, PositionsKnown, DepartmentWasOfPosition, staffing

LEMMA OrgBegins ==
    ASSUME OrganizationInv, NEW a \in Agent, NEW call \in OrgCall, Idle(orgCalls, a),
           orgCalls' = Begin(orgCalls, a, call), OrgCallSound(call),
           UNCHANGED <<orgDocs, staffing>>, orgOps' \in 0..MaxOrgOps
    PROVE  OrganizationInv'
<1>1. OrgMoves(a, call) /\ ~ At(orgCalls, a, "hold.create")
  BY DEF OrgMoves, Begin, Idle, At
<1> QED BY <1>1, OrgCallsOnly

-----------------------------------------------------------------------------
(* Requests.                                                               *)

LEMMA PositionOf ==
    ASSUME OrganizationInv, NEW p \in Position, Exists(p)
    PROVE  positions[p] \in PositionDoc /\ <<p, positions[p].department>> \in positionWasIn
BY DEF OrganizationInv, OrganizationTypeOK, PositionsKnown, Exists

\* What an assignment begins with carries a department of the position.
LEMMA AssigningIsSound ==
    ASSUME OrganizationInv, NEW p \in Position, Exists(p), NEW e \in Member, NEW ends \in BOOLEAN,
           NEW where \in {"assign.activate", "assign.find", "hold.profile"}
    PROVE  Assigning(where, e, p, ends) \in OrgCall /\ OrgCallSound(Assigning(where, e, p, ends))
<1>1. positions[p].department \in Department
  BY PositionOf DEF PositionDoc
<1>2. where \in Carriers \ {"assign.close"}
  BY DEF Carriers
<1> QED BY <1>1, <1>2, PositionOf, CarrierCalls DEF Assigning, OrgCallSound

LEMMA AssignPositionStep ==
    ASSUME OrganizationInv, NEW a \in Agent, NEW e \in Member, NEW p \in Position, NEW ends \in BOOLEAN,
           AssignPosition(a, e, p, ends) \/ HoldPosition(a, e, p), orgOps' \in 0..MaxOrgOps
    PROVE  OrganizationInv'
<1>1. CASE AssignPosition(a, e, p, ends)
  <2>1. FirstOf(p) \in {"assign.activate", "assign.find", "hold.profile"}
    BY DEF FirstOf
  <2>2. /\ Idle(orgCalls, a) /\ Exists(p)
        /\ orgCalls' = Begin(orgCalls, a, Assigning(FirstOf(p), e, p, ends))
        /\ UNCHANGED <<orgDocs, staffing>>
    BY <1>1 DEF AssignPosition
  <2>3. /\ Assigning(FirstOf(p), e, p, ends) \in OrgCall
        /\ OrgCallSound(Assigning(FirstOf(p), e, p, ends))
    BY <2>1, <2>2, AssigningIsSound
  <2> QED BY <2>2, <2>3, OrgBegins
<1>2. CASE HoldPosition(a, e, p)
  <2>1. /\ Idle(orgCalls, a) /\ Exists(p)
        /\ orgCalls' = Begin(orgCalls, a, Assigning("hold.profile", e, p, FALSE))
        /\ UNCHANGED <<orgDocs, staffing>>
    BY <1>2 DEF HoldPosition
  <2>2. /\ Assigning("hold.profile", e, p, FALSE) \in OrgCall
        /\ OrgCallSound(Assigning("hold.profile", e, p, FALSE))
    BY <2>1, AssigningIsSound
  <2> QED BY <2>1, <2>2, OrgBegins
<1> QED BY <1>1, <1>2

LEMMA MoveOrRemoveStep ==
    ASSUME OrganizationInv, NEW a \in Agent, NEW p \in Position, NEW to \in Department \cup {NULL},
           UpdatePosition(a, p, to) \/ RemovePosition(a, p), orgOps' \in 0..MaxOrgOps
    PROVE  OrganizationInv'
<1> DEFINE move == [at |-> "move.save", position |-> p, read |-> positions[p].department, to |-> to]
           remove == [at |-> "remove.unset", position |-> p]
<1>1. Exists(p) /\ Idle(orgCalls, a) /\ UNCHANGED <<orgDocs, staffing>>
      /\ orgCalls' \in {Begin(orgCalls, a, move), Begin(orgCalls, a, remove)}
  BY DEF UpdatePosition, RemovePosition
<1>2. positions[p].department \in Department
  BY <1>1, PositionOf DEF PositionDoc
<1>3. /\ move \in OrgCall /\ OrgCallSound(move)
      /\ remove \in OrgCall /\ OrgCallSound(remove)
  BY <1>2 DEF OrgCall, OrgCallSound, Carriers
<1> HIDE DEF move, remove
<1> QED BY <1>1, <1>3, OrgBegins

\* Steps that change positions and no profile, and no call.
LEMMA PositionsChange ==
    ASSUME OrganizationInv, OrgGrows, UNCHANGED <<profiles, orgCalls, staffing>>, PositionsKnown',
           positions' \in [Position -> PositionDoc \cup {NULL}],
           positionAssignments' = positionAssignments,
           changeRequests' \in [ChangeRequest -> ChangeRequestDoc \cup {NULL}],
           positionWasIn' \subseteq Position \X Department, orgOps' \in 0..MaxOrgOps
    PROVE  OrganizationInv'
<1>1. OrgCallsSound'
  BY OrgCallsStay
<1>2. PositionIsRecorded'
  BY HeldStays
<1>3. DepartmentWasOfPosition'
  BY DEF OrganizationInv, DepartmentWasOfPosition, OrgGrows, staffing
<1>4. OrganizationTypeOK'
  BY DEF OrganizationInv, OrganizationTypeOK, staffing
<1> QED BY <1>1, <1>2, <1>3, <1>4 DEF OrganizationInv

LEMMA CreatePositionStep ==
    ASSUME OrganizationInv, NEW p \in Position, NEW d \in Department, NEW isActive \in BOOLEAN,
           CreatePosition(p, d, isActive), orgOps' \in 0..MaxOrgOps
    PROVE  OrganizationInv'
<1> DEFINE new == [department |-> d, isActive |-> isActive]
<1>1. new \in PositionDoc /\ new.department = d
  BY DEF PositionDoc
<1>2. /\ positions' = [positions EXCEPT ![p] = new]
      /\ positionWasIn' = positionWasIn \cup {<<p, d>>}
      /\ positionAssignments' = positionAssignments /\ changeRequests' = changeRequests
      /\ UNCHANGED <<profiles, orgCalls, staffing>>
  BY DEF CreatePosition
<1> HIDE DEF new
<1>3. OrgGrows
  BY <1>2 DEF OrgGrows, staffing
<1>4. /\ positions' \in [Position -> PositionDoc \cup {NULL}] /\ PositionsKnown'
  BY <1>1, <1>2 DEF OrganizationInv, OrganizationTypeOK, PositionsKnown
<1>5. positionWasIn' \subseteq Position \X Department
  BY <1>2 DEF OrganizationInv, OrganizationTypeOK
<1>6. changeRequests' \in [ChangeRequest -> ChangeRequestDoc \cup {NULL}]
  BY <1>2 DEF OrganizationInv, OrganizationTypeOK
<1> QED BY <1>2, <1>3, <1>4, <1>5, <1>6, PositionsChange

LEMMA DeactivatePositionStep ==
    ASSUME OrganizationInv, NEW p \in Position, DeactivatePosition(p), orgOps' \in 0..MaxOrgOps
    PROVE  OrganizationInv'
<1> DEFINE new == [positions[p] EXCEPT !.isActive = FALSE]
<1>1. /\ Exists(p) /\ positions' = [positions EXCEPT ![p] = new]
      /\ positionWasIn' = positionWasIn
      /\ positionAssignments' = positionAssignments /\ changeRequests' = changeRequests
      /\ UNCHANGED <<profiles, orgCalls, staffing>>
  BY DEF DeactivatePosition, OrganizationInv, OrganizationTypeOK
<1>2. new \in PositionDoc /\ new.department = positions[p].department
  BY <1>1, PositionOf DEF PositionDoc
<1> HIDE DEF new
<1>3. OrgGrows
  BY <1>1 DEF OrgGrows, staffing
<1>4. /\ positions' \in [Position -> PositionDoc \cup {NULL}] /\ PositionsKnown'
  BY <1>1, <1>2 DEF OrganizationInv, OrganizationTypeOK, PositionsKnown, Exists
<1>5. positionWasIn' \subseteq Position \X Department
      /\ changeRequests' \in [ChangeRequest -> ChangeRequestDoc \cup {NULL}]
  BY <1>1 DEF OrganizationInv, OrganizationTypeOK
<1> QED BY <1>1, <1>3, <1>4, <1>5, PositionsChange

LEMMA ChangeRequestStep ==
    ASSUME OrganizationInv, NEW q \in ChangeRequest, NEW kind \in RequestKind, NEW p \in Position,
           NEW e \in Member, SubmitChangeRequest(q, kind, p, e) \/ RejectChangeRequest(q),
           orgOps' \in 0..MaxOrgOps
    PROVE  OrganizationInv'
<1>1. /\ changeRequests' \in [ChangeRequest -> ChangeRequestDoc \cup {NULL}]
      /\ \A r \in ChangeRequest : changeRequests[r] # NULL => changeRequests'[r] # NULL
  <2>1. CASE SubmitChangeRequest(q, kind, p, e)
    <3> DEFINE new == [kind |-> kind, status |-> "SUBMITTED", position |-> p, member |-> e]
    <3>1. new \in ChangeRequestDoc
      BY DEF ChangeRequestDoc
    <3>2. changeRequests' = [changeRequests EXCEPT ![q] = new]
      BY <2>1 DEF SubmitChangeRequest
    <3> HIDE DEF new
    <3> QED BY <3>1, <3>2, OrganizationAssumption DEF OrganizationInv, OrganizationTypeOK
  <2>2. CASE RejectChangeRequest(q)
    <3> DEFINE new == [changeRequests[q] EXCEPT !.status = "REJECTED"]
    <3>1. new \in ChangeRequestDoc
      BY <2>2 DEF ChangeRequestDoc, RejectChangeRequest, OrganizationInv, OrganizationTypeOK
    <3>2. changeRequests' = [changeRequests EXCEPT ![q] = new]
      BY <2>2 DEF RejectChangeRequest, OrganizationInv, OrganizationTypeOK
    <3> HIDE DEF new
    <3> QED BY <3>1, <3>2, OrganizationAssumption DEF OrganizationInv, OrganizationTypeOK
  <2> QED BY <2>1, <2>2
<1>2. /\ positions' = positions /\ positionWasIn' = positionWasIn
      /\ positionAssignments' = positionAssignments
      /\ UNCHANGED <<profiles, orgCalls, staffing>>
  BY DEF SubmitChangeRequest, RejectChangeRequest
<1>3. OrgGrows
  BY <1>1, <1>2 DEF OrgGrows, staffing
<1>4. /\ positions' \in [Position -> PositionDoc \cup {NULL}] /\ PositionsKnown'
      /\ positionWasIn' \subseteq Position \X Department
  BY <1>2 DEF OrganizationInv, OrganizationTypeOK, PositionsKnown
<1> QED BY <1>1, <1>2, <1>3, <1>4, PositionsChange

LEMMA ApproveChangeRequestStep ==
    ASSUME OrganizationInv, NEW a \in Agent, NEW q \in ChangeRequest, ApproveChangeRequest(a, q),
           orgOps' \in 0..MaxOrgOps
    PROVE  OrganizationInv'
<1> DEFINE new == [changeRequests[q] EXCEPT !.status = "APPROVED"]
<1>1. new \in ChangeRequestDoc
  BY DEF ChangeRequestDoc, ApproveChangeRequest, OrganizationInv, OrganizationTypeOK
<1>2. changeRequests' = [changeRequests EXCEPT ![q] = new]
  BY DEF ApproveChangeRequest, OrganizationInv, OrganizationTypeOK
<1>0. PICK next : next = [at |-> "apply", request |-> q]
  OBVIOUS
<1>3. /\ Idle(orgCalls, a) /\ OrgMoves(a, next)
      /\ positions' = positions /\ profiles' = profiles /\ staffing' = staffing
      /\ positionAssignments' = positionAssignments /\ positionWasIn' = positionWasIn
  BY <1>0 DEF ApproveChangeRequest, OrgMoves, Begin
<1> HIDE DEF new
<1>4. /\ changeRequests' \in [ChangeRequest -> ChangeRequestDoc \cup {NULL}]
      /\ \A r \in ChangeRequest : changeRequests[r] # NULL => changeRequests'[r] # NULL
      /\ changeRequests'[q] # NULL
  BY <1>1, <1>2, OrganizationAssumption DEF OrganizationInv, OrganizationTypeOK
<1>5. OrgGrows
  BY <1>3, <1>4 DEF OrgGrows, staffing
<1>6. next \in OrgCall /\ OrgCallSound(next)'
  BY <1>0, <1>4 DEF OrgCall, OrgCallSound, Carriers
<1>7. orgCalls' \in [Agent -> OrgCall \cup {NULL}] /\ OrgCallsSound'
  BY <1>3, <1>5, <1>6, OrgCallsAfter
<1>8. \A b \in Agent : At(orgCalls, b, "hold.create") => orgCalls'[b] = orgCalls[b]
  BY <1>3 DEF OrgMoves, At, Idle, OrganizationInv, OrganizationTypeOK
<1>9. PositionIsRecorded'
  BY <1>3, <1>5, <1>8, HeldStays
<1>10. OrganizationTypeOK'
  BY <1>3, <1>4, <1>7 DEF OrganizationInv, OrganizationTypeOK, staffing
<1> QED BY <1>3, <1>7, <1>9, <1>10 DEF OrganizationInv, PositionsKnown, DepartmentWasOfPosition, staffing

\* Steps that change profiles, and no call.
LEMMA ProfilesChange ==
    ASSUME OrganizationInv, OrgGrows, profiles' \in [Member -> ProfileDoc],
           DepartmentWasOfPosition', PositionIsRecorded',
           employed' \subseteq Member, placedIn' \subseteq Member \X (Department \cup {NULL}),
           unrecorded' \subseteq Member \X Position, orgOps' \in 0..MaxOrgOps,
           UNCHANGED <<positions, positionAssignments, changeRequests, orgCalls, positionWasIn>>
    PROVE  OrganizationInv'
<1>1. OrgCallsSound'
  BY OrgCallsStay
<1> QED BY <1>1 DEF OrganizationInv, OrganizationTypeOK, PositionsKnown

LEMMA UpdateDepartmentStep ==
    ASSUME OrganizationInv, NEW e \in Member, NEW d \in Department, UpdateDepartment(e, d),
           orgOps' \in 0..MaxOrgOps
    PROVE  OrganizationInv'
<1>1. /\ profiles' = [profiles EXCEPT ![e].department = d]
      /\ placedIn' = placedIn \cup {<<e, d>>}
      /\ UNCHANGED <<positions, positionAssignments, changeRequests, orgCalls, positionWasIn,
                     employed, unrecorded>>
  BY DEF UpdateDepartment
<1>2. profiles \in [Member -> ProfileDoc]
  BY DEF OrganizationInv, OrganizationTypeOK
<1>3. /\ profiles' \in [Member -> ProfileDoc]
      /\ profiles'[e].department = d
      /\ \A f \in Member : profiles'[f].position = profiles[f].position
      /\ \A f \in Member : f # e => profiles'[f].department = profiles[f].department
  BY <1>1, <1>2 DEF ProfileDoc
<1>4. OrgGrows
  BY <1>1 DEF OrgGrows, staffing
<1>5. PositionIsRecorded'
  BY <1>1, <1>3, <1>4, HeldStays
<1>6. DepartmentWasOfPosition'
  BY <1>1, <1>3 DEF OrganizationInv, DepartmentWasOfPosition, staffing
<1>7. /\ employed' \subseteq Member /\ placedIn' \subseteq Member \X (Department \cup {NULL})
      /\ unrecorded' \subseteq Member \X Position
  BY <1>1 DEF OrganizationInv, OrganizationTypeOK
<1> QED BY <1>1, <1>3, <1>4, <1>5, <1>6, <1>7, ProfilesChange

LEMMA ConvertCandidateStep ==
    ASSUME OrganizationInv, NEW e \in Member, NEW p \in Position \cup {NULL},
           NEW d \in Department \cup {NULL}, ConvertCandidateToEmployee(e, p, d),
           orgOps' \in 0..MaxOrgOps
    PROVE  OrganizationInv'
<1> DEFINE new == [position |-> p, department |-> d]
<1>1. /\ profiles' = [profiles EXCEPT ![e] = new]
      /\ employed' = employed \cup {e} /\ placedIn' = placedIn \cup {<<e, d>>}
      /\ unrecorded' = unrecorded \cup ({<<e, p>>} \ {<<e, NULL>>})
      /\ UNCHANGED <<positions, positionAssignments, changeRequests, orgCalls, positionWasIn>>
  BY DEF ConvertCandidateToEmployee
<1>2. new \in ProfileDoc /\ new.position = p /\ new.department = d
  BY DEF ProfileDoc
<1> HIDE DEF new
<1>3. profiles \in [Member -> ProfileDoc]
  BY DEF OrganizationInv, OrganizationTypeOK
<1>4. /\ profiles' \in [Member -> ProfileDoc] /\ profiles'[e] = new
      /\ \A f \in Member : f # e => profiles'[f] = profiles[f]
  BY <1>1, <1>2, <1>3
<1>5. OrgGrows
  BY <1>1 DEF OrgGrows, staffing
<1>6. PositionIsRecorded'
  <2>1. ASSUME NEW f \in Member, f # e, profiles'[f].position # NULL
        PROVE  \/ Recorded(f, profiles[f].position)'
               \/ (<<f, profiles[f].position>> \in unrecorded)'
               \/ \E a \in Agent : WillRecord(a, f, profiles[f].position)'
    BY <1>1, <1>4, <1>5, <2>1, HolderStays
  <2>2. profiles'[e].position # NULL => (<<e, profiles[e].position>> \in unrecorded)'
    BY <1>1, <1>2, <1>4
  <2> QED BY <2>1, <2>2 DEF PositionIsRecorded
<1>7. DepartmentWasOfPosition'
  BY <1>1, <1>2, <1>4 DEF OrganizationInv, DepartmentWasOfPosition, staffing
<1>8. /\ employed' \subseteq Member /\ placedIn' \subseteq Member \X (Department \cup {NULL})
      /\ unrecorded' \subseteq Member \X Position
  BY <1>1 DEF OrganizationInv, OrganizationTypeOK
<1> QED BY <1>1, <1>4, <1>5, <1>6, <1>7, <1>8, ProfilesChange

LEMMA RequestOrgStep ==
    ASSUME OrganizationInv, RequestOrg, orgOps' \in 0..MaxOrgOps
    PROVE  OrganizationInv'
<1>1. ASSUME NEW p \in Position, NEW d \in Department, NEW isActive \in BOOLEAN,
             CreatePosition(p, d, isActive)
      PROVE  OrganizationInv'
  BY <1>1, CreatePositionStep
<1>2. ASSUME NEW p \in Position, DeactivatePosition(p) PROVE OrganizationInv'
  BY <1>2, DeactivatePositionStep
<1>3. ASSUME NEW p \in Position, NEW a \in Agent, NEW e \in Member, NEW ends \in BOOLEAN,
             AssignPosition(a, e, p, ends) \/ HoldPosition(a, e, p)
      PROVE  OrganizationInv'
  BY <1>3, AssignPositionStep
<1>4. ASSUME NEW p \in Position, NEW a \in Agent, NEW to \in Department \cup {NULL},
             UpdatePosition(a, p, to) \/ RemovePosition(a, p)
      PROVE  OrganizationInv'
  BY <1>4, MoveOrRemoveStep
<1>5. ASSUME NEW q \in ChangeRequest, NEW kind \in RequestKind, NEW p \in Position,
             NEW e \in Member, SubmitChangeRequest(q, kind, p, e)
      PROVE  OrganizationInv'
  BY <1>5, ChangeRequestStep
<1>6. ASSUME NEW q \in ChangeRequest, RejectChangeRequest(q) PROVE OrganizationInv'
  <2>1. /\ changeRequests[q] \in ChangeRequestDoc
    BY <1>6 DEF RejectChangeRequest, OrganizationInv, OrganizationTypeOK
  <2>2. PICK kind \in RequestKind, p \in Position, e \in Member : TRUE
    BY <2>1 DEF ChangeRequestDoc
  <2> QED BY <1>6, <2>2, ChangeRequestStep
<1>7. ASSUME NEW q \in ChangeRequest, NEW a \in Agent, ApproveChangeRequest(a, q)
      PROVE  OrganizationInv'
  BY <1>7, ApproveChangeRequestStep
<1>8. ASSUME NEW e \in Member, NEW d \in Department, UpdateDepartment(e, d)
      PROVE  OrganizationInv'
  BY <1>8, UpdateDepartmentStep
<1>9. ASSUME NEW e \in Member, NEW p \in Position \cup {NULL}, NEW d \in Department \cup {NULL},
             ConvertCandidateToEmployee(e, p, d)
      PROVE  OrganizationInv'
  BY <1>9, ConvertCandidateStep
<1> QED BY <1>1, <1>2, <1>3, <1>4, <1>5, <1>6, <1>7, <1>8, <1>9 DEF RequestOrg

-----------------------------------------------------------------------------
(* Writes.                                                                 *)

\* A position, with its flag set, is in the department it was in.
LEMMA ActivatedIsKnown ==
    ASSUME OrganizationInv, NEW p \in Position, positions' = Activated(p),
           UNCHANGED positionWasIn
    PROVE  positions' \in [Position -> PositionDoc \cup {NULL}] /\ PositionsKnown'
<1>1. CASE positions[p] = NULL
  <2>1. positions' = positions
    BY <1>1 DEF Activated, OrganizationInv, OrganizationTypeOK
  <2> QED BY <2>1 DEF OrganizationInv, OrganizationTypeOK, PositionsKnown
<1>2. CASE positions[p] # NULL
  <2> DEFINE new == [positions[p] EXCEPT !.isActive = TRUE]
  <2>1. new \in PositionDoc /\ new.department = positions[p].department
    BY <1>2, PositionOf DEF PositionDoc, Exists
  <2>2. positions' = [positions EXCEPT ![p] = new]
    BY <1>2 DEF Activated, OrganizationInv, OrganizationTypeOK
  <2> HIDE DEF new
  <2> QED BY <1>2, <2>1, <2>2 DEF OrganizationInv, OrganizationTypeOK, PositionsKnown
<1> QED BY <1>1, <1>2

\* A step of one agent that leaves profiles and assignments alone.
LEMMA PositionsWritten ==
    ASSUME OrganizationInv, NEW a \in Agent, NEW next \in OrgCall \cup {NULL}, OrgMoves(a, next),
           next # NULL => OrgCallSound(next)', ~ At(orgCalls, a, "hold.create"),
           positions' \in [Position -> PositionDoc \cup {NULL}], PositionsKnown',
           positionWasIn \subseteq positionWasIn', positionWasIn' \subseteq Position \X Department,
           UNCHANGED <<profiles, positionAssignments, changeRequests, staffing, orgOps>>
    PROVE  OrganizationInv'
<1>1. OrgGrows
  BY DEF OrgGrows, staffing
<1>2. orgCalls' \in [Agent -> OrgCall \cup {NULL}] /\ OrgCallsSound'
  BY <1>1, OrgCallsAfter
<1>3. \A b \in Agent : At(orgCalls, b, "hold.create") => orgCalls'[b] = orgCalls[b]
  BY DEF OrgMoves, At, OrganizationInv, OrganizationTypeOK
<1>4. PositionIsRecorded'
  BY <1>1, <1>3, HeldStays
<1>5. OrganizationTypeOK'
  BY <1>2 DEF OrganizationInv, OrganizationTypeOK, staffing
<1>6. DepartmentWasOfPosition'
  BY <1>1 DEF OrganizationInv, DepartmentWasOfPosition, OrgGrows, staffing
<1> QED BY <1>2, <1>4, <1>5, <1>6 DEF OrganizationInv

\* The handler that carries a position, at its next step.
LEMMA NextCarrier ==
    ASSUME OrganizationInv, NEW a \in Agent, orgCalls[a] # NULL,
           orgCalls[a].at \in Carriers \ {"assign.close"},
           NEW where \in Carriers \ {"assign.close"}
    PROVE  \E next \in OrgCall :
             /\ next = [orgCalls[a] EXCEPT !.at = where] /\ next.at = where
             /\ next.member = orgCalls[a].member /\ next.position = orgCalls[a].position
             /\ next.department = orgCalls[a].department
<1>1. orgCalls[a] \in
        [at : Carriers \ {"assign.close"}, member : Member, position : Position,
         department : Department, ends : BOOLEAN]
  BY OrgCallOf DEF OrgCall, Carriers
<1> DEFINE next == [orgCalls[a] EXCEPT !.at = where]
<1>2. next \in
        [at : Carriers \ {"assign.close"}, member : Member, position : Position,
         department : Department, ends : BOOLEAN]
  BY <1>1
<1>3. next \in OrgCall
  BY <1>2 DEF OrgCall, Carriers
<1>4. /\ next.at = where /\ next.member = orgCalls[a].member
      /\ next.position = orgCalls[a].position /\ next.department = orgCalls[a].department
  BY <1>1
<1> QED BY <1>3, <1>4

LEMMA AssignActivateStep ==
    ASSUME OrganizationInv, NEW a \in Agent, AssignActivate(a), orgOps' = orgOps
    PROVE  OrganizationInv'
<1>1. orgCalls[a] # NULL /\ orgCalls[a].at = "assign.activate"
  BY DEF AssignActivate, At
<1>2. orgCalls[a] \in OrgCall /\ OrgCallSound(orgCalls[a]) /\ orgCalls[a].position \in Position
  BY <1>1, OrgCallOf, OrgCallFields DEF Carriers
<1>3. PICK next \in OrgCall :
        /\ next = [orgCalls[a] EXCEPT !.at = "assign.find"] /\ next.at = "assign.find"
        /\ next.position = orgCalls[a].position /\ next.department = orgCalls[a].department
  BY <1>1, NextCarrier DEF Carriers
<1>4. OrgCallSound(next) /\ OrgMoves(a, next)
  BY <1>1, <1>2, <1>3 DEF OrgCallSound, Carriers, OrgMoves, AssignActivate, OrganizationInv, OrganizationTypeOK
<1>5. /\ positions' = Activated(orgCalls[a].position) /\ positionWasIn' = positionWasIn
      /\ UNCHANGED <<profiles, positionAssignments, changeRequests, staffing>>
  BY DEF AssignActivate
<1>6. OrgCallSound(next)'
  BY <1>3, <1>4, <1>5 DEF OrgCallSound
<1>7. positions' \in [Position -> PositionDoc \cup {NULL}] /\ PositionsKnown'
  BY <1>2, <1>5, ActivatedIsKnown
<1>8. ~ At(orgCalls, a, "hold.create") /\ positionWasIn' \subseteq Position \X Department
  BY <1>1, <1>5 DEF At, OrganizationInv, OrganizationTypeOK
<1> QED BY <1>4, <1>5, <1>6, <1>7, <1>8, PositionsWritten

LEMMA AssignFindStep ==
    ASSUME OrganizationInv, NEW a \in Agent, AssignFind(a), orgOps' = orgOps
    PROVE  OrganizationInv'
<1>1. /\ orgCalls[a] # NULL /\ orgCalls[a].at = "assign.find"
      /\ UNCHANGED <<orgDocs, staffing>> /\ orgOps' \in 0..MaxOrgOps
  BY DEF AssignFind, At, OrganizationInv, OrganizationTypeOK
<1>2. orgCalls[a] \in OrgCall /\ OrgCallSound(orgCalls[a])
  BY <1>1, OrgCallOf
<1>3. ~ At(orgCalls, a, "hold.create")
  BY <1>1 DEF At
<1>4. CASE orgCalls' = [orgCalls EXCEPT ![a].at = "assign.create"]
  <2>1. PICK next \in OrgCall :
          /\ next = [orgCalls[a] EXCEPT !.at = "assign.create"] /\ next.at = "assign.create"
          /\ next.position = orgCalls[a].position /\ next.department = orgCalls[a].department
    BY <1>1, NextCarrier DEF Carriers
  <2>2. OrgCallSound(next) /\ OrgMoves(a, next)
    BY <1>1, <1>2, <1>4, <2>1 DEF OrgCallSound, Carriers, OrgMoves, OrganizationInv, OrganizationTypeOK
  <2> QED BY <1>1, <1>3, <2>2, OrgCallsOnly
<1>5. ASSUME NEW s \in OpenOf(orgCalls[a].member),
             orgCalls' = Begin(orgCalls, a,
               [at |-> "assign.close", assignment |-> s, member |-> orgCalls[a].member,
                position |-> orgCalls[a].position, department |-> orgCalls[a].department,
                ends |-> orgCalls[a].ends])
      PROVE  OrganizationInv'
  <2> DEFINE next == [at |-> "assign.close", assignment |-> s, member |-> orgCalls[a].member,
                      position |-> orgCalls[a].position, department |-> orgCalls[a].department,
                      ends |-> orgCalls[a].ends]
  <2>1. /\ orgCalls[a].member \in Member /\ orgCalls[a].position \in Position
        /\ orgCalls[a].department \in Department /\ orgCalls[a].ends \in BOOLEAN
    BY <1>1, <1>2, OrgCallFields DEF Carriers
  <2>2. next \in OrgCall
    BY <1>5, <2>1 DEF OrgCall, OpenOf
  <2>3. OrgCallSound(next)
    BY <1>1, <1>2, <1>5 DEF OrgCallSound, OpenOf, Carriers
  <2>4. OrgMoves(a, next)
    BY <1>5 DEF OrgMoves, Begin
  <2> HIDE DEF next
  <2> QED BY <1>1, <1>3, <2>2, <2>3, <2>4, OrgCallsOnly
<1> QED BY <1>4, <1>5 DEF AssignFind

LEMMA AssignCloseStep ==
    ASSUME OrganizationInv, NEW a \in Agent, AssignClose(a), orgOps' = orgOps
    PROVE  OrganizationInv'
<1>1. orgCalls[a] # NULL /\ orgCalls[a].at = "assign.close"
  BY DEF AssignClose, At
<1>2. orgCalls[a] \in OrgCall /\ OrgCallSound(orgCalls[a])
  BY <1>1, OrgCallOf
<1>3. PICK s \in PositionAssignment, e \in Member, p \in Position, d \in Department, ends \in BOOLEAN :
        /\ s = orgCalls[a].assignment /\ e = orgCalls[a].member /\ p = orgCalls[a].position
        /\ d = orgCalls[a].department /\ ends = orgCalls[a].ends
        /\ positionAssignments[s] # NULL /\ <<p, d>> \in positionWasIn
  BY <1>1, <1>2, OrgCallFields DEF OrgCallSound, Carriers
<1>4. PICK next \in OrgCall :
        next = [at |-> "assign.create", member |-> e, position |-> p, department |-> d, ends |-> ends]
  BY CarrierCalls DEF Carriers
<1>5. PICK new : new = [positionAssignments[s] EXCEPT !.open = FALSE]
  OBVIOUS
<1>6. /\ OrgMoves(a, next) /\ positionAssignments' = [positionAssignments EXCEPT ![s] = new]
      /\ positions' = positions /\ profiles' = profiles /\ changeRequests' = changeRequests
      /\ positionWasIn' = positionWasIn /\ staffing' = staffing
  BY <1>3, <1>4, <1>5 DEF AssignClose, OrgMoves, Begin, Onward, OrganizationInv, OrganizationTypeOK
<1>7. new \in AssignedDoc /\ new.of = positionAssignments[s].of
      /\ new.position = positionAssignments[s].position
  BY <1>3, <1>5 DEF AssignedDoc, OrganizationInv, OrganizationTypeOK
<1>8. /\ positionAssignments' \in [PositionAssignment -> AssignedDoc \cup {NULL}]
      /\ OrgGrows
  BY <1>6, <1>7, OrganizationAssumption DEF OrgGrows, staffing, OrganizationInv, OrganizationTypeOK
<1>9. OrgCallSound(next)'
  BY <1>3, <1>4, <1>6 DEF OrgCallSound, Carriers
<1>10. orgCalls' \in [Agent -> OrgCall \cup {NULL}] /\ OrgCallsSound'
  BY <1>6, <1>8, <1>9, OrgCallsAfter
<1>11. \A b \in Agent : At(orgCalls, b, "hold.create") => orgCalls'[b] = orgCalls[b]
  BY <1>1, <1>6 DEF OrgMoves, At, OrganizationInv, OrganizationTypeOK
<1>12. PositionIsRecorded'
  BY <1>6, <1>8, <1>11, HeldStays
<1> QED BY <1>6, <1>8, <1>10, <1>12
        DEF OrganizationInv, OrganizationTypeOK, PositionsKnown, DepartmentWasOfPosition, staffing

\* An assignment created from a call records the call's position.
LEMMA CreatedIsRecorded ==
    ASSUME OrganizationInv, NEW e \in Member, NEW p \in Position, NEW d \in Department,
           NEW ends \in BOOLEAN, NEW call, call.member = e, call.position = p,
           call.department = d, call.ends = ends, NEW s \in PositionAssignment, CreateAssigned(s, call),
           UNCHANGED <<positionWasIn, changeRequests, staffing>>
    PROVE  /\ positionAssignments' \in [PositionAssignment -> AssignedDoc \cup {NULL}]
           /\ OrgGrows
           /\ Recorded(e, p)'
<1> DEFINE new == [of |-> e, position |-> p, department |-> d, open |-> ~ ends]
<1>1. new \in AssignedDoc /\ new.of = e /\ new.position = p
  BY DEF AssignedDoc
<1>2. positionAssignments[s] = NULL /\ positionAssignments' = [positionAssignments EXCEPT ![s] = new]
  BY DEF CreateAssigned
<1> HIDE DEF new
<1>3. new # NULL
  BY <1>1, OrganizationAssumption
<1> QED BY <1>1, <1>2, <1>3 DEF OrgGrows, staffing, Recorded, OrganizationInv, OrganizationTypeOK

LEMMA AssignCreateStep ==
    ASSUME OrganizationInv, NEW a \in Agent, NEW s \in PositionAssignment, AssignCreate(a, s),
           orgOps' = orgOps
    PROVE  OrganizationInv'
<1>1. orgCalls[a] # NULL /\ orgCalls[a].at = "assign.create"
  BY DEF AssignCreate, At
<1>2. orgCalls[a] \in OrgCall /\ OrgCallSound(orgCalls[a])
  BY <1>1, OrgCallOf
<1>3. PICK e \in Member, p \in Position, d \in Department, ends \in BOOLEAN :
        /\ e = orgCalls[a].member /\ p = orgCalls[a].position
        /\ d = orgCalls[a].department /\ ends = orgCalls[a].ends /\ <<p, d>> \in positionWasIn
  BY <1>1, <1>2, OrgCallFields DEF OrgCallSound, Carriers
<1>4. PICK next \in OrgCall :
        /\ next = [orgCalls[a] EXCEPT !.at = "assign.profile"] /\ next.at = "assign.profile"
        /\ next.member = e /\ next.position = p /\ next.department = d
  BY <1>1, <1>3, NextCarrier DEF Carriers
<1>5. /\ CreateAssigned(s, orgCalls[a]) /\ OrgMoves(a, next)
      /\ positions' = positions /\ profiles' = profiles /\ changeRequests' = changeRequests
      /\ positionWasIn' = positionWasIn /\ staffing' = staffing
  BY <1>4 DEF AssignCreate, OrgMoves, OrganizationInv, OrganizationTypeOK
<1>6. /\ positionAssignments' \in [PositionAssignment -> AssignedDoc \cup {NULL}]
      /\ OrgGrows /\ Recorded(e, p)'
  BY <1>3, <1>5, CreatedIsRecorded
<1>7. OrgCallSound(next)'
  BY <1>3, <1>4, <1>5, <1>6 DEF OrgCallSound, Carriers, Recorded
<1>8. orgCalls' \in [Agent -> OrgCall \cup {NULL}] /\ OrgCallsSound'
  BY <1>5, <1>6, <1>7, OrgCallsAfter
<1>9. \A b \in Agent : At(orgCalls, b, "hold.create") => orgCalls'[b] = orgCalls[b]
  BY <1>1, <1>5 DEF OrgMoves, At, OrganizationInv, OrganizationTypeOK
<1>10. PositionIsRecorded'
  BY <1>5, <1>6, <1>9, HeldStays
<1> QED BY <1>5, <1>6, <1>8, <1>10
        DEF OrganizationInv, OrganizationTypeOK, PositionsKnown, DepartmentWasOfPosition, staffing

\* An employee that takes a position that is recorded, or that the agent is
\* going to record.
LEMMA TakesPositionStep ==
    ASSUME OrganizationInv, NEW a \in Agent, NEW next \in OrgCall \cup {NULL}, OrgMoves(a, next),
           NEW e \in Member, NEW p \in Position, NEW d \in Department, <<p, d>> \in positionWasIn,
           profiles' = [profiles EXCEPT ![e] = [position |-> p, department |-> d]],
           Recorded(e, p) \/ WillRecord(a, e, p)', next # NULL => OrgCallSound(next),
           ~ At(orgCalls, a, "hold.create"),
           UNCHANGED <<positions, positionAssignments, changeRequests, positionWasIn, staffing, orgOps>>
    PROVE  OrganizationInv'
<1> DEFINE new == [position |-> p, department |-> d]
<1>1. new \in ProfileDoc /\ new.position = p /\ new.department = d /\ p # NULL
  BY OrganizationAssumption DEF ProfileDoc
<1>2. profiles' = [profiles EXCEPT ![e] = new]
  OBVIOUS
<1> HIDE DEF new
<1>3. profiles \in [Member -> ProfileDoc]
  BY DEF OrganizationInv, OrganizationTypeOK
<1>4. /\ profiles' \in [Member -> ProfileDoc] /\ profiles'[e] = new
      /\ \A f \in Member : f # e => profiles'[f] = profiles[f]
  BY <1>1, <1>2, <1>3
<1>5. OrgGrows
  BY DEF OrgGrows, staffing
<1>6. next # NULL => OrgCallSound(next)'
  BY <1>5, SoundStays
<1>7. orgCalls' \in [Agent -> OrgCall \cup {NULL}] /\ OrgCallsSound'
  BY <1>5, <1>6, OrgCallsAfter
<1>8. DepartmentWasOfPosition'
  BY <1>1, <1>4 DEF OrganizationInv, DepartmentWasOfPosition, staffing
<1>9. ASSUME NEW f \in Member, f # e, profiles[f].position # NULL
      PROVE  \/ Recorded(f, profiles[f].position)'
             \/ (<<f, profiles[f].position>> \in unrecorded)'
             \/ \E b \in Agent : WillRecord(b, f, profiles[f].position)'
  <2>1. profiles'[f] = profiles[f]
    BY <1>4, <1>9
  <2>2. CASE Recorded(f, profiles[f].position) \/ <<f, profiles[f].position>> \in unrecorded
    BY <2>1, <2>2 DEF Recorded, staffing
  <2>3. ASSUME NEW b \in Agent, WillRecord(b, f, profiles[f].position)
        PROVE  WillRecord(b, f, profiles[f].position)'
    BY <2>1, <2>3 DEF WillRecord, At, OrgMoves, OrganizationInv, OrganizationTypeOK
  <2> QED BY <1>9, <2>2, <2>3 DEF OrganizationInv, PositionIsRecorded
<1>10. Recorded(e, p) => Recorded(e, p)'
  BY DEF Recorded
<1>11. PositionIsRecorded'
  <2>1. ASSUME NEW f \in Member, f # e, profiles'[f].position # NULL
        PROVE  \/ Recorded(f, profiles[f].position)'
               \/ (<<f, profiles[f].position>> \in unrecorded)'
               \/ \E b \in Agent : WillRecord(b, f, profiles[f].position)'
    BY <1>4, <1>9, <2>1
  <2>2. Recorded(e, profiles[e].position)' \/ WillRecord(a, e, profiles[e].position)'
    <3>1. profiles'[e].position = p
      BY <1>1, <1>4
    <3> QED BY <1>10, <3>1 DEF Recorded, WillRecord
  <2> QED BY <2>1, <2>2 DEF PositionIsRecorded
<1> QED BY <1>4, <1>7, <1>8, <1>11 DEF OrganizationInv, OrganizationTypeOK, PositionsKnown, staffing

LEMMA AssignProfileStep ==
    ASSUME OrganizationInv, NEW a \in Agent, AssignProfile(a), orgOps' = orgOps
    PROVE  OrganizationInv'
<1>1. orgCalls[a] # NULL /\ orgCalls[a].at = "assign.profile"
  BY DEF AssignProfile, At
<1>2. orgCalls[a] \in OrgCall /\ OrgCallSound(orgCalls[a])
  BY <1>1, OrgCallOf
<1>3. PICK e \in Member, p \in Position, d \in Department :
        /\ e = orgCalls[a].member /\ p = orgCalls[a].position
        /\ d = orgCalls[a].department /\ <<p, d>> \in positionWasIn /\ Recorded(e, p)
  BY <1>1, <1>2, OrgCallFields DEF OrgCallSound, Carriers
<1>4. /\ OrgMoves(a, NULL) /\ ~ At(orgCalls, a, "hold.create")
      /\ profiles' = [profiles EXCEPT ![e] = [position |-> p, department |-> d]]
      /\ UNCHANGED <<positions, positionAssignments, changeRequests, positionWasIn, staffing, orgOps>>
  BY <1>1, <1>3 DEF AssignProfile, TakesPosition, OrgMoves, Finish, At
<1> QED BY <1>3, <1>4, TakesPositionStep

LEMMA HoldProfileStep ==
    ASSUME OrganizationInv, NEW a \in Agent, HoldProfile(a), orgOps' = orgOps
    PROVE  OrganizationInv'
<1>1. orgCalls[a] # NULL /\ orgCalls[a].at = "hold.profile"
  BY DEF HoldProfile, At
<1>2. orgCalls[a] \in OrgCall /\ OrgCallSound(orgCalls[a])
  BY <1>1, OrgCallOf
<1>3. PICK e \in Member, p \in Position, d \in Department :
        /\ e = orgCalls[a].member /\ p = orgCalls[a].position
        /\ d = orgCalls[a].department /\ <<p, d>> \in positionWasIn
  BY <1>1, <1>2, OrgCallFields DEF OrgCallSound, Carriers
<1>4. PICK next \in OrgCall :
        /\ next = [orgCalls[a] EXCEPT !.at = "hold.create"] /\ next.at = "hold.create"
        /\ next.member = e /\ next.position = p /\ next.department = d
  BY <1>1, <1>3, NextCarrier DEF Carriers
<1>5. /\ OrgMoves(a, next) /\ ~ At(orgCalls, a, "hold.create")
      /\ profiles' = [profiles EXCEPT ![e] = [position |-> p, department |-> d]]
      /\ UNCHANGED <<positions, positionAssignments, changeRequests, positionWasIn, staffing, orgOps>>
  BY <1>1, <1>3, <1>4 DEF HoldProfile, TakesPosition, OrgMoves, At, OrganizationInv, OrganizationTypeOK
<1>6. next # NULL /\ orgCalls'[a] = next
  BY <1>5, OrganizationAssumption DEF OrgMoves, OrganizationInv, OrganizationTypeOK
<1>7. WillRecord(a, e, p)'
  BY <1>4, <1>6 DEF WillRecord, At
<1>8. OrgCallSound(next)
  BY <1>3, <1>4 DEF OrgCallSound, Carriers
<1> QED BY <1>3, <1>5, <1>7, <1>8, TakesPositionStep

LEMMA HoldCreateStep ==
    ASSUME OrganizationInv, NEW a \in Agent, NEW s \in PositionAssignment, HoldCreate(a, s),
           orgOps' = orgOps
    PROVE  OrganizationInv'
<1>1. orgCalls[a] # NULL /\ orgCalls[a].at = "hold.create"
  BY DEF HoldCreate, At
<1>2. orgCalls[a] \in OrgCall /\ OrgCallSound(orgCalls[a])
  BY <1>1, OrgCallOf
<1>3. PICK e \in Member, p \in Position, d \in Department, ends \in BOOLEAN :
        /\ e = orgCalls[a].member /\ p = orgCalls[a].position
        /\ d = orgCalls[a].department /\ ends = orgCalls[a].ends
  BY <1>1, <1>2, OrgCallFields DEF Carriers
<1>4. PICK next : next = [at |-> "hold.activate", position |-> p]
  OBVIOUS
<1>5. /\ CreateAssigned(s, orgCalls[a]) /\ OrgMoves(a, next)
      /\ positions' = positions /\ profiles' = profiles /\ changeRequests' = changeRequests
      /\ positionWasIn' = positionWasIn /\ staffing' = staffing
  BY <1>3, <1>4 DEF HoldCreate, OrgMoves, Begin
<1>6. /\ positionAssignments' \in [PositionAssignment -> AssignedDoc \cup {NULL}]
      /\ OrgGrows /\ Recorded(e, p)'
  BY <1>3, <1>5, CreatedIsRecorded
<1>7. next \in OrgCall /\ OrgCallSound(next)'
  BY <1>4 DEF OrgCall, OrgCallSound, Carriers
<1>8. orgCalls' \in [Agent -> OrgCall \cup {NULL}] /\ OrgCallsSound'
  BY <1>5, <1>6, <1>7, OrgCallsAfter
<1>9. ASSUME NEW f \in Member, profiles'[f].position # NULL
      PROVE  \/ Recorded(f, profiles[f].position)'
             \/ (<<f, profiles[f].position>> \in unrecorded)'
             \/ \E b \in Agent : WillRecord(b, f, profiles[f].position)'
  <2>1. profiles'[f].position = profiles[f].position
    BY <1>5
  <2>2. CASE Recorded(f, profiles[f].position)
    BY <1>6, <2>1, <2>2 DEF Recorded, OrgGrows
  <2>3. CASE <<f, profiles[f].position>> \in unrecorded
    BY <1>5, <2>1, <2>3 DEF staffing
  <2>4. ASSUME NEW b \in Agent, WillRecord(b, f, profiles[f].position)
        PROVE  Recorded(f, profiles[f].position)' \/ WillRecord(b, f, profiles[f].position)'
    <3>1. CASE b = a
      <4>1. f = e /\ profiles'[f].position = p
        BY <1>3, <2>1, <2>4, <3>1 DEF WillRecord
      <4> QED BY <1>6, <4>1 DEF Recorded
    <3>2. CASE b # a
      BY <1>5, <2>1, <2>4, <3>2 DEF WillRecord, At, OrgMoves, OrganizationInv, OrganizationTypeOK
    <3> QED BY <3>1, <3>2
  <2> QED BY <1>9, <2>1, <2>2, <2>3, <2>4 DEF OrganizationInv, PositionIsRecorded
<1>10. PositionIsRecorded'
  BY <1>9 DEF PositionIsRecorded
<1> QED BY <1>5, <1>6, <1>8, <1>10
        DEF OrganizationInv, OrganizationTypeOK, PositionsKnown, DepartmentWasOfPosition, staffing

LEMMA HoldActivateStep ==
    ASSUME OrganizationInv, NEW a \in Agent, HoldActivate(a), orgOps' = orgOps
    PROVE  OrganizationInv'
<1>1. orgCalls[a] # NULL /\ orgCalls[a].at = "hold.activate"
  BY DEF HoldActivate, At
<1>2. orgCalls[a].position \in Position
  BY <1>1, OrgCallOf, OrgCallFields
<1>3. /\ OrgMoves(a, NULL) /\ positions' = Activated(orgCalls[a].position)
      /\ positionWasIn' = positionWasIn
      /\ UNCHANGED <<profiles, positionAssignments, changeRequests, staffing>>
  BY DEF HoldActivate, OrgMoves, Finish
<1>4. positions' \in [Position -> PositionDoc \cup {NULL}] /\ PositionsKnown'
  BY <1>2, <1>3, ActivatedIsKnown
<1>5. ~ At(orgCalls, a, "hold.create") /\ positionWasIn' \subseteq Position \X Department
  BY <1>1, <1>3 DEF At, OrganizationInv, OrganizationTypeOK
<1> QED BY <1>3, <1>4, <1>5, PositionsWritten

LEMMA UpdatePositionSaveStep ==
    ASSUME OrganizationInv, NEW a \in Agent, NEW isActive \in BOOLEAN \cup {NULL},
           UpdatePositionSave(a, isActive), orgOps' = orgOps
    PROVE  OrganizationInv'
<1>1. orgCalls[a] # NULL /\ orgCalls[a].at = "move.save"
  BY DEF UpdatePositionSave, At
<1>2. orgCalls[a].position \in Position /\ orgCalls[a].to \in Department \cup {NULL}
  BY <1>1, OrgCallOf, OrgCallFields
<1>3. PICK p \in Position : p = orgCalls[a].position
  BY <1>2
<1>4. ~ At(orgCalls, a, "hold.create")
  BY <1>1 DEF At
<1>5. UNCHANGED <<profiles, positionAssignments, changeRequests, staffing>>
  BY DEF UpdatePositionSave
<1>6. CASE positions[p] = NULL
  <2>1. OrgMoves(a, NULL) /\ positions' = positions /\ positionWasIn' = positionWasIn
    BY <1>3, <1>6 DEF UpdatePositionSave, OrgMoves, Finish
  <2>2. /\ positions' \in [Position -> PositionDoc \cup {NULL}] /\ PositionsKnown'
        /\ positionWasIn' \subseteq Position \X Department
    BY <2>1 DEF OrganizationInv, OrganizationTypeOK, PositionsKnown
  <2> QED BY <1>4, <1>5, <2>1, <2>2, PositionsWritten
<1>7. CASE positions[p] # NULL
  <2>1. positions[p] \in PositionDoc
    BY <1>7 DEF OrganizationInv, OrganizationTypeOK
  <2>2. PICK new : new = [department |-> IF orgCalls[a].to = NULL THEN positions[p].department
                                         ELSE orgCalls[a].to,
                          isActive   |-> IF isActive = NULL THEN positions[p].isActive ELSE isActive]
    OBVIOUS
  <2>3. new \in PositionDoc
    BY <1>2, <2>1, <2>2 DEF PositionDoc
  <2>4. PICK d \in Department : d = new.department
    BY <2>3 DEF PositionDoc
  <2>5. PICK next \in OrgCall : next = [at |-> "move.propagate", position |-> p, department |-> d]
    BY DEF OrgCall
  <2>6. /\ positions' = [positions EXCEPT ![p] = new]
        /\ positionWasIn' = positionWasIn \cup {<<p, d>>}
        /\ OrgMoves(a, NULL) \/ OrgMoves(a, next)
    BY <1>3, <1>7, <2>2, <2>4, <2>5 DEF UpdatePositionSave, OrgMoves, Begin, Finish
  <2>7. /\ positions' \in [Position -> PositionDoc \cup {NULL}] /\ PositionsKnown'
        /\ positionWasIn' \subseteq Position \X Department /\ positionWasIn \subseteq positionWasIn'
    BY <2>3, <2>4, <2>6 DEF OrganizationInv, OrganizationTypeOK, PositionsKnown
  <2>8. OrgCallSound(next)'
    BY <2>5, <2>6 DEF OrgCallSound, Carriers
  <2> QED BY <1>4, <1>5, <2>6, <2>7, <2>8, PositionsWritten
<1> QED BY <1>6, <1>7

\* Steps that change profiles, but give no employee another position.
LEMMA ProfilesWritten ==
    ASSUME OrganizationInv, NEW a \in Agent, NEW next \in OrgCall \cup {NULL}, OrgMoves(a, next),
           next # NULL => OrgCallSound(next), ~ At(orgCalls, a, "hold.create"),
           profiles' \in [Member -> ProfileDoc],
           \A e \in Member : profiles'[e].position \in {profiles[e].position, NULL},
           DepartmentWasOfPosition',
           UNCHANGED <<positions, positionAssignments, changeRequests, positionWasIn, staffing, orgOps>>
    PROVE  OrganizationInv'
<1>1. OrgGrows
  BY DEF OrgGrows, staffing
<1>2. next # NULL => OrgCallSound(next)'
  BY <1>1, SoundStays
<1>3. orgCalls' \in [Agent -> OrgCall \cup {NULL}] /\ OrgCallsSound'
  BY <1>1, <1>2, OrgCallsAfter
<1>4. \A b \in Agent : At(orgCalls, b, "hold.create") => orgCalls'[b] = orgCalls[b]
  BY DEF OrgMoves, At, OrganizationInv, OrganizationTypeOK
<1>5. PositionIsRecorded'
  BY <1>1, <1>4, HeldStays
<1>6. OrganizationTypeOK'
  BY <1>3 DEF OrganizationInv, OrganizationTypeOK, staffing
<1> QED BY <1>3, <1>5, <1>6 DEF OrganizationInv, PositionsKnown

LEMMA UpdatePositionPropagateStep ==
    ASSUME OrganizationInv, NEW a \in Agent, UpdatePositionPropagate(a), orgOps' = orgOps
    PROVE  OrganizationInv'
<1>1. orgCalls[a] # NULL /\ orgCalls[a].at = "move.propagate"
  BY DEF UpdatePositionPropagate, At
<1>2. orgCalls[a] \in OrgCall /\ OrgCallSound(orgCalls[a])
  BY <1>1, OrgCallOf
<1>3. PICK p \in Position, d \in Department :
        p = orgCalls[a].position /\ d = orgCalls[a].department /\ <<p, d>> \in positionWasIn
  BY <1>1, <1>2, OrgCallFields DEF OrgCallSound
<1>4. /\ OrgMoves(a, NULL) /\ ~ At(orgCalls, a, "hold.create")
      /\ profiles' = [e \in Member |-> IF e \in HoldersOf(p)
                                       THEN [profiles[e] EXCEPT !.department = d] ELSE profiles[e]]
      /\ UNCHANGED <<positions, positionAssignments, changeRequests, positionWasIn, staffing>>
  BY <1>1, <1>3 DEF UpdatePositionPropagate, OrgMoves, Finish, At
<1>5. ASSUME NEW e \in Member
      PROVE  /\ profiles'[e] \in ProfileDoc /\ profiles'[e].position = profiles[e].position
             /\ profiles'[e].department = IF profiles[e].position = p THEN d ELSE profiles[e].department
  <2>1. profiles[e] \in ProfileDoc
    BY DEF OrganizationInv, OrganizationTypeOK
  <2>2. profiles'[e] = IF profiles[e].position = p
                       THEN [profiles[e] EXCEPT !.department = d] ELSE profiles[e]
    BY <1>4 DEF HoldersOf
  <2> QED BY <2>1, <2>2 DEF ProfileDoc
<1>6. profiles' \in [Member -> ProfileDoc]
  BY <1>4, <1>5
<1>7. DepartmentWasOfPosition'
  BY <1>3, <1>4, <1>5 DEF OrganizationInv, DepartmentWasOfPosition, staffing
<1> QED BY <1>4, <1>5, <1>6, <1>7, ProfilesWritten

LEMMA RemovePositionUnsetStep ==
    ASSUME OrganizationInv, NEW a \in Agent, RemovePositionUnset(a), orgOps' = orgOps
    PROVE  OrganizationInv'
<1>1. orgCalls[a] # NULL /\ orgCalls[a].at = "remove.unset"
  BY DEF RemovePositionUnset, At
<1>2. orgCalls[a] \in OrgCall
  BY <1>1, OrgCallOf
<1>3. PICK p \in Position : p = orgCalls[a].position
  BY <1>1, <1>2, OrgCallFields
<1>4. PICK next : next = [orgCalls[a] EXCEPT !.at = "remove.delete"]
  OBVIOUS
<1>5. next \in OrgCall /\ OrgCallSound(next)
  BY <1>1, <1>2, <1>4 DEF OrgCall, OrgCallSound, Carriers
<1>6. /\ OrgMoves(a, next) /\ ~ At(orgCalls, a, "hold.create")
      /\ profiles' = [e \in Member |-> IF e \in HoldersOf(p)
                                       THEN [profiles[e] EXCEPT !.position = NULL] ELSE profiles[e]]
      /\ UNCHANGED <<positions, positionAssignments, changeRequests, positionWasIn, staffing>>
  BY <1>1, <1>3, <1>4
     DEF RemovePositionUnset, OrgMoves, At, OrganizationInv, OrganizationTypeOK
<1>7. ASSUME NEW e \in Member
      PROVE  /\ profiles'[e] \in ProfileDoc /\ profiles'[e].department = profiles[e].department
             /\ profiles'[e].position \in {profiles[e].position, NULL}
  <2>1. profiles[e] \in ProfileDoc
    BY DEF OrganizationInv, OrganizationTypeOK
  <2>2. profiles'[e] = IF profiles[e].position = p
                       THEN [profiles[e] EXCEPT !.position = NULL] ELSE profiles[e]
    BY <1>6 DEF HoldersOf
  <2> QED BY <2>1, <2>2 DEF ProfileDoc
<1>8. profiles' \in [Member -> ProfileDoc]
  BY <1>6, <1>7
<1>9. DepartmentWasOfPosition'
  BY <1>6, <1>7 DEF OrganizationInv, DepartmentWasOfPosition, staffing
<1> QED BY <1>5, <1>6, <1>7, <1>8, <1>9, ProfilesWritten

LEMMA RemovePositionDeleteStep ==
    ASSUME OrganizationInv, NEW a \in Agent, RemovePositionDelete(a), orgOps' = orgOps
    PROVE  OrganizationInv'
<1>1. orgCalls[a] # NULL /\ orgCalls[a].at = "remove.delete"
  BY DEF RemovePositionDelete, At
<1>2. PICK p \in Position : p = orgCalls[a].position
  BY <1>1, OrgCallOf, OrgCallFields
<1>3. /\ OrgMoves(a, NULL) /\ positions' = [positions EXCEPT ![p] = NULL]
      /\ positionWasIn' = positionWasIn
      /\ UNCHANGED <<profiles, positionAssignments, changeRequests, staffing>>
  BY <1>2 DEF RemovePositionDelete, OrgMoves, Finish
<1>4. /\ positions' \in [Position -> PositionDoc \cup {NULL}] /\ PositionsKnown'
  BY <1>3 DEF OrganizationInv, OrganizationTypeOK, PositionsKnown
<1>5. ~ At(orgCalls, a, "hold.create") /\ positionWasIn' \subseteq Position \X Department
  BY <1>1, <1>3 DEF At, OrganizationInv, OrganizationTypeOK
<1> QED BY <1>3, <1>4, <1>5, PositionsWritten

LEMMA ApplyChangeRequestStep ==
    ASSUME OrganizationInv, NEW a \in Agent, ApplyChangeRequest(a), orgOps' = orgOps
    PROVE  OrganizationInv'
<1>1. orgCalls[a] # NULL /\ orgCalls[a].at = "apply"
  BY DEF ApplyChangeRequest, At
<1>2. orgCalls[a] \in OrgCall /\ OrgCallSound(orgCalls[a])
  BY <1>1, OrgCallOf
<1>3. PICK q \in ChangeRequest : q = orgCalls[a].request /\ changeRequests[q] # NULL
  BY <1>1, <1>2, OrgCallFields DEF OrgCallSound
<1>4. changeRequests[q] \in ChangeRequestDoc
  BY <1>3 DEF OrganizationInv, OrganizationTypeOK
<1>5. PICK p \in Position, e \in Member : p = changeRequests[q].position /\ e = changeRequests[q].member
  BY <1>4 DEF ChangeRequestDoc
<1>6. /\ ~ At(orgCalls, a, "hold.create")
      /\ UNCHANGED <<profiles, positionAssignments, changeRequests, positionWasIn, staffing>>
  BY <1>1 DEF At, ApplyChangeRequest
<1>7. positionWasIn' \subseteq Position \X Department
  BY <1>6 DEF OrganizationInv, OrganizationTypeOK
<1>8. CASE ~ Exists(p)
  <2>1. OrgMoves(a, NULL) /\ positions' = positions
    BY <1>3, <1>5, <1>8 DEF ApplyChangeRequest, OrgMoves, Finish
  <2>2. positions' \in [Position -> PositionDoc \cup {NULL}] /\ PositionsKnown'
    BY <1>6, <2>1 DEF OrganizationInv, OrganizationTypeOK, PositionsKnown
  <2> QED BY <1>6, <1>7, <2>1, <2>2, PositionsWritten
<1>9. CASE Exists(p)
  <2>1. PICK next : next = Assigning(FirstOf(p), e, p, FALSE)
    OBVIOUS
  <2>2. \/ OrgMoves(a, next) /\ positions' = positions
        \/ OrgMoves(a, NULL) /\ positions' = [positions EXCEPT ![p].isActive = FALSE]
    BY <1>3, <1>5, <1>9, <2>1 DEF ApplyChangeRequest, OrgMoves, Begin, Finish
  <2>3. CASE OrgMoves(a, next) /\ positions' = positions
    <3>1. FirstOf(p) \in {"assign.activate", "assign.find", "hold.profile"}
      BY DEF FirstOf
    <3>2. next \in OrgCall /\ OrgCallSound(next)
      BY <1>9, <2>1, <3>1, AssigningIsSound
    <3>3. UNCHANGED <<orgDocs, staffing>> /\ orgOps' \in 0..MaxOrgOps
      BY <1>6, <2>3 DEF orgDocs, OrganizationInv, OrganizationTypeOK
    <3> QED BY <1>6, <2>3, <3>2, <3>3, OrgCallsOnly
  <2>4. CASE OrgMoves(a, NULL) /\ positions' = [positions EXCEPT ![p].isActive = FALSE]
    <3> DEFINE new == [positions[p] EXCEPT !.isActive = FALSE]
    <3>1. new \in PositionDoc /\ new.department = positions[p].department
      BY <1>9, PositionOf DEF PositionDoc
    <3>2. positions' = [positions EXCEPT ![p] = new]
      BY <2>4 DEF OrganizationInv, OrganizationTypeOK
    <3> HIDE DEF new
    <3>3. positions' \in [Position -> PositionDoc \cup {NULL}] /\ PositionsKnown'
      BY <1>6, <1>9, <3>1, <3>2 DEF OrganizationInv, OrganizationTypeOK, PositionsKnown, Exists
    <3> QED BY <1>6, <1>7, <2>4, <3>3, PositionsWritten
  <2> QED BY <2>2, <2>3, <2>4
<1> QED BY <1>8, <1>9

LEMMA OrgCallFailsStep ==
    ASSUME OrganizationInv, NEW a \in Agent, OrgCallFails(a), orgOps' = orgOps
    PROVE  OrganizationInv'
<1>1. /\ orgCalls[a] # NULL /\ OrgMoves(a, NULL) /\ UNCHANGED orgDocs
  BY DEF OrgCallFails, OrgMoves, Finish, Idle
<1>2. CASE ~ At(orgCalls, a, "hold.create")
  <2>1. UNCHANGED <<orgDocs, staffing>> /\ orgOps' \in 0..MaxOrgOps
    BY <1>2 DEF OrgCallFails, staffing, OrganizationInv, OrganizationTypeOK
  <2> QED BY <1>1, <1>2, <2>1, OrgCallsOnly
<1>3. CASE At(orgCalls, a, "hold.create")
  <2>1. /\ unrecorded' = unrecorded \cup {<<orgCalls[a].member, orgCalls[a].position>>}
        /\ employed' = employed /\ placedIn' = placedIn
        /\ orgCalls[a].member \in Member /\ orgCalls[a].position \in Position
    BY <1>1, <1>3, OrgCallOf, OrgCallFields DEF OrgCallFails, At, Carriers
  <2>2. /\ positions' = positions /\ profiles' = profiles
        /\ positionAssignments' = positionAssignments /\ changeRequests' = changeRequests
        /\ positionWasIn' = positionWasIn
    BY <1>1 DEF orgDocs
  <2>3. OrgGrows
    BY <2>1, <2>2 DEF OrgGrows, staffing
  <2>4. orgCalls' \in [Agent -> OrgCall \cup {NULL}] /\ OrgCallsSound'
    BY <1>1, <2>3, OrgCallsAfter
  <2>5. ASSUME NEW f \in Member, profiles[f].position # NULL,
               <<f, profiles[f].position>> \notin unrecorded'
        PROVE  \/ Recorded(f, profiles[f].position)'
               \/ \E b \in Agent : WillRecord(b, f, profiles[f].position)'
    <3>1. CASE Recorded(f, profiles[f].position)
      BY <2>2, <3>1 DEF Recorded
    <3>2. ASSUME NEW b \in Agent, WillRecord(b, f, profiles[f].position)
          PROVE  WillRecord(b, f, profiles[f].position)'
      <4>1. b # a
        BY <2>1, <2>5, <3>2 DEF WillRecord
      <4> QED BY <1>1, <2>2, <3>2, <4>1
              DEF WillRecord, At, OrgMoves, OrganizationInv, OrganizationTypeOK
    <3> QED BY <2>1, <2>5, <3>1, <3>2 DEF OrganizationInv, PositionIsRecorded
  <2>6. PositionIsRecorded'
    BY <2>2, <2>5 DEF PositionIsRecorded
  <2> QED BY <2>1, <2>2, <2>4, <2>6
          DEF OrganizationInv, OrganizationTypeOK, PositionsKnown, DepartmentWasOfPosition, staffing
<1> QED BY <1>2, <1>3

-----------------------------------------------------------------------------

LEMMA OrganizationStep ==
    ASSUME OrganizationInv, [OrganizationNext]_orgVars PROVE OrganizationInv'
<1>1. CASE UNCHANGED orgVars
  <2>1. OrgGrows
    BY <1>1 DEF orgVars, staffing, OrgGrows
  <2>2. OrgCallsSound' /\ PositionIsRecorded'
    BY <1>1, <2>1, OrgCallsStay, HeldStays DEF orgVars
  <2> QED BY <1>1, <2>2
          DEF orgVars, staffing, OrganizationInv, OrganizationTypeOK, PositionsKnown,
              DepartmentWasOfPosition
<1>2. CASE RequestOrg /\ orgOps < MaxOrgOps /\ orgOps' = orgOps + 1
  <2>1. orgOps' \in 0..MaxOrgOps
    BY <1>2, OrganizationAssumption DEF OrganizationInv, OrganizationTypeOK
  <2> QED BY <1>2, <2>1, RequestOrgStep
<1>3. ASSUME NEW a \in Agent, OrgStep(a), orgOps' = orgOps PROVE OrganizationInv'
  BY <1>3, AssignActivateStep, AssignFindStep, AssignCloseStep, AssignCreateStep, AssignProfileStep,
     HoldProfileStep, HoldActivateStep, HoldCreateStep, UpdatePositionSaveStep,
     UpdatePositionPropagateStep, RemovePositionUnsetStep, RemovePositionDeleteStep,
     ApplyChangeRequestStep, OrgCallFailsStep
     DEF OrgStep
<1> QED BY <1>1, <1>2, <1>3 DEF OrganizationNext

THEOREM OrganizationInvariant == OrganizationSpec => []OrganizationInv
BY OrganizationInitially, OrganizationStep, PTL DEF OrganizationSpec

\* Every document, call in flight and history has its type.
THEOREM OrganizationTypeCorrect == OrganizationSpec => []OrganizationTypeOK
<1>1. OrganizationInv => OrganizationTypeOK
  BY DEF OrganizationInv
<1> QED BY <1>1, OrganizationInvariant, PTL

\* An employee with a position is in a department that this position was in, or
\* in one that updateDepartment or the conversion of a candidate had put that
\* very employee in.
THEOREM DepartmentsAreOfPositions == OrganizationSpec => []DepartmentWasOfPosition
<1>1. OrganizationInv => DepartmentWasOfPosition
  BY DEF OrganizationInv
<1> QED BY <1>1, OrganizationInvariant, PTL

\* A position that an employee holds is in the employee's assignments, unless a
\* handler is about to record it, or the employee brought it along as a candidate
\* or got it from an updatePosition that was cut short.
THEOREM PositionsAreRecorded == OrganizationSpec => []PositionIsRecorded
<1>1. OrganizationInv => PositionIsRecorded
  BY DEF OrganizationInv
<1> QED BY <1>1, OrganizationInvariant, PTL

-----------------------------------------------------------------------------
(* Performance appraisals.                                                 *)

RecordCalls == {"create.assignment", "update.assignment", "publish.assignment", "check.current",
                "update.save", "check.others", "check.suspend", "check.review"}

EnoughLow(e) == \E t \in Template : Cardinality(RatedLow(e, t)) >= Threshold

\* What a handler in flight carries fits the documents.
AppraisalCallSound(call) ==
    /\ call.at \in RecordCalls => RecordExists(call.record)
    /\ call.at = "update.save" /\ call.again => records[call.record].assignment \in reopened
    /\ call.at = "check.others" /\ call.currentIsMin =>
         MinRating[records[call.record].template] \in ratedAs[call.record]
    /\ call.at = "check.suspend" => EnoughLow(records[call.record].of)
    /\ call.at = "resolve.reopen" => assignments[call.assignment] # NULL

AppraisalCallsSound ==
    \A a \in Agent : appraisalCalls[a] # NULL => AppraisalCallSound(appraisalCalls[a])

AppraisalDocsSound ==
    /\ \A r \in AppraisalRecord : RecordExists(r) =>
         records[r].rating \in ratedAs[r] /\ assignments[records[r].assignment] # NULL
    /\ \A g \in Assignment :
         assignments[g] # NULL /\ assignments[g].status = "IN_PROGRESS" => g \in reopened
    /\ \A d \in AppraisalDispute :
         appraisalDisputes[d] # NULL => assignments[appraisalDisputes[d].assignment] # NULL
    /\ \A r \in byManager : RecordExists(r)

AppraisalsInv ==
    /\ AppraisalsTypeOK
    /\ AppraisalCallsSound
    /\ AppraisalDocsSound
    /\ SuspendedWasRatedLow
    /\ ManagerPublishesAfterDispute

-----------------------------------------------------------------------------

THEOREM AppraisalsInitially == AppraisalsInit => AppraisalsInv
<1> SUFFICES ASSUME AppraisalsInit PROVE AppraisalsInv
  OBVIOUS
<1>1. /\ assignments \in [Assignment -> AssignmentDoc \cup {NULL}]
      /\ records \in [AppraisalRecord -> RecordDoc \cup {NULL}]
      /\ appraisalDisputes \in [AppraisalDispute -> AppraisalDisputeDoc \cup {NULL}]
      /\ appraisalCalls \in [Agent -> AppraisalCall \cup {NULL}]
      /\ ratedAs \in [AppraisalRecord -> SUBSET (Rating \cup {NULL})]
  BY DEF AppraisalsInit
<1>2. /\ suspended \subseteq Appraisee /\ reviewed \subseteq Appraisee
      /\ reopened \subseteq Assignment /\ byManager \subseteq AppraisalRecord
      /\ checked \subseteq Appraisee
  BY DEF AppraisalsInit
<1>3. appraisalOps \in 0..MaxAppraisalOps
  BY AppraisalsAssumption DEF AppraisalsInit
<1>4. /\ AppraisalCallsSound /\ AppraisalDocsSound
      /\ SuspendedWasRatedLow /\ ManagerPublishesAfterDispute
  BY DEF AppraisalsInit, AppraisalCallsSound, AppraisalDocsSound, RecordExists,
         SuspendedWasRatedLow, ManagerPublishesAfterDispute
<1> QED BY <1>1, <1>2, <1>3, <1>4 DEF AppraisalsInv, AppraisalsTypeOK

\* The fields of a call at each of its steps.
LEMMA AppraisalCallFields ==
    ASSUME NEW call \in AppraisalCall
    PROVE  /\ call.at \in RecordCalls => call.record \in AppraisalRecord
           /\ call.at = "update.save" =>
                call.rating \in Rating \cup {NULL} /\ call.again \in BOOLEAN
           /\ call.at = "check.others" => call.currentIsMin \in BOOLEAN
           /\ call.at = "resolve.reopen" => call.assignment \in Assignment
BY DEF AppraisalCall, RecordCalls

LEMMA AppraisalCallOf ==
    ASSUME AppraisalsInv, NEW a \in Agent, appraisalCalls[a] # NULL
    PROVE  appraisalCalls[a] \in AppraisalCall /\ AppraisalCallSound(appraisalCalls[a])
BY DEF AppraisalsInv, AppraisalsTypeOK, AppraisalCallsSound

\* A handler that works on a record.
LEMMA RecordCallOf ==
    ASSUME AppraisalsInv, NEW a \in Agent, NEW where \in RecordCalls, At(appraisalCalls, a, where)
    PROVE  \E call \in AppraisalCall :
             /\ call = appraisalCalls[a] /\ call.at = where /\ AppraisalCallSound(call)
             /\ call.record \in AppraisalRecord /\ RecordExists(call.record)
             /\ records[call.record] \in RecordDoc
<1>1. appraisalCalls[a] \in AppraisalCall /\ AppraisalCallSound(appraisalCalls[a])
      /\ appraisalCalls[a].at = where
  BY AppraisalCallOf DEF At
<1>2. appraisalCalls[a].record \in AppraisalRecord /\ RecordExists(appraisalCalls[a].record)
  BY <1>1, AppraisalCallFields DEF AppraisalCallSound
<1> QED BY <1>1, <1>2 DEF AppraisalsInv, AppraisalsTypeOK, RecordExists

-----------------------------------------------------------------------------
(* What steps have in common.                                              *)

\* Documents stay, records keep what they are about, histories grow.
AppraisalsGrow ==
    /\ \A g \in Assignment : assignments[g] # NULL => assignments'[g] # NULL
    /\ \A r \in AppraisalRecord : records[r] # NULL =>
         /\ records'[r] # NULL
         /\ records'[r].of = records[r].of
         /\ records'[r].template = records[r].template
         /\ records'[r].assignment = records[r].assignment
    /\ \A r \in AppraisalRecord : ratedAs[r] \subseteq ratedAs'[r]
    /\ reopened \subseteq reopened'

\* Agent a goes on with next, a call or NULL.
AppraisalMoves(a, next) == appraisalCalls' = [appraisalCalls EXCEPT ![a] = next]

LEMMA RatedLowGrows ==
    ASSUME AppraisalsGrow, NEW e, NEW t
    PROVE  Cardinality(RatedLow(e, t)) <= Cardinality(RatedLow(e, t)')
<1> DEFINE before == RatedLow(e, t)
           after == {r \in AppraisalRecord :
                       records'[r] # NULL /\ records'[r].of = e /\ MinRating[t] \in ratedAs'[r]}
<1>1. before \subseteq after /\ after \subseteq AppraisalRecord
  BY DEF AppraisalsGrow, RatedLow, RecordExists
<1>2. RatedLow(e, t)' = after
  BY DEF RatedLow, RecordExists
<1> HIDE DEF before, after
<1>3. IsFiniteSet(after)
  BY <1>1, FS_Subset, AppraisalsAssumption
<1>4. Cardinality(before) <= Cardinality(after)
  BY <1>1, <1>3, FS_Subset
<1> QED BY <1>2, <1>4 DEF before

LEMMA RatedLowIsFinite ==
    ASSUME NEW e, NEW t
    PROVE  IsFiniteSet(RatedLow(e, t)) /\ Cardinality(RatedLow(e, t)) \in Nat
<1>1. RatedLow(e, t) \subseteq AppraisalRecord
  BY DEF RatedLow
<1> QED BY <1>1, FS_Subset, FS_CardinalityType, AppraisalsAssumption

LEMMA RatedLowIsFiniteAfter ==
    ASSUME NEW e, NEW t
    PROVE  Cardinality(RatedLow(e, t)') \in Nat
<1> DEFINE after == {r \in AppraisalRecord :
                       records'[r] # NULL /\ records'[r].of = e /\ MinRating[t] \in ratedAs'[r]}
<1>1. RatedLow(e, t)' = after
  BY DEF RatedLow, RecordExists
<1>2. after \subseteq AppraisalRecord
  OBVIOUS
<1> HIDE DEF after
<1> QED BY <1>1, <1>2, FS_Subset, FS_CardinalityType, AppraisalsAssumption

LEMMA EnoughStays ==
    ASSUME AppraisalsGrow, NEW e, EnoughLow(e)
    PROVE  EnoughLow(e)'
<1>1. PICK t \in Template : Cardinality(RatedLow(e, t)) >= Threshold
  BY DEF EnoughLow
<1>2. Cardinality(RatedLow(e, t)') >= Threshold
  BY <1>1, RatedLowGrows, RatedLowIsFinite, RatedLowIsFiniteAfter, AppraisalsAssumption
<1> QED BY <1>2 DEF EnoughLow

LEMMA SuspensionsStay ==
    ASSUME AppraisalsInv, AppraisalsGrow, suspended' = suspended
    PROVE  SuspendedWasRatedLow'
<1>1. ASSUME NEW e \in suspended PROVE EnoughLow(e)'
  BY EnoughStays DEF AppraisalsInv, SuspendedWasRatedLow, EnoughLow
<1> QED BY <1>1 DEF SuspendedWasRatedLow, EnoughLow

LEMMA AppraisalCallStays ==
    ASSUME NEW call \in AppraisalCall, AppraisalCallSound(call), AppraisalsGrow
    PROVE  AppraisalCallSound(call)'
<1>1. call.at \in RecordCalls =>
        /\ call.record \in AppraisalRecord /\ records'[call.record] # NULL
        /\ records'[call.record].of = records[call.record].of
        /\ records'[call.record].template = records[call.record].template
        /\ records'[call.record].assignment = records[call.record].assignment
        /\ ratedAs[call.record] \subseteq ratedAs'[call.record]
  BY AppraisalCallFields DEF AppraisalCallSound, AppraisalsGrow, RecordExists
<1>2. call.at = "check.suspend" => EnoughLow(records[call.record].of)'
  <2>1. ASSUME call.at = "check.suspend" PROVE EnoughLow(records[call.record].of)'
    <3>1. PICK e : e = records[call.record].of
      OBVIOUS
    <3>2. records'[call.record].of = e
      BY <1>1, <2>1, <3>1 DEF RecordCalls
    <3>3. EnoughLow(e)'
      BY <2>1, <3>1, EnoughStays DEF AppraisalCallSound
    <3> QED BY <3>2, <3>3
  <2> QED BY <2>1
<1>3. call.at = "resolve.reopen" => assignments'[call.assignment] # NULL
  BY AppraisalCallFields DEF AppraisalCallSound, AppraisalsGrow
<1>4. call.at = "update.save" /\ call.again => records'[call.record].assignment \in reopened'
  BY <1>1 DEF AppraisalCallSound, AppraisalsGrow, RecordCalls
<1>5. call.at = "check.others" /\ call.currentIsMin =>
        MinRating[records'[call.record].template] \in ratedAs'[call.record]
  BY <1>1 DEF AppraisalCallSound, RecordCalls
<1> QED BY <1>1, <1>2, <1>3, <1>4, <1>5 DEF AppraisalCallSound, RecordExists

LEMMA AppraisalCallsAfter ==
    ASSUME AppraisalsInv, AppraisalsGrow, NEW a \in Agent, NEW next \in AppraisalCall \cup {NULL},
           AppraisalMoves(a, next), next # NULL => AppraisalCallSound(next)'
    PROVE  appraisalCalls' \in [Agent -> AppraisalCall \cup {NULL}] /\ AppraisalCallsSound'
<1>1. appraisalCalls \in [Agent -> AppraisalCall \cup {NULL}]
  BY DEF AppraisalsInv, AppraisalsTypeOK
<1>2. /\ appraisalCalls' \in [Agent -> AppraisalCall \cup {NULL}]
      /\ \A b \in Agent : appraisalCalls'[b] = IF b = a THEN next ELSE appraisalCalls[b]
  BY <1>1 DEF AppraisalMoves
<1>3. ASSUME NEW b \in Agent, b # a, appraisalCalls[b] # NULL
      PROVE  AppraisalCallSound(appraisalCalls[b])'
  <2>1. PICK call \in AppraisalCall : call = appraisalCalls[b] /\ AppraisalCallSound(call)
    BY <1>3, AppraisalCallOf
  <2>2. AppraisalCallSound(call)'
    BY <2>1, AppraisalCallStays
  <2>3. appraisalCalls'[b] = call
    BY <1>2, <1>3, <2>1
  <2> QED BY <2>2, <2>3
<1>4. next # NULL => AppraisalCallSound(appraisalCalls[a])'
  <2>1. appraisalCalls'[a] = next
    BY <1>2
  <2> QED BY <2>1
<1> QED BY <1>2, <1>3, <1>4 DEF AppraisalCallsSound

LEMMA AppraisalCallsStay ==
    ASSUME AppraisalsInv, AppraisalsGrow, appraisalCalls' = appraisalCalls
    PROVE  AppraisalCallsSound'
<1>1. ASSUME NEW b \in Agent, appraisalCalls[b] # NULL
      PROVE  AppraisalCallSound(appraisalCalls[b])'
  <2>1. PICK call \in AppraisalCall : call = appraisalCalls[b] /\ AppraisalCallSound(call)
    BY <1>1, AppraisalCallOf
  <2>2. AppraisalCallSound(call)'
    BY <2>1, AppraisalCallStays
  <2> QED BY <2>1, <2>2
<1> QED BY <1>1 DEF AppraisalCallsSound

-----------------------------------------------------------------------------
(* Steps that change no document.                                          *)

LEMMA OnlyCallsMove ==
    ASSUME AppraisalsInv, UNCHANGED <<appraisalDocs, appraisalHistory>>,
           appraisalOps' \in 0..MaxAppraisalOps,
           NEW a \in Agent, NEW next \in AppraisalCall \cup {NULL},
           AppraisalMoves(a, next), next # NULL => AppraisalCallSound(next)
    PROVE  AppraisalsInv'
<1>1. AppraisalsGrow
  BY DEF AppraisalsGrow, appraisalDocs, appraisalHistory
<1>2. next # NULL => AppraisalCallSound(next)'
  BY <1>1, AppraisalCallStays
<1>3. appraisalCalls' \in [Agent -> AppraisalCall \cup {NULL}] /\ AppraisalCallsSound'
  BY <1>1, <1>2, AppraisalCallsAfter
<1>4. AppraisalsTypeOK'
  BY <1>3 DEF AppraisalsInv, AppraisalsTypeOK, appraisalDocs, appraisalHistory
<1>5. AppraisalDocsSound' /\ ManagerPublishesAfterDispute'
  BY DEF AppraisalsInv, AppraisalDocsSound, ManagerPublishesAfterDispute, RecordExists,
         appraisalDocs, appraisalHistory
<1>6. SuspendedWasRatedLow'
  BY <1>1, SuspensionsStay DEF appraisalDocs
<1> QED BY <1>3, <1>4, <1>5, <1>6 DEF AppraisalsInv

LEMMA AppraisalFails ==
    ASSUME AppraisalsInv, appraisalOps' \in 0..MaxAppraisalOps,
           NEW a \in Agent, AppraisalCallFails(a)
    PROVE  AppraisalsInv'
BY OnlyCallsMove DEF AppraisalCallFails, AppraisalMoves, Finish

LEMMA AppraisalUpdates ==
    ASSUME AppraisalsInv, appraisalOps' \in 0..MaxAppraisalOps, NEW a \in Agent,
           NEW r \in AppraisalRecord, NEW rating \in Rating \cup {NULL}, UpdateRecord(a, r, rating)
    PROVE  AppraisalsInv'
<1>1. PICK again \in BOOLEAN : again = IsDisputeReEvaluation(records[r].assignment)
  BY DEF IsDisputeReEvaluation
<1>2. PICK next \in AppraisalCall :
        next = [at |-> "update.save", record |-> r, rating |-> rating, again |-> again]
  BY DEF AppraisalCall
<1>3. records[r] # NULL /\ records[r].assignment \in Assignment
      /\ assignments[records[r].assignment] # NULL
  BY DEF UpdateRecord, RecordExists, AppraisalsInv, AppraisalsTypeOK, RecordDoc, AppraisalDocsSound
<1>4. again => records[r].assignment \in reopened
  BY <1>1, <1>3 DEF IsDisputeReEvaluation, AppraisalsInv, AppraisalDocsSound
<1>5. AppraisalCallSound(next)
  BY <1>2, <1>3, <1>4 DEF AppraisalCallSound, RecordExists
<1>6. AppraisalMoves(a, next)
  BY <1>1, <1>2 DEF UpdateRecord, AppraisalMoves, Begin
<1>7. UNCHANGED <<appraisalDocs, appraisalHistory>>
  BY DEF UpdateRecord
<1> QED BY <1>5, <1>6, <1>7, OnlyCallsMove

LEMMA CurrentIsChecked ==
    ASSUME AppraisalsInv, appraisalOps' \in 0..MaxAppraisalOps, NEW a \in Agent, CheckCurrent(a)
    PROVE  AppraisalsInv'
<1>1. PICK call \in AppraisalCall :
        /\ call = appraisalCalls[a] /\ call.at = "check.current" /\ AppraisalCallSound(call)
        /\ call.record \in AppraisalRecord /\ RecordExists(call.record)
        /\ records[call.record] \in RecordDoc
  BY RecordCallOf DEF CheckCurrent, RecordCalls
<1>2. PICK isMin \in BOOLEAN :
        isMin = IsMinimumScoreRecord(call.record, MinRating[records[call.record].template])
  BY DEF IsMinimumScoreRecord
<1>3. PICK next \in AppraisalCall :
        next = [at |-> "check.others", record |-> call.record, currentIsMin |-> isMin]
  BY <1>1 DEF AppraisalCall
<1>4. isMin => MinRating[records[call.record].template] \in ratedAs[call.record]
  BY <1>1, <1>2 DEF IsMinimumScoreRecord, AppraisalsInv, AppraisalDocsSound
<1>5. AppraisalCallSound(next)
  BY <1>1, <1>3, <1>4 DEF AppraisalCallSound
<1>6. AppraisalMoves(a, next)
  BY <1>1, <1>2, <1>3 DEF CheckCurrent, AppraisalMoves, Begin
<1>7. UNCHANGED <<appraisalDocs, appraisalHistory>>
  BY DEF CheckCurrent
<1> QED BY <1>5, <1>6, <1>7, OnlyCallsMove

\* The records that the check counts are different records that were rated
\* at the minimum.
LEMMA CountedWereRatedLow ==
    ASSUME AppraisalsInv, NEW r \in AppraisalRecord, RecordExists(r), NEW currentIsMin \in BOOLEAN,
           currentIsMin => MinRating[records[r].template] \in ratedAs[r]
    PROVE  Cardinality(MinimumPublished(r)) + (IF currentIsMin THEN 1 ELSE 0)
             <= Cardinality(RatedLow(records[r].of, records[r].template))
<1> DEFINE others == MinimumPublished(r)
           low == RatedLow(records[r].of, records[r].template)
<1>1. others \subseteq low /\ r \notin others /\ others \subseteq AppraisalRecord
  BY DEF AppraisalsInv, AppraisalDocsSound, MinimumPublished, RatedLow, IsMinimumScoreRecord
<1>2. currentIsMin => r \in low
  BY DEF RatedLow
<1>3. IsFiniteSet(low) /\ Cardinality(low) \in Nat
  BY RatedLowIsFinite
<1> SUFFICES Cardinality(others) + (IF currentIsMin THEN 1 ELSE 0) <= Cardinality(low)
  OBVIOUS
<1> HIDE DEF others, low
<1>4. IsFiniteSet(others) /\ Cardinality(others) <= Cardinality(low)
  BY <1>1, <1>3, FS_Subset
<1>5. Cardinality(others) \in Nat
  BY <1>4, FS_CardinalityType
<1>6. ASSUME currentIsMin PROVE Cardinality(others) + 1 <= Cardinality(low)
  <2>1. others \cup {r} \subseteq low
    BY <1>1, <1>2, <1>6
  <2>2. Cardinality(others \cup {r}) = Cardinality(others) + 1
    BY <1>1, <1>4, FS_AddElement
  <2> QED BY <2>1, <2>2, <1>3, FS_Subset
<1> QED BY <1>3, <1>4, <1>5, <1>6

LEMMA OthersAreChecked ==
    ASSUME AppraisalsInv, appraisalOps' \in 0..MaxAppraisalOps, NEW a \in Agent, CheckOthers(a)
    PROVE  AppraisalsInv'
<1>1. PICK call \in AppraisalCall :
        /\ call = appraisalCalls[a] /\ call.at = "check.others" /\ AppraisalCallSound(call)
        /\ call.record \in AppraisalRecord /\ RecordExists(call.record)
        /\ records[call.record] \in RecordDoc
  BY RecordCallOf DEF CheckOthers, RecordCalls
<1>2. UNCHANGED <<appraisalDocs, appraisalHistory>>
  BY DEF CheckOthers
<1>3. CASE appraisalCalls' = Finish(appraisalCalls, a)
  BY <1>2, <1>3, OnlyCallsMove DEF AppraisalMoves, Finish
<1>4. CASE /\ GoOn(a, "check.suspend")
           /\ Cardinality(MinimumPublished(call.record)) + (IF call.currentIsMin THEN 1 ELSE 0)
                >= Threshold
  <2>1. PICK next \in AppraisalCall : next = [at |-> "check.suspend", record |-> call.record]
    BY <1>1 DEF AppraisalCall
  <2>2. Cardinality(MinimumPublished(call.record)) + (IF call.currentIsMin THEN 1 ELSE 0)
          <= Cardinality(RatedLow(records[call.record].of, records[call.record].template))
    BY <1>1, CountedWereRatedLow, AppraisalCallFields DEF AppraisalCallSound
  <2>3. Cardinality(RatedLow(records[call.record].of, records[call.record].template)) \in Nat
    BY RatedLowIsFinite
  <2>4. Cardinality(MinimumPublished(call.record)) \in Nat
    <3>1. MinimumPublished(call.record) \subseteq AppraisalRecord
      BY DEF MinimumPublished
    <3> QED BY <3>1, FS_Subset, FS_CardinalityType, AppraisalsAssumption
  <2>5. Cardinality(RatedLow(records[call.record].of, records[call.record].template)) >= Threshold
    BY <1>4, <2>2, <2>3, <2>4, AppraisalsAssumption
  <2>6. EnoughLow(records[call.record].of)
    BY <1>1, <2>5 DEF EnoughLow, RecordDoc
  <2>7. AppraisalCallSound(next)
    BY <1>1, <2>1, <2>6 DEF AppraisalCallSound
  <2>8. AppraisalMoves(a, next)
    BY <1>1, <1>4, <2>1 DEF GoOn, AppraisalMoves, Begin
  <2> QED BY <1>2, <2>7, <2>8, OnlyCallsMove
<1> QED BY <1>1, <1>3, <1>4 DEF CheckOthers

-----------------------------------------------------------------------------
(* Steps that write an assignment.                                         *)

LEMMA AssignmentIsWritten ==
    ASSUME AppraisalsInv, NEW g \in Assignment, NEW doc \in AssignmentDoc,
           assignments' = [assignments EXCEPT ![g] = doc],
           UNCHANGED <<records, appraisalDisputes, suspended, ratedAs, byManager>>,
           reopened \subseteq reopened',
           doc.status = "IN_PROGRESS" => g \in reopened'
    PROVE  /\ assignments' \in [Assignment -> AssignmentDoc \cup {NULL}]
           /\ AppraisalsGrow /\ AppraisalDocsSound'
           /\ SuspendedWasRatedLow' /\ ManagerPublishesAfterDispute'
<1>1. assignments \in [Assignment -> AssignmentDoc \cup {NULL}] /\ doc # NULL
  BY AppraisalsAssumption DEF AppraisalsInv, AppraisalsTypeOK
<1>2. /\ assignments' \in [Assignment -> AssignmentDoc \cup {NULL}]
      /\ assignments'[g] = doc
      /\ \A h \in Assignment : h # g => assignments'[h] = assignments[h]
  BY <1>1
<1>3. AppraisalsGrow
  BY <1>1, <1>2 DEF AppraisalsGrow
<1>4. AppraisalDocsSound'
  <2>1. ASSUME NEW r \in AppraisalRecord, records[r] # NULL
        PROVE  records[r].rating \in ratedAs[r] /\ assignments'[records[r].assignment] # NULL
    <3>1. records[r] \in RecordDoc /\ assignments[records[r].assignment] # NULL
          /\ records[r].rating \in ratedAs[r]
      BY <2>1 DEF AppraisalsInv, AppraisalsTypeOK, AppraisalDocsSound, RecordExists
    <3> QED BY <3>1, <1>1, <1>2 DEF RecordDoc
  <2>2. ASSUME NEW h \in Assignment, assignments'[h] # NULL, assignments'[h].status = "IN_PROGRESS"
        PROVE  h \in reopened'
    BY <2>2, <1>2 DEF AppraisalsInv, AppraisalDocsSound
  <2>3. ASSUME NEW d \in AppraisalDispute, appraisalDisputes[d] # NULL
        PROVE  assignments'[appraisalDisputes[d].assignment] # NULL
    <3>1. appraisalDisputes[d] \in AppraisalDisputeDoc
          /\ assignments[appraisalDisputes[d].assignment] # NULL
      BY <2>3 DEF AppraisalsInv, AppraisalsTypeOK, AppraisalDocsSound
    <3> QED BY <3>1, <1>1, <1>2 DEF AppraisalDisputeDoc
  <2>4. \A r \in byManager : RecordExists(r)
    BY DEF AppraisalsInv, AppraisalDocsSound
  <2> QED BY <2>1, <2>2, <2>3, <2>4 DEF AppraisalDocsSound, RecordExists
<1>5. SuspendedWasRatedLow'
  BY <1>3, SuspensionsStay
<1>6. ManagerPublishesAfterDispute'
  BY DEF AppraisalsInv, ManagerPublishesAfterDispute
<1> QED BY <1>2, <1>3, <1>4, <1>5, <1>6

LEMMA AssignmentIsMade ==
    ASSUME AppraisalsInv, appraisalOps' \in 0..MaxAppraisalOps,
           NEW g \in Assignment, NEW e \in Appraisee, NEW t \in Template, BulkAssign(g, e, t)
    PROVE  AppraisalsInv'
<1>1. PICK doc \in AssignmentDoc :
        doc = [of |-> e, template |-> t, status |-> "NOT_STARTED", publishedAt |-> FALSE,
               latest |-> NULL]
  BY DEF AssignmentDoc, AssignmentStatus
<1>2. /\ assignments' \in [Assignment -> AssignmentDoc \cup {NULL}]
      /\ AppraisalsGrow /\ AppraisalDocsSound'
      /\ SuspendedWasRatedLow' /\ ManagerPublishesAfterDispute'
  BY <1>1, AssignmentIsWritten DEF BulkAssign, appraisalHistory
<1>3. AppraisalCallsSound'
  BY <1>2, AppraisalCallsStay DEF BulkAssign
<1>4. AppraisalsTypeOK'
  BY <1>2 DEF BulkAssign, AppraisalsInv, AppraisalsTypeOK, appraisalHistory
<1> QED BY <1>2, <1>3, <1>4 DEF AppraisalsInv

\* A handler writes an assignment and goes on.
LEMMA AssignmentIsWrittenBy ==
    ASSUME AppraisalsInv, appraisalOps' \in 0..MaxAppraisalOps,
           NEW g \in Assignment, NEW doc \in AssignmentDoc,
           assignments' = [assignments EXCEPT ![g] = doc],
           UNCHANGED <<records, appraisalDisputes, suspended, reviewed, ratedAs, byManager, checked>>,
           reopened \subseteq reopened', reopened' \subseteq Assignment,
           doc.status = "IN_PROGRESS" => g \in reopened',
           NEW a \in Agent, NEW next \in AppraisalCall \cup {NULL},
           AppraisalMoves(a, next), next # NULL => AppraisalCallSound(next)
    PROVE  AppraisalsInv'
<1>1. /\ assignments' \in [Assignment -> AssignmentDoc \cup {NULL}]
      /\ AppraisalsGrow /\ AppraisalDocsSound'
      /\ SuspendedWasRatedLow' /\ ManagerPublishesAfterDispute'
  BY AssignmentIsWritten
<1>2. next # NULL => AppraisalCallSound(next)'
  BY <1>1, AppraisalCallStays
<1>3. appraisalCalls' \in [Agent -> AppraisalCall \cup {NULL}] /\ AppraisalCallsSound'
  BY <1>1, <1>2, AppraisalCallsAfter
<1>4. AppraisalsTypeOK'
  BY <1>1, <1>3 DEF AppraisalsInv, AppraisalsTypeOK
<1> QED BY <1>1, <1>3, <1>4 DEF AppraisalsInv

\* The assignment of the record that a handler works on.
LEMMA AssignmentOfRecord ==
    ASSUME AppraisalsInv, NEW r \in AppraisalRecord, RecordExists(r)
    PROVE  /\ records[r].assignment \in Assignment
           /\ assignments[records[r].assignment] \in AssignmentDoc
<1>1. records[r] \in RecordDoc /\ assignments[records[r].assignment] # NULL
  BY DEF AppraisalsInv, AppraisalsTypeOK, AppraisalDocsSound, RecordExists
<1> QED BY <1>1 DEF AppraisalsInv, AppraisalsTypeOK, RecordDoc

LEMMA PublishedAssignment ==
    ASSUME AppraisalsInv, NEW g \in Assignment, assignments[g] \in AssignmentDoc
    PROVE  \E doc \in AssignmentDoc :
             /\ doc.status = "PUBLISHED"
             /\ [assignments EXCEPT ![g].status = "PUBLISHED", ![g].publishedAt = TRUE]
                  = [assignments EXCEPT ![g] = doc]
<1> DEFINE doc == [assignments[g] EXCEPT !.status = "PUBLISHED", !.publishedAt = TRUE]
<1>1. doc \in AssignmentDoc /\ doc.status = "PUBLISHED"
  BY DEF AssignmentDoc, AssignmentStatus
<1>2. assignments \in [Assignment -> AssignmentDoc \cup {NULL}]
  BY DEF AppraisalsInv, AppraisalsTypeOK
<1>3. [assignments EXCEPT ![g].status = "PUBLISHED", ![g].publishedAt = TRUE]
        = [assignments EXCEPT ![g] = doc]
  BY <1>2
<1> QED BY <1>1, <1>3

LEMMA SubmittedAssignment ==
    ASSUME AppraisalsInv, NEW g \in Assignment, assignments[g] \in AssignmentDoc,
           NEW r \in AppraisalRecord
    PROVE  \E doc \in AssignmentDoc :
             /\ doc.status = "SUBMITTED"
             /\ [assignments EXCEPT ![g].status = "SUBMITTED", ![g].latest = r]
                  = [assignments EXCEPT ![g] = doc]
<1> DEFINE doc == [assignments[g] EXCEPT !.status = "SUBMITTED", !.latest = r]
<1>1. doc \in AssignmentDoc /\ doc.status = "SUBMITTED"
  BY DEF AssignmentDoc, AssignmentStatus
<1>2. assignments \in [Assignment -> AssignmentDoc \cup {NULL}]
  BY DEF AppraisalsInv, AppraisalsTypeOK
<1>3. [assignments EXCEPT ![g].status = "SUBMITTED", ![g].latest = r]
        = [assignments EXCEPT ![g] = doc]
  BY <1>2
<1> QED BY <1>1, <1>3

LEMMA CreationReachesAssignment ==
    ASSUME AppraisalsInv, appraisalOps' \in 0..MaxAppraisalOps, NEW a \in Agent,
           CreateRecordAssignment(a)
    PROVE  AppraisalsInv'
<1>1. PICK call \in AppraisalCall :
        /\ call = appraisalCalls[a] /\ call.at = "create.assignment" /\ AppraisalCallSound(call)
        /\ call.record \in AppraisalRecord /\ RecordExists(call.record)
        /\ records[call.record] \in RecordDoc
  BY RecordCallOf DEF CreateRecordAssignment, RecordCalls
<1>2. PICK g \in Assignment : g = records[call.record].assignment /\ assignments[g] \in AssignmentDoc
  BY <1>1, AssignmentOfRecord
<1>3. PICK doc \in AssignmentDoc :
        doc.status = "SUBMITTED" /\ assignments' = [assignments EXCEPT ![g] = doc]
  <2>1. assignments' = [assignments EXCEPT ![g].status = "SUBMITTED", ![g].latest = call.record]
    BY <1>1, <1>2 DEF CreateRecordAssignment
  <2>2. \E doc \in AssignmentDoc :
          /\ doc.status = "SUBMITTED"
          /\ [assignments EXCEPT ![g].status = "SUBMITTED", ![g].latest = call.record]
               = [assignments EXCEPT ![g] = doc]
    BY <1>1, <1>2, SubmittedAssignment
  <2> QED BY <2>1, <2>2
<1>4. PICK next \in AppraisalCall : next = [at |-> "check.current", record |-> call.record]
  BY <1>1 DEF AppraisalCall
<1>5. AppraisalMoves(a, next) /\ AppraisalCallSound(next)
  BY <1>1, <1>4 DEF CreateRecordAssignment, GoOn, AppraisalMoves, Begin, AppraisalCallSound
<1>6. /\ UNCHANGED <<records, appraisalDisputes, suspended, reviewed, ratedAs, byManager, checked>>
      /\ reopened' = reopened /\ reopened \subseteq Assignment
  BY DEF CreateRecordAssignment, appraisalHistory, AppraisalsInv, AppraisalsTypeOK
<1> QED BY <1>3, <1>5, <1>6, AssignmentIsWrittenBy

LEMMA UpdateReachesAssignment ==
    ASSUME AppraisalsInv, appraisalOps' \in 0..MaxAppraisalOps, NEW a \in Agent,
           UpdateRecordAssignment(a)
    PROVE  AppraisalsInv'
<1>1. PICK call \in AppraisalCall :
        /\ call = appraisalCalls[a] /\ call.at = "update.assignment" /\ AppraisalCallSound(call)
        /\ call.record \in AppraisalRecord /\ RecordExists(call.record)
        /\ records[call.record] \in RecordDoc
  BY RecordCallOf DEF UpdateRecordAssignment, RecordCalls
<1>2. PICK g \in Assignment : g = records[call.record].assignment /\ assignments[g] \in AssignmentDoc
  BY <1>1, AssignmentOfRecord
<1>3. PICK doc \in AssignmentDoc :
        doc.status = "PUBLISHED" /\ assignments' = [assignments EXCEPT ![g] = doc]
  <2>1. assignments' = [assignments EXCEPT ![g].status = "PUBLISHED", ![g].publishedAt = TRUE]
    BY <1>1, <1>2 DEF UpdateRecordAssignment
  <2>2. \E doc \in AssignmentDoc :
          /\ doc.status = "PUBLISHED"
          /\ [assignments EXCEPT ![g].status = "PUBLISHED", ![g].publishedAt = TRUE]
               = [assignments EXCEPT ![g] = doc]
    BY <1>1, <1>2, PublishedAssignment
  <2> QED BY <2>1, <2>2
<1>4. PICK next \in AppraisalCall : next = [at |-> "check.current", record |-> call.record]
  BY <1>1 DEF AppraisalCall
<1>5. AppraisalMoves(a, next) /\ AppraisalCallSound(next)
  BY <1>1, <1>4 DEF UpdateRecordAssignment, GoOn, AppraisalMoves, Begin, AppraisalCallSound
<1>6. /\ UNCHANGED <<records, appraisalDisputes, suspended, reviewed, ratedAs, byManager, checked>>
      /\ reopened' = reopened /\ reopened \subseteq Assignment
  BY DEF UpdateRecordAssignment, appraisalHistory, AppraisalsInv, AppraisalsTypeOK
<1> QED BY <1>3, <1>5, <1>6, AssignmentIsWrittenBy

LEMMA PublicationReachesAssignment ==
    ASSUME AppraisalsInv, appraisalOps' \in 0..MaxAppraisalOps, NEW a \in Agent,
           PublishRecordAssignment(a)
    PROVE  AppraisalsInv'
<1>1. PICK call \in AppraisalCall :
        /\ call = appraisalCalls[a] /\ call.at = "publish.assignment" /\ AppraisalCallSound(call)
        /\ call.record \in AppraisalRecord /\ RecordExists(call.record)
        /\ records[call.record] \in RecordDoc
  BY RecordCallOf DEF PublishRecordAssignment, RecordCalls
<1>2. PICK g \in Assignment : g = records[call.record].assignment /\ assignments[g] \in AssignmentDoc
  BY <1>1, AssignmentOfRecord
<1>3. PICK doc \in AssignmentDoc :
        doc.status = "PUBLISHED" /\ assignments' = [assignments EXCEPT ![g] = doc]
  <2>1. assignments' = [assignments EXCEPT ![g].status = "PUBLISHED", ![g].publishedAt = TRUE]
    BY <1>1, <1>2 DEF PublishRecordAssignment
  <2>2. \E doc \in AssignmentDoc :
          /\ doc.status = "PUBLISHED"
          /\ [assignments EXCEPT ![g].status = "PUBLISHED", ![g].publishedAt = TRUE]
               = [assignments EXCEPT ![g] = doc]
    BY <1>1, <1>2, PublishedAssignment
  <2> QED BY <2>1, <2>2
<1>4. AppraisalMoves(a, NULL)
  BY DEF PublishRecordAssignment, AppraisalMoves, Finish
<1>5. /\ UNCHANGED <<records, appraisalDisputes, suspended, reviewed, ratedAs, byManager, checked>>
      /\ reopened' = reopened /\ reopened \subseteq Assignment
  BY DEF PublishRecordAssignment, appraisalHistory, AppraisalsInv, AppraisalsTypeOK
<1> QED BY <1>3, <1>4, <1>5, AssignmentIsWrittenBy

LEMMA DisputeReopensAssignment ==
    ASSUME AppraisalsInv, appraisalOps' \in 0..MaxAppraisalOps, NEW a \in Agent, ResolveReopen(a)
    PROVE  AppraisalsInv'
<1>1. PICK call \in AppraisalCall :
        call = appraisalCalls[a] /\ call.at = "resolve.reopen" /\ AppraisalCallSound(call)
  BY AppraisalCallOf DEF ResolveReopen, At
<1>2. PICK g \in Assignment : g = call.assignment /\ assignments[g] # NULL
  BY <1>1, AppraisalCallFields DEF AppraisalCallSound
<1>3. assignments \in [Assignment -> AssignmentDoc \cup {NULL}] /\ assignments[g] \in AssignmentDoc
  BY <1>2 DEF AppraisalsInv, AppraisalsTypeOK
<1>4. PICK doc \in AssignmentDoc : doc = [assignments[g] EXCEPT !.status = "IN_PROGRESS"]
  BY <1>3 DEF AssignmentDoc, AssignmentStatus
<1>5. assignments' = [assignments EXCEPT ![g] = doc]
  BY <1>1, <1>2, <1>3, <1>4 DEF ResolveReopen
<1>6. AppraisalMoves(a, NULL)
  BY DEF ResolveReopen, AppraisalMoves, Finish
<1>7. /\ UNCHANGED <<records, appraisalDisputes, suspended, reviewed, ratedAs, byManager, checked>>
      /\ reopened' = reopened \cup {g} /\ reopened' \subseteq Assignment
  BY <1>1, <1>2 DEF ResolveReopen, AppraisalsInv, AppraisalsTypeOK
<1> QED BY <1>5, <1>6, <1>7, AssignmentIsWrittenBy

-----------------------------------------------------------------------------
(* Steps that write a record or a dispute.                                 *)

LEMMA RecordIsWritten ==
    ASSUME AppraisalsInv, NEW r \in AppraisalRecord, NEW doc \in RecordDoc,
           records' = [records EXCEPT ![r] = doc],
           assignments[doc.assignment] # NULL,
           doc.rating \in ratedAs'[r],
           RecordExists(r) => /\ doc.assignment = records[r].assignment
                              /\ doc.of = records[r].of /\ doc.template = records[r].template,
           UNCHANGED <<assignments, appraisalDisputes, suspended, reopened>>,
           \A x \in AppraisalRecord : ratedAs[x] \subseteq ratedAs'[x],
           byManager' \subseteq byManager \cup {r},
           r \in byManager' => doc.assignment \in reopened
    PROVE  /\ records' \in [AppraisalRecord -> RecordDoc \cup {NULL}]
           /\ AppraisalsGrow /\ AppraisalDocsSound'
           /\ SuspendedWasRatedLow' /\ ManagerPublishesAfterDispute'
<1>1. records \in [AppraisalRecord -> RecordDoc \cup {NULL}] /\ doc # NULL
  BY AppraisalsAssumption DEF AppraisalsInv, AppraisalsTypeOK
<1>2. /\ records' \in [AppraisalRecord -> RecordDoc \cup {NULL}]
      /\ records'[r] = doc
      /\ \A x \in AppraisalRecord : x # r => records'[x] = records[x]
  BY <1>1
<1>3. AppraisalsGrow
  <2>1. ASSUME NEW x \in AppraisalRecord, records[x] # NULL
        PROVE  /\ records'[x] # NULL /\ records'[x].of = records[x].of
               /\ records'[x].template = records[x].template
               /\ records'[x].assignment = records[x].assignment
    BY <2>1, <1>1, <1>2 DEF RecordExists
  <2> QED BY <2>1 DEF AppraisalsGrow
<1>4. AppraisalDocsSound'
  <2>1. ASSUME NEW x \in AppraisalRecord, records'[x] # NULL
        PROVE  records'[x].rating \in ratedAs'[x] /\ assignments[records'[x].assignment] # NULL
    <3>1. CASE x = r
      BY <3>1, <1>2
    <3>2. CASE x # r
      BY <3>2, <2>1, <1>2 DEF AppraisalsInv, AppraisalDocsSound, RecordExists
    <3> QED BY <3>1, <3>2
  <2>2. \A x \in byManager' : records'[x] # NULL
    BY <1>1, <1>2 DEF AppraisalsInv, AppraisalsTypeOK, AppraisalDocsSound, RecordExists
  <2>3. /\ \A g \in Assignment :
             assignments[g] # NULL /\ assignments[g].status = "IN_PROGRESS" => g \in reopened
        /\ \A d \in AppraisalDispute :
             appraisalDisputes[d] # NULL => assignments[appraisalDisputes[d].assignment] # NULL
    BY DEF AppraisalsInv, AppraisalDocsSound
  <2> QED BY <2>1, <2>2, <2>3 DEF AppraisalDocsSound, RecordExists
<1>5. SuspendedWasRatedLow'
  BY <1>3, SuspensionsStay
<1>6. ManagerPublishesAfterDispute'
  <2>1. ASSUME NEW x \in byManager' PROVE records'[x].assignment \in reopened
    <3>1. CASE x = r
      BY <3>1, <2>1, <1>2
    <3>2. CASE x # r
      BY <3>2, <2>1, <1>2 DEF AppraisalsInv, AppraisalsTypeOK, ManagerPublishesAfterDispute
    <3> QED BY <3>1, <3>2
  <2> QED BY <2>1 DEF ManagerPublishesAfterDispute
<1> QED BY <1>2, <1>3, <1>4, <1>5, <1>6

LEMMA RatingsAreNoted ==
    ASSUME AppraisalsInv, NEW r \in AppraisalRecord, NEW rating \in Rating \cup {NULL},
           NoteRating(r, rating)
    PROVE  /\ ratedAs' \in [AppraisalRecord -> SUBSET (Rating \cup {NULL})]
           /\ rating \in ratedAs'[r]
           /\ \A x \in AppraisalRecord : ratedAs[x] \subseteq ratedAs'[x]
<1>1. ratedAs \in [AppraisalRecord -> SUBSET (Rating \cup {NULL})]
  BY DEF AppraisalsInv, AppraisalsTypeOK
<1> QED BY <1>1 DEF NoteRating

LEMMA RecordIsCreated ==
    ASSUME AppraisalsInv, appraisalOps' \in 0..MaxAppraisalOps, NEW a \in Agent,
           NEW r \in AppraisalRecord, NEW g \in Assignment, NEW rating \in Rating \cup {NULL},
           CreateRecord(a, r, g, rating)
    PROVE  AppraisalsInv'
<1>1. assignments[g] \in AssignmentDoc /\ assignments[g] # NULL
  BY DEF CreateRecord, AppraisalsInv, AppraisalsTypeOK
<1>2. PICK doc \in RecordDoc :
        doc = [assignment |-> g, of |-> assignments[g].of, template |-> assignments[g].template,
               rating |-> rating, status |-> "MANAGER_SUBMITTED"]
  BY <1>1 DEF AssignmentDoc, RecordDoc, RecordStatus
<1>3. r \notin byManager
  BY DEF CreateRecord, AppraisalsInv, AppraisalDocsSound
<1>4. /\ ratedAs' \in [AppraisalRecord -> SUBSET (Rating \cup {NULL})]
      /\ rating \in ratedAs'[r]
      /\ \A x \in AppraisalRecord : ratedAs[x] \subseteq ratedAs'[x]
  BY RatingsAreNoted DEF CreateRecord
<1>5. records' = [records EXCEPT ![r] = doc]
  BY <1>2 DEF CreateRecord
<1>6. /\ records' \in [AppraisalRecord -> RecordDoc \cup {NULL}]
      /\ AppraisalsGrow /\ AppraisalDocsSound'
      /\ SuspendedWasRatedLow' /\ ManagerPublishesAfterDispute'
  <2>1. /\ doc.assignment = g /\ doc.rating = rating /\ ~ RecordExists(r)
        /\ UNCHANGED <<assignments, appraisalDisputes, suspended, reopened, byManager>>
    BY <1>2 DEF CreateRecord
  <2> QED BY <1>1, <1>3, <1>4, <1>5, <2>1, RecordIsWritten
<1>7. PICK next \in AppraisalCall : next = [at |-> "create.assignment", record |-> r]
  BY DEF AppraisalCall
<1>8. AppraisalCallSound(next)'
  <2>1. records'[r] # NULL
    BY <1>2, <1>5, AppraisalsAssumption DEF AppraisalsInv, AppraisalsTypeOK
  <2> QED BY <1>7, <2>1 DEF AppraisalCallSound, RecordExists
<1>9. appraisalCalls' \in [Agent -> AppraisalCall \cup {NULL}] /\ AppraisalCallsSound'
  BY <1>6, <1>7, <1>8, AppraisalCallsAfter DEF CreateRecord, AppraisalMoves, Begin
<1>10. AppraisalsTypeOK'
  BY <1>4, <1>6, <1>9 DEF CreateRecord, AppraisalsInv, AppraisalsTypeOK
<1> QED BY <1>6, <1>9, <1>10 DEF AppraisalsInv

LEMMA RecordIsSaved ==
    ASSUME AppraisalsInv, appraisalOps' \in 0..MaxAppraisalOps, NEW a \in Agent, UpdateRecordSave(a)
    PROVE  AppraisalsInv'
<1>1. PICK call \in AppraisalCall :
        /\ call = appraisalCalls[a] /\ call.at = "update.save" /\ AppraisalCallSound(call)
        /\ call.record \in AppraisalRecord /\ RecordExists(call.record)
        /\ records[call.record] \in RecordDoc
  BY RecordCallOf DEF UpdateRecordSave, RecordCalls
<1>2. call.rating \in Rating \cup {NULL} /\ call.again \in BOOLEAN
  BY <1>1, AppraisalCallFields
<1>3. PICK r \in AppraisalRecord : r = call.record /\ RecordExists(r) /\ records[r] \in RecordDoc
  BY <1>1
<1>4. PICK doc \in RecordDoc :
        doc = [records[r] EXCEPT !.rating = call.rating,
                 !.status = IF call.again THEN "HR_PUBLISHED" ELSE "MANAGER_SUBMITTED"]
  BY <1>2, <1>3 DEF RecordDoc, RecordStatus
<1>5. /\ doc.assignment = records[r].assignment /\ doc.of = records[r].of
      /\ doc.template = records[r].template /\ doc.rating = call.rating
  BY <1>3, <1>4 DEF RecordDoc
<1>6. records' = [records EXCEPT ![r] = doc]
  <2>1. records \in [AppraisalRecord -> RecordDoc \cup {NULL}]
    BY DEF AppraisalsInv, AppraisalsTypeOK
  <2>2. records' = [records EXCEPT ![r].rating = call.rating,
                      ![r].status = IF call.again THEN "HR_PUBLISHED" ELSE "MANAGER_SUBMITTED"]
    BY <1>1, <1>3 DEF UpdateRecordSave
  <2> QED BY <1>4, <2>1, <2>2
<1>7. /\ ratedAs' \in [AppraisalRecord -> SUBSET (Rating \cup {NULL})]
      /\ call.rating \in ratedAs'[r]
      /\ \A x \in AppraisalRecord : ratedAs[x] \subseteq ratedAs'[x]
  BY <1>1, <1>2, <1>3, RatingsAreNoted DEF UpdateRecordSave
<1>8. /\ byManager' = IF call.again THEN byManager \cup {r} ELSE byManager
      /\ UNCHANGED <<assignments, appraisalDisputes, suspended, reviewed, reopened, checked>>
  BY <1>1, <1>3 DEF UpdateRecordSave
<1>9. r \in byManager' => doc.assignment \in reopened
  <2>1. call.again => records[r].assignment \in reopened
    BY <1>1, <1>3 DEF AppraisalCallSound
  <2>2. r \in byManager => records[r].assignment \in reopened
    BY DEF AppraisalsInv, ManagerPublishesAfterDispute
  <2> QED BY <1>5, <1>8, <2>1, <2>2
<1>10. assignments[doc.assignment] # NULL
  BY <1>3, <1>5 DEF AppraisalsInv, AppraisalDocsSound
<1>11. /\ records' \in [AppraisalRecord -> RecordDoc \cup {NULL}]
       /\ AppraisalsGrow /\ AppraisalDocsSound'
       /\ SuspendedWasRatedLow' /\ ManagerPublishesAfterDispute'
  <2>1. byManager' \subseteq byManager \cup {r}
    BY <1>2, <1>8
  <2> QED BY <1>5, <1>6, <1>7, <1>8, <1>9, <1>10, <2>1, RecordIsWritten
<1>12. PICK next \in AppraisalCall :
         next = [at |-> IF call.again THEN "update.assignment" ELSE "check.current", record |-> r]
  BY <1>2 DEF AppraisalCall
<1>13. AppraisalMoves(a, next)
  BY <1>1, <1>3, <1>12 DEF UpdateRecordSave, GoOn, AppraisalMoves, Begin
<1>14. AppraisalCallSound(next)'
  <2>1. records'[r] # NULL
    BY <1>3, <1>11 DEF AppraisalsGrow, RecordExists
  <2> QED BY <1>2, <1>12, <2>1 DEF AppraisalCallSound, RecordExists
<1>15. appraisalCalls' \in [Agent -> AppraisalCall \cup {NULL}] /\ AppraisalCallsSound'
  BY <1>11, <1>13, <1>14, AppraisalCallsAfter
<1>16. AppraisalsTypeOK'
  BY <1>2, <1>7, <1>8, <1>11, <1>15 DEF AppraisalsInv, AppraisalsTypeOK
<1> QED BY <1>11, <1>15, <1>16 DEF AppraisalsInv

LEMMA RecordIsPublished ==
    ASSUME AppraisalsInv, appraisalOps' \in 0..MaxAppraisalOps, NEW a \in Agent,
           NEW r \in AppraisalRecord, PublishRecord(a, r)
    PROVE  AppraisalsInv'
<1>1. RecordExists(r) /\ records[r] \in RecordDoc
  BY DEF PublishRecord, RecordExists, AppraisalsInv, AppraisalsTypeOK
<1>2. PICK doc \in RecordDoc : doc = [records[r] EXCEPT !.status = "HR_PUBLISHED"]
  BY <1>1 DEF RecordDoc, RecordStatus
<1>3. /\ doc.assignment = records[r].assignment /\ doc.of = records[r].of
      /\ doc.template = records[r].template /\ doc.rating = records[r].rating
  BY <1>1, <1>2 DEF RecordDoc
<1>4. records' = [records EXCEPT ![r] = doc]
  BY <1>2 DEF PublishRecord, AppraisalsInv, AppraisalsTypeOK
<1>5. UNCHANGED <<assignments, appraisalDisputes, suspended, reviewed, appraisalHistory>>
  BY DEF PublishRecord
<1>6. /\ assignments[doc.assignment] # NULL /\ doc.rating \in ratedAs[r]
      /\ r \in byManager => doc.assignment \in reopened
  BY <1>1, <1>3 DEF AppraisalsInv, AppraisalDocsSound, ManagerPublishesAfterDispute
<1>7. /\ records' \in [AppraisalRecord -> RecordDoc \cup {NULL}]
      /\ AppraisalsGrow /\ AppraisalDocsSound'
      /\ SuspendedWasRatedLow' /\ ManagerPublishesAfterDispute'
  BY <1>3, <1>4, <1>5, <1>6, RecordIsWritten DEF appraisalHistory
<1>8. PICK next \in AppraisalCall : next = [at |-> "publish.assignment", record |-> r]
  BY DEF AppraisalCall
<1>9. AppraisalCallSound(next)'
  <2>1. records'[r] # NULL
    BY <1>1, <1>7 DEF AppraisalsGrow, RecordExists
  <2> QED BY <1>8, <2>1 DEF AppraisalCallSound, RecordExists
<1>10. appraisalCalls' \in [Agent -> AppraisalCall \cup {NULL}] /\ AppraisalCallsSound'
  BY <1>7, <1>8, <1>9, AppraisalCallsAfter DEF PublishRecord, AppraisalMoves, Begin
<1>11. AppraisalsTypeOK'
  BY <1>5, <1>7, <1>10 DEF AppraisalsInv, AppraisalsTypeOK, appraisalHistory
<1> QED BY <1>7, <1>10, <1>11 DEF AppraisalsInv

LEMMA DisputeIsWritten ==
    ASSUME AppraisalsInv, NEW d \in AppraisalDispute, NEW doc \in AppraisalDisputeDoc,
           appraisalDisputes' = [appraisalDisputes EXCEPT ![d] = doc],
           assignments[doc.assignment] # NULL,
           UNCHANGED <<assignments, records, suspended, reviewed, appraisalHistory>>
    PROVE  /\ appraisalDisputes' \in [AppraisalDispute -> AppraisalDisputeDoc \cup {NULL}]
           /\ AppraisalsGrow /\ AppraisalDocsSound'
           /\ SuspendedWasRatedLow' /\ ManagerPublishesAfterDispute'
<1>1. appraisalDisputes \in [AppraisalDispute -> AppraisalDisputeDoc \cup {NULL}]
  BY DEF AppraisalsInv, AppraisalsTypeOK
<1>2. /\ appraisalDisputes' \in [AppraisalDispute -> AppraisalDisputeDoc \cup {NULL}]
      /\ \A x \in AppraisalDispute :
           appraisalDisputes'[x] = IF x = d THEN doc ELSE appraisalDisputes[x]
  BY <1>1
<1>3. AppraisalsGrow
  BY DEF AppraisalsGrow, appraisalHistory
<1>4. \A x \in AppraisalDispute :
        appraisalDisputes'[x] # NULL => assignments[appraisalDisputes'[x].assignment] # NULL
  BY <1>2 DEF AppraisalsInv, AppraisalDocsSound
<1>5. AppraisalDocsSound'
  BY <1>4 DEF AppraisalsInv, AppraisalDocsSound, RecordExists, appraisalHistory
<1>6. SuspendedWasRatedLow' /\ ManagerPublishesAfterDispute'
  BY <1>3, SuspensionsStay DEF AppraisalsInv, ManagerPublishesAfterDispute, appraisalHistory
<1> QED BY <1>2, <1>3, <1>5, <1>6

LEMMA DisputeIsOpened ==
    ASSUME AppraisalsInv, appraisalOps' \in 0..MaxAppraisalOps,
           NEW d \in AppraisalDispute, NEW g \in Assignment, CreateAppraisalDispute(d, g)
    PROVE  AppraisalsInv'
<1>1. PICK doc \in AppraisalDisputeDoc : doc = [assignment |-> g, status |-> "OPEN"]
  BY DEF AppraisalDisputeDoc, AppraisalDisputeStatus
<1>2. /\ appraisalDisputes' \in [AppraisalDispute -> AppraisalDisputeDoc \cup {NULL}]
      /\ AppraisalsGrow /\ AppraisalDocsSound'
      /\ SuspendedWasRatedLow' /\ ManagerPublishesAfterDispute'
  BY <1>1, DisputeIsWritten DEF CreateAppraisalDispute
<1>3. AppraisalCallsSound'
  BY <1>2, AppraisalCallsStay DEF CreateAppraisalDispute
<1>4. AppraisalsTypeOK'
  BY <1>2 DEF CreateAppraisalDispute, AppraisalsInv, AppraisalsTypeOK, appraisalHistory
<1> QED BY <1>2, <1>3, <1>4 DEF AppraisalsInv

LEMMA DisputeWithStatus ==
    ASSUME AppraisalsInv, NEW d \in AppraisalDispute, appraisalDisputes[d] # NULL,
           NEW status \in AppraisalDisputeStatus
    PROVE  \E doc \in AppraisalDisputeDoc :
             /\ assignments[doc.assignment] # NULL
             /\ [appraisalDisputes EXCEPT ![d].status = status] = [appraisalDisputes EXCEPT ![d] = doc]
<1> DEFINE doc == [appraisalDisputes[d] EXCEPT !.status = status]
<1>1. /\ appraisalDisputes \in [AppraisalDispute -> AppraisalDisputeDoc \cup {NULL}]
      /\ appraisalDisputes[d] \in AppraisalDisputeDoc
      /\ assignments[appraisalDisputes[d].assignment] # NULL
  BY DEF AppraisalsInv, AppraisalsTypeOK, AppraisalDocsSound
<1>2. doc \in AppraisalDisputeDoc /\ doc.assignment = appraisalDisputes[d].assignment
  BY <1>1 DEF AppraisalDisputeDoc
<1> QED BY <1>1, <1>2

LEMMA DisputeIsUpdated ==
    ASSUME AppraisalsInv, appraisalOps' \in 0..MaxAppraisalOps,
           NEW d \in AppraisalDispute, NEW status \in AppraisalDisputeStatus,
           UpdateAppraisalDispute(d, status)
    PROVE  AppraisalsInv'
<1>1. PICK doc \in AppraisalDisputeDoc :
        /\ assignments[doc.assignment] # NULL
        /\ appraisalDisputes' = [appraisalDisputes EXCEPT ![d] = doc]
  <2>1. /\ appraisalDisputes[d] # NULL
        /\ appraisalDisputes' = [appraisalDisputes EXCEPT ![d].status = status]
    BY DEF UpdateAppraisalDispute
  <2>2. \E doc \in AppraisalDisputeDoc :
          /\ assignments[doc.assignment] # NULL
          /\ [appraisalDisputes EXCEPT ![d].status = status] = [appraisalDisputes EXCEPT ![d] = doc]
    BY <2>1, DisputeWithStatus
  <2> QED BY <2>1, <2>2
<1>2. /\ appraisalDisputes' \in [AppraisalDispute -> AppraisalDisputeDoc \cup {NULL}]
      /\ AppraisalsGrow /\ AppraisalDocsSound'
      /\ SuspendedWasRatedLow' /\ ManagerPublishesAfterDispute'
  BY <1>1, DisputeIsWritten DEF UpdateAppraisalDispute
<1>3. AppraisalCallsSound'
  BY <1>2, AppraisalCallsStay DEF UpdateAppraisalDispute
<1>4. AppraisalsTypeOK'
  BY <1>2 DEF UpdateAppraisalDispute, AppraisalsInv, AppraisalsTypeOK, appraisalHistory
<1> QED BY <1>2, <1>3, <1>4 DEF AppraisalsInv

LEMMA DisputeIsResolved ==
    ASSUME AppraisalsInv, appraisalOps' \in 0..MaxAppraisalOps, NEW a \in Agent,
           NEW d \in AppraisalDispute, NEW status \in AppraisalDisputeStatus,
           ResolveAppraisalDispute(a, d, status)
    PROVE  AppraisalsInv'
<1>1. PICK doc \in AppraisalDisputeDoc :
        /\ assignments[doc.assignment] # NULL
        /\ appraisalDisputes' = [appraisalDisputes EXCEPT ![d] = doc]
  <2>1. /\ appraisalDisputes[d] # NULL
        /\ appraisalDisputes' = [appraisalDisputes EXCEPT ![d].status = status]
    BY DEF ResolveAppraisalDispute
  <2>2. \E doc \in AppraisalDisputeDoc :
          /\ assignments[doc.assignment] # NULL
          /\ [appraisalDisputes EXCEPT ![d].status = status] = [appraisalDisputes EXCEPT ![d] = doc]
    BY <2>1, DisputeWithStatus
  <2> QED BY <2>1, <2>2
<1>2. /\ appraisalDisputes' \in [AppraisalDispute -> AppraisalDisputeDoc \cup {NULL}]
      /\ AppraisalsGrow /\ AppraisalDocsSound'
      /\ SuspendedWasRatedLow' /\ ManagerPublishesAfterDispute'
  BY <1>1, DisputeIsWritten DEF ResolveAppraisalDispute
<1>3. appraisalCalls' \in [Agent -> AppraisalCall \cup {NULL}] /\ AppraisalCallsSound'
  <2>1. CASE status = "ADJUSTED"
    <3>1. PICK g \in Assignment : g = appraisalDisputes[d].assignment /\ assignments[g] # NULL
      BY DEF ResolveAppraisalDispute, AppraisalsInv, AppraisalsTypeOK, AppraisalDocsSound,
             AppraisalDisputeDoc
    <3>2. PICK next \in AppraisalCall : next = [at |-> "resolve.reopen", assignment |-> g]
      BY DEF AppraisalCall
    <3>3. AppraisalMoves(a, next)
      BY <2>1, <3>1, <3>2 DEF ResolveAppraisalDispute, AppraisalMoves, Begin
    <3>4. AppraisalCallSound(next)
      BY <3>1, <3>2 DEF AppraisalCallSound, RecordCalls
    <3>5. AppraisalCallSound(next)'
      BY <1>2, <3>4, AppraisalCallStays
    <3> QED BY <1>2, <3>3, <3>5, AppraisalCallsAfter
  <2>2. CASE status # "ADJUSTED"
    <3>1. appraisalCalls' = appraisalCalls
      BY <2>2 DEF ResolveAppraisalDispute
    <3> QED BY <1>2, <3>1, AppraisalCallsStay DEF AppraisalsInv, AppraisalsTypeOK
  <2> QED BY <2>1, <2>2
<1>4. AppraisalsTypeOK'
  BY <1>2, <1>3 DEF ResolveAppraisalDispute, AppraisalsInv, AppraisalsTypeOK, appraisalHistory
<1> QED BY <1>2, <1>3, <1>4 DEF AppraisalsInv

-----------------------------------------------------------------------------

LEMMA EmployeeIsSuspended ==
    ASSUME AppraisalsInv, appraisalOps' \in 0..MaxAppraisalOps, NEW a \in Agent, CheckSuspend(a)
    PROVE  AppraisalsInv'
<1>1. PICK call \in AppraisalCall :
        /\ call = appraisalCalls[a] /\ call.at = "check.suspend" /\ AppraisalCallSound(call)
        /\ call.record \in AppraisalRecord /\ RecordExists(call.record)
        /\ records[call.record] \in RecordDoc
  BY RecordCallOf DEF CheckSuspend, RecordCalls
<1>2. PICK e \in Appraisee : e = records[call.record].of /\ EnoughLow(e)
  BY <1>1 DEF AppraisalCallSound, RecordDoc
<1>3. suspended' \subseteq suspended \cup {e}
  BY <1>1, <1>2 DEF CheckSuspend
<1>4. UNCHANGED <<assignments, records, appraisalDisputes, reviewed, appraisalHistory>>
  BY DEF CheckSuspend
<1>5. AppraisalsGrow
  BY <1>4 DEF AppraisalsGrow, appraisalHistory
<1>6. SuspendedWasRatedLow'
  <2>1. ASSUME NEW x \in suspended' PROVE EnoughLow(x)'
    BY <1>2, <1>3, <1>5, EnoughStays DEF AppraisalsInv, SuspendedWasRatedLow, EnoughLow
  <2> QED BY <2>1 DEF SuspendedWasRatedLow, EnoughLow
<1>7. PICK next \in AppraisalCall : next = [at |-> "check.review", record |-> call.record]
  BY <1>1 DEF AppraisalCall
<1>8. AppraisalMoves(a, next)
  BY <1>1, <1>7 DEF CheckSuspend, GoOn, AppraisalMoves, Begin
<1>9. AppraisalCallSound(next)
  BY <1>1, <1>7 DEF AppraisalCallSound
<1>10. appraisalCalls' \in [Agent -> AppraisalCall \cup {NULL}] /\ AppraisalCallsSound'
  BY <1>5, <1>8, <1>9, AppraisalCallStays, AppraisalCallsAfter
<1>11. AppraisalsTypeOK'
  BY <1>3, <1>4, <1>10 DEF AppraisalsInv, AppraisalsTypeOK, appraisalHistory
<1>12. AppraisalDocsSound' /\ ManagerPublishesAfterDispute'
  BY <1>4 DEF AppraisalsInv, AppraisalDocsSound, ManagerPublishesAfterDispute, RecordExists,
              appraisalHistory
<1> QED BY <1>6, <1>10, <1>11, <1>12 DEF AppraisalsInv

LEMMA ReviewIsAsked ==
    ASSUME AppraisalsInv, appraisalOps' \in 0..MaxAppraisalOps, NEW a \in Agent, CheckReview(a)
    PROVE  AppraisalsInv'
<1>1. PICK call \in AppraisalCall :
        /\ call = appraisalCalls[a] /\ call.at = "check.review" /\ AppraisalCallSound(call)
        /\ call.record \in AppraisalRecord /\ RecordExists(call.record)
        /\ records[call.record] \in RecordDoc
  BY RecordCallOf DEF CheckReview, RecordCalls
<1>2. PICK e \in Appraisee : e = records[call.record].of
  BY <1>1 DEF RecordDoc
<1>3. checked' = checked \cup {e} /\ reviewed' \subseteq reviewed \cup Appraisee
  BY <1>1, <1>2 DEF CheckReview, InitiateTerminationReview
<1>4. UNCHANGED <<assignments, records, appraisalDisputes, suspended, ratedAs, reopened, byManager>>
  BY DEF CheckReview
<1>5. AppraisalsGrow
  BY <1>4 DEF AppraisalsGrow
<1>6. appraisalCalls' \in [Agent -> AppraisalCall \cup {NULL}] /\ AppraisalCallsSound'
  BY <1>5, AppraisalCallsAfter DEF CheckReview, AppraisalMoves, Finish
<1>7. AppraisalsTypeOK'
  BY <1>3, <1>4, <1>6 DEF AppraisalsInv, AppraisalsTypeOK
<1>8. AppraisalDocsSound' /\ ManagerPublishesAfterDispute'
  BY <1>4 DEF AppraisalsInv, AppraisalDocsSound, ManagerPublishesAfterDispute, RecordExists
<1>9. SuspendedWasRatedLow'
  BY <1>4, <1>5, SuspensionsStay
<1> QED BY <1>6, <1>7, <1>8, <1>9 DEF AppraisalsInv

-----------------------------------------------------------------------------

LEMMA AppraisalsStep == AppraisalsInv /\ [AppraisalsNext]_appraisalVars => AppraisalsInv'
<1> SUFFICES ASSUME AppraisalsInv, [AppraisalsNext]_appraisalVars PROVE AppraisalsInv'
  OBVIOUS
<1>1. CASE UNCHANGED appraisalVars
  <2>1. AppraisalsGrow /\ AppraisalCallsSound'
    BY <1>1, AppraisalCallsStay DEF AppraisalsGrow, appraisalVars
  <2>2. AppraisalsTypeOK' /\ AppraisalDocsSound' /\ ManagerPublishesAfterDispute'
    BY <1>1 DEF appraisalVars, AppraisalsInv, AppraisalsTypeOK, AppraisalDocsSound,
                ManagerPublishesAfterDispute, RecordExists
  <2>3. SuspendedWasRatedLow'
    BY <1>1, <2>1, SuspensionsStay DEF appraisalVars
  <2> QED BY <2>1, <2>2, <2>3 DEF AppraisalsInv
<1>2. CASE /\ appraisalOps < MaxAppraisalOps
           /\ appraisalOps' = appraisalOps + 1
           /\ RequestAppraisal
  <2>1. appraisalOps' \in 0..MaxAppraisalOps
    BY <1>2, AppraisalsAssumption DEF AppraisalsInv, AppraisalsTypeOK
  <2>2. ASSUME NEW g \in Assignment, NEW e \in Appraisee, NEW t \in Template, BulkAssign(g, e, t)
        PROVE  AppraisalsInv'
    BY <2>1, <2>2, AssignmentIsMade
  <2>3. ASSUME NEW d \in AppraisalDispute, NEW g \in Assignment, CreateAppraisalDispute(d, g)
        PROVE  AppraisalsInv'
    BY <2>1, <2>3, DisputeIsOpened
  <2>4. ASSUME NEW d \in AppraisalDispute, NEW status \in AppraisalDisputeStatus,
               UpdateAppraisalDispute(d, status)
        PROVE  AppraisalsInv'
    BY <2>1, <2>4, DisputeIsUpdated
  <2>5. ASSUME NEW a \in Agent, NEW r \in AppraisalRecord, NEW g \in Assignment,
               NEW rating \in Rating \cup {NULL}, CreateRecord(a, r, g, rating)
        PROVE  AppraisalsInv'
    BY <2>1, <2>5, RecordIsCreated
  <2>6. ASSUME NEW a \in Agent, NEW r \in AppraisalRecord, NEW rating \in Rating \cup {NULL},
               UpdateRecord(a, r, rating)
        PROVE  AppraisalsInv'
    BY <2>1, <2>6, AppraisalUpdates
  <2>7. ASSUME NEW a \in Agent, NEW r \in AppraisalRecord, PublishRecord(a, r)
        PROVE  AppraisalsInv'
    BY <2>1, <2>7, RecordIsPublished
  <2>8. ASSUME NEW a \in Agent, NEW d \in AppraisalDispute, NEW status \in AppraisalDisputeStatus,
               ResolveAppraisalDispute(a, d, status)
        PROVE  AppraisalsInv'
    BY <2>1, <2>8, DisputeIsResolved
  <2> QED BY <1>2, <2>2, <2>3, <2>4, <2>5, <2>6, <2>7, <2>8 DEF RequestAppraisal
<1>3. CASE appraisalOps' = appraisalOps /\ \E a \in Agent : AppraisalStep(a)
  <2>1. appraisalOps' \in 0..MaxAppraisalOps
    BY <1>3 DEF AppraisalsInv, AppraisalsTypeOK
  <2>2. PICK a \in Agent : AppraisalStep(a)
    BY <1>3
  <2>3. CASE CreateRecordAssignment(a) BY <2>1, <2>3, CreationReachesAssignment
  <2>4. CASE UpdateRecordSave(a) BY <2>1, <2>4, RecordIsSaved
  <2>5. CASE UpdateRecordAssignment(a) BY <2>1, <2>5, UpdateReachesAssignment
  <2>6. CASE PublishRecordAssignment(a) BY <2>1, <2>6, PublicationReachesAssignment
  <2>7. CASE CheckCurrent(a) BY <2>1, <2>7, CurrentIsChecked
  <2>8. CASE CheckOthers(a) BY <2>1, <2>8, OthersAreChecked
  <2>9. CASE CheckSuspend(a) BY <2>1, <2>9, EmployeeIsSuspended
  <2>10. CASE CheckReview(a) BY <2>1, <2>10, ReviewIsAsked
  <2>11. CASE ResolveReopen(a) BY <2>1, <2>11, DisputeReopensAssignment
  <2>12. CASE AppraisalCallFails(a) BY <2>1, <2>12, AppraisalFails
  <2> QED BY <2>2, <2>3, <2>4, <2>5, <2>6, <2>7, <2>8, <2>9, <2>10, <2>11, <2>12 DEF AppraisalStep
<1> QED BY <1>1, <1>2, <1>3 DEF AppraisalsNext

\* In every reachable state of the appraisals the invariant holds: what a
\* handler carries fits the documents, and the histories justify them.
THEOREM AppraisalsInvariant == AppraisalsSpec => []AppraisalsInv
BY AppraisalsInitially, AppraisalsStep, PTL DEF AppraisalsSpec

\* Every appraisal document, call in flight and history has its type.
THEOREM AppraisalsTypeCorrect == AppraisalsSpec => []AppraisalsTypeOK
<1>1. AppraisalsInv => AppraisalsTypeOK
  BY DEF AppraisalsInv
<1> QED BY <1>1, AppraisalsInvariant, PTL

\* An employee is suspended only for Threshold different appraisals that were
\* rated at the minimum of one template.
THEOREM SuspensionsAreEarned == AppraisalsSpec => []SuspendedWasRatedLow
<1>1. AppraisalsInv => SuspendedWasRatedLow
  BY DEF AppraisalsInv
<1> QED BY <1>1, AppraisalsInvariant, PTL

\* A manager's update publishes a record only of an assignment that an
\* adjusted dispute had reopened.
THEOREM ManagersPublishReopened == AppraisalsSpec => []ManagerPublishesAfterDispute
<1>1. AppraisalsInv => ManagerPublishesAfterDispute
  BY DEF AppraisalsInv
<1> QED BY <1>1, AppraisalsInvariant, PTL

-----------------------------------------------------------------------------
(* Reporting lines.                                                        *)

\* What a position may report to: not itself, and a head of its departments.
MayReportTo(p, h) == h = NULL \/ (h # p /\ WasAbove(h, p))

LinePostKnown(p) == \E u \in Unit : <<p, u>> \in wasIn

\* What a handler in flight carries fits the documents and their past.
LineCallSound(call) ==
    /\ call.at = "insert" =>
         call.unit \in Unit /\ (call.above # NULL => <<call.unit, call.above>> \in headed)
    /\ call.at # "insert" =>
         call.post \in Post /\ LinePostKnown(call.post) /\ MayReportTo(call.post, call.read)
    /\ call.at \in {"unit", "hold.head", "hold.profile"} => call.for # "move"
    /\ call.at \in {"head", "save"} =>
         call.unit \in Unit /\ (call.for = "move" \/ <<call.post, call.unit>> \in wasIn)
    /\ call.at = "hold.head" => call.unit \in Unit /\ <<call.post, call.unit>> \in wasIn
    /\ call.at = "save" /\ call.above # NULL =>
         call.above # call.post /\ <<call.unit, call.above>> \in headed
    /\ call.at \in {"propagate", "assign.profile", "hold.profile"} =>
         MayReportTo(call.post, call.above)
    /\ call.at \in {"assign.profile", "hold.head", "hold.profile"} \/ call.for = "assign" =>
         call.who \in Staff

LineCallsSound == \A a \in Agent : lineCalls[a] # NULL => LineCallSound(lineCalls[a])

PostsSound ==
    \A p \in Post :
      posts[p] # NULL =>
        <<p, posts[p].unit>> \in wasIn /\ MayReportTo(p, posts[p].reportsTo)

\* A head is one of the past heads, and they were positions.
HeadsSound ==
    /\ \A u \in Unit : heads[u] # NULL => <<u, heads[u]>> \in headed
    /\ \A u \in Unit, h \in Post : <<u, h>> \in headed => LinePostKnown(h)

HoldingsSound == \A e \in Staff : staff[e].post # NULL => <<e, staff[e].post>> \in held

LinesInv ==
    /\ LinesTypeOK
    /\ LineCallsSound
    /\ PostsSound
    /\ HeadsSound
    /\ HoldingsSound
    /\ SupervisorWasHead

-----------------------------------------------------------------------------

THEOREM LinesInitially == LinesInit => LinesInv
<1> SUFFICES ASSUME LinesInit PROVE LinesInv
  OBVIOUS
<1>1. LinesTypeOK
  BY ReportingLinesAssumption DEF LinesInit, LinesTypeOK, StaffDoc, MaybePost
<1>2. LineCallsSound /\ PostsSound /\ HeadsSound /\ HoldingsSound /\ SupervisorWasHead
  BY DEF LinesInit, LineCallsSound, PostsSound, HeadsSound, HoldingsSound, SupervisorWasHead
<1> QED BY <1>1, <1>2 DEF LinesInv

-----------------------------------------------------------------------------
(* What steps have in common.                                              *)

LineGrows == wasIn \subseteq wasIn' /\ headed \subseteq headed' /\ held \subseteq held'

LineMoves(a, next) == lineCalls' = [lineCalls EXCEPT ![a] = next]

LEMMA MayReportStays ==
    ASSUME LineGrows, NEW p, NEW h, MayReportTo(p, h)
    PROVE  MayReportTo(p, h)'
BY DEF LineGrows, MayReportTo, WasAbove

LEMMA LineSoundStays ==
    ASSUME NEW call, LineCallSound(call), LineGrows
    PROVE  LineCallSound(call)'
<1>1. /\ MayReportTo(call.post, call.read) => MayReportTo(call.post, call.read)'
      /\ MayReportTo(call.post, call.above) => MayReportTo(call.post, call.above)'
      /\ LinePostKnown(call.post) => LinePostKnown(call.post)'
  BY MayReportStays DEF LineGrows, LinePostKnown
<1> QED BY <1>1 DEF LineCallSound, LineGrows

LEMMA LineCallOf ==
    ASSUME LinesInv, NEW a \in Agent, lineCalls[a] # NULL
    PROVE  lineCalls[a] \in LineCall /\ LineCallSound(lineCalls[a])
BY DEF LinesInv, LinesTypeOK, LineCallsSound

LEMMA LineCallsAfter ==
    ASSUME LinesInv, NEW a \in Agent, NEW next \in LineCall \cup {NULL}, LineMoves(a, next),
           next # NULL => LineCallSound(next)', LineGrows
    PROVE  lineCalls' \in [Agent -> LineCall \cup {NULL}] /\ LineCallsSound'
<1>1. lineCalls \in [Agent -> LineCall \cup {NULL}]
  BY DEF LinesInv, LinesTypeOK
<1>2. /\ lineCalls' \in [Agent -> LineCall \cup {NULL}]
      /\ \A b \in Agent : lineCalls'[b] = IF b = a THEN next ELSE lineCalls[b]
  BY <1>1 DEF LineMoves
<1>3. ASSUME NEW b \in Agent, b # a, lineCalls[b] # NULL PROVE LineCallSound(lineCalls[b])'
  <2>1. LineCallSound(lineCalls[b]) /\ lineCalls'[b] = lineCalls[b]
    BY <1>2, <1>3, LineCallOf
  <2> QED BY <2>1, LineSoundStays DEF LineCallSound
<1>4. next # NULL => LineCallSound(lineCalls[a])'
  BY <1>2 DEF LineCallSound
<1> QED BY <1>2, <1>3, <1>4 DEF LineCallsSound

LEMMA LineCallsStay ==
    ASSUME LinesInv, lineCalls' = lineCalls, LineGrows
    PROVE  LineCallsSound'
<1>1. ASSUME NEW b \in Agent, lineCalls[b] # NULL PROVE LineCallSound(lineCalls[b])'
  <2>1. LineCallSound(lineCalls[b]) /\ lineCalls'[b] = lineCalls[b]
    BY <1>1, LineCallOf
  <2> QED BY <2>1, LineSoundStays DEF LineCallSound
<1> QED BY <1>1 DEF LineCallsSound

\* Supervisors that stay, or are of a position that is held, are heads of the past.
LEMMA SupervisorsAfter ==
    ASSUME LinesInv, LineGrows,
           \A e \in Staff :
             \/ staff'[e].supervisor \in {staff[e].supervisor, NULL}
             \/ \E p \in Post : <<e, p>> \in held' /\ MayReportTo(p, staff[e].supervisor)'
    PROVE  SupervisorWasHead'
<1>1. ASSUME NEW e \in Staff, staff'[e].supervisor # NULL
      PROVE  \E p \in Post : <<e, p>> \in held' /\ WasAbove(staff[e].supervisor, p)'
  <2>1. CASE staff'[e].supervisor = staff[e].supervisor
    BY <1>1, <2>1 DEF LinesInv, SupervisorWasHead, WasAbove, LineGrows
  <2>2. CASE \E p \in Post : <<e, p>> \in held' /\ MayReportTo(p, staff[e].supervisor)'
    BY <1>1, <2>2 DEF MayReportTo
  <2> QED BY <1>1, <2>1, <2>2
<1> QED BY <1>1 DEF SupervisorWasHead

\* A step that moves one call and changes no document.
LEMMA LineCallsOnly ==
    ASSUME LinesInv, NEW a \in Agent, NEW next \in LineCall \cup {NULL}, LineMoves(a, next),
           next # NULL => LineCallSound(next), UNCHANGED lineDocs, lineOps' \in 0..MaxLineOps
    PROVE  LinesInv'
<1>1. /\ posts' = posts /\ heads' = heads /\ staff' = staff /\ onStaff' = onStaff
      /\ wasIn' = wasIn /\ headed' = headed /\ held' = held
  BY DEF lineDocs
<1>2. LineGrows
  BY <1>1 DEF LineGrows
<1>3. next # NULL => LineCallSound(next)'
  BY <1>2, LineSoundStays
<1>4. lineCalls' \in [Agent -> LineCall \cup {NULL}] /\ LineCallsSound'
  BY <1>2, <1>3, LineCallsAfter
<1>5. LinesTypeOK'
  BY <1>1, <1>4 DEF LinesInv, LinesTypeOK
<1>6. PostsSound' /\ HeadsSound' /\ HoldingsSound' /\ SupervisorWasHead'
  BY <1>1 DEF LinesInv, PostsSound, HeadsSound, HoldingsSound, SupervisorWasHead, MayReportTo,
              WasAbove, LinePostKnown
<1> QED BY <1>4, <1>5, <1>6 DEF LinesInv

LEMMA LineStarts ==
    ASSUME LinesInv, NEW a \in Agent, NEW call \in LineCall, Starts(a, call),
           LineCallSound(call), lineOps' \in 0..MaxLineOps
    PROVE  LinesInv'
<1>1. LineMoves(a, call) /\ UNCHANGED lineDocs
  BY DEF LineMoves, Begin, Starts
<1> QED BY <1>1, LineCallsOnly

-----------------------------------------------------------------------------
(* Requests.                                                               *)

LEMMA PresentPost ==
    ASSUME LinesInv, NEW p \in Post, Present(p)
    PROVE  /\ posts[p] \in PostDoc /\ posts[p].unit \in Unit /\ posts[p].reportsTo \in MaybePost
           /\ <<p, posts[p].unit>> \in wasIn /\ LinePostKnown(p)
           /\ MayReportTo(p, posts[p].reportsTo)
<1>1. posts[p] \in PostDoc
  BY DEF LinesInv, LinesTypeOK, Present
<1>2. posts[p].unit \in Unit /\ posts[p].reportsTo \in MaybePost
  BY <1>1 DEF PostDoc
<1>3. <<p, posts[p].unit>> \in wasIn /\ MayReportTo(p, posts[p].reportsTo)
  BY DEF LinesInv, PostsSound, Present
<1> QED BY <1>1, <1>2, <1>3 DEF LinePostKnown

\* The call that a request for a position begins with.
LEMMA LineCallBegun ==
    ASSUME LinesInv, NEW p \in Post, Present(p), NEW e \in Staff \cup {NULL},
           NEW u \in Unit \cup {NULL}, NEW above \in MaybePost,
           NEW where \in {"unit", "head", "assign.profile", "hold.head", "hold.profile", "remove.unset"},
           NEW purpose \in {"update", "move", "deactivate", "assign", "hold", "remove"},
           where = "head" => purpose = "move",
           where \in {"unit", "hold.head", "hold.profile"} => purpose # "move",
           where \in {"head", "hold.head"} => u # NULL,
           where = "hold.head" => <<p, u>> \in wasIn,
           where \in {"assign.profile", "hold.profile"} => MayReportTo(p, above),
           where \in {"assign.profile", "hold.head", "hold.profile"} \/ purpose = "assign" => e # NULL,
           NEW a \in Agent, Starts(a, Call(where, purpose, p, e, u, above)),
           lineOps' \in 0..MaxLineOps
    PROVE  LinesInv'
<1> DEFINE call == Call(where, purpose, p, e, u, above)
<1>1. /\ call.at = where /\ call.for = purpose /\ call.post = p /\ call.who = e
      /\ call.unit = u /\ call.read = posts[p].reportsTo /\ call.above = above
  BY DEF Call
<1>2. posts[p].reportsTo \in MaybePost /\ LinePostKnown(p) /\ MayReportTo(p, posts[p].reportsTo)
  BY PresentPost
<1>3. call \in LineCall
  BY <1>2 DEF Call, LineCall, MaybePost
<1> HIDE DEF call
<1>4. LineCallSound(call)
  BY <1>1, <1>2 DEF LineCallSound
<1> QED BY <1>3, <1>4, LineStarts DEF call

LEMMA CreatePostStep ==
    ASSUME LinesInv, NEW a \in Agent, NEW u \in Unit, CreatePost(a, u), lineOps' \in 0..MaxLineOps
    PROVE  LinesInv'
<1> DEFINE call == [at |-> "insert", for |-> "create", post |-> NULL, who |-> NULL, unit |-> u,
                    read |-> NULL, above |-> heads[u]]
<1>1. heads[u] \in MaybePost /\ (heads[u] # NULL => <<u, heads[u]>> \in headed)
  BY DEF LinesInv, LinesTypeOK, HeadsSound
<1>2. call \in LineCall
  BY <1>1 DEF LineCall, MaybePost
<1>3. LineCallSound(call)
  BY <1>1 DEF LineCallSound
<1>4. Starts(a, call)
  BY DEF CreatePost
<1> HIDE DEF call
<1> QED BY <1>2, <1>3, <1>4, LineStarts

LEMMA PostRequestStep ==
    ASSUME LinesInv, NEW a \in Agent, NEW p \in Post, NEW to \in Unit \cup {NULL},
           NEW e \in Staff \cup {NULL},
           \/ UpdatePost(a, p, to) \/ DeactivatePost(a, p) \/ RemovePost(a, p)
           \/ e # NULL /\ (AssignPost(a, e, p) \/ HoldPost(a, e, p)),
           lineOps' \in 0..MaxLineOps
    PROVE  LinesInv'
<1>1. Present(p)
  BY DEF UpdatePost, DeactivatePost, RemovePost, AssignPost, HoldPost
<1>2. /\ posts[p].unit \in Unit /\ <<p, posts[p].unit>> \in wasIn
      /\ posts[p].reportsTo \in MaybePost /\ MayReportTo(p, posts[p].reportsTo)
  BY <1>1, PresentPost
<1>3. NULL \in MaybePost /\ posts[p].unit # NULL
  BY <1>2, ReportingLinesAssumption DEF MaybePost
<1>4. CASE UpdatePost(a, p, to)
  <2>1. \/ Starts(a, Call("unit", "update", p, NULL, NULL, NULL))
        \/ to # NULL /\ Starts(a, Call("head", "move", p, NULL, to, NULL))
    BY <1>4 DEF UpdatePost
  <2>2. CASE Starts(a, Call("unit", "update", p, NULL, NULL, NULL))
    BY <1>1, <1>3, <2>2, LineCallBegun
  <2>3. CASE to # NULL /\ Starts(a, Call("head", "move", p, NULL, to, NULL))
    BY <1>1, <1>3, <2>3, LineCallBegun
  <2> QED BY <2>1, <2>2, <2>3
<1>5. CASE DeactivatePost(a, p)
  <2>1. Starts(a, Call("unit", "deactivate", p, NULL, NULL, NULL))
    BY <1>5 DEF DeactivatePost
  <2> QED BY <1>1, <1>3, <2>1, LineCallBegun
<1>6. CASE RemovePost(a, p)
  <2>1. Starts(a, Call("remove.unset", "remove", p, NULL, NULL, NULL))
    BY <1>6 DEF RemovePost
  <2> QED BY <1>1, <1>3, <2>1, LineCallBegun
<1>7. CASE e # NULL /\ AssignPost(a, e, p)
  <2>1. \/ Starts(a, Call("assign.profile", "assign", p, e, NULL, posts[p].reportsTo))
        \/ Starts(a, Call("unit", "assign", p, e, NULL, NULL))
    BY <1>7 DEF AssignPost
  <2>2. CASE Starts(a, Call("assign.profile", "assign", p, e, NULL, posts[p].reportsTo))
    BY <1>1, <1>2, <1>3, <1>7, <2>2, LineCallBegun
  <2>3. CASE Starts(a, Call("unit", "assign", p, e, NULL, NULL))
    BY <1>1, <1>3, <1>7, <2>3, LineCallBegun
  <2> QED BY <2>1, <2>2, <2>3
<1>8. CASE e # NULL /\ HoldPost(a, e, p)
  <2>1. \/ Starts(a, Call("hold.head", "hold", p, e, posts[p].unit, NULL))
        \/ Starts(a, Call("hold.profile", "hold", p, e, NULL, posts[p].reportsTo))
    BY <1>8 DEF HoldPost
  <2>2. CASE Starts(a, Call("hold.head", "hold", p, e, posts[p].unit, NULL))
    BY <1>1, <1>2, <1>3, <1>8, <2>2, LineCallBegun
  <2>3. CASE Starts(a, Call("hold.profile", "hold", p, e, NULL, posts[p].reportsTo))
    BY <1>1, <1>2, <1>3, <1>8, <2>3, LineCallBegun
  <2> QED BY <2>1, <2>2, <2>3
<1> QED BY <1>4, <1>5, <1>6, <1>7, <1>8

LEMMA UpdateUnitStep ==
    ASSUME LinesInv, NEW u \in Unit, NEW p \in MaybePost, UpdateUnit(u, p), lineOps' \in 0..MaxLineOps
    PROVE  LinesInv'
<1>1. /\ heads' = [heads EXCEPT ![u] = p]
      /\ headed' = IF p = NULL THEN headed ELSE headed \cup {<<u, p>>}
      /\ posts' = posts /\ staff' = staff /\ onStaff' = onStaff /\ lineCalls' = lineCalls
      /\ wasIn' = wasIn /\ held' = held
      /\ p # NULL => Present(p)
  BY DEF UpdateUnit
<1>2. LineGrows
  BY <1>1 DEF LineGrows
<1>3. LineCallsSound'
  BY <1>1, <1>2, LineCallsStay
<1>4. heads \in [Unit -> MaybePost] /\ headed \subseteq Unit \X Post
  BY DEF LinesInv, LinesTypeOK
<1>5. heads' \in [Unit -> MaybePost] /\ headed' \subseteq Unit \X Post
  BY <1>1, <1>4 DEF MaybePost
<1>6. LinesTypeOK'
  BY <1>1, <1>5 DEF LinesInv, LinesTypeOK
<1>7. p # NULL => p \in Post /\ LinePostKnown(p)
  BY <1>1, PresentPost DEF MaybePost
<1>8. HeadsSound'
  <2>1. \A v \in Unit : heads'[v] # NULL => <<v, heads'[v]>> \in headed'
    BY <1>1, <1>4 DEF LinesInv, HeadsSound
  <2>2. \A v \in Unit, h \in Post : <<v, h>> \in headed' => LinePostKnown(h)
    BY <1>1, <1>7 DEF LinesInv, HeadsSound
  <2> QED BY <1>1, <2>1, <2>2 DEF HeadsSound, LinePostKnown
<1>9. PostsSound'
  <2>1. ASSUME NEW q \in Post, posts[q] # NULL
        PROVE  <<q, posts[q].unit>> \in wasIn' /\ MayReportTo(q, posts[q].reportsTo)'
    <3>1. MayReportTo(q, posts[q].reportsTo) /\ <<q, posts[q].unit>> \in wasIn
      BY <2>1 DEF LinesInv, PostsSound
    <3> QED BY <1>1, <1>2, <3>1 DEF MayReportTo, WasAbove, LineGrows
  <2> QED BY <1>1, <2>1 DEF PostsSound
<1>10. SupervisorWasHead'
  BY <1>1, <1>2, SupervisorsAfter
<1>11. HoldingsSound'
  BY <1>1 DEF LinesInv, HoldingsSound
<1> QED BY <1>3, <1>6, <1>8, <1>9, <1>10, <1>11 DEF LinesInv

-----------------------------------------------------------------------------
(* Steps of a handler in flight.                                           *)

\* A call that goes on keeps its purpose, position, holder and what it read.
LineGoesOn(call, next) ==
    /\ next.for = call.for /\ next.post = call.post
    /\ next.who = call.who /\ next.read = call.read

LEMMA ProceedsSound ==
    ASSUME LinesInv, NEW a \in Agent, lineCalls[a] # NULL, lineCalls[a].at \in {"unit", "save"}
    PROVE  /\ Proceeds(lineCalls[a]) \in LineCall \cup {NULL}
           /\ Proceeds(lineCalls[a]) # NULL => LineCallSound(Proceeds(lineCalls[a]))
<1> DEFINE call == lineCalls[a]
           next == [call EXCEPT !.at = "assign.profile", !.above = call.read]
<1>1. call \in LineCall /\ LineCallSound(call)
  BY LineCallOf
<1>2. next \in LineCall /\ next.at = "assign.profile" /\ next.above = call.read /\ LineGoesOn(call, next)
  BY <1>1 DEF LineCall, LineGoesOn
<1>3. Proceeds(call) = IF call.for = "assign" THEN next ELSE NULL
  BY DEF Proceeds
<1>4. call.at # "insert"
  OBVIOUS
<1> HIDE DEF call, next
<1>5. call.for = "assign" => LineCallSound(next)
  BY <1>1, <1>2, <1>4 DEF LineCallSound, LineGoesOn
<1>6. Proceeds(call) \in LineCall \cup {NULL} /\ (Proceeds(call) # NULL => LineCallSound(Proceeds(call)))
  BY <1>2, <1>3, <1>5
<1> QED BY <1>6 DEF call

LEMMA HookReadUnitStep ==
    ASSUME LinesInv, NEW a \in Agent, HookReadUnit(a), lineOps' \in 0..MaxLineOps
    PROVE  LinesInv'
<1> DEFINE call == lineCalls[a]
           next == [call EXCEPT !.at = "head", !.unit = posts[call.post].unit]
<1>1. lineCalls[a] # NULL /\ call.at = "unit" /\ UNCHANGED lineDocs
  BY DEF HookReadUnit, At
<1>2. call \in LineCall /\ LineCallSound(call)
  BY <1>1, LineCallOf
<1>3. call.post \in Post /\ call.for # "move"
  BY <1>1, <1>2 DEF LineCallSound
<1>4. LineMoves(a, IF Present(call.post) THEN next ELSE Proceeds(call))
  BY DEF HookReadUnit, LineMoves, Begin
<1>5. CASE Present(call.post)
  <2>1. posts[call.post].unit \in Unit /\ <<call.post, posts[call.post].unit>> \in wasIn
    BY <1>3, <1>5, PresentPost
  <2>2. /\ next \in LineCall /\ next.at = "head" /\ next.unit = posts[call.post].unit
        /\ LineGoesOn(call, next)
    BY <1>2, <2>1 DEF LineCall, LineGoesOn
  <2>3. LineMoves(a, next)
    BY <1>4, <1>5
  <2> HIDE DEF call, next
  <2>4. LineCallSound(next)
    BY <1>1, <1>2, <2>1, <2>2 DEF LineCallSound, LineGoesOn
  <2> QED BY <1>1, <2>2, <2>3, <2>4, LineCallsOnly
<1>6. CASE ~ Present(call.post)
  <2>1. LineMoves(a, Proceeds(call))
    BY <1>4, <1>6
  <2>2. Proceeds(call) \in LineCall \cup {NULL} /\ (Proceeds(call) # NULL => LineCallSound(Proceeds(call)))
    BY <1>1, ProceedsSound
  <2> HIDE DEF call, next
  <2> QED BY <1>1, <2>1, <2>2, LineCallsOnly
<1> QED BY <1>5, <1>6

LEMMA HeadAboveSound ==
    ASSUME LinesInv, NEW p \in Post, NEW u \in Unit
    PROVE  /\ HeadAbove(p, u) \in MaybePost
           /\ HeadAbove(p, u) # NULL => HeadAbove(p, u) # p /\ <<u, HeadAbove(p, u)>> \in headed
BY DEF LinesInv, LinesTypeOK, HeadsSound, HeadAbove, MaybePost

LEMMA ReadHeadStep ==
    ASSUME LinesInv, NEW a \in Agent, HookReadHead(a) \/ HoldReadHead(a), lineOps' \in 0..MaxLineOps
    PROVE  LinesInv'
<1> DEFINE call == lineCalls[a]
           above == HeadAbove(call.post, call.unit)
           hooked == [call EXCEPT !.at = "save", !.above = above]
           holds == [call EXCEPT !.at = "hold.profile", !.above = above]
<1>1. lineCalls[a] # NULL /\ call.at \in {"head", "hold.head"} /\ UNCHANGED lineDocs
  BY DEF HookReadHead, HoldReadHead, At
<1>2. call \in LineCall /\ LineCallSound(call)
  BY <1>1, LineCallOf
<1>3. call.post \in Post /\ call.unit \in Unit
  BY <1>1, <1>2 DEF LineCallSound
<1>4. above \in MaybePost /\ (above # NULL => above # call.post /\ <<call.unit, above>> \in headed)
  BY <1>3, HeadAboveSound
<1>5. \/ LineMoves(a, hooked) /\ call.at = "head"
      \/ LineMoves(a, holds) /\ call.at = "hold.head"
  BY DEF HookReadHead, HoldReadHead, LineMoves, Begin, At
<1> HIDE DEF above
<1>6. /\ hooked \in LineCall /\ hooked.at = "save" /\ hooked.above = above /\ hooked.unit = call.unit
      /\ LineGoesOn(call, hooked)
      /\ holds \in LineCall /\ holds.at = "hold.profile" /\ holds.above = above /\ LineGoesOn(call, holds)
  BY <1>2, <1>4 DEF LineCall, LineGoesOn
<1> HIDE DEF call, hooked, holds
<1>7. CASE LineMoves(a, hooked) /\ call.at = "head"
  <2>1. LineCallSound(hooked)
    BY <1>2, <1>4, <1>6, <1>7 DEF LineCallSound, LineGoesOn
  <2> QED BY <1>1, <1>6, <1>7, <2>1, LineCallsOnly
<1>8. CASE LineMoves(a, holds) /\ call.at = "hold.head"
  <2>1. MayReportTo(call.post, above)
    BY <1>2, <1>3, <1>4, <1>8 DEF LineCallSound, MayReportTo, WasAbove
  <2>2. LineCallSound(holds)
    BY <1>2, <1>6, <1>8, <2>1 DEF LineCallSound, LineGoesOn
  <2> QED BY <1>1, <1>6, <1>8, <2>2, LineCallsOnly
<1> QED BY <1>5, <1>7, <1>8

\* A step that changes positions and their past, and no profile.
LEMMA PostsChange ==
    ASSUME LinesInv, NEW a \in Agent, NEW next \in LineCall \cup {NULL}, LineMoves(a, next),
           next # NULL => LineCallSound(next)', UNCHANGED <<heads, staff, onStaff, headed, held>>,
           wasIn \subseteq wasIn', wasIn' \subseteq Post \X Unit,
           posts' \in [Post -> PostDoc \cup {NULL}], PostsSound', lineOps' \in 0..MaxLineOps
    PROVE  LinesInv'
<1>1. LineGrows
  BY DEF LineGrows
<1>2. lineCalls' \in [Agent -> LineCall \cup {NULL}] /\ LineCallsSound'
  BY <1>1, LineCallsAfter
<1>3. LinesTypeOK'
  BY <1>2 DEF LinesInv, LinesTypeOK
<1>4. HeadsSound'
  BY DEF LinesInv, HeadsSound, LinePostKnown
<1>5. SupervisorWasHead'
  BY <1>1, SupervisorsAfter
<1>6. HoldingsSound'
  BY DEF LinesInv, HoldingsSound
<1> QED BY <1>2, <1>3, <1>4, <1>5, <1>6 DEF LinesInv

\* Position p is written, and reports to whom it may.
LEMMA OnePostChanges ==
    ASSUME LinesInv, NEW p \in Post, NEW new \in PostDoc, posts' = [posts EXCEPT ![p] = new],
           wasIn' = wasIn \cup {<<p, new.unit>>}, headed' = headed, held' = held,
           MayReportTo(p, new.reportsTo)'
    PROVE  /\ LineGrows /\ wasIn \subseteq wasIn' /\ wasIn' \subseteq Post \X Unit
           /\ posts' \in [Post -> PostDoc \cup {NULL}] /\ PostsSound'
<1>1. posts \in [Post -> PostDoc \cup {NULL}] /\ wasIn \subseteq Post \X Unit /\ new.unit \in Unit
  BY DEF LinesInv, LinesTypeOK, PostDoc
<1>2. /\ posts' \in [Post -> PostDoc \cup {NULL}]
      /\ \A q \in Post : posts'[q] = IF q = p THEN new ELSE posts[q]
  BY <1>1
<1>3. LineGrows /\ wasIn \subseteq wasIn' /\ wasIn' \subseteq Post \X Unit
  BY <1>1 DEF LineGrows
<1>4. ASSUME NEW q \in Post, q # p, posts[q] # NULL
      PROVE  <<q, posts[q].unit>> \in wasIn' /\ MayReportTo(q, posts[q].reportsTo)'
  <2>1. posts'[q] = posts[q] /\ <<q, posts[q].unit>> \in wasIn /\ MayReportTo(q, posts[q].reportsTo)
    BY <1>2, <1>4 DEF LinesInv, PostsSound
  <2> QED BY <1>3, <2>1 DEF MayReportTo, WasAbove, LineGrows
<1>5. MayReportTo(p, posts[p].reportsTo)' /\ <<p, posts'[p].unit>> \in wasIn'
  BY <1>2 DEF MayReportTo
<1> QED BY <1>2, <1>3, <1>4, <1>5 DEF PostsSound

\* The update of a position that is there, whatever the handler does next.
LEMMA SavedPost ==
    ASSUME LinesInv, NEW a \in Agent, NEW call \in LineCall, LineCallSound(call), call.at = "save",
           NEW new \in PostDoc, Present(call.post), NEW after \in LineCall \cup {NULL},
           new.unit = IF call.for = "move" THEN call.unit ELSE posts[call.post].unit,
           new.reportsTo = IF call.above = NULL THEN posts[call.post].reportsTo ELSE call.above,
           posts' = [posts EXCEPT ![call.post] = new],
           wasIn' = wasIn \cup {<<call.post, new.unit>>}, UNCHANGED <<heads, staff, onStaff, headed, held>>,
           LineMoves(a, after),
           \/ after # NULL => LineCallSound(after)
           \/ /\ after.at = "propagate" /\ after.above = new.reportsTo
              /\ LineGoesOn(call, after) /\ call.for # "assign",
           lineOps' \in 0..MaxLineOps
    PROVE  LinesInv'
<1>1. /\ call.post \in Post /\ call.unit \in Unit
      /\ call.for = "move" \/ <<call.post, call.unit>> \in wasIn
      /\ call.above # NULL => call.above # call.post /\ <<call.unit, call.above>> \in headed
      /\ LinePostKnown(call.post) /\ MayReportTo(call.post, call.read)
  BY DEF LineCallSound
<1>2. MayReportTo(call.post, posts[call.post].reportsTo)
  BY <1>1, PresentPost
<1>3. wasIn \subseteq wasIn' /\ <<call.post, new.unit>> \in wasIn' /\ headed' = headed /\ held' = held
  OBVIOUS
<1>4. MayReportTo(call.post, new.reportsTo)'
  <2>1. CASE call.above = NULL
    BY <1>2, <1>3, <2>1 DEF MayReportTo, WasAbove
  <2>2. CASE call.above # NULL
    <3>1. <<call.post, call.unit>> \in wasIn'
      BY <1>1, <1>3
    <3> QED BY <1>1, <1>3, <2>2, <3>1 DEF MayReportTo, WasAbove
  <2> QED BY <2>1, <2>2
<1>5. /\ LineGrows /\ wasIn' \subseteq Post \X Unit
      /\ posts' \in [Post -> PostDoc \cup {NULL}] /\ PostsSound'
  BY <1>1, <1>3, <1>4, OnePostChanges
<1>6. after # NULL => LineCallSound(after)'
  <2>1. CASE after # NULL => LineCallSound(after)
    BY <1>5, <2>1, LineSoundStays
  <2>2. CASE /\ after.at = "propagate" /\ after.above = new.reportsTo
             /\ LineGoesOn(call, after) /\ call.for # "assign"
    <3>1. LineCallSound(call)'
      BY <1>5, LineSoundStays
    <3> QED BY <1>4, <2>2, <3>1 DEF LineCallSound, LineGoesOn
  <2> QED BY <2>1, <2>2
<1> QED BY <1>3, <1>5, <1>6, PostsChange

LEMMA HookSaveStep ==
    ASSUME LinesInv, NEW a \in Agent, NEW isActive \in BOOLEAN \cup {NULL}, HookSave(a, isActive),
           lineOps' \in 0..MaxLineOps
    PROVE  LinesInv'
<1> DEFINE call == lineCalls[a]
           new == Written(posts[call.post], call, isActive)
           next == [call EXCEPT !.at = "propagate", !.above = new.reportsTo]
<1>1. lineCalls[a] # NULL /\ call.at = "save" /\ UNCHANGED <<heads, staff, onStaff, headed, held>>
  BY DEF HookSave, At
<1>2. call \in LineCall /\ LineCallSound(call)
  BY <1>1, LineCallOf
<1>3. call.post \in Post /\ call.unit \in Unit /\ call.above \in MaybePost
  BY <1>1, <1>2 DEF LineCallSound, LineCall
<1>4. /\ Proceeds(call) \in LineCall \cup {NULL}
      /\ Proceeds(call) # NULL => LineCallSound(Proceeds(call))
  BY <1>1, ProceedsSound
<1>5. CASE ~ Present(call.post)
  <2>1. LineMoves(a, Proceeds(call)) /\ UNCHANGED lineDocs
    BY <1>1, <1>5 DEF HookSave, LineMoves, Begin, lineDocs
  <2> HIDE DEF call
  <2> QED BY <1>4, <2>1, LineCallsOnly
<1>6. CASE Present(call.post)
  <2>1. /\ posts' = [posts EXCEPT ![call.post] = new]
        /\ wasIn' = wasIn \cup {<<call.post, new.unit>>}
        /\ LineMoves(a, Follows(call, new))
    BY <1>6 DEF HookSave, LineMoves, Begin
  <2>2. /\ posts[call.post].unit \in Unit /\ posts[call.post].reportsTo \in MaybePost
        /\ posts[call.post].isActive \in BOOLEAN
    BY <1>3, <1>6, PresentPost DEF PostDoc
  <2>3. /\ new.unit = IF call.for = "move" THEN call.unit ELSE posts[call.post].unit
        /\ new.reportsTo = IF call.above = NULL THEN posts[call.post].reportsTo ELSE call.above
    BY DEF Written
  <2>4. new \in PostDoc
    BY <1>3, <2>2 DEF Written, PostDoc
  <2>5. new.reportsTo \in MaybePost
    BY <2>4 DEF PostDoc
  <2>6. Follows(call, new) =
          IF call.for \in {"update", "move"} /\ new.reportsTo # call.read THEN next ELSE Proceeds(call)
    BY DEF Follows
  <2> HIDE DEF new
  <2>7. /\ next \in LineCall /\ next.at = "propagate" /\ next.above = new.reportsTo
        /\ LineGoesOn(call, next)
    BY <1>2, <2>5 DEF LineCall, LineGoesOn
  <2> HIDE DEF call, next
  <2>8. Follows(call, new) \in LineCall \cup {NULL}
    BY <1>4, <2>6, <2>7
  <2>9. \/ Follows(call, new) # NULL => LineCallSound(Follows(call, new))
        \/ /\ Follows(call, new).at = "propagate" /\ Follows(call, new).above = new.reportsTo
           /\ LineGoesOn(call, Follows(call, new)) /\ call.for # "assign"
    BY <1>4, <2>6, <2>7
  <2> QED BY <1>1, <1>2, <1>6, <2>1, <2>3, <2>4, <2>8, <2>9, SavedPost
<1> QED BY <1>5, <1>6

LEMMA InsertPostStep ==
    ASSUME LinesInv, NEW a \in Agent, NEW p \in Post, NEW isActive \in BOOLEAN,
           InsertPost(a, p, isActive), lineOps' \in 0..MaxLineOps
    PROVE  LinesInv'
<1>1. PICK call : call = lineCalls[a]
  OBVIOUS
<1>2. /\ lineCalls[a] # NULL /\ call.at = "insert" /\ UNCHANGED <<heads, staff, onStaff, headed, held>>
      /\ \A u \in Unit : <<p, u>> \notin wasIn
  BY <1>1 DEF InsertPost, At
<1>3. call \in LineCall /\ LineCallSound(call)
  BY <1>1, <1>2, LineCallOf
<1>4. call.unit \in Unit /\ call.above \in MaybePost /\ (call.above # NULL => <<call.unit, call.above>> \in headed)
  BY <1>2, <1>3 DEF LineCallSound, LineCall
<1>5. PICK new \in PostDoc : new = [unit |-> call.unit, reportsTo |-> call.above, isActive |-> isActive]
  BY <1>4 DEF PostDoc
<1>6. /\ new.unit = call.unit /\ new.reportsTo = call.above
      /\ posts' = [posts EXCEPT ![p] = new] /\ wasIn' = wasIn \cup {<<p, new.unit>>}
      /\ LineMoves(a, NULL)
  BY <1>1, <1>5 DEF InsertPost, LineMoves, Finish
<1>7. call.above # NULL => call.above \in Post /\ LinePostKnown(call.above)
  BY <1>4 DEF LinesInv, LinesTypeOK, HeadsSound
<1>8. call.above # p
  BY <1>2, <1>7, ReportingLinesAssumption DEF LinePostKnown
<1>9. MayReportTo(p, new.reportsTo)'
  BY <1>2, <1>4, <1>6, <1>8 DEF MayReportTo, WasAbove
<1>10. /\ wasIn \subseteq wasIn' /\ wasIn' \subseteq Post \X Unit
       /\ posts' \in [Post -> PostDoc \cup {NULL}] /\ PostsSound'
  BY <1>2, <1>6, <1>9, OnePostChanges
<1> QED BY <1>2, <1>6, <1>10, PostsChange

LEMMA RemovePostDeleteStep ==
    ASSUME LinesInv, NEW a \in Agent, RemovePostDelete(a), lineOps' \in 0..MaxLineOps
    PROVE  LinesInv'
<1>1. /\ posts' = [posts EXCEPT ![lineCalls[a].post] = NULL] /\ wasIn' = wasIn
      /\ LineMoves(a, NULL) /\ UNCHANGED <<heads, staff, onStaff, headed, held>>
  BY DEF RemovePostDelete, LineMoves, Finish
<1>2. posts \in [Post -> PostDoc \cup {NULL}] /\ wasIn \subseteq Post \X Unit
  BY DEF LinesInv, LinesTypeOK
<1>3. posts' \in [Post -> PostDoc \cup {NULL}]
  BY <1>1, <1>2
<1>4. PostsSound'
  <2>1. ASSUME NEW q \in Post, posts'[q] # NULL
        PROVE  <<q, posts'[q].unit>> \in wasIn /\ MayReportTo(q, posts[q].reportsTo)'
    <3>1. posts'[q] = posts[q] /\ <<q, posts[q].unit>> \in wasIn /\ MayReportTo(q, posts[q].reportsTo)
      BY <1>1, <1>2, <2>1 DEF LinesInv, PostsSound
    <3>2. headed' = headed /\ wasIn' = wasIn
      BY <1>1
    <3> QED BY <3>1, <3>2 DEF MayReportTo, WasAbove
  <2> QED BY <1>1, <2>1 DEF PostsSound
<1> QED BY <1>1, <1>2, <1>3, <1>4, PostsChange

-----------------------------------------------------------------------------
(* Steps that change profiles.                                             *)

\* Profiles change, and positions do not.
LEMMA StaffChanges ==
    ASSUME LinesInv, NEW a \in Agent, NEW next \in LineCall \cup {NULL}, LineMoves(a, next),
           next # NULL => LineCallSound(next), UNCHANGED <<posts, heads, onStaff, wasIn, headed>>,
           held \subseteq held', held' \subseteq Staff \X Post,
           staff' \in [Staff -> StaffDoc], HoldingsSound', SupervisorWasHead',
           lineOps' \in 0..MaxLineOps
    PROVE  LinesInv'
<1>1. LineGrows
  BY DEF LineGrows
<1>2. next # NULL => LineCallSound(next)'
  BY <1>1, LineSoundStays
<1>3. lineCalls' \in [Agent -> LineCall \cup {NULL}] /\ LineCallsSound'
  BY <1>1, <1>2, LineCallsAfter
<1>4. LinesTypeOK'
  BY <1>3 DEF LinesInv, LinesTypeOK
<1>5. PostsSound' /\ HeadsSound'
  BY DEF LinesInv, PostsSound, HeadsSound, MayReportTo, WasAbove, LinePostKnown
<1> QED BY <1>3, <1>4, <1>5 DEF LinesInv

LEMMA PropagateStep ==
    ASSUME LinesInv, NEW a \in Agent, Propagate(a), lineOps' \in 0..MaxLineOps
    PROVE  LinesInv'
<1>1. PICK call : call = lineCalls[a]
  OBVIOUS
<1>2. /\ lineCalls[a] # NULL /\ call.at = "propagate" /\ UNCHANGED <<posts, heads, onStaff, wasIn, headed, held>>
      /\ LineMoves(a, NULL)
      /\ staff' = [e \in Staff |->
           IF staff[e].post = call.post THEN [staff[e] EXCEPT !.supervisor = call.above] ELSE staff[e]]
  BY <1>1 DEF Propagate, At, LineMoves, Finish
<1>3. call \in LineCall /\ LineCallSound(call)
  BY <1>1, <1>2, LineCallOf
<1>4. call.post \in Post /\ call.above \in MaybePost /\ MayReportTo(call.post, call.above)
  BY <1>2, <1>3 DEF LineCallSound, LineCall
<1>5. staff \in [Staff -> StaffDoc] /\ held \subseteq Staff \X Post
  BY DEF LinesInv, LinesTypeOK
<1>6. ASSUME NEW e \in Staff
      PROVE  /\ staff'[e] \in StaffDoc /\ staff'[e].post = staff[e].post
             /\ staff'[e].supervisor =
                  IF staff[e].post = call.post THEN call.above ELSE staff[e].supervisor
  BY <1>2, <1>4, <1>5 DEF StaffDoc
<1>7. staff' \in [Staff -> StaffDoc]
  BY <1>2, <1>6
<1>8. LineGrows /\ MayReportTo(call.post, call.above)'
  BY <1>2, <1>4, MayReportStays DEF LineGrows
<1>9. HoldingsSound'
  BY <1>2, <1>6 DEF LinesInv, HoldingsSound
<1>10. ASSUME NEW e \in Staff
       PROVE  \/ staff'[e].supervisor \in {staff[e].supervisor, NULL}
              \/ \E p \in Post : <<e, p>> \in held' /\ MayReportTo(p, staff[e].supervisor)'
  <2>1. CASE staff[e].post = call.post
    <3>1. <<e, call.post>> \in held'
      BY <1>2, <1>4, <2>1, ReportingLinesAssumption DEF LinesInv, HoldingsSound
    <3>2. MayReportTo(call.post, staff[e].supervisor)'
      BY <1>6, <1>8, <2>1 DEF MayReportTo
    <3> QED BY <1>4, <3>1, <3>2
  <2>2. CASE staff[e].post # call.post
    BY <1>6, <2>2
  <2> QED BY <2>1, <2>2
<1>11. SupervisorWasHead'
  BY <1>8, <1>10, SupervisorsAfter
<1> QED BY <1>2, <1>5, <1>7, <1>9, <1>11, StaffChanges

LEMMA RemovePostUnsetStep ==
    ASSUME LinesInv, NEW a \in Agent, RemovePostUnset(a), lineOps' \in 0..MaxLineOps
    PROVE  LinesInv'
<1>1. PICK call : call = lineCalls[a]
  OBVIOUS
<1>2. PICK next : next = [call EXCEPT !.at = "remove.delete"]
  OBVIOUS
<1>3. /\ lineCalls[a] # NULL /\ call.at = "remove.unset" /\ UNCHANGED <<posts, heads, onStaff, wasIn, headed, held>>
      /\ staff' = [e \in Staff |->
           IF staff[e].post = call.post THEN [staff[e] EXCEPT !.post = NULL] ELSE staff[e]]
  BY <1>1 DEF RemovePostUnset, At
<1>4. LineMoves(a, next)
  BY <1>1, <1>2, <1>3 DEF RemovePostUnset, LineMoves, LinesInv, LinesTypeOK
<1>5. call \in LineCall /\ LineCallSound(call)
  BY <1>1, <1>3, LineCallOf
<1>6. next \in LineCall /\ next.at = "remove.delete" /\ LineGoesOn(call, next)
  BY <1>2, <1>5 DEF LineCall, LineGoesOn
<1>7. LineCallSound(next)
  BY <1>3, <1>5, <1>6 DEF LineCallSound, LineGoesOn
<1>8. staff \in [Staff -> StaffDoc] /\ held \subseteq Staff \X Post
  BY DEF LinesInv, LinesTypeOK
<1>9. ASSUME NEW e \in Staff
      PROVE  /\ staff'[e] \in StaffDoc /\ staff'[e].post \in {staff[e].post, NULL}
             /\ staff'[e].supervisor = staff[e].supervisor
  BY <1>3, <1>8 DEF StaffDoc, MaybePost
<1>10. staff' \in [Staff -> StaffDoc]
  BY <1>3, <1>9
<1>11. LineGrows
  BY <1>3 DEF LineGrows
<1>12. HoldingsSound'
  BY <1>3, <1>9 DEF LinesInv, HoldingsSound
<1>13. SupervisorWasHead'
  BY <1>9, <1>11, SupervisorsAfter
<1> QED BY <1>3, <1>4, <1>6, <1>7, <1>8, <1>10, <1>12, <1>13, StaffChanges

\* An employee takes a position, and a supervisor that fits it or stays.
LEMMA TakesPost ==
    ASSUME LinesInv, NEW e \in Staff, NEW p \in Post, NEW h \in MaybePost,
           held' = held \cup {<<e, p>>}, wasIn' = wasIn, headed' = headed,
           staff' = [staff EXCEPT ![e] = [post |-> p, supervisor |-> h]],
           h = staff[e].supervisor \/ MayReportTo(p, h)
    PROVE  /\ held \subseteq held' /\ held' \subseteq Staff \X Post
           /\ staff' \in [Staff -> StaffDoc] /\ HoldingsSound' /\ SupervisorWasHead'
<1>1. staff \in [Staff -> StaffDoc] /\ held \subseteq Staff \X Post
  BY DEF LinesInv, LinesTypeOK
<1>2. [post |-> p, supervisor |-> h] \in StaffDoc
  BY DEF StaffDoc, MaybePost
<1>3. /\ staff' \in [Staff -> StaffDoc] /\ held \subseteq held' /\ held' \subseteq Staff \X Post
      /\ staff'[e].post = p /\ staff'[e].supervisor = h
      /\ \A x \in Staff \ {e} : staff'[x] = staff[x]
  BY <1>1, <1>2
<1>4. LineGrows
  BY <1>3 DEF LineGrows
<1>5. HoldingsSound'
  BY <1>3 DEF LinesInv, HoldingsSound
<1>6. ASSUME NEW x \in Staff
      PROVE  \/ staff'[x].supervisor \in {staff[x].supervisor, NULL}
             \/ \E q \in Post : <<x, q>> \in held' /\ MayReportTo(q, staff[x].supervisor)'
  <2>1. CASE x = e /\ MayReportTo(p, h)
    <3>1. MayReportTo(p, staff[x].supervisor)' /\ <<x, p>> \in held'
      BY <1>3, <2>1 DEF MayReportTo, WasAbove
    <3> QED BY <3>1
  <2>2. CASE x # e \/ h = staff[e].supervisor
    BY <1>3, <2>2
  <2> QED BY <2>1, <2>2
<1>7. SupervisorWasHead'
  BY <1>4, <1>6, SupervisorsAfter
<1> QED BY <1>3, <1>5, <1>7

LEMMA AssignPostProfileStep ==
    ASSUME LinesInv, NEW a \in Agent, AssignPostProfile(a), lineOps' \in 0..MaxLineOps
    PROVE  LinesInv'
<1>1. PICK call : call = lineCalls[a]
  OBVIOUS
<1>2. /\ lineCalls[a] # NULL /\ call.at = "assign.profile" /\ UNCHANGED <<posts, heads, onStaff, wasIn, headed>>
      /\ LineMoves(a, NULL) /\ held' = held \cup {<<call.who, call.post>>}
      /\ staff' = [staff EXCEPT ![call.who] = [post |-> call.post, supervisor |-> call.above]]
  BY <1>1 DEF AssignPostProfile, At, LineMoves, Finish
<1>3. call \in LineCall /\ LineCallSound(call)
  BY <1>1, <1>2, LineCallOf
<1>4. /\ call.post \in Post /\ call.above \in MaybePost /\ call.who \in Staff
      /\ MayReportTo(call.post, call.above)
  BY <1>2, <1>3 DEF LineCallSound, LineCall
<1>5. /\ held \subseteq held' /\ held' \subseteq Staff \X Post
      /\ staff' \in [Staff -> StaffDoc] /\ HoldingsSound' /\ SupervisorWasHead'
  BY <1>2, <1>4, TakesPost
<1> QED BY <1>2, <1>5, StaffChanges

LEMMA HoldPostProfileStep ==
    ASSUME LinesInv, NEW a \in Agent, HoldPostProfile(a), lineOps' \in 0..MaxLineOps
    PROVE  LinesInv'
<1>1. PICK call : call = lineCalls[a]
  OBVIOUS
<1>2. PICK next : next = [call EXCEPT !.at = "unit"]
  OBVIOUS
<1>3. lineCalls[a] # NULL /\ call.at = "hold.profile"
  BY <1>1 DEF HoldPostProfile, At
<1>4. call \in LineCall /\ LineCallSound(call)
  BY <1>1, <1>3, LineCallOf
<1>5. /\ call.post \in Post /\ call.above \in MaybePost /\ call.who \in Staff
      /\ MayReportTo(call.post, call.above) /\ call.for # "move"
  BY <1>3, <1>4 DEF LineCallSound, LineCall
<1>6. staff \in [Staff -> StaffDoc] /\ staff[call.who].supervisor \in MaybePost
  BY <1>5 DEF LinesInv, LinesTypeOK, StaffDoc
<1>7. PICK h \in MaybePost : h = IF call.above = NULL THEN staff[call.who].supervisor ELSE call.above
  BY <1>5, <1>6
<1>8. /\ UNCHANGED <<posts, heads, onStaff, wasIn, headed>> /\ held' = held \cup {<<call.who, call.post>>}
      /\ staff' = [staff EXCEPT ![call.who] = [post |-> call.post, supervisor |-> h]]
  BY <1>1, <1>5, <1>6, <1>7 DEF HoldPostProfile
<1>9. LineMoves(a, next)
  BY <1>1, <1>2 DEF HoldPostProfile, LineMoves, LinesInv, LinesTypeOK
<1>10. next \in LineCall /\ next.at = "unit" /\ LineGoesOn(call, next)
  BY <1>2, <1>4 DEF LineCall, LineGoesOn
<1>11. LineCallSound(next)
  BY <1>3, <1>4, <1>5, <1>10 DEF LineCallSound, LineGoesOn
<1>12. h = staff[call.who].supervisor \/ MayReportTo(call.post, h)
  BY <1>5, <1>7
<1>13. /\ held \subseteq held' /\ held' \subseteq Staff \X Post
       /\ staff' \in [Staff -> StaffDoc] /\ HoldingsSound' /\ SupervisorWasHead'
  BY <1>5, <1>8, <1>12, TakesPost
<1> QED BY <1>8, <1>9, <1>10, <1>11, <1>13, StaffChanges

\* A conversion: no handler in flight is touched, and the supervisor is unset.
LEMMA ConvertToStaffStep ==
    ASSUME LinesInv, NEW e \in Staff, NEW p \in MaybePost, ConvertToStaff(e, p),
           lineOps' \in 0..MaxLineOps
    PROVE  LinesInv'
<1>1. /\ staff' = [staff EXCEPT ![e] = [post |-> p, supervisor |-> NULL]]
      /\ onStaff' = onStaff \cup {e} /\ held' = held \cup ({<<e, p>>} \ {<<e, NULL>>})
      /\ posts' = posts /\ heads' = heads /\ lineCalls' = lineCalls
      /\ wasIn' = wasIn /\ headed' = headed
  BY DEF ConvertToStaff
<1>2. staff \in [Staff -> StaffDoc] /\ held \subseteq Staff \X Post /\ onStaff \subseteq Staff
  BY DEF LinesInv, LinesTypeOK
<1>3. held \subseteq held' /\ held' \subseteq Staff \X Post /\ (p # NULL => <<e, p>> \in held')
  BY <1>1, <1>2 DEF MaybePost
<1>4. [post |-> p, supervisor |-> NULL] \in StaffDoc
  BY DEF StaffDoc, MaybePost
<1>5. /\ staff' \in [Staff -> StaffDoc]
      /\ staff'[e].post = p /\ staff'[e].supervisor = NULL
      /\ \A x \in Staff \ {e} : staff'[x] = staff[x]
  BY <1>1, <1>2, <1>4
<1>6. LineGrows
  BY <1>1, <1>3 DEF LineGrows
<1>7. LineCallsSound'
  BY <1>1, <1>6, LineCallsStay
<1>8. LinesTypeOK'
  BY <1>1, <1>2, <1>3, <1>5 DEF LinesInv, LinesTypeOK
<1>9. PostsSound' /\ HeadsSound'
  BY <1>1 DEF LinesInv, PostsSound, HeadsSound, MayReportTo, WasAbove, LinePostKnown
<1>10. HoldingsSound'
  BY <1>3, <1>5 DEF LinesInv, HoldingsSound
<1>11. \A x \in Staff : staff'[x].supervisor \in {staff[x].supervisor, NULL}
  BY <1>5
<1>12. SupervisorWasHead'
  BY <1>6, <1>11, SupervisorsAfter
<1> QED BY <1>7, <1>8, <1>9, <1>10, <1>12 DEF LinesInv

LEMMA LineCallFailsStep ==
    ASSUME LinesInv, NEW a \in Agent, LineCallFails(a), lineOps' \in 0..MaxLineOps
    PROVE  LinesInv'
<1>1. LineMoves(a, NULL) /\ UNCHANGED lineDocs
  BY DEF LineCallFails, LineMoves, Finish
<1> QED BY <1>1, LineCallsOnly

-----------------------------------------------------------------------------

LEMMA LineRequests ==
    ASSUME LinesInv, RequestLine, lineOps' \in 0..MaxLineOps
    PROVE  LinesInv'
<1>1. ASSUME NEW u \in Unit, NEW p \in MaybePost, UpdateUnit(u, p) PROVE LinesInv'
  BY <1>1, UpdateUnitStep
<1>2. ASSUME NEW a \in Agent, NEW u \in Unit, CreatePost(a, u) PROVE LinesInv'
  BY <1>2, CreatePostStep
<1>3. ASSUME NEW a \in Agent, NEW p \in Post, NEW e \in Staff, AssignPost(a, e, p) \/ HoldPost(a, e, p)
      PROVE  LinesInv'
  <2>1. e # NULL /\ e \in Staff \cup {NULL} /\ NULL \in Unit \cup {NULL}
    BY <1>3, ReportingLinesAssumption
  <2> QED BY <1>3, <2>1, PostRequestStep
<1>4. ASSUME NEW a \in Agent, NEW p \in Post, NEW to \in Unit \cup {NULL},
             UpdatePost(a, p, to) \/ DeactivatePost(a, p) \/ RemovePost(a, p)
      PROVE  LinesInv'
  <2>1. NULL \in Staff \cup {NULL}
    OBVIOUS
  <2> QED BY <1>4, <2>1, PostRequestStep
<1>5. ASSUME NEW e \in Staff, NEW p \in MaybePost, ConvertToStaff(e, p) PROVE LinesInv'
  BY <1>5, ConvertToStaffStep
<1> QED BY <1>1, <1>2, <1>3, <1>4, <1>5 DEF RequestLine

LEMMA LineSteps ==
    ASSUME LinesInv, NEW a \in Agent, LineStep(a), lineOps' \in 0..MaxLineOps
    PROVE  LinesInv'
<1>1. ASSUME NEW isActive \in BOOLEAN \cup {NULL}, HookSave(a, isActive) PROVE LinesInv'
  BY <1>1, HookSaveStep
<1>2. ASSUME NEW p \in Post, NEW isActive \in BOOLEAN, InsertPost(a, p, isActive) PROVE LinesInv'
  BY <1>2, InsertPostStep
<1>3. CASE HookReadUnit(a)
  BY <1>3, HookReadUnitStep
<1>4. CASE HookReadHead(a) \/ HoldReadHead(a)
  BY <1>4, ReadHeadStep
<1>5. CASE Propagate(a)
  BY <1>5, PropagateStep
<1>6. CASE RemovePostUnset(a)
  BY <1>6, RemovePostUnsetStep
<1>7. CASE RemovePostDelete(a)
  BY <1>7, RemovePostDeleteStep
<1>8. CASE AssignPostProfile(a)
  BY <1>8, AssignPostProfileStep
<1>9. CASE HoldPostProfile(a)
  BY <1>9, HoldPostProfileStep
<1>10. CASE LineCallFails(a)
  BY <1>10, LineCallFailsStep
<1> QED BY <1>1, <1>2, <1>3, <1>4, <1>5, <1>6, <1>7, <1>8, <1>9, <1>10 DEF LineStep

\* The inductive invariant: whatever a handler carries, a position reports to a
\* head that its departments had, and an employee's supervisor is such a head.
THEOREM LinesInvariant == LinesSpec => []LinesInv
<1>1. LinesInit => LinesInv
  BY LinesInitially
<1>2. LinesInv /\ [LinesNext]_lineVars => LinesInv'
  <2> SUFFICES ASSUME LinesInv, [LinesNext]_lineVars PROVE LinesInv'
    OBVIOUS
  <2>1. lineOps \in 0..MaxLineOps
    BY DEF LinesInv, LinesTypeOK
  <2>2. CASE /\ lineOps < MaxLineOps /\ lineOps' = lineOps + 1
             /\ RequestLine
    <3>1. lineOps' \in 0..MaxLineOps
      BY <2>1, <2>2, ReportingLinesAssumption
    <3> QED BY <2>2, <3>1, LineRequests
  <2>3. CASE lineOps' = lineOps /\ \E a \in Agent : LineStep(a)
    BY <2>1, <2>3, LineSteps
  <2>4. CASE UNCHANGED lineVars
    <3>1. /\ posts' = posts /\ heads' = heads /\ staff' = staff /\ onStaff' = onStaff
          /\ lineCalls' = lineCalls /\ wasIn' = wasIn /\ headed' = headed /\ held' = held /\ lineOps' = lineOps
      BY <2>4 DEF lineVars, lineDocs
    <3>2. LineGrows
      BY <3>1 DEF LineGrows
    <3>3. LineCallsSound'
      BY <3>1, <3>2, LineCallsStay
    <3>4. LinesTypeOK'
      BY <3>1 DEF LinesInv, LinesTypeOK
    <3>5. PostsSound' /\ HeadsSound' /\ HoldingsSound' /\ SupervisorWasHead'
      BY <3>1 DEF LinesInv, PostsSound, HeadsSound, HoldingsSound, SupervisorWasHead, MayReportTo,
                  WasAbove, LinePostKnown
    <3> QED BY <3>3, <3>4, <3>5 DEF LinesInv
  <2> QED BY <2>2, <2>3, <2>4 DEF LinesNext
<1> QED BY <1>1, <1>2, PTL DEF LinesSpec

\* Type correctness of the positions, departments, employees and handlers.
THEOREM LinesTypeCorrect == LinesSpec => []LinesTypeOK
<1>1. LinesInv => LinesTypeOK
  BY DEF LinesInv
<1> QED BY <1>1, LinesInvariant, PTL

\* Whoever supervises an employee heads or headed a department of one of the
\* employee's positions.
THEOREM SupervisorsAreHeads == LinesSpec => []SupervisorWasHead
<1>1. LinesInv => SupervisorWasHead
  BY DEF LinesInv
<1> QED BY <1>1, LinesInvariant, PTL

\* While every department has had one head, from its own positions, the active
\* positions form trees: a head reports to nobody.
THEOREM SettledTrees == LinesSpec => []SettledHeadsMakeTrees
<1>1. LinesInv => SettledHeadsMakeTrees
  <2> SUFFICES ASSUME LinesInv, HeadsAreSettled, NEW S \in SUBSET Active, S # {}
               PROVE  \E p \in S : posts[p].reportsTo \notin S
    BY DEF SettledHeadsMakeTrees
  <2> SUFFICES ASSUME \A p \in S : posts[p].reportsTo \in S PROVE FALSE
    OBVIOUS
  <2>1. ASSUME NEW p \in S
        PROVE  /\ p \in Post /\ posts[p].reportsTo \in S /\ posts[p].reportsTo \in Post
               /\ posts[p].reportsTo # p /\ WasAbove(posts[p].reportsTo, p)
    <3>1. p \in Post /\ posts[p] # NULL /\ posts[p].reportsTo \in S
      BY DEF Active, Present
    <3>2. posts[p].reportsTo \in Post
      BY <3>1 DEF Active
    <3>3. posts[p].reportsTo # NULL
      BY <3>2, ReportingLinesAssumption
    <3> QED BY <3>1, <3>2, <3>3 DEF LinesInv, PostsSound, MayReportTo
  <2>2. PICK p \in S : TRUE
    OBVIOUS
  <2>3. PICK h \in S : h = posts[p].reportsTo /\ h \in Post /\ WasAbove(h, p)
    BY <2>1, <2>2
  <2>4. PICK g \in S : g = posts[h].reportsTo /\ g \in Post /\ g # h /\ WasAbove(g, h)
    BY <2>1, <2>3
  <2>5. PICK u \in Unit : <<u, h>> \in headed
    BY <2>3 DEF WasAbove
  <2>6. PICK v \in Unit : <<h, v>> \in wasIn /\ <<v, g>> \in headed
    BY <2>4 DEF WasAbove
  <2> QED BY <2>3, <2>4, <2>5, <2>6 DEF HeadsAreSettled
<1> QED BY <1>1, LinesInvariant, PTL

-----------------------------------------------------------------------------
(* Profiles and roles.                                                     *)

\* All that the request asks for was in the profile at some time.
WasApplied(q) ==
    \A f \in Field :
      profileRequests[q].asks[f] # NULL =>
        <<profileRequests[q].of, f, profileRequests[q].asks[f]>> \in had

AccessSteps == {"status.roles", "roles.save", "roles.create"}

\* What a handler in flight carries fits the documents.
ProfileCallSound(call) ==
    /\ call.at \in {"approve.profile", "approve.request", "reject.request"} =>
         call.request \in ProfileRequest /\ profileRequests[call.request] # NULL
    /\ call.at = "approve.request" => WasApplied(call.request)
    /\ call.at \in AccessSteps => call.of \in Employee
    /\ call.at \in AccessSteps /\ call.of \notin tangled => access[call.of] = call.isActive
    /\ call.at \in {"roles.save", "roles.create"} => call.isActive = TRUE
    /\ call.at = "roles.save" => call.role \in RolesOf(call.of)
    /\ call.at = "roles.create" /\ call.of \notin tangled => RolesOf(call.of) = {}

ProfileCallsSound ==
    \A a \in Agent : profileCalls[a] # NULL => ProfileCallSound(profileCalls[a])

\* One handler at a time writes the roles of an employee, and one document has them.
AccessInOrder ==
    \A e \in Employee \ tangled :
      /\ \A a, b \in Agent : Concerns(a, e) /\ Concerns(b, e) => a = b
      /\ \A c, d \in RolesOf(e) : c = d

ProfilesInv ==
    /\ ProfilesTypeOK
    /\ ProfileCallsSound
    /\ AccessInOrder
    /\ ApprovedWasApplied
    /\ RolesFollowAccess

LEMMA ProfilesInitially == ProfilesInit => ProfilesInv
<1> SUFFICES ASSUME ProfilesInit PROVE ProfilesInv
  OBVIOUS
<1>1. people \in [Employee -> PersonDoc] /\ had \subseteq Employee \X Field \X Datum
  <2>1. people \in [Employee -> PersonDoc]
    BY DEF ProfilesInit
  <2>2. ASSUME NEW e \in Employee, NEW f \in Field
        PROVE  people[e].data[f] \in Datum
    BY <2>1 DEF PersonDoc
  <2> QED BY <2>1, <2>2 DEF ProfilesInit, Says
<1>2. ProfilesTypeOK
  BY <1>1, ProfilesAssumption DEF ProfilesInit, ProfilesTypeOK
<1>3. ProfileCallsSound
  BY DEF ProfilesInit, ProfileCallsSound
<1>4. AccessInOrder /\ RolesFollowAccess
  BY DEF ProfilesInit, AccessInOrder, RolesFollowAccess, Concerns, RolesOf
<1>5. ApprovedWasApplied
  BY DEF ProfilesInit, ApprovedWasApplied
<1> QED BY <1>2, <1>3, <1>4, <1>5 DEF ProfilesInv

-----------------------------------------------------------------------------
(* Requests and what the profiles said.                                    *)

\* Requests stay, with what they ask for, and so does what profiles said.
RequestsKept ==
    /\ had \subseteq had'
    /\ \A q \in ProfileRequest : profileRequests[q] # NULL =>
         /\ profileRequests'[q] # NULL
         /\ profileRequests'[q].of = profileRequests[q].of
         /\ profileRequests'[q].asks = profileRequests[q].asks

LEMMA AppliedStays ==
    ASSUME RequestsKept, NEW q \in ProfileRequest, profileRequests[q] # NULL, WasApplied(q)
    PROVE  WasApplied(q)'
BY DEF RequestsKept, WasApplied

\* No request is approved but one that is, or that was applied.
LEMMA ApprovedAfter ==
    ASSUME ProfilesInv, RequestsKept,
           \A q \in ProfileRequest :
             profileRequests'[q] # NULL /\ profileRequests'[q].status = "APPROVED" =>
               profileRequests[q] # NULL /\ (profileRequests[q].status = "APPROVED" \/ WasApplied(q))
    PROVE  ApprovedWasApplied'
<1>1. ASSUME NEW q \in ProfileRequest, profileRequests'[q] # NULL, profileRequests'[q].status = "APPROVED"
      PROVE  WasApplied(q)'
  <2>1. profileRequests[q] # NULL /\ WasApplied(q)
    BY <1>1 DEF ProfilesInv, ApprovedWasApplied, WasApplied
  <2> QED BY <2>1, AppliedStays
<1> QED BY <1>1 DEF ApprovedWasApplied, WasApplied

\* A profile takes data, which is remembered.
LEMMA DataPut ==
    ASSUME ProfilesInv, NEW e \in Employee, NEW data \in [Field -> Datum], NEW isActive \in BOOLEAN,
           PutData(e, data, isActive)
    PROVE  /\ people' \in [Employee -> PersonDoc]
           /\ had \subseteq had' /\ had' \subseteq Employee \X Field \X Datum
           /\ \A f \in Field : <<e, f, data[f]>> \in had'
<1>1. people' \in [Employee -> PersonDoc]
  BY DEF PutData, ProfilesInv, ProfilesTypeOK, PersonDoc
<1>2. \A f \in Field : data[f] \in Datum
  OBVIOUS
<1> QED BY <1>1, <1>2 DEF PutData, Says, ProfilesInv, ProfilesTypeOK

LEMMA MergedTyped ==
    ASSUME NEW data \in [Field -> Datum], NEW changes \in ProfileChanges
    PROVE  Merged(data, changes) \in [Field -> Datum]
BY DEF Merged, ProfileChanges

LEMMA DataOf ==
    ASSUME ProfilesInv, NEW e \in Employee
    PROVE  people[e].data \in [Field -> Datum] /\ people[e].isActive \in BOOLEAN
BY DEF ProfilesInv, ProfilesTypeOK, PersonDoc

\* A handler that has nothing to do with roles.
Clerical(call) == call = NULL \/ call.at \notin AccessSteps

\* Roles and access stay, and the handlers that have to do with them.
LEMMA ClericalStep ==
    ASSUME ProfilesInv, RequestsKept, UNCHANGED <<roleDocs, access, tangled>>, NEW a, NEW next,
           \/ profileCalls' = profileCalls
           \/ /\ a \in Agent /\ Clerical(profileCalls[a]) /\ Clerical(next)
              /\ profileCalls' = [profileCalls EXCEPT ![a] = next]
              /\ next # NULL => ProfileCallSound(next)'
    PROVE  ProfileCallsSound' /\ AccessInOrder' /\ RolesFollowAccess'
<1>1. profileCalls \in [Agent -> ProfileCall \cup {NULL}]
  BY DEF ProfilesInv, ProfilesTypeOK
<1>2. ASSUME NEW b \in Agent, NEW e \in Employee
      PROVE  Concerns(b, e)' <=> Concerns(b, e)
  BY <1>1 DEF Concerns, Clerical, AccessSteps
<1>3. \A e : RolesOf(e)' = RolesOf(e)
  BY DEF RolesOf
<1>4. AccessInOrder' /\ RolesFollowAccess'
  BY <1>2, <1>3 DEF ProfilesInv, AccessInOrder, RolesFollowAccess
<1>5. ASSUME NEW b \in Agent, NEW call, call = profileCalls'[b], call # NULL
      PROVE  ProfileCallSound(call)'
  <2>1. CASE call = profileCalls[b]
    <3>1. ProfileCallSound(call)
      BY <1>5, <2>1 DEF ProfilesInv, ProfileCallsSound
    <3> QED BY <1>3, <3>1, AppliedStays DEF ProfileCallSound, RequestsKept
  <2>2. CASE call # profileCalls[b]
    BY <1>1, <1>5, <2>2
  <2> QED BY <2>1, <2>2
<1> QED BY <1>4, <1>5 DEF ProfileCallsSound

LEMMA UpdateProfileStep ==
    ASSUME ProfilesInv, NEW e \in Employee, NEW changes \in ProfileChanges,
           NEW isActive \in BOOLEAN \cup {NULL}, UpdateProfile(e, changes, isActive),
           profileOps' \in 0..MaxProfileOps
    PROVE  ProfilesInv'
<1>1. PICK data \in [Field -> Datum] : data = Merged(people[e].data, changes)
  BY DataOf, MergedTyped
<1>2. PICK status \in BOOLEAN : status = IF isActive = NULL THEN people[e].isActive ELSE isActive
  BY DataOf
<1>3. PutData(e, data, status) /\ UNCHANGED <<profileRequests, roleDocs, profileCalls, access, tangled>>
  BY <1>1, <1>2 DEF UpdateProfile
<1>4. people' \in [Employee -> PersonDoc] /\ had \subseteq had' /\ had' \subseteq Employee \X Field \X Datum
  BY <1>3, DataPut
<1>5. RequestsKept
  BY <1>3, <1>4 DEF RequestsKept
<1>6. ApprovedWasApplied'
  BY <1>3, <1>5, ApprovedAfter
<1>7. ProfileCallsSound' /\ AccessInOrder' /\ RolesFollowAccess'
  BY <1>3, <1>5, ClericalStep
<1>8. ProfilesTypeOK'
  BY <1>3, <1>4 DEF ProfilesInv, ProfilesTypeOK
<1> QED BY <1>6, <1>7, <1>8 DEF ProfilesInv

LEMMA CreateProfileChangeRequestStep ==
    ASSUME ProfilesInv, NEW q \in ProfileRequest, NEW e \in Employee, NEW asks \in ProfileChanges,
           CreateProfileChangeRequest(q, e, asks), profileOps' \in 0..MaxProfileOps
    PROVE  ProfilesInv'
<1>1. PICK doc : doc = [of |-> e, asks |-> asks, status |-> "PENDING"]
  OBVIOUS
<1>2. doc \in RequestDoc /\ doc.status = "PENDING" /\ doc # NULL
  BY <1>1, ProfilesAssumption DEF RequestDoc
<1>3. /\ profileRequests[q] = NULL /\ profileRequests' = [profileRequests EXCEPT ![q] = doc]
      /\ UNCHANGED <<people, roleDocs, profileCalls, had, access, tangled>>
  BY <1>1 DEF CreateProfileChangeRequest
<1>4. profileRequests \in [ProfileRequest -> RequestDoc \cup {NULL}]
  BY DEF ProfilesInv, ProfilesTypeOK
<1>5. RequestsKept
  BY <1>3, <1>4 DEF RequestsKept
<1>6. ApprovedWasApplied'
  <2>1. ASSUME NEW p \in ProfileRequest, profileRequests'[p] # NULL, profileRequests'[p].status = "APPROVED"
        PROVE  profileRequests[p] # NULL /\ profileRequests[p].status = "APPROVED"
    BY <1>2, <1>3, <1>4, <2>1
  <2> QED BY <1>5, <2>1, ApprovedAfter
<1>7. ProfileCallsSound' /\ AccessInOrder' /\ RolesFollowAccess'
  BY <1>3, <1>5, ClericalStep
<1>8. ProfilesTypeOK'
  BY <1>2, <1>3, <1>4 DEF ProfilesInv, ProfilesTypeOK
<1> QED BY <1>6, <1>7, <1>8 DEF ProfilesInv

LEMMA DecidesStep ==
    ASSUME ProfilesInv, NEW a \in Agent, NEW q \in ProfileRequest,
           ApproveProfileChangeRequest(a, q) \/ RejectProfileChangeRequest(a, q),
           profileOps' \in 0..MaxProfileOps
    PROVE  ProfilesInv'
<1>1. PICK where \in {"approve.profile", "reject.request"} : Decides(a, q, where)
  BY DEF ApproveProfileChangeRequest, RejectProfileChangeRequest
<1>2. PICK next : next = [at |-> where, request |-> q, of |-> NULL, role |-> NULL, isActive |-> TRUE]
  OBVIOUS
<1>3. next \in ProfileCall /\ next.at = where /\ next.request = q
  BY <1>2 DEF ProfileCall
<1>4. /\ profileCalls[a] = NULL /\ profileRequests[q] # NULL
      /\ profileCalls' = [profileCalls EXCEPT ![a] = next]
      /\ UNCHANGED <<people, profileRequests, roleDocs, had, access, tangled>>
  BY <1>1, <1>2 DEF Decides, Idle, Begin, profileDocs
<1>5. RequestsKept
  BY <1>4 DEF RequestsKept
<1>6. ApprovedWasApplied'
  BY <1>4, <1>5, ApprovedAfter
<1>7. ProfileCallSound(next)'
  BY <1>1, <1>3, <1>4 DEF ProfileCallSound, AccessSteps
<1>8. Clerical(profileCalls[a]) /\ Clerical(next)
  BY <1>1, <1>3, <1>4 DEF Clerical, AccessSteps
<1>9. ProfileCallsSound' /\ AccessInOrder' /\ RolesFollowAccess'
  BY <1>4, <1>5, <1>7, <1>8, ClericalStep
<1>10. ProfilesTypeOK'
  BY <1>3, <1>4 DEF ProfilesInv, ProfilesTypeOK
<1> QED BY <1>6, <1>9, <1>10 DEF ProfilesInv

LEMMA ProfileCallOf ==
    ASSUME ProfilesInv, NEW a \in Agent, profileCalls[a] # NULL
    PROVE  profileCalls[a] \in ProfileCall /\ ProfileCallSound(profileCalls[a])
BY DEF ProfilesInv, ProfilesTypeOK, ProfileCallsSound

LEMMA ApproveProfileStep ==
    ASSUME ProfilesInv, NEW a \in Agent, ApproveProfile(a), profileOps' \in 0..MaxProfileOps
    PROVE  ProfilesInv'
<1>1. PICK call : call = profileCalls[a]
  OBVIOUS
<1>2. call # NULL /\ call.at = "approve.profile"
  BY <1>1 DEF ApproveProfile, At
<1>3. call \in ProfileCall /\ ProfileCallSound(call)
  BY <1>1, <1>2, ProfileCallOf
<1>4. PICK q \in ProfileRequest : q = call.request /\ profileRequests[q] # NULL
  BY <1>2, <1>3 DEF ProfileCallSound
<1>5. PICK req \in RequestDoc : req = profileRequests[q]
  BY <1>4 DEF ProfilesInv, ProfilesTypeOK
<1>6. req.of \in Employee /\ req.asks \in ProfileChanges
  BY <1>5 DEF RequestDoc
<1>7. PICK data \in [Field -> Datum] : data = Merged(people[req.of].data, req.asks)
  BY <1>6, DataOf, MergedTyped
<1>8. PICK status \in BOOLEAN : status = people[req.of].isActive
  BY <1>6, DataOf
<1>9. PICK next : next = [call EXCEPT !.at = "approve.request"]
  OBVIOUS
<1>10. next \in ProfileCall /\ next.at = "approve.request" /\ next.request = q
  BY <1>3, <1>4, <1>9 DEF ProfileCall
<1>11. /\ PutData(req.of, data, status)
       /\ profileCalls' = [profileCalls EXCEPT ![a] = next]
       /\ UNCHANGED <<profileRequests, roleDocs, access, tangled>>
  BY <1>1, <1>4, <1>5, <1>7, <1>8, <1>9 DEF ApproveProfile, ProfilesInv, ProfilesTypeOK
<1>12. /\ people' \in [Employee -> PersonDoc]
       /\ had \subseteq had' /\ had' \subseteq Employee \X Field \X Datum
       /\ \A f \in Field : <<req.of, f, data[f]>> \in had'
  BY <1>6, <1>11, DataPut
<1>13. RequestsKept
  BY <1>11, <1>12 DEF RequestsKept
<1>14. ApprovedWasApplied'
  BY <1>11, <1>13, ApprovedAfter
<1>15. \A f \in Field : req.asks[f] # NULL => data[f] = req.asks[f]
  BY <1>7 DEF Merged
<1>16. ProfileCallSound(next)'
  <2>1. WasApplied(q)'
    BY <1>5, <1>11, <1>12, <1>15 DEF WasApplied
  <2>2. profileRequests'[q] # NULL
    BY <1>4, <1>11
  <2> QED BY <1>10, <2>1, <2>2 DEF ProfileCallSound, AccessSteps
<1>17. Clerical(profileCalls[a]) /\ Clerical(next)
  BY <1>1, <1>2, <1>10 DEF Clerical, AccessSteps
<1>18. ProfileCallsSound' /\ AccessInOrder' /\ RolesFollowAccess'
  BY <1>11, <1>13, <1>16, <1>17, ClericalStep
<1>19. ProfilesTypeOK'
  BY <1>10, <1>11, <1>12 DEF ProfilesInv, ProfilesTypeOK
<1> QED BY <1>14, <1>18, <1>19 DEF ProfilesInv

LEMMA SaveDecisionStep ==
    ASSUME ProfilesInv, NEW a \in Agent, ApproveRequest(a) \/ RejectRequest(a),
           profileOps' \in 0..MaxProfileOps
    PROVE  ProfilesInv'
<1>1. PICK call : call = profileCalls[a]
  OBVIOUS
<1>2. PICK status \in {"APPROVED", "REJECTED"} :
        /\ call # NULL /\ call.at \in {"approve.request", "reject.request"}
        /\ status = "APPROVED" => call.at = "approve.request"
        /\ profileRequests' = [profileRequests EXCEPT ![call.request].status = status]
        /\ profileCalls' = [profileCalls EXCEPT ![a] = NULL]
        /\ UNCHANGED <<people, roleDocs, had, access, tangled>>
  BY <1>1 DEF ApproveRequest, RejectRequest, SaveDecision, At, Finish
<1>3. call \in ProfileCall /\ ProfileCallSound(call)
  BY <1>1, <1>2, ProfileCallOf
<1>4. PICK q \in ProfileRequest :
        /\ q = call.request /\ profileRequests[q] # NULL
        /\ status = "APPROVED" => WasApplied(q)
  BY <1>2, <1>3 DEF ProfileCallSound
<1>5. profileRequests \in [ProfileRequest -> RequestDoc \cup {NULL}]
  BY DEF ProfilesInv, ProfilesTypeOK
<1>6. PICK doc : doc = [profileRequests[q] EXCEPT !.status = status]
  OBVIOUS
<1>7. /\ doc \in RequestDoc /\ doc # NULL /\ doc.status = status
      /\ doc.of = profileRequests[q].of /\ doc.asks = profileRequests[q].asks
  BY <1>4, <1>5, <1>6, ProfilesAssumption DEF RequestDoc
<1>8. profileRequests' = [profileRequests EXCEPT ![q] = doc]
  BY <1>2, <1>4, <1>5, <1>6
<1>9. RequestsKept
  BY <1>2, <1>5, <1>7, <1>8 DEF RequestsKept
<1>10. ApprovedWasApplied'
  <2>1. ASSUME NEW p \in ProfileRequest, profileRequests'[p] # NULL, profileRequests'[p].status = "APPROVED"
        PROVE  profileRequests[p] # NULL /\ (profileRequests[p].status = "APPROVED" \/ WasApplied(p))
    BY <1>4, <1>5, <1>7, <1>8, <2>1
  <2> QED BY <1>9, <2>1, ApprovedAfter
<1>11. Clerical(profileCalls[a]) /\ Clerical(NULL)
  BY <1>1, <1>2 DEF Clerical, AccessSteps
<1>12. ProfileCallsSound' /\ AccessInOrder' /\ RolesFollowAccess'
  BY <1>2, <1>9, <1>11, ClericalStep
<1>13. ProfilesTypeOK'
  BY <1>2, <1>5, <1>7, <1>8 DEF ProfilesInv, ProfilesTypeOK
<1> QED BY <1>10, <1>12, <1>13 DEF ProfilesInv

-----------------------------------------------------------------------------
(* Requests about an employee's access.                                    *)

\* A request that finds another one under way tangles the employee.
LEMMA AccessStarts ==
    ASSUME ProfilesInv, NEW a \in Agent, NEW e \in Employee, NEW where \in AccessSteps,
           NEW d \in RoleDoc \cup {NULL}, NEW isActive \in BOOLEAN,
           StartsAccess(a, where, e, d, isActive), RequestsKept, UNCHANGED <<profileRequests, roleDocs>>,
           where # "status.roles" => isActive = TRUE,
           where = "roles.save" => d \in RolesOf(e),
           where = "roles.create" => RolesOf(e) = {},
           people' \in [Employee -> PersonDoc], had' \subseteq Employee \X Field \X Datum,
           profileOps' \in 0..MaxProfileOps
    PROVE  ProfilesInv'
<1>1. PICK next : next = [at |-> where, request |-> NULL, of |-> e, role |-> d, isActive |-> isActive]
  OBVIOUS
<1>2. /\ next \in ProfileCall /\ next # NULL
      /\ next.at = where /\ next.of = e /\ next.role = d /\ next.isActive = isActive
  BY <1>1, ProfilesAssumption DEF ProfileCall, AccessSteps
<1>3. /\ profileCalls[a] = NULL /\ profileCalls' = [profileCalls EXCEPT ![a] = next]
      /\ access' = [access EXCEPT ![e] = isActive]
      /\ tangled' = IF \E b \in Agent : Concerns(b, e) THEN tangled \cup {e} ELSE tangled
  BY <1>1 DEF StartsAccess, Idle, Begin
<1>4. /\ profileCalls \in [Agent -> ProfileCall \cup {NULL}] /\ access \in [Employee -> BOOLEAN]
      /\ tangled \subseteq Employee
  BY DEF ProfilesInv, ProfilesTypeOK
<1>5. tangled \subseteq tangled' /\ tangled' \subseteq tangled \cup {e}
  BY <1>3
<1>6. ASSUME NEW b \in Agent, NEW x \in Employee
      PROVE  Concerns(b, x)' <=> (b = a /\ x = e) \/ Concerns(b, x)
  BY <1>2, <1>3, <1>4 DEF Concerns, AccessSteps
<1>7. ASSUME NEW b \in Agent
      PROVE  ~ Concerns(a, e) /\ (Concerns(b, e) => e \in tangled')
  BY <1>3 DEF Concerns
<1>8. \A x : RolesOf(x)' = RolesOf(x)
  BY DEF RolesOf
<1>9. AccessInOrder'
  BY <1>5, <1>6, <1>7, <1>8 DEF ProfilesInv, AccessInOrder
<1>10. RolesFollowAccess'
  <2> SUFFICES ASSUME NEW x \in Employee \ tangled', \A b \in Agent : ~ Concerns(b, x)',
                      NEW c \in RolesOf(x), NEW k \in RolesOf(x)
               PROVE  c = k /\ roleDocs'[k].isActive = access'[x]
    BY <1>8 DEF RolesFollowAccess
  <2>1. x # e /\ \A b \in Agent : ~ Concerns(b, x)
    BY <1>6
  <2>2. access'[x] = access[x] /\ roleDocs' = roleDocs /\ x \notin tangled
    BY <1>3, <1>4, <1>5, <2>1
  <2> QED BY <2>1, <2>2 DEF ProfilesInv, RolesFollowAccess
<1>11. ASSUME NEW b \in Agent, NEW call, call = profileCalls'[b], call # NULL
       PROVE  ProfileCallSound(call)'
  <2>1. CASE b = a
    <3>1. call = next /\ access'[e] = isActive
      BY <1>3, <1>4, <1>11, <2>1
    <3>2. where \notin {"approve.profile", "approve.request", "reject.request"}
      BY DEF AccessSteps
    <3>3. where = "roles.save" => d \in RolesOf(e)'
      BY <1>8
    <3>4. where = "roles.create" => RolesOf(e)' = {}
      BY <1>8
    <3> QED BY <1>2, <3>1, <3>2, <3>3, <3>4 DEF ProfileCallSound, AccessSteps
  <2>2. CASE b # a
    <3>1. call = profileCalls[b] /\ ProfileCallSound(call)
      BY <1>3, <1>4, <1>11, <2>2 DEF ProfilesInv, ProfileCallsSound
    <3>2. call.at \in AccessSteps /\ call.of = e => e \in tangled'
      BY <1>7, <1>11, <3>1 DEF Concerns, AccessSteps
    <3>3. call.at \in AccessSteps /\ call.of # e => access'[call.of] = access[call.of]
      BY <1>3, <1>4, <3>1 DEF ProfileCallSound
    <3>4. call.at \in AccessSteps /\ call.of \notin tangled' => access'[call.of] = call.isActive
      BY <1>5, <3>1, <3>2, <3>3 DEF ProfileCallSound
    <3>5. call.at = "roles.save" => call.role \in RolesOf(call.of)'
      BY <1>8, <3>1 DEF ProfileCallSound
    <3>6. call.at = "roles.create" /\ call.of \notin tangled' => RolesOf(call.of)' = {}
      BY <1>5, <1>8, <3>1 DEF ProfileCallSound
    <3> QED BY <3>1, <3>4, <3>5, <3>6, AppliedStays DEF ProfileCallSound, RequestsKept
  <2> QED BY <2>1, <2>2
<1>12. ApprovedWasApplied'
  BY ApprovedAfter
<1>13. ProfilesTypeOK'
  BY <1>2, <1>3, <1>4 DEF ProfilesInv, ProfilesTypeOK
<1> QED BY <1>9, <1>10, <1>11, <1>12, <1>13 DEF ProfilesInv, ProfileCallsSound

LEMMA UpdateStatusStep ==
    ASSUME ProfilesInv, NEW a \in Agent, NEW e \in Employee, NEW isActive \in BOOLEAN,
           UpdateEmployeeStatus(a, e, isActive), profileOps' \in 0..MaxProfileOps
    PROVE  ProfilesInv'
<1>1. PICK data \in [Field -> Datum] : data = people[e].data
  BY DataOf
<1>2. /\ StartsAccess(a, "status.roles", e, NULL, isActive)
      /\ PutData(e, data, isActive) /\ UNCHANGED <<profileRequests, roleDocs>>
  BY <1>1 DEF UpdateEmployeeStatus
<1>3. people' \in [Employee -> PersonDoc] /\ had \subseteq had' /\ had' \subseteq Employee \X Field \X Datum
  BY <1>2, DataPut
<1>4. RequestsKept
  BY <1>2, <1>3 DEF RequestsKept
<1>5. NULL \in RoleDoc \cup {NULL} /\ "status.roles" \in AccessSteps
  BY DEF AccessSteps
<1> QED BY <1>2, <1>3, <1>4, <1>5, AccessStarts

LEMMA AssignRolesStep ==
    ASSUME ProfilesInv, NEW a \in Agent, NEW e \in Employee, AssignRoles(a, e),
           profileOps' \in 0..MaxProfileOps
    PROVE  ProfilesInv'
<1>1. UNCHANGED <<people, profileRequests, roleDocs, had>>
  BY DEF AssignRoles, profileDocs
<1>2. RequestsKept /\ people' \in [Employee -> PersonDoc] /\ had' \subseteq Employee \X Field \X Datum
  BY <1>1 DEF RequestsKept, ProfilesInv, ProfilesTypeOK
<1>3. {"roles.save", "roles.create"} \subseteq AccessSteps
  BY DEF AccessSteps
<1>4. CASE RolesOf(e) = {} /\ StartsAccess(a, "roles.create", e, NULL, TRUE)
  BY <1>1, <1>2, <1>3, <1>4, AccessStarts
<1>5. CASE \E d \in RolesOf(e) : StartsAccess(a, "roles.save", e, d, TRUE)
  <2>1. PICK d \in RolesOf(e) : StartsAccess(a, "roles.save", e, d, TRUE)
    BY <1>5
  <2>2. d \in RoleDoc \cup {NULL}
    BY DEF RolesOf
  <2> QED BY <1>1, <1>2, <1>3, <2>1, <2>2, AccessStarts
<1> QED BY <1>4, <1>5 DEF AssignRoles

\* A handler ends with what it writes on the roles of its employee: on those of
\* the only document, unless the employee is tangled.
LEMMA AccessEnds ==
    ASSUME ProfilesInv, NEW a \in Agent, NEW e \in Employee, Concerns(a, e),
           profileCalls' = [profileCalls EXCEPT ![a] = NULL],
           UNCHANGED <<people, profileRequests, had, access, tangled>>,
           roleDocs' \in [RoleDoc -> RolesDoc \cup {NULL}],
           \A x \in Employee : RolesOf(x) \subseteq RolesOf(x)',
           \A x \in Employee \ {e} : RolesOf(x)' = RolesOf(x),
           \A x \in Employee \ {e} : \A d \in RolesOf(x) : roleDocs'[d] = roleDocs[d],
           e \notin tangled =>
             \A c, d \in RolesOf(e)' : c = d /\ roleDocs'[d].isActive = access[e],
           profileOps' \in 0..MaxProfileOps
    PROVE  ProfilesInv'
<1>1. profileCalls \in [Agent -> ProfileCall \cup {NULL}]
  BY DEF ProfilesInv, ProfilesTypeOK
<1>2. ASSUME NEW b \in Agent, NEW x \in Employee
      PROVE  Concerns(b, x)' <=> b # a /\ Concerns(b, x)
  BY <1>1 DEF Concerns
<1>3. ASSUME NEW b \in Agent, b # a, Concerns(b, e)
      PROVE  e \in tangled
  BY <1>3 DEF ProfilesInv, AccessInOrder
<1>4. AccessInOrder'
  BY <1>2 DEF ProfilesInv, AccessInOrder
<1>5. ASSUME NEW x \in Employee, x # e, NEW b \in Agent, Concerns(b, x)
      PROVE  Concerns(b, x)'
  BY <1>2, <1>5 DEF Concerns
<1>6. RolesFollowAccess'
  <2> SUFFICES ASSUME NEW x \in Employee \ tangled, \A b \in Agent : ~ Concerns(b, x)',
                      NEW c \in RolesOf(x)', NEW k \in RolesOf(x)'
               PROVE  c = k /\ roleDocs'[k].isActive = access[x]
    BY DEF RolesFollowAccess
  <2>1. CASE x = e
    BY <2>1
  <2>2. CASE x # e
    <3>1. \A b \in Agent : ~ Concerns(b, x)
      BY <1>5, <2>2
    <3>2. c \in RolesOf(x) /\ k \in RolesOf(x) /\ roleDocs'[k] = roleDocs[k]
      BY <2>2
    <3> QED BY <3>1, <3>2 DEF ProfilesInv, RolesFollowAccess
  <2> QED BY <2>1, <2>2
<1>7. ASSUME NEW b \in Agent, NEW call, call = profileCalls'[b], call # NULL
      PROVE  ProfileCallSound(call)'
  <2>1. b # a /\ call = profileCalls[b] /\ ProfileCallSound(call)
    BY <1>1, <1>7 DEF ProfilesInv, ProfileCallsSound
  <2>2. call.at = "roles.save" => call.role \in RolesOf(call.of)'
    BY <2>1 DEF ProfileCallSound, AccessSteps
  <2>3. call.at = "roles.create" /\ call.of \notin tangled => RolesOf(call.of)' = {}
    <3> SUFFICES ASSUME call.at = "roles.create", call.of \notin tangled PROVE RolesOf(call.of)' = {}
      OBVIOUS
    <3>1. call.of # e
      BY <1>3, <1>7, <2>1 DEF Concerns
    <3> QED BY <2>1, <3>1 DEF ProfileCallSound, AccessSteps
  <2>4. RequestsKept
    BY DEF RequestsKept
  <2> QED BY <2>1, <2>2, <2>3, <2>4, AppliedStays DEF ProfileCallSound, RequestsKept
<1>8. ApprovedWasApplied'
  <2>1. RequestsKept
    BY DEF RequestsKept
  <2> QED BY <2>1, ApprovedAfter
<1>9. ProfilesTypeOK'
  BY <1>1 DEF ProfilesInv, ProfilesTypeOK
<1> QED BY <1>4, <1>6, <1>7, <1>8, <1>9 DEF ProfilesInv, ProfileCallsSound

\* One document of roles is written.
LEMMA RolesWritten ==
    ASSUME ProfilesInv, NEW e \in Employee, NEW d \in RolesOf(e), NEW isActive \in BOOLEAN,
           roleDocs' = [roleDocs EXCEPT ![d].isActive = isActive]
    PROVE  /\ roleDocs' \in [RoleDoc -> RolesDoc \cup {NULL}]
           /\ \A x \in Employee : RolesOf(x)' = RolesOf(x)
           /\ \A k \in RoleDoc \ {d} : roleDocs'[k] = roleDocs[k]
           /\ roleDocs'[d].isActive = isActive
<1>1. roleDocs \in [RoleDoc -> RolesDoc \cup {NULL}] /\ d \in RoleDoc /\ roleDocs[d] # NULL
  BY DEF ProfilesInv, ProfilesTypeOK, RolesOf
<1>2. PICK doc : doc = [roleDocs[d] EXCEPT !.isActive = isActive]
  OBVIOUS
<1>3. doc \in RolesDoc /\ doc # NULL /\ doc.isActive = isActive /\ doc.of = roleDocs[d].of
  BY <1>1, <1>2, ProfilesAssumption DEF RolesDoc
<1>4. roleDocs' = [roleDocs EXCEPT ![d] = doc]
  BY <1>1, <1>2
<1>5. \A x \in Employee : RolesOf(x)' = RolesOf(x)
  BY <1>1, <1>3, <1>4 DEF RolesOf
<1> QED BY <1>1, <1>3, <1>4, <1>5

LEMMA UpdateStatusRolesStep ==
    ASSUME ProfilesInv, NEW a \in Agent, UpdateStatusRoles(a), profileOps' \in 0..MaxProfileOps
    PROVE  ProfilesInv'
<1>1. PICK call : call = profileCalls[a]
  OBVIOUS
<1>2. /\ call # NULL /\ call.at = "status.roles" /\ profileCalls' = [profileCalls EXCEPT ![a] = NULL]
      /\ UNCHANGED <<people, profileRequests, had, access, tangled>>
      /\ \/ RolesOf(call.of) = {} /\ roleDocs' = roleDocs
         \/ \E d \in RolesOf(call.of) : roleDocs' = [roleDocs EXCEPT ![d].isActive = call.isActive]
  BY <1>1 DEF UpdateStatusRoles, At, Finish
<1>3. call \in ProfileCall /\ ProfileCallSound(call)
  BY <1>1, <1>2, ProfileCallOf
<1>4. PICK e \in Employee : e = call.of
  BY <1>2, <1>3 DEF ProfileCallSound, AccessSteps
<1>5. call.isActive \in BOOLEAN /\ (e \notin tangled => access[e] = call.isActive)
  BY <1>2, <1>3, <1>4 DEF ProfileCallSound, AccessSteps, ProfileCall
<1>6. Concerns(a, e)
  BY <1>1, <1>2, <1>4 DEF Concerns
<1>7. CASE RolesOf(e) = {} /\ roleDocs' = roleDocs
  <2>1. roleDocs' \in [RoleDoc -> RolesDoc \cup {NULL}] /\ \A x : RolesOf(x)' = RolesOf(x)
    BY <1>7 DEF ProfilesInv, ProfilesTypeOK, RolesOf
  <2> QED BY <1>2, <1>6, <1>7, <2>1, AccessEnds
<1>8. CASE \E d \in RolesOf(e) : roleDocs' = [roleDocs EXCEPT ![d].isActive = call.isActive]
  <2>1. PICK d \in RolesOf(e) : roleDocs' = [roleDocs EXCEPT ![d].isActive = call.isActive]
    BY <1>8
  <2>2. /\ roleDocs' \in [RoleDoc -> RolesDoc \cup {NULL}]
        /\ \A x \in Employee : RolesOf(x)' = RolesOf(x)
        /\ \A k \in RoleDoc \ {d} : roleDocs'[k] = roleDocs[k]
        /\ roleDocs'[d].isActive = call.isActive
    BY <1>5, <2>1, RolesWritten
  <2>3. \A x \in Employee \ {e} : \A k \in RolesOf(x) : roleDocs'[k] = roleDocs[k]
    BY <2>2 DEF RolesOf
  <2>4. e \notin tangled => \A c, k \in RolesOf(e)' : c = k /\ roleDocs'[k].isActive = access[e]
    BY <1>5, <2>2 DEF ProfilesInv, AccessInOrder
  <2> QED BY <1>2, <1>6, <2>2, <2>3, <2>4, AccessEnds
<1> QED BY <1>2, <1>4, <1>7, <1>8

LEMMA SaveRolesStep ==
    ASSUME ProfilesInv, NEW a \in Agent, SaveRoles(a), profileOps' \in 0..MaxProfileOps
    PROVE  ProfilesInv'
<1>1. PICK call : call = profileCalls[a]
  OBVIOUS
<1>2. /\ call # NULL /\ call.at = "roles.save" /\ profileCalls' = [profileCalls EXCEPT ![a] = NULL]
      /\ UNCHANGED <<people, profileRequests, had, access, tangled>>
      /\ roleDocs' = [roleDocs EXCEPT ![call.role].isActive = TRUE]
  BY <1>1 DEF SaveRoles, At, Finish
<1>3. call \in ProfileCall /\ ProfileCallSound(call)
  BY <1>1, <1>2, ProfileCallOf
<1>4. PICK e \in Employee : e = call.of
  BY <1>2, <1>3 DEF ProfileCallSound, AccessSteps
<1>5. PICK d \in RolesOf(e) : d = call.role
  BY <1>2, <1>3, <1>4 DEF ProfileCallSound
<1>6. e \notin tangled => access[e] = TRUE
  BY <1>2, <1>3, <1>4 DEF ProfileCallSound, AccessSteps
<1>7. Concerns(a, e)
  BY <1>1, <1>2, <1>4 DEF Concerns
<1>8. /\ roleDocs' \in [RoleDoc -> RolesDoc \cup {NULL}]
      /\ \A x \in Employee : RolesOf(x)' = RolesOf(x)
      /\ \A k \in RoleDoc \ {d} : roleDocs'[k] = roleDocs[k]
      /\ roleDocs'[d].isActive = TRUE
  BY <1>2, <1>5, RolesWritten
<1>9. \A x \in Employee \ {e} : \A k \in RolesOf(x) : roleDocs'[k] = roleDocs[k]
  BY <1>8 DEF RolesOf
<1>10. e \notin tangled => \A c, k \in RolesOf(e)' : c = k /\ roleDocs'[k].isActive = access[e]
  BY <1>6, <1>8 DEF ProfilesInv, AccessInOrder
<1> QED BY <1>2, <1>7, <1>8, <1>9, <1>10, AccessEnds

LEMMA CreateRolesStep ==
    ASSUME ProfilesInv, NEW a \in Agent, NEW d \in RoleDoc, CreateRoles(a, d),
           profileOps' \in 0..MaxProfileOps
    PROVE  ProfilesInv'
<1>1. PICK call : call = profileCalls[a]
  OBVIOUS
<1>2. PICK doc : doc = [of |-> call.of, isActive |-> TRUE]
  OBVIOUS
<1>3. /\ call # NULL /\ call.at = "roles.create" /\ profileCalls' = [profileCalls EXCEPT ![a] = NULL]
      /\ UNCHANGED <<people, profileRequests, had, access, tangled>>
      /\ roleDocs[d] = NULL /\ roleDocs' = [roleDocs EXCEPT ![d] = doc]
  BY <1>1, <1>2 DEF CreateRoles, At, Finish
<1>4. call \in ProfileCall /\ ProfileCallSound(call)
  BY <1>1, <1>3, ProfileCallOf
<1>5. PICK e \in Employee : e = call.of
  BY <1>3, <1>4 DEF ProfileCallSound, AccessSteps
<1>6. /\ e \notin tangled => access[e] = TRUE
      /\ e \notin tangled => RolesOf(e) = {}
  BY <1>3, <1>4, <1>5 DEF ProfileCallSound, AccessSteps
<1>7. Concerns(a, e)
  BY <1>1, <1>3, <1>5 DEF Concerns
<1>8. roleDocs \in [RoleDoc -> RolesDoc \cup {NULL}]
  BY DEF ProfilesInv, ProfilesTypeOK
<1>9. doc \in RolesDoc /\ doc # NULL /\ doc.of = e /\ doc.isActive = TRUE
  <2>1. doc.of = e /\ doc.isActive = TRUE
    BY <1>2, <1>5
  <2>2. doc \in [of : Employee, isActive : BOOLEAN]
    BY <1>2, <1>5
  <2> QED BY <2>1, <2>2, ProfilesAssumption DEF RolesDoc
<1>10. /\ roleDocs' \in [RoleDoc -> RolesDoc \cup {NULL}]
       /\ \A x \in Employee : RolesOf(x)' = IF x = e THEN RolesOf(x) \cup {d} ELSE RolesOf(x)
  BY <1>3, <1>8, <1>9 DEF RolesOf
<1>11. \A x \in Employee \ {e} : \A k \in RolesOf(x) : roleDocs'[k] = roleDocs[k]
  BY <1>3, <1>8 DEF RolesOf
<1>12. e \notin tangled => \A c, k \in RolesOf(e)' : c = k /\ roleDocs'[k].isActive = access[e]
  BY <1>3, <1>6, <1>8, <1>9, <1>10
<1>13. /\ \A x \in Employee : RolesOf(x) \subseteq RolesOf(x)'
       /\ \A x \in Employee \ {e} : RolesOf(x)' = RolesOf(x)
  BY <1>10
<1> QED BY <1>3, <1>7, <1>10, <1>11, <1>12, <1>13, AccessEnds

\* A handler that is cut short tangles the employee whose roles it was to write.
LEMMA ProfileCallFailsStep ==
    ASSUME ProfilesInv, NEW a \in Agent, ProfileCallFails(a), profileOps' \in 0..MaxProfileOps
    PROVE  ProfilesInv'
<1>1. /\ profileCalls' = [profileCalls EXCEPT ![a] = NULL]
      /\ tangled' = tangled \cup {e \in Employee : Concerns(a, e)}
      /\ UNCHANGED <<people, profileRequests, roleDocs, had, access>>
  BY DEF ProfileCallFails, profileDocs, Finish
<1>2. profileCalls \in [Agent -> ProfileCall \cup {NULL}] /\ tangled \subseteq Employee
  BY DEF ProfilesInv, ProfilesTypeOK
<1>3. tangled \subseteq tangled' /\ tangled' \subseteq Employee
  BY <1>1, <1>2
<1>4. ASSUME NEW b \in Agent, NEW x \in Employee
      PROVE  Concerns(b, x)' <=> b # a /\ Concerns(b, x)
  BY <1>1, <1>2 DEF Concerns
<1>5. \A x : RolesOf(x)' = RolesOf(x)
  BY <1>1 DEF RolesOf
<1>6. AccessInOrder'
  BY <1>3, <1>4, <1>5 DEF ProfilesInv, AccessInOrder
<1>7. RolesFollowAccess'
  <2> SUFFICES ASSUME NEW x \in Employee \ tangled', \A b \in Agent : ~ Concerns(b, x)',
                      NEW c \in RolesOf(x), NEW k \in RolesOf(x)
               PROVE  c = k /\ roleDocs[k].isActive = access[x]
    BY <1>1, <1>5 DEF RolesFollowAccess
  <2>1. ~ Concerns(a, x) /\ x \notin tangled
    BY <1>1
  <2>2. \A b \in Agent : ~ Concerns(b, x)
    BY <1>4, <2>1
  <2> QED BY <2>1, <2>2 DEF ProfilesInv, RolesFollowAccess
<1>8. RequestsKept
  BY <1>1 DEF RequestsKept
<1>9. ASSUME NEW b \in Agent, NEW call, call = profileCalls'[b], call # NULL
      PROVE  ProfileCallSound(call)'
  <2>1. call = profileCalls[b] /\ ProfileCallSound(call)
    BY <1>1, <1>2, <1>9 DEF ProfilesInv, ProfileCallsSound
  <2> QED BY <1>1, <1>3, <1>5, <1>8, <2>1, AppliedStays DEF ProfileCallSound, RequestsKept
<1>10. ApprovedWasApplied'
  BY <1>1, <1>8, ApprovedAfter
<1>11. ProfilesTypeOK'
  BY <1>1, <1>2, <1>3 DEF ProfilesInv, ProfilesTypeOK
<1> QED BY <1>6, <1>7, <1>9, <1>10, <1>11 DEF ProfilesInv, ProfileCallsSound

-----------------------------------------------------------------------------

LEMMA ProfileRequests ==
    ASSUME ProfilesInv, RequestProfile, profileOps' \in 0..MaxProfileOps
    PROVE  ProfilesInv'
<1>1. CASE \E e \in Employee, changes \in ProfileChanges, isActive \in BOOLEAN \cup {NULL} :
             UpdateProfile(e, changes, isActive)
  BY <1>1, UpdateProfileStep
<1>2. CASE \E q \in ProfileRequest, e \in Employee, changes \in ProfileChanges :
             CreateProfileChangeRequest(q, e, changes)
  BY <1>2, CreateProfileChangeRequestStep
<1>3. CASE \E a \in Agent, q \in ProfileRequest : ApproveProfileChangeRequest(a, q)
  BY <1>3, DecidesStep
<1>4. CASE \E a \in Agent, q \in ProfileRequest : RejectProfileChangeRequest(a, q)
  BY <1>4, DecidesStep
<1>5. CASE \E a \in Agent, e \in Employee : AssignRoles(a, e)
  BY <1>5, AssignRolesStep
<1>6. CASE \E a \in Agent, e \in Employee, isActive \in BOOLEAN : UpdateEmployeeStatus(a, e, isActive)
  BY <1>6, UpdateStatusStep
<1> QED BY <1>1, <1>2, <1>3, <1>4, <1>5, <1>6 DEF RequestProfile

LEMMA ProfileSteps ==
    ASSUME ProfilesInv, NEW a \in Agent, ProfileStep(a), profileOps' \in 0..MaxProfileOps
    PROVE  ProfilesInv'
<1>1. CASE ApproveProfile(a)
  BY <1>1, ApproveProfileStep
<1>2. CASE ApproveRequest(a)
  BY <1>2, SaveDecisionStep
<1>3. CASE RejectRequest(a)
  BY <1>3, SaveDecisionStep
<1>4. CASE UpdateStatusRoles(a)
  BY <1>4, UpdateStatusRolesStep
<1>5. CASE SaveRoles(a)
  BY <1>5, SaveRolesStep
<1>6. CASE \E d \in RoleDoc : CreateRoles(a, d)
  BY <1>6, CreateRolesStep
<1>7. CASE ProfileCallFails(a)
  BY <1>7, ProfileCallFailsStep
<1> QED BY <1>1, <1>2, <1>3, <1>4, <1>5, <1>6, <1>7 DEF ProfileStep

\* The inductive invariant: an approval about to be written was applied, and an
\* employee whose access was asked for in order has one handler and one document.
THEOREM ProfilesInvariant == ProfilesSpec => []ProfilesInv
<1>1. ProfilesInit => ProfilesInv
  BY ProfilesInitially
<1>2. ProfilesInv /\ [ProfilesNext]_profileVars => ProfilesInv'
  <2> SUFFICES ASSUME ProfilesInv, [ProfilesNext]_profileVars PROVE ProfilesInv'
    OBVIOUS
  <2>1. profileOps \in 0..MaxProfileOps
    BY DEF ProfilesInv, ProfilesTypeOK
  <2>2. CASE profileOps < MaxProfileOps /\ profileOps' = profileOps + 1 /\ RequestProfile
    <3>1. profileOps' \in 0..MaxProfileOps
      BY <2>1, <2>2, ProfilesAssumption
    <3> QED BY <2>2, <3>1, ProfileRequests
  <2>3. CASE profileOps' = profileOps /\ \E a \in Agent : ProfileStep(a)
    BY <2>1, <2>3, ProfileSteps
  <2>4. CASE UNCHANGED profileVars
    <3>1. /\ people' = people /\ profileRequests' = profileRequests /\ roleDocs' = roleDocs
          /\ profileCalls' = profileCalls /\ had' = had /\ access' = access
          /\ tangled' = tangled /\ profileOps' = profileOps
      BY <2>4 DEF profileVars, profileDocs
    <3>2. RequestsKept
      BY <3>1 DEF RequestsKept
    <3>3. ApprovedWasApplied'
      BY <3>1, <3>2, ApprovedAfter
    <3>4. ProfileCallsSound' /\ AccessInOrder' /\ RolesFollowAccess'
      BY <3>1, <3>2, ClericalStep
    <3>5. ProfilesTypeOK'
      BY <3>1 DEF ProfilesInv, ProfilesTypeOK
    <3> QED BY <3>3, <3>4, <3>5 DEF ProfilesInv
  <2> QED BY <2>2, <2>3, <2>4 DEF ProfilesNext
<1> QED BY <1>1, <1>2, PTL DEF ProfilesSpec

\* Type correctness of the profiles, requests, roles and handlers.
THEOREM ProfilesTypeCorrect == ProfilesSpec => []ProfilesTypeOK
<1>1. ProfilesInv => ProfilesTypeOK
  BY DEF ProfilesInv
<1> QED BY <1>1, ProfilesInvariant, PTL

\* An approved request was applied to the profile.
THEOREM ApprovalsWereApplied == ProfilesSpec => []ApprovedWasApplied
<1>1. ProfilesInv => ApprovedWasApplied
  BY DEF ProfilesInv
<1> QED BY <1>1, ProfilesInvariant, PTL

\* Roles follow the last request about access, where the requests come in order.
THEOREM RolesAreFollowing == ProfilesSpec => []RolesFollowAccess
<1>1. ProfilesInv => RolesFollowAccess
  BY DEF ProfilesInv
<1> QED BY <1>1, ProfilesInvariant, PTL

=============================================================================
