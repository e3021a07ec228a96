---------------------------- MODULE Organization -----------------------------
(***************************************************************************)
(* Positions, the employees who hold them, and the requests to change the  *)
(* structure.                                                              *)
(*                                                                         *)
(* A profile holds a position and that position's department, a position   *)
(* assignment records both.  Whom a position reports to, and with it the   *)
(* supervisor of a profile, is left out, and so are the logs of approvals. *)
(* A candidate who is converted brings a position and a department along,  *)
(* and HR may put an employee in any department.  An employee who is       *)
(* onboarded has neither, as those who are there from the start.           *)
(* positionWasIn, placedIn and unrecorded are history; orgOps bounds the   *)
(* exploration.                                                            *)
(***************************************************************************)
EXTENDS Integers, Handlers

CONSTANTS
    Position,           \* identifiers of positions
    Department,         \* departments
    Member,             \* employees, and candidates who may become some
    PositionAssignment, \* identifiers of position assignments
    ChangeRequest,      \* identifiers of structure change requests
    MaxOrgOps           \* bound on the requests that are handled

VARIABLES
    positions,           \* the position with an identifier, or NULL
    profiles,            \* the position and department of each employee
    employed,            \* those who have a profile
    positionAssignments, \* the assignment with an identifier, or NULL
    changeRequests,      \* the change request with an identifier, or NULL
    orgCalls,            \* the handlers in flight
    positionWasIn,       \* history: the departments that each position was in
    placedIn,            \* history: the departments that employees were put in
                         \* without a look at their positions
    unrecorded,          \* history: positions that employees were given and that
                         \* nothing is going to record
    orgOps               \* the requests that were handled or are in flight

staffing == <<employed, placedIn, unrecorded>>

orgVars == <<positions, profiles, positionAssignments, changeRequests,
             orgCalls, positionWasIn, staffing, orgOps>>

orgDocs == <<positions, profiles, positionAssignments, changeRequests, positionWasIn>>

RequestKind == {"UPDATE_POSITION", "CLOSE_POSITION"}

PositionDoc == [department : Department, isActive : BOOLEAN]

ProfileDoc == [position : Position \cup {NULL}, department : Department \cup {NULL}]

AssignedDoc ==
    [of : Member, position : Position, department : Department, open : BOOLEAN]

ChangeRequestDoc ==
    [kind : RequestKind, status : {"SUBMITTED", "APPROVED", "REJECTED"},
     position : Position, member : Member]

OrgCall ==
    [at : {"assign.activate", "assign.find", "assign.create", "assign.profile",
           "hold.profile", "hold.create"},
     member : Member, position : Position, department : Department, ends : BOOLEAN]
      \cup
    [at : {"assign.close"}, assignment : PositionAssignment,
     member : Member, position : Position, department : Department, ends : BOOLEAN]
      \cup
    [at : {"hold.activate", "remove.unset", "remove.delete"}, position : Position]
      \cup
    [at : {"apply"}, request : ChangeRequest]
      \cup
    [at : {"move.save"}, position : Position, read : Department, to : Department \cup {NULL}]
      \cup
    [at : {"move.propagate"}, position : Position, department : Department]

ASSUME OrganizationAssumption ==
    /\ MaxOrgOps \in Nat
    /\ NULL \notin PositionDoc \cup AssignedDoc \cup ChangeRequestDoc \cup OrgCall
                     \cup Position \cup Department

Exists(p) == positions[p] # NULL

-----------------------------------------------------------------------------
(* assignPosition, which a request to change an assignment calls as well.  *)

Assigning(where, e, p, ends) ==
    [at |-> where, member |-> e, position |-> p, department |-> positions[p].department,
     ends |-> ends]

FirstOf(p) == IF positions[p].isActive THEN "assign.find" ELSE "assign.activate"

\* ends: the request names the assignment's last day.
AssignPosition(a, e, p, ends) ==
    /\ Idle(orgCalls, a)
    /\ Exists(p)
    /\ orgCalls' = Begin(orgCalls, a, Assigning(FirstOf(p), e, p, ends))
    /\ UNCHANGED <<orgDocs, staffing>>

\* Mutant: the update inserts a position that was removed.
ActivatedAnew(p) ==
    [positions EXCEPT ![p] = IF @ = NULL THEN [isActive |-> TRUE] ELSE [@ EXCEPT !.isActive = TRUE]]

\* The positions after an update, which does nothing to one that was removed.
Activated(p) ==
    [positions EXCEPT ![p] = IF @ = NULL THEN NULL ELSE [@ EXCEPT !.isActive = TRUE]]

AssignActivate(a) ==
    /\ At(orgCalls, a, "assign.activate")
    /\ positions' = Activated(orgCalls[a].position)
    /\ orgCalls' = [orgCalls EXCEPT ![a].at = "assign.find"]
    /\ UNCHANGED <<profiles, positionAssignments, changeRequests, positionWasIn, staffing>>

OpenOf(e) ==
    {s \in PositionAssignment :
        /\ positionAssignments[s] # NULL
        /\ positionAssignments[s].of = e
        /\ positionAssignments[s].open}

\* One open assignment is found, if there is any.  With no such employee the
\* handler throws, as OrgCallFails has it.
AssignFind(a) ==
    /\ At(orgCalls, a, "assign.find")
    /\ orgCalls[a].member \in employed
    /\ LET call == orgCalls[a]
       IN  \/ /\ OpenOf(call.member) = {}
              /\ orgCalls' = [orgCalls EXCEPT ![a].at = "assign.create"]
           \/ \E s \in OpenOf(call.member) :
                orgCalls' = Begin(orgCalls, a,
                  [at |-> "assign.close", assignment |-> s, member |-> call.member,
                   position |-> call.position, department |-> call.department,
                   ends |-> call.ends])
    /\ UNCHANGED <<orgDocs, staffing>>

Onward(call, where) ==
    [at |-> where, member |-> call.member, position |-> call.position,
     department |-> call.department, ends |-> call.ends]

\* Mutant: no new assignment is made when there was one to close.
AssignReplace(a) ==
    /\ At(orgCalls, a, "assign.close")
    /\ positionAssignments' = [positionAssignments EXCEPT ![orgCalls[a].assignment].open = FALSE]
    /\ orgCalls' = Begin(orgCalls, a, Onward(orgCalls[a], "assign.profile"))
    /\ UNCHANGED <<positions, profiles, changeRequests, positionWasIn, staffing>>

AssignClose(a) ==
    /\ At(orgCalls, a, "assign.close")
    /\ positionAssignments' = [positionAssignments EXCEPT ![orgCalls[a].assignment].open = FALSE]
    /\ orgCalls' = Begin(orgCalls, a, Onward(orgCalls[a], "assign.create"))
    /\ UNCHANGED <<positions, profiles, changeRequests, positionWasIn, staffing>>

CreateAssigned(s, call) ==
    /\ positionAssignments[s] = NULL
    /\ positionAssignments' = [positionAssignments EXCEPT ![s] =
         [of |-> call.member, position |-> call.position, department |-> call.department,
          open |-> ~ call.ends]]

AssignCreate(a, s) ==
    /\ At(orgCalls, a, "assign.create")
    /\ CreateAssigned(s, orgCalls[a])
    /\ orgCalls' = [orgCalls EXCEPT ![a].at = "assign.profile"]
    /\ UNCHANGED <<positions, profiles, changeRequests, positionWasIn, staffing>>

TakesPosition(call) ==
    profiles' = [profiles EXCEPT ![call.member] =
                   [position |-> call.position, department |-> call.department]]

AssignProfile(a) ==
    /\ At(orgCalls, a, "assign.profile")
    /\ TakesPosition(orgCalls[a])
    /\ orgCalls' = Finish(orgCalls, a)
    /\ UNCHANGED <<positions, positionAssignments, changeRequests, positionWasIn, staffing>>

-----------------------------------------------------------------------------
(* The employee service's updatePosition: the profile comes first, and an  *)
(* assignment that is open stays open.                                     *)

HoldPosition(a, e, p) ==
    /\ Idle(orgCalls, a)
    /\ Exists(p)
    /\ ~ positions[p].isActive
    /\ orgCalls' = Begin(orgCalls, a, Assigning("hold.profile", e, p, FALSE))
    /\ UNCHANGED <<orgDocs, staffing>>

HoldProfile(a) ==
    /\ At(orgCalls, a, "hold.profile")
    /\ orgCalls[a].member \in employed
    /\ TakesPosition(orgCalls[a])
    /\ orgCalls' = [orgCalls EXCEPT ![a].at = "hold.create"]
    /\ UNCHANGED <<positions, positionAssignments, changeRequests, positionWasIn, staffing>>

HoldCreate(a, s) ==
    /\ At(orgCalls, a, "hold.create")
    /\ CreateAssigned(s, orgCalls[a])
    /\ orgCalls' = Begin(orgCalls, a,
         [at |-> "hold.activate", position |-> orgCalls[a].position])
    /\ UNCHANGED <<positions, profiles, changeRequests, positionWasIn, staffing>>

HoldActivate(a) ==
    /\ At(orgCalls, a, "hold.activate")
    /\ positions' = Activated(orgCalls[a].position)
    /\ orgCalls' = Finish(orgCalls, a)
    /\ UNCHANGED <<profiles, positionAssignments, changeRequests, positionWasIn, staffing>>

-----------------------------------------------------------------------------
(* The employee service's other two ways to a department or a position.    *)

WasCreated(p) == \E d \in Department : <<p, d>> \in positionWasIn

\* Whatever the position is.
UpdateDepartment(e, d) ==
    /\ e \in employed
    /\ profiles' = [profiles EXCEPT ![e].department = d]
    /\ placedIn' = placedIn \cup {<<e, d>>}
    /\ UNCHANGED <<positions, positionAssignments, changeRequests, orgCalls, positionWasIn,
                   employed, unrecorded>>

\* The profile takes the candidate's position and department, either of which
\* may be NULL; neither is compared with the other, and no assignment is made.
ConvertCandidateToEmployee(e, p, d) ==
    /\ e \notin employed
    /\ p = NULL \/ WasCreated(p)
    /\ profiles' = [profiles EXCEPT ![e] = [position |-> p, department |-> d]]
    /\ employed' = employed \cup {e}
    /\ placedIn' = placedIn \cup {<<e, d>>}
    /\ unrecorded' = unrecorded \cup ({<<e, p>>} \ {<<e, NULL>>})
    /\ UNCHANGED <<positions, positionAssignments, changeRequests, orgCalls, positionWasIn>>

-----------------------------------------------------------------------------
(* Positions.                                                              *)

\* An identifier is used once.
CreatePosition(p, d, isActive) ==
    /\ ~ WasCreated(p)
    /\ positions' = [positions EXCEPT ![p] = [department |-> d, isActive |-> isActive]]
    /\ positionWasIn' = positionWasIn \cup {<<p, d>>}
    /\ UNCHANGED <<profiles, positionAssignments, changeRequests, orgCalls, staffing>>

DeactivatePosition(p) ==
    /\ Exists(p)
    /\ positions' = [positions EXCEPT ![p].isActive = FALSE]
    /\ UNCHANGED <<profiles, positionAssignments, changeRequests, orgCalls, positionWasIn, staffing>>

\* to is NULL when the update leaves the department alone.
UpdatePosition(a, p, to) ==
    /\ Idle(orgCalls, a)
    /\ Exists(p)
    /\ orgCalls' = Begin(orgCalls, a,
         [at |-> "move.save", position |-> p, read |-> positions[p].department, to |-> to])
    /\ UNCHANGED <<orgDocs, staffing>>

\* isActive is NULL when the update leaves it alone.
UpdatePositionSave(a, isActive) ==
    /\ At(orgCalls, a, "move.save")
    /\ LET call == orgCalls[a]
           doc  == positions[call.position]
           new  == [department |-> IF call.to = NULL THEN doc.department ELSE call.to,
                    isActive   |-> IF isActive = NULL THEN doc.isActive ELSE isActive]
       IN  IF doc = NULL
           THEN /\ orgCalls' = Finish(orgCalls, a)
                /\ UNCHANGED <<positions, positionWasIn>>
           ELSE /\ positions' = [positions EXCEPT ![call.position] = new]
                /\ positionWasIn' = positionWasIn \cup {<<call.position, new.department>>}
                /\ orgCalls' = IF new.department = call.read
                               THEN Finish(orgCalls, a)
                               ELSE Begin(orgCalls, a,
                                      [at |-> "move.propagate", position |-> call.position,
                                       department |-> new.department])
    /\ UNCHANGED <<profiles, positionAssignments, changeRequests, staffing>>

\* Mutant: everyone is moved to the department.
Everyone(p) == Member

HoldersOf(p) == {e \in Member : profiles[e].position = p}

UpdatePositionPropagate(a) ==
    /\ At(orgCalls, a, "move.propagate")
    /\ LET call == orgCalls[a]
       IN  profiles' = [e \in Member |->
             IF e \in HoldersOf(call.position)
             THEN [profiles[e] EXCEPT !.department = call.department]
             ELSE profiles[e]]
    /\ orgCalls' = Finish(orgCalls, a)
    /\ UNCHANGED <<positions, positionAssignments, changeRequests, positionWasIn, staffing>>

RemovePosition(a, p) ==
    /\ Idle(orgCalls, a)
    /\ Exists(p)
    /\ orgCalls' = Begin(orgCalls, a, [at |-> "remove.unset", position |-> p])
    /\ UNCHANGED <<orgDocs, staffing>>

\* Whoever holds the position loses it, and keeps the department.
RemovePositionUnset(a) ==
    /\ At(orgCalls, a, "remove.unset")
    /\ profiles' = [e \in Member |->
         IF e \in HoldersOf(orgCalls[a].position)
         THEN [profiles[e] EXCEPT !.position = NULL] ELSE profiles[e]]
    /\ orgCalls' = [orgCalls EXCEPT ![a].at = "remove.delete"]
    /\ UNCHANGED <<positions, positionAssignments, changeRequests, positionWasIn, staffing>>

RemovePositionDelete(a) ==
    /\ At(orgCalls, a, "remove.delete")
    /\ positions' = [positions EXCEPT ![orgCalls[a].position] = NULL]
    /\ orgCalls' = Finish(orgCalls, a)
    /\ UNCHANGED <<profiles, positionAssignments, changeRequests, positionWasIn, staffing>>

-----------------------------------------------------------------------------
(* Change requests.                                                        *)

SubmitChangeRequest(q, kind, p, e) ==
    /\ changeRequests[q] = NULL
    /\ changeRequests' = [changeRequests EXCEPT ![q] =
         [kind |-> kind, status |-> "SUBMITTED", position |-> p, member |-> e]]
    /\ UNCHANGED <<positions, profiles, positionAssignments, orgCalls, positionWasIn, staffing>>

\* Whatever the status is, as for rejectChangeRequest.
ApproveChangeRequest(a, q) ==
    /\ Idle(orgCalls, a)
    /\ changeRequests[q] # NULL
    /\ changeRequests' = [changeRequests EXCEPT ![q].status = "APPROVED"]
    /\ orgCalls' = Begin(orgCalls, a, [at |-> "apply", request |-> q])
    /\ UNCHANGED <<positions, profiles, positionAssignments, positionWasIn, staffing>>

RejectChangeRequest(q) ==
    /\ changeRequests[q] # NULL
    /\ changeRequests' = [changeRequests EXCEPT ![q].status = "REJECTED"]
    /\ UNCHANGED <<positions, profiles, positionAssignments, orgCalls, positionWasIn, staffing>>

\* An error of what the request asks for is caught.
ApplyChangeRequest(a) ==
    /\ At(orgCalls, a, "apply")
    /\ LET request == changeRequests[orgCalls[a].request]
           p == request.position
       IN  IF ~ Exists(p)
           THEN /\ orgCalls' = Finish(orgCalls, a)
                /\ UNCHANGED positions
           ELSE \/ /\ request.kind = "UPDATE_POSITION"
                   /\ orgCalls' = Begin(orgCalls, a,
                        Assigning(FirstOf(p), request.member, p, FALSE))
                   /\ UNCHANGED positions
                \/ /\ request.kind = "CLOSE_POSITION"
                   /\ positions' = [positions EXCEPT ![p].isActive = FALSE]
                   /\ orgCalls' = Finish(orgCalls, a)
    /\ UNCHANGED <<profiles, positionAssignments, changeRequests, positionWasIn, staffing>>

-----------------------------------------------------------------------------

\* A database call throws, or the process stops.
OrgCallFails(a) ==
    /\ ~ Idle(orgCalls, a)
    /\ unrecorded' = IF At(orgCalls, a, "hold.create")
                     THEN unrecorded \cup {<<orgCalls[a].member, orgCalls[a].position>>}
                     ELSE unrecorded
    /\ orgCalls' = Finish(orgCalls, a)
    /\ UNCHANGED <<orgDocs, employed, placedIn>>

OrganizationInit ==
    /\ positions = [p \in Position |-> NULL]
    /\ profiles = [e \in Member |-> [position |-> NULL, department |-> NULL]]
    /\ positionAssignments = [s \in PositionAssignment |-> NULL]
    /\ changeRequests = [q \in ChangeRequest |-> NULL]
    /\ orgCalls = [a \in Agent |-> NULL]
    /\ positionWasIn = {}
    /\ employed \in SUBSET Member
    /\ placedIn = {}
    /\ unrecorded = {}
    /\ orgOps = 0

RequestOrg ==
    \/ \E p \in Position :
         \/ \E d \in Department, isActive \in BOOLEAN : CreatePosition(p, d, isActive)
         \/ DeactivatePosition(p)
         \/ \E a \in Agent :
              \/ \E e \in Member, ends \in BOOLEAN : AssignPosition(a, e, p, ends)
              \/ \E e \in Member : HoldPosition(a, e, p)
              \/ \E to \in Department \cup {NULL} : UpdatePosition(a, p, to)
              \/ RemovePosition(a, p)
    \/ \E q \in ChangeRequest :
         \/ \E kind \in RequestKind, p \in Position, e \in Member : SubmitChangeRequest(q, kind, p, e)
         \/ \E a \in Agent : ApproveChangeRequest(a, q)
         \/ RejectChangeRequest(q)
    \/ \E e \in Member :
         \/ \E d \in Department : UpdateDepartment(e, d)
         \/ \E p \in Position \cup {NULL}, d \in Department \cup {NULL} :
              ConvertCandidateToEmployee(e, p, d)

OrgStep(a) ==
    \/ AssignActivate(a) \/ AssignFind(a) \/ AssignClose(a)
    \/ \E s \in PositionAssignment : AssignCreate(a, s)
    \/ AssignProfile(a)
    \/ HoldProfile(a) \/ HoldActivate(a)
    \/ \E s \in PositionAssignment : HoldCreate(a, s)
    \/ \E isActive \in BOOLEAN \cup {NULL} : UpdatePositionSave(a, isActive)
    \/ UpdatePositionPropagate(a)
    \/ RemovePositionUnset(a) \/ RemovePositionDelete(a)
    \/ ApplyChangeRequest(a)
    \/ OrgCallFails(a)

OrganizationNext ==
    \/ /\ orgOps < MaxOrgOps
       /\ orgOps' = orgOps + 1
       /\ RequestOrg
    \/ /\ orgOps' = orgOps
       /\ \E a \in Agent : OrgStep(a)

OrganizationSpec == OrganizationInit /\ [][OrganizationNext]_orgVars

-----------------------------------------------------------------------------
(* Properties.                                                             *)

\* Every document, call in flight and history has its type.
OrganizationTypeOK ==
    /\ positions \in [Position -> PositionDoc \cup {NULL}]
    /\ profiles \in [Member -> ProfileDoc]
    /\ positionAssignments \in [PositionAssignment -> AssignedDoc \cup {NULL}]
    /\ changeRequests \in [ChangeRequest -> ChangeRequestDoc \cup {NULL}]
    /\ orgCalls \in [Agent -> OrgCall \cup {NULL}]
    /\ positionWasIn \subseteq Position \X Department
    /\ employed \subseteq Member
    /\ placedIn \subseteq Member \X (Department \cup {NULL})
    /\ unrecorded \subseteq Member \X Position
    /\ orgOps \in 0..MaxOrgOps

\* An employee's department is one that the employee's position was in, although
\* positions move while they are assigned, or one that the employee was put in by
\* hand or as a candidate: it may be an old one of that position, but what only
\* another position was in never gets there, whoever holds that one.
DepartmentWasOfPosition ==
    \A e \in Member :
      profiles[e].position # NULL =>
        \/ <<profiles[e].position, profiles[e].department>> \in positionWasIn
        \/ <<e, profiles[e].department>> \in placedIn

Recorded(e, p) ==
    \E s \in PositionAssignment :
      positionAssignments[s] # NULL /\ positionAssignments[s].of = e /\ positionAssignments[s].position = p

\* Agent a is about to record position p of employee e.
WillRecord(a, e, p) ==
    At(orgCalls, a, "hold.create") /\ orgCalls[a].member = e /\ orgCalls[a].position = p

\* The position that an employee holds is in the employee's assignments, but for
\* the moment in which updatePosition has still to record that one, one that it
\* was cut short with, and one that the employee brought along as a candidate.
PositionIsRecorded ==
    \A e \in Member :
      profiles[e].position # NULL =>
        \/ Recorded(e, profiles[e].position)
        \/ <<e, profiles[e].position>> \in unrecorded
        \/ \E a \in Agent : WillRecord(a, e, profiles[e].position)

=============================================================================
