------------------------------- MODULE Profiles -------------------------------
(***************************************************************************)
(* Employee profiles, the requests to correct them, and the roles.         *)
(*                                                                         *)
(* An approval writes the profile and then the request.  A change of the   *)
(* status writes the profile and then one document of the employee's       *)
(* roles; roles are looked for and then created, with nothing that would   *)
(* keep a second document out.  Organization has the position in the       *)
(* profile.  had, access and tangled are history; profileOps bounds the    *)
(* exploration.                                                            *)
(***************************************************************************)
EXTENDS Integers, Handlers

CONSTANTS
    Employee,        \* employees
    ProfileRequest,  \* identifiers of the requests to correct a profile
    RoleDoc,         \* identifiers of the documents with an employee's roles
    Datum,           \* legal names, marital statuses
    MaxProfileOps    \* bound on the requests that are handled

VARIABLES
    people,          \* the profile of each employee
    profileRequests, \* the request with an identifier, or NULL
    roleDocs,        \* the roles with an identifier, or NULL
    profileCalls,    \* the handlers in flight
    had,             \* history: what the profiles said at some time
    access,          \* history: what was last asked for an employee's access
    tangled,         \* history: employees for whom such requests overlapped or failed
    profileOps       \* the requests that were handled or are in flight

profileDocs == <<people, profileRequests, roleDocs, had>>

profileVars == <<profileDocs, profileCalls, access, tangled, profileOps>>

Field == {"legalName", "maritalStatus"}

\* isActive: the status is ACTIVE, PROBATION or ON_LEAVE.
PersonDoc == [data : [Field -> Datum], isActive : BOOLEAN]

ProfileChanges == [Field -> Datum \cup {NULL}]

RequestDoc ==
    [of : Employee, asks : ProfileChanges, status : {"PENDING", "APPROVED", "REJECTED"}]

RolesDoc == [of : Employee, isActive : BOOLEAN]

ProfileCall ==
    [at : {"approve.profile", "approve.request", "reject.request",
           "status.roles", "roles.save", "roles.create"},
     request : ProfileRequest \cup {NULL}, of : Employee \cup {NULL},
     role : RoleDoc \cup {NULL}, isActive : BOOLEAN]

ASSUME ProfilesAssumption ==
    /\ MaxProfileOps \in Nat
    /\ NULL \notin Employee \cup ProfileRequest \cup RoleDoc \cup Datum
    /\ NULL \notin RequestDoc \cup RolesDoc \cup ProfileCall

RolesOf(e) == {d \in RoleDoc : roleDocs[d] # NULL /\ roleDocs[d].of = e}

\* The handler is about to write the roles of the employee.
Concerns(b, e) ==
    /\ profileCalls[b] # NULL
    /\ profileCalls[b].at \in {"status.roles", "roles.save", "roles.create"}
    /\ profileCalls[b].of = e

-----------------------------------------------------------------------------
(* Profiles and the requests to correct them.                              *)

Merged(data, changes) == [f \in Field |-> IF changes[f] = NULL THEN data[f] ELSE changes[f]]

\* The values that a profile has when it says data.
Says(e, data) == {<<e, f, data[f]>> : f \in Field}

PutData(e, data, isActive) ==
    /\ people' = [people EXCEPT ![e] = [data |-> data, isActive |-> isActive]]
    /\ had' = had \cup Says(e, data)

\* The employee's own update, or HR's, which may name a status and does nothing
\* about the roles.
UpdateProfile(e, changes, isActive) ==
    /\ PutData(e, Merged(people[e].data, changes),
               IF isActive = NULL THEN people[e].isActive ELSE isActive)
    /\ UNCHANGED <<profileRequests, roleDocs, profileCalls, access, tangled>>

CreateProfileChangeRequest(q, e, asks) ==
    /\ profileRequests[q] = NULL
    /\ \E f \in Field : asks[f] # NULL
    /\ profileRequests' = [profileRequests EXCEPT ![q] =
         [of |-> e, asks |-> asks, status |-> "PENDING"]]
    /\ UNCHANGED <<people, roleDocs, profileCalls, had, access, tangled>>

\* A decision is checked against the status that was read.
Decides(a, q, where) ==
    /\ Idle(profileCalls, a)
    /\ profileRequests[q] # NULL
    /\ profileRequests[q].status = "PENDING"
    /\ profileCalls' = Begin(profileCalls, a,
         [at |-> where, request |-> q, of |-> NULL, role |-> NULL, isActive |-> TRUE])
    /\ UNCHANGED <<profileDocs, access, tangled>>

\* Mutant: the request is written first.
ApproveRequestFirst(a, q) == Decides(a, q, "approve.request")

ApproveProfileChangeRequest(a, q) == Decides(a, q, "approve.profile")

RejectProfileChangeRequest(a, q) == Decides(a, q, "reject.request")

ApproveProfile(a) ==
    /\ At(profileCalls, a, "approve.profile")
    /\ LET req == profileRequests[profileCalls[a].request]
       IN  PutData(req.of, Merged(people[req.of].data, req.asks), people[req.of].isActive)
    /\ profileCalls' = [profileCalls EXCEPT ![a].at = "approve.request"]
    /\ UNCHANGED <<profileRequests, roleDocs, access, tangled>>

\* The decision is written whatever the status has become.
SaveDecision(a, where, status) ==
    /\ At(profileCalls, a, where)
    /\ profileRequests' = [profileRequests EXCEPT ![profileCalls[a].request].status = status]
    /\ profileCalls' = Finish(profileCalls, a)
    /\ UNCHANGED <<people, roleDocs, had, access, tangled>>

ApproveRequest(a) == SaveDecision(a, "approve.request", "APPROVED")

RejectRequest(a) == SaveDecision(a, "reject.request", "REJECTED")

-----------------------------------------------------------------------------
(* Status and roles.                                                       *)

\* A request about the access of an employee.
StartsAccess(a, where, e, d, isActive) ==
    /\ Idle(profileCalls, a)
    /\ profileCalls' = Begin(profileCalls, a,
         [at |-> where, request |-> NULL, of |-> e, role |-> d, isActive |-> isActive])
    /\ access' = [access EXCEPT ![e] = isActive]
    /\ tangled' = IF \E b \in Agent : Concerns(b, e) THEN tangled \cup {e} ELSE tangled

UpdateEmployeeStatus(a, e, isActive) ==
    /\ StartsAccess(a, "status.roles", e, NULL, isActive)
    /\ PutData(e, people[e].data, isActive)
    /\ UNCHANGED <<profileRequests, roleDocs>>

\* One document is written, or none if there is none.
UpdateStatusRoles(a) ==
    /\ At(profileCalls, a, "status.roles")
    /\ LET call == profileCalls[a]
       IN  \/ /\ RolesOf(call.of) = {}
              /\ roleDocs' = roleDocs
           \/ \E d \in RolesOf(call.of) :
                roleDocs' = [roleDocs EXCEPT ![d].isActive = call.isActive]
    /\ profileCalls' = Finish(profileCalls, a)
    /\ UNCHANGED <<people, profileRequests, had, access, tangled>>

\* Mutant: roles are created without a look at those there are.
AssignNewRoles(a, e) ==
    /\ StartsAccess(a, "roles.create", e, NULL, TRUE)
    /\ UNCHANGED profileDocs

AssignRoles(a, e) ==
    /\ \/ /\ RolesOf(e) = {}
          /\ StartsAccess(a, "roles.create", e, NULL, TRUE)
       \/ \E d \in RolesOf(e) : StartsAccess(a, "roles.save", e, d, TRUE)
    /\ UNCHANGED profileDocs

SaveRoles(a) ==
    /\ At(profileCalls, a, "roles.save")
    /\ roleDocs' = [roleDocs EXCEPT ![profileCalls[a].role].isActive = TRUE]
    /\ profileCalls' = Finish(profileCalls, a)
    /\ UNCHANGED <<people, profileRequests, had, access, tangled>>

CreateRoles(a, d) ==
    /\ At(profileCalls, a, "roles.create")
    /\ roleDocs[d] = NULL
    /\ roleDocs' = [roleDocs EXCEPT ![d] = [of |-> profileCalls[a].of, isActive |-> TRUE]]
    /\ profileCalls' = Finish(profileCalls, a)
    /\ UNCHANGED <<people, profileRequests, had, access, tangled>>

-----------------------------------------------------------------------------

\* A database call throws, or the process stops.
ProfileCallFails(a) ==
    /\ ~ Idle(profileCalls, a)
    /\ profileCalls' = Finish(profileCalls, a)
    /\ tangled' = tangled \cup {e \in Employee : Concerns(a, e)}
    /\ UNCHANGED <<profileDocs, access>>

ProfilesInit ==
    /\ people \in [Employee -> PersonDoc]
    /\ profileRequests = [q \in ProfileRequest |-> NULL]
    /\ roleDocs = [d \in RoleDoc |-> NULL]
    /\ profileCalls = [a \in Agent |-> NULL]
    /\ had = UNION {Says(e, people[e].data) : e \in Employee}
    /\ access = [e \in Employee |-> TRUE]
    /\ tangled = {}
    /\ profileOps = 0

RequestProfile ==
    \/ \E e \in Employee, changes \in ProfileChanges :
         \/ \E isActive \in BOOLEAN \cup {NULL} : UpdateProfile(e, changes, isActive)
         \/ \E q \in ProfileRequest : CreateProfileChangeRequest(q, e, changes)
    \/ \E a \in Agent :
         \/ \E q \in ProfileRequest :
              ApproveProfileChangeRequest(a, q) \/ RejectProfileChangeRequest(a, q)
         \/ \E e \in Employee :
              \/ AssignRoles(a, e)
              \/ \E isActive \in BOOLEAN : UpdateEmployeeStatus(a, e, isActive)

ProfileStep(a) ==
    \/ ApproveProfile(a) \/ ApproveRequest(a) \/ RejectRequest(a)
    \/ UpdateStatusRoles(a)
    \/ SaveRoles(a)
    \/ \E d \in RoleDoc : CreateRoles(a, d)
    \/ ProfileCallFails(a)

ProfilesNext ==
    \/ /\ profileOps < MaxProfileOps
       /\ profileOps' = profileOps + 1
       /\ RequestProfile
    \/ /\ profileOps' = profileOps
       /\ \E a \in Agent : ProfileStep(a)

ProfilesSpec == ProfilesInit /\ [][ProfilesNext]_profileVars

-----------------------------------------------------------------------------
(* Properties.                                                             *)

\* Every document, call in flight and history has its type.
ProfilesTypeOK ==
    /\ people \in [Employee -> PersonDoc]
    /\ profileRequests \in [ProfileRequest -> RequestDoc \cup {NULL}]
    /\ roleDocs \in [RoleDoc -> RolesDoc \cup {NULL}]
    /\ profileCalls \in [Agent -> ProfileCall \cup {NULL}]
    /\ had \subseteq Employee \X Field \X Datum
    /\ access \in [Employee -> BOOLEAN]
    /\ tangled \subseteq Employee
    /\ profileOps \in 0..MaxProfileOps

\* A request is approved only if the profile said all it asks for at some time,
\* wherever an approval is cut short and whatever decisions overlap.
ApprovedWasApplied ==
    \A q \in ProfileRequest :
      profileRequests[q] # NULL /\ profileRequests[q].status = "APPROVED" =>
        \A f \in Field :
          LET asked == profileRequests[q].asks[f]
          IN  asked # NULL => <<profileRequests[q].of, f, asked>> \in had

\* Requests about an employee's access that come one after the other, and are
\* not cut short, leave at most one document of roles, which is active just if
\* the last of them said so: nobody who was terminated keeps an active role.
RolesFollowAccess ==
    \A e \in Employee \ tangled :
      (\A a \in Agent : ~ Concerns(a, e)) =>
        \A c, d \in RolesOf(e) : c = d /\ roleDocs[d].isActive = access[e]

=============================================================================
