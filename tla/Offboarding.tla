----------------------------- MODULE Offboarding -----------------------------
(***************************************************************************)
(* Leaving the company: a termination request, the clearance checklist the *)
(* departments sign and property is returned on, the approval that follows *)
(* (automatic, or HR's) and the revocation of the employee's access.       *)
(*                                                                         *)
(* As in Offers, a handler is a record in calls: where it stands, and what *)
(* it read that it will write.  Between two of its awaited calls any other *)
(* handler may run.  A sign-off and a return write back the whole          *)
(* checklist they read.                                                    *)
(*                                                                         *)
(* granted, approvals and overruled are history: no handler reads them.    *)
(***************************************************************************)
EXTENDS Naturals, FiniteSets

CONSTANTS
    Employee,      \* employees with a signed contract
    Termination,   \* identifiers of termination requests
    Checklist,     \* identifiers of clearance checklists
    Department,    \* the departments that sign a checklist
    Equipment,     \* the equipment on it
    Agent,         \* requests the server has in flight at a time
    MaxFailures,   \* bound on handlers that are cut short
    Card,          \* the access card
    NULL

VARIABLES
    requests,     \* termination requests: [employee, status] or NULL
    checklists,   \* clearance checklists: [termination, items, equipment, card] or NULL
    benefits,     \* the requests a termination benefit was recorded for
    terminated,   \* employees whose profile has status TERMINATED
    deactivated,  \* employees whose system role has isActive FALSE
    calls,        \* the handlers in flight
    failures,     \* how many handlers were cut short
    granted,      \* history: what was ever signed or returned on a checklist
    approvals,    \* history: the requests that were ever approved
    overruled     \* history: the requests HR gave a status other than approved

requestVars == <<requests, benefits>>
accessVars  == <<terminated, deactivated>>
historyVars == <<granted, approvals, overruled>>
vars == <<requests, checklists, benefits, terminated, deactivated, calls, failures,
          granted, approvals, overruled>>

TerminationStatus == {"pending", "under_review", "approved", "rejected"}
ApprovalStatus == {"pending", "approved", "rejected"}

RequestDoc == [employee : Employee, status : TerminationStatus]

ChecklistDoc ==
    [termination : Termination,
     items       : [Department -> ApprovalStatus],
     equipment   : [Equipment -> BOOLEAN],
     card        : BOOLEAN]

Requirement == Department \cup Equipment \cup {Card}

Call ==
    [at : {"initiate.request"}, employee : Employee]
      \cup
    [at : {"initiate.benefit", "create.checklist", "revoke.checklist",
           "revoke.profile", "revoke.role"},
     request : Termination]
      \cup
    [at : {"clear.save"}, checklist : Checklist, doc : ChecklistDoc]
      \cup
    [at : {"auto.read", "auto.save"}, checklist : Checklist]
      \cup
    [at : {"decide.save"}, request : Termination, status : TerminationStatus]

ASSUME OffboardingAssumption ==
    /\ MaxFailures \in Nat
    /\ NULL \notin RequestDoc \cup ChecklistDoc \cup Call
    /\ Card \notin Department \cup Equipment
    /\ Department \cap Equipment = {}

Idle(a) == calls[a] = NULL

At(a, where) == calls[a] # NULL /\ calls[a].at = where

Begin(a, call) == calls' = [calls EXCEPT ![a] = call]

Finish(a) == calls' = [calls EXCEPT ![a] = NULL]

\* What findByTerminationId may return.
ChecklistsOf(t) == {k \in Checklist : checklists[k] # NULL /\ checklists[k].termination = t}

\* Mutant: the access card is forgotten.
CompleteButCard(doc) ==
    /\ \A d \in Department : doc.items[d] = "approved"
    /\ \A e \in Equipment : doc.equipment[e]

\* All departments approved, all equipment and the card returned.
Complete(doc) ==
    /\ \A d \in Department : doc.items[d] = "approved"
    /\ \A e \in Equipment : doc.equipment[e]
    /\ doc.card

\* The bounds on new documents: a handler begins only if it will find an unused
\* identifier for what it creates.
Creating(steps) == {a \in Agent : \E where \in steps : At(a, where)}

RoomForRequest ==
    Cardinality(Creating({"initiate.request"}))
      < Cardinality({t \in Termination : requests[t] = NULL})

RoomForChecklist ==
    Cardinality(Creating({"initiate.request", "initiate.benefit", "create.checklist"}))
      < Cardinality({k \in Checklist : checklists[k] = NULL})

-----------------------------------------------------------------------------
(* initiateTerminationReview and submitResignation.                        *)

\* findActiveByEmployeeId asks for these two statuses, in upper case.
SoughtAsActive == {"PENDING", "UNDER_REVIEW"}

InitiateTermination(a, e) ==
    /\ Idle(a)
    /\ RoomForRequest /\ RoomForChecklist
    /\ \A t \in Termination :
         requests[t] # NULL /\ requests[t].employee = e
           => requests[t].status \notin SoughtAsActive
    /\ Begin(a, [at |-> "initiate.request", employee |-> e])
    /\ UNCHANGED <<requestVars, checklists, accessVars, failures, historyVars>>

CreateRequest(a, t) ==
    /\ At(a, "initiate.request")
    /\ requests[t] = NULL
    /\ requests' = [requests EXCEPT ![t] = [employee |-> calls[a].employee,
                                            status   |-> "pending"]]
    /\ Begin(a, [at |-> "initiate.benefit", request |-> t])
    /\ UNCHANGED <<benefits, checklists, accessVars, failures, historyVars>>

\* The benefit is found and recorded, or anything on the way fails and is caught.
CreateBenefit(a) ==
    /\ At(a, "initiate.benefit")
    /\ benefits' \in {benefits, benefits \cup {calls[a].request}}
    /\ Begin(a, [at |-> "create.checklist", request |-> calls[a].request])
    /\ UNCHANGED <<requests, checklists, accessVars, failures, historyVars>>

NewChecklist(t) ==
    [termination |-> t,
     items       |-> [d \in Department |-> "pending"],
     equipment   |-> [e \in Equipment |-> FALSE],
     card        |-> FALSE]

CreateChecklist(a, k) ==
    /\ At(a, "create.checklist")
    /\ checklists[k] = NULL
    /\ checklists' = [checklists EXCEPT ![k] = NewChecklist(calls[a].request)]
    /\ Finish(a)
    /\ UNCHANGED <<requestVars, accessVars, failures, historyVars>>

InitiateOffboardingChecklist(a, t) ==
    /\ Idle(a)
    /\ requests[t] # NULL
    /\ ChecklistsOf(t) = {}
    /\ RoomForChecklist
    /\ Begin(a, [at |-> "create.checklist", request |-> t])
    /\ UNCHANGED <<requestVars, checklists, accessVars, failures, historyVars>>

-----------------------------------------------------------------------------
(* processDepartmentSignOff, updateEquipmentReturnStatus and               *)
(* updateAccessCardReturnStatus, with checkAndAutoApproveTermination.      *)

Grant(k, x, given) ==
    granted' = IF given THEN [granted EXCEPT ![k] = @ \cup {x}] ELSE granted

ProcessDepartmentSignOff(a, k, d, status) ==
    /\ Idle(a)
    /\ checklists[k] # NULL
    /\ Begin(a, [at |-> "clear.save", checklist |-> k,
                 doc |-> [checklists[k] EXCEPT !.items[d] = status]])
    /\ Grant(k, d, status = "approved")
    /\ UNCHANGED <<requestVars, checklists, accessVars, failures, approvals, overruled>>

UpdateEquipmentReturnStatus(a, k, e, returned) ==
    /\ Idle(a)
    /\ checklists[k] # NULL
    /\ Begin(a, [at |-> "clear.save", checklist |-> k,
                 doc |-> [checklists[k] EXCEPT !.equipment[e] = returned]])
    /\ Grant(k, e, returned)
    /\ UNCHANGED <<requestVars, checklists, accessVars, failures, approvals, overruled>>

UpdateAccessCardReturnStatus(a, k, returned) ==
    /\ Idle(a)
    /\ checklists[k] # NULL
    /\ Begin(a, [at |-> "clear.save", checklist |-> k,
                 doc |-> [checklists[k] EXCEPT !.card = returned]])
    /\ Grant(k, Card, returned)
    /\ UNCHANGED <<requestVars, checklists, accessVars, failures, approvals, overruled>>

\* Mutant: nothing looks at the checklist after it is saved.
ClearSaveOnly(a) ==
    /\ At(a, "clear.save")
    /\ checklists' = [checklists EXCEPT ![calls[a].checklist] = calls[a].doc]
    /\ Finish(a)
    /\ UNCHANGED <<requestVars, accessVars, failures, historyVars>>

ClearSave(a) ==
    /\ At(a, "clear.save")
    /\ checklists' = [checklists EXCEPT ![calls[a].checklist] = calls[a].doc]
    /\ Begin(a, [at |-> "auto.read", checklist |-> calls[a].checklist])
    /\ UNCHANGED <<requestVars, accessVars, failures, historyVars>>

AutoRead(a) ==
    /\ At(a, "auto.read")
    /\ LET k == calls[a].checklist
       IN  IF Complete(checklists[k])
           THEN Begin(a, [at |-> "auto.save", checklist |-> k])
           ELSE Finish(a)
    /\ UNCHANGED <<requestVars, checklists, accessVars, failures, historyVars>>

SetStatus(t, status) ==
    /\ requests' = [requests EXCEPT ![t].status = status]
    /\ approvals' = IF status = "approved" THEN approvals \cup {t} ELSE approvals
    /\ overruled' = IF status = "approved" THEN overruled ELSE overruled \cup {t}

\* The request is read before it is written: one that is approved already is
\* left alone, which comes to the same.
AutoSave(a) ==
    /\ At(a, "auto.save")
    /\ SetStatus(checklists[calls[a].checklist].termination, "approved")
    /\ Finish(a)
    /\ UNCHANGED <<benefits, checklists, accessVars, failures, granted>>

-----------------------------------------------------------------------------
(* approveTermination: HR sets a status, from whatever status.             *)

ApproveTermination(a, t, status) ==
    /\ Idle(a)
    /\ requests[t] # NULL
    /\ status = "approved" => \E k \in ChecklistsOf(t) : Complete(checklists[k])
    /\ Begin(a, [at |-> "decide.save", request |-> t, status |-> status])
    /\ UNCHANGED <<requestVars, checklists, accessVars, failures, historyVars>>

DecideSave(a) ==
    /\ At(a, "decide.save")
    /\ SetStatus(calls[a].request, calls[a].status)
    /\ Finish(a)
    /\ UNCHANGED <<benefits, checklists, accessVars, failures, granted>>

-----------------------------------------------------------------------------
(* revokeSystemAccess, with EmployeeService.updateStatus.                  *)

\* Mutant: the status of the request is not looked at.
RevokeWhatever(a, t) ==
    /\ Idle(a)
    /\ requests[t] # NULL
    /\ Begin(a, [at |-> "revoke.checklist", request |-> t])
    /\ UNCHANGED <<requestVars, checklists, accessVars, failures, historyVars>>

\* Mutant: an employee that is terminated already is refused.
RevokeOnce(a, t) ==
    /\ Idle(a)
    /\ requests[t] # NULL
    /\ requests[t].status = "approved"
    /\ requests[t].employee \notin terminated
    /\ Begin(a, [at |-> "revoke.checklist", request |-> t])
    /\ UNCHANGED <<requestVars, checklists, accessVars, failures, historyVars>>

RevokeSystemAccess(a, t) ==
    /\ Idle(a)
    /\ requests[t] # NULL
    /\ requests[t].status = "approved"
    /\ Begin(a, [at |-> "revoke.checklist", request |-> t])
    /\ UNCHANGED <<requestVars, checklists, accessVars, failures, historyVars>>

RevokeReadChecklist(a) ==
    /\ At(a, "revoke.checklist")
    /\ LET t == calls[a].request
       IN  \/ /\ \E k \in ChecklistsOf(t) : Complete(checklists[k])
              /\ Begin(a, [at |-> "revoke.profile", request |-> t])
           \/ /\ \/ ChecklistsOf(t) = {}
                 \/ \E k \in ChecklistsOf(t) : ~ Complete(checklists[k])
              /\ Finish(a)
    /\ UNCHANGED <<requestVars, checklists, accessVars, failures, historyVars>>

RevokeSaveProfile(a) ==
    /\ At(a, "revoke.profile")
    /\ terminated' = terminated \cup {requests[calls[a].request].employee}
    /\ Begin(a, [at |-> "revoke.role", request |-> calls[a].request])
    /\ UNCHANGED <<requestVars, checklists, deactivated, failures, historyVars>>

RevokeSaveRole(a) ==
    /\ At(a, "revoke.role")
    /\ deactivated' = deactivated \cup {requests[calls[a].request].employee}
    /\ Finish(a)
    /\ UNCHANGED <<requestVars, checklists, terminated, failures, historyVars>>

-----------------------------------------------------------------------------

\* An awaited call throws, or the process stops.
CallFails(a) ==
    /\ ~ Idle(a)
    /\ failures < MaxFailures
    /\ failures' = failures + 1
    /\ Finish(a)
    /\ UNCHANGED <<requestVars, checklists, accessVars, historyVars>>

Init ==
    /\ requests = [t \in Termination |-> NULL]
    /\ checklists = [k \in Checklist |-> NULL]
    /\ benefits = {}
    /\ terminated = {}
    /\ deactivated = {}
    /\ calls = [a \in Agent |-> NULL]
    /\ failures = 0
    /\ granted = [k \in Checklist |-> {}]
    /\ approvals = {}
    /\ overruled = {}

Clearing(a, k) ==
    \/ \E d \in Department, s \in ApprovalStatus : ProcessDepartmentSignOff(a, k, d, s)
    \/ \E e \in Equipment, b \in BOOLEAN : UpdateEquipmentReturnStatus(a, k, e, b)
    \/ \E b \in BOOLEAN : UpdateAccessCardReturnStatus(a, k, b)

Deciding(a, t) ==
    \/ InitiateOffboardingChecklist(a, t)
    \/ \E s \in TerminationStatus : ApproveTermination(a, t, s)
    \/ RevokeSystemAccess(a, t)

Request(a) ==
    \/ \E e \in Employee : InitiateTermination(a, e)
    \/ \E k \in Checklist : Clearing(a, k)
    \/ \E t \in Termination : Deciding(a, t)

Step(a) ==
    \/ \E t \in Termination : CreateRequest(a, t)
    \/ CreateBenefit(a)
    \/ \E k \in Checklist : CreateChecklist(a, k)
    \/ ClearSave(a) \/ AutoRead(a) \/ AutoSave(a) \/ DecideSave(a)
    \/ RevokeReadChecklist(a) \/ RevokeSaveProfile(a) \/ RevokeSaveRole(a)

Next == \E a \in Agent : Request(a) \/ Step(a) \/ CallFails(a)

Spec == Init /\ [][Next]_vars

\* Node runs on every callback it has (weak fairness of each handler), and the
\* administrator keeps trying to revoke the access of whoever is ready for it
\* (strong fairness: the server may be busy with other requests in between).
Fairness ==
    /\ \A a \in Agent : WF_vars(Step(a))
    /\ \A a \in Agent, t \in Termination : SF_vars(RevokeSystemAccess(a, t))

FairSpec == Spec /\ Fairness

-----------------------------------------------------------------------------
(* Properties.                                                             *)

\* Every collection, call in flight and history has its type.
TypeOK ==
    /\ requests \in [Termination -> RequestDoc \cup {NULL}]
    /\ checklists \in [Checklist -> ChecklistDoc \cup {NULL}]
    /\ benefits \subseteq Termination
    /\ terminated \subseteq Employee
    /\ deactivated \subseteq Employee
    /\ calls \in [Agent -> Call \cup {NULL}]
    /\ failures \in 0..MaxFailures
    /\ granted \in [Checklist -> SUBSET Requirement]
    /\ approvals \subseteq Termination
    /\ overruled \subseteq Termination

\* One of the request's checklists had, at one time or another, every department's
\* approval and every item's return.
Earned(t) == \E k \in ChecklistsOf(t) : granted[k] = Requirement

\* "All departments must approve before termination can be finalized": an
\* approval, by HR or automatic, needs the approval of every department and
\* the return of every item.  Whole checklists are written back over each
\* other, but what is written was granted by someone.
ApprovalIsEarned ==
    \A t \in Termination :
      requests[t] # NULL /\ requests[t].status = "approved" => Earned(t)

\* No employee is terminated or loses access to the system but on a request of
\* its own that was approved and whose clearance was earned; and the role is
\* not touched before the profile.
AccessGoesWithApproval ==
    /\ deactivated \subseteq terminated
    /\ \A e \in terminated :
         \E t \in approvals : requests[t].employee = e /\ Earned(t)

\* A request whose checklist is complete is approved, or a handler is on its
\* way to approve it, or the checklist was completed by a handler that was cut
\* short, or HR decided otherwise: no overlap of sign-offs and returns leaves
\* a complete checklist unnoticed.
CompletionIsNoticed ==
    failures = 0 =>
      \A k \in Checklist :
        checklists[k] # NULL /\ Complete(checklists[k]) =>
          \/ checklists[k].termination \in approvals \cup overruled
          \/ \E a \in Agent : /\ At(a, "auto.read") \/ At(a, "auto.save")
                             /\ calls[a].checklist = k

\* Approved, with every checklist of it complete.
Ready(t) ==
    /\ requests[t] # NULL /\ requests[t].status = "approved"
    /\ ChecklistsOf(t) # {}
    /\ \A k \in ChecklistsOf(t) : Complete(checklists[k])

\* A request that stays ready leads to the revocation of the employee's access,
\* profile and role, even if the handler is cut short between the two.
ReadyIsRevoked ==
    \A t \in Termination :
      <>[]Ready(t) => <>(requests[t] # NULL /\ requests[t].employee \in deactivated)

\* initiateTerminationReview and submitResignation refuse an employee that
\* "already has an active termination request".
Active(e) ==
    {t \in Termination : /\ requests[t] # NULL
                         /\ requests[t].employee = e
                         /\ requests[t].status \in {"pending", "under_review"}}

OneActiveRequest == \A e \in Employee : Cardinality(Active(e)) <= 1
=============================================================================
