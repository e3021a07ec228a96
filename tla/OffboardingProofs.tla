-------------------------- MODULE OffboardingProofs --------------------------
(***************************************************************************)
(* The safety of offboarding, for any number of employees, requests,       *)
(* checklists, departments, items of equipment and overlapping handlers.   *)
(*                                                                         *)
(* The argument.  What is written on a checklist, and what a handler will  *)
(* write on it, was granted (Supported); what was granted stays granted,   *)
(* and a checklist keeps its request, a request its employee.  A handler   *)
(* that is past a check carries what the check established (Sound), and    *)
(* the steps of others keep it (Kept), although the checklist itself may   *)
(* have changed again since.                                               *)
(***************************************************************************)
EXTENDS Offboarding, TLAPS

\* What a checklist says was granted.
Supported(doc, grants) ==
    /\ \A d \in Department : doc.items[d] = "approved" => d \in grants
    /\ \A e \in Equipment : doc.equipment[e] => e \in grants
    /\ doc.card => Card \in grants

\* A checklist belongs to a request, and what it says was granted.
ChecklistsSupported ==
    \A k \in Checklist : checklists[k] # NULL =>
      /\ requests[checklists[k].termination] # NULL
      /\ Supported(checklists[k], granted[k])

EmployeeOf(t) == requests[t].employee

\* What a handler at each of its steps has established.
Sound(call) ==
    /\ call.at \in {"initiate.benefit", "create.checklist", "decide.save",
                    "revoke.checklist", "revoke.profile", "revoke.role"}
         => requests[call.request] # NULL
    /\ call.at \in {"clear.save", "auto.read", "auto.save"}
         => checklists[call.checklist] # NULL
    /\ call.at = "clear.save"
         => /\ call.doc.termination = checklists[call.checklist].termination
            /\ Supported(call.doc, granted[call.checklist])
    /\ call.at = "auto.save" => granted[call.checklist] = Requirement
    /\ call.at = "decide.save" /\ call.status = "approved" => Earned(call.request)
    /\ call.at \in {"revoke.checklist", "revoke.profile", "revoke.role"}
         => call.request \in approvals
    /\ call.at \in {"revoke.profile", "revoke.role"} => Earned(call.request)
    /\ call.at = "revoke.role" => EmployeeOf(call.request) \in terminated

CallsSound == \A a \in Agent : calls[a] # NULL => Sound(calls[a])

\* A request that is approved was approved by someone, and exists.
ApprovalsRecorded ==
    \A t \in Termination :
      /\ requests[t] # NULL /\ requests[t].status = "approved" => t \in approvals
      /\ t \in approvals => requests[t] # NULL

Inv ==
    /\ TypeOK
    /\ ChecklistsSupported
    /\ CallsSound
    /\ ApprovalsRecorded
    /\ ApprovalIsEarned
    /\ AccessGoesWithApproval

\* What no step takes back.
Kept ==
    /\ \A t \in Termination : requests[t] # NULL =>
         requests'[t] # NULL /\ requests'[t].employee = requests[t].employee
    /\ \A k \in Checklist : checklists[k] # NULL =>
         checklists'[k] # NULL /\ checklists'[k].termination = checklists[k].termination
    /\ \A k \in Checklist : granted[k] \subseteq granted'[k] /\ granted'[k] \subseteq Requirement
    /\ approvals \subseteq approvals'
    /\ terminated \subseteq terminated'

-----------------------------------------------------------------------------
(* What a call carries, and how calls change.                              *)

LEMMA CallFields ==
  ASSUME NEW call \in Call
  PROVE  /\ call.at = "initiate.request" => call.employee \in Employee
         /\ call.at \in {"initiate.benefit", "create.checklist", "decide.save",
                         "revoke.checklist", "revoke.profile", "revoke.role"}
              => call.request \in Termination
         /\ call.at \in {"clear.save", "auto.read", "auto.save"}
              => call.checklist \in Checklist
         /\ call.at = "clear.save" => call.doc \in ChecklistDoc
         /\ call.at = "decide.save" => call.status \in TerminationStatus
BY DEF Call

LEMMA CompleteIsGranted ==
  ASSUME NEW doc \in ChecklistDoc, NEW g \in SUBSET Requirement,
         Complete(doc), Supported(doc, g)
  PROVE  g = Requirement
BY DEF Complete, Supported, Requirement, ChecklistDoc

LEMMA EarnedStays ==
  ASSUME TypeOK, Kept, NEW t \in Termination, Earned(t)
  PROVE  Earned(t)'
<1>1. PICK k \in Checklist : /\ checklists[k] # NULL /\ checklists[k].termination = t
                             /\ granted[k] = Requirement
  BY DEF Earned, ChecklistsOf
<1>2. /\ checklists'[k] # NULL /\ checklists'[k].termination = t
      /\ granted'[k] = Requirement
  BY <1>1 DEF Kept
<1> QED BY <1>2 DEF Earned, ChecklistsOf

LEMMA SoundStays ==
  ASSUME TypeOK, Kept, NEW call \in Call, Sound(call)
  PROVE  Sound(call)'
<1>1. /\ call.at \in {"decide.save", "revoke.profile", "revoke.role"} /\ Earned(call.request)
           => Earned(call.request)'
  BY CallFields, EarnedStays
<1>2. call.at = "clear.save" => Supported(call.doc, granted'[call.checklist])
  BY CallFields DEF Sound, Supported, Kept
<1>3. call.at = "auto.save" => granted'[call.checklist] = Requirement
  BY CallFields DEF Sound, Kept
<1> QED BY <1>1, <1>2, <1>3, CallFields DEF Sound, Kept, EmployeeOf

LEMMA CallsAfterBegin ==
  ASSUME TypeOK, CallsSound, Kept, NEW a \in Agent, NEW call \in Call,
         Begin(a, call), Sound(call)'
  PROVE  CallsSound' /\ calls' \in [Agent -> Call \cup {NULL}]
<1>1. /\ calls'[a] = call
      /\ \A b \in Agent \ {a} : calls'[b] = calls[b]
      /\ calls' \in [Agent -> Call \cup {NULL}]
  BY DEF Begin, TypeOK
<1>2. ASSUME NEW b \in Agent, calls'[b] # NULL PROVE Sound(calls[b])'
  <2>1. CASE b = a
    BY <1>1, <2>1 DEF Sound, EmployeeOf
  <2>2. CASE b # a
    <3>1. calls[b] \in Call /\ Sound(calls[b])
      BY <1>1, <1>2, <2>2 DEF TypeOK, CallsSound
    <3>2. PICK other \in Call : other = calls[b]
      BY <3>1
    <3>3. Sound(other)'
      BY <3>1, <3>2, SoundStays
    <3> QED BY <1>1, <2>2, <3>2, <3>3 DEF Sound, EmployeeOf
  <2> QED BY <2>1, <2>2
<1> QED BY <1>1, <1>2 DEF CallsSound

LEMMA CallsAfterFinish ==
  ASSUME TypeOK, CallsSound, Kept, NEW a \in Agent, Finish(a)
  PROVE  CallsSound' /\ calls' \in [Agent -> Call \cup {NULL}]
<1>1. /\ calls'[a] = NULL
      /\ \A b \in Agent \ {a} : calls'[b] = calls[b]
      /\ calls' \in [Agent -> Call \cup {NULL}]
  BY DEF Finish, TypeOK
<1>2. ASSUME NEW b \in Agent, calls'[b] # NULL PROVE Sound(calls[b])'
  <2>1. calls[b] \in Call /\ Sound(calls[b]) /\ calls'[b] = calls[b]
    BY <1>1, <1>2 DEF TypeOK, CallsSound
  <2>2. PICK other \in Call : other = calls[b]
    BY <2>1
  <2>3. Sound(other)'
    BY <2>1, <2>2, SoundStays
  <2> QED BY <2>1, <2>2, <2>3 DEF Sound, EmployeeOf
<1> QED BY <1>1, <1>2 DEF CallsSound

-----------------------------------------------------------------------------
(* Steps that write no document.                                           *)

\* Only calls, the benefits, the failures and the grants change.
Quiet ==
    /\ UNCHANGED <<requests, checklists, accessVars, approvals, overruled>>
    /\ benefits' \subseteq Termination
    /\ failures' \in 0..MaxFailures
    /\ granted' \in [Checklist -> SUBSET Requirement]
    /\ \A k \in Checklist : granted[k] \subseteq granted'[k]

LEMMA QuietKeeps == ASSUME Inv, Quiet PROVE Kept
BY DEF Inv, TypeOK, Quiet, Kept, accessVars

LEMMA QuietDocuments ==
  ASSUME Inv, Quiet, CallsSound', calls' \in [Agent -> Call \cup {NULL}]
  PROVE  Inv'
<1>1. Kept
  BY QuietKeeps
<1>2. TypeOK'
  BY DEF Inv, TypeOK, Quiet, accessVars
<1>3. ChecklistsSupported'
  BY DEF Inv, ChecklistsSupported, Supported, Quiet, accessVars, TypeOK
<1>4. ApprovalsRecorded'
  BY DEF Inv, ApprovalsRecorded, Quiet
<1>5. \A t \in Termination : Earned(t) => Earned(t)'
  BY <1>1, EarnedStays DEF Inv
<1>6. ApprovalIsEarned'
  BY <1>5 DEF Inv, ApprovalIsEarned, Quiet
<1>7. AccessGoesWithApproval'
  BY <1>5 DEF Inv, AccessGoesWithApproval, Quiet, accessVars, TypeOK
<1> QED BY <1>2, <1>3, <1>4, <1>6, <1>7 DEF Inv

LEMMA QuietBegin ==
  ASSUME Inv, Quiet, NEW a \in Agent, NEW call \in Call, Begin(a, call), Sound(call)'
  PROVE  Inv'
BY QuietKeeps, CallsAfterBegin, QuietDocuments DEF Inv

LEMMA QuietFinish ==
  ASSUME Inv, Quiet, NEW a \in Agent, Finish(a)
  PROVE  Inv'
BY QuietKeeps, CallsAfterFinish, QuietDocuments DEF Inv

LEMMA QuietWhenUnchanged ==
  ASSUME Inv, benefits' \subseteq Termination,
         UNCHANGED <<requests, checklists, accessVars, failures, historyVars>>
  PROVE  Quiet
BY DEF Inv, TypeOK, Quiet, historyVars

LEMMA InitiateTerminationStep ==
  ASSUME Inv, NEW a \in Agent, NEW e \in Employee, InitiateTermination(a, e)
  PROVE  Inv'
<1> DEFINE call == [at |-> "initiate.request", employee |-> e]
<1>1. call \in Call
  BY DEF Call
<1>2. Sound(call)'
  BY DEF Sound
<1>3. Quiet
  BY QuietWhenUnchanged DEF InitiateTermination, requestVars, Inv, TypeOK
<1>4. Begin(a, call)
  BY DEF InitiateTermination
<1> HIDE DEF call
<1> QED BY <1>1, <1>2, <1>3, <1>4, QuietBegin

LEMMA CreateBenefitStep ==
  ASSUME Inv, NEW a \in Agent, CreateBenefit(a)
  PROVE  Inv'
<1> DEFINE call == [at |-> "create.checklist", request |-> calls[a].request]
<1>1. calls[a] \in Call /\ calls[a].at = "initiate.benefit" /\ Sound(calls[a])
  BY DEF CreateBenefit, At, Inv, TypeOK, CallsSound
<1>2. calls[a].request \in Termination /\ requests[calls[a].request] # NULL
  BY <1>1, CallFields DEF Sound
<1>3. Quiet
  BY <1>2, QuietWhenUnchanged DEF CreateBenefit, Inv, TypeOK
<1>4. PICK t \in Termination : t = calls[a].request
  BY <1>2
<1>5. [at |-> "create.checklist", request |-> t] \in Call
  BY DEF Call
<1>6. Sound([at |-> "create.checklist", request |-> t])'
  BY <1>2, <1>3, <1>4 DEF Sound, Quiet
<1>7. Begin(a, [at |-> "create.checklist", request |-> t])
  BY <1>4 DEF CreateBenefit
<1> QED BY <1>3, <1>5, <1>6, <1>7, QuietBegin

LEMMA InitiateChecklistStep ==
  ASSUME Inv, NEW a \in Agent, NEW t \in Termination, InitiateOffboardingChecklist(a, t)
  PROVE  Inv'
<1> DEFINE call == [at |-> "create.checklist", request |-> t]
<1>1. call \in Call
  BY DEF Call
<1>2. Quiet
  BY QuietWhenUnchanged DEF InitiateOffboardingChecklist, requestVars, Inv, TypeOK
<1>3. Sound(call)'
  BY <1>2 DEF Sound, Quiet, InitiateOffboardingChecklist
<1>4. Begin(a, call)
  BY DEF InitiateOffboardingChecklist
<1> HIDE DEF call
<1> QED BY <1>1, <1>2, <1>3, <1>4, QuietBegin

\* Grants grow by what is granted.
LEMMA GrantGrows ==
  ASSUME TypeOK, NEW k \in Checklist, NEW x \in Requirement, NEW given \in BOOLEAN,
         Grant(k, x, given)
  PROVE  /\ granted' \in [Checklist -> SUBSET Requirement]
         /\ \A j \in Checklist : granted[j] \subseteq granted'[j]
         /\ given => x \in granted'[k]
BY DEF TypeOK, Grant

\* A handler that has read a checklist and will write doc over it.
LEMMA ClearingStep ==
  ASSUME Inv, NEW a \in Agent, NEW k \in Checklist, NEW doc \in ChecklistDoc,
         NEW x \in Requirement, NEW given \in BOOLEAN, Grant(k, x, given),
         checklists[k] # NULL, doc.termination = checklists[k].termination,
         Begin(a, [at |-> "clear.save", checklist |-> k, doc |-> doc]),
         \A g \in SUBSET Requirement :
           Supported(checklists[k], g) /\ (given => x \in g) => Supported(doc, g),
         UNCHANGED <<requestVars, checklists, accessVars, failures, approvals, overruled>>
  PROVE  Inv'
<1> DEFINE call == [at |-> "clear.save", checklist |-> k, doc |-> doc]
<1>1. call \in Call
  BY DEF Call
<1>2. /\ granted' \in [Checklist -> SUBSET Requirement]
      /\ \A j \in Checklist : granted[j] \subseteq granted'[j]
      /\ given => x \in granted'[k]
  BY GrantGrows DEF Inv
<1>3. Quiet
  BY <1>2 DEF Quiet, Inv, TypeOK, requestVars, accessVars
<1>4. Supported(checklists[k], granted'[k])
  BY <1>2 DEF Inv, ChecklistsSupported, Supported
<1>5. Supported(doc, granted'[k])
  BY <1>2, <1>4
<1>6. Sound(call)'
  BY <1>3, <1>5 DEF Sound, Supported, Quiet
<1> HIDE DEF call
<1>7. Begin(a, call)
  BY DEF call
<1> QED BY <1>1, <1>3, <1>6, <1>7, QuietBegin

LEMMA SignOffStep ==
  ASSUME Inv, NEW a \in Agent, NEW k \in Checklist, NEW d \in Department,
         NEW s \in ApprovalStatus, ProcessDepartmentSignOff(a, k, d, s)
  PROVE  Inv'
<1>1. checklists[k] \in ChecklistDoc /\ checklists[k] # NULL
  BY DEF ProcessDepartmentSignOff, Inv, TypeOK
<1>2. PICK doc \in ChecklistDoc : doc = [checklists[k] EXCEPT !.items[d] = s]
  BY <1>1 DEF ChecklistDoc
<1>3. /\ doc.termination = checklists[k].termination
      /\ doc.equipment = checklists[k].equipment /\ doc.card = checklists[k].card
      /\ \A other \in Department :
           doc.items[other] = IF other = d THEN s ELSE checklists[k].items[other]
  BY <1>1, <1>2 DEF ChecklistDoc
<1>4. \A g \in SUBSET Requirement :
        Supported(checklists[k], g) /\ (s = "approved" => d \in g) => Supported(doc, g)
  BY <1>3 DEF Supported
<1>5. /\ Begin(a, [at |-> "clear.save", checklist |-> k, doc |-> doc])
      /\ Grant(k, d, s = "approved")
      /\ UNCHANGED <<requestVars, checklists, accessVars, failures, approvals, overruled>>
  BY <1>2 DEF ProcessDepartmentSignOff
<1>6. d \in Requirement /\ (s = "approved") \in BOOLEAN
  BY DEF Requirement
<1> QED BY <1>1, <1>3, <1>4, <1>5, <1>6, ClearingStep

LEMMA EquipmentStep ==
  ASSUME Inv, NEW a \in Agent, NEW k \in Checklist, NEW e \in Equipment,
         NEW b \in BOOLEAN, UpdateEquipmentReturnStatus(a, k, e, b)
  PROVE  Inv'
<1>1. checklists[k] \in ChecklistDoc /\ checklists[k] # NULL
  BY DEF UpdateEquipmentReturnStatus, Inv, TypeOK
<1>2. PICK doc \in ChecklistDoc : doc = [checklists[k] EXCEPT !.equipment[e] = b]
  BY <1>1 DEF ChecklistDoc
<1>3. /\ doc.termination = checklists[k].termination
      /\ doc.items = checklists[k].items /\ doc.card = checklists[k].card
      /\ \A other \in Equipment :
           doc.equipment[other] = IF other = e THEN b ELSE checklists[k].equipment[other]
  BY <1>1, <1>2 DEF ChecklistDoc
<1>4. \A g \in SUBSET Requirement :
        Supported(checklists[k], g) /\ (b => e \in g) => Supported(doc, g)
  BY <1>3 DEF Supported
<1>5. /\ Begin(a, [at |-> "clear.save", checklist |-> k, doc |-> doc])
      /\ Grant(k, e, b)
      /\ UNCHANGED <<requestVars, checklists, accessVars, failures, approvals, overruled>>
  BY <1>2 DEF UpdateEquipmentReturnStatus
<1>6. e \in Requirement
  BY DEF Requirement
<1> QED BY <1>1, <1>3, <1>4, <1>5, <1>6, ClearingStep

LEMMA CardStep ==
  ASSUME Inv, NEW a \in Agent, NEW k \in Checklist, NEW b \in BOOLEAN,
         UpdateAccessCardReturnStatus(a, k, b)
  PROVE  Inv'
<1>1. checklists[k] \in ChecklistDoc /\ checklists[k] # NULL
  BY DEF UpdateAccessCardReturnStatus, Inv, TypeOK
<1>2. PICK doc \in ChecklistDoc : doc = [checklists[k] EXCEPT !.card = b]
  BY <1>1 DEF ChecklistDoc
<1>3. /\ doc.termination = checklists[k].termination
      /\ doc.items = checklists[k].items /\ doc.equipment = checklists[k].equipment
      /\ doc.card = b
  BY <1>1, <1>2 DEF ChecklistDoc
<1>4. \A g \in SUBSET Requirement :
        Supported(checklists[k], g) /\ (b => Card \in g) => Supported(doc, g)
  BY <1>3 DEF Supported
<1>5. /\ Begin(a, [at |-> "clear.save", checklist |-> k, doc |-> doc])
      /\ Grant(k, Card, b)
      /\ UNCHANGED <<requestVars, checklists, accessVars, failures, approvals, overruled>>
  BY <1>2 DEF UpdateAccessCardReturnStatus
<1>6. Card \in Requirement
  BY DEF Requirement
<1> QED BY <1>1, <1>3, <1>4, <1>5, <1>6, ClearingStep

\* What a handler reads of a checklist that is complete was earned.
LEMMA CompleteIsEarned ==
  ASSUME Inv, NEW k \in Checklist, checklists[k] # NULL, Complete(checklists[k])
  PROVE  /\ granted[k] = Requirement
         /\ \A t \in Termination : checklists[k].termination = t => Earned(t)
<1>1. /\ checklists[k] \in ChecklistDoc /\ granted[k] \in SUBSET Requirement
      /\ Supported(checklists[k], granted[k])
  BY DEF Inv, TypeOK, ChecklistsSupported
<1>2. granted[k] = Requirement
  BY <1>1, CompleteIsGranted
<1> QED BY <1>2 DEF Earned, ChecklistsOf

LEMMA AutoReadStep ==
  ASSUME Inv, NEW a \in Agent, AutoRead(a)
  PROVE  Inv'
<1>1. calls[a] \in Call /\ calls[a].at = "auto.read" /\ Sound(calls[a])
  BY DEF AutoRead, At, Inv, TypeOK, CallsSound
<1>2. PICK k \in Checklist : k = calls[a].checklist
  BY <1>1, CallFields
<1>3. checklists[k] # NULL
  BY <1>1, <1>2 DEF Sound
<1>4. Quiet
  BY QuietWhenUnchanged DEF AutoRead, requestVars, Inv, TypeOK
<1>5. CASE Complete(checklists[k])
  <2> DEFINE call == [at |-> "auto.save", checklist |-> k]
  <2>1. call \in Call
    BY DEF Call
  <2>2. granted'[k] = Requirement
    BY <1>3, <1>4, <1>5, CompleteIsEarned DEF Quiet
  <2>3. Sound(call)'
    BY <1>3, <1>4, <2>2 DEF Sound, Quiet
  <2>4. Begin(a, call)
    BY <1>2, <1>5 DEF AutoRead
  <2> HIDE DEF call
  <2> QED BY <1>4, <2>1, <2>3, <2>4, QuietBegin
<1>6. CASE ~ Complete(checklists[k])
  <2>1. Finish(a)
    BY <1>2, <1>6 DEF AutoRead
  <2> QED BY <1>4, <2>1, QuietFinish
<1> QED BY <1>5, <1>6

LEMMA ApproveTerminationStep ==
  ASSUME Inv, NEW a \in Agent, NEW t \in Termination, NEW s \in TerminationStatus,
         ApproveTermination(a, t, s)
  PROVE  Inv'
<1> DEFINE call == [at |-> "decide.save", request |-> t, status |-> s]
<1>1. call \in Call
  BY DEF Call
<1>2. Quiet
  BY QuietWhenUnchanged DEF ApproveTermination, requestVars, Inv, TypeOK
<1>3. s = "approved" => Earned(t)
  BY CompleteIsEarned DEF ApproveTermination, ChecklistsOf
<1>4. s = "approved" => Earned(t)'
  BY <1>2, <1>3, QuietKeeps, EarnedStays DEF Inv
<1>5. Sound(call)'
  BY <1>2, <1>4 DEF Sound, Quiet, ApproveTermination
<1>6. Begin(a, call)
  BY DEF ApproveTermination
<1> HIDE DEF call
<1> QED BY <1>1, <1>2, <1>5, <1>6, QuietBegin

LEMMA RevokeSystemAccessStep ==
  ASSUME Inv, NEW a \in Agent, NEW t \in Termination, RevokeSystemAccess(a, t)
  PROVE  Inv'
<1> DEFINE call == [at |-> "revoke.checklist", request |-> t]
<1>1. call \in Call
  BY DEF Call
<1>2. Quiet
  BY QuietWhenUnchanged DEF RevokeSystemAccess, requestVars, Inv, TypeOK
<1>3. t \in approvals /\ requests[t] # NULL
  BY DEF RevokeSystemAccess, Inv, ApprovalsRecorded
<1>4. Sound(call)'
  BY <1>2, <1>3 DEF Sound, Quiet
<1>5. Begin(a, call)
  BY DEF RevokeSystemAccess
<1> HIDE DEF call
<1> QED BY <1>1, <1>2, <1>4, <1>5, QuietBegin

LEMMA RevokeReadChecklistStep ==
  ASSUME Inv, NEW a \in Agent, RevokeReadChecklist(a)
  PROVE  Inv'
<1>1. calls[a] \in Call /\ calls[a].at = "revoke.checklist" /\ Sound(calls[a])
  BY DEF RevokeReadChecklist, At, Inv, TypeOK, CallsSound
<1>2. PICK t \in Termination : t = calls[a].request
  BY <1>1, CallFields
<1>3. t \in approvals /\ requests[t] # NULL
  BY <1>1, <1>2 DEF Sound
<1>4. Quiet
  BY QuietWhenUnchanged DEF RevokeReadChecklist, requestVars, Inv, TypeOK
<1>5. CASE /\ \E k \in ChecklistsOf(t) : Complete(checklists[k])
           /\ Begin(a, [at |-> "revoke.profile", request |-> t])
  <2> DEFINE call == [at |-> "revoke.profile", request |-> t]
  <2>1. call \in Call
    BY DEF Call
  <2>2. Earned(t)
    BY <1>5, CompleteIsEarned DEF ChecklistsOf
  <2>3. Earned(t)'
    BY <1>4, <2>2, QuietKeeps, EarnedStays DEF Inv
  <2>4. Sound(call)'
    BY <1>3, <1>4, <2>3 DEF Sound, Quiet
  <2>5. Begin(a, call)
    BY <1>5
  <2> HIDE DEF call
  <2> QED BY <1>4, <2>1, <2>4, <2>5, QuietBegin
<1>6. CASE Finish(a)
  BY <1>4, <1>6, QuietFinish
<1> QED BY <1>2, <1>5, <1>6 DEF RevokeReadChecklist

LEMMA CallFailsStep ==
  ASSUME Inv, NEW a \in Agent, CallFails(a)
  PROVE  Inv'
<1>1. Quiet
  BY OffboardingAssumption
     DEF CallFails, Quiet, Inv, TypeOK, requestVars, accessVars, historyVars
<1>2. Finish(a)
  BY DEF CallFails
<1> QED BY <1>1, <1>2, QuietFinish

-----------------------------------------------------------------------------
(* Steps that write a request.                                             *)

LEMMA CreateRequestStep ==
  ASSUME Inv, NEW a \in Agent, NEW t \in Termination, CreateRequest(a, t)
  PROVE  Inv'
<1> DEFINE call == [at |-> "initiate.benefit", request |-> t]
<1>1. calls[a] \in Call /\ calls[a].at = "initiate.request"
  BY DEF CreateRequest, At, Inv, TypeOK
<1>2. PICK e \in Employee : e = calls[a].employee
  BY <1>1, CallFields
<1>3. PICK doc \in RequestDoc : doc = [employee |-> e, status |-> "pending"]
  BY DEF RequestDoc, TerminationStatus
<1>4. /\ requests[t] = NULL /\ t \notin approvals
      /\ requests'[t] = doc /\ doc # NULL /\ doc.status # "approved"
      /\ \A u \in Termination \ {t} : requests'[u] = requests[u]
      /\ requests' \in [Termination -> RequestDoc \cup {NULL}]
  BY <1>2, <1>3, OffboardingAssumption
     DEF CreateRequest, Inv, TypeOK, ApprovalsRecorded
<1>5. UNCHANGED <<benefits, checklists, accessVars, failures, historyVars>>
  BY DEF CreateRequest
<1>6. Kept
  BY <1>4, <1>5 DEF Kept, accessVars, historyVars, Inv, TypeOK
<1>7. call \in Call
  BY DEF Call
<1>8. Sound(call)'
  BY <1>4 DEF Sound
<1>9. Begin(a, call)
  BY DEF CreateRequest
<1>10. CallsSound' /\ calls' \in [Agent -> Call \cup {NULL}]
  <2> HIDE DEF call
  <2> QED BY <1>6, <1>7, <1>8, <1>9, CallsAfterBegin DEF Inv
<1>11. TypeOK'
  BY <1>4, <1>5, <1>10 DEF Inv, TypeOK, accessVars, historyVars
<1>12. ChecklistsSupported'
  BY <1>4, <1>5 DEF Inv, ChecklistsSupported, Supported, historyVars, TypeOK, ChecklistDoc
<1>13. ApprovalsRecorded'
  BY <1>4, <1>5 DEF Inv, ApprovalsRecorded, historyVars
<1>14. \A u \in Termination : Earned(u) => Earned(u)'
  BY <1>6, EarnedStays DEF Inv
<1>15. ApprovalIsEarned'
  BY <1>4, <1>14 DEF Inv, ApprovalIsEarned
<1>16. AccessGoesWithApproval'
  BY <1>4, <1>5, <1>14 DEF Inv, AccessGoesWithApproval, accessVars, historyVars, TypeOK
<1> QED BY <1>11, <1>12, <1>13, <1>15, <1>16, <1>10 DEF Inv

\* A handler that ends by writing a status: an approval has been earned.
LEMMA StatusStep ==
  ASSUME Inv, NEW a \in Agent, NEW t \in Termination, NEW s \in TerminationStatus,
         requests[t] # NULL, s = "approved" => Earned(t),
         SetStatus(t, s), Finish(a),
         UNCHANGED <<benefits, checklists, accessVars, failures, granted>>
  PROVE  Inv'
<1>1. requests[t] \in RequestDoc
  BY DEF Inv, TypeOK
<1>2. /\ requests'[t] \in RequestDoc /\ requests'[t] # NULL
      /\ requests'[t].employee = requests[t].employee /\ requests'[t].status = s
      /\ \A u \in Termination \ {t} : requests'[u] = requests[u]
      /\ requests' \in [Termination -> RequestDoc \cup {NULL}]
  BY <1>1, OffboardingAssumption DEF SetStatus, Inv, TypeOK, RequestDoc
<1>3. /\ approvals \subseteq approvals' /\ approvals' \subseteq approvals \cup {t}
      /\ s = "approved" => t \in approvals'
      /\ overruled' \subseteq Termination
  BY DEF SetStatus, Inv, TypeOK
<1>4. Kept
  BY <1>2, <1>3 DEF Kept, accessVars, Inv, TypeOK
<1>5. CallsSound' /\ calls' \in [Agent -> Call \cup {NULL}]
  BY <1>4, CallsAfterFinish DEF Inv
<1>6. TypeOK'
  BY <1>2, <1>3, <1>5 DEF Inv, TypeOK, accessVars
<1>7. ChecklistsSupported'
  BY <1>2 DEF Inv, ChecklistsSupported, Supported, TypeOK, ChecklistDoc
<1>8. ApprovalsRecorded'
  BY <1>2, <1>3 DEF Inv, ApprovalsRecorded
<1>9. \A u \in Termination : Earned(u) => Earned(u)'
  BY <1>4, EarnedStays DEF Inv
<1>10. ApprovalIsEarned'
  BY <1>2, <1>9 DEF Inv, ApprovalIsEarned
<1>11. AccessGoesWithApproval'
  BY <1>2, <1>3, <1>9 DEF Inv, AccessGoesWithApproval, accessVars, TypeOK
<1> QED BY <1>5, <1>6, <1>7, <1>8, <1>10, <1>11 DEF Inv

LEMMA AutoSaveStep ==
  ASSUME Inv, NEW a \in Agent, AutoSave(a)
  PROVE  Inv'
<1>1. calls[a] \in Call /\ calls[a].at = "auto.save" /\ Sound(calls[a])
  BY DEF AutoSave, At, Inv, TypeOK, CallsSound
<1>2. PICK k \in Checklist : k = calls[a].checklist
  BY <1>1, CallFields
<1>3. checklists[k] # NULL /\ granted[k] = Requirement
  BY <1>1, <1>2 DEF Sound
<1>4. PICK t \in Termination : t = checklists[k].termination
  BY <1>3 DEF Inv, TypeOK, ChecklistDoc
<1>5. requests[t] # NULL /\ Earned(t)
  BY <1>3, <1>4 DEF Inv, ChecklistsSupported, Earned, ChecklistsOf
<1>6. /\ SetStatus(t, "approved") /\ Finish(a)
      /\ UNCHANGED <<benefits, checklists, accessVars, failures, granted>>
  BY <1>2, <1>4 DEF AutoSave
<1>7. "approved" \in TerminationStatus
  BY DEF TerminationStatus
<1> QED BY <1>5, <1>6, <1>7, StatusStep

LEMMA DecideSaveStep ==
  ASSUME Inv, NEW a \in Agent, DecideSave(a)
  PROVE  Inv'
<1>1. calls[a] \in Call /\ calls[a].at = "decide.save" /\ Sound(calls[a])
  BY DEF DecideSave, At, Inv, TypeOK, CallsSound
<1>2. PICK t \in Termination, s \in TerminationStatus :
        t = calls[a].request /\ s = calls[a].status
  BY <1>1, CallFields
<1>3. requests[t] # NULL /\ (s = "approved" => Earned(t))
  BY <1>1, <1>2 DEF Sound
<1>4. /\ SetStatus(t, s) /\ Finish(a)
      /\ UNCHANGED <<benefits, checklists, accessVars, failures, granted>>
  BY <1>2 DEF DecideSave
<1> QED BY <1>3, <1>4, StatusStep

-----------------------------------------------------------------------------
(* Steps that write a checklist.                                           *)

\* A checklist is created, or written over, with a document that is supported.
LEMMA ChecklistStep ==
  ASSUME Inv, NEW k \in Checklist, NEW doc \in ChecklistDoc,
         requests[doc.termination] # NULL, Supported(doc, granted[k]),
         checklists[k] # NULL => doc.termination = checklists[k].termination,
         checklists' = [checklists EXCEPT ![k] = doc],
         UNCHANGED <<requestVars, accessVars, failures, historyVars>>
  PROVE  Kept /\ (CallsSound' /\ calls' \in [Agent -> Call \cup {NULL}] => Inv')
<1>1. doc # NULL
  BY OffboardingAssumption
<1>2. /\ checklists'[k] = doc
      /\ \A j \in Checklist \ {k} : checklists'[j] = checklists[j]
      /\ checklists' \in [Checklist -> ChecklistDoc \cup {NULL}]
  BY DEF Inv, TypeOK
<1>3. Kept
  BY <1>1, <1>2 DEF Kept, requestVars, accessVars, historyVars, Inv, TypeOK
<1> SUFFICES ASSUME CallsSound', calls' \in [Agent -> Call \cup {NULL}] PROVE Inv'
  BY <1>3
<1>4. TypeOK'
  BY <1>2 DEF Inv, TypeOK, requestVars, accessVars, historyVars
<1>5. ChecklistsSupported'
  <2>1. ASSUME NEW j \in Checklist, checklists'[j] # NULL
        PROVE  /\ requests'[checklists'[j].termination] # NULL
               /\ Supported(checklists[j], granted[j])'
    BY <1>2, <2>1 DEF Inv, ChecklistsSupported, Supported, requestVars, historyVars
  <2> QED BY <2>1 DEF ChecklistsSupported
<1>6. ApprovalsRecorded'
  BY DEF Inv, ApprovalsRecorded, requestVars, historyVars
<1>7. \A u \in Termination : Earned(u) => Earned(u)'
  BY <1>3, EarnedStays DEF Inv
<1>8. ApprovalIsEarned'
  BY <1>7 DEF Inv, ApprovalIsEarned, requestVars
<1>9. AccessGoesWithApproval'
  BY <1>7 DEF Inv, AccessGoesWithApproval, requestVars, accessVars, historyVars, TypeOK
<1> QED BY <1>4, <1>5, <1>6, <1>8, <1>9 DEF Inv

LEMMA CreateChecklistStep ==
  ASSUME Inv, NEW a \in Agent, NEW k \in Checklist, CreateChecklist(a, k)
  PROVE  Inv'
<1>1. calls[a] \in Call /\ calls[a].at = "create.checklist" /\ Sound(calls[a])
  BY DEF CreateChecklist, At, Inv, TypeOK, CallsSound
<1>2. PICK t \in Termination : t = calls[a].request
  BY <1>1, CallFields
<1>3. requests[t] # NULL
  BY <1>1, <1>2 DEF Sound
<1>4. PICK doc \in ChecklistDoc : doc = NewChecklist(t)
  BY DEF NewChecklist, ChecklistDoc, ApprovalStatus
<1>5. doc.termination = t /\ Supported(doc, granted[k])
  BY <1>4 DEF NewChecklist, Supported
<1>6. /\ checklists[k] = NULL /\ checklists' = [checklists EXCEPT ![k] = doc] /\ Finish(a)
      /\ UNCHANGED <<requestVars, accessVars, failures, historyVars>>
  BY <1>2, <1>4 DEF CreateChecklist
<1> QED BY <1>3, <1>5, <1>6, ChecklistStep, CallsAfterFinish DEF Inv

LEMMA ClearSaveStep ==
  ASSUME Inv, NEW a \in Agent, ClearSave(a)
  PROVE  Inv'
<1>1. calls[a] \in Call /\ calls[a].at = "clear.save" /\ Sound(calls[a])
  BY DEF ClearSave, At, Inv, TypeOK, CallsSound
<1>2. PICK k \in Checklist, doc \in ChecklistDoc :
        k = calls[a].checklist /\ doc = calls[a].doc
  BY <1>1, CallFields
<1>3. /\ checklists[k] # NULL /\ doc.termination = checklists[k].termination
      /\ Supported(doc, granted[k])
  BY <1>1, <1>2 DEF Sound
<1>4. requests[doc.termination] # NULL
  BY <1>3 DEF Inv, ChecklistsSupported
<1>5. /\ checklists' = [checklists EXCEPT ![k] = doc]
      /\ Begin(a, [at |-> "auto.read", checklist |-> k])
      /\ UNCHANGED <<requestVars, accessVars, failures, historyVars>>
  BY <1>2 DEF ClearSave
<1>6. Kept /\ (CallsSound' /\ calls' \in [Agent -> Call \cup {NULL}] => Inv')
  BY <1>3, <1>4, <1>5, ChecklistStep
<1> DEFINE call == [at |-> "auto.read", checklist |-> k]
<1>7. call \in Call
  BY DEF Call
<1>8. Sound(call)'
  BY <1>3, <1>6 DEF Sound, Kept
<1>9. Begin(a, call)
  BY <1>5
<1> HIDE DEF call
<1> QED BY <1>6, <1>7, <1>8, <1>9, CallsAfterBegin DEF Inv

-----------------------------------------------------------------------------
(* Steps that take access away.                                            *)

LEMMA RevokeSaveProfileStep ==
  ASSUME Inv, NEW a \in Agent, RevokeSaveProfile(a)
  PROVE  Inv'
<1> DEFINE call(u) == [at |-> "revoke.role", request |-> u]
<1>1. calls[a] \in Call /\ calls[a].at = "revoke.profile" /\ Sound(calls[a])
  BY DEF RevokeSaveProfile, At, Inv, TypeOK, CallsSound
<1>2. PICK t \in Termination : t = calls[a].request
  BY <1>1, CallFields
<1>3. requests[t] # NULL /\ t \in approvals /\ Earned(t)
  BY <1>1, <1>2 DEF Sound
<1>4. PICK e \in Employee : e = requests[t].employee
  BY <1>3 DEF Inv, TypeOK, RequestDoc
<1>5. /\ terminated' = terminated \cup {e} /\ Begin(a, call(t))
      /\ UNCHANGED <<requestVars, checklists, deactivated, failures, historyVars>>
  BY <1>2, <1>4 DEF RevokeSaveProfile
<1>6. Kept
  BY <1>5 DEF Kept, requestVars, historyVars, Inv, TypeOK
<1>7. Earned(t)'
  BY <1>3, <1>6, EarnedStays DEF Inv
<1>8. call(t) \in Call /\ Sound(call(t))'
  BY <1>3, <1>4, <1>5, <1>7 DEF Call, Sound, EmployeeOf, requestVars, historyVars
<1>9. CallsSound' /\ calls' \in [Agent -> Call \cup {NULL}]
  <2> HIDE DEF call
  <2> QED BY <1>5, <1>6, <1>8, CallsAfterBegin DEF Inv
<1>10. TypeOK'
  BY <1>5, <1>9 DEF Inv, TypeOK, requestVars, historyVars
<1>11. ChecklistsSupported'
  BY <1>5 DEF Inv, ChecklistsSupported, Supported, requestVars, historyVars
<1>12. ApprovalsRecorded' /\ ApprovalIsEarned'
  BY <1>5, <1>6, EarnedStays
     DEF Inv, ApprovalsRecorded, ApprovalIsEarned, requestVars, historyVars
<1>13. AccessGoesWithApproval'
  BY <1>3, <1>4, <1>5, <1>6, EarnedStays
     DEF Inv, AccessGoesWithApproval, requestVars, historyVars, TypeOK
<1> QED BY <1>9, <1>10, <1>11, <1>12, <1>13 DEF Inv

LEMMA RevokeSaveRoleStep ==
  ASSUME Inv, NEW a \in Agent, RevokeSaveRole(a)
  PROVE  Inv'
<1>1. calls[a] \in Call /\ calls[a].at = "revoke.role" /\ Sound(calls[a])
  BY DEF RevokeSaveRole, At, Inv, TypeOK, CallsSound
<1>2. PICK t \in Termination : t = calls[a].request
  BY <1>1, CallFields
<1>3. requests[t].employee \in terminated
  BY <1>1, <1>2 DEF Sound, EmployeeOf
<1>4. /\ deactivated' = deactivated \cup {requests[t].employee} /\ Finish(a)
      /\ UNCHANGED <<requestVars, checklists, terminated, failures, historyVars>>
  BY <1>2 DEF RevokeSaveRole
<1>5. Kept
  BY <1>4 DEF Kept, requestVars, historyVars, Inv, TypeOK
<1>6. CallsSound' /\ calls' \in [Agent -> Call \cup {NULL}]
  BY <1>4, <1>5, CallsAfterFinish DEF Inv
<1>7. TypeOK'
  BY <1>3, <1>4, <1>6 DEF Inv, TypeOK, requestVars, historyVars
<1>8. ChecklistsSupported'
  BY <1>4 DEF Inv, ChecklistsSupported, Supported, requestVars, historyVars
<1>9. ApprovalsRecorded' /\ ApprovalIsEarned'
  BY <1>4, <1>5, EarnedStays
     DEF Inv, ApprovalsRecorded, ApprovalIsEarned, requestVars, historyVars
<1>10. AccessGoesWithApproval'
  BY <1>3, <1>4, <1>5, EarnedStays
     DEF Inv, AccessGoesWithApproval, requestVars, historyVars, TypeOK
<1> QED BY <1>6, <1>7, <1>8, <1>9, <1>10 DEF Inv

-----------------------------------------------------------------------------
(* The invariant.                                                          *)

THEOREM Initially == Init => Inv
BY OffboardingAssumption
   DEF Init, Inv, TypeOK, ChecklistsSupported, CallsSound, ApprovalsRecorded,
       ApprovalIsEarned, AccessGoesWithApproval

LEMMA RequestStep ==
  ASSUME Inv, NEW a \in Agent, Request(a)
  PROVE  Inv'
<1>1. CASE \E e \in Employee : InitiateTermination(a, e)
  BY <1>1, InitiateTerminationStep
<1>2. ASSUME NEW k \in Checklist, Clearing(a, k) PROVE Inv'
  BY <1>2, SignOffStep, EquipmentStep, CardStep DEF Clearing
<1>3. ASSUME NEW t \in Termination, Deciding(a, t) PROVE Inv'
  BY <1>3, InitiateChecklistStep, ApproveTerminationStep, RevokeSystemAccessStep DEF Deciding
<1> QED BY <1>1, <1>2, <1>3 DEF Request

LEMMA HandlerStep ==
  ASSUME Inv, NEW a \in Agent, Step(a)
  PROVE  Inv'
BY CreateRequestStep, CreateBenefitStep, CreateChecklistStep, ClearSaveStep, AutoReadStep,
   AutoSaveStep, DecideSaveStep, RevokeReadChecklistStep, RevokeSaveProfileStep,
   RevokeSaveRoleStep DEF Step

LEMMA StutterStep == ASSUME Inv, UNCHANGED vars PROVE Inv'
BY DEF Inv, vars, TypeOK, ChecklistsSupported, Supported, CallsSound, Sound, EmployeeOf,
       Earned, ChecklistsOf, ApprovalsRecorded, ApprovalIsEarned, AccessGoesWithApproval

\* What a handler writes was granted, and what a check established stays
\* established until the handler that made it is done.
THEOREM OffboardingInvariant == Spec => []Inv
<1>1. Inv /\ [Next]_vars => Inv'
  BY RequestStep, HandlerStep, CallFailsStep, StutterStep DEF Next
<1> QED BY Initially, <1>1, PTL DEF Spec

\* Type correctness for any number of requests, checklists and handlers.
THEOREM OffboardingTypeCorrect == Spec => []TypeOK
BY OffboardingInvariant, PTL DEF Inv

\* No request is approved whose clearance was not earned, item by item.
THEOREM ApprovalsAreEarned == Spec => []ApprovalIsEarned
BY OffboardingInvariant, PTL DEF Inv

\* Access is taken from no one without an approved request and an earned clearance.
THEOREM AccessNeedsApproval == Spec => []AccessGoesWithApproval
BY OffboardingInvariant, PTL DEF Inv

-----------------------------------------------------------------------------
(* CompletionIsNoticed: of the handlers that work on a checklist the last  *)
(* to save it is also the last to look at it.                              *)

OnItsWay(a, k) == (At(a, "auto.read") \/ At(a, "auto.save")) /\ calls[a].checklist = k

Noticed(k) ==
    \/ checklists[k].termination \in approvals \cup overruled
    \/ \E a \in Agent : OnItsWay(a, k)

\* Only handler a moves, and it was not on its way to checklist k.
LEMMA NoticedStays ==
  ASSUME Inv, NEW a \in Agent, NEW k \in Checklist, Noticed(k), ~ OnItsWay(a, k),
         checklists[k] # NULL, checklists'[k].termination = checklists[k].termination,
         approvals \cup overruled \subseteq approvals' \cup overruled',
         \A b \in Agent \ {a} : calls'[b] = calls[b]
  PROVE  Noticed(k)'
<1>1. CASE checklists[k].termination \in approvals \cup overruled
  BY <1>1 DEF Noticed
<1>2. CASE \E b \in Agent : OnItsWay(b, k)
  <2>1. PICK b \in Agent : OnItsWay(b, k)
    BY <1>2
  <2>2. OnItsWay(b, k)'
    BY <2>1 DEF OnItsWay, At
  <2> QED BY <2>2 DEF Noticed
<1> QED BY <1>1, <1>2 DEF Noticed

\* The steps of a handler that is on its way nowhere and writes no checklist.
LEMMA ElsewhereNoticed ==
  ASSUME Inv, CompletionIsNoticed, NEW a \in Agent,
         ~ At(a, "auto.read"), ~ At(a, "auto.save"),
         UNCHANGED <<checklists, failures>>,
         approvals \cup overruled \subseteq approvals' \cup overruled',
         \A b \in Agent \ {a} : calls'[b] = calls[b]
  PROVE  CompletionIsNoticed'
<1> SUFFICES ASSUME failures = 0, NEW k \in Checklist, checklists[k] # NULL,
                    Complete(checklists[k])
             PROVE  Noticed(k)'
  BY DEF CompletionIsNoticed, Noticed, OnItsWay, Complete
<1>1. Noticed(k) /\ ~ OnItsWay(a, k)
  BY DEF CompletionIsNoticed, Noticed, OnItsWay
<1> QED BY <1>1, NoticedStays

LEMMA RequestNoticed ==
  ASSUME Inv, CompletionIsNoticed, NEW a \in Agent, Request(a)
  PROVE  CompletionIsNoticed'
<1>1. /\ ~ At(a, "auto.read") /\ ~ At(a, "auto.save")
      /\ UNCHANGED <<checklists, failures, approvals, overruled>>
      /\ \E call : calls' = [calls EXCEPT ![a] = call]
  BY DEF Request, Clearing, Deciding, InitiateTermination, ProcessDepartmentSignOff,
         UpdateEquipmentReturnStatus, UpdateAccessCardReturnStatus,
         InitiateOffboardingChecklist, ApproveTermination, RevokeSystemAccess,
         Idle, At, Begin, historyVars
<1>2. \A b \in Agent \ {a} : calls'[b] = calls[b]
  BY <1>1 DEF Inv, TypeOK
<1> QED BY <1>1, <1>2, ElsewhereNoticed

LEMMA OtherStepNoticed ==
  ASSUME Inv, CompletionIsNoticed, NEW a \in Agent,
         \/ \E t \in Termination : CreateRequest(a, t)
         \/ CreateBenefit(a)
         \/ RevokeReadChecklist(a) \/ RevokeSaveProfile(a) \/ RevokeSaveRole(a)
  PROVE  CompletionIsNoticed'
<1>1. /\ ~ At(a, "auto.read") /\ ~ At(a, "auto.save")
      /\ UNCHANGED <<checklists, failures, approvals, overruled>>
      /\ \E call : calls' = [calls EXCEPT ![a] = call]
  BY DEF CreateRequest, CreateBenefit, RevokeReadChecklist, RevokeSaveProfile,
         RevokeSaveRole, At, Begin, Finish, historyVars
<1>2. \A b \in Agent \ {a} : calls'[b] = calls[b]
  BY <1>1 DEF Inv, TypeOK
<1> QED BY <1>1, <1>2, ElsewhereNoticed

LEMMA DecideNoticed ==
  ASSUME Inv, CompletionIsNoticed, NEW a \in Agent, DecideSave(a)
  PROVE  CompletionIsNoticed'
<1>1. /\ ~ At(a, "auto.read") /\ ~ At(a, "auto.save")
      /\ UNCHANGED <<checklists, failures>>
      /\ approvals \cup overruled \subseteq approvals' \cup overruled'
      /\ \A b \in Agent \ {a} : calls'[b] = calls[b]
  BY DEF DecideSave, SetStatus, At, Finish, Inv, TypeOK
<1> QED BY <1>1, ElsewhereNoticed

LEMMA CreateChecklistNoticed ==
  ASSUME Inv, CompletionIsNoticed, NEW a \in Agent, NEW j \in Checklist,
         CreateChecklist(a, j)
  PROVE  CompletionIsNoticed'
<1>1. /\ checklists'[j] = NewChecklist(calls[a].request)
      /\ \A k \in Checklist \ {j} : checklists'[k] = checklists[k]
      /\ \A b \in Agent \ {a} : calls'[b] = calls[b]
      /\ UNCHANGED <<failures, approvals, overruled>>
      /\ ~ At(a, "auto.read") /\ ~ At(a, "auto.save")
  BY DEF CreateChecklist, Finish, At, Inv, TypeOK, historyVars
<1>2. ~ Complete(checklists'[j])
  BY <1>1 DEF NewChecklist, Complete
<1>3. ASSUME failures = 0, NEW k \in Checklist, checklists'[k] # NULL,
             Complete(checklists'[k])
      PROVE  Noticed(k)'
  <2>1. k # j /\ checklists'[k] = checklists[k]
    BY <1>1, <1>2, <1>3
  <2>2. Noticed(k) /\ ~ OnItsWay(a, k)
    BY <1>1, <1>3, <2>1 DEF CompletionIsNoticed, Noticed, OnItsWay
  <2> QED BY <1>1, <1>3, <2>1, <2>2, NoticedStays
<1> QED BY <1>1, <1>3 DEF CompletionIsNoticed, Noticed, OnItsWay, Complete

LEMMA ClearSaveNoticed ==
  ASSUME Inv, CompletionIsNoticed, NEW a \in Agent, ClearSave(a)
  PROVE  CompletionIsNoticed'
<1>1. calls[a] \in Call /\ calls[a].at = "clear.save"
  BY DEF ClearSave, At, Inv, TypeOK
<1>2. PICK j \in Checklist : j = calls[a].checklist
  BY <1>1, CallFields
<1>3. /\ \A k \in Checklist \ {j} : checklists'[k] = checklists[k]
      /\ \A b \in Agent \ {a} : calls'[b] = calls[b]
      /\ calls'[a] = [at |-> "auto.read", checklist |-> j]
      /\ UNCHANGED <<failures, approvals, overruled>>
      /\ ~ At(a, "auto.read") /\ ~ At(a, "auto.save")
  BY <1>1, <1>2 DEF ClearSave, Begin, At, Inv, TypeOK, historyVars
<1>4. OnItsWay(a, j)'
  <2>1. [at |-> "auto.read", checklist |-> j] \in Call
    BY DEF Call
  <2> QED BY <1>3, <2>1, OffboardingAssumption DEF OnItsWay, At
<1>5. ASSUME failures = 0, NEW k \in Checklist, checklists'[k] # NULL,
             Complete(checklists'[k])
      PROVE  Noticed(k)'
  <2>1. CASE k = j
    BY <1>4, <2>1 DEF Noticed
  <2>2. CASE k # j
    <3>1. Noticed(k) /\ ~ OnItsWay(a, k)
      BY <1>3, <1>5, <2>2 DEF CompletionIsNoticed, Noticed, OnItsWay
    <3> QED BY <1>3, <1>5, <2>2, <3>1, NoticedStays
  <2> QED BY <2>1, <2>2
<1> QED BY <1>3, <1>5 DEF CompletionIsNoticed, Noticed, OnItsWay, Complete

LEMMA AutoReadNoticed ==
  ASSUME Inv, CompletionIsNoticed, NEW a \in Agent, AutoRead(a)
  PROVE  CompletionIsNoticed'
<1>1. calls[a] \in Call /\ calls[a].at = "auto.read"
  BY DEF AutoRead, At, Inv, TypeOK
<1>2. PICK j \in Checklist : j = calls[a].checklist
  BY <1>1, CallFields
<1>3. /\ UNCHANGED <<checklists, failures, approvals, overruled>>
      /\ \A b \in Agent \ {a} : calls'[b] = calls[b]
      /\ Complete(checklists[j]) => calls'[a] = [at |-> "auto.save", checklist |-> j]
  BY <1>2 DEF AutoRead, Begin, Finish, Inv, TypeOK, historyVars
<1>4. Complete(checklists[j]) => OnItsWay(a, j)'
  <2>1. [at |-> "auto.save", checklist |-> j] \in Call
    BY DEF Call
  <2> QED BY <1>3, <2>1, OffboardingAssumption DEF OnItsWay, At
<1>5. ASSUME failures = 0, NEW k \in Checklist, checklists[k] # NULL,
             Complete(checklists[k])
      PROVE  Noticed(k)'
  <2>1. CASE k = j
    BY <1>4, <1>5, <2>1 DEF Noticed
  <2>2. CASE k # j
    <3>1. Noticed(k) /\ ~ OnItsWay(a, k)
      BY <1>2, <1>5, <2>2 DEF CompletionIsNoticed, Noticed, OnItsWay
    <3> QED BY <1>3, <1>5, <3>1, NoticedStays
  <2> QED BY <2>1, <2>2
<1> QED BY <1>3, <1>5 DEF CompletionIsNoticed, Noticed, OnItsWay, Complete

LEMMA AutoSaveNoticed ==
  ASSUME Inv, CompletionIsNoticed, NEW a \in Agent, AutoSave(a)
  PROVE  CompletionIsNoticed'
<1>1. calls[a] \in Call /\ calls[a].at = "auto.save"
  BY DEF AutoSave, At, Inv, TypeOK
<1>2. PICK j \in Checklist : j = calls[a].checklist
  BY <1>1, CallFields
<1>3. /\ UNCHANGED <<checklists, failures>>
      /\ \A b \in Agent \ {a} : calls'[b] = calls[b]
      /\ approvals' = approvals \cup {checklists[j].termination} /\ overruled' = overruled
  BY <1>2 DEF AutoSave, SetStatus, Finish, Inv, TypeOK
<1>4. ASSUME failures = 0, NEW k \in Checklist, checklists[k] # NULL,
             Complete(checklists[k])
      PROVE  Noticed(k)'
  <2>1. CASE k = j
    BY <1>3, <2>1 DEF Noticed
  <2>2. CASE k # j
    <3>1. Noticed(k) /\ ~ OnItsWay(a, k)
      BY <1>2, <1>4, <2>2 DEF CompletionIsNoticed, Noticed, OnItsWay
    <3> QED BY <1>3, <1>4, <3>1, NoticedStays
  <2> QED BY <2>1, <2>2
<1> QED BY <1>3, <1>4 DEF CompletionIsNoticed, Noticed, OnItsWay, Complete

LEMMA CallFailsNoticed ==
  ASSUME Inv, NEW a \in Agent, CallFails(a)
  PROVE  CompletionIsNoticed'
BY OffboardingAssumption DEF CallFails, CompletionIsNoticed, Inv, TypeOK

\* With nothing cut short, no overlap of sign-offs and returns leaves a complete
\* checklist without a handler that will approve its request.
THEOREM CompletionsAreNoticed == Spec => []CompletionIsNoticed
<1>1. Init => CompletionIsNoticed
  BY DEF Init, CompletionIsNoticed
<1>2. Inv /\ CompletionIsNoticed /\ [Next]_vars => CompletionIsNoticed'
  <2> SUFFICES ASSUME Inv, CompletionIsNoticed, [Next]_vars PROVE CompletionIsNoticed'
    OBVIOUS
  <2>1. CASE UNCHANGED vars
    BY <2>1 DEF vars, CompletionIsNoticed, At, Complete
  <2>2. ASSUME NEW a \in Agent, Step(a) PROVE CompletionIsNoticed'
    BY <2>2, OtherStepNoticed, DecideNoticed, CreateChecklistNoticed, ClearSaveNoticed,
       AutoReadNoticed, AutoSaveNoticed DEF Step
  <2> QED BY <2>1, <2>2, RequestNoticed, CallFailsNoticed DEF Next
<1> QED BY <1>1, <1>2, OffboardingInvariant, PTL DEF Spec
=============================================================================
