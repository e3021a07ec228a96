------------------------------- MODULE Leaves --------------------------------
(***************************************************************************)
(* Leave requests and the entitlements they are deducted from.             *)
(*                                                                         *)
(* An employee submits a request, may change or cancel it while it is      *)
(* pending, a manager and HR decide, and HR deducts the approved requests. *)
(* Accruals, personal entitlements, adjustments and the annual reset read  *)
(* an entitlement and write it later, while deductions increment it.       *)
(*                                                                         *)
(* Days are counted in halves, rates in whole days.  approvedFor,          *)
(* deductions and deducted are history; leaveOps bounds the exploration.   *)
(***************************************************************************)
EXTENDS Integers, Handlers

CONSTANTS
    LeaveRequest,   \* identifiers of leave requests
    Entitlement,    \* identifiers of entitlements
    Balance,        \* the pairs of an employee and a leave type
    PartTime,       \* the balances of part-time employees
    LeavePolicy,    \* the policies a leave type may have
    Days,           \* the durations and adjustments that are asked for
    MaxLeaveOps     \* bound on the requests that are handled

VARIABLES
    leaveRequests,  \* the request with an identifier, or NULL
    entitlements,   \* the entitlement with an identifier, or NULL
    leavePolicy,    \* the policy of each balance's leave type
    leaveCalls,     \* the handlers in flight
    approvedFor,    \* history: the days a request had while it was approved
    deductions,     \* history: what was deducted, by request
    deducted,       \* history: what was deducted from an entitlement since its reset
    leaveOps        \* the requests that were handled or are in flight

leaveVars == <<leaveRequests, entitlements, leavePolicy, leaveCalls,
               approvedFor, deductions, deducted, leaveOps>>

LeaveStatus == {"pending", "approved", "rejected", "cancelled"}

\* flow is approvalFlow: the decisions, without who made them and in which order.
LeaveRequestDoc ==
    [of : Balance, days : Days, attached : BOOLEAN,
     status : LeaveStatus, flow : SUBSET LeaveStatus]

EntitlementDoc ==
    [of : Balance, yearly : Int, accrued : Int, carry : Int,
     taken : Int, remaining : Int]

Deduction == [request : LeaveRequest, of : Balance, days : Days]

LeaveCall ==
    [at : {"modify.save"}, request : LeaveRequest,
     of : Balance \cup {NULL}, days : Days \cup {NULL}]
      \cup
    [at : {"cancel.save"}, request : LeaveRequest]
      \cup
    [at : {"finalize.save"}, request : LeaveRequest, status : LeaveStatus]
      \cup
    [at : {"deduct"}, left : SUBSET Deduction]
      \cup
    [at : {"accrue.save"}, entitlement : Entitlement, read : EntitlementDoc, new : EntitlementDoc]
      \cup
    [at : {"personal.create"}, of : Balance, override : Days \cup {NULL}, extra : Days \cup {NULL}]
      \cup
    [at : {"personal.save"}, entitlement : Entitlement, read : EntitlementDoc,
     override : Days \cup {NULL}, extra : Days \cup {NULL}]
      \cup
    [at : {"adjust.create"}, of : Balance, amount : Int]
      \cup
    [at : {"adjust.save"}, entitlement : Entitlement, remaining : Int]
      \cup
    [at : {"reset"}, left : [Entitlement -> EntitlementDoc \cup {NULL}]]

Policy ==
    [method : {"monthly", "yearly", "per-term"}, monthly : Nat, yearly : Nat,
     rounding : {"none", "round", "round_up", "round_down"},
     carryForwardAllowed : BOOLEAN, maxCarryForward : Nat]

ASSUME LeavesAssumption ==
    /\ Days \subseteq Nat
    /\ LeavePolicy \subseteq Policy
    /\ MaxLeaveOps \in Nat
    /\ NULL \notin LeaveRequestDoc \cup EntitlementDoc \cup LeaveCall \cup Days \cup Balance

LeaveExists(r) == leaveRequests[r] # NULL

LeaveHas(r, status) == LeaveExists(r) /\ leaveRequests[r].status = status

EntitlementsOf(b) == {e \in Entitlement : entitlements[e] # NULL /\ entitlements[e].of = b}

FreeEntitlement(e) == entitlements[e] = NULL

\* mongoose's defaults.
NewEntitlement(b) ==
    [of |-> b, yearly |-> 0, accrued |-> 0, carry |-> 0, taken |-> 0, remaining |-> 0]

Least(m, n) == IF m <= n THEN m ELSE n

\* What a request that is approved now adds to the history.
NoteApproval(r) ==
    approvedFor' = [approvedFor EXCEPT ![r] =
                      IF leaveRequests'[r].status = "approved"
                      THEN @ \cup {[of |-> leaveRequests'[r].of, days |-> leaveRequests'[r].days]}
                      ELSE @]

onlyCalls == <<leaveRequests, entitlements, leavePolicy, approvedFor, deductions, deducted>>
requestSide == <<leaveRequests, approvedFor>>
balanceSide == <<entitlements, leavePolicy, deductions, deducted>>

-----------------------------------------------------------------------------
(* The life of a request.                                                  *)

SubmitLeaveRequest(r, b, days, attached) ==
    /\ ~ LeaveExists(r)
    /\ leaveRequests' = [leaveRequests EXCEPT ![r] =
         [of |-> b, days |-> days, attached |-> attached, status |-> "pending", flow |-> {}]]
    /\ UNCHANGED <<balanceSide, leaveCalls, approvedFor>>

AttachToLeaveRequest(r) ==
    /\ LeaveExists(r)
    /\ leaveRequests' = [leaveRequests EXCEPT ![r].attached = TRUE]
    /\ UNCHANGED <<balanceSide, leaveCalls, approvedFor>>

\* A field that the change does not name (NULL) is left alone.
ModifyPendingRequest(a, r, b, days) ==
    /\ Idle(leaveCalls, a)
    /\ LeaveHas(r, "pending")
    /\ leaveCalls' = Begin(leaveCalls, a,
         [at |-> "modify.save", request |-> r, of |-> b, days |-> days])
    /\ UNCHANGED onlyCalls

ModifySave(a) ==
    /\ At(leaveCalls, a, "modify.save")
    /\ LET call == leaveCalls[a]
       IN  /\ leaveRequests' = [leaveRequests EXCEPT
                ![call.request].of = IF call.of = NULL THEN @ ELSE call.of,
                ![call.request].days = IF call.days = NULL THEN @ ELSE call.days]
           /\ NoteApproval(call.request)
    /\ leaveCalls' = Finish(leaveCalls, a)
    /\ UNCHANGED balanceSide

CancelPendingRequest(a, r) ==
    /\ Idle(leaveCalls, a)
    /\ LeaveHas(r, "pending")
    /\ leaveCalls' = Begin(leaveCalls, a, [at |-> "cancel.save", request |-> r])
    /\ UNCHANGED onlyCalls

CancelSave(a) ==
    /\ At(leaveCalls, a, "cancel.save")
    /\ leaveRequests' = [leaveRequests EXCEPT ![leaveCalls[a].request].status = "cancelled"]
    /\ leaveCalls' = Finish(leaveCalls, a)
    /\ UNCHANGED <<balanceSide, approvedFor>>

\* Mutant: the decision is not added to approvalFlow.
DecideUnsigned(r, status) ==
    /\ leaveRequests' = [leaveRequests EXCEPT ![r].status = status]
    /\ NoteApproval(r)

\* updateWithApprovalFlow: status and approvalFlow in one update.
Decide(r, status) ==
    /\ leaveRequests' = [leaveRequests EXCEPT
         ![r].status = status,
         ![r].flow = @ \cup {status}]
    /\ NoteApproval(r)

\* approveRequest and rejectRequest: whatever the status is.
ManagerDecides(r, status) ==
    /\ LeaveExists(r)
    /\ status \in {"approved", "rejected"}
    /\ Decide(r, status)
    /\ UNCHANGED <<balanceSide, leaveCalls>>

FinalizeLeaveRequest(a, r, status) ==
    /\ Idle(leaveCalls, a)
    /\ LeaveHas(r, "approved")
    /\ leaveCalls' = Begin(leaveCalls, a,
         [at |-> "finalize.save", request |-> r, status |-> status])
    /\ UNCHANGED onlyCalls

FinalizeSave(a) ==
    /\ At(leaveCalls, a, "finalize.save")
    /\ Decide(leaveCalls[a].request, leaveCalls[a].status)
    /\ leaveCalls' = Finish(leaveCalls, a)
    /\ UNCHANGED balanceSide

\* hrOverrideRequest, and one request of bulkProcessRequests.
HrDecides(r, status) ==
    /\ LeaveExists(r)
    /\ Decide(r, status)
    /\ UNCHANGED <<balanceSide, leaveCalls>>

\* The decision on the documents is logged and leaves the status alone.
VerifyMedicalDocuments(r, status) ==
    /\ LeaveExists(r)
    /\ leaveRequests[r].attached
    /\ status \in {"approved", "rejected"}
    /\ leaveRequests' = [leaveRequests EXCEPT
         ![r].flow = @ \cup {status}]
    /\ UNCHANGED <<balanceSide, leaveCalls, approvedFor>>

-----------------------------------------------------------------------------
(* autoUpdateBalancesForApprovedRequests: one $inc per approved request.   *)

DeductionFor(r) ==
    [request |-> r, of |-> leaveRequests[r].of, days |-> leaveRequests[r].days]

\* Mutant: pending requests are deducted as well.
AutoUpdateAll(a) ==
    /\ Idle(leaveCalls, a)
    /\ \E r \in LeaveRequest : LeaveExists(r)
    /\ leaveCalls' = Begin(leaveCalls, a,
         [at |-> "deduct", left |-> {DeductionFor(r) : r \in {x \in LeaveRequest : LeaveExists(x)}}])
    /\ UNCHANGED onlyCalls

AutoUpdateBalances(a) ==
    /\ Idle(leaveCalls, a)
    /\ \E r \in LeaveRequest : LeaveHas(r, "approved")
    /\ leaveCalls' = Begin(leaveCalls, a,
         [at   |-> "deduct",
          left |-> {DeductionFor(r) : r \in {x \in LeaveRequest : LeaveHas(x, "approved")}}])
    /\ UNCHANGED onlyCalls

\* updateBalance: an entitlement that is missing is inserted.
DeductFrom(e, deduction) ==
    LET before == IF FreeEntitlement(e) THEN NewEntitlement(deduction.of) ELSE entitlements[e]
    IN  [before EXCEPT !.taken = @ + deduction.days, !.remaining = @ - deduction.days]

UpdateBalance(a, e) ==
    /\ At(leaveCalls, a, "deduct")
    /\ \E deduction \in leaveCalls[a].left :
         LET others == leaveCalls[a].left \ {deduction}
         IN  /\ IF EntitlementsOf(deduction.of) = {}
                THEN FreeEntitlement(e)
                ELSE e \in EntitlementsOf(deduction.of)
             /\ entitlements' = [entitlements EXCEPT ![e] = DeductFrom(e, deduction)]
             /\ deducted' = [deducted EXCEPT ![e] = @ + deduction.days]
             /\ deductions' = deductions \cup {deduction}
             /\ leaveCalls' = IF others = {}
                              THEN Finish(leaveCalls, a)
                              ELSE [leaveCalls EXCEPT ![a].left = others]
    /\ UNCHANGED <<requestSide, leavePolicy>>

-----------------------------------------------------------------------------
(* updateEntitlementInternal.                                              *)

\* A part-time employee accrues half a day per day, which is rounded.
CalculateAccrual(policy, partTime) ==
    LET rate == CASE policy.method = "monthly"  -> policy.monthly
                  [] policy.method = "yearly"   -> policy.yearly
                  [] policy.method = "per-term" -> 6 * policy.monthly
    IN  IF partTime THEN rate ELSE 2 * rate

ApplyRoundingRule(halves, rule) ==
    CASE rule \in {"round", "round_up"} -> halves + (halves % 2)
      [] rule = "round_down"            -> halves - (halves % 2)
      [] rule = "none"                  -> halves

CalculateCarryForward(policy, remaining) ==
    IF policy.carryForwardAllowed THEN Least(remaining, 2 * policy.maxCarryForward) ELSE 0

ComputeRemaining(doc) == doc.yearly + doc.carry + doc.accrued - doc.taken

Accrued(doc, policy, partTime) ==
    LET new == [doc EXCEPT
          !.accrued = @ + ApplyRoundingRule(CalculateAccrual(policy, partTime), policy.rounding),
          !.carry   = CalculateCarryForward(policy, doc.remaining),
          !.yearly  = 2 * policy.yearly]
    IN  [new EXCEPT !.remaining = ComputeRemaining(new)]

UpdateEntitlementInternal(a, e) ==
    /\ Idle(leaveCalls, a)
    /\ ~ FreeEntitlement(e)
    /\ LET doc == entitlements[e]
       IN  leaveCalls' = Begin(leaveCalls, a,
             [at |-> "accrue.save", entitlement |-> e, read |-> doc,
              new |-> Accrued(doc, leavePolicy[doc.of], doc.of \in PartTime)])
    /\ UNCHANGED onlyCalls

\* Mutant: the whole entitlement that was read is written back.
AccrueSaveDocument(a) ==
    /\ At(leaveCalls, a, "accrue.save")
    /\ entitlements' = [entitlements EXCEPT ![leaveCalls[a].entitlement] = leaveCalls[a].new]
    /\ leaveCalls' = Finish(leaveCalls, a)
    /\ UNCHANGED <<requestSide, leavePolicy, deductions, deducted>>

AccrueSave(a) ==
    /\ At(leaveCalls, a, "accrue.save")
    /\ LET call == leaveCalls[a]
       IN  entitlements' = [entitlements EXCEPT ![call.entitlement] =
                              Saved(@, call.read, call.new)]
    /\ leaveCalls' = Finish(leaveCalls, a)
    /\ UNCHANGED <<requestSide, leavePolicy, deductions, deducted>>

ConfigureLeaveSettings(b, policy) ==
    /\ leavePolicy' = [leavePolicy EXCEPT ![b] = policy]
    /\ UNCHANGED <<requestSide, leaveCalls, entitlements, deductions, deducted>>

-----------------------------------------------------------------------------
(* assignPersonalizedEntitlement and manualBalanceAdjustment: a missing    *)
(* entitlement is created, without an index that would keep it unique.     *)

AssignPersonalizedEntitlement(a, b, override, extra) ==
    /\ Idle(leaveCalls, a)
    /\ \/ /\ EntitlementsOf(b) = {}
          /\ leaveCalls' = Begin(leaveCalls, a,
               [at |-> "personal.create", of |-> b, override |-> override, extra |-> extra])
       \/ \E e \in EntitlementsOf(b) :
            leaveCalls' = Begin(leaveCalls, a,
              [at |-> "personal.save", entitlement |-> e, read |-> entitlements[e],
               override |-> override, extra |-> extra])
    /\ UNCHANGED onlyCalls

PersonalCreate(a, e) ==
    /\ At(leaveCalls, a, "personal.create")
    /\ FreeEntitlement(e)
    /\ LET call == leaveCalls[a]
           doc  == NewEntitlement(call.of)
       IN  /\ entitlements' = [entitlements EXCEPT ![e] = doc]
           /\ leaveCalls' = Begin(leaveCalls, a,
                [at |-> "personal.save", entitlement |-> e, read |-> doc,
                 override |-> call.override, extra |-> call.extra])
    /\ deducted' = [deducted EXCEPT ![e] = 0]
    /\ UNCHANGED <<requestSide, leavePolicy, deductions>>

\* Extra days are added to what was read and win over an override.
PersonalSave(a) ==
    /\ At(leaveCalls, a, "personal.save")
    /\ LET call   == leaveCalls[a]
           yearly == IF call.extra # NULL THEN call.read.yearly + call.extra
                     ELSE IF call.override # NULL THEN call.override
                     ELSE call.read.yearly
       IN  entitlements' = [entitlements EXCEPT
             ![call.entitlement].yearly =
                IF call.extra = NULL /\ call.override = NULL THEN @ ELSE yearly,
             ![call.entitlement].remaining =
                (IF yearly = 0 THEN call.read.yearly ELSE yearly) - call.read.taken]
    /\ leaveCalls' = Finish(leaveCalls, a)
    /\ UNCHANGED <<requestSide, leavePolicy, deductions, deducted>>

ManualBalanceAdjustment(a, b, amount) ==
    /\ Idle(leaveCalls, a)
    /\ \/ /\ EntitlementsOf(b) = {}
          /\ leaveCalls' = Begin(leaveCalls, a,
               [at |-> "adjust.create", of |-> b, amount |-> amount])
       \/ \E e \in EntitlementsOf(b) :
            leaveCalls' = Begin(leaveCalls, a,
              [at |-> "adjust.save", entitlement |-> e,
               remaining |-> entitlements[e].remaining + amount])
    /\ UNCHANGED onlyCalls

AdjustCreate(a, e) ==
    /\ At(leaveCalls, a, "adjust.create")
    /\ FreeEntitlement(e)
    /\ LET call == leaveCalls[a]
       IN  entitlements' = [entitlements EXCEPT ![e] =
             [NewEntitlement(call.of) EXCEPT !.remaining = call.amount]]
    /\ leaveCalls' = Finish(leaveCalls, a)
    /\ deducted' = [deducted EXCEPT ![e] = 0]
    /\ UNCHANGED <<requestSide, leavePolicy, deductions>>

AdjustSave(a) ==
    /\ At(leaveCalls, a, "adjust.save")
    /\ entitlements' = [entitlements EXCEPT
         ![leaveCalls[a].entitlement].remaining = leaveCalls[a].remaining]
    /\ leaveCalls' = Finish(leaveCalls, a)
    /\ UNCHANGED <<requestSide, leavePolicy, deductions, deducted>>

-----------------------------------------------------------------------------
(* executeAnnualReset.                                                     *)

\* The entitlements chosen are all read before the first one is reset.
ExecuteAnnualReset(a, chosen) ==
    /\ Idle(leaveCalls, a)
    /\ \E e \in chosen : ~ FreeEntitlement(e)
    /\ leaveCalls' = Begin(leaveCalls, a,
         [at   |-> "reset",
          left |-> [e \in Entitlement |-> IF e \in chosen THEN entitlements[e] ELSE NULL]])
    /\ UNCHANGED onlyCalls

ResetEntitlement(a, e) ==
    /\ At(leaveCalls, a, "reset")
    /\ leaveCalls[a].left[e] # NULL
    /\ LET read   == leaveCalls[a].left[e]
           others == [leaveCalls[a].left EXCEPT ![e] = NULL]
           carry  == CalculateCarryForward(leavePolicy[read.of], read.remaining)
       IN  /\ entitlements' = [entitlements EXCEPT
                ![e].taken = 0, ![e].carry = carry, ![e].remaining = read.yearly + carry]
           /\ leaveCalls' = IF \A x \in Entitlement : others[x] = NULL
                            THEN Finish(leaveCalls, a)
                            ELSE [leaveCalls EXCEPT ![a].left = others]
    /\ deducted' = [deducted EXCEPT ![e] = 0]
    /\ UNCHANGED <<requestSide, leavePolicy, deductions>>

-----------------------------------------------------------------------------

\* A database call throws, or the process stops.
LeaveCallFails(a) ==
    /\ ~ Idle(leaveCalls, a)
    /\ leaveCalls' = Finish(leaveCalls, a)
    /\ UNCHANGED onlyCalls

LeavesInit ==
    /\ leaveRequests = [r \in LeaveRequest |-> NULL]
    /\ entitlements = [e \in Entitlement |-> NULL]
    /\ leavePolicy \in [Balance -> LeavePolicy]
    /\ leaveCalls = [a \in Agent |-> NULL]
    /\ approvedFor = [r \in LeaveRequest |-> {}]
    /\ deductions = {}
    /\ deducted = [e \in Entitlement |-> 0]
    /\ leaveOps = 0

\* What starts with a request, and is over at once or leaves a call in flight.
RequestLeave(r) ==
    \/ \E b \in Balance, days \in Days, attached \in BOOLEAN :
         SubmitLeaveRequest(r, b, days, attached)
    \/ AttachToLeaveRequest(r)
    \/ \E status \in LeaveStatus :
         ManagerDecides(r, status) \/ HrDecides(r, status) \/ VerifyMedicalDocuments(r, status)
    \/ \E a \in Agent :
         \/ \E b \in Balance \cup {NULL}, days \in Days \cup {NULL} :
              ModifyPendingRequest(a, r, b, days)
         \/ CancelPendingRequest(a, r)
         \/ \E status \in LeaveStatus : FinalizeLeaveRequest(a, r, status)

ManageBalances(a) ==
    \/ AutoUpdateBalances(a)
    \/ \E e \in Entitlement : UpdateEntitlementInternal(a, e)
    \/ \E b \in Balance, override, extra \in Days \cup {NULL} :
         AssignPersonalizedEntitlement(a, b, override, extra)
    \/ \E b \in Balance, days \in Days, sign \in {1, -1} :
         ManualBalanceAdjustment(a, b, sign * days)
    \/ \E chosen \in SUBSET Entitlement : ExecuteAnnualReset(a, chosen)

LeaveStep(a) ==
    \/ ModifySave(a) \/ CancelSave(a) \/ FinalizeSave(a)
    \/ AccrueSave(a) \/ PersonalSave(a) \/ AdjustSave(a)
    \/ \E e \in Entitlement :
         UpdateBalance(a, e) \/ PersonalCreate(a, e) \/ AdjustCreate(a, e) \/ ResetEntitlement(a, e)
    \/ LeaveCallFails(a)

LeavesNext ==
    \/ /\ leaveOps < MaxLeaveOps
       /\ leaveOps' = leaveOps + 1
       /\ \/ \E r \in LeaveRequest : RequestLeave(r)
          \/ \E a \in Agent : ManageBalances(a)
          \/ \E b \in Balance, policy \in LeavePolicy : ConfigureLeaveSettings(b, policy)
    \/ /\ leaveOps' = leaveOps
       /\ \E a \in Agent : LeaveStep(a)

LeavesSpec == LeavesInit /\ [][LeavesNext]_leaveVars

-----------------------------------------------------------------------------
(* Properties.                                                             *)

\* Every request, entitlement, call in flight and history has its type.
LeavesTypeOK ==
    /\ leaveRequests \in [LeaveRequest -> LeaveRequestDoc \cup {NULL}]
    /\ entitlements \in [Entitlement -> EntitlementDoc \cup {NULL}]
    /\ leavePolicy \in [Balance -> LeavePolicy]
    /\ leaveCalls \in [Agent -> LeaveCall \cup {NULL}]
    /\ approvedFor \in [LeaveRequest -> SUBSET [of : Balance, days : Days]]
    /\ deductions \subseteq Deduction
    /\ deducted \in [Entitlement -> Nat]
    /\ leaveOps \in 0..MaxLeaveOps

\* A request that is approved or rejected carries that decision in its
\* approvalFlow, although a change, a cancellation and a verification of the
\* documents write to the same request without deciding anything.
DecisionsAreLogged ==
    \A r \in LeaveRequest, status \in {"approved", "rejected"} :
      LeaveHas(r, status) => status \in leaveRequests[r].flow

\* What is deducted was approved: the request had the days and the leave type
\* that are deducted at a moment when it was approved, even if it is changed,
\* rejected or cancelled before its turn comes.
DeductionsWereApproved ==
    \A d \in deductions : [of |-> d.of, days |-> d.days] \in approvedFor[d.request]

\* No deduction is lost: taken is what was deducted since the entitlement was
\* created or reset, whatever accruals, assignments and adjustments read and
\* write back around it.
TakenIsDeducted ==
    \A e \in Entitlement : entitlements[e] # NULL => entitlements[e].taken = deducted[e]

=============================================================================
