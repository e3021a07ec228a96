----------------------------- MODULE TimeProofs ------------------------------
(***************************************************************************)
(* Leaves: type correctness, DecisionsAreLogged, DeductionsWereApproved    *)
(* and TakenIsDeducted, for any number of requests, entitlements and       *)
(* handlers.  A deduction on its way carries days that the request had     *)
(* while it was approved, whatever becomes of the request; and what an     *)
(* accrual saves leaves taken alone, since it read and computed the same.  *)
(*                                                                         *)
(* Attendance: type correctness, WorkWithinSpan and FinalisedWasApproved.  *)
(* A sorted list of punches is one whose pairs lie side by side without    *)
(* overlapping, so their minutes, each rounded by half a minute at most,   *)
(* add up to no more than the span (PairedMinutesFit).  That is induction  *)
(* over the places of a list, which goes through the least place at which  *)
(* the sum would be wrong: FS_StrictSubsetOrderingWellFounded gives the    *)
(* least-number principle (LeastOf), which needs no operator parameter.    *)
(***************************************************************************)
EXTENDS Leaves, Attendance, FiniteSetTheorems, WellFoundedInduction, TLAPS

AskedFor(doc) == [of |-> doc.of, days |-> doc.days]

\* An approved request has the days it is noted to be approved for.
ApprovalsNoted ==
    \A r \in LeaveRequest : LeaveHas(r, "approved") => AskedFor(leaveRequests[r]) \in approvedFor[r]

FreeIsNew == \A e \in Entitlement : FreeEntitlement(e) => deducted[e] = 0

\* What a handler in flight carries fits the documents.
LeaveCallSound(call) ==
    /\ call.at \in {"modify.save", "cancel.save", "finalize.save"} => LeaveExists(call.request)
    /\ call.at = "deduct" => \A d \in call.left : AskedFor(d) \in approvedFor[d.request]
    /\ call.at \in {"accrue.save", "personal.save", "adjust.save"} =>
         ~ FreeEntitlement(call.entitlement)
    /\ call.at = "accrue.save" => call.new.taken = call.read.taken
    /\ call.at = "reset" => \A e \in Entitlement : call.left[e] # NULL => ~ FreeEntitlement(e)

RequestsSound ==
    /\ leaveRequests \in [LeaveRequest -> LeaveRequestDoc \cup {NULL}]
    /\ approvedFor \in [LeaveRequest -> SUBSET [of : Balance, days : Days]]
    /\ DecisionsAreLogged
    /\ ApprovalsNoted

BalancesSound ==
    /\ entitlements \in [Entitlement -> EntitlementDoc \cup {NULL}]
    /\ leavePolicy \in [Balance -> LeavePolicy]
    /\ deducted \in [Entitlement -> Nat]
    /\ FreeIsNew
    /\ TakenIsDeducted

DeductionsSound == deductions \subseteq Deduction /\ DeductionsWereApproved

LeaveCallsSound ==
    /\ leaveCalls \in [Agent -> LeaveCall \cup {NULL}]
    /\ \A a \in Agent : leaveCalls[a] # NULL => LeaveCallSound(leaveCalls[a])

LeavesInv ==
    /\ RequestsSound
    /\ BalancesSound
    /\ DeductionsSound
    /\ LeaveCallsSound
    /\ leaveOps \in 0..MaxLeaveOps

-----------------------------------------------------------------------------

THEOREM LeavesInitially == LeavesInit => LeavesInv
<1> SUFFICES ASSUME LeavesInit PROVE LeavesInv
  OBVIOUS
<1>1. RequestsSound
  BY DEF LeavesInit, RequestsSound, DecisionsAreLogged, ApprovalsNoted, LeaveHas, LeaveExists
<1>2. BalancesSound
  BY DEF LeavesInit, BalancesSound, FreeIsNew, TakenIsDeducted
<1>3. DeductionsSound
  BY DEF LeavesInit, DeductionsSound, DeductionsWereApproved
<1>4. LeaveCallsSound
  BY DEF LeavesInit, LeaveCallsSound
<1>5. leaveOps \in 0..MaxLeaveOps
  BY LeavesAssumption DEF LeavesInit
<1> QED BY <1>1, <1>2, <1>3, <1>4, <1>5 DEF LeavesInv

\* The fields of a call at each of its steps.
LEMMA LeaveCallFields ==
    ASSUME NEW call \in LeaveCall
    PROVE  /\ call.at \in {"modify.save", "cancel.save", "finalize.save"} =>
                call.request \in LeaveRequest
           /\ call.at = "modify.save" =>
                call.of \in Balance \cup {NULL} /\ call.days \in Days \cup {NULL}
           /\ call.at = "finalize.save" => call.status \in LeaveStatus
           /\ call.at = "deduct" => call.left \in SUBSET Deduction
           /\ call.at \in {"accrue.save", "personal.save", "adjust.save"} =>
                call.entitlement \in Entitlement
           /\ call.at = "accrue.save" => call.read \in EntitlementDoc /\ call.new \in EntitlementDoc
           /\ call.at = "personal.save" =>
                /\ call.read \in EntitlementDoc
                /\ call.override \in Days \cup {NULL} /\ call.extra \in Days \cup {NULL}
           /\ call.at = "personal.create" =>
                /\ call.of \in Balance
                /\ call.override \in Days \cup {NULL} /\ call.extra \in Days \cup {NULL}
           /\ call.at = "adjust.create" => call.of \in Balance /\ call.amount \in Int
           /\ call.at = "adjust.save" => call.remaining \in Int
           /\ call.at = "reset" => call.left \in [Entitlement -> EntitlementDoc \cup {NULL}]
BY DEF LeaveCall

LEMMA LeaveCallOf ==
    ASSUME LeavesInv, NEW a \in Agent, leaveCalls[a] # NULL
    PROVE  leaveCalls[a] \in LeaveCall /\ LeaveCallSound(leaveCalls[a])
BY DEF LeavesInv, LeaveCallsSound

-----------------------------------------------------------------------------
(* What steps have in common.                                              *)

\* Requests, entitlements and approvals never go away.
LeavesGrow ==
    /\ \A r \in LeaveRequest : leaveRequests[r] # NULL => leaveRequests'[r] # NULL
    /\ \A r \in LeaveRequest : approvedFor[r] \subseteq approvedFor'[r]
    /\ \A e \in Entitlement : entitlements[e] # NULL => entitlements'[e] # NULL

\* Agent a goes on with next, a call or NULL.
LeaveMoves(a, next) == leaveCalls' = [leaveCalls EXCEPT ![a] = next]

LEMMA LeaveCallStays ==
    ASSUME NEW call \in LeaveCall, LeaveCallSound(call), LeavesGrow
    PROVE  LeaveCallSound(call)'
<1>1. call.at \in {"modify.save", "cancel.save", "finalize.save"} => LeaveExists(call.request)'
  BY LeaveCallFields DEF LeaveCallSound, LeavesGrow, LeaveExists
<1>2. call.at = "deduct" => \A d \in call.left : (AskedFor(d) \in approvedFor[d.request])'
  <2>1. ASSUME call.at = "deduct", NEW d \in call.left
        PROVE  AskedFor(d) \in approvedFor'[d.request]
    <3>1. d.request \in LeaveRequest
      BY <2>1, LeaveCallFields DEF Deduction
    <3>2. AskedFor(d) \in approvedFor[d.request]
      BY <2>1 DEF LeaveCallSound
    <3> QED BY <3>1, <3>2 DEF LeavesGrow
  <2> QED BY <2>1 DEF AskedFor
<1>3. call.at \in {"accrue.save", "personal.save", "adjust.save"} =>
        ~ FreeEntitlement(call.entitlement)'
  BY LeaveCallFields DEF LeaveCallSound, LeavesGrow, FreeEntitlement
<1>4. call.at = "reset" => \A e \in Entitlement : call.left[e] # NULL => ~ FreeEntitlement(e)'
  BY DEF LeaveCallSound, LeavesGrow, FreeEntitlement
<1> QED BY <1>1, <1>2, <1>3, <1>4 DEF LeaveCallSound

LEMMA LeaveCallsAfter ==
    ASSUME LeavesInv, LeavesGrow, NEW a \in Agent, NEW next \in LeaveCall \cup {NULL},
           LeaveMoves(a, next), next # NULL => LeaveCallSound(next)'
    PROVE  LeaveCallsSound'
<1>1. leaveCalls \in [Agent -> LeaveCall \cup {NULL}]
  BY DEF LeavesInv, LeaveCallsSound
<1>2. /\ leaveCalls' \in [Agent -> LeaveCall \cup {NULL}]
      /\ \A b \in Agent : leaveCalls'[b] = IF b = a THEN next ELSE leaveCalls[b]
  BY <1>1 DEF LeaveMoves
<1>3. ASSUME NEW b \in Agent, b # a, leaveCalls[b] # NULL PROVE LeaveCallSound(leaveCalls[b])'
  <2>1. leaveCalls[b] \in LeaveCall /\ LeaveCallSound(leaveCalls[b])
    BY <1>3, LeaveCallOf
  <2>2. PICK call \in LeaveCall : call = leaveCalls[b]
    BY <2>1
  <2>3. LeaveCallSound(call)'
    BY <2>1, <2>2, LeaveCallStays
  <2>4. leaveCalls'[b] = call
    BY <1>2, <1>3, <2>2
  <2> QED BY <2>3, <2>4
<1>4. next # NULL => LeaveCallSound(leaveCalls[a])'
  <2>1. leaveCalls'[a] = next
    BY <1>2
  <2> QED BY <2>1
<1> QED BY <1>2, <1>3, <1>4 DEF LeaveCallsSound

LEMMA LeaveCallsStay ==
    ASSUME LeavesInv, LeavesGrow, leaveCalls' = leaveCalls
    PROVE  LeaveCallsSound'
<1>1. ASSUME NEW b \in Agent, leaveCalls[b] # NULL PROVE LeaveCallSound(leaveCalls[b])'
  <2>1. leaveCalls[b] \in LeaveCall /\ LeaveCallSound(leaveCalls[b])
    BY <1>1, LeaveCallOf
  <2>2. PICK call \in LeaveCall : call = leaveCalls[b]
    BY <2>1
  <2>3. LeaveCallSound(call)'
    BY <2>1, <2>2, LeaveCallStays
  <2> QED BY <2>2, <2>3
<1> QED BY <1>1 DEF LeavesInv, LeaveCallsSound

\* Parts of the invariant that a step does not touch.
LEMMA RequestsStay ==
    ASSUME LeavesInv, UNCHANGED requestSide
    PROVE  RequestsSound'
<1>1. leaveRequests' = leaveRequests /\ approvedFor' = approvedFor
  BY DEF requestSide
<1> QED BY <1>1 DEF LeavesInv, RequestsSound, DecisionsAreLogged, ApprovalsNoted, LeaveHas, LeaveExists

LEMMA BalancesStay ==
    ASSUME LeavesInv, UNCHANGED <<entitlements, leavePolicy, deducted>>
    PROVE  BalancesSound'
BY DEF LeavesInv, BalancesSound, FreeIsNew, TakenIsDeducted, FreeEntitlement

LEMMA DeductionsStay ==
    ASSUME LeavesInv, LeavesGrow, deductions' = deductions
    PROVE  DeductionsSound'
BY DEF LeavesInv, DeductionsSound, DeductionsWereApproved, LeavesGrow, Deduction

\* A step that moves one call and leaves the documents alone.
LEMMA LeaveCallsOnly ==
    ASSUME LeavesInv, NEW a \in Agent, NEW next \in LeaveCall \cup {NULL}, LeaveMoves(a, next),
           next # NULL => LeaveCallSound(next), UNCHANGED onlyCalls, leaveOps' \in 0..MaxLeaveOps
    PROVE  LeavesInv'
<1>1. /\ leaveRequests' = leaveRequests /\ entitlements' = entitlements
      /\ leavePolicy' = leavePolicy /\ approvedFor' = approvedFor
      /\ deductions' = deductions /\ deducted' = deducted
  BY DEF onlyCalls
<1>2. LeavesGrow
  BY <1>1 DEF LeavesGrow
<1>3. next # NULL => LeaveCallSound(next)'
  BY <1>2, LeaveCallStays
<1>4. LeaveCallsSound'
  BY <1>2, <1>3, LeaveCallsAfter
<1>5. RequestsSound' /\ BalancesSound' /\ DeductionsSound'
  BY <1>1, <1>2, RequestsStay, BalancesStay, DeductionsStay DEF requestSide
<1> QED BY <1>4, <1>5 DEF LeavesInv

LEMMA LeaveBegins ==
    ASSUME LeavesInv, NEW a \in Agent, NEW call \in LeaveCall, LeaveCallSound(call),
           leaveCalls' = Begin(leaveCalls, a, call), UNCHANGED onlyCalls,
           leaveOps' \in 0..MaxLeaveOps
    PROVE  LeavesInv'
BY LeaveCallsOnly DEF Begin, LeaveMoves

\* A step that changes requests and ends a call, or changes no call.
LEMMA RequestsChange ==
    ASSUME LeavesInv, RequestsSound', UNCHANGED balanceSide, leaveOps' \in 0..MaxLeaveOps,
           \A r \in LeaveRequest : leaveRequests[r] # NULL => leaveRequests'[r] # NULL,
           \A r \in LeaveRequest : approvedFor[r] \subseteq approvedFor'[r],
           leaveCalls' = leaveCalls \/ \E a \in Agent : leaveCalls' = Finish(leaveCalls, a)
    PROVE  LeavesInv'
<1>1. /\ entitlements' = entitlements /\ leavePolicy' = leavePolicy
      /\ deductions' = deductions /\ deducted' = deducted
  BY DEF balanceSide
<1>2. LeavesGrow
  BY <1>1 DEF LeavesGrow
<1>3. LeaveCallsSound'
  <2>1. CASE leaveCalls' = leaveCalls
    BY <1>2, <2>1, LeaveCallsStay
  <2>2. ASSUME NEW a \in Agent, leaveCalls' = Finish(leaveCalls, a) PROVE LeaveCallsSound'
    BY <1>2, <2>2, LeaveCallsAfter DEF Finish, LeaveMoves
  <2> QED BY <2>1, <2>2
<1> QED BY <1>1, <1>2, <1>3, BalancesStay, DeductionsStay DEF LeavesInv

\* A step that changes entitlements, with any move of one call.
LEMMA BalancesChange ==
    ASSUME LeavesInv, BalancesSound', UNCHANGED requestSide, deductions' = deductions,
           leaveOps' \in 0..MaxLeaveOps,
           \A e \in Entitlement : entitlements[e] # NULL => entitlements'[e] # NULL,
           NEW a \in Agent, NEW next \in LeaveCall \cup {NULL}, LeaveMoves(a, next),
           next # NULL => LeaveCallSound(next)'
    PROVE  LeavesInv'
<1>1. LeavesGrow
  BY DEF LeavesGrow, requestSide
<1>2. LeaveCallsSound'
  BY <1>1, LeaveCallsAfter
<1> QED BY <1>1, <1>2, RequestsStay, DeductionsStay DEF LeavesInv

-----------------------------------------------------------------------------
(* The life of a request.                                                  *)

LEMMA LeaveRequestOf ==
    ASSUME LeavesInv, NEW r \in LeaveRequest, LeaveExists(r)
    PROVE  leaveRequests[r] \in LeaveRequestDoc
BY DEF LeavesInv, RequestsSound, LeaveExists

\* One request becomes new, and its approval, if it has one, is noted.
LEMMA RequestBecomes ==
    ASSUME LeavesInv, NEW r \in LeaveRequest, NEW new \in LeaveRequestDoc,
           leaveRequests' = [leaveRequests EXCEPT ![r] = new],
           \A status \in {"approved", "rejected"} : new.status = status => status \in new.flow,
           \/ NoteApproval(r)
           \/ approvedFor' = approvedFor /\ (new.status = "approved" => AskedFor(new) \in approvedFor[r])
    PROVE  /\ RequestsSound'
           /\ \A q \in LeaveRequest : leaveRequests[q] # NULL => leaveRequests'[q] # NULL
           /\ \A q \in LeaveRequest : approvedFor[q] \subseteq approvedFor'[q]
<1>1. /\ leaveRequests \in [LeaveRequest -> LeaveRequestDoc \cup {NULL}]
      /\ approvedFor \in [LeaveRequest -> SUBSET [of : Balance, days : Days]]
      /\ DecisionsAreLogged /\ ApprovalsNoted
  BY DEF LeavesInv, RequestsSound
<1>2. /\ leaveRequests' \in [LeaveRequest -> LeaveRequestDoc \cup {NULL}]
      /\ leaveRequests'[r] = new /\ new # NULL
      /\ \A q \in LeaveRequest : q # r => leaveRequests'[q] = leaveRequests[q]
  BY <1>1, LeavesAssumption
<1>3. AskedFor(new) \in [of : Balance, days : Days]
  BY DEF LeaveRequestDoc, AskedFor
<1>4. /\ approvedFor' \in [LeaveRequest -> SUBSET [of : Balance, days : Days]]
      /\ \A q \in LeaveRequest : approvedFor[q] \subseteq approvedFor'[q]
      /\ new.status = "approved" => AskedFor(new) \in approvedFor'[r]
  <2>1. CASE NoteApproval(r)
    <3>1. approvedFor' = [approvedFor EXCEPT ![r] =
                            IF new.status = "approved" THEN @ \cup {AskedFor(new)} ELSE @]
      BY <1>2, <2>1 DEF NoteApproval, AskedFor
    <3> QED BY <1>1, <1>3, <3>1
  <2>2. CASE approvedFor' = approvedFor /\ (new.status = "approved" => AskedFor(new) \in approvedFor[r])
    BY <1>1, <2>2
  <2> QED BY <2>1, <2>2
<1>5. DecisionsAreLogged'
  BY <1>1, <1>2 DEF DecisionsAreLogged, LeaveHas, LeaveExists
<1>6. ApprovalsNoted'
  BY <1>1, <1>2, <1>4 DEF ApprovalsNoted, LeaveHas, LeaveExists, AskedFor
<1> QED BY <1>1, <1>2, <1>4, <1>5, <1>6 DEF RequestsSound

\* A decision logs itself.
LEMMA DecideStep ==
    ASSUME LeavesInv, NEW r \in LeaveRequest, LeaveExists(r), NEW status \in LeaveStatus,
           Decide(r, status), UNCHANGED balanceSide, leaveOps' \in 0..MaxLeaveOps,
           leaveCalls' = leaveCalls \/ \E a \in Agent : leaveCalls' = Finish(leaveCalls, a)
    PROVE  LeavesInv'
<1> DEFINE doc == leaveRequests[r]
           new == [doc EXCEPT !.status = status, !.flow = @ \cup {status}]
<1>1. doc \in LeaveRequestDoc
  BY LeaveRequestOf
<1>2. new \in LeaveRequestDoc /\ new.status = status /\ status \in new.flow
  BY <1>1 DEF LeaveRequestDoc
<1>3. leaveRequests' = [leaveRequests EXCEPT ![r] = new] /\ NoteApproval(r)
  BY DEF Decide, LeavesInv, RequestsSound
<1> HIDE DEF new
<1>4. /\ RequestsSound'
      /\ \A q \in LeaveRequest : leaveRequests[q] # NULL => leaveRequests'[q] # NULL
      /\ \A q \in LeaveRequest : approvedFor[q] \subseteq approvedFor'[q]
  BY <1>2, <1>3, RequestBecomes
<1> QED BY <1>4, RequestsChange

LEMMA SubmitLeaveRequestStep ==
    ASSUME LeavesInv, NEW r \in LeaveRequest, NEW b \in Balance, NEW days \in Days,
           NEW attached \in BOOLEAN, SubmitLeaveRequest(r, b, days, attached),
           leaveOps' \in 0..MaxLeaveOps
    PROVE  LeavesInv'
<1> DEFINE new == [of |-> b, days |-> days, attached |-> attached, status |-> "pending", flow |-> {}]
<1>1. new \in LeaveRequestDoc /\ new.status = "pending"
  BY DEF LeaveRequestDoc, LeaveStatus
<1>2. /\ leaveRequests' = [leaveRequests EXCEPT ![r] = new]
      /\ approvedFor' = approvedFor /\ UNCHANGED balanceSide /\ leaveCalls' = leaveCalls
  BY DEF SubmitLeaveRequest, balanceSide
<1> HIDE DEF new
<1>3. /\ RequestsSound'
      /\ \A q \in LeaveRequest : leaveRequests[q] # NULL => leaveRequests'[q] # NULL
      /\ \A q \in LeaveRequest : approvedFor[q] \subseteq approvedFor'[q]
  BY <1>1, <1>2, RequestBecomes
<1> QED BY <1>2, <1>3, RequestsChange

\* A change of a request that leaves its decision, and what it asks for, alone.
LEMMA RequestStays ==
    ASSUME LeavesInv, NEW r \in LeaveRequest, LeaveExists(r), NEW new \in LeaveRequestDoc,
           leaveRequests' = [leaveRequests EXCEPT ![r] = new], approvedFor' = approvedFor,
           UNCHANGED balanceSide, leaveOps' \in 0..MaxLeaveOps,
           leaveCalls' = leaveCalls \/ \E a \in Agent : leaveCalls' = Finish(leaveCalls, a),
           \/ new.status = "cancelled"
           \/ /\ new.status = leaveRequests[r].status
              /\ leaveRequests[r].flow \subseteq new.flow
              /\ AskedFor(new) = AskedFor(leaveRequests[r])
    PROVE  LeavesInv'
<1>1. \A status \in {"approved", "rejected"} : new.status = status => status \in new.flow
  BY DEF LeavesInv, RequestsSound, DecisionsAreLogged, LeaveHas
<1>2. new.status = "approved" => AskedFor(new) \in approvedFor[r]
  BY DEF LeavesInv, RequestsSound, ApprovalsNoted, LeaveHas
<1>3. /\ RequestsSound'
      /\ \A q \in LeaveRequest : leaveRequests[q] # NULL => leaveRequests'[q] # NULL
      /\ \A q \in LeaveRequest : approvedFor[q] \subseteq approvedFor'[q]
  BY <1>1, <1>2, RequestBecomes
<1> QED BY <1>3, RequestsChange

LEMMA AttachToLeaveRequestStep ==
    ASSUME LeavesInv, NEW r \in LeaveRequest, AttachToLeaveRequest(r), leaveOps' \in 0..MaxLeaveOps
    PROVE  LeavesInv'
<1> DEFINE doc == leaveRequests[r]
           new == [doc EXCEPT !.attached = TRUE]
<1>1. LeaveExists(r) /\ doc \in LeaveRequestDoc
  BY LeaveRequestOf DEF AttachToLeaveRequest
<1>2. /\ new \in LeaveRequestDoc /\ new.status = doc.status /\ doc.flow \subseteq new.flow
      /\ AskedFor(new) = AskedFor(doc)
  BY <1>1 DEF LeaveRequestDoc, AskedFor
<1>3. /\ leaveRequests' = [leaveRequests EXCEPT ![r] = new]
      /\ approvedFor' = approvedFor /\ UNCHANGED balanceSide /\ leaveCalls' = leaveCalls
  BY DEF AttachToLeaveRequest, balanceSide, LeavesInv, RequestsSound
<1> HIDE DEF new
<1> QED BY <1>1, <1>2, <1>3, RequestStays

LEMMA VerifyMedicalDocumentsStep ==
    ASSUME LeavesInv, NEW r \in LeaveRequest, NEW status \in LeaveStatus,
           VerifyMedicalDocuments(r, status), leaveOps' \in 0..MaxLeaveOps
    PROVE  LeavesInv'
<1> DEFINE doc == leaveRequests[r]
           new == [doc EXCEPT !.flow = @ \cup {status}]
<1>1. LeaveExists(r) /\ doc \in LeaveRequestDoc
  BY LeaveRequestOf DEF VerifyMedicalDocuments
<1>2. /\ new \in LeaveRequestDoc /\ new.status = doc.status /\ doc.flow \subseteq new.flow
      /\ AskedFor(new) = AskedFor(doc)
  BY <1>1 DEF LeaveRequestDoc, AskedFor
<1>3. /\ leaveRequests' = [leaveRequests EXCEPT ![r] = new]
      /\ approvedFor' = approvedFor /\ UNCHANGED balanceSide /\ leaveCalls' = leaveCalls
  BY DEF VerifyMedicalDocuments, LeavesInv, RequestsSound
<1> HIDE DEF new
<1> QED BY <1>1, <1>2, <1>3, RequestStays

LEMMA DecisionStep ==
    ASSUME LeavesInv, NEW r \in LeaveRequest, NEW status \in LeaveStatus,
           ManagerDecides(r, status) \/ HrDecides(r, status), leaveOps' \in 0..MaxLeaveOps
    PROVE  LeavesInv'
<1>1. LeaveExists(r) /\ Decide(r, status) /\ UNCHANGED balanceSide /\ leaveCalls' = leaveCalls
  BY DEF ManagerDecides, HrDecides
<1> QED BY <1>1, DecideStep

LEMMA RequestCallsBegin ==
    ASSUME LeavesInv, NEW a \in Agent, NEW r \in LeaveRequest, NEW b \in Balance \cup {NULL},
           NEW days \in Days \cup {NULL}, NEW status \in LeaveStatus,
           \/ ModifyPendingRequest(a, r, b, days)
           \/ CancelPendingRequest(a, r)
           \/ FinalizeLeaveRequest(a, r, status),
           leaveOps' \in 0..MaxLeaveOps
    PROVE  LeavesInv'
<1> DEFINE modify == [at |-> "modify.save", request |-> r, of |-> b, days |-> days]
           cancel == [at |-> "cancel.save", request |-> r]
           finalize == [at |-> "finalize.save", request |-> r, status |-> status]
<1>1. /\ LeaveExists(r) /\ UNCHANGED onlyCalls
      /\ leaveCalls' \in {Begin(leaveCalls, a, modify), Begin(leaveCalls, a, cancel),
                          Begin(leaveCalls, a, finalize)}
  BY DEF ModifyPendingRequest, CancelPendingRequest, FinalizeLeaveRequest, LeaveHas
<1>2. modify \in LeaveCall /\ cancel \in LeaveCall /\ finalize \in LeaveCall
  BY DEF LeaveCall
<1>3. LeaveCallSound(modify) /\ LeaveCallSound(cancel) /\ LeaveCallSound(finalize)
  BY <1>1 DEF LeaveCallSound
<1> HIDE DEF modify, cancel, finalize
<1> QED BY <1>1, <1>2, <1>3, LeaveBegins

LEMMA RequestLeaveStep ==
    ASSUME LeavesInv, NEW r \in LeaveRequest, RequestLeave(r), leaveOps' \in 0..MaxLeaveOps
    PROVE  LeavesInv'
<1>1. \E days \in Days \cup {NULL}, b \in Balance \cup {NULL} : TRUE
  OBVIOUS
<1>2. ASSUME NEW a \in Agent, CancelPendingRequest(a, r) PROVE LeavesInv'
  <2>1. "pending" \in LeaveStatus
    BY DEF LeaveStatus
  <2> QED BY <1>1, <1>2, <2>1, RequestCallsBegin
<1>3. ASSUME NEW a \in Agent, NEW status \in LeaveStatus, FinalizeLeaveRequest(a, r, status)
      PROVE  LeavesInv'
  BY <1>1, <1>3, RequestCallsBegin
<1>4. ASSUME NEW a \in Agent, NEW b \in Balance \cup {NULL}, NEW days \in Days \cup {NULL},
             ModifyPendingRequest(a, r, b, days)
      PROVE  LeavesInv'
  <2>1. "pending" \in LeaveStatus
    BY DEF LeaveStatus
  <2> QED BY <1>4, <2>1, RequestCallsBegin
<1> QED BY <1>2, <1>3, <1>4, SubmitLeaveRequestStep, AttachToLeaveRequestStep,
           VerifyMedicalDocumentsStep, DecisionStep DEF RequestLeave

\* The writes.
LEMMA RequestCallOf ==
    ASSUME LeavesInv, NEW a \in Agent,
           NEW where \in {"modify.save", "cancel.save", "finalize.save"}, At(leaveCalls, a, where)
    PROVE  /\ leaveCalls[a] \in LeaveCall /\ leaveCalls[a].at = where
           /\ leaveCalls[a].request \in LeaveRequest /\ LeaveExists(leaveCalls[a].request)
BY LeaveCallOf, LeaveCallFields DEF At, LeaveCallSound

LEMMA ModifySaveStep ==
    ASSUME LeavesInv, NEW a \in Agent, ModifySave(a), leaveOps' \in 0..MaxLeaveOps
    PROVE  LeavesInv'
<1>1. PICK call \in LeaveCall : call = leaveCalls[a] /\ call.at = "modify.save"
                                /\ call.request \in LeaveRequest /\ LeaveExists(call.request)
  BY RequestCallOf DEF ModifySave
<1> DEFINE r == call.request
           doc == leaveRequests[r]
           new == [doc EXCEPT !.of = IF call.of = NULL THEN @ ELSE call.of,
                              !.days = IF call.days = NULL THEN @ ELSE call.days]
<1>2. doc \in LeaveRequestDoc /\ call.of \in Balance \cup {NULL} /\ call.days \in Days \cup {NULL}
  BY <1>1, LeaveRequestOf, LeaveCallFields
<1>3. new \in LeaveRequestDoc /\ new.status = doc.status /\ new.flow = doc.flow
  BY <1>2 DEF LeaveRequestDoc
<1>4. /\ leaveRequests' = [leaveRequests EXCEPT ![r] = new] /\ NoteApproval(r)
      /\ leaveCalls' = Finish(leaveCalls, a) /\ UNCHANGED balanceSide
  BY <1>1 DEF ModifySave, LeavesInv, RequestsSound
<1> HIDE DEF new
<1>5. \A status \in {"approved", "rejected"} : new.status = status => status \in new.flow
  BY <1>1, <1>3 DEF LeavesInv, RequestsSound, DecisionsAreLogged, LeaveHas
<1>6. /\ RequestsSound'
      /\ \A q \in LeaveRequest : leaveRequests[q] # NULL => leaveRequests'[q] # NULL
      /\ \A q \in LeaveRequest : approvedFor[q] \subseteq approvedFor'[q]
  BY <1>1, <1>3, <1>4, <1>5, RequestBecomes
<1> QED BY <1>4, <1>6, RequestsChange

LEMMA CancelSaveStep ==
    ASSUME LeavesInv, NEW a \in Agent, CancelSave(a), leaveOps' \in 0..MaxLeaveOps
    PROVE  LeavesInv'
<1>1. PICK r \in LeaveRequest : r = leaveCalls[a].request /\ LeaveExists(r)
  BY RequestCallOf DEF CancelSave
<1> DEFINE doc == leaveRequests[r]
           new == [doc EXCEPT !.status = "cancelled"]
<1>2. doc \in LeaveRequestDoc
  BY <1>1, LeaveRequestOf
<1>3. new \in LeaveRequestDoc /\ new.status = "cancelled"
  BY <1>2 DEF LeaveRequestDoc, LeaveStatus
<1>4. /\ leaveRequests' = [leaveRequests EXCEPT ![r] = new] /\ approvedFor' = approvedFor
      /\ leaveCalls' = Finish(leaveCalls, a) /\ UNCHANGED balanceSide
  BY <1>1 DEF CancelSave, LeavesInv, RequestsSound
<1> HIDE DEF new
<1> QED BY <1>1, <1>3, <1>4, RequestStays

LEMMA FinalizeSaveStep ==
    ASSUME LeavesInv, NEW a \in Agent, FinalizeSave(a), leaveOps' \in 0..MaxLeaveOps
    PROVE  LeavesInv'
<1>1. PICK call \in LeaveCall : call = leaveCalls[a] /\ call.at = "finalize.save"
                                /\ call.request \in LeaveRequest /\ LeaveExists(call.request)
  BY RequestCallOf DEF FinalizeSave
<1>2. call.status \in LeaveStatus
  BY <1>1, LeaveCallFields
<1>3. /\ Decide(call.request, call.status)
      /\ leaveCalls' = Finish(leaveCalls, a) /\ UNCHANGED balanceSide
  BY <1>1 DEF FinalizeSave
<1> QED BY <1>1, <1>2, <1>3, DecideStep

-----------------------------------------------------------------------------
(* Entitlements.                                                           *)

LEMMA EntitlementOf ==
    ASSUME LeavesInv, NEW e \in Entitlement, ~ FreeEntitlement(e)
    PROVE  entitlements[e] \in EntitlementDoc /\ entitlements[e].taken = deducted[e]
BY DEF LeavesInv, BalancesSound, FreeEntitlement, TakenIsDeducted

LEMMA NewEntitlementType ==
    ASSUME NEW b \in Balance
    PROVE  NewEntitlement(b) \in EntitlementDoc /\ NewEntitlement(b).taken = 0
BY DEF NewEntitlement, EntitlementDoc

\* An entitlement stays one when a number in it is replaced.
LEMMA EntitlementFields ==
    ASSUME NEW doc \in EntitlementDoc, NEW n \in Int
    PROVE  /\ [doc EXCEPT !.yearly = n] \in EntitlementDoc
           /\ [doc EXCEPT !.accrued = n] \in EntitlementDoc
           /\ [doc EXCEPT !.carry = n] \in EntitlementDoc
           /\ [doc EXCEPT !.taken = n] \in EntitlementDoc
           /\ [doc EXCEPT !.remaining = n] \in EntitlementDoc
BY DEF EntitlementDoc

\* One entitlement becomes new, which has taken what was deducted.
LEMMA EntitlementBecomes ==
    ASSUME LeavesInv, NEW e \in Entitlement, NEW new \in EntitlementDoc,
           entitlements' = [entitlements EXCEPT ![e] = new],
           NEW total \in Nat, deducted' = [deducted EXCEPT ![e] = total],
           new.taken = total, leavePolicy' = leavePolicy
    PROVE  /\ BalancesSound'
           /\ \A x \in Entitlement : entitlements[x] # NULL => entitlements'[x] # NULL
<1>1. /\ entitlements \in [Entitlement -> EntitlementDoc \cup {NULL}]
      /\ deducted \in [Entitlement -> Nat] /\ FreeIsNew /\ TakenIsDeducted
      /\ leavePolicy \in [Balance -> LeavePolicy]
  BY DEF LeavesInv, BalancesSound
<1>2. /\ entitlements' \in [Entitlement -> EntitlementDoc \cup {NULL}]
      /\ entitlements'[e] = new /\ new # NULL
      /\ \A x \in Entitlement : x # e => entitlements'[x] = entitlements[x]
  BY <1>1, LeavesAssumption
<1>3. /\ deducted' \in [Entitlement -> Nat] /\ deducted'[e] = total
      /\ \A x \in Entitlement : x # e => deducted'[x] = deducted[x]
  BY <1>1
<1>4. FreeIsNew'
  BY <1>1, <1>2, <1>3 DEF FreeIsNew, FreeEntitlement
<1>5. TakenIsDeducted'
  BY <1>1, <1>2, <1>3 DEF TakenIsDeducted
<1> QED BY <1>1, <1>2, <1>3, <1>4, <1>5 DEF BalancesSound

\* Nothing was deducted from an entitlement that was made or reset.
LEMMA EntitlementStartsAnew ==
    ASSUME LeavesInv, NEW e \in Entitlement, NEW new \in EntitlementDoc, new.taken = 0,
           entitlements' = [entitlements EXCEPT ![e] = new],
           deducted' = [deducted EXCEPT ![e] = 0], leavePolicy' = leavePolicy
    PROVE  /\ BalancesSound'
           /\ \A x \in Entitlement : entitlements[x] # NULL => entitlements'[x] # NULL
<1>1. PICK total \in Nat : total = 0
  OBVIOUS
<1>2. new.taken = total /\ deducted' = [deducted EXCEPT ![e] = total]
  BY <1>1
<1> QED BY <1>2, EntitlementBecomes

\* The same when nothing is deducted or reset.
LEMMA EntitlementKeepsTaken ==
    ASSUME LeavesInv, NEW e \in Entitlement, ~ FreeEntitlement(e), NEW new \in EntitlementDoc,
           entitlements' = [entitlements EXCEPT ![e] = new], deducted' = deducted,
           new.taken = entitlements[e].taken, leavePolicy' = leavePolicy
    PROVE  /\ BalancesSound'
           /\ \A x \in Entitlement : entitlements[x] # NULL => entitlements'[x] # NULL
<1>1. deducted[e] \in Nat /\ deducted' = [deducted EXCEPT ![e] = deducted[e]]
  BY DEF LeavesInv, BalancesSound
<1>2. new.taken = deducted[e]
  BY EntitlementOf
<1> QED BY <1>1, <1>2, EntitlementBecomes

\* An agent whose entitlement was saved is done.
LEMMA SavedAndDone ==
    ASSUME LeavesInv, NEW a \in Agent, leaveCalls' = Finish(leaveCalls, a), BalancesSound',
           \A x \in Entitlement : entitlements[x] # NULL => entitlements'[x] # NULL,
           UNCHANGED requestSide, deductions' = deductions, leaveOps' \in 0..MaxLeaveOps
    PROVE  LeavesInv'
<1>1. LeaveMoves(a, NULL)
  BY DEF Finish, LeaveMoves
<1> QED BY <1>1, BalancesChange

LEMMA BalanceCallOf ==
    ASSUME LeavesInv, NEW a \in Agent,
           NEW where \in {"accrue.save", "personal.save", "adjust.save"}, At(leaveCalls, a, where)
    PROVE  /\ leaveCalls[a] \in LeaveCall /\ leaveCalls[a].at = where
           /\ LeaveCallSound(leaveCalls[a])
           /\ leaveCalls[a].entitlement \in Entitlement
           /\ ~ FreeEntitlement(leaveCalls[a].entitlement)
BY LeaveCallOf, LeaveCallFields DEF At, LeaveCallSound

-----------------------------------------------------------------------------
(* Deductions.                                                             *)

LEMMA AutoUpdateBalancesStep ==
    ASSUME LeavesInv, NEW a \in Agent, AutoUpdateBalances(a), leaveOps' \in 0..MaxLeaveOps
    PROVE  LeavesInv'
<1> DEFINE left == {DeductionFor(r) : r \in {x \in LeaveRequest : LeaveHas(x, "approved")}}
           call == [at |-> "deduct", left |-> left]
<1>1. ASSUME NEW d \in left PROVE d \in Deduction /\ AskedFor(d) \in approvedFor[d.request]
  <2>1. PICK r \in LeaveRequest : LeaveHas(r, "approved") /\ d = DeductionFor(r)
    BY <1>1
  <2>2. leaveRequests[r] \in LeaveRequestDoc /\ AskedFor(leaveRequests[r]) \in approvedFor[r]
    BY <2>1, LeaveRequestOf DEF LeaveHas, LeavesInv, RequestsSound, ApprovalsNoted
  <2> QED BY <2>1, <2>2 DEF DeductionFor, Deduction, LeaveRequestDoc, AskedFor
<1>2. call \in LeaveCall
  BY <1>1 DEF LeaveCall
<1>3. LeaveCallSound(call)
  BY <1>1 DEF LeaveCallSound
<1>4. leaveCalls' = Begin(leaveCalls, a, call) /\ UNCHANGED onlyCalls
  BY DEF AutoUpdateBalances
<1> HIDE DEF call
<1> QED BY <1>2, <1>3, <1>4, LeaveBegins

LEMMA UpdateBalanceStep ==
    ASSUME LeavesInv, NEW a \in Agent, NEW e \in Entitlement, UpdateBalance(a, e),
           leaveOps' \in 0..MaxLeaveOps
    PROVE  LeavesInv'
<1>1. PICK call \in LeaveCall : call = leaveCalls[a] /\ call.at = "deduct" /\ LeaveCallSound(call)
  BY LeaveCallOf DEF UpdateBalance, At
<1>2. PICK d \in call.left :
        /\ entitlements' = [entitlements EXCEPT ![e] = DeductFrom(e, d)]
        /\ deducted' = [deducted EXCEPT ![e] = @ + d.days]
        /\ deductions' = deductions \cup {d}
        /\ leaveCalls' = IF call.left \ {d} = {} THEN Finish(leaveCalls, a)
                         ELSE [leaveCalls EXCEPT ![a].left = call.left \ {d}]
  BY <1>1 DEF UpdateBalance
<1>3. UNCHANGED requestSide /\ leavePolicy' = leavePolicy
  BY DEF UpdateBalance
<1>4. /\ d \in Deduction /\ d.of \in Balance /\ d.days \in Nat /\ d.request \in LeaveRequest
      /\ AskedFor(d) \in approvedFor[d.request] /\ call.left \in SUBSET Deduction
  BY <1>1, <1>2, LeaveCallFields, LeavesAssumption DEF Deduction, LeaveCallSound
<1> DEFINE before == IF FreeEntitlement(e) THEN NewEntitlement(d.of) ELSE entitlements[e]
           new == DeductFrom(e, d)
           rest == [call EXCEPT !.left = call.left \ {d}]
<1>5. before \in EntitlementDoc /\ before.taken = deducted[e] /\ deducted[e] \in Nat
  BY <1>4, EntitlementOf, NewEntitlementType DEF LeavesInv, BalancesSound, FreeIsNew
<1>6. new = [before EXCEPT !.taken = @ + d.days, !.remaining = @ - d.days]
  BY DEF DeductFrom
<1>7. new \in EntitlementDoc /\ new.taken = deducted[e] + d.days
  <2> DEFINE taken == before.taken + d.days
             remaining == before.remaining - d.days
  <2> HIDE DEF before, new
  <2>1. taken \in Int /\ remaining \in Int /\ taken = deducted[e] + d.days
    BY <1>4, <1>5 DEF EntitlementDoc
  <2>2. new = [[before EXCEPT !.taken = taken] EXCEPT !.remaining = remaining]
    BY <1>5, <1>6 DEF EntitlementDoc
  <2> HIDE DEF taken, remaining
  <2>3. [before EXCEPT !.taken = taken] \in EntitlementDoc
        /\ [before EXCEPT !.taken = taken].taken = taken
    BY <1>5, <2>1, EntitlementFields DEF EntitlementDoc
  <2> QED BY <2>1, <2>2, <2>3, EntitlementFields DEF EntitlementDoc
<1>8. deducted' = [deducted EXCEPT ![e] = deducted[e] + d.days] /\ deducted[e] + d.days \in Nat
  BY <1>2, <1>4, <1>5
<1> HIDE DEF before, new
<1>9. /\ BalancesSound'
      /\ \A x \in Entitlement : entitlements[x] # NULL => entitlements'[x] # NULL
  BY <1>2, <1>3, <1>7, <1>8, EntitlementBecomes DEF new
<1>10. LeavesGrow
  BY <1>3, <1>9 DEF LeavesGrow, requestSide
<1>11. DeductionsSound'
  BY <1>2, <1>3, <1>4
     DEF LeavesInv, DeductionsSound, DeductionsWereApproved, requestSide, AskedFor
<1>12. rest \in LeaveCall /\ rest.at = "deduct" /\ rest.left = call.left \ {d}
  BY <1>1, <1>4 DEF LeaveCall
<1>13. LeaveCallSound(rest)
  <2> HIDE DEF rest
  <2> QED BY <1>1, <1>12 DEF LeaveCallSound
<1>14. leaveCalls' = Finish(leaveCalls, a) \/ leaveCalls' = Begin(leaveCalls, a, rest)
  BY <1>1, <1>2 DEF Begin, LeavesInv, LeaveCallsSound
<1> HIDE DEF rest
<1>15. LeaveCallsSound'
  <2>1. CASE leaveCalls' = Finish(leaveCalls, a)
    BY <1>10, <2>1, LeaveCallsAfter DEF Finish, LeaveMoves
  <2>2. CASE leaveCalls' = Begin(leaveCalls, a, rest)
    <3>1. PICK next \in LeaveCall : next = rest
      BY <1>12
    <3>2. LeaveCallSound(next)'
      BY <1>10, <1>13, <3>1, LeaveCallStays
    <3> QED BY <1>10, <2>2, <3>1, <3>2, LeaveCallsAfter DEF Begin, LeaveMoves
  <2> QED BY <1>14, <2>1, <2>2
<1> QED BY <1>3, <1>9, <1>11, <1>15, RequestsStay DEF LeavesInv

-----------------------------------------------------------------------------
(* Accruals.                                                               *)

LEMMA AccruedType ==
    ASSUME NEW doc \in EntitlementDoc, NEW policy \in Policy, NEW partTime \in BOOLEAN
    PROVE  /\ Accrued(doc, policy, partTime) \in EntitlementDoc
           /\ Accrued(doc, policy, partTime).taken = doc.taken
<1> DEFINE rate == CalculateAccrual(policy, partTime)
           grant == ApplyRoundingRule(rate, policy.rounding)
           carry == CalculateCarryForward(policy, doc.remaining)
           new == [doc EXCEPT !.accrued = @ + grant, !.carry = carry, !.yearly = 2 * policy.yearly]
<1>1. rate \in Int
  BY DEF CalculateAccrual, Policy
<1>2. grant \in Int
  <2> HIDE DEF rate
  <2> QED BY <1>1 DEF ApplyRoundingRule, Policy
<1>3. carry \in Int
  BY DEF CalculateCarryForward, Least, Policy, EntitlementDoc
<1> HIDE DEF grant, carry
<1>4. new \in EntitlementDoc /\ new.taken = doc.taken
  <2> DEFINE accrued == doc.accrued + grant
             yearly == 2 * policy.yearly
             one == [doc EXCEPT !.accrued = accrued]
             two == [one EXCEPT !.carry = carry]
  <2>1. accrued \in Int /\ yearly \in Int
    BY <1>2 DEF EntitlementDoc, Policy
  <2>2. new = [two EXCEPT !.yearly = yearly] /\ one.taken = doc.taken /\ two.taken = one.taken
    BY DEF EntitlementDoc
  <2> HIDE DEF accrued, yearly, new
  <2>3. one \in EntitlementDoc
    BY <2>1, EntitlementFields
  <2> HIDE DEF one
  <2>4. two \in EntitlementDoc
    BY <1>3, <2>3, EntitlementFields
  <2> HIDE DEF two
  <2> QED BY <2>1, <2>2, <2>3, <2>4, EntitlementFields DEF EntitlementDoc
<1>5. Accrued(doc, policy, partTime) = [new EXCEPT !.remaining = ComputeRemaining(new)]
  BY DEF Accrued, grant, carry
<1> HIDE DEF new
<1>6. ComputeRemaining(new) \in Int
  BY <1>4 DEF ComputeRemaining, EntitlementDoc
<1> QED BY <1>4, <1>5, <1>6 DEF EntitlementDoc

LEMMA UpdateEntitlementInternalStep ==
    ASSUME LeavesInv, NEW a \in Agent, NEW e \in Entitlement, UpdateEntitlementInternal(a, e),
           leaveOps' \in 0..MaxLeaveOps
    PROVE  LeavesInv'
<1> DEFINE doc == entitlements[e]
           new == Accrued(doc, leavePolicy[doc.of], doc.of \in PartTime)
           call == [at |-> "accrue.save", entitlement |-> e, read |-> doc, new |-> new]
<1>1. ~ FreeEntitlement(e) /\ leaveCalls' = Begin(leaveCalls, a, call) /\ UNCHANGED onlyCalls
  BY DEF UpdateEntitlementInternal
<1>2. doc \in EntitlementDoc
  BY <1>1, EntitlementOf
<1>3. leavePolicy[doc.of] \in Policy
  BY <1>2, LeavesAssumption DEF LeavesInv, BalancesSound, EntitlementDoc
<1>4. (doc.of \in PartTime) \in BOOLEAN
  OBVIOUS
<1>5. new \in EntitlementDoc /\ new.taken = doc.taken
  BY <1>2, <1>3, <1>4, AccruedType
<1> HIDE DEF new
<1>6. call \in LeaveCall
  BY <1>2, <1>5 DEF LeaveCall
<1>7. LeaveCallSound(call)
  BY <1>1, <1>5 DEF LeaveCallSound
<1> HIDE DEF call
<1> QED BY <1>1, <1>6, <1>7, LeaveBegins

LEMMA AccrueSaveStep ==
    ASSUME LeavesInv, NEW a \in Agent, AccrueSave(a), leaveOps' \in 0..MaxLeaveOps
    PROVE  LeavesInv'
<1>1. PICK call \in LeaveCall :
        /\ call = leaveCalls[a] /\ call.at = "accrue.save" /\ LeaveCallSound(call)
        /\ call.entitlement \in Entitlement /\ ~ FreeEntitlement(call.entitlement)
  BY BalanceCallOf DEF AccrueSave
<1> DEFINE e == call.entitlement
           doc == entitlements[e]
           new == Saved(doc, call.read, call.new)
<1>2. /\ doc \in EntitlementDoc /\ call.read \in EntitlementDoc /\ call.new \in EntitlementDoc
      /\ call.new.taken = call.read.taken
  BY <1>1, EntitlementOf, LeaveCallFields DEF LeaveCallSound
<1>3. new \in EntitlementDoc /\ new.taken = doc.taken
  <2> HIDE DEF doc
  <2> QED BY <1>2 DEF Saved, EntitlementDoc
<1>4. /\ entitlements' = [entitlements EXCEPT ![e] = new] /\ leaveCalls' = Finish(leaveCalls, a)
      /\ UNCHANGED requestSide /\ deductions' = deductions
      /\ deducted' = deducted /\ leavePolicy' = leavePolicy
  BY <1>1 DEF AccrueSave, LeavesInv, BalancesSound
<1> HIDE DEF new
<1>5. /\ BalancesSound'
      /\ \A x \in Entitlement : entitlements[x] # NULL => entitlements'[x] # NULL
  BY <1>1, <1>3, <1>4, EntitlementKeepsTaken
<1> QED BY <1>4, <1>5, SavedAndDone

LEMMA ConfigureLeaveSettingsStep ==
    ASSUME LeavesInv, NEW b \in Balance, NEW policy \in LeavePolicy,
           ConfigureLeaveSettings(b, policy), leaveOps' \in 0..MaxLeaveOps
    PROVE  LeavesInv'
<1>1. /\ leavePolicy' = [leavePolicy EXCEPT ![b] = policy]
      /\ leaveRequests' = leaveRequests /\ approvedFor' = approvedFor
      /\ entitlements' = entitlements /\ deductions' = deductions /\ deducted' = deducted
      /\ leaveCalls' = leaveCalls
  BY DEF ConfigureLeaveSettings, requestSide
<1>2. LeavesGrow
  BY <1>1 DEF LeavesGrow
<1>3. BalancesSound'
  BY <1>1 DEF LeavesInv, BalancesSound, FreeIsNew, TakenIsDeducted, FreeEntitlement
<1> QED BY <1>1, <1>2, <1>3, RequestsStay, DeductionsStay, LeaveCallsStay DEF LeavesInv, requestSide

-----------------------------------------------------------------------------
(* Assignments and adjustments.                                            *)

LEMMA AssignPersonalizedStep ==
    ASSUME LeavesInv, NEW a \in Agent, NEW b \in Balance, NEW override \in Days \cup {NULL},
           NEW extra \in Days \cup {NULL}, AssignPersonalizedEntitlement(a, b, override, extra),
           leaveOps' \in 0..MaxLeaveOps
    PROVE  LeavesInv'
<1>1. UNCHANGED onlyCalls
  BY DEF AssignPersonalizedEntitlement
<1>2. CASE leaveCalls' = Begin(leaveCalls, a,
             [at |-> "personal.create", of |-> b, override |-> override, extra |-> extra])
  <2> DEFINE call == [at |-> "personal.create", of |-> b, override |-> override, extra |-> extra]
  <2>1. call \in LeaveCall /\ LeaveCallSound(call)
    BY DEF LeaveCall, LeaveCallSound
  <2>2. leaveCalls' = Begin(leaveCalls, a, call)
    BY <1>2
  <2> HIDE DEF call
  <2> QED BY <1>1, <2>1, <2>2, LeaveBegins
<1>3. ASSUME NEW e \in EntitlementsOf(b),
             leaveCalls' = Begin(leaveCalls, a,
               [at |-> "personal.save", entitlement |-> e, read |-> entitlements[e],
                override |-> override, extra |-> extra])
      PROVE  LeavesInv'
  <2> DEFINE call == [at |-> "personal.save", entitlement |-> e, read |-> entitlements[e],
                      override |-> override, extra |-> extra]
  <2>1. e \in Entitlement /\ ~ FreeEntitlement(e) /\ entitlements[e] \in EntitlementDoc
    BY EntitlementOf DEF EntitlementsOf, FreeEntitlement
  <2>2. call \in LeaveCall /\ LeaveCallSound(call)
    BY <2>1 DEF LeaveCall, LeaveCallSound
  <2>3. leaveCalls' = Begin(leaveCalls, a, call)
    BY <1>3
  <2> HIDE DEF call
  <2> QED BY <1>1, <2>2, <2>3, LeaveBegins
<1> QED BY <1>2, <1>3 DEF AssignPersonalizedEntitlement

LEMMA ManualBalanceAdjustmentStep ==
    ASSUME LeavesInv, NEW a \in Agent, NEW b \in Balance, NEW amount \in Int,
           ManualBalanceAdjustment(a, b, amount), leaveOps' \in 0..MaxLeaveOps
    PROVE  LeavesInv'
<1>1. UNCHANGED onlyCalls
  BY DEF ManualBalanceAdjustment
<1>2. CASE leaveCalls' = Begin(leaveCalls, a, [at |-> "adjust.create", of |-> b, amount |-> amount])
  <2> DEFINE call == [at |-> "adjust.create", of |-> b, amount |-> amount]
  <2>1. call \in LeaveCall /\ LeaveCallSound(call)
    BY DEF LeaveCall, LeaveCallSound
  <2>2. leaveCalls' = Begin(leaveCalls, a, call)
    BY <1>2
  <2> HIDE DEF call
  <2> QED BY <1>1, <2>1, <2>2, LeaveBegins
<1>3. ASSUME NEW e \in EntitlementsOf(b),
             leaveCalls' = Begin(leaveCalls, a,
               [at |-> "adjust.save", entitlement |-> e,
                remaining |-> entitlements[e].remaining + amount])
      PROVE  LeavesInv'
  <2> DEFINE n == entitlements[e].remaining + amount
             call == [at |-> "adjust.save", entitlement |-> e, remaining |-> n]
  <2>1. e \in Entitlement /\ ~ FreeEntitlement(e) /\ entitlements[e] \in EntitlementDoc
    BY EntitlementOf DEF EntitlementsOf, FreeEntitlement
  <2>2. n \in Int
    BY <2>1 DEF EntitlementDoc
  <2>3. leaveCalls' = Begin(leaveCalls, a, call)
    BY <1>3
  <2> HIDE DEF n
  <2>4. call \in LeaveCall /\ LeaveCallSound(call)
    BY <2>1, <2>2 DEF LeaveCall, LeaveCallSound
  <2> HIDE DEF call
  <2> QED BY <1>1, <2>3, <2>4, LeaveBegins
<1> QED BY <1>2, <1>3 DEF ManualBalanceAdjustment

LEMMA PersonalCreateStep ==
    ASSUME LeavesInv, NEW a \in Agent, NEW e \in Entitlement, PersonalCreate(a, e),
           leaveOps' \in 0..MaxLeaveOps
    PROVE  LeavesInv'
<1>1. PICK call \in LeaveCall : call = leaveCalls[a] /\ call.at = "personal.create"
  BY LeaveCallOf DEF PersonalCreate, At
<1> DEFINE doc == NewEntitlement(call.of)
           next == [at |-> "personal.save", entitlement |-> e, read |-> doc,
                    override |-> call.override, extra |-> call.extra]
<1>2. /\ call.of \in Balance /\ call.override \in Days \cup {NULL} /\ call.extra \in Days \cup {NULL}
      /\ doc \in EntitlementDoc /\ doc.taken = 0
  BY <1>1, LeaveCallFields, NewEntitlementType
<1>3. /\ entitlements' = [entitlements EXCEPT ![e] = doc]
      /\ leaveCalls' = Begin(leaveCalls, a, next)
      /\ deducted' = [deducted EXCEPT ![e] = 0]
      /\ UNCHANGED requestSide /\ leavePolicy' = leavePolicy /\ deductions' = deductions
  BY <1>1 DEF PersonalCreate
<1> HIDE DEF doc
<1>4. /\ BalancesSound'
      /\ \A x \in Entitlement : entitlements[x] # NULL => entitlements'[x] # NULL
  BY <1>2, <1>3, EntitlementStartsAnew
<1>5. ~ FreeEntitlement(e)'
  BY <1>2, <1>3, LeavesAssumption DEF FreeEntitlement, LeavesInv, BalancesSound
<1>6. next \in LeaveCall /\ next.at = "personal.save" /\ next.entitlement = e
  BY <1>2 DEF LeaveCall
<1> HIDE DEF next
<1>7. PICK later \in LeaveCall : later = next
  BY <1>6
<1>8. LeaveCallSound(later)'
  BY <1>5, <1>6, <1>7 DEF LeaveCallSound, FreeEntitlement
<1>9. LeaveMoves(a, later)
  BY <1>3, <1>7 DEF Begin, LeaveMoves
<1> QED BY <1>3, <1>4, <1>8, <1>9, BalancesChange

LEMMA AdjustCreateStep ==
    ASSUME LeavesInv, NEW a \in Agent, NEW e \in Entitlement, AdjustCreate(a, e),
           leaveOps' \in 0..MaxLeaveOps
    PROVE  LeavesInv'
<1>1. PICK call \in LeaveCall : call = leaveCalls[a] /\ call.at = "adjust.create"
  BY LeaveCallOf DEF AdjustCreate, At
<1> DEFINE new == [NewEntitlement(call.of) EXCEPT !.remaining = call.amount]
<1>2. new \in EntitlementDoc /\ new.taken = 0
  BY <1>1, LeaveCallFields, NewEntitlementType, EntitlementFields DEF EntitlementDoc
<1>3. /\ entitlements' = [entitlements EXCEPT ![e] = new]
      /\ leaveCalls' = Finish(leaveCalls, a)
      /\ deducted' = [deducted EXCEPT ![e] = 0]
      /\ UNCHANGED requestSide /\ leavePolicy' = leavePolicy /\ deductions' = deductions
  BY <1>1 DEF AdjustCreate
<1> HIDE DEF new
<1>4. /\ BalancesSound'
      /\ \A x \in Entitlement : entitlements[x] # NULL => entitlements'[x] # NULL
  BY <1>2, <1>3, EntitlementStartsAnew
<1> QED BY <1>3, <1>4, SavedAndDone

LEMMA PersonalSaveStep ==
    ASSUME LeavesInv, NEW a \in Agent, PersonalSave(a), leaveOps' \in 0..MaxLeaveOps
    PROVE  LeavesInv'
<1>1. PICK call \in LeaveCall :
        /\ call = leaveCalls[a] /\ call.at = "personal.save"
        /\ call.entitlement \in Entitlement /\ ~ FreeEntitlement(call.entitlement)
  BY BalanceCallOf DEF PersonalSave
<1> DEFINE e == call.entitlement
           doc == entitlements[e]
           yearly == IF call.extra # NULL THEN call.read.yearly + call.extra
                     ELSE IF call.override # NULL THEN call.override
                     ELSE call.read.yearly
           kept == IF call.extra = NULL /\ call.override = NULL THEN doc.yearly ELSE yearly
           remaining == (IF yearly = 0 THEN call.read.yearly ELSE yearly) - call.read.taken
           one == [doc EXCEPT !.yearly = kept]
           new == [one EXCEPT !.remaining = remaining]
<1>2. /\ doc \in EntitlementDoc /\ call.read \in EntitlementDoc
      /\ call.override \in Days \cup {NULL} /\ call.extra \in Days \cup {NULL}
  BY <1>1, EntitlementOf, LeaveCallFields
<1>3. yearly \in Int
  BY <1>2, LeavesAssumption DEF EntitlementDoc
<1>4. /\ entitlements' = [entitlements EXCEPT ![e] = new] /\ leaveCalls' = Finish(leaveCalls, a)
      /\ UNCHANGED requestSide /\ deductions' = deductions
      /\ deducted' = deducted /\ leavePolicy' = leavePolicy
  BY <1>1 DEF PersonalSave, LeavesInv, BalancesSound
<1> HIDE DEF yearly
<1>5. kept \in Int /\ remaining \in Int
  BY <1>2, <1>3 DEF EntitlementDoc
<1> HIDE DEF kept, remaining
<1>6. one \in EntitlementDoc /\ one.taken = doc.taken
  BY <1>2, <1>5, EntitlementFields DEF EntitlementDoc
<1> HIDE DEF one
<1>7. new \in EntitlementDoc /\ new.taken = doc.taken
  BY <1>5, <1>6, EntitlementFields DEF EntitlementDoc
<1> HIDE DEF new
<1>8. /\ BalancesSound'
      /\ \A x \in Entitlement : entitlements[x] # NULL => entitlements'[x] # NULL
  BY <1>1, <1>4, <1>7, EntitlementKeepsTaken
<1> QED BY <1>4, <1>8, SavedAndDone

LEMMA AdjustSaveStep ==
    ASSUME LeavesInv, NEW a \in Agent, AdjustSave(a), leaveOps' \in 0..MaxLeaveOps
    PROVE  LeavesInv'
<1>1. PICK call \in LeaveCall :
        /\ call = leaveCalls[a] /\ call.at = "adjust.save"
        /\ call.entitlement \in Entitlement /\ ~ FreeEntitlement(call.entitlement)
  BY BalanceCallOf DEF AdjustSave
<1> DEFINE e == call.entitlement
           doc == entitlements[e]
           new == [doc EXCEPT !.remaining = call.remaining]
<1>2. doc \in EntitlementDoc /\ call.remaining \in Int
  BY <1>1, EntitlementOf, LeaveCallFields
<1>3. new \in EntitlementDoc /\ new.taken = doc.taken
  BY <1>2, EntitlementFields DEF EntitlementDoc
<1>4. /\ entitlements' = [entitlements EXCEPT ![e] = new] /\ leaveCalls' = Finish(leaveCalls, a)
      /\ UNCHANGED requestSide /\ deductions' = deductions
      /\ deducted' = deducted /\ leavePolicy' = leavePolicy
  BY <1>1 DEF AdjustSave, LeavesInv, BalancesSound
<1> HIDE DEF new
<1>5. /\ BalancesSound'
      /\ \A x \in Entitlement : entitlements[x] # NULL => entitlements'[x] # NULL
  BY <1>1, <1>3, <1>4, EntitlementKeepsTaken
<1> QED BY <1>4, <1>5, SavedAndDone

-----------------------------------------------------------------------------
(* The annual reset.                                                       *)

LEMMA ExecuteAnnualResetStep ==
    ASSUME LeavesInv, NEW a \in Agent, NEW chosen \in SUBSET Entitlement,
           ExecuteAnnualReset(a, chosen), leaveOps' \in 0..MaxLeaveOps
    PROVE  LeavesInv'
<1> DEFINE left == [e \in Entitlement |-> IF e \in chosen THEN entitlements[e] ELSE NULL]
           call == [at |-> "reset", left |-> left]
<1>1. leaveCalls' = Begin(leaveCalls, a, call) /\ UNCHANGED onlyCalls
  BY DEF ExecuteAnnualReset
<1>2. /\ left \in [Entitlement -> EntitlementDoc \cup {NULL}]
      /\ \A e \in Entitlement : left[e] # NULL => ~ FreeEntitlement(e)
  BY DEF LeavesInv, BalancesSound, FreeEntitlement
<1> HIDE DEF left
<1>3. call \in LeaveCall /\ LeaveCallSound(call)
  BY <1>2 DEF LeaveCall, LeaveCallSound
<1> HIDE DEF call
<1> QED BY <1>1, <1>3, LeaveBegins

LEMMA ResetEntitlementStep ==
    ASSUME LeavesInv, NEW a \in Agent, NEW e \in Entitlement, ResetEntitlement(a, e),
           leaveOps' \in 0..MaxLeaveOps
    PROVE  LeavesInv'
<1>1. PICK call \in LeaveCall : call = leaveCalls[a] /\ call.at = "reset" /\ LeaveCallSound(call)
  BY LeaveCallOf DEF ResetEntitlement, At
<1> DEFINE read == call.left[e]
           others == [call.left EXCEPT ![e] = NULL]
           carry == CalculateCarryForward(leavePolicy[read.of], read.remaining)
           doc == entitlements[e]
           one == [doc EXCEPT !.taken = 0]
           two == [one EXCEPT !.carry = carry]
           new == [two EXCEPT !.remaining = read.yearly + carry]
           rest == [call EXCEPT !.left = others]
<1>2. /\ call.left \in [Entitlement -> EntitlementDoc \cup {NULL}] /\ read # NULL
      /\ ~ FreeEntitlement(e) /\ \A x \in Entitlement : call.left[x] # NULL => ~ FreeEntitlement(x)
  BY <1>1, LeaveCallFields DEF ResetEntitlement, LeaveCallSound
<1>3. read \in EntitlementDoc /\ doc \in EntitlementDoc /\ leavePolicy[read.of] \in Policy
  BY <1>2, EntitlementOf, LeavesAssumption DEF LeavesInv, BalancesSound, EntitlementDoc
<1>4. carry \in Int
  BY <1>3 DEF CalculateCarryForward, Least, Policy, EntitlementDoc
<1>5. /\ entitlements' = [entitlements EXCEPT ![e] = new]
      /\ deducted' = [deducted EXCEPT ![e] = 0]
      /\ UNCHANGED requestSide /\ leavePolicy' = leavePolicy /\ deductions' = deductions
  BY <1>1 DEF ResetEntitlement, LeavesInv, BalancesSound
<1>6. leaveCalls' = Finish(leaveCalls, a) \/ leaveCalls' = Begin(leaveCalls, a, rest)
  BY <1>1 DEF ResetEntitlement, Begin, LeavesInv, LeaveCallsSound
<1> HIDE DEF carry
<1>7. one \in EntitlementDoc /\ one.taken = 0
  BY <1>3, EntitlementFields DEF EntitlementDoc
<1> HIDE DEF one
<1>8. two \in EntitlementDoc /\ two.taken = 0
  BY <1>4, <1>7, EntitlementFields DEF EntitlementDoc
<1> HIDE DEF two
<1>9. new \in EntitlementDoc /\ new.taken = 0
  <2>1. read.yearly + carry \in Int
    BY <1>3, <1>4 DEF EntitlementDoc
  <2> QED BY <1>8, <2>1, EntitlementFields DEF EntitlementDoc
<1> HIDE DEF new
<1>10. /\ BalancesSound'
       /\ \A x \in Entitlement : entitlements[x] # NULL => entitlements'[x] # NULL
  BY <1>5, <1>9, EntitlementStartsAnew
<1>11. /\ others \in [Entitlement -> EntitlementDoc \cup {NULL}]
       /\ \A x \in Entitlement : others[x] # NULL => ~ FreeEntitlement(x)
  BY <1>2
<1> HIDE DEF others
<1>12. rest \in LeaveCall /\ rest.at = "reset" /\ rest.left = others
  BY <1>1, <1>11 DEF LeaveCall
<1> HIDE DEF rest
<1>13. PICK later \in LeaveCall : later = rest
  BY <1>12
<1>14. LeaveCallSound(later)
  BY <1>11, <1>12, <1>13 DEF LeaveCallSound
<1>15. LeavesGrow
  BY <1>5, <1>10 DEF LeavesGrow, requestSide
<1>16. CASE leaveCalls' = Begin(leaveCalls, a, rest)
  <2>1. LeaveCallSound(later)'
    BY <1>14, <1>15, LeaveCallStays
  <2>2. LeaveMoves(a, later)
    BY <1>13, <1>16 DEF Begin, LeaveMoves
  <2> QED BY <1>5, <1>10, <2>1, <2>2, BalancesChange
<1>17. CASE leaveCalls' = Finish(leaveCalls, a)
  BY <1>5, <1>10, <1>17, SavedAndDone
<1> QED BY <1>6, <1>16, <1>17

-----------------------------------------------------------------------------

LEMMA LeaveCallFailsStep ==
    ASSUME LeavesInv, NEW a \in Agent, LeaveCallFails(a), leaveOps' \in 0..MaxLeaveOps
    PROVE  LeavesInv'
<1>1. LeaveMoves(a, NULL) /\ UNCHANGED onlyCalls
  BY DEF LeaveCallFails, Finish, LeaveMoves
<1> QED BY <1>1, LeaveCallsOnly

LEMMA ManageBalancesStep ==
    ASSUME LeavesInv, NEW a \in Agent, ManageBalances(a), leaveOps' \in 0..MaxLeaveOps
    PROVE  LeavesInv'
<1>1. ASSUME NEW b \in Balance, NEW days \in Days, NEW sign \in {1, -1},
             ManualBalanceAdjustment(a, b, sign * days)
      PROVE  LeavesInv'
  <2>1. sign * days \in Int
    BY LeavesAssumption
  <2> QED BY <1>1, <2>1, ManualBalanceAdjustmentStep
<1> QED BY <1>1, AutoUpdateBalancesStep, UpdateEntitlementInternalStep, AssignPersonalizedStep,
           ExecuteAnnualResetStep DEF ManageBalances

LEMMA LeaveStepStep ==
    ASSUME LeavesInv, NEW a \in Agent, LeaveStep(a), leaveOps' \in 0..MaxLeaveOps
    PROVE  LeavesInv'
BY ModifySaveStep, CancelSaveStep, FinalizeSaveStep, AccrueSaveStep, PersonalSaveStep,
   AdjustSaveStep, UpdateBalanceStep, PersonalCreateStep, AdjustCreateStep, ResetEntitlementStep,
   LeaveCallFailsStep DEF LeaveStep

LEMMA LeavesStep == ASSUME LeavesInv, [LeavesNext]_leaveVars PROVE LeavesInv'
<1>1. CASE UNCHANGED leaveVars
  <2>1. UNCHANGED onlyCalls /\ leaveCalls' = leaveCalls /\ leaveOps' = leaveOps
    BY <1>1 DEF leaveVars, onlyCalls
  <2>2. LeavesGrow /\ UNCHANGED requestSide /\ UNCHANGED <<entitlements, leavePolicy, deducted>>
        /\ deductions' = deductions
    BY <2>1 DEF onlyCalls, LeavesGrow, requestSide
  <2> QED BY <2>1, <2>2, RequestsStay, BalancesStay, DeductionsStay, LeaveCallsStay DEF LeavesInv
<1>2. CASE leaveOps < MaxLeaveOps /\ leaveOps' = leaveOps + 1
  <2>1. leaveOps' \in 0..MaxLeaveOps
    BY <1>2, LeavesAssumption DEF LeavesInv
  <2>2. ASSUME NEW r \in LeaveRequest, RequestLeave(r) PROVE LeavesInv'
    BY <2>1, <2>2, RequestLeaveStep
  <2>3. ASSUME NEW a \in Agent, ManageBalances(a) PROVE LeavesInv'
    BY <2>1, <2>3, ManageBalancesStep
  <2>4. ASSUME NEW b \in Balance, NEW policy \in LeavePolicy, ConfigureLeaveSettings(b, policy)
        PROVE  LeavesInv'
    BY <2>1, <2>4, ConfigureLeaveSettingsStep
  <2>5. CASE leaveOps' = leaveOps /\ \E a \in Agent : LeaveStep(a)
    BY <2>1, <2>5, LeaveStepStep
  <2> QED BY <1>1, <2>2, <2>3, <2>4, <2>5 DEF LeavesNext
<1>3. CASE leaveOps' = leaveOps /\ \E a \in Agent : LeaveStep(a)
  <2>1. leaveOps' \in 0..MaxLeaveOps
    BY <1>3 DEF LeavesInv
  <2> QED BY <1>3, <2>1, LeaveStepStep
<1> QED BY <1>1, <1>2, <1>3 DEF LeavesNext

THEOREM LeavesInvariant == LeavesSpec => []LeavesInv
BY LeavesInitially, LeavesStep, PTL DEF LeavesSpec

\* Every request, entitlement, call in flight and history has its type.
THEOREM LeavesTypeCorrect == LeavesSpec => []LeavesTypeOK
<1>1. LeavesInv => LeavesTypeOK
  BY DEF LeavesInv, RequestsSound, BalancesSound, DeductionsSound, LeaveCallsSound, LeavesTypeOK
<1> QED BY <1>1, LeavesInvariant, PTL

\* An approved or rejected request carries that decision in its approvalFlow.
THEOREM DecisionsStayLogged == LeavesSpec => []DecisionsAreLogged
<1>1. LeavesInv => DecisionsAreLogged
  BY DEF LeavesInv, RequestsSound
<1> QED BY <1>1, LeavesInvariant, PTL

\* What is deducted was approved with these days.
THEOREM DeductionsNeedApproval == LeavesSpec => []DeductionsWereApproved
<1>1. LeavesInv => DeductionsWereApproved
  BY DEF LeavesInv, DeductionsSound
<1> QED BY <1>1, LeavesInvariant, PTL

\* No deduction is lost or made up in taken.
THEOREM DeductionsAreKept == LeavesSpec => []TakenIsDeducted
<1>1. LeavesInv => TakenIsDeducted
  BY DEF LeavesInv, BalancesSound
<1> QED BY <1>1, LeavesInvariant, PTL

(***************************************************************************)
(* Attendance.                                                             *)
(***************************************************************************)

\* The least-number principle: the prefixes 0..i of a set of numbers have one
\* that is included in the others.
LEMMA LeastOf ==
    ASSUME NEW S \in SUBSET Nat, S # {}
    PROVE  \E i \in S : \A j \in S : i <= j
<1> DEFINE T == {0..i : i \in S}
<1>1. T \subseteq FiniteSubsetsOf(Nat) /\ T # {}
  <2>1. ASSUME NEW i \in S PROVE 0..i \in FiniteSubsetsOf(Nat)
    <3>1. IsFiniteSet(0..i)
      BY FS_Interval
    <3> QED BY <3>1 DEF FiniteSubsetsOf
  <2> QED BY <2>1
<1>2. PICK x \in T : \A y \in T : <<y, x>> \notin StrictSubsetOrdering(Nat)
  <2> HIDE DEF T
  <2> QED BY <1>1, FS_StrictSubsetOrderingWellFounded, WFMin
<1>3. PICK i \in S : x = 0..i
  OBVIOUS
<1>4. ASSUME NEW j \in S PROVE i <= j
  <2>1. SUFFICES ASSUME j < i PROVE FALSE
    OBVIOUS
  <2>2. /\ 0..j \in T /\ 0..j \subseteq Nat /\ x \subseteq Nat
        /\ 0..j \subseteq x /\ i \in x /\ i \notin 0..j
    BY <2>1, <1>3
  <2> QED
    BY <1>2, <2>2 DEF StrictSubsetOrdering
<1> QED
  BY <1>4

\* Among the places of a list, one of greatest value.
LEMMA GreatestAt ==
    ASSUME NEW n \in Nat, NEW f, \A i \in 1..n : f[i] \in Nat,
           NEW S \in SUBSET (1..n), S # {}
    PROVE  \E j \in S : \A i \in S : f[i] <= f[j]
<1> DEFINE Good(m) == S \cap (1..m) # {} =>
             \E j \in S \cap (1..m) : \A i \in S \cap (1..m) : f[i] <= f[j]
           Bad == {m \in 0..n : ~ Good(m)}
<1>1. Bad = {}
  <2>1. SUFFICES ASSUME Bad # {} PROVE FALSE
    OBVIOUS
  <2>2. PICK m \in Bad : \A k \in Bad : m <= k
    <3>1. Bad \in SUBSET Nat
      OBVIOUS
    <3> HIDE DEF Bad
    <3> QED BY <2>1, <3>1, LeastOf
  <2>3. m \in 1..n /\ m - 1 \in 0..n /\ Good(m - 1)
    <3>1. m # 0
      OBVIOUS
    <3> QED BY <2>2, <3>1
  <2>4. S \cap (1..m) \subseteq (S \cap (1..(m - 1))) \cup {m} /\ 1..(m - 1) \subseteq 1..m
    BY <2>3
  <2>5. CASE S \cap (1..(m - 1)) = {}
    <3>1. \A i \in S \cap (1..m) : i = m
      BY <2>4, <2>5
    <3> QED BY <2>2, <2>3, <3>1
  <2>6. CASE S \cap (1..(m - 1)) # {}
    <3>1. PICK j \in S \cap (1..(m - 1)) : \A i \in S \cap (1..(m - 1)) : f[i] <= f[j]
      BY <2>3, <2>6
    <3>2. j \in S \cap (1..m) /\ f[j] \in Nat /\ f[m] \in Nat
      BY <2>3, <2>4
    <3>3. CASE m \in S /\ f[m] > f[j]
      <4>1. \A i \in S \cap (1..m) : f[i] <= f[m]
        BY <2>4, <3>1, <3>2, <3>3
      <4>2. m \in S \cap (1..m)
        BY <2>3, <3>3
      <4> QED BY <2>2, <4>1, <4>2
    <3>4. CASE ~ (m \in S /\ f[m] > f[j])
      <4>1. \A i \in S \cap (1..m) : f[i] <= f[j]
        BY <2>4, <3>1, <3>2, <3>4
      <4> QED BY <2>2, <3>2, <4>1
    <3> QED BY <3>3, <3>4
  <2> QED BY <2>5, <2>6
<1>2. Good(n)
  <2>1. n \in 0..n /\ n \notin Bad
    <3>1. n \notin Bad
      <4> HIDE DEF Bad
      <4> QED BY <1>1
    <3> QED BY <3>1
  <2> HIDE DEF Good
  <2> QED BY <2>1
<1>3. S \cap (1..n) = S
  OBVIOUS
<1> QED
  BY <1>2, <1>3

\* The size of 1..m, which is empty for m below 1.
LEMMA CountTo ==
    ASSUME NEW m \in Int
    PROVE  IsFiniteSet(1..m) /\ Cardinality(1..m) = IF m < 1 THEN 0 ELSE m
<1>1. CASE m < 1
  <2>1. 1..m = {}
    BY <1>1
  <2> QED BY <1>1, <2>1, FS_EmptySet
<1>2. CASE ~ (m < 1)
  <2>1. IsFiniteSet(1..m) /\ Cardinality(1..m) = m - 1 + 1
    BY <1>2, FS_Interval
  <2> QED BY <1>2, <2>1
<1> QED BY <1>1, <1>2

\* Two adjoining spans, and one more pair.
LEMMA MinutesAddUp ==
    ASSUME NEW a \in Nat, NEW b \in Nat, NEW c \in Nat,
           NEW t \in Nat, NEW u \in Nat, NEW v \in Nat,
           60 * a <= u - t + 30 * c, 60 * b <= v - u + 30
    PROVE  60 * (a + b) <= v - t + 30 * (c + 1)
OBVIOUS

\* Rounding adds half a minute at most.
LEMMA RoundedBound ==
    ASSUME NEW s \in Int
    PROVE  Rounded(s) \in Int /\ 60 * Rounded(s) <= s + 30
BY DEF Rounded

-----------------------------------------------------------------------------
(* Lists of punches.                                                       *)

LEMMA PunchFields ==
    ASSUME NEW punches \in Seq(PunchDoc), NEW i \in DOMAIN punches
    PROVE  /\ punches[i] \in PunchDoc
           /\ punches[i].type \in PunchType
           /\ punches[i].time \in Second /\ punches[i].time \in Nat
<1>1. punches[i] \in PunchDoc
  OBVIOUS
<1>2. punches[i].type \in PunchType /\ punches[i].time \in Second
  BY <1>1 DEF PunchDoc
<1> QED BY <1>1, <1>2, AttendanceAssumption

LEMMA EarliestOf ==
    ASSUME NEW times \in SUBSET Nat, times # {}
    PROVE  Earliest(times) \in times /\ \A t \in times : Earliest(times) <= t
BY LeastOf DEF Earliest

\* The latest of some punches is one of them.
LEMMA LatestOf ==
    ASSUME NEW punches \in Seq(PunchDoc), NEW S \in SUBSET (DOMAIN punches), S # {}
    PROVE  LET times == {punches[i].time : i \in S}
           IN  Latest(times) \in times /\ \A t \in times : t <= Latest(times)
<1> DEFINE f == [i \in DOMAIN punches |-> punches[i].time]
           times == {punches[i].time : i \in S}
<1>1. DOMAIN punches = 1..Len(punches) /\ Len(punches) \in Nat
  OBVIOUS
<1>2. \A i \in 1..Len(punches) : f[i] \in Nat
  BY <1>1, PunchFields
<1>3. PICK j \in S : \A i \in S : f[i] <= f[j]
  <2> HIDE DEF f
  <2> QED BY <1>1, <1>2, GreatestAt
<1>4. \A i \in S : f[i] = punches[i].time
  OBVIOUS
<1>5. punches[j].time \in times /\ \A t \in times : t <= punches[j].time
  <2> HIDE DEF f
  <2> QED BY <1>3, <1>4
<1>6. \E t \in times : \A u \in times : u <= t
  <2> HIDE DEF times
  <2> QED BY <1>5
<1> HIDE DEF times, f
<1>7. Latest(times) \in times /\ \A t \in times : t <= Latest(times)
  BY <1>6 DEF Latest
<1> QED BY <1>7 DEF times

\* The span of a list lies between any two of its punches.
LEMMA SpanReaches ==
    ASSUME NEW punches \in Seq(PunchDoc), NEW i \in DOMAIN punches, NEW j \in DOMAIN punches
    PROVE  Span(punches) \in Nat /\ punches[j].time - punches[i].time <= Span(punches)
<1> DEFINE times == {punches[k].time : k \in DOMAIN punches}
<1>1. times \in SUBSET Nat /\ times # {} /\ punches[i].time \in times /\ punches[j].time \in times
  BY PunchFields
<1>2. Latest(times) \in times /\ \A t \in times : t <= Latest(times)
  BY LatestOf
<1>3. Span(punches) = Latest(times) - Earliest(times)
  BY DEF Span
<1> HIDE DEF times
<1>4. Earliest(times) \in times /\ \A t \in times : Earliest(times) <= t
  BY <1>1, EarliestOf
<1>5. ASSUME NEW t \in times, NEW u \in times
      PROVE  Span(punches) \in Nat /\ u - t <= Span(punches)
  <2>1. t \in Nat /\ u \in Nat /\ Latest(times) \in Nat /\ Earliest(times) \in Nat
    BY <1>1, <1>2, <1>4
  <2> QED BY <1>2, <1>3, <1>4, <2>1
<1> QED BY <1>1, <1>5

-----------------------------------------------------------------------------
(* Sorting.                                                                *)

NotAfter(punches, j, i) ==
    \/ punches[j].time < punches[i].time
    \/ punches[j].time = punches[i].time /\ j <= i

UpTo(punches, i) == {j \in DOMAIN punches : NotAfter(punches, j, i)}

\* The rank of a punch is a place of the list.
LEMMA RankIs ==
    ASSUME NEW punches \in Seq(PunchDoc), NEW i \in DOMAIN punches
    PROVE  /\ IsFiniteSet(UpTo(punches, i))
           /\ Rank(punches, i) = Cardinality(UpTo(punches, i))
           /\ Rank(punches, i) \in DOMAIN punches
<1>1. DOMAIN punches = 1..Len(punches) /\ Len(punches) \in Nat
  OBVIOUS
<1>2. IsFiniteSet(DOMAIN punches) /\ Cardinality(DOMAIN punches) = Len(punches)
  <2>1. PICK n \in Nat : n = Len(punches)
    OBVIOUS
  <2>2. IsFiniteSet(1..n) /\ Cardinality(1..n) = n
    BY CountTo
  <2> QED BY <1>1, <2>1, <2>2
<1>3. UpTo(punches, i) \in SUBSET (DOMAIN punches) /\ i \in UpTo(punches, i)
  BY <1>1, PunchFields DEF UpTo, NotAfter
<1>4. /\ IsFiniteSet(UpTo(punches, i))
      /\ Cardinality(UpTo(punches, i)) <= Len(punches)
  BY <1>2, <1>3, FS_Subset
<1>5. Cardinality(UpTo(punches, i)) \in Nat /\ Cardinality(UpTo(punches, i)) # 0
  BY <1>3, <1>4, FS_CardinalityType, FS_EmptySet
<1>6. Rank(punches, i) = Cardinality(UpTo(punches, i))
  BY DEF Rank, UpTo, NotAfter
<1> QED BY <1>1, <1>4, <1>5, <1>6

\* Of two places, the one that does not come after the other has the lower rank.
LEMMA RankGrows ==
    ASSUME NEW punches \in Seq(PunchDoc), NEW i \in DOMAIN punches, NEW j \in DOMAIN punches,
           i # j, NotAfter(punches, j, i)
    PROVE  Rank(punches, j) < Rank(punches, i)
<1>1. \A k \in DOMAIN punches : punches[k].time \in Nat /\ k \in Nat
  BY PunchFields
<1>2. UpTo(punches, j) \subseteq UpTo(punches, i)
  BY <1>1 DEF UpTo, NotAfter
<1>3. i \in UpTo(punches, i) /\ i \notin UpTo(punches, j)
  BY <1>1 DEF UpTo, NotAfter
<1>4. /\ Cardinality(UpTo(punches, j)) <= Cardinality(UpTo(punches, i))
      /\ Cardinality(UpTo(punches, j)) # Cardinality(UpTo(punches, i))
  BY <1>2, <1>3, RankIs, FS_Subset
<1> QED BY <1>4, RankIs

\* Different punches have different ranks.
LEMMA RankDiffers ==
    ASSUME NEW punches \in Seq(PunchDoc), NEW i \in DOMAIN punches, NEW j \in DOMAIN punches, i # j
    PROVE  Rank(punches, i) # Rank(punches, j)
<1>1. \A k \in DOMAIN punches : punches[k].time \in Nat /\ k \in Nat /\ Rank(punches, k) \in Nat
  BY PunchFields, RankIs
<1>2. NotAfter(punches, i, j) \/ NotAfter(punches, j, i)
  BY <1>1 DEF NotAfter
<1> QED BY <1>1, <1>2, RankGrows

\* Each place is the rank of a punch: n ranks that differ fill 1..n.
LEMMA RankReached ==
    ASSUME NEW punches \in Seq(PunchDoc), NEW k \in DOMAIN punches
    PROVE  \E i \in DOMAIN punches : Rank(punches, i) = k
<1> DEFINE places == DOMAIN punches
           rank == [i \in places |-> Rank(punches, i)]
<1>1. SUFFICES ASSUME \A i \in places : Rank(punches, i) # k PROVE FALSE
  OBVIOUS
<1>2. IsFiniteSet(places) /\ Cardinality(places) \in Nat
  BY FS_Interval, FS_CardinalityType
<1>3. IsFiniteSet(places \ {k}) /\ Cardinality(places \ {k}) < Cardinality(places)
  <2>1. k \in places
    OBVIOUS
  <2> HIDE DEF places
  <2>2. /\ IsFiniteSet(places \ {k})
        /\ Cardinality(places \ {k}) = IF k \in places THEN Cardinality(places) - 1
                                       ELSE Cardinality(places)
    BY <1>2, FS_RemoveElement
  <2> QED BY <1>2, <2>1, <2>2
<1>4. rank \in [places -> places \ {k}]
  BY <1>1, RankIs
<1>5. \A i, j \in places : i # j => rank[i] # rank[j]
  BY RankDiffers
<1> HIDE DEF places, rank
<1> QED BY <1>2, <1>3, <1>4, <1>5, FS_PigeonHole

\* Sorting keeps the length of a list and puts the times in order.
LEMMA SortedOrders ==
    ASSUME NEW punches \in Seq(PunchDoc)
    PROVE  /\ Sorted(punches) \in Seq(PunchDoc)
           /\ Len(Sorted(punches)) = Len(punches)
           /\ \A k, m \in DOMAIN Sorted(punches) :
                k < m => Sorted(punches)[k].time <= Sorted(punches)[m].time
<1> DEFINE at(k) == CHOOSE i \in DOMAIN punches : Rank(punches, i) = k
<1>1. \A k \in DOMAIN punches : at(k) \in DOMAIN punches /\ Rank(punches, at(k)) = k
  BY RankReached
<1>2. Sorted(punches) = [k \in DOMAIN punches |-> punches[at(k)]]
  BY DEF Sorted
<1> HIDE DEF at
<1>3. Sorted(punches) \in Seq(PunchDoc) /\ Len(Sorted(punches)) = Len(punches)
  BY <1>1, <1>2
<1>4. ASSUME NEW k \in DOMAIN punches, NEW m \in DOMAIN punches, k < m
      PROVE  punches[at(k)].time <= punches[at(m)].time
  <2>1. /\ at(k) \in DOMAIN punches /\ at(m) \in DOMAIN punches
        /\ Rank(punches, at(k)) = k /\ Rank(punches, at(m)) = m
    BY <1>1
  <2>2. punches[at(k)].time \in Nat /\ punches[at(m)].time \in Nat /\ k \in Nat /\ m \in Nat
    BY <2>1, PunchFields
  <2>3. ~ NotAfter(punches, at(m), at(k))
    BY <1>4, <2>1, <2>2, RankGrows
  <2> QED BY <2>2, <2>3 DEF NotAfter
<1> QED BY <1>2, <1>3, <1>4
-----------------------------------------------------------------------------
(* The minutes of pairs.                                                   *)

InOrder(punches) ==
    \A k, m \in DOMAIN punches : k < m => punches[k].time <= punches[m].time

\* The pairs before place n, and their minutes.
PairsBefore(punches, n) == {i \in Pairs(punches) : i < n}

MinutesBefore(punches, n) ==
    UNION {{i} \X (1..Minutes(punches, i)) : i \in PairsBefore(punches, n)}

\* What WorkWithinSpan says of the punches before place n.
FitsBefore(punches, n) ==
    /\ IsFiniteSet(MinutesBefore(punches, n))
    /\ IsFiniteSet(PairsBefore(punches, n))
    /\ 60 * Cardinality(MinutesBefore(punches, n))
         <= punches[n].time - punches[1].time + 30 * Cardinality(PairsBefore(punches, n))

\* The minutes of one pair.
LEMMA MinutesOf ==
    ASSUME NEW punches \in Seq(PunchDoc), NEW n \in Nat, n + 1 \in DOMAIN punches, n \in DOMAIN punches,
           punches[n].time <= punches[n + 1].time
    PROVE  LET minutes == {n} \X (1..Minutes(punches, n))
           IN  /\ IsFiniteSet(minutes)
               /\ Cardinality(minutes) \in Nat
               /\ 60 * Cardinality(minutes) <= punches[n + 1].time - punches[n].time + 30
<1> DEFINE m == Minutes(punches, n)
<1>1. punches[n].time \in Nat /\ punches[n + 1].time \in Nat
  BY PunchFields
<1>2. m \in Int /\ 60 * m <= punches[n + 1].time - punches[n].time + 30
  <2>1. PICK s \in Int : s = punches[n + 1].time - punches[n].time
    BY <1>1
  <2>2. m = Rounded(s)
    BY <2>1 DEF Minutes
  <2>3. Rounded(s) \in Int /\ 60 * Rounded(s) <= s + 30
    BY RoundedBound
  <2> QED BY <2>1, <2>2, <2>3
<1> HIDE DEF m
<1>3. IsFiniteSet(1..m) /\ Cardinality(1..m) = IF m < 1 THEN 0 ELSE m
  BY <1>2, CountTo
<1>4. IsFiniteSet({n}) /\ Cardinality({n}) = 1
  BY FS_Singleton
<1>5. IsFiniteSet({n} \X (1..m)) /\ Cardinality({n} \X (1..m)) = 1 * Cardinality(1..m)
  BY <1>3, <1>4, FS_Product
<1>6. Cardinality({n} \X (1..m)) = IF m < 1 THEN 0 ELSE m
  BY <1>2, <1>3, <1>5
<1>7. /\ Cardinality({n} \X (1..m)) \in Nat
      /\ 60 * Cardinality({n} \X (1..m)) <= punches[n + 1].time - punches[n].time + 30
  BY <1>1, <1>2, <1>6
<1> QED BY <1>5, <1>7 DEF m

\* One more place, which may close a pair.
LEMMA FitsNext ==
    ASSUME NEW punches \in Seq(PunchDoc), InOrder(punches), NEW n \in Nat,
           n \in DOMAIN punches, n + 1 \in DOMAIN punches, FitsBefore(punches, n)
    PROVE  FitsBefore(punches, n + 1)
<1> DEFINE minutes == {n} \X (1..Minutes(punches, n))
           old == MinutesBefore(punches, n)
           pairs == PairsBefore(punches, n)
<1>1. /\ punches[1].time \in Nat /\ punches[n].time \in Nat /\ punches[n + 1].time \in Nat
      /\ punches[n].time <= punches[n + 1].time
  <2>1. 1 \in DOMAIN punches
    OBVIOUS
  <2> QED BY <2>1, PunchFields DEF InOrder
<1>2. /\ IsFiniteSet(minutes) /\ Cardinality(minutes) \in Nat
      /\ 60 * Cardinality(minutes) <= punches[n + 1].time - punches[n].time + 30
  BY <1>1, MinutesOf
<1>3. /\ IsFiniteSet(old) /\ Cardinality(old) \in Nat
      /\ IsFiniteSet(pairs) /\ Cardinality(pairs) \in Nat
      /\ 60 * Cardinality(old) <= punches[n].time - punches[1].time + 30 * Cardinality(pairs)
  BY FS_CardinalityType DEF FitsBefore
<1>4. \A i \in Pairs(punches) : i \in Nat
  BY DEF Pairs
<1>5. CASE n \in Pairs(punches)
  <2>1. PairsBefore(punches, n + 1) = pairs \cup {n} /\ n \notin pairs
    <3>1. \A i \in Pairs(punches) : i < n + 1 <=> i < n \/ i = n
      BY <1>4
    <3>2. n < n + 1 /\ ~ (n < n)
      OBVIOUS
    <3> QED BY <1>5, <3>1, <3>2 DEF PairsBefore
  <2>2. MinutesBefore(punches, n + 1) = old \cup minutes
    BY <2>1 DEF MinutesBefore
  <2>3. old \cap minutes = {}
    BY <2>1 DEF MinutesBefore
  <2> HIDE DEF minutes, old, pairs
  <2>4. /\ IsFiniteSet(pairs \cup {n})
        /\ Cardinality(pairs \cup {n}) = Cardinality(pairs) + 1
    BY <1>3, <2>1, FS_AddElement
  <2>5. /\ IsFiniteSet(old \cup minutes)
        /\ Cardinality(old \cup minutes) = Cardinality(old) + Cardinality(minutes)
    <3>1. Cardinality(old \cap minutes) = 0
      BY <2>3, FS_EmptySet
    <3>2. /\ IsFiniteSet(old \cup minutes)
          /\ Cardinality(old \cup minutes)
               = Cardinality(old) + Cardinality(minutes) - Cardinality(old \cap minutes)
      BY <1>2, <1>3, FS_Union
    <3> QED BY <1>2, <1>3, <3>1, <3>2
  <2>6. 60 * (Cardinality(old) + Cardinality(minutes))
          <= punches[n + 1].time - punches[1].time + 30 * (Cardinality(pairs) + 1)
    BY <1>1, <1>2, <1>3, MinutesAddUp
  <2> QED BY <2>1, <2>2, <2>4, <2>5, <2>6 DEF FitsBefore
<1>6. CASE n \notin Pairs(punches)
  <2>1. PairsBefore(punches, n + 1) = pairs
    BY <1>4, <1>6 DEF PairsBefore
  <2>2. MinutesBefore(punches, n + 1) = old
    BY <2>1 DEF MinutesBefore
  <2> HIDE DEF minutes, old, pairs
  <2>3. 60 * Cardinality(old) <= punches[n + 1].time - punches[1].time + 30 * Cardinality(pairs)
    BY <1>1, <1>3
  <2> QED BY <1>3, <2>1, <2>2, <2>3 DEF FitsBefore
<1> QED BY <1>5, <1>6

\* By induction on the place.
LEMMA FitsEverywhere ==
    ASSUME NEW punches \in Seq(PunchDoc), InOrder(punches), punches # <<>>
    PROVE  FitsBefore(punches, Len(punches))
<1> DEFINE Bad == {n \in DOMAIN punches : ~ FitsBefore(punches, n)}
<1>1. DOMAIN punches = 1..Len(punches) /\ Len(punches) \in Nat /\ 1 \in DOMAIN punches
      /\ Len(punches) \in DOMAIN punches
  OBVIOUS
<1>2. FitsBefore(punches, 1)
  <2>1. PairsBefore(punches, 1) = {}
    BY DEF PairsBefore, Pairs
  <2>2. MinutesBefore(punches, 1) = {}
    BY <2>1 DEF MinutesBefore
  <2>3. punches[1].time \in Nat
    BY <1>1, PunchFields
  <2>4. IsFiniteSet({}) /\ Cardinality({}) = 0
    BY FS_EmptySet
  <2>5. 60 * 0 <= punches[1].time - punches[1].time + 30 * 0
    BY <2>3
  <2> QED BY <2>1, <2>2, <2>4, <2>5 DEF FitsBefore
<1>3. Bad = {}
  <2>1. SUFFICES ASSUME Bad # {} PROVE FALSE
    OBVIOUS
  <2>2. Bad \in SUBSET Nat
    BY <1>1
  <2>3. PICK n \in Bad : \A m \in Bad : n <= m
    <3> HIDE DEF Bad
    <3> QED BY <2>1, <2>2, LeastOf
  <2>4. n # 1
    BY <1>2
  <2>5. n - 1 \in DOMAIN punches /\ n - 1 \in Nat /\ n - 1 \notin Bad /\ (n - 1) + 1 = n
    <3>1. n \in 1..Len(punches) /\ n \in Bad
      BY <1>1
    <3>2. n - 1 \in 1..Len(punches) /\ ~ (n <= n - 1)
      BY <1>1, <2>4, <3>1
    <3>3. n - 1 \notin Bad
      <4> HIDE DEF Bad
      <4> QED BY <2>3, <3>2
    <3> QED BY <1>1, <3>1, <3>2, <3>3
  <2>6. FitsBefore(punches, n - 1)
    BY <2>5
  <2>7. FitsBefore(punches, (n - 1) + 1)
    BY <2>5, <2>6, FitsNext
  <2> QED BY <2>5, <2>7
<1> QED BY <1>1, <1>3

\* The minutes of the pairs, each rounded, fit the span of a sorted list.
LEMMA PairedMinutesFit ==
    ASSUME NEW punches \in Seq(PunchDoc), InOrder(punches), punches # <<>>
    PROVE  PairedMinutes(punches) \in Nat /\ FitsSpan(punches, PairedMinutes(punches))
<1> DEFINE n == Len(punches)
<1>1. FitsBefore(punches, n)
  BY FitsEverywhere
<1>2. PairsBefore(punches, n) = Pairs(punches)
  BY DEF PairsBefore, Pairs
<1>3. Cardinality(MinutesBefore(punches, n)) = PairedMinutes(punches)
  BY <1>2 DEF MinutesBefore, PairedMinutes
<1>4. 1 \in DOMAIN punches /\ n \in DOMAIN punches
  OBVIOUS
<1>5. Span(punches) \in Nat /\ punches[n].time - punches[1].time <= Span(punches)
  BY <1>4, SpanReaches
<1>6. PairedMinutes(punches) \in Nat /\ Cardinality(Pairs(punches)) \in Nat
  BY <1>1, <1>2, <1>3, FS_CardinalityType DEF FitsBefore
<1>7. 60 * PairedMinutes(punches)
        <= punches[n].time - punches[1].time + 30 * Cardinality(Pairs(punches))
  BY <1>1, <1>2, <1>3 DEF FitsBefore
<1>8. punches[n].time \in Nat /\ punches[1].time \in Nat
  BY <1>4, PunchFields
<1> HIDE DEF n
<1> QED BY <1>5, <1>6, <1>7, <1>8 DEF FitsSpan
-----------------------------------------------------------------------------
(* What a punch adds up to.                                                *)

LEMMA PairsFinite ==
    ASSUME NEW punches \in Seq(PunchDoc)
    PROVE  IsFiniteSet(Pairs(punches)) /\ Cardinality(Pairs(punches)) \in Nat
<1>1. Pairs(punches) \in SUBSET (1..(Len(punches) - 1)) /\ Len(punches) - 1 \in Int
  BY DEF Pairs
<1>2. IsFiniteSet(1..(Len(punches) - 1))
  BY <1>1, CountTo
<1> QED BY <1>1, <1>2, FS_Subset, FS_CardinalityType

\* Fewer minutes fit as well, and none at all always do.
LEMMA LessFits ==
    ASSUME NEW punches \in Seq(PunchDoc), punches # <<>>, NEW total \in Int, NEW less \in Int,
           \/ less <= total /\ FitsSpan(punches, total)
           \/ less <= 0
    PROVE  FitsSpan(punches, less)
<1>1. 1 \in DOMAIN punches
  OBVIOUS
<1>2. Span(punches) \in Nat
  BY <1>1, SpanReaches
<1>3. PICK span \in Nat, pairs \in Nat :
        span = Span(punches) /\ pairs = Cardinality(Pairs(punches))
  BY <1>2, PairsFinite
<1>4. \/ less <= total /\ 60 * total <= span + 30 * pairs
      \/ less <= 0
  BY <1>3 DEF FitsSpan
<1>5. 60 * less <= span + 30 * pairs
  BY <1>4
<1> QED BY <1>3, <1>5 DEF FitsSpan

LEMMA PenaltyIs ==
    ASSUME NEW type \in PunchType, NEW time \in Second, NEW expectation \in Expectation \cup {NULL}
    PROVE  CalculatePenalty(type, time, expectation) \in Nat
<1>1. CASE type = "OUT" \/ expectation = NULL
  BY <1>1 DEF CalculatePenalty
<1>2. CASE ~ (type = "OUT" \/ expectation = NULL)
  <2>1. expectation.deduction \in Nat
    BY <1>2, AttendanceAssumption
  <2> QED BY <1>2, <2>1 DEF CalculatePenalty
<1> QED BY <1>1, <1>2

\* A result that a record can take over.
SoundTally(tally) ==
    /\ tally \in Tally
    /\ tally.punches # <<>>
    /\ FitsSpan(tally.punches, tally.total)

LEMMA TallyIs ==
    ASSUME NEW punches \in Seq(PunchDoc), NEW total \in Int, NEW missed \in BOOLEAN,
           punches # <<>>, FitsSpan(punches, total)
    PROVE  SoundTally([punches |-> punches, total |-> total, missed |-> missed])
BY DEF SoundTally, Tally

LEMMA FirstAndLast ==
    ASSUME NEW first \in Second, NEW last \in Second
    PROVE  LET punches == <<[type |-> "IN", time |-> first], [type |-> "OUT", time |-> last]>>
           IN  /\ punches \in Seq(PunchDoc)
               /\ punches # <<>>
               /\ FitsSpan(punches, IF Rounded(last - first) > 0 THEN Rounded(last - first) ELSE 0)
<1> DEFINE punches == <<[type |-> "IN", time |-> first], [type |-> "OUT", time |-> last]>>
<1>1. punches \in Seq(PunchDoc) /\ punches # <<>> /\ Len(punches) = 2
      /\ 1 \in DOMAIN punches /\ 2 \in DOMAIN punches
  BY DEF PunchDoc, PunchType
<1>2. /\ punches[1].type = "IN" /\ punches[2].type = "OUT"
      /\ punches[1].time = first /\ punches[2].time = last
  OBVIOUS
<1> HIDE DEF punches
<1>3. Pairs(punches) = {1}
  <2>1. 1..(Len(punches) - 1) = {1}
    BY <1>1
  <2> QED BY <1>2, <2>1 DEF Pairs
<1>4. Cardinality(Pairs(punches)) = 1
  BY <1>3, FS_Singleton
<1>5. Span(punches) \in Nat /\ last - first <= Span(punches)
  BY <1>1, <1>2, SpanReaches
<1>6. PICK s \in Int : s = last - first
  BY AttendanceAssumption
<1>7. Rounded(s) \in Int /\ 60 * Rounded(s) <= s + 30
  BY RoundedBound
<1>8. FitsSpan(punches, IF Rounded(s) > 0 THEN Rounded(s) ELSE 0)
  <2>1. CASE Rounded(s) > 0
    <3>1. 60 * Rounded(s) <= Span(punches) + 30 * 1
      BY <1>5, <1>6, <1>7
    <3> QED BY <1>4, <2>1, <3>1 DEF FitsSpan
  <2>2. CASE ~ (Rounded(s) > 0)
    BY <1>1, <2>2, LessFits
  <2> QED BY <2>1, <2>2
<1> QED BY <1>1, <1>6, <1>8 DEF punches

LEMMA TimesOfIs ==
    ASSUME NEW punches \in Seq(PunchDoc), NEW type, TimesOf(punches, type) # {}
    PROVE  /\ Earliest(TimesOf(punches, type)) \in Second
           /\ Latest(TimesOf(punches, type)) \in Second
<1> DEFINE S == {j \in DOMAIN punches : punches[j].type = type}
           times == {punches[i].time : i \in S}
<1>1. TimesOf(punches, type) = times
  BY DEF TimesOf
<1>2. S \in SUBSET (DOMAIN punches) /\ S # {}
  BY <1>1
<1>3. times \in SUBSET Nat /\ times \in SUBSET Second /\ times # {}
  BY <1>1, <1>2, PunchFields
<1>4. Latest(times) \in times
  <2> HIDE DEF S
  <2> QED BY <1>2, LatestOf
<1>5. Earliest(times) \in times
  <2> HIDE DEF times
  <2> QED BY <1>3, EarliestOf
<1> HIDE DEF times
<1> QED BY <1>1, <1>3, <1>4, <1>5

\* Whatever the punch policy, what is counted fits the punches that are kept.
LEMMA WorkedFits ==
    ASSUME NEW punches \in Seq(PunchDoc), InOrder(punches), punches # <<>>,
           NEW policy \in PunchPolicy
    PROVE  SoundTally(Worked(punches, policy))
<1>1. PICK none \in Int : none = 0
  OBVIOUS
<1>2. CASE policy = "MULTIPLE"
  <2>1. PairedMinutes(punches) \in Nat /\ FitsSpan(punches, PairedMinutes(punches))
    BY PairedMinutesFit
  <2>2. PICK missed \in BOOLEAN : missed = (2 * Cardinality(Pairs(punches)) # Len(punches))
    OBVIOUS
  <2>3. Worked(punches, policy) =
          [punches |-> punches, total |-> PairedMinutes(punches), missed |-> missed]
    BY <1>2, <2>2 DEF Worked
  <2>4. SoundTally([punches |-> punches, total |-> PairedMinutes(punches), missed |-> missed])
    BY <2>1, TallyIs
  <2> QED BY <2>3, <2>4
<1>3. CASE policy = "FIRST_LAST"
  <2>1. CASE TimesOf(punches, "IN") = {} \/ TimesOf(punches, "OUT") = {}
    <3>1. Worked(punches, policy) = [punches |-> punches, total |-> 0, missed |-> TRUE]
      BY <1>3, <2>1 DEF Worked
    <3>2. FitsSpan(punches, none)
      BY <1>1, LessFits
    <3>3. SoundTally([punches |-> punches, total |-> none, missed |-> TRUE])
      BY <3>2, TallyIs
    <3> QED BY <1>1, <3>1, <3>3
  <2>2. CASE ~ (TimesOf(punches, "IN") = {} \/ TimesOf(punches, "OUT") = {})
    <3>1. PICK first \in Second, last \in Second :
            /\ first = Earliest(TimesOf(punches, "IN"))
            /\ last = Latest(TimesOf(punches, "OUT"))
      BY <2>2, TimesOfIs
    <3> DEFINE new == <<[type |-> "IN", time |-> first], [type |-> "OUT", time |-> last]>>
               total == IF Rounded(last - first) > 0 THEN Rounded(last - first) ELSE 0
    <3>2. Worked(punches, policy) = [punches |-> new, total |-> total, missed |-> FALSE]
      BY <1>3, <2>2, <3>1 DEF Worked
    <3>3. new \in Seq(PunchDoc) /\ new # <<>> /\ FitsSpan(new, total)
      BY FirstAndLast
    <3>4. total \in Int
      <4>1. last - first \in Int
        BY AttendanceAssumption
      <4> QED BY <4>1, RoundedBound
    <3> HIDE DEF new, total
    <3> QED BY <3>2, <3>3, <3>4, TallyIs
  <2> QED BY <2>1, <2>2
<1>4. CASE policy = "ONLY_FIRST"
  <2> DEFINE new == <<Head(punches)>>
  <2>1. new \in Seq(PunchDoc) /\ new # <<>>
    <3>1. Head(punches) = punches[1] /\ 1 \in DOMAIN punches
      OBVIOUS
    <3>2. Head(punches) \in PunchDoc
      BY <3>1, PunchFields
    <3> QED BY <3>2
  <2>2. Worked(punches, policy) = [punches |-> new, total |-> 0, missed |-> TRUE]
    BY <1>4 DEF Worked
  <2> HIDE DEF new
  <2>3. FitsSpan(new, none)
    BY <1>1, <2>1, LessFits
  <2>4. SoundTally([punches |-> new, total |-> none, missed |-> TRUE])
    BY <2>1, <2>3, TallyIs
  <2> QED BY <1>1, <2>2, <2>4
<1> QED BY <1>2, <1>3, <1>4 DEF PunchPolicy

\* A punch keeps the minutes of a record within its span.
LEMMA PunchedAgainFits ==
    ASSUME NEW doc \in AttendanceDoc, NEW punch \in PunchDoc, NEW policy \in PunchPolicy,
           NEW penalty \in Nat
    PROVE  SoundTally(PunchedAgain(doc, punch, policy, penalty))
<1> DEFINE all == Append(doc.punches, punch)
<1>1. doc.punches \in Seq(PunchDoc) /\ doc.totalWorkMinutes \in Int
  BY DEF AttendanceDoc
<1>2. all \in Seq(PunchDoc) /\ Len(all) > 0
  BY <1>1
<1> HIDE DEF all
<1>3. PICK sorted \in Seq(PunchDoc) : sorted = SortedWith(doc.punches, punch)
  BY <1>2, SortedOrders DEF SortedWith, all
<1>4. InOrder(sorted) /\ sorted # <<>>
  <2>1. sorted = Sorted(all)
    BY <1>3 DEF SortedWith, all
  <2>2. Len(sorted) = Len(all)
    BY <1>2, <2>1, SortedOrders
  <2>3. InOrder(sorted)
    BY <1>2, <2>1, SortedOrders DEF InOrder
  <2> QED BY <1>2, <2>2, <2>3
<1>5. PICK worked : worked = Worked(sorted, policy)
  OBVIOUS
<1>6. /\ worked \in Tally /\ worked.punches # <<>> /\ FitsSpan(worked.punches, worked.total)
  BY <1>4, <1>5, WorkedFits DEF SoundTally
<1>7. /\ worked.punches \in Seq(PunchDoc) /\ worked.total \in Int /\ worked.missed \in BOOLEAN
      /\ worked = [punches |-> worked.punches, total |-> worked.total, missed |-> worked.missed]
  BY <1>6 DEF Tally
<1>8. PICK taken \in Nat : taken = Deducted(doc, penalty)
  BY <1>1 DEF Deducted
<1>9. PICK left \in Int : left = IF worked.total >= taken THEN worked.total - taken ELSE 0
  BY <1>7
<1>10. PunchedAgain(doc, punch, policy, penalty) = [worked EXCEPT !.total = left]
  BY <1>3, <1>5, <1>8, <1>9 DEF PunchedAgain
<1>11. [worked EXCEPT !.total = left] =
         [punches |-> worked.punches, total |-> left, missed |-> worked.missed]
  BY <1>7
<1>12. left <= worked.total \/ left <= 0
  BY <1>7, <1>9
<1>13. FitsSpan(worked.punches, left)
  BY <1>6, <1>7, <1>12, LessFits
<1> QED BY <1>6, <1>7, <1>10, <1>11, <1>13, TallyIs
-----------------------------------------------------------------------------
(* The inductive invariant.                                                *)

AttendanceCallSound(call) ==
    /\ call.at \in {"punch.create", "punch.update"} => SoundTally(call.new)
    /\ call.at \in {"punch.update", "apply.save"} => attendance[call.record] # NULL
    /\ call.at \in {"apply.save", "apply.approve", "review.save", "review.finalise"} =>
         corrections[call.correction] # NULL
    /\ call.at = "review.finalise" => call.correction \in approved

CorrectionsSound ==
    /\ corrections \in [Correction -> CorrectionDoc \cup {NULL}]
    /\ approved \subseteq {c \in Correction : corrections[c] # NULL}
    /\ \A c \in Correction : corrections[c] # NULL => attendance[corrections[c].record] # NULL

RecordsSound ==
    /\ attendance \in [AttendanceRecord -> AttendanceDoc \cup {NULL}]
    /\ WorkWithinSpan
    /\ FinalisedWasApproved

AttendanceCallsSound ==
    /\ attendanceCalls \in [Agent -> AttendanceCall \cup {NULL}]
    /\ \A a \in Agent : attendanceCalls[a] # NULL => AttendanceCallSound(attendanceCalls[a])

AttendanceInv ==
    /\ CorrectionsSound
    /\ RecordsSound
    /\ AttendanceCallsSound
    /\ attendanceOps \in 0..MaxAttendanceOps

THEOREM AttendanceInitially == AttendanceInit => AttendanceInv
<1> SUFFICES ASSUME AttendanceInit PROVE AttendanceInv
  OBVIOUS
<1>1. CorrectionsSound
  BY DEF AttendanceInit, CorrectionsSound
<1>2. RecordsSound
  BY DEF AttendanceInit, RecordsSound, WorkWithinSpan, FinalisedWasApproved
<1>3. AttendanceCallsSound
  BY DEF AttendanceInit, AttendanceCallsSound
<1>4. attendanceOps \in 0..MaxAttendanceOps
  BY AttendanceAssumption DEF AttendanceInit
<1> QED BY <1>1, <1>2, <1>3, <1>4 DEF AttendanceInv

\* The fields of a call at each of its steps.
LEMMA AttendanceCallFields ==
    ASSUME NEW call \in AttendanceCall
    PROVE  /\ call.at = "punch.create" => call.of \in Worker
           /\ call.at \in {"punch.create", "punch.update"} => call.new \in Tally
           /\ call.at \in {"punch.update", "apply.save"} => call.record \in AttendanceRecord
           /\ call.at \in {"apply.save", "apply.approve", "review.save", "review.finalise"} =>
                call.correction \in Correction
           /\ call.at = "review.save" => call.decision \in Decision
BY DEF AttendanceCall

LEMMA AttendanceCallOf ==
    ASSUME AttendanceInv, NEW a \in Agent, attendanceCalls[a] # NULL
    PROVE  attendanceCalls[a] \in AttendanceCall /\ AttendanceCallSound(attendanceCalls[a])
BY DEF AttendanceInv, AttendanceCallsSound

LEMMA AttendanceFields ==
    ASSUME NEW doc \in AttendanceDoc
    PROVE  /\ doc.of \in Worker /\ doc.punches \in Seq(PunchDoc)
           /\ doc.totalWorkMinutes \in Int
           /\ doc.hasMissedPunch \in BOOLEAN /\ doc.finalisedForPayroll \in BOOLEAN
BY DEF AttendanceDoc

\* Records, requests and approvals never go away, and a request stays with
\* its record.
AttendanceGrows ==
    /\ \A r \in AttendanceRecord : attendance[r] # NULL => attendance'[r] # NULL
    /\ \A c \in Correction : corrections[c] # NULL =>
         corrections'[c] # NULL /\ corrections'[c].record = corrections[c].record
    /\ approved \subseteq approved'

\* Agent a goes on with next, a call or NULL.
AttendanceMoves(a, next) == attendanceCalls' = [attendanceCalls EXCEPT ![a] = next]

LEMMA AttendanceCallStays ==
    ASSUME NEW call \in AttendanceCall, AttendanceCallSound(call), AttendanceGrows
    PROVE  AttendanceCallSound(call)'
<1>1. call.at \in {"punch.create", "punch.update"} => SoundTally(call.new)
  BY DEF AttendanceCallSound
<1>2. call.at \in {"punch.update", "apply.save"} => attendance'[call.record] # NULL
  BY AttendanceCallFields DEF AttendanceCallSound, AttendanceGrows
<1>3. call.at \in {"apply.save", "apply.approve", "review.save", "review.finalise"} =>
        corrections'[call.correction] # NULL
  BY AttendanceCallFields DEF AttendanceCallSound, AttendanceGrows
<1>4. call.at = "review.finalise" => call.correction \in approved'
  BY DEF AttendanceCallSound, AttendanceGrows
<1> QED BY <1>1, <1>2, <1>3, <1>4 DEF AttendanceCallSound

LEMMA AttendanceCallsAfter ==
    ASSUME AttendanceInv, AttendanceGrows, NEW a \in Agent, NEW next \in AttendanceCall \cup {NULL},
           AttendanceMoves(a, next), next # NULL => AttendanceCallSound(next)'
    PROVE  AttendanceCallsSound'
<1>1. attendanceCalls \in [Agent -> AttendanceCall \cup {NULL}]
  BY DEF AttendanceInv, AttendanceCallsSound
<1>2. /\ attendanceCalls' \in [Agent -> AttendanceCall \cup {NULL}]
      /\ \A b \in Agent : attendanceCalls'[b] = IF b = a THEN next ELSE attendanceCalls[b]
  BY <1>1 DEF AttendanceMoves
<1>3. ASSUME NEW b \in Agent, b # a, attendanceCalls[b] # NULL
      PROVE  AttendanceCallSound(attendanceCalls[b])'
  <2>1. attendanceCalls[b] \in AttendanceCall /\ AttendanceCallSound(attendanceCalls[b])
    BY <1>3, AttendanceCallOf
  <2>2. PICK call \in AttendanceCall : call = attendanceCalls[b]
    BY <2>1
  <2>3. AttendanceCallSound(call)'
    BY <2>1, <2>2, AttendanceCallStays
  <2>4. attendanceCalls'[b] = call
    BY <1>2, <1>3, <2>2
  <2> QED BY <2>3, <2>4
<1>4. next # NULL => AttendanceCallSound(attendanceCalls[a])'
  <2>1. attendanceCalls'[a] = next
    BY <1>2
  <2> QED BY <2>1
<1> QED BY <1>2, <1>3, <1>4 DEF AttendanceCallsSound

LEMMA AttendanceCallsStay ==
    ASSUME AttendanceInv, AttendanceGrows, attendanceCalls' = attendanceCalls
    PROVE  AttendanceCallsSound'
<1>1. ASSUME NEW b \in Agent, attendanceCalls[b] # NULL
      PROVE  AttendanceCallSound(attendanceCalls[b])'
  <2>1. attendanceCalls[b] \in AttendanceCall /\ AttendanceCallSound(attendanceCalls[b])
    BY <1>1, AttendanceCallOf
  <2>2. PICK call \in AttendanceCall : call = attendanceCalls[b]
    BY <2>1
  <2>3. AttendanceCallSound(call)'
    BY <2>1, <2>2, AttendanceCallStays
  <2> QED BY <2>2, <2>3
<1> QED BY <1>1 DEF AttendanceInv, AttendanceCallsSound

LEMMA AttendanceDocsStay ==
    ASSUME AttendanceInv, UNCHANGED <<attendance, corrections, approved>>
    PROVE  AttendanceGrows /\ CorrectionsSound' /\ RecordsSound'
BY DEF AttendanceInv, CorrectionsSound, RecordsSound, WorkWithinSpan, FinalisedWasApproved,
   AttendanceGrows

\* A step that moves one call and leaves the documents alone.
LEMMA AttendanceCallsOnly ==
    ASSUME AttendanceInv, NEW a \in Agent, NEW next \in AttendanceCall \cup {NULL},
           AttendanceMoves(a, next), next # NULL => AttendanceCallSound(next),
           UNCHANGED <<attendance, corrections, approved>>,
           attendanceOps' \in 0..MaxAttendanceOps
    PROVE  AttendanceInv'
<1>1. AttendanceGrows /\ CorrectionsSound' /\ RecordsSound'
  BY AttendanceDocsStay
<1>2. next # NULL => AttendanceCallSound(next)'
  BY <1>1, AttendanceCallStays
<1>3. AttendanceCallsSound'
  BY <1>1, <1>2, AttendanceCallsAfter
<1> QED BY <1>1, <1>3 DEF AttendanceInv

LEMMA AttendanceBegins ==
    ASSUME AttendanceInv, NEW a \in Agent, NEW call \in AttendanceCall, AttendanceCallSound(call),
           attendanceCalls' = Begin(attendanceCalls, a, call),
           UNCHANGED <<attendance, corrections, approved>>,
           attendanceOps' \in 0..MaxAttendanceOps
    PROVE  AttendanceInv'
BY AttendanceCallsOnly DEF Begin, AttendanceMoves

\* One record becomes new, and a call moves on.
LEMMA RecordBecomes ==
    ASSUME AttendanceInv, NEW r \in AttendanceRecord, NEW new \in AttendanceDoc,
           attendance' = [attendance EXCEPT ![r] = new],
           new.punches # <<>> => FitsSpan(new.punches, new.totalWorkMinutes),
           new.finalisedForPayroll => \E c \in approved : corrections[c].record = r,
           UNCHANGED <<corrections, approved>>,
           NEW a \in Agent, NEW next \in AttendanceCall \cup {NULL}, AttendanceMoves(a, next),
           next # NULL => AttendanceCallSound(next)', attendanceOps' \in 0..MaxAttendanceOps
    PROVE  AttendanceInv'
<1>1. /\ attendance \in [AttendanceRecord -> AttendanceDoc \cup {NULL}]
      /\ corrections' = corrections /\ approved' = approved
  BY DEF AttendanceInv, RecordsSound
<1>2. new # NULL
  BY AttendanceAssumption
<1>3. /\ attendance' \in [AttendanceRecord -> AttendanceDoc \cup {NULL}]
      /\ \A s \in AttendanceRecord : attendance'[s] = IF s = r THEN new ELSE attendance[s]
  BY <1>1
<1>4. AttendanceGrows
  BY <1>1, <1>2, <1>3 DEF AttendanceGrows
<1>5. AttendanceCallsSound'
  BY <1>4, AttendanceCallsAfter
<1>6. CorrectionsSound'
  <2>1. \A c \in Correction : corrections[c] # NULL => corrections[c].record \in AttendanceRecord
    BY DEF AttendanceInv, CorrectionsSound, CorrectionDoc
  <2> QED BY <1>1, <1>4, <2>1 DEF AttendanceInv, CorrectionsSound, AttendanceGrows
<1>7. WorkWithinSpan'
  BY <1>3 DEF AttendanceInv, RecordsSound, WorkWithinSpan
<1>8. FinalisedWasApproved'
  BY <1>1, <1>3 DEF AttendanceInv, RecordsSound, FinalisedWasApproved
<1> QED BY <1>3, <1>5, <1>6, <1>7, <1>8 DEF AttendanceInv, RecordsSound

\* One request becomes new, and may be noted as approved.
LEMMA CorrectionBecomes ==
    ASSUME AttendanceInv, NEW c \in Correction, NEW new \in CorrectionDoc,
           corrections' = [corrections EXCEPT ![c] = new],
           attendance[new.record] # NULL,
           corrections[c] # NULL => new.record = corrections[c].record,
           approved \subseteq approved', approved' \subseteq approved \cup {c},
           attendance' = attendance
    PROVE  AttendanceGrows /\ CorrectionsSound' /\ RecordsSound'
<1>1. corrections \in [Correction -> CorrectionDoc \cup {NULL}]
  BY DEF AttendanceInv, CorrectionsSound
<1>2. new # NULL
  BY AttendanceAssumption
<1>3. /\ corrections' \in [Correction -> CorrectionDoc \cup {NULL}]
      /\ \A d \in Correction : corrections'[d] = IF d = c THEN new ELSE corrections[d]
  BY <1>1
<1>4. AttendanceGrows
  BY <1>2, <1>3 DEF AttendanceGrows
<1>5. CorrectionsSound'
  BY <1>2, <1>3 DEF AttendanceInv, CorrectionsSound
<1>6. FinalisedWasApproved'
  <2>1. ASSUME NEW r \in AttendanceRecord, attendance'[r] # NULL,
               attendance'[r].finalisedForPayroll
        PROVE  \E d \in approved' : corrections'[d].record = r
    <3>1. PICK d \in approved : corrections[d].record = r
      BY <2>1 DEF AttendanceInv, RecordsSound, FinalisedWasApproved
    <3>2. d \in Correction /\ corrections[d] # NULL
      BY DEF AttendanceInv, CorrectionsSound
    <3> QED BY <1>4, <3>1, <3>2 DEF AttendanceGrows
  <2> QED BY <2>1 DEF FinalisedWasApproved
<1>7. RecordsSound'
  BY <1>6 DEF AttendanceInv, RecordsSound, WorkWithinSpan
<1> QED BY <1>4, <1>5, <1>7
-----------------------------------------------------------------------------
(* The steps.                                                              *)

LEMMA AttendanceEnds ==
    ASSUME NEW a \in Agent, attendanceCalls' = Finish(attendanceCalls, a)
    PROVE  AttendanceMoves(a, NULL)
BY DEF Finish, AttendanceMoves

LEMMA FirstPunchStep ==
    ASSUME AttendanceInv, NEW a \in Agent, NEW w \in Worker, NEW type \in PunchType,
           NEW time \in Second, NEW expectation \in Expectation \cup {NULL}, NEW lateByShift \in BOOLEAN,
           FirstPunch(a, w, type, time, expectation, lateByShift),
           attendanceOps' \in 0..MaxAttendanceOps
    PROVE  AttendanceInv'
<1>1. PICK penalty \in Nat : penalty = CalculatePenalty(type, time, expectation)
  BY PenaltyIs
<1>2. PICK total \in Int : total = - penalty
  OBVIOUS
<1>3. PICK missed \in BOOLEAN :
        missed = (type = "OUT" \/ IsLate(type, time, expectation) \/ lateByShift)
  OBVIOUS
<1>4. PICK punches : punches = <<[type |-> type, time |-> time]>>
  OBVIOUS
<1>5. punches \in Seq(PunchDoc) /\ punches # <<>>
  BY <1>4 DEF PunchDoc
<1>6. FitsSpan(punches, total)
  BY <1>2, <1>5, LessFits
<1>7. PICK new : new = [punches |-> punches, total |-> total, missed |-> missed]
  OBVIOUS
<1>8. SoundTally(new)
  BY <1>5, <1>6, <1>7, TallyIs
<1>9. PICK call : call = [at |-> "punch.create", of |-> w, new |-> new]
  OBVIOUS
<1>10. call \in AttendanceCall
  BY <1>8, <1>9 DEF AttendanceCall, SoundTally
<1>11. AttendanceCallSound(call)
  BY <1>8, <1>9 DEF AttendanceCallSound
<1>12. attendanceCalls' = Begin(attendanceCalls, a, call)
  BY <1>1, <1>2, <1>3, <1>4, <1>7, <1>9 DEF FirstPunch
<1>13. UNCHANGED <<attendance, corrections, approved>>
  BY DEF FirstPunch
<1> QED BY <1>10, <1>11, <1>12, <1>13, AttendanceBegins

LEMMA NextPunchStep ==
    ASSUME AttendanceInv, NEW a \in Agent, NEW w \in Worker, NEW type \in PunchType,
           NEW time \in Second, NEW expectation \in Expectation \cup {NULL}, NEW policy \in PunchPolicy,
           NextPunch(a, w, type, time, expectation, policy),
           attendanceOps' \in 0..MaxAttendanceOps
    PROVE  AttendanceInv'
<1>1. PICK penalty \in Nat : penalty = CalculatePenalty(type, time, expectation)
  BY PenaltyIs
<1>2. PICK punch \in PunchDoc : punch = [type |-> type, time |-> time]
  BY DEF PunchDoc
<1>3. PICK r \in AttendanceRecord :
        /\ attendance[r] # NULL
        /\ attendanceCalls' = Begin(attendanceCalls, a,
             [at |-> "punch.update", record |-> r,
              new |-> PunchedAgain(attendance[r], punch, policy, penalty)])
  BY <1>1, <1>2 DEF NextPunch, RecordsOfDay
<1>4. attendance[r] \in AttendanceDoc
  BY <1>3 DEF AttendanceInv, RecordsSound
<1>5. PICK new : new = PunchedAgain(attendance[r], punch, policy, penalty)
  OBVIOUS
<1>6. SoundTally(new)
  BY <1>4, <1>5, PunchedAgainFits
<1>7. PICK call : call = [at |-> "punch.update", record |-> r, new |-> new]
  OBVIOUS
<1>8. call \in AttendanceCall
  BY <1>6, <1>7 DEF AttendanceCall, SoundTally
<1>9. AttendanceCallSound(call)
  BY <1>3, <1>6, <1>7 DEF AttendanceCallSound
<1>10. attendanceCalls' = Begin(attendanceCalls, a, call)
  BY <1>3, <1>5, <1>7
<1>11. UNCHANGED <<attendance, corrections, approved>>
  BY DEF NextPunch
<1> QED BY <1>8, <1>9, <1>10, <1>11, AttendanceBegins

LEMMA PunchCreateStep ==
    ASSUME AttendanceInv, NEW a \in Agent, NEW r \in AttendanceRecord, PunchCreate(a, r),
           attendanceOps' \in 0..MaxAttendanceOps
    PROVE  AttendanceInv'
<1>1. PICK call \in AttendanceCall :
        /\ call = attendanceCalls[a] /\ call.at = "punch.create" /\ AttendanceCallSound(call)
  BY AttendanceCallOf DEF PunchCreate, At
<1>2. PICK punches \in Seq(PunchDoc), total \in Int, missed \in BOOLEAN :
        /\ punches = call.new.punches /\ total = call.new.total /\ missed = call.new.missed
        /\ FitsSpan(punches, total)
  BY <1>1 DEF AttendanceCallSound, SoundTally, Tally
<1>3. PICK new :
        new = [of |-> call.of, punches |-> punches, totalWorkMinutes |-> total,
               hasMissedPunch |-> missed, finalisedForPayroll |-> FALSE]
  OBVIOUS
<1>4. new \in AttendanceDoc
  BY <1>1, <1>3, AttendanceCallFields DEF AttendanceDoc
<1>5. /\ new.punches = punches /\ new.totalWorkMinutes = total /\ ~ new.finalisedForPayroll
  BY <1>3
<1>6. attendance' = [attendance EXCEPT ![r] = new]
  BY <1>1, <1>2, <1>3 DEF PunchCreate
<1>7. AttendanceMoves(a, NULL) /\ UNCHANGED <<corrections, approved>>
  BY AttendanceEnds DEF PunchCreate
<1> QED BY <1>2, <1>4, <1>5, <1>6, <1>7, RecordBecomes

LEMMA PunchUpdateStep ==
    ASSUME AttendanceInv, NEW a \in Agent, PunchUpdate(a), attendanceOps' \in 0..MaxAttendanceOps
    PROVE  AttendanceInv'
<1>1. PICK call \in AttendanceCall :
        /\ call = attendanceCalls[a] /\ call.at = "punch.update" /\ AttendanceCallSound(call)
  BY AttendanceCallOf DEF PunchUpdate, At
<1>2. PICK punches \in Seq(PunchDoc), total \in Int, missed \in BOOLEAN :
        /\ punches = call.new.punches /\ total = call.new.total /\ missed = call.new.missed
        /\ FitsSpan(punches, total)
  BY <1>1 DEF AttendanceCallSound, SoundTally, Tally
<1>3. PICK r \in AttendanceRecord : r = call.record /\ attendance[r] # NULL
  BY <1>1, AttendanceCallFields DEF AttendanceCallSound
<1>4. PICK old \in AttendanceDoc : old = attendance[r]
  BY <1>3 DEF AttendanceInv, RecordsSound
<1>5. PICK new :
        new = [old EXCEPT !.punches = punches, !.totalWorkMinutes = total, !.hasMissedPunch = missed]
  OBVIOUS
<1>6. new \in AttendanceDoc
  BY <1>5 DEF AttendanceDoc
<1>7. /\ new.punches = punches /\ new.totalWorkMinutes = total
      /\ new.finalisedForPayroll = old.finalisedForPayroll
  BY <1>5 DEF AttendanceDoc
<1>8. attendance' = [attendance EXCEPT ![r] = new]
  <2>1. attendance \in [AttendanceRecord -> AttendanceDoc \cup {NULL}]
    BY DEF AttendanceInv, RecordsSound
  <2>2. attendance' = [attendance EXCEPT
          ![r].punches = punches, ![r].totalWorkMinutes = total, ![r].hasMissedPunch = missed]
    BY <1>1, <1>2, <1>3 DEF PunchUpdate
  <2> QED BY <1>4, <1>5, <2>1, <2>2
<1>9. new.finalisedForPayroll => \E c \in approved : corrections[c].record = r
  BY <1>3, <1>4, <1>7 DEF AttendanceInv, RecordsSound, FinalisedWasApproved
<1>10. AttendanceMoves(a, NULL) /\ UNCHANGED <<corrections, approved>>
  BY AttendanceEnds DEF PunchUpdate
<1> QED BY <1>2, <1>6, <1>7, <1>8, <1>9, <1>10, RecordBecomes

LEMMA SubmitCorrectionStep ==
    ASSUME AttendanceInv, NEW c \in Correction, NEW w \in Worker, NEW r \in AttendanceRecord,
           SubmitCorrection(c, w, r), attendanceOps' \in 0..MaxAttendanceOps
    PROVE  AttendanceInv'
<1>1. PICK new \in CorrectionDoc : new = [of |-> w, record |-> r, status |-> "SUBMITTED"]
  BY DEF CorrectionDoc
<1>2. AttendanceGrows /\ CorrectionsSound' /\ RecordsSound'
  BY <1>1, CorrectionBecomes DEF SubmitCorrection
<1>3. AttendanceCallsSound'
  BY <1>2, AttendanceCallsStay DEF SubmitCorrection
<1> QED BY <1>2, <1>3 DEF AttendanceInv

LEMMA CorrectionOf ==
    ASSUME AttendanceInv, NEW c \in Correction, corrections[c] # NULL
    PROVE  /\ corrections[c] \in CorrectionDoc
           /\ corrections[c].record \in AttendanceRecord
           /\ attendance[corrections[c].record] # NULL
BY DEF AttendanceInv, CorrectionsSound, CorrectionDoc

LEMMA ApproveAndApplyCorrectionStep ==
    ASSUME AttendanceInv, NEW a \in Agent, NEW c \in Correction, ApproveAndApplyCorrection(a, c),
           attendanceOps' \in 0..MaxAttendanceOps
    PROVE  AttendanceInv'
<1>1. corrections[c] # NULL
  BY DEF ApproveAndApplyCorrection
<1>2. PICK r \in AttendanceRecord : r = corrections[c].record /\ attendance[r] # NULL
  BY <1>1, CorrectionOf
<1>3. PICK call : call = [at |-> "apply.save", correction |-> c, record |-> r]
  OBVIOUS
<1>4. call \in AttendanceCall /\ AttendanceCallSound(call)
  BY <1>1, <1>2, <1>3 DEF AttendanceCall, AttendanceCallSound
<1>5. attendanceCalls' = Begin(attendanceCalls, a, call)
      /\ UNCHANGED <<attendance, corrections, approved>>
  BY <1>2, <1>3 DEF ApproveAndApplyCorrection
<1> QED BY <1>4, <1>5, AttendanceBegins

LEMMA ApplyCorrectionStep ==
    ASSUME AttendanceInv, NEW a \in Agent, ApplyCorrection(a), attendanceOps' \in 0..MaxAttendanceOps
    PROVE  AttendanceInv'
<1>1. PICK call \in AttendanceCall :
        /\ call = attendanceCalls[a] /\ call.at = "apply.save" /\ AttendanceCallSound(call)
  BY AttendanceCallOf DEF ApplyCorrection, At
<1>2. PICK r \in AttendanceRecord, c \in Correction :
        /\ r = call.record /\ attendance[r] # NULL
        /\ c = call.correction /\ corrections[c] # NULL
  BY <1>1, AttendanceCallFields DEF AttendanceCallSound
<1>3. PICK old \in AttendanceDoc : old = attendance[r]
  BY <1>2 DEF AttendanceInv, RecordsSound
<1>4. PICK new : new = [old EXCEPT !.punches = <<>>]
  OBVIOUS
<1>5. new \in AttendanceDoc /\ new.punches = <<>> /\ new.finalisedForPayroll = old.finalisedForPayroll
  <2>1. PICK none \in Seq(PunchDoc) : none = <<>>
    <3>1. <<>> \in Seq(PunchDoc)
      OBVIOUS
    <3> QED BY <3>1, Zenon
  <2>2. new = [old EXCEPT !.punches = none]
    BY <1>4, <2>1
  <2> QED BY <2>1, <2>2 DEF AttendanceDoc
<1>6. attendance' = [attendance EXCEPT ![r] = new]
  <2>1. attendance \in [AttendanceRecord -> AttendanceDoc \cup {NULL}]
    BY DEF AttendanceInv, RecordsSound
  <2>2. attendance' = [attendance EXCEPT ![r].punches = <<>>]
    BY <1>1, <1>2 DEF ApplyCorrection
  <2> QED BY <1>3, <1>4, <2>1, <2>2
<1>7. new.finalisedForPayroll => \E d \in approved : corrections[d].record = r
  BY <1>2, <1>3, <1>5 DEF AttendanceInv, RecordsSound, FinalisedWasApproved
<1>8. PICK next : next = [at |-> "apply.approve", correction |-> c]
  OBVIOUS
<1>9. next \in AttendanceCall
  BY <1>8 DEF AttendanceCall
<1>10. AttendanceMoves(a, next) /\ UNCHANGED <<corrections, approved>>
  BY <1>1, <1>2, <1>8 DEF ApplyCorrection, Begin, AttendanceMoves
<1>11. AttendanceCallSound(next)'
  BY <1>2, <1>8, <1>10 DEF AttendanceCallSound
<1> QED BY <1>5, <1>6, <1>7, <1>9, <1>10, <1>11, RecordBecomes

LEMMA StatusChanges ==
    ASSUME AttendanceInv, NEW c \in Correction, corrections[c] # NULL, NEW status \in Decision,
           corrections' = [corrections EXCEPT ![c].status = status], NoteApproved(c),
           attendance' = attendance
    PROVE  /\ AttendanceGrows /\ CorrectionsSound' /\ RecordsSound'
           /\ status = "APPROVED" => c \in approved'
<1>1. PICK old \in CorrectionDoc : old = corrections[c]
  BY CorrectionOf
<1>2. PICK new : new = [old EXCEPT !.status = status]
  OBVIOUS
<1>3. new \in CorrectionDoc /\ new.record = old.record /\ new.status = status
  BY <1>2 DEF CorrectionDoc
<1>4. corrections \in [Correction -> CorrectionDoc \cup {NULL}]
  BY DEF AttendanceInv, CorrectionsSound
<1>5. corrections' = [corrections EXCEPT ![c] = new]
  BY <1>1, <1>2, <1>4
<1>6. corrections'[c].status = status
  BY <1>3, <1>4, <1>5
<1>7. /\ approved \subseteq approved' /\ approved' \subseteq approved \cup {c}
      /\ status = "APPROVED" => c \in approved'
  BY <1>6 DEF NoteApproved
<1> QED BY <1>1, <1>3, <1>5, <1>7, CorrectionOf, CorrectionBecomes

LEMMA ApproveAppliedStep ==
    ASSUME AttendanceInv, NEW a \in Agent, ApproveApplied(a), attendanceOps' \in 0..MaxAttendanceOps
    PROVE  AttendanceInv'
<1>1. PICK call \in AttendanceCall :
        /\ call = attendanceCalls[a] /\ call.at = "apply.approve" /\ AttendanceCallSound(call)
  BY AttendanceCallOf DEF ApproveApplied, At
<1>2. PICK c \in Correction : c = call.correction /\ corrections[c] # NULL
  BY <1>1, AttendanceCallFields DEF AttendanceCallSound
<1>3. /\ corrections' = [corrections EXCEPT ![c].status = "APPROVED"] /\ NoteApproved(c)
      /\ attendance' = attendance /\ AttendanceMoves(a, NULL)
  BY <1>1, <1>2, AttendanceEnds DEF ApproveApplied
<1>4. AttendanceGrows /\ CorrectionsSound' /\ RecordsSound'
  BY <1>2, <1>3, StatusChanges DEF Decision
<1>5. AttendanceCallsSound'
  BY <1>3, <1>4, AttendanceCallsAfter
<1> QED BY <1>4, <1>5 DEF AttendanceInv

LEMMA ReviewCorrectionRequestStep ==
    ASSUME AttendanceInv, NEW a \in Agent, NEW c \in Correction, NEW decision \in Decision,
           NEW toPayroll \in BOOLEAN, ReviewCorrectionRequest(a, c, decision, toPayroll),
           attendanceOps' \in 0..MaxAttendanceOps
    PROVE  AttendanceInv'
<1>1. PICK call : call = [at |-> "review.save", correction |-> c, decision |-> decision,
                          toPayroll |-> toPayroll]
  OBVIOUS
<1>2. call \in AttendanceCall
  BY <1>1 DEF AttendanceCall
<1>3. AttendanceCallSound(call)
  BY <1>1 DEF AttendanceCallSound, ReviewCorrectionRequest
<1>4. attendanceCalls' = Begin(attendanceCalls, a, call)
      /\ UNCHANGED <<attendance, corrections, approved>>
  BY <1>1 DEF ReviewCorrectionRequest
<1> QED BY <1>2, <1>3, <1>4, AttendanceBegins

LEMMA ProcessApprovalDecisionStep ==
    ASSUME AttendanceInv, NEW a \in Agent, ProcessApprovalDecision(a),
           attendanceOps' \in 0..MaxAttendanceOps
    PROVE  AttendanceInv'
<1>1. PICK call \in AttendanceCall :
        /\ call = attendanceCalls[a] /\ call.at = "review.save" /\ AttendanceCallSound(call)
  BY AttendanceCallOf DEF ProcessApprovalDecision, At
<1>2. PICK c \in Correction, decision \in Decision :
        c = call.correction /\ corrections[c] # NULL /\ decision = call.decision
  BY <1>1, AttendanceCallFields DEF AttendanceCallSound
<1>3. /\ corrections' = [corrections EXCEPT ![c].status = decision] /\ NoteApproved(c)
      /\ attendance' = attendance
  BY <1>1, <1>2 DEF ProcessApprovalDecision
<1>4. /\ AttendanceGrows /\ CorrectionsSound' /\ RecordsSound'
      /\ decision = "APPROVED" => c \in approved'
  BY <1>2, <1>3, StatusChanges
<1>5. CASE Finalises(call)
  <2>1. PICK next : next = [at |-> "review.finalise", correction |-> c]
    OBVIOUS
  <2>2. next \in AttendanceCall
    BY <2>1 DEF AttendanceCall
  <2>3. AttendanceMoves(a, next)
    BY <1>1, <1>2, <1>5, <2>1 DEF ProcessApprovalDecision, Begin, AttendanceMoves
  <2>4. c \in approved' /\ corrections'[c] # NULL
    BY <1>2, <1>4, <1>5 DEF Finalises, AttendanceGrows
  <2>5. AttendanceCallSound(next)'
    BY <2>1, <2>4 DEF AttendanceCallSound
  <2>6. AttendanceCallsSound'
    BY <1>4, <2>2, <2>3, <2>5, AttendanceCallsAfter
  <2> QED BY <1>4, <2>6 DEF AttendanceInv
<1>6. CASE ~ Finalises(call)
  <2>1. AttendanceMoves(a, NULL)
    BY <1>1, <1>6, AttendanceEnds DEF ProcessApprovalDecision
  <2>2. AttendanceCallsSound'
    BY <1>4, <2>1, AttendanceCallsAfter
  <2> QED BY <1>4, <2>2 DEF AttendanceInv
<1> QED BY <1>5, <1>6

LEMMA FinaliseForPayrollStep ==
    ASSUME AttendanceInv, NEW a \in Agent, FinaliseForPayroll(a),
           attendanceOps' \in 0..MaxAttendanceOps
    PROVE  AttendanceInv'
<1>1. PICK call \in AttendanceCall :
        /\ call = attendanceCalls[a] /\ call.at = "review.finalise" /\ AttendanceCallSound(call)
  BY AttendanceCallOf DEF FinaliseForPayroll, At
<1>2. PICK c \in Correction :
        c = call.correction /\ corrections[c] # NULL /\ c \in approved
  BY <1>1, AttendanceCallFields DEF AttendanceCallSound
<1>3. PICK r \in AttendanceRecord : r = corrections[c].record /\ attendance[r] # NULL
  BY <1>2, CorrectionOf
<1>4. PICK old \in AttendanceDoc : old = attendance[r]
  BY <1>3 DEF AttendanceInv, RecordsSound
<1>5. PICK new : new = [old EXCEPT !.finalisedForPayroll = TRUE]
  OBVIOUS
<1>6. /\ new \in AttendanceDoc /\ new.punches = old.punches
      /\ new.totalWorkMinutes = old.totalWorkMinutes
  BY <1>5 DEF AttendanceDoc
<1>7. attendance' = [attendance EXCEPT ![r] = new]
  <2>1. attendance \in [AttendanceRecord -> AttendanceDoc \cup {NULL}]
    BY DEF AttendanceInv, RecordsSound
  <2>2. attendance' = [attendance EXCEPT ![r].finalisedForPayroll = TRUE]
    BY <1>1, <1>2, <1>3 DEF FinaliseForPayroll
  <2> QED BY <1>4, <1>5, <2>1, <2>2
<1>8. new.punches # <<>> => FitsSpan(new.punches, new.totalWorkMinutes)
  BY <1>3, <1>4, <1>6 DEF AttendanceInv, RecordsSound, WorkWithinSpan
<1>9. AttendanceMoves(a, NULL) /\ UNCHANGED <<corrections, approved>>
  BY AttendanceEnds DEF FinaliseForPayroll
<1> QED BY <1>2, <1>3, <1>6, <1>7, <1>8, <1>9, RecordBecomes

LEMMA AttendanceCallFailsStep ==
    ASSUME AttendanceInv, NEW a \in Agent, AttendanceCallFails(a),
           attendanceOps' \in 0..MaxAttendanceOps
    PROVE  AttendanceInv'
<1>1. AttendanceMoves(a, NULL) /\ UNCHANGED <<attendance, corrections, approved>>
  BY AttendanceEnds DEF AttendanceCallFails
<1> QED BY <1>1, AttendanceCallsOnly

LEMMA AttendanceStepStep ==
    ASSUME AttendanceInv, NEW a \in Agent, AttendanceStep(a), attendanceOps' \in 0..MaxAttendanceOps
    PROVE  AttendanceInv'
BY PunchCreateStep, PunchUpdateStep, ApplyCorrectionStep, ApproveAppliedStep,
   ProcessApprovalDecisionStep, FinaliseForPayrollStep, AttendanceCallFailsStep DEF AttendanceStep

LEMMA RequestAttendanceStep ==
    ASSUME AttendanceInv, RequestAttendance, attendanceOps' \in 0..MaxAttendanceOps
    PROVE  AttendanceInv'
BY SubmitCorrectionStep, FirstPunchStep, NextPunchStep, ApproveAndApplyCorrectionStep,
   ReviewCorrectionRequestStep DEF RequestAttendance

LEMMA AttendanceSteps == ASSUME AttendanceInv, [AttendanceNext]_attendanceVars PROVE AttendanceInv'
<1>1. CASE UNCHANGED attendanceVars
  <2>1. /\ UNCHANGED <<attendance, corrections, approved>>
        /\ attendanceCalls' = attendanceCalls /\ attendanceOps' = attendanceOps
    BY <1>1 DEF attendanceVars
  <2>2. AttendanceGrows /\ CorrectionsSound' /\ RecordsSound'
    BY <2>1, AttendanceDocsStay
  <2> QED BY <2>1, <2>2, AttendanceCallsStay DEF AttendanceInv
<1>2. CASE attendanceOps < MaxAttendanceOps /\ attendanceOps' = attendanceOps + 1 /\ RequestAttendance
  <2>1. attendanceOps' \in 0..MaxAttendanceOps
    BY <1>2, AttendanceAssumption DEF AttendanceInv
  <2> QED BY <1>2, <2>1, RequestAttendanceStep
<1>3. CASE attendanceOps' = attendanceOps /\ \E a \in Agent : AttendanceStep(a)
  <2>1. attendanceOps' \in 0..MaxAttendanceOps
    BY <1>3 DEF AttendanceInv
  <2> QED BY <1>3, <2>1, AttendanceStepStep
<1> QED BY <1>1, <1>2, <1>3 DEF AttendanceNext

THEOREM AttendanceInvariant == AttendanceSpec => []AttendanceInv
BY AttendanceInitially, AttendanceSteps, PTL DEF AttendanceSpec

\* Every record, request, call in flight and history has its type.
THEOREM AttendanceTypeCorrect == AttendanceSpec => []AttendanceTypeOK
<1>1. AttendanceInv => AttendanceTypeOK
  BY DEF AttendanceInv, CorrectionsSound, RecordsSound, AttendanceCallsSound, AttendanceTypeOK
<1> QED BY <1>1, AttendanceInvariant, PTL

\* No record counts more than its span, but for what rounding adds.
THEOREM WorkStaysWithinSpan == AttendanceSpec => []WorkWithinSpan
<1>1. AttendanceInv => WorkWithinSpan
  BY DEF AttendanceInv, RecordsSound
<1> QED BY <1>1, AttendanceInvariant, PTL

\* Only a record with an approved correction becomes final for payroll.
THEOREM FinalisingNeedsApproval == AttendanceSpec => []FinalisedWasApproved
<1>1. AttendanceInv => FinalisedWasApproved
  BY DEF AttendanceInv, RecordsSound
<1> QED BY <1>1, AttendanceInvariant, PTL

=============================================================================
