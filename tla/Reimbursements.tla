--------------------------- MODULE Reimbursements ----------------------------
(***************************************************************************)
(* Payslip disputes and expense claims: an employee files one, a payroll   *)
(* specialist approves or rejects it, a payroll manager confirms it, and   *)
(* finance staff generate the refund.                                      *)
(*                                                                         *)
(* A handler is a record in calls, as in Offers: between reading a         *)
(* document and saving it, it awaits role lookups and notifications, and   *)
(* any other handler may run.  save() writes the fields the handler        *)
(* changed and no others.                                                  *)
(*                                                                         *)
(* granted is history: no handler reads it.                                *)
(***************************************************************************)
EXTENDS Naturals, Sequences

CONSTANTS
    Dispute,     \* identifiers of disputes
    Claim,       \* identifiers of expense claims
    Payslip,     \* the payslips that may be disputed
    Agent,       \* requests the server has in flight at a time
    MaxAmount,   \* bound on amounts of money
    NULL

VARIABLES
    docs,       \* disputes and claims: [status, approved, comment] or NULL
    payslipOf,  \* the payslip a dispute is about
    claimed,    \* the amount an expense claim asks for
    refunds,    \* the pending refunds of each item, by the request that made them
    calls,      \* the handlers in flight
    granted     \* history: the amounts an item was approved with

vars == <<docs, payslipOf, claimed, refunds, calls, granted>>

filedVars == <<payslipOf, claimed>>

Item == Dispute \cup Claim

Amount == 0..MaxAmount

Status == {"under review", "pending payroll Manager approval", "approved", "rejected"}

\* What resolutionComment is searched for.
Mark == {"Payroll Specialist", "Manager confirmed"}

Doc == [status : Status, approved : Amount \cup {NULL}, comment : SUBSET Mark]

Call ==
    [at : {"dispute.save"}, item : Dispute, payslip : Payslip]
      \cup
    [at : {"approve.save", "refund.save"}, item : Item, amount : Amount]
      \cup
    [at : {"reject.save"}, item : Item]
      \cup
    [at : {"confirm.save", "refund.look"}, item : Item, amount : Amount \cup {NULL}]

ASSUME ReimbursementsAssumption ==
    /\ MaxAmount \in Nat
    /\ Dispute \cap Claim = {}
    /\ NULL \notin Doc \cup Call \cup Amount \cup Payslip

Idle(a) == calls[a] = NULL

At(a, where) == calls[a] # NULL /\ calls[a].at = where

Begin(a, call) == calls' = [calls EXCEPT ![a] = call]

Finish(a) == calls' = [calls EXCEPT ![a] = NULL]

Filed(i) == docs[i] # NULL

HasStatus(i, status) == Filed(i) /\ docs[i].status = status

\* JavaScript's !amount.
Missing(amount) == amount \in {NULL, 0}

\* A claim is never approved for more than it asks for; a dispute asks for no amount.
Affordable(i, amount) == i \in Claim => amount <= claimed[i]

NewDoc == [status |-> "under review", approved |-> NULL, comment |-> {}]

-----------------------------------------------------------------------------
(* createDispute and createClaim.                                          *)

ActiveStatus == {"under review", "pending payroll Manager approval", "approved"}

\* An identifier that is taken is refused, by the query or by the unique index.
CreateDispute(a, d, p) ==
    /\ Idle(a)
    /\ ~ Filed(d)
    /\ \A x \in Dispute : Filed(x) /\ payslipOf[x] = p => docs[x].status \notin ActiveStatus
    /\ Begin(a, [at |-> "dispute.save", item |-> d, payslip |-> p])
    /\ UNCHANGED <<docs, filedVars, refunds, granted>>

SaveDispute(a) ==
    /\ At(a, "dispute.save")
    /\ LET d == calls[a].item
       IN  \/ /\ ~ Filed(d)
              /\ docs' = [docs EXCEPT ![d] = NewDoc]
              /\ payslipOf' = [payslipOf EXCEPT ![d] = calls[a].payslip]
           \/ /\ Filed(d)
              /\ UNCHANGED <<docs, payslipOf>>
    /\ Finish(a)
    /\ UNCHANGED <<claimed, refunds, granted>>

\* The unique index makes the query and the insertion one step.
CreateClaim(c, amount) ==
    /\ ~ Filed(c)
    /\ docs' = [docs EXCEPT ![c] = NewDoc]
    /\ claimed' = [claimed EXCEPT ![c] = amount]
    /\ UNCHANGED <<payslipOf, refunds, calls, granted>>

-----------------------------------------------------------------------------
(* approveRejectDispute and approveRejectClaim.                            *)

Approve(a, i, amount) ==
    /\ Idle(a)
    /\ HasStatus(i, "under review")
    /\ Affordable(i, amount)
    /\ Begin(a, [at |-> "approve.save", item |-> i, amount |-> amount])
    /\ UNCHANGED <<docs, filedVars, refunds, granted>>

\* Mutant: the specialist's comment is added to what the comment says.
AppendApproval(a) ==
    /\ At(a, "approve.save")
    /\ docs' = [docs EXCEPT ![calls[a].item] =
                  [status   |-> "pending payroll Manager approval",
                   approved |-> calls[a].amount,
                   comment  |-> @.comment \cup {"Payroll Specialist"}]]
    /\ Finish(a)
    /\ UNCHANGED <<filedVars, refunds, granted>>

\* The document was under review when it was read, so every field has changed.
SaveApproval(a) ==
    /\ At(a, "approve.save")
    /\ docs' = [docs EXCEPT ![calls[a].item] =
                  [status   |-> "pending payroll Manager approval",
                   approved |-> calls[a].amount,
                   comment  |-> {"Payroll Specialist"}]]
    /\ Finish(a)
    /\ UNCHANGED <<filedVars, refunds, granted>>

\* A reason was given; without one nothing is saved.
Reject(a, i) ==
    /\ Idle(a)
    /\ HasStatus(i, "under review")
    /\ Begin(a, [at |-> "reject.save", item |-> i])
    /\ UNCHANGED <<docs, filedVars, refunds, granted>>

SaveRejection(a) ==
    /\ At(a, "reject.save")
    /\ docs' = [docs EXCEPT ![calls[a].item].status = "rejected"]
    /\ Finish(a)
    /\ UNCHANGED <<filedVars, refunds, granted>>

-----------------------------------------------------------------------------
(* confirmDisputeApproval and confirmClaimApproval.                        *)

AwaitsManager(i) ==
    /\ HasStatus(i, "pending payroll Manager approval")
    /\ docs[i].comment = {"Payroll Specialist"}

\* Mutant: the manager's amount is not compared with the claimed amount.
ConfirmUnbounded(a, i, amount) ==
    /\ Idle(a)
    /\ AwaitsManager(i)
    /\ amount = NULL => ~ Missing(docs[i].approved)
    /\ Begin(a, [at     |-> "confirm.save", item |-> i,
                 amount |-> IF amount = docs[i].approved THEN NULL ELSE amount])
    /\ UNCHANGED <<docs, filedVars, refunds, granted>>

\* The manager names an amount, or leaves the specialist's (NULL).  An amount
\* equal to the one that was read is no change and is not saved.
Confirm(a, i, amount) ==
    /\ Idle(a)
    /\ AwaitsManager(i)
    /\ \/ amount = NULL /\ ~ Missing(docs[i].approved)
       \/ amount # NULL /\ Affordable(i, amount)
    /\ Begin(a, [at     |-> "confirm.save", item |-> i,
                 amount |-> IF amount = docs[i].approved THEN NULL ELSE amount])
    /\ UNCHANGED <<docs, filedVars, refunds, granted>>

SaveConfirmation(a) ==
    /\ At(a, "confirm.save")
    /\ LET i     == calls[a].item
           final == IF calls[a].amount = NULL THEN docs[i].approved ELSE calls[a].amount
       IN  /\ docs' = [docs EXCEPT ![i] = [status   |-> "approved",
                                           approved |-> final,
                                           comment  |-> Mark]]
           /\ granted' = [granted EXCEPT ![i] = @ \cup {final}]
    /\ Finish(a)
    /\ UNCHANGED <<filedVars, refunds>>

-----------------------------------------------------------------------------
(* generateRefundForDispute and generateRefundForClaim.                    *)

\* Mutant: what the manager has not confirmed is refunded as well.
RefundUnconfirmed(a, i) ==
    /\ Idle(a)
    /\ HasStatus(i, "approved") \/ HasStatus(i, "pending payroll Manager approval")
    /\ Begin(a, [at |-> "refund.look", item |-> i, amount |-> docs[i].approved])
    /\ UNCHANGED <<docs, filedVars, refunds, granted>>

GenerateRefund(a, i) ==
    /\ Idle(a)
    /\ HasStatus(i, "approved")
    /\ Begin(a, [at |-> "refund.look", item |-> i, amount |-> docs[i].approved])
    /\ UNCHANGED <<docs, filedVars, refunds, granted>>

HasRefund(i) == \E b \in Agent : refunds[i][b] # <<>>

\* A claim with no approved amount, or none but 0, is refunded what it asks for.
RefundAmount(i, approved) ==
    IF i \in Claim /\ Missing(approved) THEN claimed[i] ELSE approved

\* Mutant: nobody looks for a refund that is pending.
LookAway(a) ==
    /\ At(a, "refund.look")
    /\ LET i      == calls[a].item
           amount == RefundAmount(i, calls[a].amount)
       IN  IF Missing(amount)
           THEN Finish(a)
           ELSE Begin(a, [at |-> "refund.save", item |-> i, amount |-> amount])
    /\ UNCHANGED <<docs, filedVars, refunds, granted>>

LookForRefund(a) ==
    /\ At(a, "refund.look")
    /\ LET i      == calls[a].item
           amount == RefundAmount(i, calls[a].amount)
       IN  IF HasRefund(i) \/ Missing(amount)
           THEN Finish(a)
           ELSE Begin(a, [at |-> "refund.save", item |-> i, amount |-> amount])
    /\ UNCHANGED <<docs, filedVars, refunds, granted>>

\* Nothing ever marks a refund as paid: it stays pending.
SaveRefund(a) ==
    /\ At(a, "refund.save")
    /\ refunds' = [refunds EXCEPT ![calls[a].item][a] = Append(@, calls[a].amount)]
    /\ Finish(a)
    /\ UNCHANGED <<docs, filedVars, granted>>

-----------------------------------------------------------------------------

\* A notification or a query throws, or the process stops.
CallFails(a) ==
    /\ ~ Idle(a)
    /\ Finish(a)
    /\ UNCHANGED <<docs, filedVars, refunds, granted>>

Init ==
    /\ docs = [i \in Item |-> NULL]
    /\ payslipOf = [d \in Dispute |-> NULL]
    /\ claimed = [c \in Claim |-> NULL]
    /\ refunds = [i \in Item |-> [a \in Agent |-> <<>>]]
    /\ calls = [a \in Agent |-> NULL]
    /\ granted = [i \in Item |-> {}]

Review(a, i) ==
    \/ \E amount \in Amount : Approve(a, i, amount)
    \/ Reject(a, i)
    \/ \E amount \in Amount \cup {NULL} : Confirm(a, i, amount)
    \/ GenerateRefund(a, i)

Step(a) ==
    \/ SaveDispute(a)
    \/ SaveApproval(a)
    \/ SaveRejection(a)
    \/ SaveConfirmation(a)
    \/ LookForRefund(a)
    \/ SaveRefund(a)
    \/ CallFails(a)

Next ==
    \/ \E c \in Claim, amount \in Amount : CreateClaim(c, amount)
    \/ \E a \in Agent :
         \/ \E d \in Dispute, p \in Payslip : CreateDispute(a, d, p)
         \/ \E i \in Item : Review(a, i)
         \/ Step(a)

Spec == Init /\ [][Next]_vars

-----------------------------------------------------------------------------
(* Properties.                                                             *)

\* Every document, refund, call in flight and history has its type.
TypeOK ==
    /\ docs \in [Item -> Doc \cup {NULL}]
    /\ payslipOf \in [Dispute -> Payslip \cup {NULL}]
    /\ claimed \in [Claim -> Amount \cup {NULL}]
    /\ refunds \in [Item -> [Agent -> Seq(Amount)]]
    /\ calls \in [Agent -> Call \cup {NULL}]
    /\ granted \in [Item -> SUBSET Amount]

\* The resolution comment carries the signatures the status calls for.  An
\* approved item carries the specialist's and the manager's; one that awaits the
\* manager carries the specialist's alone, so that the manager can confirm it
\* ("Dispute has already been confirmed by the manager" does not stand in the
\* way).  An approval that is saved late, over a confirmation, takes the
\* manager's signature back with the status.
SignedAsStatusSays ==
    \A i \in Item : Filed(i) =>
      /\ docs[i].status = "pending payroll Manager approval" =>
           docs[i].comment = {"Payroll Specialist"}
      /\ docs[i].status = "approved" => docs[i].comment = Mark /\ docs[i].approved # NULL

\* An amount the item was approved with or, for a claim that was approved with
\* nothing, the amount it asked for.
Authorised(i, amount) ==
    \/ amount \in granted[i]
    \/ i \in Claim /\ 0 \in granted[i] /\ amount = claimed[i]

\* "Finance Staff can only refund the exact approved refund amount": no refund
\* without both signatures, and none of an amount the item was not approved
\* with, however approvals, confirmations and rejections overtake each other
\* between the reading of the item and the writing of the refund.
RefundsAreAuthorised ==
    \A i \in Item, a \in Agent : \A n \in DOMAIN refunds[i][a] :
      Authorised(i, refunds[i][a][n])

\* "Approved amount cannot exceed the claimed amount", for what is approved and
\* for what is refunded; and no refund is of nothing.
WithinClaim ==
    /\ \A c \in Claim : Filed(c) /\ docs[c].approved # NULL => docs[c].approved <= claimed[c]
    /\ \A i \in Item, a \in Agent : \A n \in DOMAIN refunds[i][a] :
         /\ refunds[i][a][n] > 0
         /\ Affordable(i, refunds[i][a][n])

\* Requests that are handled one after the other never refund an item twice:
\* "A pending refund already exists".  (Requests that overlap may.)
OneRefundEach == \A i \in Item, a \in Agent : Len(refunds[i][a]) <= 1

\* What the comment in generateRefundForClaim says: "Finance Staff can only
\* refund the exact approved amount".  The code falls back on the claimed
\* amount when the approved amount is 0.
ClaimRefundsAreApproved ==
    \A c \in Claim, a \in Agent : \A n \in DOMAIN refunds[c][a] :
      refunds[c][a][n] \in granted[c]
=============================================================================
