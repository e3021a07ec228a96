------------------------------- MODULE Offers -------------------------------
(***************************************************************************)
(* The job-offer half of RecruitmentService: createOffer, addOfferApprover,*)
(* approveOffer, sendOffer and candidateRespondOffer.                      *)
(*                                                                         *)
(* The collections of the database are functions from ids to documents     *)
(* (NULL: no such document).  Node runs one callback at a time, but every  *)
(* await of a handler lets another request run, there is no transaction,   *)
(* and any awaited call may throw, or the process stop, and so drop the    *)
(* rest of the handler.  A handler in flight is therefore a record: "at"   *)
(* names the database call it performs next and "seen" is the document it  *)
(* read earlier and still works on.  A handler's reads are joined to the   *)
(* step that starts it, and every later write is a step of its own.        *)
(***************************************************************************)
EXTENDS Naturals

CONSTANTS
    Offer,        \* ids of offer documents
    Candidate,    \* ids of candidates
    Contract,     \* ids of contract documents, a bound on how many are created
    Approver,     \* employees that may be asked to approve an offer
    Handler,      \* offer requests the server has in flight at a time
    CandidateOf,  \* the candidate createOffer is given for an offer
    MaxFailures,  \* bound on the requests that are cut short
    NULL

Votes == {"none", "pending", "approved", "rejected"}

OfferDoc == [finalStatus       : {"pending", "approved", "rejected", "sent"},
             applicantResponse : {"pending", "accepted", "rejected"},
             approvers         : [Approver -> Votes]]

CandidateStatus == {"APPLIED", "OFFER_SENT", "OFFER_ACCEPTED", "HIRED", "REJECTED"}

OfferCall ==
    [at       : {"addApprover.approvers", "addApprover.pending", "approve.save",
                 "send.status", "send.candidate",
                 "respond.candidate", "respond.contract", "respond.save"},
     offer    : Offer,
     approver : Approver \cup {NULL},
     answer   : {"approved", "rejected", "accepted", NULL},
     seen     : OfferDoc \cup {NULL}]

ASSUME OffersAssumption ==
    /\ CandidateOf \in [Offer -> Candidate]
    /\ MaxFailures \in Nat
    /\ NULL \notin OfferDoc \cup OfferCall \cup Approver \cup Offer \cup Candidate

VARIABLES
    offers,       \* the offers collection
    candidates,   \* the status of each candidate document
    contracts,    \* the contracts collection: the offer each contract is for
    offerCalls,   \* the offer handlers in flight
    failures      \* the requests cut short so far

offerVars == <<offers, candidates, contracts, offerCalls, failures>>

-----------------------------------------------------------------------------
(* What the handlers compute on the document they read.                    *)

WithApprover(doc, a) == [doc EXCEPT !.approvers[a] = "pending"]

WithVote(doc, a, vote) == [doc EXCEPT !.approvers[a] = vote]

AllApproved(doc) == \A a \in Approver : doc.approvers[a] \in {"none", "approved"}

AnyRejected(doc) == \E a \in Approver : doc.approvers[a] = "rejected"

\* Mutant: one approval is enough.
StatusAfterVoteOfAny(doc) ==
    IF AnyRejected(doc) THEN "rejected"
    ELSE IF \E a \in Approver : doc.approvers[a] = "approved" THEN "approved"
    ELSE doc.finalStatus

\* A rejection decides the offer, unanimity decides it, otherwise the
\* status stays what it was when the handler read it.
StatusAfterVote(doc) ==
    IF AnyRejected(doc) THEN "rejected"
    ELSE IF AllApproved(doc) THEN "approved"
    ELSE doc.finalStatus

-----------------------------------------------------------------------------
(* Requests.                                                               *)

Idle(h) == offerCalls[h] = NULL

At(h, where) == offerCalls[h] # NULL /\ offerCalls[h].at = where

Begin(h, call) == offerCalls' = [offerCalls EXCEPT ![h] = call]

Goto(h, where) == offerCalls' = [offerCalls EXCEPT ![h].at = where]

Finish(h) == offerCalls' = [offerCalls EXCEPT ![h] = NULL]

SetStatus(p, status) == candidates' = [candidates EXCEPT ![p] = status]

NewOffer ==
    [finalStatus |-> "pending", applicantResponse |-> "pending",
     approvers |-> [a \in Approver |-> "none"]]

CreateOffer(o) ==
    /\ offers[o] = NULL
    /\ offers' = [offers EXCEPT ![o] = NewOffer]
    /\ UNCHANGED <<candidates, contracts, offerCalls, failures>>

AddOfferApprover(h, o, a) ==
    /\ Idle(h)
    /\ offers[o] # NULL
    /\ offers[o].approvers[a] = "none"
    /\ Begin(h, [at |-> "addApprover.approvers", offer |-> o, approver |-> a,
                 answer |-> NULL, seen |-> offers[o]])
    /\ UNCHANGED <<offers, candidates, contracts, failures>>

\* updateById writes the whole approvers array of the document that was read.
AddApproverSaveApprovers(h) ==
    /\ At(h, "addApprover.approvers")
    /\ LET call == offerCalls[h]
           doc  == WithApprover(call.seen, call.approver)
       IN  /\ offers' = [offers EXCEPT ![call.offer].approvers = doc.approvers]
           /\ offerCalls' = [offerCalls EXCEPT ![h].at = "addApprover.pending",
                                               ![h].seen = NULL]
    /\ UNCHANGED <<candidates, contracts, failures>>

AddApproverSavePending(h) ==
    /\ At(h, "addApprover.pending")
    /\ offers' = [offers EXCEPT ![offerCalls[h].offer].finalStatus = "pending"]
    /\ Finish(h)
    /\ UNCHANGED <<candidates, contracts, failures>>

\* Mutant: an approver may decide again.
ApproveOfferAgain(h, o, a, vote) ==
    /\ Idle(h)
    /\ offers[o] # NULL
    /\ offers[o].approvers[a] # "none"
    /\ Begin(h, [at |-> "approve.save", offer |-> o, approver |-> a,
                 answer |-> vote, seen |-> offers[o]])
    /\ UNCHANGED <<offers, candidates, contracts, failures>>

ApproveOffer(h, o, a, vote) ==
    /\ Idle(h)
    /\ offers[o] # NULL
    /\ offers[o].approvers[a] = "pending"
    /\ Begin(h, [at |-> "approve.save", offer |-> o, approver |-> a,
                 answer |-> vote, seen |-> offers[o]])
    /\ UNCHANGED <<offers, candidates, contracts, failures>>

\* One updateById writes the approvers and the status worked out from them.
ApproveSave(h) ==
    /\ At(h, "approve.save")
    /\ LET call == offerCalls[h]
           doc  == WithVote(call.seen, call.approver, call.answer)
       IN  offers' = [offers EXCEPT ![call.offer].approvers = doc.approvers,
                                    ![call.offer].finalStatus = StatusAfterVote(doc)]
    /\ Finish(h)
    /\ UNCHANGED <<candidates, contracts, failures>>

SendOffer(h, o) ==
    /\ Idle(h)
    /\ offers[o] # NULL
    /\ AllApproved(offers[o])
    /\ Begin(h, [at |-> "send.status", offer |-> o, approver |-> NULL,
                 answer |-> NULL, seen |-> NULL])
    /\ UNCHANGED <<offers, candidates, contracts, failures>>

SendSaveStatus(h) ==
    /\ At(h, "send.status")
    /\ offers' = [offers EXCEPT ![offerCalls[h].offer].finalStatus = "sent"]
    /\ Goto(h, "send.candidate")
    /\ UNCHANGED <<candidates, contracts, failures>>

SendSaveCandidate(h) ==
    /\ At(h, "send.candidate")
    /\ SetStatus(CandidateOf[offerCalls[h].offer], "OFFER_SENT")
    /\ Finish(h)
    /\ UNCHANGED <<offers, contracts, failures>>

\* The handler asks only whose offer it is: not whether the offer was sent,
\* nor whether it was answered before.
CandidateRespondOffer(h, o, answer) ==
    /\ Idle(h)
    /\ offers[o] # NULL
    /\ Begin(h, [at |-> "respond.candidate", offer |-> o, approver |-> NULL,
                 answer |-> answer, seen |-> offers[o]])
    /\ UNCHANGED <<offers, candidates, contracts, failures>>

\* Mutant: the answer is saved without a contract.
RespondSaveCandidateOnly(h) ==
    /\ At(h, "respond.candidate")
    /\ LET call == offerCalls[h]
       IN  SetStatus(CandidateOf[call.offer],
                     IF call.answer = "accepted" THEN "OFFER_ACCEPTED" ELSE "REJECTED")
    /\ Goto(h, "respond.save")
    /\ UNCHANGED <<offers, contracts, failures>>

RespondSaveCandidate(h) ==
    /\ At(h, "respond.candidate")
    /\ LET call == offerCalls[h]
       IN  IF call.answer = "accepted"
           THEN /\ SetStatus(CandidateOf[call.offer], "OFFER_ACCEPTED")
                /\ Goto(h, "respond.contract")
           ELSE /\ SetStatus(CandidateOf[call.offer], "REJECTED")
                /\ Goto(h, "respond.save")
    /\ UNCHANGED <<offers, contracts, failures>>

RespondCreateContract(h, c) ==
    /\ At(h, "respond.contract")
    /\ contracts[c] = NULL
    /\ contracts' = [contracts EXCEPT ![c] = offerCalls[h].offer]
    /\ Goto(h, "respond.save")
    /\ UNCHANGED <<offers, candidates, failures>>

\* save() sends only the fields whose value differs from the one that was read.
Saved(read, new, stored) == IF new = read THEN stored ELSE new

DecisionOf(answer) == IF answer = "accepted" THEN "approved" ELSE "rejected"

RespondSave(h) ==
    /\ At(h, "respond.save")
    /\ LET call == offerCalls[h]
           seen == call.seen
       IN  offers' = [offers EXCEPT
             ![call.offer].applicantResponse = Saved(seen.applicantResponse, call.answer, @),
             ![call.offer].finalStatus = Saved(seen.finalStatus, DecisionOf(call.answer), @)]
    /\ Finish(h)
    /\ UNCHANGED <<candidates, contracts, failures>>

\* An awaited call throws or the process stops: what was written stays.
OfferCallFails(h) ==
    /\ offerCalls[h] # NULL
    /\ failures < MaxFailures
    /\ failures' = failures + 1
    /\ Finish(h)
    /\ UNCHANGED <<offers, candidates, contracts>>

-----------------------------------------------------------------------------

OffersInit ==
    /\ offers = [o \in Offer |-> NULL]
    /\ candidates = [p \in Candidate |-> "APPLIED"]
    /\ contracts = [c \in Contract |-> NULL]
    /\ offerCalls = [h \in Handler |-> NULL]
    /\ failures = 0

OfferRequest(h) ==
    \/ \E o \in Offer, a \in Approver : AddOfferApprover(h, o, a)
    \/ \E o \in Offer, a \in Approver, vote \in {"approved", "rejected"} :
         ApproveOffer(h, o, a, vote)
    \/ \E o \in Offer : SendOffer(h, o)
    \/ \E o \in Offer, answer \in {"accepted", "rejected"} :
         CandidateRespondOffer(h, o, answer)

OfferStep(h) ==
    \/ AddApproverSaveApprovers(h)
    \/ AddApproverSavePending(h)
    \/ ApproveSave(h)
    \/ SendSaveStatus(h)
    \/ SendSaveCandidate(h)
    \/ RespondSaveCandidate(h)
    \/ \E c \in Contract : RespondCreateContract(h, c)
    \/ RespondSave(h)

OffersNext ==
    \/ \E o \in Offer : CreateOffer(o)
    \/ \E h \in Handler : OfferRequest(h) \/ OfferStep(h) \/ OfferCallFails(h)

OffersSpec == OffersInit /\ [][OffersNext]_offerVars

-----------------------------------------------------------------------------
(* Properties.                                                             *)

\* Every document, status and call in flight has its type.
OffersTypeOK ==
    /\ offers \in [Offer -> OfferDoc \cup {NULL}]
    /\ candidates \in [Candidate -> CandidateStatus]
    /\ contracts \in [Contract -> Offer \cup {NULL}]
    /\ offerCalls \in [Handler -> OfferCall \cup {NULL}]
    /\ failures \in 0 .. MaxFailures

\* No handler works on a version of the offer that was overwritten since.
ReadsAreFresh(o) ==
    \A h \in Handler :
      (offerCalls[h] # NULL /\ offerCalls[h].offer = o /\ offerCalls[h].seen # NULL)
        => offerCalls[h].seen = offers[o]

\* An offer the candidate accepted has a contract to sign, whatever overlaps
\* and wherever candidateRespondOffer is cut short: the contract is created
\* before the answer is saved.
AcceptedOfferHasContract ==
    \A o \in Offer :
      (offers[o] # NULL /\ offers[o].applicantResponse = "accepted")
        => \E c \in Contract : contracts[c] = o

\* An approver's decision is never undone or dropped, as approveOffer's "You
\* have already ... this offer" promises, unless a handler writes back an
\* approvers array that changed after it was read.
DecisionsAreFinal ==
    [][\A o \in Offer, a \in Approver :
         (/\ offers[o] # NULL
          /\ ReadsAreFresh(o)
          /\ offers[o].approvers[a] \in {"approved", "rejected"})
           => offers'[o].approvers[a] = offers[o].approvers[a]]_offerVars

\* An offer turns "approved" only when every approver approved it or when the
\* candidate accepts it, unless a handler works on a stale read.
ApprovalIsUnanimous ==
    [][\A o \in Offer :
         (/\ offers[o] # NULL
          /\ ReadsAreFresh(o)
          /\ offers[o].finalStatus # "approved"
          /\ offers'[o].finalStatus = "approved")
           => \/ AllApproved(offers'[o])
              \/ offers'[o].applicantResponse = "accepted"]_offerVars

\* sendOffer: "Cannot send offer until all approvers have approved".
SentOffersAreApproved ==
    [][\A o \in Offer :
         (/\ offers[o] # NULL
          /\ offers[o].finalStatus # "sent"
          /\ offers'[o].finalStatus = "sent")
           => AllApproved(offers[o])]_offerVars
=============================================================================
