---------------------------- MODULE HiringProofs ----------------------------
(***************************************************************************)
(* Offers: type correctness, AcceptedOfferHasContract, DecisionsAreFinal   *)
(* and ApprovalIsUnanimous, for any number of offers, approvers and        *)
(* overlapping requests.  Neither invariant is inductive alone.  A handler *)
(* in flight writes back what it read, so the types need the shape of a    *)
(* call at each of its steps; and the answer saved last needs the contract *)
(* created before it.                                                      *)
(*                                                                         *)
(* Hiring: the safety of the hiring pipeline for any number of candidates, *)
(* contracts, files and overlapping requests, and that it implements       *)
(* HiringPromise.                                                          *)
(*                                                                         *)
(* The argument.  hrSignContract reads nothing that keeps a second request *)
(* for the same candidate out: what does is the unique employee number.    *)
(* Of the requests for a candidate only one inserts the profile, and only  *)
(* that one goes on; from then on it holds the candidate (Holds), so that  *)
(* at each later step what it will write is known not to be there yet      *)
(* (HolderState).  Files are safe in the same way: the request that        *)
(* created a file is the only one to store its name (FilesInFlight).       *)
(***************************************************************************)
EXTENDS Hiring, TLAPS

(***************************************************************************)
(* Offers.                                                                 *)
(***************************************************************************)

\* What a call carries at each step, and that its offer exists.
OfferCallShape ==
    \A h \in Handler : offerCalls[h] # NULL =>
      LET call == offerCalls[h]
      IN  /\ offers[call.offer] # NULL
          /\ call.at \in {"addApprover.approvers", "approve.save"} =>
               call.approver \in Approver /\ call.seen \in OfferDoc
          /\ call.at = "addApprover.approvers" => call.seen.approvers[call.approver] = "none"
          /\ call.at = "approve.save" =>
               /\ call.answer \in {"approved", "rejected"}
               /\ call.seen.approvers[call.approver] = "pending"
          /\ call.at \in {"respond.candidate", "respond.contract", "respond.save"} =>
               call.seen \in OfferDoc /\ call.answer \in {"accepted", "rejected"}

\* By the time an acceptance is saved its contract exists.
AcceptanceHasContract ==
    \A h \in Handler :
      (At(h, "respond.save") /\ offerCalls[h].answer = "accepted")
        => \E c \in Contract : contracts[c] = offerCalls[h].offer

OffersInv ==
    /\ OffersTypeOK
    /\ OfferCallShape
    /\ AcceptedOfferHasContract
    /\ AcceptanceHasContract

-----------------------------------------------------------------------------

THEOREM OffersInitially == OffersInit => OffersInv
BY OffersAssumption
   DEF OffersInit, OffersInv, OffersTypeOK, OfferCallShape, AcceptedOfferHasContract,
       AcceptanceHasContract, At, CandidateStatus

LEMMA OffersStep == OffersInv /\ OffersNext => OffersInv'
<1> SUFFICES ASSUME OffersInv, OffersNext PROVE OffersInv'
  OBVIOUS
<1> USE OffersAssumption DEF OffersInv
<1>1. ASSUME NEW o \in Offer, CreateOffer(o) PROVE OffersInv'
  <2>1. NewOffer \in OfferDoc
    BY DEF NewOffer, OfferDoc, Votes
  <2>2. OffersTypeOK'
    BY <1>1, <2>1 DEF CreateOffer, OffersTypeOK
  <2>3. OfferCallShape'
    BY <1>1, <2>1 DEF CreateOffer, OffersTypeOK, OfferCallShape
  <2>4. AcceptedOfferHasContract'
    BY <1>1 DEF CreateOffer, NewOffer, OffersTypeOK, AcceptedOfferHasContract
  <2>5. AcceptanceHasContract'
    BY <1>1 DEF CreateOffer, AcceptanceHasContract, At
  <2> QED BY <2>2, <2>3, <2>4, <2>5
<1>2. ASSUME NEW h \in Handler, NEW o \in Offer, NEW a \in Approver, AddOfferApprover(h, o, a)
      PROVE  OffersInv'
  <2>1. OffersTypeOK'
    BY <1>2 DEF AddOfferApprover, Begin, OffersTypeOK, OfferCall
  <2>2. OfferCallShape'
    BY <1>2 DEF AddOfferApprover, Begin, OffersTypeOK, OfferCallShape
  <2>3. AcceptedOfferHasContract'
    BY <1>2 DEF AddOfferApprover, AcceptedOfferHasContract
  <2>4. AcceptanceHasContract'
    BY <1>2 DEF AddOfferApprover, Begin, AcceptanceHasContract, At, OffersTypeOK
  <2> QED BY <2>1, <2>2, <2>3, <2>4
<1>3. ASSUME NEW h \in Handler, NEW o \in Offer, NEW a \in Approver,
             NEW vote \in {"approved", "rejected"}, ApproveOffer(h, o, a, vote)
      PROVE  OffersInv'
  <2>1. OffersTypeOK'
    BY <1>3 DEF ApproveOffer, Begin, OffersTypeOK, OfferCall
  <2>2. OfferCallShape'
    BY <1>3 DEF ApproveOffer, Begin, OffersTypeOK, OfferCallShape
  <2>3. AcceptedOfferHasContract'
    BY <1>3 DEF ApproveOffer, AcceptedOfferHasContract
  <2>4. AcceptanceHasContract'
    BY <1>3 DEF ApproveOffer, Begin, AcceptanceHasContract, At, OffersTypeOK
  <2> QED BY <2>1, <2>2, <2>3, <2>4
<1>4. ASSUME NEW h \in Handler, NEW o \in Offer, SendOffer(h, o) PROVE OffersInv'
  <2>1. OffersTypeOK'
    BY <1>4 DEF SendOffer, Begin, OffersTypeOK, OfferCall
  <2>2. OfferCallShape'
    BY <1>4 DEF SendOffer, Begin, OffersTypeOK, OfferCallShape
  <2>3. AcceptedOfferHasContract'
    BY <1>4 DEF SendOffer, AcceptedOfferHasContract
  <2>4. AcceptanceHasContract'
    BY <1>4 DEF SendOffer, Begin, AcceptanceHasContract, At, OffersTypeOK
  <2> QED BY <2>1, <2>2, <2>3, <2>4
<1>5. ASSUME NEW h \in Handler, NEW o \in Offer, NEW answer \in {"accepted", "rejected"},
             CandidateRespondOffer(h, o, answer)
      PROVE  OffersInv'
  <2>1. OffersTypeOK'
    BY <1>5 DEF CandidateRespondOffer, Begin, OffersTypeOK, OfferCall
  <2>2. OfferCallShape'
    BY <1>5 DEF CandidateRespondOffer, Begin, OffersTypeOK, OfferCallShape
  <2>3. AcceptedOfferHasContract'
    BY <1>5 DEF CandidateRespondOffer, AcceptedOfferHasContract
  <2>4. AcceptanceHasContract'
    BY <1>5 DEF CandidateRespondOffer, Begin, AcceptanceHasContract, At, OffersTypeOK
  <2> QED BY <2>1, <2>2, <2>3, <2>4
<1>6. ASSUME NEW h \in Handler, AddApproverSaveApprovers(h) PROVE OffersInv'
  <2> DEFINE call == offerCalls[h]
  <2>1. /\ call \in OfferCall /\ call.at = "addApprover.approvers"
        /\ offers[call.offer] \in OfferDoc
        /\ call.seen \in OfferDoc /\ call.approver \in Approver
    BY <1>6 DEF AddApproverSaveApprovers, At, OffersTypeOK, OfferCallShape, OfferCall
  <2>2. WithApprover(call.seen, call.approver).approvers \in [Approver -> Votes]
    BY <2>1 DEF WithApprover, OfferDoc, Votes
  <2>3. OffersTypeOK'
    BY <1>6, <2>1, <2>2 DEF AddApproverSaveApprovers, OffersTypeOK, OfferDoc, OfferCall
  <2>4. OfferCallShape'
    BY <1>6, <2>1, <2>2 DEF AddApproverSaveApprovers, OffersTypeOK, OfferCallShape, OfferDoc, OfferCall
  <2>5. AcceptedOfferHasContract'
    BY <1>6, <2>1 DEF AddApproverSaveApprovers, AcceptedOfferHasContract, OffersTypeOK, OfferDoc, OfferCall
  <2>6. AcceptanceHasContract'
    BY <1>6, <2>1 DEF AddApproverSaveApprovers, AcceptanceHasContract, At, OffersTypeOK, OfferCall
  <2> QED BY <2>3, <2>4, <2>5, <2>6
<1>7. ASSUME NEW h \in Handler, AddApproverSavePending(h) PROVE OffersInv'
  <2> DEFINE call == offerCalls[h]
  <2>1. call \in OfferCall /\ offers[call.offer] \in OfferDoc
    BY <1>7 DEF AddApproverSavePending, At, OffersTypeOK, OfferCallShape, OfferCall
  <2>2. OffersTypeOK'
    BY <1>7, <2>1 DEF AddApproverSavePending, Finish, OffersTypeOK, OfferDoc, OfferCall
  <2>3. OfferCallShape'
    BY <1>7, <2>1 DEF AddApproverSavePending, Finish, OffersTypeOK, OfferCallShape, OfferDoc, OfferCall
  <2>4. AcceptedOfferHasContract'
    BY <1>7, <2>1 DEF AddApproverSavePending, AcceptedOfferHasContract, OffersTypeOK, OfferDoc, OfferCall
  <2>5. AcceptanceHasContract'
    BY <1>7 DEF AddApproverSavePending, Finish, AcceptanceHasContract, At, OffersTypeOK
  <2> QED BY <2>2, <2>3, <2>4, <2>5
<1>8. ASSUME NEW h \in Handler, ApproveSave(h) PROVE OffersInv'
  <2> DEFINE call == offerCalls[h]
             doc  == WithVote(call.seen, call.approver, call.answer)
  <2>1. /\ call \in OfferCall /\ offers[call.offer] \in OfferDoc
        /\ call.seen \in OfferDoc /\ call.approver \in Approver
        /\ call.answer \in {"approved", "rejected"}
    BY <1>8 DEF ApproveSave, At, OffersTypeOK, OfferCallShape, OfferCall
  <2>2. doc \in OfferDoc
    BY <2>1 DEF WithVote, OfferDoc, Votes
  <2>3. /\ doc.approvers \in [Approver -> Votes]
        /\ StatusAfterVote(doc) \in {"pending", "approved", "rejected", "sent"}
    BY <2>2 DEF StatusAfterVote, OfferDoc
  <2>4. /\ \A o \in Offer \ {call.offer} : offers'[o] = offers[o]
        /\ offers'[call.offer] \in OfferDoc
        /\ offers'[call.offer].applicantResponse = offers[call.offer].applicantResponse
        /\ DOMAIN offers' = Offer
        /\ offers' = [o \in Offer |-> offers'[o]]
    BY <1>8, <2>1, <2>3 DEF ApproveSave, OffersTypeOK, OfferDoc, OfferCall
  <2>5. /\ offerCalls' = [offerCalls EXCEPT ![h] = NULL]
        /\ UNCHANGED <<candidates, contracts, failures>>
    BY <1>8 DEF ApproveSave, Finish
  <2> HIDE DEF doc, call
  <2>6. OffersTypeOK'
    BY <2>1, <2>4, <2>5 DEF OffersTypeOK, OfferCall
  <2>7. OfferCallShape'
    BY <2>1, <2>4, <2>5, <2>6, OffersAssumption DEF OffersTypeOK, OfferCallShape, OfferCall
  <2>8. AcceptedOfferHasContract'
    BY <2>1, <2>4, <2>5, OffersAssumption DEF AcceptedOfferHasContract, OffersTypeOK, OfferCall
  <2>9. AcceptanceHasContract'
    BY <2>5 DEF AcceptanceHasContract, At, OffersTypeOK
  <2> QED BY <2>6, <2>7, <2>8, <2>9
<1>9. ASSUME NEW h \in Handler, SendSaveStatus(h) PROVE OffersInv'
  <2> DEFINE call == offerCalls[h]
  <2>1. call \in OfferCall /\ offers[call.offer] \in OfferDoc /\ call.at = "send.status"
    BY <1>9 DEF SendSaveStatus, At, OffersTypeOK, OfferCallShape, OfferCall
  <2>2. OffersTypeOK'
    BY <1>9, <2>1 DEF SendSaveStatus, Goto, OffersTypeOK, OfferDoc, OfferCall
  <2>3. OfferCallShape'
    BY <1>9, <2>1 DEF SendSaveStatus, Goto, OffersTypeOK, OfferCallShape, OfferDoc, OfferCall
  <2>4. AcceptedOfferHasContract'
    BY <1>9, <2>1 DEF SendSaveStatus, AcceptedOfferHasContract, OffersTypeOK, OfferDoc, OfferCall
  <2>5. AcceptanceHasContract'
    BY <1>9, <2>1 DEF SendSaveStatus, Goto, AcceptanceHasContract, At, OffersTypeOK, OfferCall
  <2> QED BY <2>2, <2>3, <2>4, <2>5
<1>10. ASSUME NEW h \in Handler, SendSaveCandidate(h) PROVE OffersInv'
  <2>1. OffersTypeOK'
    BY <1>10 DEF SendSaveCandidate, SetStatus, Finish, OffersTypeOK, CandidateStatus
  <2>2. OfferCallShape'
    BY <1>10 DEF SendSaveCandidate, Finish, OffersTypeOK, OfferCallShape
  <2>3. AcceptedOfferHasContract'
    BY <1>10 DEF SendSaveCandidate, AcceptedOfferHasContract
  <2>4. AcceptanceHasContract'
    BY <1>10 DEF SendSaveCandidate, Finish, AcceptanceHasContract, At, OffersTypeOK
  <2> QED BY <2>1, <2>2, <2>3, <2>4
<1>11. ASSUME NEW h \in Handler, RespondSaveCandidate(h) PROVE OffersInv'
  <2> DEFINE call == offerCalls[h]
  <2>1. call \in OfferCall /\ call.at = "respond.candidate" /\ call.answer \in {"accepted", "rejected"}
    BY <1>11 DEF RespondSaveCandidate, At, OffersTypeOK, OfferCallShape, OfferCall
  <2>2. OffersTypeOK'
    BY <1>11, <2>1 DEF RespondSaveCandidate, SetStatus, Goto, OffersTypeOK, CandidateStatus, OfferCall
  <2>3. OfferCallShape'
    BY <1>11, <2>1 DEF RespondSaveCandidate, Goto, OffersTypeOK, OfferCallShape, OfferCall
  <2>4. AcceptedOfferHasContract'
    BY <1>11 DEF RespondSaveCandidate, AcceptedOfferHasContract
  <2>5. AcceptanceHasContract'
    BY <1>11, <2>1 DEF RespondSaveCandidate, Goto, AcceptanceHasContract, At, OffersTypeOK, OfferCall
  <2> QED BY <2>2, <2>3, <2>4, <2>5
<1>12. ASSUME NEW h \in Handler, NEW c \in Contract, RespondCreateContract(h, c) PROVE OffersInv'
  <2> DEFINE call == offerCalls[h]
  <2>1. call \in OfferCall /\ call.at = "respond.contract"
    BY <1>12 DEF RespondCreateContract, At, OffersTypeOK, OfferCall
  <2>2. /\ contracts'[c] = call.offer
        /\ \A d \in Contract : contracts[d] # NULL => contracts'[d] = contracts[d]
    BY <1>12, <2>1 DEF RespondCreateContract, OffersTypeOK, OfferCall
  <2>3. OffersTypeOK'
    BY <1>12, <2>1 DEF RespondCreateContract, Goto, OffersTypeOK, OfferCall
  <2>4. OfferCallShape'
    BY <1>12, <2>1 DEF RespondCreateContract, Goto, OffersTypeOK, OfferCallShape, OfferCall
  <2>5. AcceptedOfferHasContract'
    BY <1>12, <2>2 DEF RespondCreateContract, AcceptedOfferHasContract
  <2>6. AcceptanceHasContract'
    BY <1>12, <2>1, <2>2 DEF RespondCreateContract, Goto, AcceptanceHasContract, At, OffersTypeOK, OfferCall
  <2> QED BY <2>3, <2>4, <2>5, <2>6
<1>13. ASSUME NEW h \in Handler, RespondSave(h) PROVE OffersInv'
  <2> DEFINE call == offerCalls[h]
             answer(stored) == Saved(call.seen.applicantResponse, call.answer, stored)
             status(stored) == Saved(call.seen.finalStatus, DecisionOf(call.answer), stored)
  <2>1. /\ call \in OfferCall /\ offers[call.offer] \in OfferDoc /\ call.offer \in Offer
        /\ call.seen \in OfferDoc /\ call.answer \in {"accepted", "rejected"}
    BY <1>13 DEF RespondSave, At, OffersTypeOK, OfferCallShape, OfferCall
  <2>2. /\ answer(offers[call.offer].applicantResponse) \in {"pending", "accepted", "rejected"}
        /\ status(offers[call.offer].finalStatus) \in {"pending", "approved", "rejected", "sent"}
    BY <2>1 DEF Saved, DecisionOf, OfferDoc
  <2>3. answer(offers[call.offer].applicantResponse) = "accepted" =>
          \E c \in Contract : contracts[c] = call.offer
    BY <1>13, <2>1 DEF RespondSave, Saved, AcceptedOfferHasContract, AcceptanceHasContract
  <2>4. /\ \A o \in Offer \ {call.offer} : offers'[o] = offers[o]
        /\ offers'[call.offer] \in OfferDoc
        /\ offers'[call.offer].applicantResponse =
             answer(offers[call.offer].applicantResponse)
        /\ DOMAIN offers' = Offer
        /\ offers' = [o \in Offer |-> offers'[o]]
    BY <1>13, <2>1, <2>2 DEF RespondSave, OffersTypeOK, OfferDoc, OfferCall
  <2>5. /\ offerCalls' = [offerCalls EXCEPT ![h] = NULL]
        /\ UNCHANGED <<candidates, contracts, failures>>
    BY <1>13 DEF RespondSave, Finish
  <2> HIDE DEF answer, status, call
  <2>6. OffersTypeOK'
    BY <2>1, <2>4, <2>5 DEF OffersTypeOK, OfferCall
  <2>7. OfferCallShape'
    BY <2>1, <2>4, <2>5, <2>6, OffersAssumption DEF OffersTypeOK, OfferCallShape, OfferCall
  <2>8. AcceptedOfferHasContract'
    BY <2>1, <2>3, <2>4, <2>5, OffersAssumption DEF AcceptedOfferHasContract, OffersTypeOK, OfferCall
  <2>9. AcceptanceHasContract'
    BY <2>5 DEF AcceptanceHasContract, At, OffersTypeOK
  <2> QED BY <2>6, <2>7, <2>8, <2>9
<1>14. ASSUME NEW h \in Handler, OfferCallFails(h) PROVE OffersInv'
  <2>1. OffersTypeOK'
    BY <1>14 DEF OfferCallFails, Finish, OffersTypeOK
  <2>2. OfferCallShape'
    BY <1>14 DEF OfferCallFails, Finish, OffersTypeOK, OfferCallShape
  <2>3. AcceptedOfferHasContract'
    BY <1>14 DEF OfferCallFails, AcceptedOfferHasContract
  <2>4. AcceptanceHasContract'
    BY <1>14 DEF OfferCallFails, Finish, AcceptanceHasContract, At, OffersTypeOK
  <2> QED BY <2>1, <2>2, <2>3, <2>4
<1> QED
  BY <1>1, <1>2, <1>3, <1>4, <1>5, <1>6, <1>7, <1>8, <1>9, <1>10, <1>11, <1>12, <1>13, <1>14
  DEF OffersNext, OfferRequest, OfferStep

\* Steps that leave the offers, the contracts and the calls alone.
LEMMA OffersUntouched ==
  OffersInv /\ UNCHANGED <<offers, contracts, offerCalls>> /\ candidates' \in [Candidate -> CandidateStatus]
    /\ failures' \in 0 .. MaxFailures => OffersInv'
BY DEF OffersInv, OffersTypeOK, OfferCallShape, AcceptedOfferHasContract, AcceptanceHasContract, At

THEOREM OffersInvariant == OffersSpec => []OffersInv
<1>1. OffersInv /\ UNCHANGED offerVars => OffersInv'
  BY OffersUntouched DEF offerVars, OffersInv, OffersTypeOK
<1> QED
  BY OffersInitially, OffersStep, <1>1, PTL DEF OffersSpec

\* Every collection and every call in flight has its type, whatever overlaps.
THEOREM OffersTypeCorrect == OffersSpec => []OffersTypeOK
BY OffersInvariant, PTL DEF OffersInv

\* An accepted offer has a contract, for every number of overlapping requests.
THEOREM AcceptedHasContract == OffersSpec => []AcceptedOfferHasContract
BY OffersInvariant, PTL DEF OffersInv

-----------------------------------------------------------------------------
(* The action properties.  Only two steps write the approvers and only four*)
(* the status of an offer that exists.                                     *)

LEMMA ApproversWrittenBy ==
  ASSUME OffersInv, OffersNext, NEW o \in Offer, offers[o] # NULL,
         offers'[o].approvers # offers[o].approvers
  PROVE  \E h \in Handler :
           /\ offerCalls[h] # NULL /\ offerCalls[h].offer = o
           /\ AddApproverSaveApprovers(h) \/ ApproveSave(h)
<1> USE DEF OffersInv, OffersTypeOK
<1>1. ASSUME NEW n \in Offer, CreateOffer(n) PROVE FALSE
  BY <1>1 DEF CreateOffer
<1>2. ASSUME NEW h \in Handler, OfferRequest(h) PROVE FALSE
  BY <1>2 DEF OfferRequest, AddOfferApprover, ApproveOffer, SendOffer, CandidateRespondOffer
<1>3. ASSUME NEW h \in Handler, OfferCallFails(h) PROVE FALSE
  BY <1>3 DEF OfferCallFails
<1>4. ASSUME NEW h \in Handler,
             \/ SendSaveCandidate(h) \/ RespondSaveCandidate(h)
             \/ \E c \in Contract : RespondCreateContract(h, c)
      PROVE  FALSE
  BY <1>4 DEF SendSaveCandidate, RespondSaveCandidate, RespondCreateContract
<1>5. ASSUME NEW h \in Handler, AddApproverSavePending(h) PROVE FALSE
  BY <1>5 DEF AddApproverSavePending, OfferDoc
<1>6. ASSUME NEW h \in Handler, SendSaveStatus(h) PROVE FALSE
  BY <1>6 DEF SendSaveStatus, OfferDoc
<1>7. ASSUME NEW h \in Handler, RespondSave(h) PROVE FALSE
  BY <1>7 DEF RespondSave, OfferDoc
<1>8. ASSUME NEW h \in Handler, AddApproverSaveApprovers(h) \/ ApproveSave(h)
      PROVE  offerCalls[h] # NULL /\ offerCalls[h].offer = o
  <2> DEFINE call == offerCalls[h]
  <2>1. call # NULL /\ offers'[o] # offers[o]
    BY <1>8 DEF AddApproverSaveApprovers, ApproveSave, At
  <2>2. call.offer # o => offers'[o] = offers[o]
    BY <1>8 DEF AddApproverSaveApprovers, ApproveSave
  <2> QED BY <2>1, <2>2
<1> QED
  BY <1>1, <1>2, <1>3, <1>4, <1>5, <1>6, <1>7, <1>8 DEF OffersNext, OfferStep

\* A decision of an approver stays, in every step taken on fresh reads.
THEOREM DecisionsStay == OffersSpec => DecisionsAreFinal
<1> DEFINE Kept == \A o \in Offer, a \in Approver :
             (/\ offers[o] # NULL
              /\ ReadsAreFresh(o)
              /\ offers[o].approvers[a] \in {"approved", "rejected"})
               => offers'[o].approvers[a] = offers[o].approvers[a]
<1>1. OffersInv /\ [OffersNext]_offerVars => [Kept]_offerVars
  <2> SUFFICES ASSUME OffersInv, OffersNext, NEW o \in Offer, NEW a \in Approver,
                      offers[o] # NULL, ReadsAreFresh(o),
                      offers[o].approvers[a] \in {"approved", "rejected"},
                      offers'[o].approvers # offers[o].approvers
               PROVE  offers'[o].approvers[a] = offers[o].approvers[a]
    OBVIOUS
  <2>1. PICK h \in Handler :
          /\ offerCalls[h] # NULL /\ offerCalls[h].offer = o
          /\ AddApproverSaveApprovers(h) \/ ApproveSave(h)
    BY ApproversWrittenBy
  <2> DEFINE call == offerCalls[h]
  <2>2. /\ call \in OfferCall /\ call.at \in {"addApprover.approvers", "approve.save"}
        /\ call.approver \in Approver /\ call.seen \in OfferDoc
        /\ call.seen.approvers[call.approver] \in {"none", "pending"}
    BY <2>1 DEF AddApproverSaveApprovers, ApproveSave, At, OffersInv, OffersTypeOK, OfferCallShape
  <2>3. call.seen = offers[o] /\ call.approver # a
    BY <2>1, <2>2, OffersAssumption DEF ReadsAreFresh
  <2>4. CASE AddApproverSaveApprovers(h)
    BY <2>1, <2>2, <2>3, <2>4
    DEF AddApproverSaveApprovers, WithApprover, OffersInv, OffersTypeOK, OfferDoc
  <2>5. CASE ApproveSave(h)
    <3>1. offers'[o].approvers = WithVote(call.seen, call.approver, call.answer).approvers
      BY <2>1, <2>2, <2>5 DEF ApproveSave, OffersInv, OffersTypeOK, OfferDoc
    <3> QED BY <2>2, <2>3, <3>1 DEF WithVote, OfferDoc
  <2> QED BY <2>1, <2>4, <2>5
<1> QED
  BY OffersInvariant, <1>1, PTL DEF OffersSpec, DecisionsAreFinal

LEMMA ApprovedBy ==
  ASSUME OffersInv, OffersNext, NEW o \in Offer, offers[o] # NULL,
         offers[o].finalStatus # "approved", offers'[o].finalStatus = "approved"
  PROVE  \E h \in Handler :
           /\ offerCalls[h] # NULL /\ offerCalls[h].offer = o
           /\ ApproveSave(h) \/ RespondSave(h)
<1> USE DEF OffersInv, OffersTypeOK
<1>1. ASSUME NEW n \in Offer, CreateOffer(n) PROVE FALSE
  BY <1>1 DEF CreateOffer
<1>2. ASSUME NEW h \in Handler, OfferRequest(h) PROVE FALSE
  BY <1>2 DEF OfferRequest, AddOfferApprover, ApproveOffer, SendOffer, CandidateRespondOffer
<1>3. ASSUME NEW h \in Handler, OfferCallFails(h) PROVE FALSE
  BY <1>3 DEF OfferCallFails
<1>4. ASSUME NEW h \in Handler,
             \/ SendSaveCandidate(h) \/ RespondSaveCandidate(h)
             \/ \E c \in Contract : RespondCreateContract(h, c)
      PROVE  FALSE
  BY <1>4 DEF SendSaveCandidate, RespondSaveCandidate, RespondCreateContract
<1>5. ASSUME NEW h \in Handler, AddApproverSavePending(h) PROVE FALSE
  BY <1>5 DEF AddApproverSavePending, OfferDoc
<1>6. ASSUME NEW h \in Handler, SendSaveStatus(h) PROVE FALSE
  BY <1>6 DEF SendSaveStatus, OfferDoc
<1>7. ASSUME NEW h \in Handler, AddApproverSaveApprovers(h) PROVE FALSE
  BY <1>7 DEF AddApproverSaveApprovers, OfferDoc
<1>8. ASSUME NEW h \in Handler, ApproveSave(h) \/ RespondSave(h)
      PROVE  offerCalls[h] # NULL /\ offerCalls[h].offer = o
  <2> DEFINE call == offerCalls[h]
  <2>1. call # NULL /\ offers'[o] # offers[o]
    BY <1>8 DEF RespondSave, ApproveSave, At
  <2>2. call.offer # o => offers'[o] = offers[o]
    BY <1>8 DEF RespondSave, ApproveSave
  <2> QED BY <2>1, <2>2
<1> QED
  BY <1>1, <1>2, <1>3, <1>4, <1>5, <1>6, <1>7, <1>8 DEF OffersNext, OfferStep

\* On fresh reads, an offer is approved by every approver or by its acceptance.
THEOREM ApprovalNeedsAll == OffersSpec => ApprovalIsUnanimous
<1> DEFINE Unanimous == \A o \in Offer :
             (/\ offers[o] # NULL
              /\ ReadsAreFresh(o)
              /\ offers[o].finalStatus # "approved"
              /\ offers'[o].finalStatus = "approved")
               => \/ AllApproved(offers'[o])
                  \/ offers'[o].applicantResponse = "accepted"
<1>1. OffersInv /\ [OffersNext]_offerVars => [Unanimous]_offerVars
  <2> SUFFICES ASSUME OffersInv, OffersNext, NEW o \in Offer,
                      offers[o] # NULL, ReadsAreFresh(o),
                      offers[o].finalStatus # "approved",
                      offers'[o].finalStatus = "approved"
               PROVE  \/ AllApproved(offers'[o])
                      \/ offers'[o].applicantResponse = "accepted"
    OBVIOUS
  <2>1. PICK h \in Handler :
          /\ offerCalls[h] # NULL /\ offerCalls[h].offer = o
          /\ ApproveSave(h) \/ RespondSave(h)
    BY ApprovedBy
  <2> DEFINE call == offerCalls[h]
  <2>2. CASE ApproveSave(h)
    <3> DEFINE doc == WithVote(call.seen, call.approver, call.answer)
    <3>1. call.seen \in OfferDoc /\ call.seen = offers[o]
      BY <2>1, <2>2, OffersAssumption
      DEF ApproveSave, At, OffersInv, OffersTypeOK, OfferCallShape, ReadsAreFresh
    <3>2. doc.finalStatus # "approved"
      BY <3>1 DEF WithVote, OfferDoc
    <3>3. offers'[o].approvers = doc.approvers /\ StatusAfterVote(doc) = "approved"
      BY <2>1, <2>2 DEF ApproveSave, OffersInv, OffersTypeOK, OfferDoc
    <3> HIDE DEF doc
    <3>4. AllApproved(doc)
      BY <3>2, <3>3 DEF StatusAfterVote
    <3> QED BY <3>3, <3>4 DEF AllApproved
  <2>3. CASE RespondSave(h)
    <3>1. /\ call.seen \in OfferDoc /\ call.seen = offers[o]
          /\ call.answer \in {"accepted", "rejected"}
      BY <2>1, <2>3, OffersAssumption
      DEF RespondSave, At, OffersInv, OffersTypeOK, OfferCallShape, ReadsAreFresh
    <3>2. /\ offers'[o].finalStatus =
               Saved(call.seen.finalStatus, DecisionOf(call.answer), offers[o].finalStatus)
          /\ offers'[o].applicantResponse =
               Saved(call.seen.applicantResponse, call.answer, offers[o].applicantResponse)
      BY <2>1, <2>3 DEF RespondSave, OffersInv, OffersTypeOK, OfferDoc
    <3>3. call.answer = "accepted"
      BY <3>1, <3>2 DEF Saved, DecisionOf
    <3> QED BY <3>1, <3>2, <3>3 DEF Saved
  <2> QED BY <2>1, <2>2, <2>3
<1> QED
  BY OffersInvariant, <1>1, PTL DEF OffersSpec, ApprovalIsUnanimous

(***************************************************************************)
(* Hiring.                                                                 *)
(***************************************************************************)

OnContract == {"sign.upload", "sign.save", "hr.hired", "hr.email", "hr.employee",
               "hr.countersign", "hr.onboarding", "hr.bonus"}

Holding == {"hr.countersign", "hr.onboarding", "hr.bonus"}

Holds(r) == signCalls[r] # NULL /\ signCalls[r].at \in Holding

\* What a signing call carries at each step.
SignCallShape ==
    \A r \in Caller : signCalls[r] # NULL =>
      LET call == signCalls[r]
      IN  /\ call.at \in OnContract =>
               /\ call.contract \in Contract
               /\ contracts[call.contract] # NULL
               /\ call.candidate = PartyTo(call.contract)
          /\ call.at \in {"sign.upload", "sign.save"} => call.file \in StoredFile
          /\ call.at \in OnContract \ {"sign.upload", "sign.save"} =>
               signature[call.contract] # NULL

SignedHaveOffer == \A c \in Contract : signature[c] # NULL => contracts[c] # NULL

\* A name about to be stored is on disk and stored nowhere yet.
FilesInFlight ==
    \A r \in Caller : CallerAt(r, "sign.save") =>
      /\ signCalls[r].file \in uploads
      /\ \A c \in Contract : signature[c] # signCalls[r].file
      /\ \A s \in Caller :
           CallerAt(s, "sign.save") /\ signCalls[s].file = signCalls[r].file => s = r

\* At most one request holds a candidate, and the candidate is an employee.
OneHolder ==
    \A r \in Caller : Holds(r) =>
      /\ employees[signCalls[r].candidate] # NULL
      /\ \A s \in Caller : Holds(s) /\ signCalls[s].candidate = signCalls[r].candidate => s = r

\* What the holder has not written yet.
HolderState ==
    \A r \in Caller : Holds(r) =>
      LET call == signCalls[r]
          p    == call.candidate
      IN  /\ bonuses[p] = 0
          /\ call.at = "hr.countersign" =>
               onboardings[p] = 0 /\ \A c \in countersigned : PartyTo(c) # p
          /\ call.at = "hr.onboarding" => onboardings[p] = 0 /\ call.contract \in countersigned
          /\ call.at = "hr.bonus" =>
               /\ onboardings[p] = 1
               /\ call.contract \in countersigned
               /\ contracts[call.contract] \in BonusOffers

\* Nothing comes before the employee profile.
NothingBeforeEmployee ==
    \A p \in Candidate : employees[p] = NULL => onboardings[p] = 0 /\ bonuses[p] = 0

HiringInv ==
    /\ OffersInv
    /\ HiringTypeOK
    /\ SignCallShape
    /\ SignedHaveOffer
    /\ FilesInFlight
    /\ SignedFilesAreDistinct
    /\ OneHolder
    /\ HolderState
    /\ NothingBeforeEmployee
    /\ CountersignedAreEmployed
    /\ HiredUnderOneContract
    /\ HireIsPaidOnce

-----------------------------------------------------------------------------

THEOREM HiringInitially == HiringInit => HiringInv
<1> SUFFICES ASSUME HiringInit PROVE HiringInv
  OBVIOUS
<1>1. OffersInv
  BY OffersInitially DEF HiringInit
<1>2. HiringTypeOK
  BY <1>1 DEF HiringInit, HiringTypeOK, OffersInv
<1> QED
  BY <1>1, <1>2
  DEF HiringInit, HiringInv, SignCallShape, SignedHaveOffer, FilesInFlight, CallerAt,
      SignedFilesAreDistinct, OneHolder, HolderState, Holds, NothingBeforeEmployee,
      CountersignedAreEmployed, HiredUnderOneContract, HireIsPaidOnce, HiredContract

\* What every step of the offer handlers leaves to the signing handlers.
LEMMA ContractsStay ==
  ASSUME OffersInv, OffersNext, NEW c \in Contract, contracts[c] # NULL
  PROVE  contracts'[c] = contracts[c]
BY DEF OffersInv, OffersTypeOK, OffersNext, OfferRequest, OfferStep, CreateOffer,
       AddOfferApprover, ApproveOffer, SendOffer, CandidateRespondOffer,
       AddApproverSaveApprovers, AddApproverSavePending, ApproveSave, SendSaveStatus,
       SendSaveCandidate, RespondSaveCandidate, RespondCreateContract, RespondSave, OfferCallFails

\* Contracts only come into being: what is known of the signed ones stays.
LEMMA OfferStepKeepsHiring ==
  ASSUME HiringInv, OffersInv', UNCHANGED signingVars,
         \A c \in Contract : contracts[c] # NULL => contracts'[c] = contracts[c]
  PROVE  HiringInv'
<1> USE DEF HiringInv, signingVars
<1>1. HiringTypeOK'
  BY DEF HiringTypeOK, OffersInv
<1>2. /\ SignCallShape' /\ SignedHaveOffer'
  BY DEF SignCallShape, SignedHaveOffer, HiringTypeOK, PartyTo
<1>3. /\ FilesInFlight' /\ SignedFilesAreDistinct' /\ OneHolder' /\ NothingBeforeEmployee'
  BY DEF FilesInFlight, CallerAt, SignedFilesAreDistinct, OneHolder, Holds, NothingBeforeEmployee
<1>4. \A c \in countersigned : c \in Contract /\ PartyTo(c)' = PartyTo(c) /\ contracts'[c] = contracts[c]
  BY DEF CountersignedAreEmployed, HiringTypeOK, PartyTo
<1>5. HolderState'
  BY <1>4 DEF HolderState, Holds, Holding, SignCallShape, OnContract
<1>6. CountersignedAreEmployed' /\ HiredUnderOneContract'
  BY <1>4 DEF CountersignedAreEmployed, HiredUnderOneContract
<1>7. HireIsPaidOnce'
  BY <1>4 DEF HireIsPaidOnce, HiredContract
<1> QED BY <1>1, <1>2, <1>3, <1>5, <1>6, <1>7

\* A call starts, moves on or ends, and writes at most a candidate's status.
LEMMA CallMoves ==
  ASSUME HiringInv, NEW r \in Caller,
         UNCHANGED <<offers, contracts, offerCalls, uploads, signature, countersigned,
                     employees, onboardings, bonuses>>,
         candidates' \in [Candidate -> CandidateStatus],
         failures' \in 0 .. MaxFailures,
         signCalls' \in [Caller -> SignCall \cup {NULL}],
         \A s \in Caller \ {r} : signCalls'[s] = signCalls[s],
         signCalls'[r] # NULL =>
           /\ signCalls'[r].at \notin Holding \cup {"sign.save"}
           /\ signCalls'[r].at \in OnContract =>
                /\ signCalls'[r].contract \in Contract
                /\ contracts[signCalls'[r].contract] # NULL
                /\ signCalls'[r].candidate = PartyTo(signCalls'[r].contract)
           /\ signCalls'[r].at = "sign.upload" => signCalls'[r].file \in StoredFile
           /\ signCalls'[r].at \in OnContract \ {"sign.upload", "sign.save"} =>
                signature[signCalls'[r].contract] # NULL
  PROVE  HiringInv'
<1> USE DEF HiringInv
<1>1. OffersInv'
  BY OffersUntouched
<1>2. HiringTypeOK'
  BY <1>1 DEF HiringTypeOK, OffersInv
<1>3. SignCallShape'
  BY DEF SignCallShape, PartyTo
<1>4. FilesInFlight'
  BY DEF FilesInFlight, CallerAt
<1>5. \A s \in Caller : Holds(s)' => s # r /\ Holds(s) /\ signCalls'[s] = signCalls[s]
  BY DEF Holds
<1>6. OneHolder'
  BY <1>5 DEF OneHolder
<1>7. HolderState'
  BY <1>5 DEF HolderState, PartyTo
<1>8. /\ SignedHaveOffer' /\ SignedFilesAreDistinct' /\ NothingBeforeEmployee'
      /\ CountersignedAreEmployed' /\ HiredUnderOneContract' /\ HireIsPaidOnce'
  BY DEF SignedHaveOffer, SignedFilesAreDistinct, NothingBeforeEmployee, CountersignedAreEmployed,
         HiredUnderOneContract, HireIsPaidOnce, HiredContract, PartyTo
<1> QED BY <1>1, <1>2, <1>3, <1>4, <1>6, <1>7, <1>8

LEMMA CallMovesOnly ==
  ASSUME HiringInv, NEW r \in Caller,
         \/ SignRequest(r) \/ HrSaveHired(r) \/ HrCheckEmail(r) \/ HrBonusNotConfigured(r)
         \/ ConvertSaveHired(r) \/ SignCallFails(r)
  PROVE  HiringInv'
<1> USE OffersAssumption, HiringAssumption
<1> USE DEF HiringInv, HiringTypeOK, OffersTypeOK, offerVars
<1>1. CASE \E c \in Contract, name \in FileName : SignContract(r, c, name)
  <2>1. PICK c \in Contract, name \in FileName : SignContract(r, c, name)
    BY <1>1
  <2>2. PartyTo(c) \in Candidate /\ <<PartyTo(c), name>> \in StoredFile
    BY <2>1 DEF SignContract, PartyTo, StoredFile
  <2> DEFINE call == [at |-> "sign.upload", contract |-> c, candidate |-> PartyTo(c),
                      file |-> <<PartyTo(c), name>>, email |-> "own"]
  <2>3. call \in SignCall
    BY <2>2 DEF SignCall, Email
  <2>4. signCalls' = [signCalls EXCEPT ![r] = call]
    BY <2>1 DEF SignContract, CallerBegin
  <2> QED BY <2>1, <2>2, <2>3, <2>4, CallMoves DEF SignContract, Holding, OnContract
<1>2. CASE HrRequest(r)
  <2>1. PICK c \in Contract, email \in Email : HrSignContract(r, c, email)
    BY <1>2 DEF HrRequest
  <2>2. contracts[c] # NULL /\ PartyTo(c) \in Candidate
    BY <2>1 DEF HrSignContract, PartyTo, SignedHaveOffer
  <2> DEFINE call == [at |-> "hr.hired", contract |-> c, candidate |-> PartyTo(c),
                      file |-> NULL, email |-> email]
  <2>3. call \in SignCall
    BY <2>2 DEF SignCall
  <2>4. signCalls' = [signCalls EXCEPT ![r] = call]
    BY <2>1 DEF HrSignContract, CallerBegin
  <2> QED BY <2>1, <2>2, <2>3, <2>4, CallMoves DEF HrSignContract, Holding, OnContract
<1>3. CASE \E p \in Candidate : ConvertCandidate(r, p)
  <2>1. PICK p \in Candidate : ConvertCandidate(r, p)
    BY <1>3
  <2> DEFINE call == [at |-> "convert.employee", contract |-> NULL, candidate |-> p,
                      file |-> NULL, email |-> "own"]
  <2>2. call \in SignCall
    BY DEF SignCall, Email
  <2>3. signCalls' = [signCalls EXCEPT ![r] = call]
    BY <2>1 DEF ConvertCandidate, CallerBegin
  <2> QED BY <2>1, <2>2, <2>3, CallMoves DEF ConvertCandidate, Holding, OnContract
<1>4. CASE HrSaveHired(r)
  <2>1. /\ signCalls[r] \in SignCall /\ signCalls[r].at = "hr.hired"
        /\ signCalls' = [signCalls EXCEPT ![r].at = "hr.email"]
        /\ candidates' \in [Candidate -> CandidateStatus]
    BY <1>4 DEF HrSaveHired, CallerAt, CallerGoto, SetStatus, CandidateStatus, SignCall
  <2>2. signCalls'[r] = [signCalls[r] EXCEPT !.at = "hr.email"] /\ signCalls'[r] \in SignCall
    BY <2>1 DEF SignCall
  <2> QED BY <1>4, <2>1, <2>2, CallMoves
      DEF HrSaveHired, Holding, OnContract, SignCallShape, SignCall
<1>5. CASE HrCheckEmail(r)
  <2>1. signCalls[r] \in SignCall /\ signCalls[r].at = "hr.email"
    BY <1>5 DEF HrCheckEmail, CallerAt
  <2>2. CASE signCalls' = [signCalls EXCEPT ![r] = NULL]
    BY <1>5, <2>2, CallMoves DEF HrCheckEmail
  <2>3. CASE signCalls' = [signCalls EXCEPT ![r].at = "hr.employee"]
    <3>1. signCalls'[r] = [signCalls[r] EXCEPT !.at = "hr.employee"] /\ signCalls'[r] \in SignCall
      BY <2>1, <2>3 DEF SignCall
    <3> QED BY <1>5, <2>1, <2>3, <3>1, CallMoves
        DEF HrCheckEmail, Holding, OnContract, SignCallShape, SignCall
  <2> QED BY <1>5, <2>2, <2>3 DEF HrCheckEmail, CallerGoto, CallerFinish
<1>6. CASE HrBonusNotConfigured(r)
  BY <1>6, CallMoves DEF HrBonusNotConfigured, CallerFinish
<1>7. CASE ConvertSaveHired(r)
  <2>1. candidates' \in [Candidate -> CandidateStatus]
    BY <1>7 DEF ConvertSaveHired, SetStatus, CandidateStatus
  <2> QED BY <1>7, <2>1, CallMoves DEF ConvertSaveHired, CallerFinish
<1>8. CASE SignCallFails(r)
  BY <1>8, CallMoves DEF SignCallFails, CallerFinish
<1> QED BY <1>1, <1>2, <1>3, <1>4, <1>5, <1>6, <1>7, <1>8 DEF SignRequest

-----------------------------------------------------------------------------
(* The steps that write a file, a signature, a profile or what follows it. *)

LEMMA UploadKeeps ==
  ASSUME HiringInv, NEW r \in Caller, SignUpload(r)
  PROVE  HiringInv'
<1> USE OffersAssumption, HiringAssumption
<1> USE DEF HiringInv, HiringTypeOK, OffersTypeOK, offerVars
<1> DEFINE call == signCalls[r]
<1>1. call \in SignCall /\ call.at = "sign.upload" /\ call.file \in StoredFile
  BY DEF SignUpload, CallerAt, SignCallShape
<1>2. CASE call.file \in uploads
  BY <1>2, CallMoves DEF SignUpload, CallerFinish
<1>3. CASE call.file \notin uploads
  <2>1. /\ uploads' = uploads \cup {call.file}
        /\ signCalls' = [signCalls EXCEPT ![r].at = "sign.save"]
        /\ UNCHANGED <<offerVars, signature, countersigned, employees, onboardings, bonuses>>
    BY <1>3 DEF SignUpload, CallerGoto
  <2>2. /\ signCalls'[r] = [call EXCEPT !.at = "sign.save"] /\ signCalls'[r] \in SignCall
        /\ \A s \in Caller \ {r} : signCalls'[s] = signCalls[s]
    BY <1>1, <2>1 DEF SignCall
  <2>3. OffersInv' /\ HiringTypeOK'
    BY <1>1, <2>1, <2>2, OffersUntouched
  <2>4. SignCallShape'
    BY <1>1, <2>1, <2>2 DEF SignCallShape, SignCall, OnContract, PartyTo
  <2>5. FilesInFlight'
    BY <1>1, <1>3, <2>1, <2>2 DEF FilesInFlight, CallerAt, SignedFilesAreDistinct, SignCall
  <2>6. \A s \in Caller : Holds(s)' => s # r /\ Holds(s) /\ signCalls'[s] = signCalls[s]
    BY <1>1, <2>1, <2>2 DEF Holds, Holding, SignCall
  <2>7. OneHolder' /\ HolderState'
    BY <2>1, <2>6 DEF OneHolder, HolderState, PartyTo
  <2>8. /\ SignedHaveOffer' /\ SignedFilesAreDistinct' /\ NothingBeforeEmployee'
        /\ CountersignedAreEmployed' /\ HiredUnderOneContract' /\ HireIsPaidOnce'
    BY <2>1 DEF SignedHaveOffer, SignedFilesAreDistinct, NothingBeforeEmployee,
         CountersignedAreEmployed, HiredUnderOneContract, HireIsPaidOnce, HiredContract, PartyTo
  <2> QED BY <2>3, <2>4, <2>5, <2>7, <2>8
<1> QED BY <1>2, <1>3

LEMMA SignatureKeeps ==
  ASSUME HiringInv, NEW r \in Caller, SignSave(r)
  PROVE  HiringInv'
<1> USE OffersAssumption, HiringAssumption
<1> USE DEF HiringInv, HiringTypeOK, OffersTypeOK, offerVars
<1> DEFINE call == signCalls[r]
<1>1. /\ call \in SignCall /\ call.at = "sign.save" /\ call.file \in StoredFile
      /\ call.contract \in Contract /\ contracts[call.contract] # NULL
      /\ call.file \in uploads /\ call.file # NULL
      /\ \A c \in Contract : signature[c] # call.file
  BY DEF SignSave, CallerAt, SignCallShape, OnContract, FilesInFlight
<1>2. /\ signature' = [signature EXCEPT ![call.contract] = call.file]
      /\ signCalls' = [signCalls EXCEPT ![r] = NULL]
      /\ UNCHANGED <<offerVars, uploads, countersigned, employees, onboardings, bonuses>>
  BY DEF SignSave, CallerFinish
<1>3. OffersInv' /\ HiringTypeOK'
  BY <1>1, <1>2, OffersUntouched
<1>4. \A c \in Contract : signature[c] # NULL => signature'[c] # NULL
  BY <1>1, <1>2
<1>5. SignCallShape'
  BY <1>2, <1>4 DEF SignCallShape, OnContract, PartyTo
<1>6. FilesInFlight'
  BY <1>1, <1>2 DEF FilesInFlight, CallerAt
<1>7. SignedHaveOffer' /\ SignedFilesAreDistinct'
  BY <1>1, <1>2 DEF SignedHaveOffer, SignedFilesAreDistinct
<1>8. OneHolder' /\ HolderState' /\ NothingBeforeEmployee'
  BY <1>2 DEF OneHolder, HolderState, Holds, PartyTo, NothingBeforeEmployee
<1>9. CountersignedAreEmployed' /\ HiredUnderOneContract' /\ HireIsPaidOnce'
  BY <1>2, <1>4 DEF CountersignedAreEmployed, HiredUnderOneContract, HireIsPaidOnce,
                    HiredContract, PartyTo
<1> QED BY <1>3, <1>5, <1>6, <1>7, <1>8, <1>9

\* The one step that takes hold of a candidate needs the profile to be missing.
LEMMA InsertKeeps ==
  ASSUME HiringInv, NEW r \in Caller, HrCreateEmployee(r) \/ ConvertCreateEmployee(r)
  PROVE  HiringInv'
<1> USE OffersAssumption, HiringAssumption
<1> USE DEF HiringInv, HiringTypeOK, OffersTypeOK, offerVars
<1> DEFINE call == signCalls[r]
           p    == call.candidate
<1>1. call \in SignCall /\ call.at \in {"hr.employee", "convert.employee"}
  BY DEF HrCreateEmployee, ConvertCreateEmployee, CallerAt
<1>2. UNCHANGED <<offerVars, uploads, signature, countersigned, onboardings, bonuses>>
  BY DEF HrCreateEmployee, ConvertCreateEmployee
<1>3. PICK next \in {"hr.countersign", "convert.hired"} :
        /\ InsertEmployee(r, next)
        /\ next = "hr.countersign" => call.at = "hr.employee"
  BY DEF HrCreateEmployee, ConvertCreateEmployee, CallerAt
<1>4. CASE employees[p] # NULL
  BY <1>2, <1>3, <1>4, CallMoves DEF InsertEmployee, CallerFinish
<1>5. CASE employees[p] = NULL
  <2>1. /\ employees' = [employees EXCEPT ![p] = call.email]
        /\ signCalls' = [signCalls EXCEPT ![r].at = next]
    BY <1>3, <1>5 DEF InsertEmployee, CallerGoto
  <2>2. /\ signCalls'[r] = [call EXCEPT !.at = next] /\ signCalls'[r] \in SignCall
        /\ \A s \in Caller \ {r} : signCalls'[s] = signCalls[s]
        /\ p \in Candidate /\ call.email \in Email
    BY <1>1, <2>1 DEF SignCall
  <2>3. OffersInv' /\ HiringTypeOK'
    BY <1>2, <2>1, <2>2, OffersUntouched
  <2>4. \A q \in Candidate : employees[q] # NULL => employees'[q] # NULL
    BY <2>1, <2>2
  <2>5. employees'[p] # NULL
    BY <2>1, <2>2
  <2>6. SignCallShape'
    BY <1>1, <1>2, <1>3, <2>2 DEF SignCallShape, SignCall, OnContract, PartyTo
  <2>7. FilesInFlight'
    BY <1>1, <1>2, <2>2 DEF FilesInFlight, CallerAt, SignCall
  <2>8. \A c \in countersigned : PartyTo(c) # p
    BY <1>5 DEF CountersignedAreEmployed
  <2>9. \A s \in Caller \ {r} :
          Holds(s)' => /\ Holds(s) /\ signCalls'[s] = signCalls[s]
                       /\ signCalls[s].candidate \in Candidate /\ signCalls[s].candidate # p
    BY <1>5, <2>2 DEF Holds, OneHolder, SignCall
  <2>10. OneHolder'
    BY <2>2, <2>4, <2>5, <2>9 DEF OneHolder, SignCall
  <2>11. HolderState'
    BY <1>1, <1>2, <1>5, <2>2, <2>8, <2>9
    DEF HolderState, NothingBeforeEmployee, PartyTo, SignCall, Holds, Holding
  <2>12. /\ SignedHaveOffer' /\ SignedFilesAreDistinct' /\ NothingBeforeEmployee'
         /\ CountersignedAreEmployed' /\ HiredUnderOneContract' /\ HireIsPaidOnce'
    BY <1>2, <2>4, <2>1
    DEF SignedHaveOffer, SignedFilesAreDistinct, NothingBeforeEmployee, PartyTo,
        CountersignedAreEmployed, HiredUnderOneContract, HireIsPaidOnce, HiredContract
  <2> QED BY <2>3, <2>6, <2>7, <2>10, <2>11, <2>12
<1> QED BY <1>4, <1>5

LEMMA CountersignKeeps ==
  ASSUME HiringInv, NEW r \in Caller, HrCountersign(r)
  PROVE  HiringInv'
<1> USE OffersAssumption, HiringAssumption
<1> USE DEF HiringInv, HiringTypeOK, OffersTypeOK, offerVars
<1> DEFINE call == signCalls[r]
           d    == call.contract
<1>1. /\ call \in SignCall /\ call.at = "hr.countersign" /\ Holds(r)
      /\ d \in Contract /\ contracts[d] # NULL /\ signature[d] # NULL
      /\ call.candidate = PartyTo(d) /\ employees[PartyTo(d)] # NULL
      /\ bonuses[PartyTo(d)] = 0 /\ onboardings[PartyTo(d)] = 0
      /\ \A c \in countersigned : PartyTo(c) # PartyTo(d)
  BY DEF HrCountersign, CallerAt, SignCallShape, OnContract, Holds, Holding, OneHolder, HolderState
<1>2. /\ countersigned' = countersigned \cup {d}
      /\ signCalls' = [signCalls EXCEPT ![r].at = "hr.onboarding"]
      /\ UNCHANGED <<offerVars, uploads, signature, employees, onboardings, bonuses>>
  BY DEF HrCountersign, CallerGoto
<1>3. /\ signCalls'[r] = [call EXCEPT !.at = "hr.onboarding"] /\ signCalls'[r] \in SignCall
      /\ \A s \in Caller \ {r} : signCalls'[s] = signCalls[s]
  BY <1>1, <1>2 DEF SignCall
<1>4. OffersInv' /\ HiringTypeOK'
  BY <1>1, <1>2, <1>3, OffersUntouched
<1>5. SignCallShape' /\ FilesInFlight'
  BY <1>1, <1>2, <1>3 DEF SignCallShape, FilesInFlight, CallerAt, SignCall, OnContract, PartyTo
<1>6. \A s \in Caller \ {r} :
        Holds(s)' => Holds(s) /\ signCalls'[s] = signCalls[s] /\ signCalls[s].candidate # PartyTo(d)
  BY <1>1, <1>3 DEF Holds, OneHolder, SignCall
<1>7. OneHolder'
  BY <1>1, <1>2, <1>3, <1>6 DEF OneHolder, SignCall
<1>8. \A c \in Contract : PartyTo(c)' = PartyTo(c)
  BY <1>2 DEF PartyTo
<1>9. HolderState'
  BY <1>1, <1>2, <1>3, <1>6, <1>8 DEF HolderState, SignCall, Holds
<1>10. CountersignedAreEmployed' /\ HiredUnderOneContract'
  BY <1>1, <1>2, <1>8 DEF CountersignedAreEmployed, HiredUnderOneContract
<1>11. HireIsPaidOnce'
  BY <1>2, <1>8 DEF HireIsPaidOnce, HiredContract
<1>12. SignedHaveOffer' /\ SignedFilesAreDistinct' /\ NothingBeforeEmployee'
  BY <1>2 DEF SignedHaveOffer, SignedFilesAreDistinct, NothingBeforeEmployee
<1> QED BY <1>4, <1>5, <1>7, <1>9, <1>10, <1>11, <1>12

LEMMA OnboardKeeps ==
  ASSUME HiringInv, NEW r \in Caller, HrOnboard(r)
  PROVE  HiringInv'
<1> USE OffersAssumption, HiringAssumption
<1> USE DEF HiringInv, HiringTypeOK, OffersTypeOK, offerVars
<1> DEFINE call == signCalls[r]
           p    == call.candidate
<1>1. /\ call \in SignCall /\ call.at = "hr.onboarding" /\ Holds(r)
      /\ call.contract \in countersigned /\ p = PartyTo(call.contract) /\ p \in Candidate
      /\ employees[p] # NULL /\ bonuses[p] = 0 /\ onboardings[p] = 0
  BY DEF HrOnboard, CallerAt, SignCallShape, OnContract, Holds, Holding, OneHolder, HolderState, SignCall
<1>2. /\ onboardings' = [onboardings EXCEPT ![p] = 1]
      /\ UNCHANGED <<offerVars, uploads, signature, countersigned, employees, bonuses>>
  BY <1>1 DEF HrOnboard
<1>3. PICK next \in SignCall \cup {NULL} :
        /\ signCalls' = [signCalls EXCEPT ![r] = next]
        /\ next # NULL => /\ next = [call EXCEPT !.at = "hr.bonus"]
                          /\ contracts[call.contract] \in BonusOffers
  <2>1. [call EXCEPT !.at = "hr.bonus"] \in SignCall
    BY <1>1 DEF SignCall
  <2> QED BY <2>1 DEF HrOnboard, CallerGoto, CallerFinish
<1>4. /\ signCalls'[r] = next /\ \A s \in Caller \ {r} : signCalls'[s] = signCalls[s]
      /\ next # NULL => next.at = "hr.bonus" /\ next.candidate = p /\ next.contract = call.contract
  BY <1>1, <1>3 DEF SignCall
<1>5. OffersInv' /\ HiringTypeOK'
  BY <1>1, <1>2, <1>3, OffersUntouched
<1>6. SignCallShape' /\ FilesInFlight'
  BY <1>1, <1>2, <1>4 DEF SignCallShape, FilesInFlight, CallerAt, OnContract, PartyTo
<1>7. \A s \in Caller \ {r} :
        Holds(s)' => /\ Holds(s) /\ signCalls'[s] = signCalls[s]
                     /\ signCalls[s].candidate \in Candidate /\ signCalls[s].candidate # p
  BY <1>1, <1>4 DEF Holds, OneHolder, SignCall
<1>8. OneHolder'
  BY <1>1, <1>2, <1>4, <1>7 DEF OneHolder, Holds
<1>9. HolderState'
  BY <1>1, <1>2, <1>3, <1>4, <1>7 DEF HolderState, Holds, PartyTo
<1>10. HireIsPaidOnce' /\ NothingBeforeEmployee'
  BY <1>1, <1>2 DEF HireIsPaidOnce, HiredContract, PartyTo, NothingBeforeEmployee
<1>11. /\ SignedHaveOffer' /\ SignedFilesAreDistinct'
       /\ CountersignedAreEmployed' /\ HiredUnderOneContract'
  BY <1>2 DEF SignedHaveOffer, SignedFilesAreDistinct, CountersignedAreEmployed,
              HiredUnderOneContract, PartyTo
<1> QED BY <1>5, <1>6, <1>8, <1>9, <1>10, <1>11

LEMMA BonusKeeps ==
  ASSUME HiringInv, NEW r \in Caller, HrCreateBonus(r)
  PROVE  HiringInv'
<1> USE OffersAssumption, HiringAssumption
<1> USE DEF HiringInv, HiringTypeOK, OffersTypeOK, offerVars
<1> DEFINE call == signCalls[r]
           p    == call.candidate
<1>1. /\ call \in SignCall /\ call.at = "hr.bonus" /\ Holds(r)
      /\ call.contract \in countersigned /\ p = PartyTo(call.contract) /\ p \in Candidate
      /\ contracts[call.contract] \in BonusOffers
      /\ employees[p] # NULL /\ bonuses[p] = 0 /\ onboardings[p] = 1
  BY DEF HrCreateBonus, CallerAt, SignCallShape, OnContract, Holds, Holding, OneHolder, HolderState, SignCall
<1>2. /\ bonuses' = [bonuses EXCEPT ![p] = 1]
      /\ signCalls' = [signCalls EXCEPT ![r] = NULL]
      /\ UNCHANGED <<offerVars, uploads, signature, countersigned, employees, onboardings>>
  BY <1>1 DEF HrCreateBonus, CallerFinish
<1>3. OffersInv' /\ HiringTypeOK'
  BY <1>1, <1>2, OffersUntouched
<1>4. SignCallShape' /\ FilesInFlight'
  BY <1>2 DEF SignCallShape, FilesInFlight, CallerAt, OnContract, PartyTo
<1>5. \A s \in Caller :
        Holds(s)' => /\ Holds(s) /\ signCalls'[s] = signCalls[s]
                     /\ signCalls[s].candidate \in Candidate /\ signCalls[s].candidate # p
  BY <1>1, <1>2 DEF Holds, OneHolder, SignCall
<1>6. OneHolder' /\ HolderState'
  BY <1>2, <1>5 DEF OneHolder, HolderState, PartyTo
<1>7. HireIsPaidOnce' /\ NothingBeforeEmployee'
  BY <1>1, <1>2 DEF HireIsPaidOnce, HiredContract, PartyTo, NothingBeforeEmployee
<1>8. /\ SignedHaveOffer' /\ SignedFilesAreDistinct'
      /\ CountersignedAreEmployed' /\ HiredUnderOneContract'
  BY <1>2 DEF SignedHaveOffer, SignedFilesAreDistinct, CountersignedAreEmployed,
              HiredUnderOneContract, PartyTo
<1> QED BY <1>3, <1>4, <1>6, <1>7, <1>8

-----------------------------------------------------------------------------

THEOREM HiringInvariant == HiringSpec => []HiringInv
<1>1. HiringInv /\ [HiringNext]_hiringVars => HiringInv'
  <2> SUFFICES ASSUME HiringInv, [HiringNext]_hiringVars PROVE HiringInv'
    OBVIOUS
  <2>1. CASE OffersNext /\ UNCHANGED signingVars
    BY <2>1, OffersStep, ContractsStay, OfferStepKeepsHiring DEF HiringInv
  <2>2. ASSUME NEW r \in Caller, SignRequest(r) \/ SignStep(r) \/ SignCallFails(r)
        PROVE  HiringInv'
    BY <2>2, CallMovesOnly, UploadKeeps, SignatureKeeps, InsertKeeps, CountersignKeeps,
       OnboardKeeps, BonusKeeps DEF SignStep
  <2>3. CASE UNCHANGED hiringVars
    <3>1. OffersInv'
      BY <2>3, OffersUntouched DEF hiringVars, HiringInv, OffersInv, OffersTypeOK
    <3> QED BY <2>3, <3>1, OfferStepKeepsHiring DEF hiringVars, signingVars
  <2> QED BY <2>1, <2>2, <2>3 DEF HiringNext
<1> QED BY HiringInitially, <1>1, PTL DEF HiringSpec

\* Every collection, file and call in flight keeps its type.
THEOREM HiringTypeCorrect == HiringSpec => []HiringTypeOK
BY HiringInvariant, PTL DEF HiringInv

\* A countersigned contract belongs to an employee, whatever overlaps or fails.
THEOREM CountersignedEmployed == HiringSpec => []CountersignedAreEmployed
BY HiringInvariant, PTL DEF HiringInv

\* No two contracts of one candidate are countersigned.
THEOREM OneContractPerHire == HiringSpec => []HiredUnderOneContract
BY HiringInvariant, PTL DEF HiringInv

\* A hire is onboarded and paid its bonus at most once, for the contract signed.
THEOREM PaidOnce == HiringSpec => []HireIsPaidOnce
BY HiringInvariant, PTL DEF HiringInv

\* No two contracts share a signed file.
THEOREM FilesDistinct == HiringSpec => []SignedFilesAreDistinct
BY HiringInvariant, PTL DEF HiringInv

-----------------------------------------------------------------------------
(* The refinement.  A step on a contract, a signature, a profile, a task   *)
(* list or a bonus is the promise's action; every other step stutters.     *)

Signed   == {c \in Contract : signature[c] # NULL}
Employed == {p \in Candidate : employees[p] # NULL}

LEMMA PromiseInitially == HiringInit => Promise!PromiseInit
BY DEF HiringInit, OffersInit, Promise!PromiseInit, Party

LEMMA PromiseStutters ==
  ASSUME UNCHANGED <<contracts, signature, employees, countersigned, onboardings, bonuses>>
  PROVE  UNCHANGED Promise!promiseVars
BY DEF Promise!promiseVars, Party, PartyTo

LEMMA OfferStepsPromise ==
  ASSUME HiringInv, OffersNext, UNCHANGED signingVars
  PROVE  [Promise!PromiseNext]_Promise!promiseVars
<1> USE OffersAssumption DEF signingVars
<1>1. ASSUME NEW h \in Handler, NEW c \in Contract, RespondCreateContract(h, c)
      PROVE  Promise!PromiseNext
  <2> DEFINE o == offerCalls[h].offer
  <2>1. o \in Offer /\ CandidateOf[o] \in Candidate /\ o # NULL
    BY <1>1 DEF RespondCreateContract, At, HiringInv, OffersInv, OffersTypeOK, OfferCall
  <2>2. contracts[c] = NULL /\ contracts' = [contracts EXCEPT ![c] = o]
    BY <1>1 DEF RespondCreateContract
  <2>3. Party[c] = NULL /\ Party' = [Party EXCEPT ![c] = CandidateOf[o]]
    BY <2>1, <2>2 DEF Party, PartyTo, HiringInv, OffersInv, OffersTypeOK
  <2>4. Promise!DrawUp(c, CandidateOf[o])
    BY <2>3 DEF Promise!DrawUp
  <2> QED BY <2>1, <2>4 DEF Promise!PromiseNext
<1>2. CASE UNCHANGED contracts
  BY <1>2, PromiseStutters
<1>3. UNCHANGED contracts \/ \E h \in Handler, c \in Contract : RespondCreateContract(h, c)
  BY DEF OffersNext, OfferRequest, OfferStep, CreateOffer,
         AddOfferApprover, ApproveOffer, SendOffer, CandidateRespondOffer,
         AddApproverSaveApprovers, AddApproverSavePending, ApproveSave, SendSaveStatus,
         SendSaveCandidate, RespondSaveCandidate, RespondSave, OfferCallFails
<1> QED BY <1>1, <1>2, <1>3

LEMMA PromiseSteps ==
  /\ \A c \in Contract : Promise!EmployeeSigns(c) \/ Promise!Countersign(c) => Promise!PromiseNext
  /\ \A p \in Candidate : Promise!Employ(p) \/ Promise!Onboard(p) \/ Promise!GrantBonus(p)
       => Promise!PromiseNext
BY DEF Promise!PromiseNext

LEMMA SigningStepsPromise ==
  ASSUME HiringInv, NEW r \in Caller, SignRequest(r) \/ SignStep(r) \/ SignCallFails(r)
  PROVE  [Promise!PromiseNext]_Promise!promiseVars
<1> USE OffersAssumption, HiringAssumption
<1> USE DEF HiringInv, HiringTypeOK, OffersTypeOK
<1> DEFINE call == signCalls[r]
           p    == call.candidate
<1>1. CASE UNCHANGED <<contracts, signature, employees, countersigned, onboardings, bonuses>>
  BY <1>1, PromiseStutters
<1>2. CASE SignSave(r)
  <2>1. /\ call.contract \in Contract /\ contracts[call.contract] # NULL /\ call.file # NULL
        /\ PartyTo(call.contract) # NULL
    BY <1>2 DEF SignSave, CallerAt, SignCallShape, OnContract, SignCall
  <2>2. /\ signature' = [signature EXCEPT ![call.contract] = call.file]
        /\ UNCHANGED <<contracts, employees, countersigned, onboardings, bonuses>>
    BY <1>2 DEF SignSave, offerVars
  <2>3. Signed' = Signed \cup {call.contract} /\ Party[call.contract] # NULL
    BY <2>1, <2>2 DEF Signed, Party
  <2>4. PICK c \in Contract : c = call.contract
    BY <2>1
  <2>5. Promise!EmployeeSigns(c)
    BY <2>2, <2>3, <2>4 DEF Promise!EmployeeSigns, Signed, Party, PartyTo
  <2> QED BY <2>5, PromiseSteps
<1>3. CASE (HrCreateEmployee(r) \/ ConvertCreateEmployee(r)) /\ employees[p] = NULL
  <2>1. p \in Candidate /\ call.email # NULL
    BY <1>3 DEF HrCreateEmployee, ConvertCreateEmployee, CallerAt, SignCall
  <2>2. /\ employees' = [employees EXCEPT ![p] = call.email]
        /\ UNCHANGED <<contracts, signature, countersigned, onboardings, bonuses>>
    BY <1>3 DEF HrCreateEmployee, ConvertCreateEmployee, InsertEmployee, offerVars
  <2>3. p \notin Employed /\ Employed' = Employed \cup {p}
    BY <1>3, <2>1, <2>2 DEF Employed
  <2>4. PICK q \in Candidate : q = p
    BY <2>1
  <2>5. Promise!Employ(q)
    BY <2>2, <2>3, <2>4 DEF Promise!Employ, Employed, Party, PartyTo
  <2> QED BY <2>5, PromiseSteps
<1>4. CASE HrCountersign(r)
  <2> DEFINE d == call.contract
  <2>1. /\ d \in Contract /\ contracts[d] # NULL /\ p = PartyTo(d) /\ p \in Candidate
        /\ signature[d] # NULL /\ employees[p] # NULL
        /\ \A c \in countersigned : PartyTo(c) # p
    BY <1>4 DEF HrCountersign, CallerAt, SignCallShape, OnContract, Holds, Holding, OneHolder,
                HolderState, SignCall
  <2>2. /\ countersigned' = countersigned \cup {d}
        /\ UNCHANGED <<contracts, signature, employees, onboardings, bonuses>>
    BY <1>4 DEF HrCountersign, offerVars
  <2>3. Party[d] = p /\ \A c \in countersigned : Party[c] # p
    BY <2>1 DEF Party, CountersignedAreEmployed
  <2>4. Promise!Countersign(d)
    BY <2>1, <2>2, <2>3 DEF Promise!Countersign, Promise!Hired, Party, PartyTo
  <2> QED BY <2>1, <2>4, PromiseSteps
<1>5. CASE HrOnboard(r)
  <2>1. /\ call.contract \in countersigned /\ call.contract \in Contract
        /\ contracts[call.contract] # NULL /\ p = PartyTo(call.contract) /\ p \in Candidate
        /\ onboardings[p] = 0
    BY <1>5 DEF HrOnboard, CallerAt, SignCallShape, OnContract, Holds, Holding, HolderState, SignCall
  <2>2. /\ onboardings' = [onboardings EXCEPT ![p] = onboardings[p] + 1]
        /\ UNCHANGED <<contracts, signature, employees, countersigned, bonuses>>
    BY <1>5 DEF HrOnboard, offerVars
  <2>3. onboardings' = [onboardings EXCEPT ![p] = 1]
    BY <2>1, <2>2
  <2>4. Promise!Onboard(p)
    BY <2>1, <2>2, <2>3 DEF Promise!Onboard, Promise!Hired, Party, PartyTo
  <2> QED BY <2>1, <2>4, PromiseSteps
<1>6. CASE HrCreateBonus(r)
  <2>1. p \in Candidate /\ onboardings[p] = 1 /\ bonuses[p] = 0
    BY <1>6 DEF HrCreateBonus, CallerAt, Holds, Holding, HolderState, SignCall
  <2>2. /\ bonuses' = [bonuses EXCEPT ![p] = bonuses[p] + 1]
        /\ UNCHANGED <<contracts, signature, employees, countersigned, onboardings>>
    BY <1>6 DEF HrCreateBonus, offerVars
  <2>3. bonuses' = [bonuses EXCEPT ![p] = 1]
    BY <2>1, <2>2
  <2>4. Promise!GrantBonus(p)
    BY <2>1, <2>2, <2>3 DEF Promise!GrantBonus, Party, PartyTo
  <2> QED BY <2>1, <2>4, PromiseSteps
<1>7. \/ UNCHANGED <<contracts, signature, employees, countersigned, onboardings, bonuses>>
      \/ SignSave(r) \/ HrCountersign(r) \/ HrOnboard(r) \/ HrCreateBonus(r)
      \/ (HrCreateEmployee(r) \/ ConvertCreateEmployee(r)) /\ employees[p] = NULL
  BY DEF SignRequest, HrRequest, SignContract, HrSignContract, ConvertCandidate, SignStep,
         SignUpload, HrSaveHired, HrCheckEmail, HrBonusNotConfigured, HrCreateEmployee,
         ConvertCreateEmployee, InsertEmployee, ConvertSaveHired, SignCallFails, offerVars
<1> QED BY <1>1, <1>2, <1>3, <1>4, <1>5, <1>6, <1>7

\* The pipeline implements the promise.
THEOREM HiringImplementsPromise == HiringSpec => HiringKeepsPromise
<1>1. HiringInv /\ [HiringNext]_hiringVars => [Promise!PromiseNext]_Promise!promiseVars
  <2>1. ASSUME UNCHANGED hiringVars PROVE UNCHANGED Promise!promiseVars
    BY <2>1, PromiseStutters DEF hiringVars
  <2> QED BY <2>1, OfferStepsPromise, SigningStepsPromise DEF HiringNext
<1> QED BY PromiseInitially, HiringInvariant, <1>1, PTL
        DEF HiringSpec, HiringKeepsPromise, Promise!PromiseSpec
=============================================================================
