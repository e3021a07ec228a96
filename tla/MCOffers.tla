------------------------------ MODULE MCOffers ------------------------------
(* One candidate with one offer, two approvers, two overlapping requests.  *)
EXTENDS Offers, TLC

CONSTANTS candidate

MCCandidate == {candidate}
MCCandidateOf == [o \in Offer |-> candidate]

Symmetry == Permutations(Approver) \cup Permutations(Handler) \cup Permutations(Contract)
=============================================================================
