------------------------------ MODULE MCHiring ------------------------------
(* One candidate and one offer that may be accepted twice; its two         *)
(* contracts are signed by two overlapping requests.                       *)
EXTENDS Hiring, TLC

CONSTANTS candidate

MCCandidate == {candidate}
MCCandidateOf == [o \in Offer |-> candidate]

Symmetry == Permutations(Caller) \cup Permutations(Contract) \cup Permutations(FileName)
=============================================================================
