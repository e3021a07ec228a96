-------------------------- MODULE MCReimbursements ---------------------------
(* Two disputes of one payslip and an expense claim, two requests at a time. *)
(* The model values of a set are interchangeable.                           *)
EXTENDS Reimbursements, TLC

Symmetry == Permutations(Agent) \cup Permutations(Dispute)
=============================================================================
