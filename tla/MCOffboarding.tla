---------------------------- MODULE MCOffboarding ----------------------------
(* One employee whose clearance two requests at a time work on.  The model  *)
(* values of a set are interchangeable.                                    *)
EXTENDS Offboarding, TLC

Symmetry == Permutations(Agent) \cup Permutations(Checklist) \cup Permutations(Department)
=============================================================================
