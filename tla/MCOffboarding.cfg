SPECIFICATION Spec
CONSTANTS
  Employee = {emp}
  Termination = {t1}
  Checklist = {k1, k2}
  Department = {d1}
  Equipment = {keys}
  Agent = {a1, a2}
  MaxFailures = 0
  Card = card
  NULL = NULL
SYMMETRY Symmetry
INVARIANT ApprovalIsEarned
INVARIANT AccessGoesWithApproval
INVARIANT CompletionIsNoticed
