SPECIFICATION Spec
CONSTANTS
  Employee = {emp}
  Termination = {t1, t2}
  Checklist = {k1, k2}
  Department = {d1}
  Equipment = {keys}
  Agent = {a1}
  MaxFailures = 0
  Card = card
  NULL = NULL
SYMMETRY Symmetry
INVARIANT OneActiveRequest
