SPECIFICATION FairSpec
CONSTANTS
  Employee = {emp}
  Termination = {t1}
  Checklist = {k1}
  Department = {d1}
  Equipment = {keys}
  Agent = {a1, a2}
  MaxFailures = 1
  Card = card
  NULL = NULL
PROPERTY ReadyIsRevoked
