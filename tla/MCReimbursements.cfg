SPECIFICATION Spec
CONSTANTS
  Dispute = {d1, d2}
  Claim = {c1}
  Payslip = {p1}
  Agent = {a1, a2}
  MaxAmount = 1
  NULL = NULL
SYMMETRY Symmetry
INVARIANT SignedAsStatusSays
INVARIANT RefundsAreAuthorised
INVARIANT WithinClaim
INVARIANT OneRefundEach
CHECK_DEADLOCK FALSE
