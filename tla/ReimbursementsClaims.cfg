SPECIFICATION Spec
CONSTANTS
  Dispute = {}
  Claim = {c1}
  Payslip = {}
  Agent = {a1}
  MaxAmount = 1
  NULL = NULL
INVARIANT ClaimRefundsAreApproved
CHECK_DEADLOCK FALSE
