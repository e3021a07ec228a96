SPECIFICATION OffersSpec
CONSTANTS
  Offer = {o1}
  candidate = cand
  Candidate <- MCCandidate
  CandidateOf <- MCCandidateOf
  Contract = {c1, c2}
  Approver = {a1, a2}
  Handler = {h1, h2}
  MaxFailures = 1
  NULL = NULL
SYMMETRY Symmetry
CHECK_DEADLOCK FALSE
PROPERTY SentOffersAreApproved
