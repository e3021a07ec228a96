SPECIFICATION FairHiringSpec
CONSTANTS
  Offer = {o1}
  BonusOffers = {}
  candidate = cand
  Candidate <- MCCandidate
  CandidateOf <- MCCandidateOf
  Contract = {c1}
  Approver = {}
  Handler = {h1}
  Caller = {r1, r2}
  FileName = {f1}
  MaxFailures = 1
  NULL = NULL
CHECK_DEADLOCK FALSE
PROPERTY SignedIsEmployed
PROPERTY SignedIsOnboarded
