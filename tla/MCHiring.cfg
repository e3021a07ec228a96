SPECIFICATION HiringSpec
CONSTANTS
  Offer = {o1}
  BonusOffers = {o1}
  candidate = cand
  Candidate <- MCCandidate
  CandidateOf <- MCCandidateOf
  Contract = {c1, c2}
  Approver = {}
  Handler = {h1}
  Caller = {r1, r2}
  FileName = {f1, f2}
  MaxFailures = 1
  NULL = NULL
SYMMETRY Symmetry
INVARIANT HiringTypeOK
INVARIANT CountersignedAreEmployed
INVARIANT HiredUnderOneContract
INVARIANT HireIsPaidOnce
INVARIANT SignedFilesAreDistinct
CHECK_DEADLOCK FALSE
PROPERTY HiringKeepsPromise
