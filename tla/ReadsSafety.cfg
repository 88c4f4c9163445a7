CONSTANTS
  Reads = {r1}
  Candidates = {p1, p2}
  Documents = {d1, d2}
  CandidateOf <- OneCandidate
  MaxVersions = 2
  Expiring <- FirstExpires
  None = None
SPECIFICATION Spec
SYMMETRY Symmetric
INVARIANTS
  ReadsInv
  RemovedStaysHidden
  HistoryHoldsItsCurrent
  ExpiringByCurrentVersion
CHECK_DEADLOCK FALSE
