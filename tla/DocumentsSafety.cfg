CONSTANTS
  Calls = {c1, c2, c3}
  Candidates = {p1}
  Documents = {d1}
  CandidateOf <- OneCandidate
  RightToWork = {d1}
  MaxVersions = 3
  None = None
SPECIFICATION Spec
SYMMETRY Symmetric
INVARIANTS
  DocumentsInv
PROPERTIES
  AuditTellsTheTruth
  ImplementsDocumentHistory
