CONSTANTS
  Calls = {c1, c2}
  Candidates = {p1}
  Extractions = {x1, x2}
  CandidateOf <- OneCandidate
  Fields = {fullName, roleAppliedFor}
  Values = {v1, v2}
  None = None
SPECIFICATION Spec
SYMMETRY Symmetric
INVARIANTS
  CandidatesInv
PROPERTIES
  DecisionsAreAudited
  ImplementsCandidateHistory
