CONSTANTS
  Document = document
  Candidate = candidate
  MaxVersions = 4
  MaxRefreshes = 2
SPECIFICATION Spec
INVARIANTS
  ViewInv
PROPERTIES
  ShownNeverRegresses
CHECK_DEADLOCK FALSE
