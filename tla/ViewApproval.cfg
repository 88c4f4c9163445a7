CONSTANTS
  Document = document
  Candidate = candidate
  MaxVersions = 2
  MaxRefreshes = 1
SPECIFICATION Spec
PROPERTIES
  ApprovesTheVersionShown
CHECK_DEADLOCK FALSE
