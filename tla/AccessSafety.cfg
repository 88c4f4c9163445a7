CONSTANTS
  t1 = t1
  t2 = t2
  x1 = x1
  x2 = x2
  Users = {u1}
  Tenants = {t1, t2}
  Rows = {x1, x2}
  Owner <- RowOfEach
  Calls = {c1, c2}
  Connections = {k1, k2}
  Operations = {"getCandidate", "createCandidate", "updateCandidate"}
  Granted = {"RECRUITER", "VIEWER"}
  None = None
SPECIFICATION Spec
SYMMETRY Symmetric
INVARIANTS
  SettingsEndWithTransaction
  ActedWithinRole
  WritersAreMembers
PROPERTIES
  SeesExactlyItsTenant
