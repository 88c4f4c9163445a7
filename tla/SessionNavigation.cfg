CONSTANTS
  Users = {u1}
  Tenants = {t1, t2}
  Tabs = {tab1}
  MaxTokens = 2
  MaxSteps = 2
  MaxChanges = 1
  None = None
SPECIFICATION FairSpec
INVARIANTS
  TypeOK
PROPERTIES
  OwnLogoutSparesLogin
  WorkspaceWasAuthorised
  NavigationSettles
CHECK_DEADLOCK FALSE
