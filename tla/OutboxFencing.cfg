CONSTANTS
  Workers = {w1, w2, w3}
  WorkerIds = {w1, w2, w3}
  IdOf <- DistinctIds
  Requests = {r1}
  MaxAttempts = 3
  None = None
SPECIFICATION FairSpec
INVARIANTS
  TypeOK
  GuardFencesOldClaims
  DecidedByNewestClaim
PROPERTIES
  AttemptCountNeverRegresses
  ImplementsFairPromise
