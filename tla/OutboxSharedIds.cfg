CONSTANTS
  Workers = {w1, w2}
  WorkerIds = {pid}
  IdOf <- SharedId
  Requests = {r1, r2}
  MaxAttempts = 2
  None = None
SPECIFICATION Spec
SYMMETRY Symmetric
INVARIANTS
  OutboxAgreesWithRequest
  VerifierCalledOncePerAttempt
  ExhaustionIsEarned
  AuditTrailMatchesStatus
PROPERTIES
  DecisionIsFinal
