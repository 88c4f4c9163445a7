CONSTANTS
  Calls = {c1, c2}
  create = create
  transition = transition
  remove = remove
  Keys = {create, transition, remove}
  KindOf <- KindOfKey
  Payloads = {p1, p2}
  None = None
SPECIFICATION FairSpec
INVARIANTS
  TypeOK
  EffectsMatchRecords
PROPERTIES
  ImplementsKeyedWrite
  EveryCallEnds
CHECK_DEADLOCK FALSE
