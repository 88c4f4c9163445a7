CONSTANTS
  Forms = {f1}
  Inputs = {i1, i2}
  Sessions = {s1, s2}
  MaxRequests = 3
  MaxSelections = 1
  None = None
SPECIFICATION Spec
SYMMETRY Symmetric
INVARIANTS
  TypeOK
  RetriesWriteOnce
  SuccessIsOwn
  KeysAreNeverReused
PROPERTIES
  NoRefusalAfterWrite
  ConfirmsWhatIsShown
CHECK_DEADLOCK FALSE
