SPECIFICATION Spec
CONSTANTS
  Calls = {c1, c2, c3}
  MaxSources = 2
  None = none
CHECK_DEADLOCK FALSE
INVARIANTS
  FailuresAreOwned
  AloneGetsItsOwn
  DocumentsAreTheStores
