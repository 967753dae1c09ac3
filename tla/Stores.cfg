SPECIFICATION Spec
CONSTANTS
  Fetches = {f1, f2, f3}
  MaxRotations = 1
  Nobody = nobody
CHECK_DEADLOCK FALSE
INVARIANTS
  UsesItsOwn
  OneClientPerCredential
  SecretsAreScrubbed
