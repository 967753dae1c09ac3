SPECIFICATION FairSpec
CONSTANTS
  Followers = {f}
  Singles = {s}
  Auditors = {e}
  Programs = {{f, s}, {e}}
  MaxInstalls = 2
  MaxRefusals = 2
  HasGIL = TRUE
  MayRelease = TRUE
  NoFuture = NoFuture
  Pending = Pending
CHECK_DEADLOCK FALSE
INVARIANTS
  WaitersAreServed
  WakeIsCurrent
PROPERTIES
  StreamsCatchUp
  EndsOnlyByRelease
