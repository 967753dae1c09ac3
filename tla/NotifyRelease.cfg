SPECIFICATION FairSpec
CONSTANTS
  Followers = {f}
  Singles = {}
  Auditors = {}
  Programs = {{f}}
  MaxInstalls = 1
  MaxRefusals = 0
  HasGIL = TRUE
  MayRelease = TRUE
  NoFuture = NoFuture
  Pending = Pending
CHECK_DEADLOCK FALSE
PROPERTY ReleaseEndsThreads
