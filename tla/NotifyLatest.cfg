SPECIFICATION Spec
CONSTANTS
  Followers = {f}
  Singles = {}
  Auditors = {}
  Programs = {{f}}
  MaxInstalls = 2
  MaxRefusals = 0
  HasGIL = TRUE
  MayRelease = FALSE
  NoFuture = NoFuture
  Pending = Pending
CHECK_DEADLOCK FALSE
INVARIANT LatestWins
