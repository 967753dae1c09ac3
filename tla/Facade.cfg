SPECIFICATION Program
CONSTANTS
  Paths = {a, b}
  Values = {v, w}
  MaxDepth = 2
  Unset = unset
  MaxCalls = 4
  Tasks = {t, u}
  Theirs = {pool}
  MaxPools = 3
  None = none
  Emitters = {e1, e2}
  Controllers = {p, q}
  CAPACITY = 1
  MaxLines = 3
  MaxChannels = 2
  MaxRequests = 3
  HasGIL = TRUE
CHECK_DEADLOCK FALSE
INVARIANTS
  PoolIsLive
  PoolsEnd
  NeverMute
PROPERTIES
  BlocksLeaveNoTrace
