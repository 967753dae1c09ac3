SPECIFICATION Spec
CONSTANTS
  Emitters = {e1, e2}
  Controllers = {p, q}
  CAPACITY = 1
  MaxLines = 3
  MaxChannels = 2
  MaxRequests = 2
  HasGIL = FALSE
CHECK_DEADLOCK FALSE
INVARIANT NeverMute
