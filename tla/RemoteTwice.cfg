SPECIFICATION Spec
CONSTANTS
  Calls = {c1, c2}
  MaxSources = 1
  None = none
CHECK_DEADLOCK FALSE
INVARIANT HandedOnce
