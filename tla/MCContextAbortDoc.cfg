CONSTANTS
  Names = {}
  Values = {a}
  Undef = Undef
  MaxLevels = 2
  MaxDepth = 2
SPECIFICATION Spec
INVARIANTS
  AbortStopsHere
CHECK_DEADLOCK FALSE
