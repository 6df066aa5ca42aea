CONSTANTS
  Names = {}
  Values = {a}
  Undef = Undef
  MaxLevels = 2
  MaxDepth = 3
SPECIFICATION Spec
INVARIANTS
  ThrowHaltsTry
CHECK_DEADLOCK FALSE
