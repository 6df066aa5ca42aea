CONSTANTS
  Names = {x}
  Values = {a}
  Undef = Undef
  MaxLevels = 2
  MaxDepth = 2
SPECIFICATION Spec
PROPERTIES
  TryIsLocal
CHECK_DEADLOCK FALSE
