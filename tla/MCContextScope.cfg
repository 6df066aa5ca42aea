CONSTANTS
  Names = {x}
  Values = {a, b}
  Undef = Undef
  MaxLevels = 3
  MaxDepth = 3
SYMMETRY Symmetry
SPECIFICATION Spec
PROPERTIES
  GlobalUntouched
  LetReplaces
  GSetSeen
CHECK_DEADLOCK FALSE
