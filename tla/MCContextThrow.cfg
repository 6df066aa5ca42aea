CONSTANTS
  Names = {}
  Values = {a}
  Undef = Undef
  MaxLevels = 2
  MaxDepth = 6
SPECIFICATION Spec
INVARIANTS
  TypeOK
  TryBalanced
  PrintedOutsideTry
  SafeModeKept
CHECK_DEADLOCK FALSE
