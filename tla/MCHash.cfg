SPECIFICATION Spec
CONSTANTS
  Key <- MCKey
  HashOf <- MCHashOf
  InitSize = 2
  None = None
  MaxChanges = 1
  MaxFailures = 1
INVARIANTS TypeOK Verified ScanSeesAll ScanNoRepeat ClearFreesAll
PROPERTY ImplementsMap
