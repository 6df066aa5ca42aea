SPECIFICATION FairSpec
CONSTANTS
  Proc = {p1, p2}
  File = {f1, f2, f3}
  None = None
  MaxVal = 1
  MaxCorrupt = 2
  MaxTries = 2
  MaxRetry = 2
INVARIANTS TypeOK CounterExact RecoveryKeepsGood
PROPERTY CallsEnd
CHECK_DEADLOCK FALSE
