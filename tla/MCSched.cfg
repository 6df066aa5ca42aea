CONSTANTS
  e1 = e1  e2 = e2
  w1 = w1  w2 = w2
  s1 = s1
  n1 = n1
  None = None
  Names = {n1}
  Elems = {e1, e2}
  Workers = {w1, w2}
  Scripts = {s1}
  Plans <- MCPlans
  OKLate = 1
  Start = 2
  Horizon = 4
SPECIFICATION FairSpec
INVARIANTS
  TypeOK
  LiveIffHeld
  OneHolder
  NamesLive
PROPERTY
  EventuallyFired
CHECK_DEADLOCK FALSE
