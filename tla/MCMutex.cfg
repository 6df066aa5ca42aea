CONSTANTS
  t1 = t1  t2 = t2  t3 = t3
  p1 = p1  p2 = p2
  f1 = f1  f2 = f2
  None = None
  Threads = {t1, t2, t3}
  Procs = {p1, p2}
  Files = {f1, f2}
  ProcOf <- MCProcOf
  OfdOf <- MCOfdOf
  MaxNest = 2
SPECIFICATION FairSpec
INVARIANTS
  TypeOK
  SameProcessExclusion
  CrossProcessExclusion
  NoRefusedUnlock
  FlockNotLeaked
PROPERTY
  Progress
CHECK_DEADLOCK FALSE
