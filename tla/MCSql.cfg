SPECIFICATION Spec
CONSTANTS
  Dsn = {d1, d2}
  Conn = {c1, c2}
  None = None
  MaxDepth = 4
  MaxAborts = 1
SYMMETRY Handles
INVARIANTS TypeOK RefsExact PooledStmtFirst FailureRollsBack WorkDecided
