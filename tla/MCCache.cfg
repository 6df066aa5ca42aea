SPECIFICATION Spec
CONSTANTS
  Thread = {t1, t2}
  Obj = {o1, o2, o3, o4}
  None = None
  MaxWrites = 2
  MaxLeaks = 1
SYMMETRY Users
INVARIANTS TypeOK RefsExact FreshUnlessTorn
