CONSTANTS
  Keys <- MCKeys
  Stores = {a}
  MaxCount = 7
SPECIFICATION Spec
INVARIANTS
  TypeOK
  Conserved
  SmallIsHeap
PROPERTY
  RemoveBreaksOneEdge
