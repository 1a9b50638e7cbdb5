SPECIFICATION Spec
CONSTANTS
  Thread = {t1, t2}
  t1 = t1
  t2 = t2
  MaxNode = 4
  MaxSize = 5
  MaxTask = 2
  MaxRun = 2
  MaxDepth = 3
SYMMETRY Symmetry
INVARIANTS TypeOK LinksToLast NoLeak
CHECK_DEADLOCK FALSE
