SPECIFICATION SetSpec
CONSTANTS
  Obj = {o1, o2, o3, o4}
  Finalizable = {o3, o4}
  BlockSize = 2
CHECK_DEADLOCK FALSE
INVARIANTS EachOnce ScanComplete
