SPECIFICATION Spec
CONSTANTS
  Obj = {k, o1, o2, o3}
  Field = {class}
  ClassField = class
  Root = {r1, r2}
  Kernel = k
  Nil = Nil
  Stale = Stale
  Swept = Swept
  NewCells = 2
  PageCells = 1
  MaxPages = 3
  MaxNesting = 2
  Finalizable = {o1, o2, o3}
  Unbarriered = {}
SYMMETRY Symmetry
CHECK_DEADLOCK FALSE
PROPERTIES FinalizedOnce
