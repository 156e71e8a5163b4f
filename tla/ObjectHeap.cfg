SPECIFICATION Spec
CONSTANTS
  Obj = {k, o1, o2}
  Field = {class, ref}
  ClassField = class
  Root = {r1, r2}
  Kernel = k
  Nil = Nil
  Stale = Stale
  Swept = Swept
  NewCells = 2
  PageCells = 1
  MaxPages = 2
  MaxNesting = 1
  Finalizable = {}
  Unbarriered = {}
SYMMETRY Symmetry
CHECK_DEADLOCK FALSE
INVARIANTS TypeOK NoDangling HeapVerified RememberedComplete TagsAgree MarksClear
PROPERTIES SweepFreesGarbage ProgramSpec
