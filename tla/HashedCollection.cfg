SPECIFICATION Spec
CONSTANTS
  a = a b = b c = c d = d
  Keys = {a, b, c, d}
  Values = {nil, one}
  Nil = nil
  Hash <- MCHash
  InitialSize = 2
  Named = {a}
  MaxSize = 16
  MaxRemovals = 1
CHECK_DEADLOCK FALSE
INVARIANT SearchEnds
PROPERTIES OperationsOfMap BindingsShared
