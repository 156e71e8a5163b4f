SPECIFICATION Spec
CONSTANTS
  Class = {k, a}
  Selector = {s, t}
  sender = sender
  superSender = superSender
  other = t
  Method = {leaf, sender, superSender}
  Body <- MCBody
  SelectorOf <- MCSelectorOf
  Kernel = k
  KernelSymbol = s
  KernelMethod = leaf
  Nil = Nil
  NewCells = 2
  CacheSize = 2
  Hash <- MCHash
  MaxDepth = 3
  Redefines = TRUE
INVARIANTS EntriesAnswer  LiteralsFollow
PROPERTIES LookupEnds
