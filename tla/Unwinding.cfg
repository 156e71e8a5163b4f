SPECIFICATION Spec
CONSTANTS
  Ctx = {c1, c2, c3, c4}
  None = None
  Exc = {error}
  Caught = {{}, {error}}
  CannotReturn = error
  MaxDepth = 6
  ScopeFrames = 1
  DefaultReturns = FALSE
  LeaveC = FALSE
SYMMETRY Symmetry
CHECK_DEADLOCK FALSE
INVARIANTS HandlersInstalled EntriesOnStack
PROPERTIES InnermostCatches
