SPECIFICATION Spec
CONSTANTS
    InstVars <- InstVarNames
    Globals = {}
    Capitalized = {"G"}
    IndexRange = 256
    Programs <- MCPrograms
    Orders <- MCOrders
    PrimitiveNumbers <- MCPrimitives
INVARIANTS CodeWellFormed ErrorsReported ComputesSource
CHECK_DEADLOCK FALSE
