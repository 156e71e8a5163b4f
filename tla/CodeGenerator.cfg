SPECIFICATION Spec
CONSTANTS
    Spilled = "-1"
    Pinned <- Context0
    PinnedReg = "R12"
    Units <- MCUnits
    RegFiles <- MCRegFiles
INVARIANTS TypeOK NoSharedRegister StackmapsInitialized
PROPERTIES ImplementsByteCode
CHECK_DEADLOCK FALSE
