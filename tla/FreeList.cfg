SPECIFICATION Spec
CONSTANTS
  ListSize = 4
  ByteBits = 2
  ShiftBits = 4
  PageSize = 6
  MaxPages = 2
  Request = {1, 2, 4, 5, 7}
CHECK_DEADLOCK FALSE
INVARIANTS PagesTiled MapAgrees ListsBySize
PROPERTIES GrowsForNeed ExactFitFirst
