SPECIFICATION Spec
CONSTANTS
  MaxMemory = 3
  MaxDispute = 4
  MaxFound = 3
  MaxSource = 2
  Request = {r1, r2}
SYMMETRY Sym
PROPERTIES
  WinnerLives
CHECK_DEADLOCK FALSE
